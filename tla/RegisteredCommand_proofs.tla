---------------------- MODULE RegisteredCommand_proofs ----------------------
(***************************************************************************)
(* Proofs about a registered command: the types with the one message per   *)
(* direction, ExecutionIsConfirmed, RecoveryIsFinal, the finality of a     *)
(* quiet verdict, who can still open the admission gate, and the           *)
(* implementation of AdmittedCommand.  TLC explores this module            *)
(* completely; the proofs say why it is correct.                           *)
(*                                                                         *)
(* The argument follows the hand-off.  Guard and anchor each know how far  *)
(* the other can be: a message in flight fixes both positions.  The byte   *)
(* that releases the command comes after the confirmation, and a report    *)
(* after the byte, hence from an anchor that has pinned a started command. *)
(***************************************************************************)
EXTENDS RegisteredCommand, TLAPS

\* Positions of the anchor: before it acknowledges the packet, while it has
\* the packet and not yet the confirmation, and after the confirmation.
Unaware  == {"none", "boot", "accept"}
Taken    == {"check", "owner", "confirming"}
Watching == {"watch", "poll", "recover", "emitted"}

\* The packet: sent by a guard that has started the stub, in the channel as
\* long as the gate travels with it, taken once.
Packet ==
  /\ "packet" \in gate <=> toAnchor = <<"packet">>
  /\ toAnchor = <<"packet">> => anchor \in Unaware
  /\ guard \in {"none", "boot", "paused"} => toAnchor = <<>> /\ anchor \in Unaware \cup {"dead"}
  /\ \/ guard \in {"paused", "acking", "waiting", "reap"}
     \/ toAnchor # <<>>
     \/ anchor \in Taken \cup {"release"} \cup Watching
     => command # "none"
  /\ guard \in {"none", "boot"} => command = "none"

\* Acknowledgement and confirmation: each is sent once, and the sender of one
\* waits for the next.
Answers ==
  /\ anchor \in Unaware \cup {"check", "owner"} => toGuard = <<>> /\ ~confirmed
  /\ guard \in {"none", "boot", "paused", "acking"} \/ toGuard # <<>> => ~confirmed
  /\ guard \in {"none", "boot", "paused"} => toGuard = <<>>
  /\ toAnchor = <<"confirm">> => anchor = "confirming" /\ confirmed
  /\ anchor \in {"release"} \cup Watching \/ released => confirmed
  /\ released => anchor \in Watching \cup {"dead"}
  /\ command = "running" => released

\* An end of the admission socket is in the hands of a process at work.
Gates ==
  /\ "guard" \in gate => guard = "paused"
  /\ "anchor" \in gate => anchor \in Taken \cup {"release"}

\* What the anchor has reported.
Reports ==
  /\ report # "none" => anchor \in {"emitted", "dead"}
  /\ report \in {"quiescent", "recovered"} => guard = "dead" /\ command = "dead"
  /\ report = "recovered" => worker = "dead" /\ ~applied

\* The launcher starts the two processes one after the other and judges them
\* when both are gone.
Launches ==
  /\ session \in {"idle", "started"} => anchor = "none"
  /\ anchor = "none" => session \in {"idle", "started"} \/ guard = "none"
  /\ guard = "none" => session \in {"idle", "done", "lost"} /\ anchor \in {"none", "dead"}
  /\ session = "idle" => guard = "none"
  /\ session = "done" <=> verdict # "none"
  /\ verdict = "quiet" => guard = "dead" /\ command = "dead" /\ anchor = "dead"

IInv == TypeOK /\ Packet /\ Answers /\ Gates /\ Reports /\ Launches

---------------------------------------------------------------------------
(* The two directions of the hand-off channel *)

Channel == /\ toAnchor \in {<<>>, <<"packet">>, <<"confirm">>}
           /\ toGuard \in {<<>>, <<"ack">>}

\* At most one message is what the types say.
LEMMA ShortSeq ==
  ASSUME NEW S, NEW s \in Seq(S), Len(s) <= 1
  PROVE  s = <<>> \/ \E x \in S : s = <<x>>
<1>1. CASE Len(s) = 0
  BY <1>1
<1>2. CASE Len(s) = 1
  BY <1>2
<1>3. Len(s) \in Nat
  OBVIOUS
<1>4. \A n \in Nat : n <= 1 => n = 0 \/ n = 1
  OBVIOUS
<1> QED BY <1>1, <1>2, <1>3, <1>4

LEMMA Typed == TypeOK => Channel
BY ShortSeq DEF TypeOK, Channel

LEMMA ChannelTypes ==
  /\ <<>> \in Seq({"packet", "confirm"}) /\ Len(<<>>) <= 1 /\ <<>> \in Seq({"ack"})
  /\ \A x \in {"packet", "confirm"} : <<x>> \in Seq({"packet", "confirm"}) /\ Len(<<x>>) <= 1
  /\ <<"ack">> \in Seq({"ack"}) /\ Len(<<"ack">>) <= 1
OBVIOUS

LEMMA Messages ==
  \A x : /\ Append(<<>>, x) = <<x>> /\ Tail(<<x>>) = <<>> /\ Head(<<x>>) = x
         /\ <<x>> # <<>> /\ \A y : <<x>> = <<y>> => x = y
OBVIOUS

---------------------------------------------------------------------------
LEMMA InitInv == Init => IInv
BY ChannelTypes, Messages DEF Init, IInv, TypeOK, Packet, Answers, Gates, Reports, Launches,
   Unaware, Taken, Watching

\* The launcher moves nothing but its own position and starts the anchor.
LEMMA LauncherInv == IInv /\ Launcher => IInv'
<1> SUFFICES ASSUME IInv, Launcher PROVE IInv'
  OBVIOUS
<1>0. Channel
  BY Typed DEF IInv
<1> USE <1>0, ChannelTypes, Messages DEF IInv, TypeOK, Packet, Answers, Gates, Reports, Launches,
        Channel, Unaware, Taken, Watching, launcherVars, guardVars, commandVars, anchorVars
<1>1. CASE StartGuard
  BY <1>1 DEF StartGuard, Live
<1>2. CASE StartRefused
  BY <1>2 DEF StartRefused, Judged
<1>3. CASE StartAnchor
  BY <1>3 DEF StartAnchor
<1>4. CASE StartAnchorFailed
  BY <1>4 DEF StartAnchorFailed, NoAnchor
<1>5. CASE StartFailed
  BY <1>5 DEF StartFailed, Judged
<1>6. CASE Judge
  BY <1>6 DEF Judge, Judged
<1>7. CASE WaitTimeout
  BY <1>7 DEF WaitTimeout, Judged
<1> QED BY <1>1, <1>2, <1>3, <1>4, <1>5, <1>6, <1>7 DEF Launcher

\* The guard sends the packet and the confirmation.
LEMMA GuardInv == IInv /\ Guard => IInv'
<1> SUFFICES ASSUME IInv, Guard PROVE IInv'
  OBVIOUS
<1>0. Channel
  BY Typed DEF IInv
<1> USE <1>0, ChannelTypes, Messages DEF IInv, TypeOK, Packet, Answers, Gates, Reports, Launches,
        Channel, Unaware, Taken, Watching, launcherVars, guardVars, commandVars, anchorVars
<1>1. CASE GuardBoot
  <2>1. CASE guard' = "paused" /\ command' = "paused" /\ gate' = gate \cup {"guard"}
    BY <1>1, <2>1 DEF GuardBoot
  <2>2. CASE guard' = "dead" /\ UNCHANGED <<command, gate>>
    BY <1>1, <2>2 DEF GuardBoot
  <2> QED BY <1>1, <2>1, <2>2 DEF GuardBoot
<1>2. CASE GuardSend
  BY <1>2 DEF GuardSend, Live
<1>3. CASE GuardConfirm
  BY <1>3 DEF GuardConfirm
<1>4. CASE GuardFails
  BY <1>4 DEF GuardFails
<1>5. CASE GuardExit
  BY <1>5 DEF GuardExit
<1> QED BY <1>1, <1>2, <1>3, <1>4, <1>5 DEF Guard

\* The command runs only on the byte, and ends.
LEMMA StubInv == IInv /\ Stub => IInv'
<1> SUFFICES ASSUME IInv, Stub PROVE IInv'
  OBVIOUS
<1>0. Channel
  BY Typed DEF IInv
<1> USE <1>0, ChannelTypes, Messages DEF IInv, TypeOK, Packet, Answers, Gates, Reports, Launches,
        Channel, Unaware, Taken, Watching, launcherVars, guardVars, commandVars, anchorVars
<1>1. CASE CommandExec
  BY <1>1 DEF CommandExec
<1>2. CASE CommandRefused
  BY <1>2 DEF CommandRefused
<1>3. CASE CommandEffect
  BY <1>3 DEF CommandEffect
<1>4. CASE CommandExit
  BY <1>4 DEF CommandExit
<1>5. CASE CommandKilled
  BY <1>5 DEF CommandKilled, Live
<1> QED BY <1>1, <1>2, <1>3, <1>4, <1>5 DEF Stub

\* The anchor takes the packet, answers, sends the byte, watches and reports.
LEMMA AnchorInv == IInv /\ Anchor => IInv'
<1> SUFFICES ASSUME IInv, Anchor PROVE IInv'
  OBVIOUS
<1>0. Channel
  BY Typed DEF IInv
<1> USE <1>0, ChannelTypes, Messages DEF IInv, TypeOK, Packet, Answers, Gates, Reports, Launches,
        Channel, Unaware, Taken, Watching, launcherVars, guardVars, commandVars, anchorVars
<1>1. CASE AnchorBoot
  <2>1. CASE anchor' = "accept" /\ UNCHANGED <<exit0, toAnchor, gate>>
    BY <1>1, <2>1 DEF AnchorBoot
  <2>2. CASE AnchorEnds(1)
    BY <1>1, <2>2 DEF AnchorBoot, AnchorEnds
  <2> QED BY <1>1, <2>1, <2>2 DEF AnchorBoot
<1>2. CASE AnchorReceive
  BY <1>2 DEF AnchorReceive
<1>3. CASE AnchorAcquire
  BY <1>3 DEF AnchorAcquire, Live
<1>4. CASE AnchorAck
  BY <1>4 DEF AnchorAck
<1>5. CASE AnchorConfirmed
  BY <1>5 DEF AnchorConfirmed
<1>6. CASE AnchorRelease
  BY <1>6 DEF AnchorRelease, Live
<1>7. CASE AnchorGivesUp
  BY <1>7 DEF AnchorGivesUp, AnchorEnds
<1>8. CASE AnchorWatch
  BY <1>8 DEF AnchorWatch, Live
<1>9. CASE AnchorPoll
  <2>1. CASE anchor' = "watch" /\ UNCHANGED <<exit0, report, toAnchor, gate>>
    BY <1>9, <2>1 DEF AnchorPoll
  <2>2. CASE ~Live(guard) /\ ~Live(command) /\ report' = "quiescent" /\ anchor' = "emitted"
             /\ UNCHANGED <<exit0, toAnchor, gate>>
    BY <1>9, <2>2 DEF AnchorPoll, Live
  <2>3. CASE AnchorEnds(1) /\ UNCHANGED report
    BY <1>9, <2>3 DEF AnchorPoll, AnchorEnds
  <2> QED BY <1>9, <2>1, <2>2, <2>3 DEF AnchorPoll, ReportRead
<1>10. CASE AnchorRecover
  BY <1>10 DEF AnchorRecover, Live
<1>11. CASE AnchorExit
  BY <1>11 DEF AnchorExit, AnchorEnds
<1> QED BY <1>1, <1>2, <1>3, <1>4, <1>5, <1>6, <1>7, <1>8, <1>9, <1>10, <1>11 DEF Anchor

\* Processes end between any two steps.
LEMMA KillsInv == IInv /\ Kills => IInv'
<1> SUFFICES ASSUME IInv, Kills PROVE IInv'
  OBVIOUS
<1>0. Channel
  BY Typed DEF IInv
<1> USE <1>0, ChannelTypes, Messages DEF IInv, TypeOK, Packet, Answers, Gates, Reports, Launches,
        Channel, Unaware, Taken, Watching, launcherVars, guardVars, commandVars, anchorVars
<1>1. CASE KillGuard
  BY <1>1 DEF KillGuard, Live
<1>2. CASE KillCommand
  BY <1>2 DEF KillCommand, Live
<1>3. CASE KillAnchor
  BY <1>3 DEF KillAnchor, AnchorEnds, Live
<1>4. CASE WorkerEnds
  <2>1. CASE NoAnchor /\ UNCHANGED <<exit0, report>> /\ anchor = "none" /\ session' = "lost"
    BY <1>4, <2>1 DEF WorkerEnds, NoAnchor, Live
  <2>2. CASE UNCHANGED <<anchorVars, toAnchor, gate>> /\ ~(session' = "lost" /\ anchor = "none")
    BY <1>4, <2>2 DEF WorkerEnds, Live
  <2> QED BY <1>4, <2>1, <2>2 DEF WorkerEnds
<1>5. CASE BrokerEnds
  <2>1. CASE NoAnchor /\ UNCHANGED <<exit0, report>> /\ anchor = "none"
    BY <1>5, <2>1 DEF BrokerEnds, NoAnchor
  <2>2. CASE UNCHANGED <<anchorVars, toAnchor, gate>> /\ anchor # "none"
    BY <1>5, <2>2 DEF BrokerEnds
  <2> QED BY <1>5, <2>1, <2>2 DEF BrokerEnds
<1> QED BY <1>1, <1>2, <1>3, <1>4, <1>5 DEF Kills
LEMMA StepInv == IInv /\ [Next]_vars => IInv'
<1>1. IInv /\ UNCHANGED vars => IInv'
  BY DEF IInv, TypeOK, Packet, Answers, Gates, Reports, Launches, vars, launcherVars,
     guardVars, commandVars, anchorVars
<1> QED BY <1>1, LauncherInv, GuardInv, StubInv, AnchorInv, KillsInv DEF Next

---------------------------------------------------------------------------
(* Theorems *)

\* The invariant holds throughout.
THEOREM RegisteredInvariant == Spec => []IInv
BY InitInv, StepInv, PTL DEF Spec

\* Types, and with them at most one message in each direction of the
\* hand-off (command_handoff_linux.go).
THEOREM RegisteredTypes == Spec => []TypeOK
<1>1. IInv => TypeOK
  BY DEF IInv
<1> QED BY <1>1, RegisteredInvariant, PTL

\* A command executes only after its guard has validated the acknowledgement
\* (HandoffScoped and Accept).
THEOREM ConfirmedBeforeRun == Spec => []ExecutionIsConfirmed
<1>1. IInv => ExecutionIsConfirmed
  BY DEF IInv, Answers, ExecutionIsConfirmed
<1> QED BY <1>1, RegisteredInvariant, PTL

\* What the anchor has recovered stays clean: worker, guard and command were
\* gone (command_witness_linux.go, Recover).
THEOREM RecoveredStaysClean == Spec => []RecoveryIsFinal
<1>1. IInv => RecoveryIsFinal
  BY DEF IInv, Reports, RecoveryIsFinal
<1> QED BY <1>1, RegisteredInvariant, PTL

\* The write end of the admission socket is open only where somebody at work
\* sends the byte or closes it: in a guard before its hand-off, in an anchor
\* before its release, or in a packet to an anchor that is about to receive
\* it or to be started.  This is the safety half of PausedEnds.
GateIsHeld ==
  gate # {} => \/ guard = "paused"
               \/ anchor \in {"boot", "accept"} \cup Taken \cup {"release"}
               \/ session = "started"

\* A paused command always has somebody who lets it run or ends it: an end of
\* its admission socket that is open is held as GateIsHeld says
\* (command_admission_linux.go).
THEOREM GateAlwaysHeld == Spec => []GateIsHeld
<1>1. IInv => GateIsHeld
  <2> SUFFICES ASSUME IInv, gate # {} PROVE GateIsHeld
    BY DEF GateIsHeld
  <2>1. gate \subseteq {"guard", "packet", "anchor"}
    BY DEF IInv, TypeOK
  <2>2. CASE "guard" \in gate
    BY <2>2 DEF IInv, Gates, GateIsHeld
  <2>3. CASE "anchor" \in gate
    BY <2>3 DEF IInv, Gates, GateIsHeld
  <2>4. CASE "packet" \in gate
    <3>1. toAnchor # <<>> /\ anchor \in Unaware
      BY <2>4, Messages DEF IInv, Packet
    <3>2. guard # "none" /\ session # "idle"
      BY <3>1 DEF IInv, Packet, Launches
    <3> QED BY <3>1, <3>2 DEF IInv, Launches, Unaware, GateIsHeld
  <2> QED BY <2>1, <2>2, <2>3, <2>4
<1> QED BY <1>1, RegisteredInvariant, PTL

---------------------------------------------------------------------------
(* The command as its launcher sees it *)

\* A step that leaves launcher, worker, guard, command and kernel alone.
LEMMA Unseen ==
  UNCHANGED <<session, verdict, worker, guard, command, applied>> => UNCHANGED Promise!vars
BY DEF Promise!vars, Stage, Cmd, Live

\* Every step is a step of the promise, or none.
LEMMA PromiseStep == IInv /\ [Next]_vars => [Promise!Next]_(Promise!vars)
<1> SUFFICES ASSUME IInv, [Next]_vars PROVE Promise!Next \/ UNCHANGED Promise!vars
  OBVIOUS
<1> USE DEF IInv, TypeOK, Launches, Stage, Cmd, Live, launcherVars, guardVars, commandVars, anchorVars
<1>1. CASE StartGuard
  <2>1. Promise!Begin
    BY <1>1 DEF StartGuard, Promise!Begin
  <2> QED BY <2>1 DEF Promise!Next
<1>2. CASE StartRefused
  <2>1. Promise!Refuse
    BY <1>2 DEF StartRefused, Judged, Promise!Refuse
  <2> QED BY <2>1 DEF Promise!Next
<1>3. CASE StartAnchor
  <2>1. UNCHANGED Promise!vars
    BY <1>3 DEF StartAnchor, Promise!vars
  <2> QED BY <2>1 DEF Promise!Next
<1>4. CASE StartAnchorFailed
  <2>1. UNCHANGED Promise!vars
    BY <1>4 DEF StartAnchorFailed, Promise!vars
  <2> QED BY <2>1 DEF Promise!Next
<1>5. CASE StartFailed
  <2>1. Promise!Unverified
    BY <1>5 DEF StartFailed, Judged, Promise!Unverified
  <2> QED BY <2>1 DEF Promise!Next
<1>6. CASE Judge
  <2>1. Promise!Quiet \/ Promise!Unverified
    BY <1>6 DEF Judge, Judged, Reports, Promise!Quiet, Promise!Unverified
  <2> QED BY <2>1 DEF Promise!Next
<1>7. CASE WaitTimeout
  <2>1. Promise!Unverified
    BY <1>7 DEF WaitTimeout, Judged, Promise!Unverified
  <2> QED BY <2>1 DEF Promise!Next
<1>8. CASE GuardBoot
  <2>1. Promise!Exit \/ UNCHANGED Promise!vars
    BY <1>8 DEF GuardBoot, Promise!Exit, Promise!vars
  <2> QED BY <2>1 DEF Promise!Next
<1>9. CASE CommandExec
  <2>1. UNCHANGED Promise!vars
    BY <1>9 DEF CommandExec, Promise!vars
  <2> QED BY <2>1 DEF Promise!Next
<1>10. CASE CommandRefused
  <2>1. Promise!Exit
    BY <1>10 DEF CommandRefused, Packet, Promise!Exit
  <2> QED BY <2>1 DEF Promise!Next
<1>11. CASE CommandEffect
  <2>1. Promise!Effect
    BY <1>11 DEF CommandEffect, Promise!Effect
  <2> QED BY <2>1 DEF Promise!Next
<1>12. CASE CommandExit
  <2>1. Promise!Exit
    BY <1>12 DEF CommandExit, Packet, Promise!Exit
  <2> QED BY <2>1 DEF Promise!Next
<1>13. CASE CommandKilled
  <2>1. Promise!Exit
    BY <1>13 DEF CommandKilled, Promise!Exit
  <2> QED BY <2>1 DEF Promise!Next
<1>14. CASE AnchorRecover
  <2>1. Promise!Recover
    BY <1>14 DEF AnchorRecover, Promise!Recover
  <2> QED BY <2>1 DEF Promise!Next
<1>15. CASE KillGuard
  <2>1. Promise!Exit \/ UNCHANGED Promise!vars
    BY <1>15 DEF KillGuard, Promise!Exit, Promise!vars
  <2> QED BY <2>1 DEF Promise!Next
<1>16. CASE KillCommand
  <2>1. Promise!Exit \/ UNCHANGED Promise!vars
    BY <1>16 DEF KillCommand, Promise!Exit, Promise!vars
  <2> QED BY <2>1 DEF Promise!Next
<1>17. CASE WorkerEnds
  <2>1. Promise!WorkerEnds \/ Promise!Lost
    BY <1>17 DEF WorkerEnds, Promise!WorkerEnds, Promise!Lost
  <2> QED BY <2>1 DEF Promise!Next
<1>18. CASE BrokerEnds
  <2>1. Promise!Lost
    BY <1>18 DEF BrokerEnds, Promise!Lost
  <2> QED BY <2>1 DEF Promise!Next
<1>19. CASE GuardSend \/ GuardConfirm \/ GuardFails \/ GuardExit
  BY <1>19 DEF GuardSend, GuardConfirm, GuardFails, GuardExit, Promise!vars
<1>20. CASE \/ AnchorBoot \/ AnchorReceive \/ AnchorAcquire \/ AnchorAck
            \/ AnchorConfirmed \/ AnchorRelease \/ AnchorGivesUp
            \/ AnchorWatch \/ AnchorPoll \/ AnchorExit
            \/ KillAnchor \/ UNCHANGED vars
  <2>1. UNCHANGED <<session, verdict, worker, guard, command, applied>>
    BY <1>20 DEF AnchorBoot, AnchorReceive, AnchorAcquire, AnchorAck, AnchorConfirmed,
       AnchorRelease, AnchorGivesUp, AnchorWatch, AnchorPoll, AnchorExit, KillAnchor, vars
  <2> QED BY <2>1, Unseen
<1> QED BY <1>1, <1>2, <1>3, <1>4, <1>5, <1>6, <1>7, <1>8, <1>9, <1>10, <1>11, <1>12,
           <1>13, <1>14, <1>15, <1>16, <1>17, <1>18, <1>19, <1>20
        DEF Next, Launcher, Guard, Stub, Anchor, Kills

\* To its launcher a registered command is an AdmittedCommand: whatever is
\* killed, lost or late, a quiet verdict is final and a recovery comes after
\* the command.
THEOREM KeepsPromise == Spec => PromiseSpec
<1>1. Init => Promise!Init
  BY DEF Init, Promise!Init, Stage, Cmd, Live
<1> QED BY <1>1, PromiseStep, RegisteredInvariant, PTL DEF Spec, PromiseSpec, Promise!Spec
=============================================================================
