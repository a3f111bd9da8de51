------------------------- MODULE RegisteredCommand -------------------------
(***************************************************************************)
(* One registered command: the launcher starts a guard and an anchor       *)
(* (registered_command_linux.go), the guard starts the command as a paused *)
(* stub (command_admission_linux.go) and hands the release gate and the    *)
(* three pinned identities to the anchor (command_handoff_linux.go), which *)
(* owns the witness (command_witness_linux.go) and is the only one that    *)
(* can release the command.  The launcher waits for both exits and judges  *)
(* the anchor's report.                                                    *)
(*                                                                         *)
(* Any process may be killed between any two steps and every deadline may  *)
(* pass at any time.  The command adds one resource; recovery by the       *)
(* anchor removes it (Journal has the details).  The nonce and the binding *)
(* are left out: a socketpair has exactly two ends and carries one         *)
(* handoff.                                                                *)
(***************************************************************************)
EXTENDS Naturals, Sequences

VARIABLES
  brokered,   \* the launcher is the broker, not the worker itself
  worker,     \* "up" or "dead"
  session,    \* where the launcher is
  verdict,    \* RegisteredCommandResult.Quiescent: "quiet" or "unverified"
  guard,      \* where the guard is
  command,    \* "none", "paused", "running" or "dead"
  applied,    \* the resource of the command is in the kernel
  anchor,     \* where the anchor is
  exit0,      \* the anchor's exit code is 0
  report,     \* what the anchor wrote on the report pipe
  toAnchor, toGuard,  \* the two directions of the handoff channel
  gate,       \* who holds the write end of the admission socket
  released,   \* the admission byte was sent
  confirmed   \* the guard has validated the acknowledgement

launcherVars == <<brokered, session, verdict>>
guardVars    == <<guard, toGuard, confirmed>>
commandVars  == <<command, applied, released>>
anchorVars   == <<anchor, exit0, report>>
vars == <<launcherVars, worker, guardVars, commandVars, anchorVars, toAnchor, gate>>

\* A poll of the pidfd says that the process has not exited.
Live(p) == p \notin {"none", "dead"}

---------------------------------------------------------------------------
(* The launcher: startRegisteredScopedCommand and wait *)

StartGuard ==
  /\ session = "idle"
  /\ Live(worker)
  /\ session' = "started" /\ guard' = "boot"
  /\ UNCHANGED <<brokered, verdict, worker, toGuard, confirmed, commandVars,
                 anchorVars, toAnchor, gate>>

Judged(v) == session' = "done" /\ verdict' = v /\ UNCHANGED brokered

\* A check before the guard is started fails.
StartRefused ==
  /\ session = "idle"
  /\ Judged("unverified")
  /\ UNCHANGED <<worker, guardVars, commandVars, anchorVars, toAnchor, gate>>

StartAnchor ==
  /\ session = "started"
  /\ anchor' = "boot"
  /\ session' \in {"wait", "failing"}   \* failing: its pidfd is unavailable
  /\ UNCHANGED <<brokered, verdict, worker, guardVars, commandVars, exit0,
                 report, toAnchor, gate>>

\* The anchor never comes up, its channel end is closed.
NoAnchor == anchor' = "dead" /\ toAnchor' = <<>> /\ gate' = gate \ {"packet"}

\* The guard cannot be pinned or the anchor not started: terminate the guard
\* and wait for it.
StartAnchorFailed ==
  /\ session = "started"
  /\ NoAnchor
  /\ session' = "failing"
  /\ UNCHANGED <<brokered, verdict, worker, guardVars, commandVars, exit0, report>>

StartFailed ==
  /\ session = "failing"
  /\ guard = "dead" /\ anchor = "dead"
  /\ Judged("unverified")
  /\ UNCHANGED <<worker, guardVars, commandVars, anchorVars, toAnchor, gate>>

\* Both exits are observed; only the broker accepts a recovery as quiescence.
Judge ==
  /\ session = "wait"
  /\ guard = "dead" /\ anchor = "dead"
  /\ LET quiet == \/ report = "quiescent"
                  \/ brokered /\ report = "recovered"
     IN Judged(IF exit0 /\ quiet THEN "quiet" ELSE "unverified")
  /\ UNCHANGED <<worker, guardVars, commandVars, anchorVars, toAnchor, gate>>

WaitTimeout ==
  /\ session = "wait"
  /\ Judged("unverified")
  /\ UNCHANGED <<worker, guardVars, commandVars, anchorVars, toAnchor, gate>>

---------------------------------------------------------------------------
(* The guard: registeredGuardEntry and HandoffScoped *)

\* Mutant: the stub inherits the write end of its own admission socket.
GuardBootLeaksGate ==
  /\ guard = "boot"
  /\ \/ guard' = "paused" /\ command' = "paused" /\ gate' = gate \cup {"guard", "stub"}
     \/ guard' = "dead" /\ UNCHANGED <<command, gate>>
  /\ UNCHANGED <<launcherVars, worker, toGuard, confirmed, applied, released,
                 anchorVars, toAnchor>>

GuardBoot ==
  /\ guard = "boot"
  /\ \/ guard' = "paused" /\ command' = "paused" /\ gate' = gate \cup {"guard"}
     \/ guard' = "dead" /\ UNCHANGED <<command, gate>>
  /\ UNCHANGED <<launcherVars, worker, toGuard, confirmed, applied, released,
                 anchorVars, toAnchor>>

\* The packet carries the gate; the guard keeps no copy.
GuardSend ==
  /\ guard = "paused"
  /\ Live(worker) /\ Live(command) /\ anchor # "dead"
  /\ toAnchor' = Append(toAnchor, "packet")
  /\ gate' = (gate \ {"guard"}) \cup {"packet"}
  /\ guard' = "acking"
  /\ UNCHANGED <<launcherVars, worker, toGuard, confirmed, commandVars, anchorVars>>

\* The acknowledgement is validated and the confirmation sent: the commit
\* point.
GuardConfirm ==
  /\ guard = "acking"
  /\ toGuard # <<>> /\ anchor # "dead"
  /\ toGuard' = Tail(toGuard)
  /\ toAnchor' = Append(toAnchor, "confirm")
  /\ confirmed' = TRUE
  /\ guard' = "waiting"
  /\ UNCHANGED <<launcherVars, worker, commandVars, anchorVars, gate>>

\* Any error, the 8 s deadline or SIGTERM: finish(true) kills the stub.
GuardFails ==
  /\ guard \in {"paused", "acking"}
  /\ guard' = "reap"
  /\ gate' = gate \ {"guard"}
  /\ UNCHANGED <<launcherVars, worker, toGuard, confirmed, commandVars,
                 anchorVars, toAnchor>>

\* Wait returned, or the killed stub is reaped.
GuardExit ==
  /\ guard \in {"waiting", "reap"}
  /\ command = "dead"
  /\ guard' = "dead" /\ toGuard' = <<>>
  /\ UNCHANGED <<launcherVars, worker, confirmed, commandVars, anchorVars,
                 toAnchor, gate>>

---------------------------------------------------------------------------
(* The command: commandAdmissionEntry, then the command itself *)

CommandExec ==
  /\ command = "paused" /\ released
  /\ command' = "running"
  /\ UNCHANGED <<launcherVars, worker, guardVars, applied, released,
                 anchorVars, toAnchor, gate>>

\* No byte and nobody left who could send it: the stub reads EOF.
CommandRefused ==
  /\ command = "paused" /\ ~released /\ gate = {}
  /\ command' = "dead"
  /\ UNCHANGED <<launcherVars, worker, guardVars, applied, released,
                 anchorVars, toAnchor, gate>>

CommandEffect ==
  /\ command = "running" /\ ~applied
  /\ applied' = TRUE
  /\ UNCHANGED <<launcherVars, worker, guardVars, command, released,
                 anchorVars, toAnchor, gate>>

CommandExit ==
  /\ command = "running"
  /\ command' = "dead"
  /\ UNCHANGED <<launcherVars, worker, guardVars, applied, released,
                 anchorVars, toAnchor, gate>>

\* Killed by its guard, whose failure or deadline does that.
CommandKilled ==
  /\ guard \in {"waiting", "reap"} /\ Live(command)
  /\ command' = "dead"
  /\ UNCHANGED <<launcherVars, worker, guardVars, applied, released,
                 anchorVars, toAnchor, gate>>

---------------------------------------------------------------------------
(* The anchor: registeredAnchorEntry, Accept and Recover *)

\* The process ends with code c; its channel end and its gate are closed.
AnchorEnds(c) ==
  /\ anchor' = "dead" /\ exit0' = (c = 0)
  /\ toAnchor' = <<>>
  /\ gate' = gate \ {"anchor", "packet"}

\* NewScopedCommandAnchor pins the expected roles.
AnchorBoot ==
  /\ anchor = "boot"
  /\ \/ /\ Live(worker) /\ Live(guard)
        /\ anchor' = "accept" /\ UNCHANGED <<exit0, toAnchor, gate>>
     \/ AnchorEnds(1)
  /\ UNCHANGED <<launcherVars, worker, guardVars, commandVars, report>>

AnchorReceive ==
  /\ anchor = "accept"
  /\ toAnchor # <<>> /\ Head(toAnchor) = "packet"
  /\ toAnchor' = Tail(toAnchor)
  /\ gate' = (gate \ {"packet"}) \cup {"anchor"}
  /\ anchor' = "check"
  /\ UNCHANGED <<launcherVars, worker, guardVars, commandVars, exit0, report>>

\* The roles are compared and AcquireScopedCommandWitness finds all three
\* identities live.
AnchorAcquire ==
  /\ anchor = "check"
  /\ Live(worker) /\ Live(guard) /\ Live(command)
  /\ anchor' = "owner"
  /\ UNCHANGED <<launcherVars, worker, guardVars, commandVars, exit0, report,
                 toAnchor, gate>>

\* Mutant: the anchor does not wait for the confirmation.
AnchorAckReleases ==
  /\ anchor = "owner"
  /\ guard # "dead"
  /\ toGuard' = Append(toGuard, "ack")
  /\ anchor' = "release"
  /\ UNCHANGED <<launcherVars, worker, guard, confirmed, commandVars, exit0,
                 report, toAnchor, gate>>

\* Mutant: the acknowledgement is sent again and again.
AnchorAckRepeats ==
  /\ anchor = "owner"
  /\ guard # "dead"
  /\ toGuard' = Append(toGuard, "ack")
  /\ UNCHANGED <<launcherVars, worker, guard, confirmed, commandVars, anchorVars,
                 toAnchor, gate>>

AnchorAck ==
  /\ anchor = "owner"
  /\ guard # "dead"
  /\ toGuard' = Append(toGuard, "ack")
  /\ anchor' = "confirming"
  /\ UNCHANGED <<launcherVars, worker, guard, confirmed, commandVars, exit0,
                 report, toAnchor, gate>>

AnchorConfirmed ==
  /\ anchor = "confirming"
  /\ toAnchor # <<>> /\ Head(toAnchor) = "confirm"
  /\ toAnchor' = Tail(toAnchor)
  /\ anchor' = "release"
  /\ UNCHANGED <<launcherVars, worker, guardVars, commandVars, exit0, report, gate>>

\* The byte is sent and the gate closed; sending to a dead stub fails.
AnchorRelease ==
  /\ anchor = "release"
  /\ Live(command)
  /\ released' = TRUE
  /\ gate' = gate \ {"anchor"}
  /\ anchor' = "watch"
  /\ UNCHANGED <<launcherVars, worker, guardVars, command, applied, exit0,
                 report, toAnchor>>

\* An error or the deadline of Accept (8 s) or of the watch (40 s).
AnchorGivesUp ==
  /\ anchor \in {"accept", "check", "owner", "confirming", "release",
                 "watch", "poll", "recover"}
  /\ report' = "blocked"
  /\ AnchorEnds(1)
  /\ UNCHANGED <<launcherVars, worker, guardVars, commandVars>>

\* The worker's pidfd is polled before those of guard and command.
AnchorWatch ==
  /\ anchor = "watch"
  /\ anchor' = IF Live(worker) THEN "poll" ELSE "recover"
  /\ UNCHANGED <<launcherVars, worker, guardVars, commandVars, exit0, report,
                 toAnchor, gate>>

ReportRead == session \notin {"lost", "done"}

\* Mutant: one of the two exits is taken for both.
AnchorPollEither ==
  /\ anchor = "poll"
  /\ IF Live(guard) /\ Live(command)
     THEN anchor' = "watch" /\ UNCHANGED report
     ELSE ReportRead /\ report' = "quiescent" /\ anchor' = "emitted"
  /\ UNCHANGED <<launcherVars, worker, guardVars, commandVars, exit0, toAnchor, gate>>

\* Guard and command are both gone: report it.  A lost pipe is no reason to
\* clean up under a live worker.
AnchorPoll ==
  /\ anchor = "poll"
  /\ IF Live(guard) \/ Live(command)
     THEN anchor' = "watch" /\ UNCHANGED <<exit0, report, toAnchor, gate>>
     ELSE \/ /\ ReportRead
             /\ report' = "quiescent" /\ anchor' = "emitted"
             /\ UNCHANGED <<exit0, toAnchor, gate>>
          \/ /\ ~ReportRead /\ ~Live(worker)
             /\ anchor' = "watch" /\ UNCHANGED <<exit0, report, toAnchor, gate>>
          \/ ~ReportRead /\ Live(worker) /\ AnchorEnds(1) /\ UNCHANGED report
  /\ UNCHANGED <<launcherVars, worker, guardVars, commandVars>>

\* Mutant: the journal is recovered as soon as the worker is gone.
AnchorRecoverEarly ==
  /\ anchor = "recover"
  /\ ~Live(worker)
  /\ applied' = FALSE
  /\ report' = "recovered"
  /\ anchor' = "emitted"
  /\ UNCHANGED <<launcherVars, worker, guardVars, command, released, exit0,
                 toAnchor, gate>>

\* Recover: every pinned exit is observed before the journal is opened.
AnchorRecover ==
  /\ anchor = "recover"
  /\ ~Live(worker) /\ ~Live(guard) /\ ~Live(command)
  /\ applied' = FALSE
  /\ report' = "recovered"
  /\ anchor' = "emitted"
  /\ UNCHANGED <<launcherVars, worker, guardVars, command, released, exit0,
                 toAnchor, gate>>

AnchorExit ==
  /\ anchor = "emitted"
  /\ AnchorEnds(0)
  /\ UNCHANGED <<launcherVars, worker, guardVars, commandVars, report>>

---------------------------------------------------------------------------
(* Kills *)

KillGuard ==
  /\ Live(guard)
  /\ guard' = "dead" /\ toGuard' = <<>>
  /\ gate' = gate \ {"guard"}
  /\ UNCHANGED <<launcherVars, worker, confirmed, commandVars, anchorVars, toAnchor>>

KillCommand ==
  /\ Live(command)
  /\ command' = "dead"
  /\ UNCHANGED <<launcherVars, worker, guardVars, applied, released,
                 anchorVars, toAnchor, gate>>

KillAnchor ==
  /\ Live(anchor)
  /\ AnchorEnds(1)
  /\ UNCHANGED <<launcherVars, worker, guardVars, commandVars, report>>

\* The worker ends.  Without a broker it is the launcher.
WorkerEnds ==
  /\ Live(worker)
  /\ worker' = "dead"
  /\ session' = IF brokered \/ session = "done" THEN session ELSE "lost"
  /\ IF session' = "lost" /\ anchor = "none"
     THEN NoAnchor /\ UNCHANGED <<exit0, report>>
     ELSE UNCHANGED <<anchorVars, toAnchor, gate>>
  /\ UNCHANGED <<brokered, verdict, guardVars, commandVars>>

\* The broker ends; its worker dies with it (Pdeathsig).
BrokerEnds ==
  /\ brokered /\ session # "done" /\ session # "lost"
  /\ session' = "lost" /\ worker' = "dead"
  /\ IF anchor = "none" THEN NoAnchor /\ UNCHANGED <<exit0, report>>
     ELSE UNCHANGED <<anchorVars, toAnchor, gate>>
  /\ UNCHANGED <<brokered, verdict, guardVars, commandVars>>

---------------------------------------------------------------------------

Init ==
  /\ brokered \in BOOLEAN /\ worker = "up"
  /\ session = "idle" /\ verdict = "none"
  /\ guard = "none" /\ command = "none" /\ anchor = "none"
  /\ applied = FALSE /\ released = FALSE /\ confirmed = FALSE
  /\ exit0 = FALSE /\ report = "none"
  /\ toAnchor = <<>> /\ toGuard = <<>> /\ gate = {}

Launcher == \/ StartGuard \/ StartRefused \/ StartAnchor \/ StartAnchorFailed
            \/ StartFailed \/ Judge \/ WaitTimeout

Guard == GuardBoot \/ GuardSend \/ GuardConfirm \/ GuardFails \/ GuardExit

Stub == CommandExec \/ CommandRefused \/ CommandEffect \/ CommandExit \/ CommandKilled

Anchor == \/ AnchorBoot \/ AnchorReceive \/ AnchorAcquire \/ AnchorAck
          \/ AnchorConfirmed \/ AnchorRelease \/ AnchorGivesUp
          \/ AnchorWatch \/ AnchorPoll \/ AnchorRecover \/ AnchorExit

Kills == KillGuard \/ KillCommand \/ KillAnchor \/ WorkerEnds \/ BrokerEnds

Next == Launcher \/ Guard \/ Stub \/ Anchor \/ Kills

Spec == Init /\ [][Next]_vars

\* Every process that is not killed goes on, deadlines included.  The fair
\* steps of the stub leave out the command's own exit.
FairSpec ==
  /\ Spec
  /\ WF_vars(StartAnchor \/ StartAnchorFailed \/ StartFailed \/ Judge \/ WaitTimeout)
  /\ WF_vars(GuardBoot) /\ WF_vars(GuardFails) /\ WF_vars(GuardExit)
  /\ WF_vars(CommandExec) /\ WF_vars(CommandRefused) /\ WF_vars(CommandKilled)
  /\ WF_vars(AnchorBoot) /\ WF_vars(AnchorGivesUp) /\ WF_vars(AnchorExit)

---------------------------------------------------------------------------
(* Properties *)

\* The values of the process states, the socket pair and the gate: the two
\* directions of the handoff never hold more than one message.
TypeOK ==
  /\ brokered \in BOOLEAN /\ worker \in {"up", "dead"}
  /\ session \in {"idle", "started", "failing", "wait", "done", "lost"}
  /\ verdict \in {"none", "quiet", "unverified"}
  /\ guard \in {"none", "boot", "paused", "acking", "waiting", "reap", "dead"}
  /\ command \in {"none", "paused", "running", "dead"}
  /\ anchor \in {"none", "boot", "accept", "check", "owner", "confirming",
                 "release", "watch", "poll", "recover", "emitted", "dead"}
  /\ applied \in BOOLEAN /\ released \in BOOLEAN /\ confirmed \in BOOLEAN
  /\ exit0 \in BOOLEAN
  /\ report \in {"none", "blocked", "quiescent", "recovered"}
  /\ toAnchor \in Seq({"packet", "confirm"}) /\ Len(toAnchor) <= 1
  /\ toGuard \in Seq({"ack"}) /\ Len(toGuard) <= 1
  /\ gate \subseteq {"guard", "packet", "anchor"}

\* A command only executes when its guard has validated the anchor's
\* acknowledgement: a lost ACK, a dead guard or a dead anchor before that
\* point can never let it run.
ExecutionIsConfirmed == command = "running" => confirmed

\* The anchor only recovers when all three identities are gone: what it has
\* cleaned stays clean.
RecoveryIsFinal ==
  report = "recovered" => worker = "dead" /\ guard = "dead"
                          /\ command \in {"none", "dead"} /\ ~applied

\* How the launcher sees the command: its verdict is the stage, and a command
\* that is not started yet may still change the kernel as long as the guard
\* may start it.
Stage == IF session = "done" THEN verdict
         ELSE IF session \in {"idle", "lost"} THEN session ELSE "execute"
Cmd   == IF guard = "boot" \/ Live(command) THEN "up" ELSE "none"

Promise == INSTANCE AdmittedCommand
             WITH stage <- Stage, up <- Live(worker), cmd <- Cmd, owned <- applied

\* A registered command keeps the promise of AdmittedCommand: it changes the
\* kernel only after it was admitted and before it ended, it never comes back,
\* recovery comes after it and only for a dead worker, and a verdict of
\* quiescence comes after both, whatever is killed, lost or late.
PromiseSpec == Promise!Spec

\* A paused command never hangs, even without its own receive timeout: a
\* guard or an anchor that dies or gives up closes the last gate.
PausedEnds == command = "paused" ~> command # "paused"
=============================================================================
