------------------------- MODULE Supervisor_proofs -------------------------
(***************************************************************************)
(* Proofs about the supervisor, in both modes and for every restart budget *)
(* and any number of commands and sessions: the types with the budget,     *)
(* CleanMeansClean, MarkerGuards, GateMeansQuiet and LaunchOnClean.        *)
(*                                                                         *)
(* The invariant follows a session from its start to its end.  While it    *)
(* recovers and between two attempts nothing is left of an earlier worker; *)
(* during an attempt a running command is the broker's current one or has  *)
(* blocked the registry; once the exit of the worker is known, no worker   *)
(* is up until the next launch.  Quiet is stable: it takes a launch to end *)
(* it.                                                                     *)
(***************************************************************************)
EXTENDS Supervisor, TLAPS

\* Nothing is left of a worker, and nothing can change the kernel.
Quiet == ~owned /\ cmd = "none" /\ Down

\* The exit of the attempt's worker was observed, or nothing was launched.
Known == attempt.exited \/ ~attempt.launched

\* Every attempt but the first is a restart, counted at its gate.
Budget ==
  /\ sup = "recover" => number = 0
  /\ sup \in {"loop", "pin", "await", "running", "term", "grace", "killwait", "drain", "gate"}
       /\ number > 0 => restarts < number

\* The registry counts a command before it is completed, and has room for the
\* request in the channel.
Counted ==
  /\ reg.completed <= reg.requested
  /\ broker = "execute" => reg.completed < reg.requested
  /\ request => reg.requested < MaxCommands

\* The marker is there throughout a brokered session.
Marked ==
  /\ sup # "idle" => marker = brokered
  /\ ~brokered => ~marker
  /\ sessions = 0 => sup = "idle" /\ worker = "none" /\ cmd = "none" /\ ~clean

\* What the position of the session says of worker, commands and resources.
Progress ==
  /\ sup = "recover" => Down /\ cmd = "none" /\ (brokered => ~owned)
  /\ sup = "loop" => Quiet
  /\ sup = "pin" => broker = "off"
  /\ sup \in {"pin", "await", "running", "term", "grace", "killwait"} => ~Known
  /\ sup \in {"drain", "gate", "cleanup"} /\ Known => Down
  /\ sup = "cleanup" => Known
  /\ sup \in {"gate", "cleanup"} => broker \in Returned
  /\ brokered /\ sup # "idle" /\ cmd = "up" => broker = "execute" \/ reg.blocked

IInv == /\ TypeOK /\ Budget /\ Counted
        /\ Marked /\ Progress
        /\ CleanMeansClean /\ MarkerGuards /\ GateMeansQuiet

---------------------------------------------------------------------------

LEMMA InitInv == Init => IInv
<1> SUFFICES ASSUME Init PROVE IInv
  OBVIOUS
<1>1. TypeOK
  <2>1. brokered \in BOOLEAN /\ owned \in BOOLEAN
    BY Zenon DEF Init
  <2>2. number \in 0..MaxRestarts /\ restarts \in 0..number /\ sessions \in 0..MaxSessions
    BY RestartAssumption, BoundAssumption DEF Init
  <2>3. reg \in [requested : 0..MaxCommands, completed : 0..MaxCommands,
                 active : BOOLEAN, blocked : BOOLEAN, sealed : BOOLEAN]
    BY BoundAssumption DEF Init, NewRegistry
  <2> QED BY <2>1, <2>2, <2>3 DEF Init, TypeOK, NoAttempt
<1>2. Budget /\ Counted /\ Marked /\ Progress /\ CleanMeansClean /\ MarkerGuards /\ GateMeansQuiet
  BY DEF Init, Budget, Counted, Marked, Progress, CleanMeansClean, MarkerGuards,
     GateMeansQuiet, NewRegistry, Down, Returned
<1> QED BY <1>1, <1>2 DEF IInv
---------------------------------------------------------------------------
(* Types *)

Registries == [requested : 0..MaxCommands, completed : 0..MaxCommands,
               active : BOOLEAN, blocked : BOOLEAN, sealed : BOOLEAN]
Attempts   == [ready : BOOLEAN, launched : BOOLEAN, exited : BOOLEAN,
               code : {"none", "zero", "failed"}]

LEMMA Typed == TypeOK => reg \in Registries /\ attempt \in Attempts
BY DEF TypeOK, Registries, Attempts

\* What the broker makes of the registry.
LEMMA RegistrySteps ==
  ASSUME NEW r \in Registries
  PROVE  /\ [r EXCEPT !.sealed = TRUE] \in Registries
         /\ [r EXCEPT !.blocked = TRUE] \in Registries
         /\ r.requested < MaxCommands => reserve(r) \in Registries
         /\ finish(r, FALSE) \in Registries
         /\ r.completed < r.requested => finish(r, TRUE) \in Registries
<1>1. r.requested \in 0..MaxCommands /\ r.completed \in 0..MaxCommands
  BY DEF Registries
<1>2. [r EXCEPT !.sealed = TRUE] \in Registries /\ [r EXCEPT !.blocked = TRUE] \in Registries
  BY DEF Registries
<1>3. ASSUME r.requested < MaxCommands PROVE reserve(r) \in Registries
  <2>1. r.requested + 1 \in 0..MaxCommands
    BY <1>1, <1>3, BoundAssumption
  <2> QED BY <2>1 DEF Registries, reserve
<1>4. finish(r, FALSE) \in Registries
  BY DEF Registries, finish
<1>5. ASSUME r.completed < r.requested PROVE finish(r, TRUE) \in Registries
  <2>1. r.completed + 1 \in 0..MaxCommands
    BY <1>1, <1>5, BoundAssumption
  <2>2. (r.blocked \/ ~TRUE) \in BOOLEAN
    BY DEF Registries
  <2> QED BY <2>1, <2>2 DEF Registries, finish
<1> QED BY <1>2, <1>3, <1>4, <1>5

LEMMA RegistryType == IInv /\ Next => reg' \in Registries
<1> SUFFICES ASSUME IInv, Next PROVE reg' \in Registries
  OBVIOUS
<1>0. reg \in Registries /\ NewRegistry \in Registries
  BY Typed, BoundAssumption DEF IInv, NewRegistry, Registries
<1>1. CASE Launch \/ LauncherDies
  BY <1>0, <1>1 DEF Launch, LauncherDies
<1>2. CASE Drain \/ BrokerReply
  BY <1>0, <1>2, RegistrySteps DEF Drain, BrokerReply, BrokerEnd
<1>3. CASE BrokerReceive
  <2>1. reg.requested < MaxCommands
    BY <1>3 DEF IInv, Counted, BrokerReceive
  <2>2. reserve(reg) \in Registries
    BY <1>0, <2>1, RegistrySteps
  <2> QED BY <1>3, <2>2, RegistrySteps DEF BrokerReceive, BrokerEnd
<1>4. CASE BrokerEnds
  BY <1>0, <1>4, RegistrySteps DEF BrokerEnds, BrokerEnd
<1>5. CASE BrokerVerdict
  <2>1. reg.completed < reg.requested
    BY <1>5 DEF IInv, Counted, BrokerVerdict
  <2> QED BY <1>0, <1>5, <2>1, RegistrySteps DEF BrokerVerdict, BrokerEnd
<1>6. CASE MarkerFails \/ Recover \/ LoopReturns \/ Pin \/ Await \/ Running \/ Terminate
           \/ Gate \/ Cleanup \/ Start
  BY <1>0, <1>6 DEF MarkerFails, Recover, LoopReturns, Pin, Await, Running, Terminate, Gate,
     Cleanup, Start, brokerVars
<1>7. CASE AnchorRecovers \/ Worker \/ Cancel
  BY <1>0, <1>7 DEF AnchorRecovers, Worker, WorkerOpens, WorkerReady, WorkerCommand,
     WorkerTimeout, WorkerExits, CommandEffect, CommandExits, Cancel, brokerVars
<1> QED BY <1>1, <1>2, <1>3, <1>4, <1>5, <1>6, <1>7 DEF Next, Session, Broker

LEMMA AttemptType == IInv /\ Next => attempt' \in Attempts
<1> SUFFICES ASSUME IInv, Next PROVE attempt' \in Attempts
  OBVIOUS
<1>0. /\ attempt \in Attempts /\ NoAttempt \in Attempts
      /\ worker \in {"none", "up", "zero", "failed"}
  BY Typed DEF IInv, NoAttempt, Attempts, TypeOK
<1>1. CASE Launch
  BY <1>0, <1>1 DEF Launch, Attempts
<1>2. CASE Pin
  BY <1>0, <1>2 DEF Pin, Ends, Goto, Attempts
<1>3. CASE Await
  BY <1>0, <1>3 DEF Await, Goto, Attempts
<1>4. CASE Terminate
  BY <1>0, <1>4 DEF Terminate, Ends, Goto, Attempts, Down
<1>5. CASE MarkerFails \/ Recover \/ LoopReturns \/ Running \/ Drain \/ Gate \/ Cleanup
           \/ Start \/ LauncherDies
  BY <1>0, <1>5 DEF MarkerFails, Recover, LoopReturns, Running, Drain, Gate, Cleanup,
     Start, LauncherDies, Goto
<1>6. CASE Broker \/ Worker \/ Cancel
  BY <1>0, <1>6 DEF Broker, BrokerReceive, BrokerEnds, BrokerVerdict, BrokerReply,
     AnchorRecovers, Worker, WorkerOpens, WorkerReady, WorkerCommand,
     WorkerTimeout, WorkerExits, CommandEffect, CommandExits, Cancel, supVars
<1> QED BY <1>1, <1>2, <1>3, <1>4, <1>5, <1>6 DEF Next, Session

LEMMA CounterTypes ==
  IInv /\ Next => number' \in 0..MaxRestarts /\ restarts' \in 0..number' /\ Budget'
                  /\ sessions' \in 0..MaxSessions
<1> SUFFICES ASSUME IInv, Next
             PROVE  number' \in 0..MaxRestarts /\ restarts' \in 0..number' /\ Budget'
                    /\ sessions' \in 0..MaxSessions
  OBVIOUS
<1>0. /\ number \in 0..MaxRestarts /\ restarts \in 0..number /\ Budget
      /\ sessions \in 0..MaxSessions /\ number \in Nat /\ restarts \in Nat
  BY RestartAssumption DEF IInv, TypeOK
<1>1. CASE Start
  BY <1>0, <1>1, RestartAssumption, BoundAssumption DEF Start, Budget
<1>2. CASE Recover \/ MarkerFails
  BY <1>0, <1>2 DEF Recover, MarkerFails, Blocked, Budget
<1>8. CASE LoopReturns \/ Launch \/ Pin
  BY <1>0, <1>8 DEF LoopReturns, Return, Launch, Pin, Ends, Goto, Budget
<1>3. CASE Await \/ Running \/ Terminate \/ Drain
  BY <1>0, <1>3 DEF Await, Running, Terminate, Drain, Ends, Goto, Blocked, Budget
<1>4. CASE Gate
  BY <1>0, <1>4 DEF Gate, Blocked, Budget
<1>5. CASE Cleanup
  <2>1. ASSUME Done = "again" PROVE number + 1 \in 0..MaxRestarts
    BY <1>0, <2>1, RestartAssumption DEF Done
  <2>2. number' = number \/ (number' = number + 1 /\ Done = "again")
    BY <1>5 DEF Cleanup
  <2>3. sup' = "loop" => number' = number + 1
    BY <1>5 DEF Cleanup, Return, Blocked
  <2>4. sup' \in {"loop", "idle"} /\ restarts' = restarts /\ sessions' = sessions
    BY <1>5 DEF Cleanup, Return, Blocked
  <2> QED BY <1>0, <2>1, <2>2, <2>3, <2>4 DEF Budget
<1>6. CASE Broker \/ Worker \/ Cancel
  BY <1>0, <1>6 DEF Broker, BrokerReceive, BrokerEnds, BrokerVerdict, BrokerReply,
     AnchorRecovers, Worker, WorkerOpens, WorkerReady, WorkerCommand,
     WorkerTimeout, WorkerExits, CommandEffect, CommandExits, Cancel, supVars, Budget
<1>7. CASE LauncherDies
  BY <1>0, <1>7 DEF LauncherDies, Budget
<1> QED BY <1>1, <1>2, <1>3, <1>4, <1>5, <1>6, <1>7, <1>8 DEF Next, Session

LEMMA DoneValues == Done \in {"stopped", "completed", "exhausted", "again"}
BY DEF Done

Names ==
  /\ sup \in {"idle", "recover", "loop", "pin", "await", "running", "term",
              "grace", "killwait", "drain", "gate", "cleanup"}
  /\ state \in {"none", "blocked", "stopped", "completed", "exhausted", "lost"}
  /\ worker \in {"none", "up", "zero", "failed"}
  /\ ready \in {"none", "good", "bad"} /\ calling \in {"no", "sent", "blocked"}
  /\ broker \in {"off", "receive", "execute", "reply", "done", "abandoned", "orphaned"}
  /\ cmd \in {"none", "up"}

LEMMA NameTypes == IInv /\ Next => Names'
<1> SUFFICES ASSUME IInv, Next PROVE Names'
  OBVIOUS
<1>0. Names
  BY DEF IInv, TypeOK, Names
<1>1. CASE Start \/ MarkerFails \/ Recover \/ LoopReturns
  BY <1>0, <1>1 DEF Names, Start, MarkerFails, Recover, LoopReturns, Return, Blocked, workerVars,
     brokerVars
<1>2. CASE Launch \/ Pin
  BY <1>0, <1>2 DEF Names, Launch, Pin, Ends, Goto, workerVars
<1>3. CASE Await \/ Running \/ Terminate
  BY <1>0, <1>3 DEF Names, Await, Running, Terminate, Ends, Goto, workerVars, brokerVars
<1>4. CASE Drain \/ Gate
  BY <1>0, <1>4 DEF Names, Drain, Gate, Blocked, workerVars, brokerVars
<1>5. CASE Cleanup
  BY <1>0, <1>5, DoneValues DEF Names, Cleanup, Return, Blocked, workerVars, brokerVars
<1>6. CASE Broker
  BY <1>0, <1>6 DEF Names, Broker, BrokerReceive, BrokerEnds, BrokerVerdict, BrokerReply,
     AnchorRecovers, BrokerEnd, supVars, workerVars, brokerVars
<1>7. CASE Worker \/ Cancel \/ LauncherDies
  BY <1>0, <1>7 DEF Names, Worker, WorkerOpens, WorkerReady, WorkerCommand,
     WorkerTimeout, WorkerExits, CommandEffect, CommandExits, Cancel, LauncherDies,
     supVars, workerVars, brokerVars
<1> QED BY <1>1, <1>2, <1>3, <1>4, <1>5, <1>6, <1>7 DEF Next, Session

Flags ==
  /\ brokered \in BOOLEAN /\ stop \in BOOLEAN /\ halt \in BOOLEAN /\ clean \in BOOLEAN
  /\ opened \in BOOLEAN /\ request \in BOOLEAN /\ owned \in BOOLEAN /\ marker \in BOOLEAN

LEMMA FlagTypes == IInv /\ Next => Flags'
<1> SUFFICES ASSUME IInv, Next PROVE Flags'
  OBVIOUS
<1>0. Flags
  BY DEF IInv, TypeOK, Flags
<1>1. CASE Start \/ MarkerFails \/ Recover
  BY <1>0, <1>1, Zenon DEF Flags, Start, MarkerFails, Recover, Blocked, workerVars
<1>2. CASE LoopReturns \/ Cleanup
  BY <1>0, <1>2, Zenon DEF Flags, LoopReturns, Cleanup, Return, Blocked, workerVars
<1>3. CASE Launch \/ Pin \/ Await \/ Running \/ Terminate
  BY <1>0, <1>3, Zenon DEF Flags, Launch, Pin, Await, Running, Terminate, workerVars
<1>4. CASE Drain \/ Gate
  BY <1>0, <1>4, Zenon DEF Flags, Drain, Gate, Blocked, workerVars
<1>6. CASE Broker
  BY <1>0, <1>6, Zenon DEF Flags, Broker, BrokerReceive, BrokerEnds, BrokerVerdict, BrokerReply,
     AnchorRecovers, BrokerEnd, supVars, workerVars, brokerVars
<1>7. CASE Worker \/ Cancel \/ LauncherDies
  BY <1>0, <1>7, Zenon DEF Flags, Worker, WorkerOpens, WorkerReady, WorkerCommand,
     WorkerTimeout, WorkerExits, CommandEffect, CommandExits, Cancel, LauncherDies,
     supVars, workerVars
<1> QED BY <1>1, <1>2, <1>3, <1>4, <1>6, <1>7 DEF Next, Session

LEMMA TypeStep == IInv /\ Next => TypeOK'
BY RegistryType, AttemptType, CounterTypes, NameTypes, FlagTypes
   DEF TypeOK, Registries, Attempts, Names, Flags

---------------------------------------------------------------------------
(* The registry *)

LEMMA CountedStep == IInv /\ Next => Counted'
<1> SUFFICES ASSUME IInv, Next PROVE Counted'
  OBVIOUS
<1>0. /\ Counted /\ reg \in Registries /\ request \in BOOLEAN /\ MaxCommands \in Nat
      /\ reg.requested \in Nat /\ reg.completed \in Nat
  BY Typed, BoundAssumption DEF IInv, TypeOK, Registries
<1>1. CASE Launch \/ LauncherDies
  <2>1. reg' = NewRegistry /\ broker' # "execute" /\ (request' => request)
    BY <1>1 DEF Launch, LauncherDies, workerVars
  <2> QED BY <1>0, <2>1 DEF Counted, NewRegistry
<1>2. CASE BrokerReceive
  <2> DEFINE r == reserve(reg)
  <2>1. request' = FALSE /\ r.requested = reg.requested + 1 /\ r.completed = reg.completed
    BY <1>0, <1>2 DEF BrokerReceive, reserve, Registries
  <2>2. /\ reg'.requested = r.requested /\ reg'.completed = r.completed
    BY <1>0, <1>2 DEF BrokerReceive, BrokerEnd, finish, reserve, Registries
  <2> QED BY <1>0, <2>1, <2>2 DEF Counted
<1>3. CASE BrokerVerdict
  <2>1. /\ reg'.requested = reg.requested /\ reg'.completed \in {reg.completed, reg.completed + 1}
        /\ broker' # "execute" /\ request' = request
    <3>1. finish(reg, TRUE).requested = reg.requested
          /\ finish(reg, TRUE).completed = reg.completed + 1
      BY <1>0 DEF finish, Registries
    <3>2. /\ [finish(reg, FALSE) EXCEPT !.sealed = TRUE].requested = reg.requested
          /\ [finish(reg, FALSE) EXCEPT !.sealed = TRUE].completed = reg.completed
      BY <1>0 DEF finish, Registries
    <3> QED BY <1>3, <3>1, <3>2 DEF BrokerVerdict, BrokerEnd, workerVars
  <2> QED BY <1>0, <1>3, <2>1 DEF Counted, BrokerVerdict
<1>4. CASE Drain \/ BrokerEnds \/ BrokerReply
  <2>1. /\ reg'.requested = reg.requested /\ reg'.completed = reg.completed
        /\ broker' = "execute" => broker = "execute"
        /\ request' = request
    BY <1>0, <1>4 DEF Drain, BrokerEnds, BrokerReply, BrokerEnd, Registries, workerVars
  <2> QED BY <1>0, <2>1 DEF Counted
<1>5. CASE WorkerCommand
  BY <1>0, <1>5 DEF Counted, WorkerCommand, brokerVars
<1>6. CASE MarkerFails \/ Recover \/ LoopReturns \/ Pin \/ Await \/ Running \/ Terminate
           \/ Gate \/ Cleanup \/ Start
  <2>1. reg' = reg /\ request' = request /\ (broker' = "execute" => broker = "execute")
    BY <1>6 DEF MarkerFails, Recover, LoopReturns, Pin, Await, Running, Terminate, Gate,
       Cleanup, Start, brokerVars, workerVars
  <2> QED BY <1>0, <2>1 DEF Counted
<1>7. CASE \/ AnchorRecovers \/ WorkerOpens \/ WorkerReady \/ WorkerTimeout \/ WorkerExits
           \/ CommandEffect \/ CommandExits \/ Cancel
  <2>1. reg' = reg /\ request' = request /\ (broker' = "execute" => broker = "execute")
    BY <1>7 DEF AnchorRecovers, WorkerOpens, WorkerReady, WorkerTimeout, WorkerExits,
       CommandEffect, CommandExits, Cancel, brokerVars, workerVars
  <2> QED BY <1>0, <2>1 DEF Counted
<1> QED BY <1>1, <1>2, <1>3, <1>4, <1>5, <1>6, <1>7 DEF Next, Session, Broker, Worker

---------------------------------------------------------------------------
(* Quiet *)

Safe == Marked /\ Progress /\ CleanMeansClean /\ MarkerGuards /\ GateMeansQuiet

\* The session itself: it only goes on from a point where it knows enough.
LEMMA SessionSafe == IInv /\ (Start \/ Session \/ Cancel \/ LauncherDies) => Safe'
<1> SUFFICES ASSUME IInv, Start \/ Session \/ Cancel \/ LauncherDies PROVE Safe'
  OBVIOUS
<1> USE DEF IInv, TypeOK, Safe, Marked, Progress, Quiet, Known, CleanMeansClean, MarkerGuards,
            GateMeansQuiet, Down, Returned
<1>1. CASE Start
  BY <1>1, BoundAssumption DEF Start, LockFree, workerVars, brokerVars
<1>2. CASE MarkerFails
  BY <1>2 DEF MarkerFails, Blocked, workerVars, brokerVars
<1>3. CASE Recover
  BY <1>3 DEF Recover, Blocked, LockFree, workerVars, brokerVars
<1>4. CASE LoopReturns
  BY <1>4 DEF LoopReturns, Return, workerVars, brokerVars
<1>5. CASE Launch
  BY <1>5 DEF Launch, NoAttempt, NewRegistry, workerVars
<1>6. CASE Pin
  BY <1>6 DEF Pin, Ends, Goto, NoAttempt
<1>7. CASE Await \/ Running
  BY <1>7 DEF Await, Running, Goto, workerVars, brokerVars
<1>8. CASE Terminate
  <2>1. /\ sup' \in {"grace", "killwait", "drain"} /\ worker' = worker
        /\ (attempt' = attempt \/ (Down /\ sup' = "drain"))
    BY <1>8 DEF Terminate, Ends, Goto
  <2> QED BY <1>8, <2>1 DEF Terminate, brokerVars
<1>9. CASE Drain
  BY <1>9 DEF Drain, Blocked, workerVars
<1>10. CASE Gate
  BY <1>10 DEF Gate, Blocked, cleanGate, workerVars, brokerVars
<1>11. CASE Cleanup
  BY <1>11 DEF Cleanup, Blocked, Return, LockFree, workerVars, brokerVars
<1>12. CASE Cancel
  BY <1>12 DEF Cancel, supVars, workerVars, brokerVars
<1>13. CASE LauncherDies
  BY <1>13 DEF LauncherDies, NewRegistry
<1> QED BY <1>1, <1>2, <1>3, <1>4, <1>5, <1>6, <1>7, <1>8, <1>9, <1>10, <1>11, <1>12, <1>13
        DEF Session

\* The broker: a command whose verdict is not quiet blocks the registry.
LEMMA BrokerSafe == IInv /\ Broker => Safe'
<1> SUFFICES ASSUME IInv, Broker PROVE Safe'
  OBVIOUS
<1>1. /\ UNCHANGED <<brokered, stop, sup, state, clean, attempt, worker, marker, sessions>>
      /\ Marked /\ Progress /\ CleanMeansClean /\ MarkerGuards /\ GateMeansQuiet
      /\ owned' \in {owned, FALSE} /\ owned \in BOOLEAN /\ reg \in Registries
  BY Typed DEF IInv, TypeOK, Broker, BrokerReceive, BrokerEnds, BrokerVerdict, BrokerReply,
     AnchorRecovers, supVars, workerVars
<1>0. ~owned => ~owned'
  BY <1>1
<1> USE DEF Safe, Marked, Progress, Quiet, Known, CleanMeansClean, MarkerGuards,
            GateMeansQuiet, Down, Returned
<1>2. CASE BrokerReceive
  <2>1. CASE worker = "up" /\ broker' = "execute"
    BY <1>1, <1>2, <2>1 DEF BrokerReceive
  <2>2. CASE broker' = "done" /\ cmd' = cmd
    <3>1. reg'.blocked
      BY <1>1, <1>2, <2>2 DEF BrokerReceive, BrokerEnd, finish, reserve, Registries
    <3> QED BY <1>1, <1>2, <2>2, <3>1 DEF BrokerReceive
  <2> QED BY <1>2, <2>1, <2>2 DEF BrokerReceive, BrokerEnd
<1>3. CASE BrokerEnds \/ BrokerReply
  <2>1. /\ cmd' = cmd /\ owned' = owned /\ (reg.blocked => reg'.blocked)
        /\ broker \in {"receive", "reply"} /\ broker' \in {"receive", "done"}
    BY <1>1, <1>3 DEF BrokerEnds, BrokerReply, BrokerEnd, Registries
  <2> QED BY <1>1, <2>1
<1>4. CASE BrokerVerdict
  <2>1. cmd' = cmd /\ broker' \in {"reply", "abandoned"} /\ broker = "execute"
    BY <1>4 DEF BrokerVerdict
  <2>2. cmd = "none" \/ reg'.blocked
    BY <1>1, <1>4 DEF BrokerVerdict, BrokerEnd, finish, Registries
  <2> QED BY <1>0, <1>1, <2>1, <2>2
<1>5. CASE AnchorRecovers
  <2>1. cmd' = cmd /\ reg' = reg /\ broker' = broker /\ cmd = "none"
    BY <1>5 DEF AnchorRecovers, brokerVars
  <2> QED BY <1>0, <1>1, <2>1
<1> QED BY <1>2, <1>3, <1>4, <1>5 DEF Broker

\* The worker and its commands: without a live one, none appears.
LEMMA WorkerSafe == IInv /\ Worker => Safe'
<1> SUFFICES ASSUME IInv, Worker PROVE Safe'
  OBVIOUS
<1> USE DEF IInv, TypeOK, Safe, Marked, Progress, Quiet, Known, CleanMeansClean, MarkerGuards,
            GateMeansQuiet, Down, Returned
<1>1. CASE WorkerOpens \/ WorkerReady \/ WorkerTimeout
  BY <1>1 DEF WorkerOpens, WorkerReady, WorkerTimeout, supVars, brokerVars
<1>2. CASE WorkerCommand
  BY <1>2 DEF WorkerCommand, supVars, brokerVars
<1>3. CASE WorkerExits
  BY <1>3 DEF WorkerExits, supVars, brokerVars
<1>4. CASE CommandEffect \/ CommandExits
  BY <1>4 DEF CommandEffect, CommandExits, supVars, workerVars, brokerVars
<1> QED BY <1>1, <1>2, <1>3, <1>4 DEF Worker

---------------------------------------------------------------------------

LEMMA StepInv == IInv /\ [Next]_vars => IInv'
<1> SUFFICES ASSUME IInv, [Next]_vars PROVE IInv'
  OBVIOUS
<1>1. CASE Next
  <2>1. Safe'
    BY <1>1, SessionSafe, BrokerSafe, WorkerSafe DEF Next
  <2> QED BY <1>1, <2>1, TypeStep, CounterTypes, CountedStep DEF IInv, Safe
<1>2. CASE UNCHANGED vars
  BY <1>2 DEF vars, supVars, workerVars, brokerVars, IInv, TypeOK, Budget, Counted, Marked,
     Progress, Quiet, Known, CleanMeansClean, MarkerGuards, GateMeansQuiet, Down
<1> QED BY <1>1, <1>2

\* IInv is inductive, whatever the worker, its commands, the broker and the
\* caller do, whichever timer fires and wherever the launcher is killed.
THEOREM SupervisorInvariant == Spec => []IInv
BY InitInv, StepInv, PTL DEF Spec

\* Types, and with them the restart budget (supervisor_linux.go:171).
THEOREM SupervisorTypes == Spec => []TypeOK
<1>1. IInv => TypeOK
  BY DEF IInv
<1> QED BY <1>1, SupervisorInvariant, PTL

\* A result with Clean set is true: nothing is left (superviseSession and the
\* deferred removal of the marker).
THEOREM CleanIsTrue == Spec => []CleanMeansClean
<1>1. IInv => CleanMeansClean
  BY DEF IInv
<1> QED BY <1>1, SupervisorInvariant, PTL

\* The marker outlives every brokered session that may have left something
\* (broker-session.json).
THEOREM MarkerStays == Spec => []MarkerGuards
<1>1. IInv => MarkerGuards
  BY DEF IInv
<1> QED BY <1>1, SupervisorInvariant, PTL

\* The clean gate of the registry opens on a quiet worker only
\* (WorkerCommandRegistry, cleanGate).
THEOREM OpenGateIsQuiet == Spec => []GateMeansQuiet
<1>1. IInv => GateMeansQuiet
  BY DEF IInv
<1> QED BY <1>1, SupervisorInvariant, PTL

\* A worker is launched only when nothing is left of the one before.
THEOREM LaunchesOnClean == Spec => LaunchOnClean
<1>1. IInv /\ [Next]_vars => [worker # "up" /\ worker' = "up" => ~owned /\ cmd = "none"]_vars
  <2> SUFFICES ASSUME IInv, Next, worker # "up", worker' = "up" PROVE ~owned /\ cmd = "none"
    OBVIOUS
  <2>1. Launch
    BY DEF Next, Start, Session, MarkerFails, Recover, LoopReturns, Pin, Await, Running,
       Terminate, Drain, Gate, Cleanup, Broker, BrokerReceive, BrokerEnds, BrokerVerdict,
       BrokerReply, AnchorRecovers, Worker, WorkerOpens, WorkerReady, WorkerCommand,
       WorkerTimeout, WorkerExits, CommandEffect, CommandExits, Cancel, LauncherDies,
       Down, workerVars
  <2> QED BY <2>1 DEF IInv, Progress, Quiet, Launch
<1> QED BY <1>1, SupervisorInvariant, PTL DEF Spec, LaunchOnClean
=============================================================================
