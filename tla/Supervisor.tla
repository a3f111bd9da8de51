----------------------------- MODULE Supervisor -----------------------------
(***************************************************************************)
(* The bounded supervisor of a worker (supervisor_linux.go) and its        *)
(* brokered variant (worker_broker_linux.go).  A session recovers what is  *)
(* left, then launches the worker up to 1 + MaxRestarts times; after every *)
(* attempt it must know that nothing can still change the kernel before it *)
(* recovers and goes on.                                                   *)
(*                                                                         *)
(* Brokered: the worker's commands run in the broker, one at a time, each  *)
(* a registered command (RegisteredCommand: a quiet verdict means that the *)
(* command has exited); the registry must be complete at the end, and a    *)
(* marker file outlives a session that did not end clean.  Legacy: the     *)
(* worker runs leased commands itself.  Every timer may fire at any time.  *)
(* In legacy mode the loss of the supervisor is not modelled ("not solved  *)
(* by this API"); nor is a second legacy session beside a worker whose     *)
(* exit the first could not observe.                                       *)
(***************************************************************************)
EXTENDS Naturals

CONSTANTS
  MaxRestarts,  \* SupervisorOptions.MaxRestarts
  MaxCommands,  \* bound on the commands of one worker
  MaxSessions   \* bound on the sessions

ASSUME RestartAssumption == MaxRestarts \in 0..3
ASSUME BoundAssumption == MaxCommands \in Nat /\ MaxSessions \in Nat

VARIABLES
  brokered,   \* which of the two entry points is called
  sup,        \* where the supervisor is; "idle": no session
  stop,       \* the caller's context is cancelled
  halt,       \* the broker has cancelled the context of the attempt
  state, clean, restarts,   \* SupervisorResult
  number,     \* attempt number
  attempt,    \* SupervisedAttempt
  worker,     \* "none", "up", or exited: "zero", "failed"
  opened,     \* the worker has the journal open
  ready,      \* what the worker wrote on the readiness pipe
  calling,    \* client side of the broker channel: "no", "sent", "blocked"
  request,    \* a request is queued in the channel
  broker,     \* where the broker is
  reg,        \* WorkerCommandRegistry
  cmd,        \* "none" or "up": the command process
  owned,      \* resources of the plan are in the kernel
  marker,     \* broker-session.json exists
  sessions    \* bound counter

supVars    == <<sup, halt, state, clean, restarts, number, attempt>>
workerVars == <<worker, opened, ready, calling, request>>
brokerVars == <<broker, reg>>
vars == <<brokered, stop, supVars, workerVars, brokerVars, cmd, owned, marker, sessions>>

NoAttempt   == [ready |-> FALSE, launched |-> TRUE, exited |-> FALSE, code |-> "none"]
NewRegistry == [requested |-> 0, completed |-> 0, active |-> FALSE,
                blocked |-> FALSE, sealed |-> FALSE]

Down == worker # "up"

\* OpenScopedIsolated gets the lock: no live worker has it and no command
\* holds the lease.  A command admitted by the broker may have dropped it.
LockFree == /\ Down \/ ~opened
            /\ cmd = "none" \/ brokered

\* The session returns clean.  Its deferred function removes the marker; when
\* that or the directory sync fails the result is neither clean nor s.
Return(s) ==
  /\ sup' = "idle"
  /\ \/ marker' = FALSE /\ state' = s /\ clean' = TRUE
     \/ brokered /\ marker' \in BOOLEAN /\ state' = "blocked" /\ clean' = FALSE

\* Mutant: a blocked session removes its marker.
BlockedUnmarked ==
  /\ sup' = "idle" /\ state' = "blocked" /\ clean' = FALSE
  /\ marker' = FALSE

\* A blocked end, at any point after the marker was created.
Blocked ==
  /\ sup' = "idle" /\ state' = "blocked" /\ clean' = FALSE
  /\ UNCHANGED marker

---------------------------------------------------------------------------
(* Session start *)

\* Lock, session lock and, brokered, no prior state and no marker.
Start ==
  /\ sup = "idle" /\ sessions < MaxSessions
  /\ ~brokered => Down /\ ~stop
  /\ LockFree
  /\ brokered => ~owned /\ ~marker
  /\ sessions' = sessions + 1
  /\ marker' = brokered
  /\ sup' = "recover" /\ state' = "blocked" /\ clean' = FALSE
  /\ restarts' = 0 /\ number' = 0
  /\ UNCHANGED <<brokered, stop, halt, attempt, workerVars, brokerVars, cmd, owned>>

\* The marker was created but its durability is not certain.
MarkerFails ==
  /\ sup = "recover" /\ brokered
  /\ Blocked
  /\ UNCHANGED <<brokered, stop, halt, restarts, number, attempt, workerVars,
                 brokerVars, cmd, owned, sessions>>

\* scopedCleanup before the first attempt.
Recover ==
  /\ sup = "recover"
  /\ \/ /\ LockFree /\ owned' = FALSE
        /\ clean' = TRUE /\ sup' = "loop" /\ UNCHANGED <<state, marker>>
     \/ Blocked /\ UNCHANGED owned
  /\ UNCHANGED <<brokered, stop, halt, restarts, number, attempt, workerVars,
                 brokerVars, cmd, sessions>>

---------------------------------------------------------------------------
(* One attempt: superviseAttemptWithBroker *)

\* Stopped before the launch or during the backoff; brokered, the channel of
\* the attempt may also be unavailable.
LoopReturns ==
  /\ sup = "loop"
  /\ (stop /\ Return("stopped")) \/ (brokered /\ Return("blocked"))
  /\ UNCHANGED <<brokered, stop, halt, restarts, number, attempt, workerVars,
                 brokerVars, cmd, owned, sessions>>

\* The worker is started; or the launch fails, or the factory is refused
\* because it returned a worker it had started itself.
Launch ==
  /\ sup = "loop" /\ ~stop
  /\ clean' = FALSE /\ halt' = FALSE
  /\ reg' = NewRegistry /\ broker' = "off"
  /\ \/ /\ worker' = "up" /\ opened' = FALSE /\ ready' = "none"
        /\ calling' = "no" /\ request' = FALSE
        /\ attempt' = NoAttempt /\ sup' = "pin"
     \/ /\ attempt' \in {[NoAttempt EXCEPT !.launched = FALSE], NoAttempt}
        /\ sup' = "drain"
        /\ UNCHANGED workerVars
  /\ UNCHANGED <<brokered, stop, state, restarts, number, cmd, owned, marker, sessions>>

\* The attempt ends; its exit code counts only when the exit was observed.
Ends(a) == attempt' = a /\ sup' = "drain"
Goto(l) == sup' = l /\ UNCHANGED attempt

\* The child is pinned (and the broker started), or it is killed at once.
Pin ==
  /\ sup = "pin"
  /\ \/ /\ broker' = IF brokered THEN "receive" ELSE "off"
        /\ Goto("await") /\ UNCHANGED worker
     \/ /\ UNCHANGED broker
        /\ \/ worker' = (IF Down THEN worker ELSE "failed") /\ Ends([NoAttempt EXCEPT !.exited = TRUE])
           \/ ~Down /\ UNCHANGED worker /\ Ends(NoAttempt)
  /\ UNCHANGED <<brokered, stop, halt, state, clean, restarts, number, opened,
                 ready, calling, request, reg, cmd, owned, marker, sessions>>

\* The select for readiness.
Await ==
  /\ sup = "await"
  /\ IF ready = "good"
     THEN \/ attempt' = [attempt EXCEPT !.ready = TRUE] /\ sup' = "running"
          \/ Goto("term")
     ELSE Goto("term")
  /\ UNCHANGED <<brokered, stop, halt, state, clean, restarts, number,
                 workerVars, brokerVars, cmd, owned, marker, sessions>>

\* Mutant: a worker that is ready is only waited for.
RunningIgnoresStop ==
  /\ sup = "running"
  /\ halt \/ Down
  /\ Goto("term")
  /\ UNCHANGED <<brokered, stop, halt, state, clean, restarts, number,
                 workerVars, brokerVars, cmd, owned, marker, sessions>>

Running ==
  /\ sup = "running"
  /\ stop \/ halt \/ Down
  /\ Goto("term")
  /\ UNCHANGED <<brokered, stop, halt, state, clean, restarts, number,
                 workerVars, brokerVars, cmd, owned, marker, sessions>>

\* SIGTERM, the grace period, SIGKILL, the kill wait.  A signal that cannot
\* be sent or a wait that ends leaves the exit unobserved.
Terminate ==
  /\ sup \in {"term", "grace", "killwait"}
  /\ UNCHANGED worker
  /\ \/ Down /\ Ends([attempt EXCEPT !.exited = TRUE, !.code = worker])
     \/ ~Down /\ sup = "term" /\ (Goto("grace") \/ Ends(attempt))
     \/ ~Down /\ sup = "grace" /\ (Goto("killwait") \/ Ends(attempt))
     \/ ~Down /\ sup = "killwait" /\ Ends(attempt)
  /\ UNCHANGED <<brokered, stop, halt, state, clean, restarts, number, opened,
                 ready, calling, request, brokerVars, cmd, owned, marker, sessions>>

---------------------------------------------------------------------------
(* After the attempt *)

\* Mutant: a blocked registry passes.
cleanGateUnblocked == reg.sealed /\ ~reg.active

cleanGate == reg.sealed /\ ~reg.blocked /\ ~reg.active /\ reg.requested = reg.completed

\* The broker has ended, or was never started; it is not waited for forever.
Returned == {"off", "done", "abandoned"}
Drain ==
  /\ sup = "drain"
  /\ \/ /\ broker \in Returned
        /\ reg' = [reg EXCEPT !.sealed = TRUE]
        /\ sup' = "gate" /\ UNCHANGED <<state, clean, marker>>
     \/ broker \notin Returned /\ Blocked /\ UNCHANGED reg
  /\ UNCHANGED <<brokered, stop, halt, restarts, number, attempt, workerVars,
                 broker, cmd, owned, sessions>>

\* Mutant: an attempt whose exit was not observed is cleaned up as well.
GateUnobserved ==
  /\ sup = "gate"
  /\ restarts' = IF number > 0 THEN restarts + 1 ELSE restarts
  /\ IF brokered => cleanGate
     THEN sup' = "cleanup" /\ UNCHANGED <<state, clean, marker>>
     ELSE Blocked
  /\ UNCHANGED <<brokered, stop, halt, number, attempt, workerVars, brokerVars,
                 cmd, owned, sessions>>

\* No cleanup and no restart unless the exit was observed (or nothing was
\* launched) and every command of the worker is accounted for.
Gate ==
  /\ sup = "gate"
  /\ restarts' = IF number > 0 THEN restarts + 1 ELSE restarts
  /\ IF /\ attempt.exited \/ ~attempt.launched
        /\ brokered => cleanGate
     THEN sup' = "cleanup" /\ UNCHANGED <<state, clean, marker>>
     ELSE Blocked
  /\ UNCHANGED <<brokered, stop, halt, number, attempt, workerVars, brokerVars,
                 cmd, owned, sessions>>

\* Mutant: one restart too many.
DoneOneMore == CASE stop -> "stopped"
                 [] ~stop /\ attempt.ready /\ attempt.exited /\ attempt.code = "zero" -> "completed"
                 [] OTHER -> IF number > MaxRestarts THEN "exhausted" ELSE "again"

\* What follows a verified cleanup.
Done == CASE stop -> "stopped"
          [] ~stop /\ attempt.ready /\ attempt.exited /\ attempt.code = "zero" -> "completed"
          [] OTHER -> IF number = MaxRestarts THEN "exhausted" ELSE "again"

\* scopedCleanup, then stop, complete, give up or try again.
Cleanup ==
  /\ sup = "cleanup"
  /\ \/ /\ LockFree /\ owned' = FALSE
        /\ \/ Done # "again" /\ Return(Done) /\ UNCHANGED number
           \/ /\ Done = "again"
              /\ sup' = "loop" /\ clean' = TRUE /\ number' = number + 1
              /\ UNCHANGED <<state, marker>>
     \/ Blocked /\ UNCHANGED <<owned, number>>
  /\ UNCHANGED <<brokered, stop, halt, restarts, attempt, workerVars,
                 brokerVars, cmd, sessions>>

---------------------------------------------------------------------------
(* The broker: workerBroker.run *)

\* reserve and finish of the registry.
reserve(r) == [r EXCEPT !.requested = @ + 1, !.active = TRUE]
\* Mutant: an unverified command counts as completed.
finishUnverified(r, quiet) == [r EXCEPT !.active = FALSE, !.completed = @ + 1]

finish(r, quiet) == [r EXCEPT !.active = FALSE,
                              !.blocked = @ \/ ~quiet,
                              !.completed = IF quiet THEN @ + 1 ELSE @]

BrokerEnd(r) == broker' = "done" /\ reg' = [r EXCEPT !.sealed = TRUE]

\* A request is read and admitted; starting the command fails when the
\* worker is gone by then, or for any other reason.
BrokerReceive ==
  /\ broker = "receive" /\ request
  /\ request' = FALSE
  /\ \/ /\ worker = "up"
        /\ reg' = reserve(reg) /\ broker' = "execute"
        /\ cmd' = "up" /\ UNCHANGED halt
     \/ /\ BrokerEnd(finish(reserve(reg), FALSE))
        /\ halt' = TRUE /\ UNCHANGED cmd
  /\ UNCHANGED <<brokered, stop, sup, state, clean, restarts, number, attempt,
                 worker, opened, ready, calling, owned, marker, sessions>>

\* The attempt is over (endObserve) or the channel fails.
BrokerEnds ==
  /\ broker = "receive"
  /\ \/ sup = "drain" /\ BrokerEnd(reg) /\ UNCHANGED halt
     \/ BrokerEnd([reg EXCEPT !.blocked = TRUE]) /\ halt' = TRUE
  /\ UNCHANGED <<brokered, stop, sup, state, clean, restarts, number, attempt,
                 workerVars, cmd, owned, marker, sessions>>

\* The verdict on the command.  Quiet: it has exited, and its anchor too.
\* Otherwise both may still run, and the broker returns without them.
BrokerVerdict ==
  /\ broker = "execute"
  /\ \/ /\ cmd = "none"
        /\ reg' = finish(reg, TRUE) /\ broker' = "reply"
        /\ UNCHANGED halt
     \/ /\ broker' = "abandoned" /\ reg' = [finish(reg, FALSE) EXCEPT !.sealed = TRUE]
        /\ halt' = TRUE
  /\ UNCHANGED <<brokered, stop, sup, state, clean, restarts, number, attempt,
                 workerVars, cmd, owned, marker, sessions>>

\* The reply is sent, or lost: then the worker is stopped.
BrokerReply ==
  /\ broker = "reply"
  /\ \/ /\ worker = "up" /\ broker' = "receive"
        /\ calling' = (IF calling = "sent" THEN "no" ELSE calling)
        /\ UNCHANGED <<reg, halt>>
     \/ BrokerEnd(reg) /\ halt' = TRUE /\ UNCHANGED calling
  /\ UNCHANGED <<brokered, stop, sup, state, clean, restarts, number, attempt,
                 worker, opened, ready, request, cmd, owned, marker, sessions>>

\* The anchor of a command recovers when the worker and the command are gone,
\* before the verdict or, outliving broker and launcher, without one.
AnchorRecovers ==
  /\ broker \in {"execute", "abandoned", "orphaned"}
  /\ cmd = "none" /\ Down
  /\ owned' = FALSE
  /\ UNCHANGED <<brokered, stop, supVars, workerVars, brokerVars, cmd, marker, sessions>>

---------------------------------------------------------------------------
(* The worker, its commands, the caller *)

WorkerOpens ==
  /\ worker = "up" /\ ~opened
  /\ opened' = TRUE
  /\ UNCHANGED <<brokered, stop, supVars, worker, ready, calling, request, brokerVars,
                 cmd, owned, marker, sessions>>

WorkerReady ==
  /\ worker = "up" /\ ready = "none"
  /\ ready' \in {"good", "bad"}
  /\ UNCHANGED <<brokered, stop, supVars, worker, opened, calling, request, brokerVars,
                 cmd, owned, marker, sessions>>

\* d.run of the worker: through the broker, or its own leased command.
WorkerCommand ==
  /\ worker = "up" /\ opened
  /\ IF brokered
     THEN /\ calling = "no" /\ reg.requested < MaxCommands
          /\ calling' = "sent" /\ request' = TRUE
          /\ UNCHANGED cmd
     ELSE cmd = "none" /\ cmd' = "up" /\ UNCHANGED <<calling, request>>
  /\ UNCHANGED <<brokered, stop, supVars, worker, opened, ready, brokerVars,
                 owned, marker, sessions>>

\* The client's 55 s deadline: it never sends another request, but the one it
\* sent may still be in the channel.
WorkerTimeout ==
  /\ worker = "up" /\ calling = "sent"
  /\ calling' = "blocked"
  /\ UNCHANGED <<brokered, stop, supVars, worker, opened, ready, request, brokerVars,
                 cmd, owned, marker, sessions>>

WorkerExits ==
  /\ worker = "up"
  /\ worker' \in {"zero", "failed"}
  /\ UNCHANGED <<brokered, stop, supVars, opened, ready, calling, request, brokerVars,
                 cmd, owned, marker, sessions>>

\* A running command adds or removes resources; it ends in its own time.
CommandEffect ==
  /\ cmd = "up"
  /\ owned' = ~owned
  /\ UNCHANGED <<brokered, stop, supVars, workerVars, brokerVars, cmd, marker, sessions>>

CommandExits ==
  /\ cmd = "up"
  /\ cmd' = "none"
  /\ UNCHANGED <<brokered, stop, supVars, workerVars, brokerVars, owned, marker, sessions>>

Cancel ==
  /\ ~stop /\ stop' = TRUE
  /\ UNCHANGED <<brokered, supVars, workerVars, brokerVars, cmd, owned, marker, sessions>>

\* The brokered launcher is killed; its worker dies with it (Pdeathsig).
LauncherDies ==
  /\ brokered /\ sup # "idle"
  /\ sup' = "idle" /\ state' = "lost" /\ clean' = FALSE
  /\ worker' = IF Down THEN worker ELSE "failed"
  /\ broker' = IF broker \in {"execute", "abandoned"} THEN "orphaned" ELSE "off"
  /\ reg' = NewRegistry
  /\ UNCHANGED <<brokered, stop, halt, restarts, number, attempt, opened, ready,
                 calling, request, cmd, owned, marker, sessions>>

---------------------------------------------------------------------------

Init ==
  /\ brokered \in BOOLEAN
  /\ sup = "idle" /\ stop = FALSE /\ halt = FALSE
  /\ state = "none" /\ clean = FALSE /\ restarts = 0 /\ number = 0
  /\ attempt = NoAttempt
  /\ worker = "none" /\ opened = FALSE /\ ready = "none"
  /\ calling = "no" /\ request = FALSE
  /\ broker = "off" /\ reg = NewRegistry
  /\ cmd = "none" /\ owned \in BOOLEAN /\ marker = FALSE
  /\ sessions = 0

Session == \/ MarkerFails \/ Recover \/ LoopReturns \/ Launch \/ Pin \/ Await
           \/ Running \/ Terminate \/ Drain \/ Gate \/ Cleanup

Broker == \/ BrokerReceive \/ BrokerEnds \/ BrokerVerdict \/ BrokerReply
          \/ AnchorRecovers

Worker == \/ WorkerOpens \/ WorkerReady \/ WorkerCommand \/ WorkerTimeout
          \/ WorkerExits \/ CommandEffect \/ CommandExits

Next == Start \/ Session \/ Broker \/ Worker \/ Cancel \/ LauncherDies

Spec == Init /\ [][Next]_vars

\* The supervisor goes on: each of its waits has a timer, except the one for
\* a worker that is ready, which ends with a stop request.
FairSpec == Spec /\ WF_vars(Session)

---------------------------------------------------------------------------
(* Properties *)

\* The values of the session, the worker, the broker and the registry: the
\* attempts stay within the restart budget (supervisor_linux.go:171).
TypeOK ==
  /\ brokered \in BOOLEAN /\ stop \in BOOLEAN /\ halt \in BOOLEAN
  /\ sup \in {"idle", "recover", "loop", "pin", "await", "running", "term",
              "grace", "killwait", "drain", "gate", "cleanup"}
  /\ state \in {"none", "blocked", "stopped", "completed", "exhausted", "lost"}
  /\ clean \in BOOLEAN
  /\ number \in 0..MaxRestarts /\ restarts \in 0..number
  /\ attempt \in [ready : BOOLEAN, launched : BOOLEAN, exited : BOOLEAN,
                  code : {"none", "zero", "failed"}]
  /\ worker \in {"none", "up", "zero", "failed"} /\ opened \in BOOLEAN
  /\ ready \in {"none", "good", "bad"} /\ calling \in {"no", "sent", "blocked"}
  /\ request \in BOOLEAN
  /\ broker \in {"off", "receive", "execute", "reply", "done", "abandoned", "orphaned"}
  /\ reg \in [requested : 0..MaxCommands, completed : 0..MaxCommands,
              active : BOOLEAN, blocked : BOOLEAN, sealed : BOOLEAN]
  /\ cmd \in {"none", "up"} /\ owned \in BOOLEAN /\ marker \in BOOLEAN
  /\ sessions \in 0..MaxSessions

\* A session that reports Clean leaves no resource, no live worker and no
\* command that could still change the kernel, and no marker.
CleanMeansClean ==
  sup = "idle" /\ clean =>
     ~owned /\ Down /\ cmd = "none" /\ ~marker

\* "Never restart into uncertain ownership": a worker is only launched when
\* nothing is left of the one before, its commands included.
LaunchOnClean ==
  [][worker # "up" /\ worker' = "up" => ~owned /\ cmd = "none"]_vars

\* Whatever a brokered session may have left behind when it was lost or gave
\* up, the marker is there to stop the next one.
MarkerGuards ==
  brokered /\ sessions > 0 /\ (owned \/ cmd = "up" \/ worker = "up") => marker

\* The gate of the registry: when it opens after a worker whose exit was
\* observed, none of its commands is running.
GateMeansQuiet == brokered /\ sup = "cleanup" => cmd = "none" /\ Down

\* A stop request ends the session.
StopReturns == stop ~> sup = "idle"
=============================================================================
