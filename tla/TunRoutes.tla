----------------------------- MODULE TunRoutes -----------------------------
(***************************************************************************)
(* The policy routing of the TUN backend: the route journal run/routes.json*)
(* and its three users (cmd/tun2proxy-web/routes.go), --routes-start,      *)
(* --routes-stop and the --routes-watch process of an engine, driven by    *)
(* the start and stop commands of system/bin/tun2proxyctl.                 *)
(*                                                                         *)
(* Controllers run the shell script; backend.lock serialises the ones the  *)
(* web server starts, but a script outlives a killed server and            *)
(* uninstall.sh calls --routes-stop directly, so controllers may overlap.  *)
(* Controllers and watchers exclude each other by the flock on routes.lock *)
(* and only while they read or change the journal.  The lock is closed on  *)
(* exec and dies with its holder, so a command whose parent was killed (an *)
(* orphan) may take effect under the next holder.                          *)
(*                                                                         *)
(* One resource stands for all resources of its kind (both iptables tools, *)
(* every UID range).  A throw route of a bypass is in the private table    *)
(* like the default route and outlives the TUN device like the policy      *)
(* rule; those two stand for it.                                           *)
(***************************************************************************)
EXTENDS Integers, Sequences

CONSTANTS
  Ctl,          \* tun2proxyctl processes
  MaxEngines,   \* bound on the engines launched
  MaxFaults     \* bound on failing commands, reads and writes, kills and reboots

ASSUME CtlAssumption   == Ctl \cap Int = {}
ASSUME BoundAssumption == MaxEngines \in Nat /\ MaxFaults \in Nat

VARIABLES
  rules,     \* kernel: the kinds of resources that exist
  engine,    \* the running engine (its PID and start time), 0 when none
  launched,  \* engines launched so far
  journal,   \* run/routes.json
  lock,      \* holder of routes.lock: a controller, a watcher (its engine) or 0
  phase,     \* where the holder of the lock is
  idx,       \* the undo entry it is at
  target,    \* ps.PID of startRoutes
  failed,    \* cleanupRoutes: "no", why an undo command failed, or "unread" when
             \* the journal could not be read
  pc,        \* where each controller is in the script
  watchers,  \* engines whose watcher runs
  orphan,    \* a command whose parent was killed
  stray,     \* kernel: what no journal knows of, added by an orphan or forgotten by
             \* a cleanup that could not read the journal
  faults     \* bound counter

kernelVars == <<rules, engine, launched, orphan, stray>>
lockVars   == <<lock, phase, idx, target, failed>>
ctlVars    == <<pc, watchers>>
vars == <<kernelVars, journal, lockVars, ctlVars, faults>>

Engines == 1..MaxEngines

\* What startRoutes adds, in this order.  Each entry of the journal's undo
\* list removes one of them; "content" is undone by flushing the chain.
Plan  == <<"chain", "content", "route", "jump", "rule">>
Steps == 1..Len(Plan)
Kinds == {Plan[i] : i \in Steps}

\* routes.json: the engine it was written for, the length of the undo list
\* and whether an earlier boot wrote it.
NoJournal == [pid |-> 0, undo |-> 0, old |-> FALSE]
Journals  == [pid : Engines, undo : 0..Len(Plan), old : BOOLEAN] \cup {NoJournal}

\* The resources the journal knows how to remove.
Recorded == IF journal.old THEN {} ELSE {Plan[i] : i \in 1..journal.undo}

NoOrphan == [op |-> "none", kind |-> "none"]
Orphans  == [op : {"add", "undo"}, kind : Kinds] \cup {NoOrphan}

Fault == faults < MaxFaults /\ faults' = faults + 1

\* The holder of the lock ends, and its local variables with it.
Release == lock' = 0 /\ phase' = "none" /\ idx' = 0 /\ target' = 0 /\ failed' = "no"

---------------------------------------------------------------------------
(* The commands *)

\* A command of startRoutes that cannot take effect: the resource exists, the
\* chain it needs does not, or the TUN device is gone.
AddRefused(k) ==
  \/ k \in rules \cap {"chain", "route", "rule"}
  \/ k \in {"content", "jump"} /\ "chain" \notin rules
  \/ k = "route" /\ engine = 0

\* Deleting a chain that is not empty or still referenced; every other undo
\* command succeeds or finds its resource absent, which routeAlreadyAbsent
\* accepts.
UndoRefused(k) == k = "chain" /\ rules \cap {"content", "jump"} # {}

---------------------------------------------------------------------------
(* tun2proxyctl *)

\* Where the script goes on after a routes command with exit status 0 or not.
\* It runs under set -e: a failing --routes-stop ends it, and a failed
\* --routes-start is followed by cmd_stop_internal before it dies.
Continue(l, ok) ==
  CASE l = "first" /\ ok   -> IF engine = 0 THEN "launch" ELSE "replace"
    [] l = "replace" /\ ok -> "killOld"
    [] l = "stop" /\ ok    -> "kill"
    [] l = "start" /\ ~ok  -> "stop"
    [] OTHER               -> "idle"

CtlReturn(c, ok) == Release /\ pc' = [pc EXCEPT ![c] = Continue(@, ok)]

\* tun2proxyctl start ("first") and stop begin with --routes-stop.
Request(c, l) ==
  /\ pc[c] = "idle"
  /\ pc' = [pc EXCEPT ![c] = l]
  /\ UNCHANGED <<kernelVars, journal, lockVars, watchers, faults>>

\* kill and wait_for_exit: SIGTERM, then SIGKILL, of whatever engine
\* resolve_engine_pid finds; its TUN device and the route through it go too.
KillEngine(c) ==
  /\ pc[c] \in {"kill", "killOld"}
  /\ engine' = 0 /\ rules' = rules \ {"route"}
  /\ pc' = [pc EXCEPT ![c] = IF @ = "kill" THEN "idle" ELSE "launch"]
  /\ UNCHANGED <<launched, orphan, stray, journal, lockVars, watchers, faults>>

\* The engine is launched; with another one on the same TUN device it exits at
\* once and resolve_engine_pid finds the other.
Launch(c) ==
  /\ pc[c] = "launch"
  /\ IF engine = 0
     THEN launched < MaxEngines /\ launched' = launched + 1 /\ engine' = launched'
     ELSE UNCHANGED <<engine, launched>>
  /\ pc' = [pc EXCEPT ![c] = "check"]
  /\ UNCHANGED <<rules, orphan, stray, journal, lockVars, watchers, faults>>

\* A missing binary or setting, or an engine that did not survive its startup.
LaunchFails(c) ==
  /\ \/ pc[c] = "launch"
     \/ pc[c] = "check" /\ engine = 0
  /\ pc' = [pc EXCEPT ![c] = "idle"]
  /\ UNCHANGED <<kernelVars, journal, lockVars, watchers, faults>>

\* setup_tun_interface, then --routes-start.
SetupTun(c) ==
  /\ pc[c] = "check" /\ engine # 0
  /\ \/ pc' = [pc EXCEPT ![c] = "start"] /\ UNCHANGED faults
     \/ pc' = [pc EXCEPT ![c] = "stop"] /\ Fault
  /\ UNCHANGED <<kernelVars, journal, lockVars, watchers>>

\* The script is killed between two of its commands.
KillCtl(c) ==
  /\ pc[c] # "idle" /\ lock # c
  /\ Fault
  /\ pc' = [pc EXCEPT ![c] = "idle"]
  /\ UNCHANGED <<kernelVars, journal, lockVars, watchers>>

---------------------------------------------------------------------------
(* cleanupRoutes *)

\* The holder reads the journal and begins to undo; a journal of an earlier boot
\* is only removed.  JournalUnread is the read that fails.
StartCleanup(p, ph) ==
  /\ lock' = p /\ phase' = ph
  /\ idx' = IF journal.old THEN 0 ELSE journal.undo
  /\ failed' = "no"

\* withRouteLock of --routes-stop and --routes-start, which both clean up
\* first.
Enter(c) ==
  /\ lock = 0
  /\ pc[c] \in {"first", "replace", "stop", "start"}
  /\ StartCleanup(c, "undo")
  /\ UNCHANGED <<kernelVars, journal, target, ctlVars, faults>>

Cleaning == phase \in {"undo", "abort", "misread"}

\* readRoutes ignores the error of a read or a parse, and bootID that of its
\* read: the undo list is empty, or seems to be of another boot.
JournalUnread ==
  /\ Cleaning /\ failed = "no"
  /\ idx > 0 /\ idx = journal.undo
  /\ Fault
  /\ idx' = 0 /\ failed' = "unread"
  /\ UNCHANGED <<kernelVars, journal, lock, phase, target, ctlVars>>

\* Mutant: the undo list is executed first to last.
UndoForward ==
  /\ Cleaning /\ idx > 0
  /\ LET k == Plan[journal.undo + 1 - idx] IN
     \/ /\ ~UndoRefused(k)
        /\ rules' = rules \ {k} /\ stray' = stray \ {k}
        /\ UNCHANGED <<failed, faults>>
     \/ /\ UndoRefused(k)
        /\ failed' = IF failed = "no" THEN "refused" ELSE failed
        /\ UNCHANGED <<rules, stray, faults>>
  /\ idx' = idx - 1
  /\ UNCHANGED <<engine, launched, orphan, journal, lock, phase, target, ctlVars>>

\* One undo command, last first; a failure is remembered and the rest is done
\* all the same.
Undo ==
  /\ Cleaning /\ idx > 0
  /\ LET k == Plan[idx] IN
     \/ /\ ~UndoRefused(k)
        /\ rules' = rules \ {k} /\ stray' = stray \ {k}
        /\ UNCHANGED <<failed, faults>>
     \/ /\ UndoRefused(k)
        /\ failed' = IF failed = "no" THEN "refused" ELSE failed
        /\ UNCHANGED <<rules, stray, faults>>
     \/ /\ Fault
        /\ failed' = "fault"
        /\ \/ ~UndoRefused(k) /\ rules' = rules \ {k} /\ stray' = stray \ {k}
           \/ UNCHANGED <<rules, stray>>
  /\ idx' = idx - 1
  /\ UNCHANGED <<engine, launched, orphan, journal, lock, phase, target, ctlVars>>

\* The callers' continuation: --routes-start goes on after a successful first
\* cleanup and fails after the deferred one; a watcher ends.
CleanupReturn(ok) ==
  IF lock \in Ctl
  THEN /\ IF pc[lock] = "start" /\ phase = "undo" /\ ok
          THEN phase' = "verify" /\ UNCHANGED <<lock, idx, target, failed, pc>>
          ELSE CtlReturn(lock, ok /\ phase = "undo")
       /\ UNCHANGED watchers
  ELSE Release /\ watchers' = watchers \ {lock} /\ UNCHANGED pc

\* What the kernel still has of a journal that was not read.
Forgotten == IF failed = "unread" THEN rules \cap Recorded ELSE {}

\* The journal is retained when an undo command failed, and removed otherwise:
\* also when it was not read.
CleanupDone ==
  /\ Cleaning /\ idx = 0
  /\ \/ /\ failed \in {"no", "unread"}
        /\ journal' = NoJournal /\ stray' = stray \cup Forgotten
        /\ CleanupReturn(TRUE) /\ UNCHANGED faults
     \/ /\ failed \in {"fault", "refused"}
        /\ CleanupReturn(FALSE) /\ UNCHANGED <<journal, stray, faults>>
     \/ /\ failed \in {"no", "unread"} /\ journal # NoJournal
        /\ Fault /\ CleanupReturn(FALSE) /\ UNCHANGED <<journal, stray>>
  /\ UNCHANGED <<rules, engine, launched, orphan>>

---------------------------------------------------------------------------
(* startRoutes, after its first cleanup *)

\* The configuration, the engine, and a table and chain nobody uses.
Verify ==
  /\ phase = "verify"
  /\ engine # 0
  /\ rules \cap {"chain", "route"} = {}
  /\ target' = engine
  /\ phase' = "write"
  /\ UNCHANGED <<kernelVars, journal, lock, idx, failed, ctlVars, faults>>

\* Routing is off, or a check fails.
VerifyReturns ==
  /\ phase = "verify"
  /\ \E ok \in BOOLEAN : CtlReturn(lock, ok)
  /\ UNCHANGED <<kernelVars, journal, watchers, faults>>

\* The first journal; a failing write has nothing to clean up.
WriteJournal ==
  /\ phase = "write"
  /\ \/ /\ journal' = [pid |-> target, undo |-> 0, old |-> FALSE]
        /\ phase' = "record" /\ idx' = 1
        /\ UNCHANGED <<lock, target, failed, pc, faults>>
     \/ Fault /\ CtlReturn(lock, FALSE) /\ UNCHANGED journal
  /\ UNCHANGED <<kernelVars, watchers>>

\* Mutant: the undo command is recorded after its command.
RecordLate ==
  /\ phase = "record"
  /\ phase' = "run"
  /\ IF idx > 1 THEN journal' = [journal EXCEPT !.undo = idx - 1]
     ELSE UNCHANGED journal
  /\ UNCHANGED <<kernelVars, lock, idx, target, failed, ctlVars, faults>>

\* The undo command is on disk before its command runs.  (A bypass adds a rule
\* to the chain first, which the flush undoes; its failure aborts alike.)
Record ==
  /\ phase = "record"
  /\ \/ /\ journal' = [journal EXCEPT !.undo = idx]
        /\ phase' = "run"
        /\ UNCHANGED <<lock, idx, failed, faults>>
     \/ Fault /\ StartCleanup(lock, "abort") /\ UNCHANGED journal
  /\ UNCHANGED <<kernelVars, target, ctlVars>>

\* Mutant: the end of the plan is not noticed.
RunCommandForever ==
  /\ phase = "run"
  /\ ~AddRefused(Plan[idx])
  /\ rules' = rules \cup {Plan[idx]}
  /\ phase' = "record" /\ idx' = idx + 1
  /\ UNCHANGED <<engine, launched, orphan, stray, journal, lock, target, failed, ctlVars, faults>>

\* The command takes effect or fails, perhaps with its effect.
RunCommand ==
  /\ phase = "run"
  /\ LET k == Plan[idx] IN
     \/ /\ ~AddRefused(k)
        /\ rules' = rules \cup {k}
        /\ IF idx = Len(Plan) THEN phase' = "watch" /\ UNCHANGED idx
           ELSE phase' = "record" /\ idx' = idx + 1
        /\ UNCHANGED <<lock, failed, faults>>
     \/ /\ AddRefused(k)
        /\ StartCleanup(lock, "abort")
        /\ UNCHANGED <<rules, faults>>
     \/ /\ ~AddRefused(k) /\ Fault
        /\ rules' \in {rules, rules \cup {k}}
        /\ StartCleanup(lock, "abort")
  /\ UNCHANGED <<engine, launched, orphan, stray, journal, target, ctlVars>>

\* The watcher is started last.
StartWatcher ==
  /\ phase = "watch"
  /\ \/ /\ watchers' = watchers \cup {target}
        /\ CtlReturn(lock, TRUE) /\ UNCHANGED faults
     \/ Fault /\ StartCleanup(lock, "abort") /\ UNCHANGED <<target, ctlVars>>
  /\ UNCHANGED <<kernelVars, journal>>

---------------------------------------------------------------------------
(* --routes-watch: every two seconds, under the lock *)

\* Mutant: the watcher ends without cleaning up.
WatchEndsUncleaned(e) ==
  /\ e \in watchers /\ lock = 0 /\ engine # e
  /\ watchers' = watchers \ {e}
  /\ UNCHANGED <<kernelVars, journal, lockVars, pc, faults>>

\* Mutant: the journal is not compared with the watcher's engine.
WatchAnyJournal(e) ==
  /\ e \in watchers /\ lock = 0 /\ engine # e
  /\ StartCleanup(e, "undo")
  /\ UNCHANGED <<kernelVars, journal, target, ctlVars, faults>>

\* The journal belongs to another engine, or to none, or cannot be read: the
\* watcher ends.  A poll that finds its engine alive changes nothing.
WatchEnds(e) ==
  /\ e \in watchers /\ lock = 0
  /\ \/ journal.pid # e /\ UNCHANGED faults
     \/ journal.pid = e /\ Fault
  /\ watchers' = watchers \ {e}
  /\ UNCHANGED <<kernelVars, journal, lockVars, pc>>

\* Its engine is gone, or engineIdentity cannot read /proc and takes it for
\* gone.
WatchCleans(e) ==
  /\ e \in watchers /\ lock = 0
  /\ journal.pid = e
  /\ \/ engine # e /\ StartCleanup(e, "undo") /\ UNCHANGED faults
     \/ engine = e /\ StartCleanup(e, "misread") /\ Fault
  /\ UNCHANGED <<kernelVars, journal, target, ctlVars>>

---------------------------------------------------------------------------
(* Deaths *)

\* The engine exits by itself.
EngineDies ==
  /\ engine # 0
  /\ engine' = 0 /\ rules' = rules \ {"route"}
  /\ UNCHANGED <<launched, orphan, stray, journal, lockVars, ctlVars, faults>>

\* The command the holder of the lock is waiting for.
InFlight == IF phase = "run" THEN [op |-> "add", kind |-> Plan[idx]]
            ELSE IF Cleaning /\ idx > 0 THEN [op |-> "undo", kind |-> Plan[idx]]
            ELSE NoOrphan

\* The holder of the lock is killed.  At most one orphan is followed.
KillHolder ==
  /\ lock # 0
  /\ Fault
  /\ orphan' \in (IF orphan = NoOrphan THEN {NoOrphan, InFlight} ELSE {orphan})
  /\ IF lock \in Ctl THEN CtlReturn(lock, FALSE) /\ UNCHANGED watchers
     ELSE Release /\ watchers' = watchers \ {lock} /\ UNCHANGED pc
  /\ UNCHANGED <<rules, engine, launched, stray, journal>>

\* A watcher waiting for its next poll is killed.
KillWatcher(e) ==
  /\ e \in watchers /\ lock # e
  /\ Fault
  /\ watchers' = watchers \ {e}
  /\ UNCHANGED <<kernelVars, journal, lockVars, pc>>

\* An orphan takes effect, or ends without one.
OrphanEnds ==
  /\ orphan # NoOrphan
  /\ orphan' = NoOrphan
  /\ LET k == orphan.kind IN
     \/ /\ orphan.op = "add" /\ ~AddRefused(k)
        /\ rules' = rules \cup {k} /\ stray' = stray \cup {k}
     \/ /\ orphan.op = "undo" /\ ~UndoRefused(k)
        /\ rules' = rules \ {k} /\ stray' = stray \ {k}
     \/ UNCHANGED <<rules, stray>>
  /\ UNCHANGED <<engine, launched, journal, lockVars, ctlVars, faults>>

\* A reboot: the kernel forgets the rules, the journal gets old.
Reboot ==
  /\ Fault
  /\ rules' = {} /\ engine' = 0 /\ orphan' = NoOrphan /\ stray' = {}
  /\ journal' = IF journal = NoJournal THEN NoJournal ELSE [journal EXCEPT !.old = TRUE]
  /\ Release
  /\ pc' = [c \in Ctl |-> "idle"] /\ watchers' = {}
  /\ UNCHANGED launched

---------------------------------------------------------------------------

Init ==
  /\ rules = {} /\ engine = 0 /\ launched = 0
  /\ orphan = NoOrphan /\ stray = {}
  /\ journal = NoJournal
  /\ lock = 0 /\ phase = "none" /\ idx = 0 /\ target = 0 /\ failed = "no"
  /\ pc = [c \in Ctl |-> "idle"]
  /\ watchers = {}
  /\ faults = 0

Script(c) == \/ Request(c, "first") \/ Request(c, "stop")
             \/ KillEngine(c) \/ Launch(c) \/ LaunchFails(c) \/ SetupTun(c)
             \/ Enter(c) \/ KillCtl(c)

Holder == \/ JournalUnread \/ Undo \/ CleanupDone
          \/ Verify \/ VerifyReturns \/ WriteJournal \/ Record \/ RunCommand
          \/ StartWatcher

Watch(e) == WatchEnds(e) \/ WatchCleans(e)

Next == \/ \E c \in Ctl : Script(c)
        \/ Holder
        \/ \E e \in Engines : Watch(e) \/ KillWatcher(e)
        \/ EngineDies \/ KillHolder \/ OrphanEnds \/ Reboot

Spec == Init /\ [][Next]_vars

\* The holder of the lock goes on (its commands run with -w 5 or at once), and
\* a watcher polls every two seconds, in flock's queue like everybody else.
Fairness == WF_vars(Holder) /\ \A e \in Engines : WF_vars(Watch(e))

FairSpec == Spec /\ Fairness

---------------------------------------------------------------------------
(* Properties *)

\* The values of the kernel, the journal and the processes.
TypeOK ==
  /\ rules \subseteq Kinds /\ stray \subseteq Kinds
  /\ engine \in 0..launched /\ launched \in 0..MaxEngines
  /\ journal \in Journals
  /\ lock \in Ctl \cup watchers \cup {0}
  /\ phase \in {"none", "undo", "abort", "misread", "verify", "write", "record", "run",
               "watch"}
  /\ idx \in 0..Len(Plan) /\ target \in 0..MaxEngines
  /\ failed \in {"no", "fault", "refused", "unread"}
  /\ pc \in [Ctl -> {"idle", "first", "replace", "killOld", "launch", "check",
                    "start", "stop", "kill"}]
  /\ watchers \subseteq Engines
  /\ orphan \in Orphans
  /\ faults \in 0..MaxFaults

\* "Each route/firewall mutation is journaled": whichever command or write
\* fails and whoever is killed, a resource that exists can be removed from the
\* journal.  Two things escape it: what an orphaned command added behind its
\* back, and what was in a journal that a cleanup could not read and removed.
RulesJournaled == rules \subseteq Recorded \cup stray

\* The order of the undo list is right for every partial setup and every
\* partial cleanup: an undo command is refused only in a cleanup in which an
\* earlier command failed, or because of a resource no journal knows of.  So a
\* retry of a failed cleanup succeeds as soon as its commands do.
RetryIsNotRefused == failed = "refused" /\ Cleaning => stray # {}

\* A watcher never removes the rules of another engine than its own, however
\* late its poll comes and whatever was started in the meantime, and those of
\* its own only when that is dead or its /proc entry could not be read.
WatcherSparesLiveEngine ==
  lock \in Engines /\ Cleaning => journal.pid = lock /\ (phase = "undo" => engine # lock)

\* Once failures have stopped, the rules of a dead engine whose watcher lives
\* are removed: no controller that comes and goes can prevent it, only a
\* resource no journal knows of, or a cleanup that had already failed.
Abandoned == /\ journal.pid \in watchers /\ engine # journal.pid
             /\ failed = "no" /\ faults = MaxFaults
             /\ ~(rules \subseteq stray)
DeadEngineCleaned == Abandoned ~> rules \subseteq stray \/ stray # {}
=============================================================================
