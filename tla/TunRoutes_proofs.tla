-------------------------- MODULE TunRoutes_proofs --------------------------
(***************************************************************************)
(* Proofs about the TUN route journal, for any number of controllers,      *)
(* engines and failures: every resource in the kernel can be removed from  *)
(* the journal (RulesJournaled), no watcher removes the rules of a running *)
(* engine it can see (WatcherSparesLiveEngine), and an undo command is     *)
(* refused only after a failure or because of a resource no journal knows  *)
(* of (RetryIsNotRefused).                                                 *)
(*                                                                         *)
(* RulesJournaled needs to know how far the holder of the lock has got: the*)
(* undo entry of the command it is about to run is on disk, and what a     *)
(* cleanup without a failure has gone past is gone.  A watcher spares live *)
(* engines because an engine is never launched twice, so all watched ones  *)
(* are below the next to come.  For the refusals, RInv bounds what a       *)
(* pending orphan can still undo, also once its journal was forgotten: then*)
(* the chain it empties keeps startRoutes from going on (Chained).         *)
(***************************************************************************)
EXTENDS TunRoutes, TLAPS

\* The resources of the first n undo entries.
UpTo(n) == {Plan[i] : i \in 1..n}

\* How far the holder is, and what is on disk and in the kernel then.
Progress ==
  /\ phase \in {"verify", "write"} => journal = NoJournal
  /\ phase = "record" => ~journal.old /\ idx > 0 /\ journal.undo = idx - 1
  /\ phase = "run"    => ~journal.old /\ idx > 0 /\ journal.undo = idx
  /\ phase \in {"record", "run", "watch"} => journal.pid = target
  /\ Cleaning => idx <= journal.undo
  /\ Cleaning /\ failed = "no" =>
       rules \subseteq stray \cup (IF journal.old THEN {} ELSE UpTo(idx))

\* Who may hold the lock where.
Holding ==
  /\ phase \in {"abort", "verify", "write", "record", "run", "watch"} => lock \in Ctl
  /\ phase \in {"write", "record", "run", "watch"} => target \in 1..launched
  /\ watchers \subseteq 1..launched

IInv == TypeOK /\ RulesJournaled /\ Progress /\ Holding /\ WatcherSparesLiveEngine

---------------------------------------------------------------------------

LEMMA PlanFacts ==
  /\ Len(Plan) = 5
  /\ Kinds = UpTo(5)
  /\ \A i \in 1..5 : Plan[i] \in Kinds
  /\ "route" \in Kinds
<1>1. Len(Plan) = 5  BY DEF Plan
<1>2. Kinds = UpTo(5)  BY <1>1 DEF Kinds, Steps, UpTo
<1>3. "route" = Plan[3]  BY DEF Plan
<1> QED BY <1>1, <1>2, <1>3 DEF UpTo

LEMMA RecordedIs == Recorded = IF journal.old THEN {} ELSE UpTo(journal.undo)
BY DEF Recorded, UpTo

LEMMA JournalType ==
  ASSUME journal \in Journals
  PROVE  /\ journal.undo \in 0..5 /\ journal.old \in BOOLEAN /\ journal.pid \in Int
         /\ journal = NoJournal => journal.undo = 0 /\ ~journal.old
<1>1. CASE journal = NoJournal
  BY <1>1 DEF NoJournal
<1>2. CASE journal \in [pid : Engines, undo : 0..Len(Plan), old : BOOLEAN]
  BY <1>2, PlanFacts DEF Engines, NoJournal
<1> QED BY <1>1, <1>2 DEF Journals

\* No controller is an engine.
LEMMA CtlNoEngine == \A c \in Ctl : c \notin Engines /\ c # 0
BY CtlAssumption DEF Engines

LEMMA InitInv == Init => IInv
<1> SUFFICES ASSUME Init PROVE IInv
  OBVIOUS
<1> USE DEF Init
<1>1. TypeOK
  BY BoundAssumption, PlanFacts DEF TypeOK, Journals, Orphans
<1>2. RulesJournaled /\ Progress /\ Holding /\ WatcherSparesLiveEngine
  BY CtlAssumption DEF RulesJournaled, Progress, Holding, WatcherSparesLiveEngine, Cleaning
<1> QED BY <1>1, <1>2 DEF IInv

---------------------------------------------------------------------------
(* Steps that leave the lock and the journal alone *)

\* Where the script and the watchers are does not matter to the journal.
LEMMA ScriptInv ==
  ASSUME IInv, NEW c \in Ctl,
         \/ Request(c, "first") \/ Request(c, "stop") \/ KillEngine(c) \/ Launch(c)
         \/ LaunchFails(c) \/ SetupTun(c) \/ KillCtl(c)
  PROVE  IInv'
<1>1. TypeOK'
  BY BoundAssumption DEF IInv, TypeOK, Request, KillEngine, Launch, LaunchFails, SetupTun,
     KillCtl, Fault, kernelVars, lockVars
<1>2. /\ journal' = journal /\ lockVars' = lockVars /\ stray' = stray
      /\ rules' \subseteq rules /\ watchers' = watchers
      /\ launched' \in Nat /\ launched <= launched'
      /\ engine' \in {engine, 0, launched + 1}
  BY DEF IInv, TypeOK, Request, KillEngine, Launch, LaunchFails, SetupTun,
     KillCtl, kernelVars, lockVars
<1>3. RulesJournaled' /\ Progress'
  BY <1>2 DEF IInv, RulesJournaled, Recorded, Progress, UpTo, Cleaning, lockVars
<1>4. Holding'
  BY <1>2 DEF IInv, TypeOK, Holding, lockVars
<1>5. WatcherSparesLiveEngine'
  <2>1. lock \in Engines => lock \in 1..launched
    BY CtlNoEngine DEF IInv, TypeOK, Holding, Engines
  <2> QED BY <1>2, <2>1 DEF IInv, TypeOK, WatcherSparesLiveEngine, Cleaning, Engines, lockVars
<1> QED BY <1>1, <1>3, <1>4, <1>5 DEF IInv

LEMMA EngineDiesInv == ASSUME IInv, EngineDies PROVE IInv'
<1>1. TypeOK'
  BY DEF IInv, TypeOK, EngineDies, lockVars, ctlVars
<1>2. RulesJournaled' /\ Progress' /\ Holding' /\ WatcherSparesLiveEngine'
  BY DEF IInv, EngineDies, lockVars, ctlVars, RulesJournaled, Recorded, Progress, UpTo,
     Holding, WatcherSparesLiveEngine, Cleaning, Engines
<1> QED BY <1>1, <1>2 DEF IInv

LEMMA OrphanInv == ASSUME IInv, OrphanEnds PROVE IInv'
<1> DEFINE k == orphan.kind
<1>1. k \in Kinds  BY DEF IInv, TypeOK, Orphans, OrphanEnds
<1>2. \/ rules' = rules \cup {k} /\ stray' = stray \cup {k}
      \/ rules' = rules \ {k} /\ stray' = stray \ {k}
      \/ rules' = rules /\ stray' = stray
  BY DEF OrphanEnds
<1>3. /\ orphan' = NoOrphan
      /\ UNCHANGED <<engine, launched, journal, lockVars, ctlVars, faults>>
  BY DEF OrphanEnds
<1> HIDE DEF k
<1>4. TypeOK'
  BY <1>1, <1>2, <1>3 DEF IInv, TypeOK, Orphans, lockVars, ctlVars
<1>5. RulesJournaled' /\ Progress'
  BY <1>2, <1>3 DEF IInv, RulesJournaled, Recorded, Progress, UpTo, Cleaning, lockVars
<1>6. Holding' /\ WatcherSparesLiveEngine'
  BY <1>3 DEF IInv, Holding, WatcherSparesLiveEngine, Cleaning, lockVars, ctlVars
<1> QED BY <1>4, <1>5, <1>6 DEF IInv

LEMMA WatcherEndsInv ==
  ASSUME IInv, NEW e \in Engines, WatchEnds(e) \/ KillWatcher(e)
  PROVE  IInv'
<1>1. TypeOK'
  <2>1. CASE WatchEnds(e)
    BY <2>1, BoundAssumption DEF IInv, TypeOK, WatchEnds, Fault, kernelVars, lockVars
  <2>2. CASE KillWatcher(e)
    BY <2>2, BoundAssumption DEF IInv, TypeOK, KillWatcher, Fault, kernelVars, lockVars
  <2> QED BY <2>1, <2>2
<1>2. RulesJournaled' /\ Progress' /\ Holding' /\ WatcherSparesLiveEngine'
  BY DEF IInv, WatchEnds, KillWatcher, kernelVars, lockVars, RulesJournaled, Recorded,
     Progress, UpTo, Holding, WatcherSparesLiveEngine, Cleaning
<1> QED BY <1>1, <1>2 DEF IInv

---------------------------------------------------------------------------
(* The lock is given back *)

LEMMA ReleaseInv ==
  ASSUME IInv, Release, UNCHANGED <<engine, launched>>,
         TypeOK', RulesJournaled', watchers' \subseteq watchers \cup 1..launched
  PROVE  IInv'
<1>1. Progress' /\ WatcherSparesLiveEngine'
  BY DEF Release, Progress, WatcherSparesLiveEngine, Cleaning
<1>2. Holding'
  BY DEF IInv, Holding, Release
<1> QED BY <1>1, <1>2 DEF IInv

LEMMA ContinueType ==
  ASSUME NEW l, NEW ok
  PROVE  Continue(l, ok) \in {"idle", "launch", "replace", "killOld", "kill", "stop"}
BY DEF Continue

LEMMA CtlReturnType ==
  ASSUME IInv, lock \in Ctl, NEW ok, CtlReturn(lock, ok)
  PROVE  /\ lock' = 0 /\ phase' = "none" /\ idx' = 0 /\ target' = 0 /\ failed' = "no"
         /\ pc' \in [Ctl -> {"idle", "first", "replace", "killOld", "launch", "check",
                            "start", "stop", "kill"}]
BY ContinueType DEF IInv, TypeOK, CtlReturn, Release

LEMMA KillHolderInv == ASSUME IInv, KillHolder PROVE IInv'
<1>1. InFlight \in Orphans
  <2>1. CASE phase = "run" \/ (Cleaning /\ idx > 0)
    <3>1. idx \in 1..5
      BY <2>1, PlanFacts DEF IInv, TypeOK, Progress
    <3> QED BY <2>1, <3>1, PlanFacts DEF InFlight, Orphans
  <2>2. CASE ~(phase = "run" \/ (Cleaning /\ idx > 0))
    BY <2>2 DEF InFlight, Orphans
  <2> QED BY <2>1, <2>2
<1>2. orphan' \in Orphans
  BY <1>1 DEF IInv, TypeOK, KillHolder, Orphans
<1>3. /\ Release /\ watchers' \subseteq watchers
      /\ pc' \in [Ctl -> {"idle", "first", "replace", "killOld", "launch", "check",
                          "start", "stop", "kill"}]
  BY CtlReturnType DEF IInv, TypeOK, KillHolder, CtlReturn
<1>4. TypeOK'
  BY <1>2, <1>3, PlanFacts, BoundAssumption DEF IInv, TypeOK, KillHolder, Release, Fault
<1>5. RulesJournaled'
  BY DEF IInv, RulesJournaled, Recorded, KillHolder
<1> QED BY <1>3, <1>4, <1>5, ReleaseInv DEF KillHolder

LEMMA RebootInv == ASSUME IInv, Reboot PROVE IInv'
<1>1. journal' \in Journals
  BY DEF IInv, TypeOK, Reboot, Journals, NoJournal
<1>2. TypeOK'
  BY <1>1, PlanFacts, BoundAssumption DEF IInv, TypeOK, Reboot, Release, Fault, Orphans
<1>3. RulesJournaled' /\ Progress' /\ Holding' /\ WatcherSparesLiveEngine'
  BY DEF Reboot, Release, RulesJournaled, Progress, Holding, WatcherSparesLiveEngine, Cleaning
<1> QED BY <1>2, <1>3 DEF IInv

---------------------------------------------------------------------------
(* cleanupRoutes *)

\* A cleanup begins with everything recorded still to undo.
LEMMA StartCleanupInv ==
  ASSUME IInv, NEW p, NEW ph \in {"undo", "abort", "misread"}, StartCleanup(p, ph),
         TypeOK', UNCHANGED <<journal, stray, engine, launched, watchers>>,
         RulesJournaled', target' = target,
         ph = "abort" => p \in Ctl,
         p \in Engines => journal.pid = p /\ (ph = "undo" => engine # p)
  PROVE  IInv'
<1>1. Progress'
  BY RecordedIs, JournalType
  DEF IInv, TypeOK, StartCleanup, Progress, RulesJournaled, Recorded, UpTo, Cleaning
<1>2. Holding' /\ WatcherSparesLiveEngine'
  BY DEF IInv, StartCleanup, Holding, WatcherSparesLiveEngine, Cleaning
<1> QED BY <1>1, <1>2 DEF IInv

LEMMA StartCleanupType ==
  ASSUME IInv, NEW p, NEW ph \in {"undo", "abort", "misread"}, StartCleanup(p, ph)
  PROVE  lock' = p /\ phase' = ph /\ idx' \in 0..Len(Plan) /\ failed' = "no"
BY JournalType, PlanFacts DEF IInv, TypeOK, StartCleanup

LEMMA EnterInv == ASSUME IInv, NEW c \in Ctl, Enter(c) PROVE IInv'
<1>1. TypeOK'
  BY StartCleanupType DEF IInv, TypeOK, Enter, kernelVars, ctlVars
<1>2. RulesJournaled'
  BY DEF IInv, RulesJournaled, Recorded, Enter, kernelVars
<1> QED BY <1>1, <1>2, StartCleanupInv, CtlNoEngine DEF Enter, kernelVars, ctlVars

LEMMA WatchCleansInv == ASSUME IInv, NEW e \in Engines, WatchCleans(e) PROVE IInv'
<1>1. PICK ph \in {"undo", "misread"} :
        StartCleanup(e, ph) /\ (ph = "undo" => engine # e)
  BY DEF WatchCleans
<1>2. faults' \in 0..MaxFaults
  BY BoundAssumption DEF IInv, TypeOK, WatchCleans, Fault
<1>3. e \in watchers /\ journal.pid = e
      /\ UNCHANGED <<kernelVars, journal, target, ctlVars>>
  BY DEF WatchCleans
<1>4. TypeOK'
  BY <1>1, <1>2, <1>3, StartCleanupType DEF IInv, TypeOK, kernelVars, ctlVars
<1>5. RulesJournaled'
  BY <1>3 DEF IInv, RulesJournaled, Recorded, kernelVars
<1> QED BY <1>1, <1>3, <1>4, <1>5, CtlNoEngine, StartCleanupInv DEF kernelVars, ctlVars

\* A failed read leaves the kernel and the journal alone.
LEMMA JournalUnreadInv == ASSUME IInv, JournalUnread PROVE IInv'
<1>1. TypeOK'
  BY PlanFacts, BoundAssumption DEF IInv, TypeOK, JournalUnread, Fault, kernelVars, ctlVars
<1>2. RulesJournaled'
  BY DEF IInv, RulesJournaled, Recorded, JournalUnread, kernelVars
<1>3. Progress'
  BY JournalType DEF IInv, TypeOK, Progress, JournalUnread, Cleaning, kernelVars
<1>4. Holding' /\ WatcherSparesLiveEngine'
  BY DEF IInv, JournalUnread, Holding, WatcherSparesLiveEngine, Cleaning, kernelVars, ctlVars
<1> QED BY <1>1, <1>2, <1>3, <1>4 DEF IInv

LEMMA UndoInv == ASSUME IInv, Undo PROVE IInv'
<1> DEFINE k == Plan[idx]
<1>1. idx \in 1..5 /\ idx <= journal.undo /\ Cleaning /\ idx' = idx - 1
      /\ UNCHANGED <<engine, launched, orphan, journal, lock, phase, target, ctlVars>>
  BY PlanFacts DEF IInv, TypeOK, Undo, Progress
<1>2. k \in Kinds  BY <1>1, PlanFacts
<1>3. \/ rules' = rules \ {k} /\ stray' = stray \ {k} /\ failed' = failed
      \/ rules' = rules /\ stray' = stray /\ failed' # "no"
      \/ rules' = rules \ {k} /\ stray' = stray \ {k} /\ failed' # "no"
  BY DEF Undo
<1>4. failed' \in {"no", "fault", "refused", "unread"} /\ faults' \in 0..MaxFaults
  BY BoundAssumption DEF IInv, TypeOK, Undo, Fault
<1> HIDE DEF k
<1>5. TypeOK'
  BY <1>1, <1>2, <1>3, <1>4, PlanFacts DEF IInv, TypeOK, ctlVars
<1>6. RulesJournaled'
  BY <1>1, <1>3 DEF IInv, RulesJournaled, Recorded
<1>7. Progress'
  <2>1. ASSUME failed' = "no"
        PROVE  rules' \subseteq stray' \cup (IF journal.old THEN {} ELSE UpTo(idx - 1))
    <3>1. rules \subseteq stray \cup (IF journal.old THEN {} ELSE UpTo(idx))
      BY <1>1, <1>3, <2>1 DEF IInv, Progress
    <3>2. UpTo(idx) \subseteq UpTo(idx - 1) \cup {k}
      BY <1>1 DEF UpTo, k
    <3> QED BY <1>3, <2>1, <3>1, <3>2
  <2> QED BY <1>1, <2>1, JournalType DEF IInv, TypeOK, Progress, Cleaning, UpTo
<1>8. Holding' /\ WatcherSparesLiveEngine'
  BY <1>1 DEF IInv, Holding, WatcherSparesLiveEngine, Cleaning, ctlVars
<1> QED BY <1>5, <1>6, <1>7, <1>8 DEF IInv

LEMMA CleanupDoneInv == ASSUME IInv, CleanupDone PROVE IInv'
<1>1. Cleaning /\ idx = 0 /\ UNCHANGED <<rules, engine, launched, orphan>>
  BY DEF CleanupDone
<1>2. /\ \/ journal' = journal /\ stray' = stray
         \/ /\ failed \in {"no", "unread"}
            /\ journal' = NoJournal /\ stray' = stray \cup Forgotten
      /\ stray' \subseteq Kinds
      /\ faults' \in 0..MaxFaults
  <2>1. faults \in 0..MaxFaults /\ (Fault => faults' \in 0..MaxFaults)
    BY BoundAssumption DEF IInv, TypeOK, Fault
  <2>2. Forgotten \subseteq Kinds
    BY DEF Forgotten, IInv, TypeOK
  <2> QED BY <2>1, <2>2 DEF CleanupDone, IInv, TypeOK
<1>3. RulesJournaled'
  <2>1. CASE journal' = journal /\ stray' = stray
    BY <1>1, <2>1 DEF IInv, RulesJournaled, Recorded
  <2>2. CASE failed = "no" /\ stray' = stray \cup Forgotten
    <3>1. UpTo(0) = {}  BY DEF UpTo
    <3>2. rules \subseteq stray
      BY <1>1, <2>2, <3>1 DEF IInv, Progress
    <3> QED BY <1>1, <2>2, <3>2 DEF RulesJournaled
  <2>3. CASE failed = "unread" /\ stray' = stray \cup Forgotten
    BY <1>1, <2>3 DEF IInv, RulesJournaled, Forgotten
  <2> QED BY <1>2, <2>1, <2>2, <2>3
<1>4. CASE phase' = "verify" /\ UNCHANGED <<lock, idx, target, failed, pc, watchers>>
           /\ lock \in Ctl /\ journal' = NoJournal
  <2>1. TypeOK'
    BY <1>1, <1>2, <1>4 DEF IInv, TypeOK, Journals
  <2>2. Progress' /\ Holding' /\ WatcherSparesLiveEngine'
    BY <1>1, <1>4 DEF IInv, Progress, Holding, WatcherSparesLiveEngine, Cleaning
  <2> QED BY <1>3, <2>1, <2>2 DEF IInv
<1>5. CASE Release /\ watchers' \subseteq watchers
           /\ pc' \in [Ctl -> {"idle", "first", "replace", "killOld", "launch", "check",
                              "start", "stop", "kill"}]
  <2>1. TypeOK'
    BY <1>1, <1>2, <1>5, PlanFacts, BoundAssumption
    DEF IInv, TypeOK, Journals, Release
  <2> QED BY <1>1, <1>3, <1>5, <2>1, ReleaseInv
<1>6. ASSUME NEW ok \in BOOLEAN, CleanupReturn(ok), ok => journal' = NoJournal
      PROVE  IInv'
  <2>1. CASE lock \in Ctl /\ pc[lock] = "start" /\ phase = "undo" /\ ok
    BY <1>4, <1>6, <2>1 DEF CleanupReturn
  <2>2. CASE lock \in Ctl /\ ~(pc[lock] = "start" /\ phase = "undo" /\ ok)
    BY <1>5, <1>6, <2>2, CtlReturnType DEF CleanupReturn, CtlReturn
  <2>3. CASE lock \notin Ctl
    BY <1>5, <1>6, <2>3 DEF CleanupReturn, IInv, TypeOK
  <2> QED BY <2>1, <2>2, <2>3
<1>7. \/ CleanupReturn(TRUE) /\ journal' = NoJournal
      \/ CleanupReturn(FALSE)
  BY DEF CleanupDone
<1> QED BY <1>6, <1>7

---------------------------------------------------------------------------
(* startRoutes *)

LEMMA VerifyInv == ASSUME IInv, Verify PROVE IInv'
<1>1. TypeOK'
  BY BoundAssumption DEF IInv, TypeOK, Verify, kernelVars, ctlVars
<1>2. RulesJournaled'
  BY DEF IInv, RulesJournaled, Recorded, Verify, kernelVars
<1>3. Progress' /\ Holding' /\ WatcherSparesLiveEngine'
  BY DEF IInv, TypeOK, Verify, kernelVars, ctlVars, Progress, Holding,
     WatcherSparesLiveEngine, Cleaning
<1> QED BY <1>1, <1>2, <1>3 DEF IInv

LEMMA VerifyReturnsInv == ASSUME IInv, VerifyReturns PROVE IInv'
<1>1. lock \in Ctl  BY DEF IInv, VerifyReturns, Holding
<1>2. /\ Release
      /\ pc' \in [Ctl -> {"idle", "first", "replace", "killOld", "launch", "check",
                          "start", "stop", "kill"}]
  BY <1>1, CtlReturnType DEF VerifyReturns, CtlReturn
<1>3. TypeOK'
  BY <1>2, PlanFacts, BoundAssumption DEF IInv, TypeOK, VerifyReturns, Release, kernelVars
<1>4. RulesJournaled'
  BY DEF IInv, RulesJournaled, Recorded, VerifyReturns, kernelVars
<1> QED BY <1>2, <1>3, <1>4, ReleaseInv DEF VerifyReturns, kernelVars

LEMMA WriteJournalInv == ASSUME IInv, WriteJournal PROVE IInv'
<1>1. lock \in Ctl /\ target \in 1..launched /\ journal = NoJournal /\ phase = "write"
  BY DEF IInv, WriteJournal, Holding, Progress
<1>2. rules \subseteq stray
  BY <1>1 DEF IInv, RulesJournaled, Recorded, NoJournal
<1>3. CASE /\ journal' = [pid |-> target, undo |-> 0, old |-> FALSE]
           /\ phase' = "record" /\ idx' = 1
           /\ UNCHANGED <<lock, target, failed, pc, faults>>
           /\ UNCHANGED <<kernelVars, watchers>>
  <2>1. journal' \in Journals
    BY <1>1, <1>3, PlanFacts DEF IInv, TypeOK, Journals, Engines
  <2>2. TypeOK'
    BY <1>3, <2>1, PlanFacts DEF IInv, TypeOK, kernelVars
  <2>3. RulesJournaled'
    BY <1>2, <1>3 DEF RulesJournaled, kernelVars
  <2>4. Progress' /\ Holding' /\ WatcherSparesLiveEngine'
    BY <1>1, <1>3 DEF IInv, Progress, Holding, WatcherSparesLiveEngine, Cleaning, kernelVars
  <2> QED BY <2>2, <2>3, <2>4 DEF IInv
<1>4. CASE Fault /\ CtlReturn(lock, FALSE) /\ journal' = journal
           /\ UNCHANGED <<kernelVars, watchers>>
  <2>0. /\ lock' = 0 /\ phase' = "none" /\ idx' = 0 /\ target' = 0 /\ failed' = "no"
        /\ pc' \in [Ctl -> {"idle", "first", "replace", "killOld", "launch", "check",
                            "start", "stop", "kill"}]
    BY <1>1, <1>4, CtlReturnType
  <2>1. TypeOK'
    BY <1>4, <2>0, PlanFacts, BoundAssumption DEF IInv, TypeOK, kernelVars, Fault
  <2>2. RulesJournaled'
    BY <1>4 DEF IInv, RulesJournaled, Recorded, kernelVars
  <2> QED BY <1>4, <2>1, <2>2, ReleaseInv DEF CtlReturn, kernelVars
<1> QED BY <1>3, <1>4 DEF WriteJournal

LEMMA RecordInv == ASSUME IInv, Record PROVE IInv'
<1>1. lock \in Ctl /\ target \in 1..launched /\ phase = "record" /\ journal.pid = target
      /\ ~journal.old /\ idx \in 1..5 /\ journal.undo = idx - 1
  BY PlanFacts DEF IInv, TypeOK, Record, Holding, Progress
<1>2. lock \notin Engines  BY <1>1, CtlNoEngine
<1>3. CASE /\ journal' = [journal EXCEPT !.undo = idx]
           /\ phase' = "run"
           /\ UNCHANGED <<lock, idx, failed, faults>>
           /\ UNCHANGED <<kernelVars, target, ctlVars>>
  <2>1. journal \in [pid : Engines, undo : 0..Len(Plan), old : BOOLEAN]
    BY <1>1 DEF IInv, TypeOK, Journals, NoJournal
  <2>2. /\ journal' \in Journals /\ journal'.pid = target
        /\ journal'.undo = idx /\ journal'.old = FALSE
    BY <1>1, <1>3, <2>1, PlanFacts DEF Journals
  <2>3. TypeOK'
    BY <1>3, <2>2 DEF IInv, TypeOK, kernelVars, ctlVars
  <2>4. RulesJournaled'
    <3>1. Recorded \subseteq Recorded'
      BY <1>1, <2>2 DEF Recorded
    <3> QED BY <1>3, <3>1 DEF IInv, RulesJournaled, kernelVars
  <2>5. Progress' /\ Holding' /\ WatcherSparesLiveEngine'
    BY <1>1, <1>3, <2>2
    DEF IInv, Progress, Holding, WatcherSparesLiveEngine, Cleaning, kernelVars, ctlVars
  <2> QED BY <2>3, <2>4, <2>5 DEF IInv
<1>4. CASE /\ Fault /\ StartCleanup(lock, "abort") /\ journal' = journal
           /\ UNCHANGED <<kernelVars, target, ctlVars>>
  <2>1. TypeOK'
    BY <1>4, StartCleanupType, BoundAssumption DEF IInv, TypeOK, kernelVars, ctlVars, Fault
  <2>2. RulesJournaled'
    BY <1>4 DEF IInv, RulesJournaled, Recorded, kernelVars
  <2> QED BY <1>1, <1>2, <1>4, <2>1, <2>2, StartCleanupInv DEF kernelVars, ctlVars
<1> QED BY <1>3, <1>4 DEF Record

LEMMA RunCommandInv == ASSUME IInv, RunCommand PROVE IInv'
<1> DEFINE k == Plan[idx]
<1>1. lock \in Ctl /\ target \in 1..launched /\ phase = "run" /\ journal.pid = target
      /\ ~journal.old /\ idx \in 1..5 /\ journal.undo = idx
      /\ UNCHANGED <<engine, launched, orphan, stray, journal, target, ctlVars>>
  BY PlanFacts DEF IInv, TypeOK, RunCommand, Holding, Progress
<1>2. lock \notin Engines  BY <1>1, CtlNoEngine
<1>3. k \in Kinds /\ k \in Recorded
  BY <1>1, PlanFacts, RecordedIs DEF UpTo
<1>4. rules' \in {rules, rules \cup {k}}
  BY DEF RunCommand
<1> HIDE DEF k
<1>5. RulesJournaled'
  BY <1>1, <1>3, <1>4 DEF IInv, RulesJournaled, Recorded
<1>6. CASE /\ lock' = lock /\ failed' = failed /\ faults' = faults
           /\ \/ phase' = "watch" /\ idx' = idx
              \/ phase' = "record" /\ idx < 5 /\ idx' = idx + 1
  <2>1. TypeOK'
    BY <1>1, <1>3, <1>4, <1>6, PlanFacts DEF IInv, TypeOK, ctlVars
  <2>2. Progress' /\ Holding' /\ WatcherSparesLiveEngine'
    BY <1>1, <1>6
    DEF IInv, Progress, Holding, WatcherSparesLiveEngine, Cleaning, ctlVars
  <2> QED BY <1>5, <2>1, <2>2 DEF IInv
<1>7. CASE StartCleanup(lock, "abort") /\ faults' \in 0..MaxFaults
  <2>1. TypeOK'
    BY <1>1, <1>3, <1>4, <1>7, StartCleanupType DEF IInv, TypeOK, ctlVars
  <2> QED BY <1>1, <1>2, <1>5, <1>7, <2>1, StartCleanupInv DEF ctlVars
<1>8. faults \in 0..MaxFaults /\ (Fault => faults' \in 0..MaxFaults)
  BY BoundAssumption DEF IInv, TypeOK, Fault
<1> QED BY <1>1, <1>6, <1>7, <1>8, PlanFacts DEF RunCommand

LEMMA StartWatcherInv == ASSUME IInv, StartWatcher PROVE IInv'
<1>1. lock \in Ctl /\ target \in 1..launched /\ phase = "watch"
  BY DEF IInv, StartWatcher, Holding
<1>2. lock \notin Engines /\ UNCHANGED <<kernelVars, journal>>
  BY <1>1, CtlNoEngine DEF StartWatcher
<1>3. RulesJournaled'
  BY <1>2 DEF IInv, RulesJournaled, Recorded, kernelVars
<1>4. CASE /\ watchers' = watchers \cup {target}
           /\ CtlReturn(lock, TRUE) /\ faults' = faults
  <2>1. target \in Engines
    BY <1>1, BoundAssumption DEF IInv, TypeOK, Engines
  <2>2. /\ lock' = 0 /\ phase' = "none" /\ idx' = 0 /\ target' = 0 /\ failed' = "no"
        /\ pc' \in [Ctl -> {"idle", "first", "replace", "killOld", "launch", "check",
                            "start", "stop", "kill"}]
    BY <1>1, <1>4, CtlReturnType
  <2>3. TypeOK'
    BY <1>2, <1>4, <2>1, <2>2, PlanFacts, BoundAssumption DEF IInv, TypeOK, kernelVars
  <2> QED BY <1>1, <1>2, <1>3, <1>4, <2>3, ReleaseInv DEF CtlReturn, kernelVars
<1>5. CASE Fault /\ StartCleanup(lock, "abort") /\ UNCHANGED <<target, ctlVars>>
  <2>1. TypeOK'
    BY <1>2, <1>5, StartCleanupType, BoundAssumption DEF IInv, TypeOK, kernelVars, ctlVars, Fault
  <2> QED BY <1>1, <1>2, <1>3, <1>5, <2>1, StartCleanupInv DEF kernelVars, ctlVars
<1> QED BY <1>4, <1>5 DEF StartWatcher

---------------------------------------------------------------------------
(* Refused undo commands *)

\* An orphan is about to undo k.
Undoing(k) == orphan = [op |-> "undo", kind |-> k]

\* There is no journal, or it has the i-th undo entry of this boot.
Known(i) == journal = NoJournal \/ (~journal.old /\ i <= journal.undo)

\* What an orphan may still take out of the chain is recorded, and a cleanup
\* without a failure has not gone past it: only one orphan is followed, so
\* nothing adds it again behind the journal's back.  When its journal was
\* forgotten there is no other, for the chain is in the way.
Pending ==
  \A i \in {2, 4} : Undoing(Plan[i]) /\ Plan[i] \in rules =>
    /\ Known(i)
    /\ journal = NoJournal => phase # "write"
    /\ Cleaning /\ failed = "no" => i <= idx \/ journal = NoJournal

\* The kernel keeps a chain that is in use.
Chained == rules \cap {"content", "jump"} # {} => "chain" \in rules

\* Only the chain is refused, the last one to be undone, and no orphan takes
\* away the reason.
Refusal ==
  Cleaning /\ failed = "refused" =>
    idx = 0 /\ \E k \in {"content", "jump"} : k \in stray /\ ~Undoing(k)

OldIsDropped == Cleaning /\ idx > 0 => ~journal.old

RInv == Pending /\ Refusal /\ OldIsDropped

LEMMA PlanDistinct ==
  /\ \A i, j \in 1..5 : Plan[i] = Plan[j] => i = j
  /\ Plan[1] = "chain" /\ Plan[2] = "content" /\ Plan[4] = "jump"
BY DEF Plan

LEMMA NoOrphanUndoesNothing == ASSUME orphan = NoOrphan, NEW k PROVE ~Undoing(k)
BY DEF NoOrphan, Undoing

\* Only commands that are not refused touch the chain.
LEMMA NextChained == ASSUME IInv, Chained, [Next]_vars PROVE Chained'
<1>1. CASE Undo
  <2>1. PICK k : \/ rules' = rules
                 \/ rules' = rules \ {k} /\ ~UndoRefused(k)
    BY <1>1 DEF Undo
  <2> QED BY <2>1 DEF Chained, UndoRefused
<1>2. CASE RunCommand
  <2>1. PICK k : \/ rules' = rules
                 \/ rules' = rules \cup {k} /\ ~AddRefused(k)
    BY <1>2 DEF RunCommand
  <2> QED BY <2>1 DEF Chained, AddRefused
<1>3. CASE OrphanEnds
  <2>1. PICK k : \/ rules' = rules
                 \/ rules' = rules \cup {k} /\ ~AddRefused(k)
                 \/ rules' = rules \ {k} /\ ~UndoRefused(k)
    BY <1>3 DEF OrphanEnds
  <2> QED BY <2>1 DEF Chained, AddRefused, UndoRefused
<1>4. CASE rules' \in {rules, rules \ {"route"}, {}}
  BY <1>4 DEF Chained
<1>5. ASSUME NEW c \in Ctl, Script(c) PROVE rules' \in {rules, rules \ {"route"}}
  BY <1>5 DEF Script, Request, KillEngine, Launch, LaunchFails, SetupTun, Enter, KillCtl, kernelVars
<1>6. ASSUME Holder, ~Undo, ~RunCommand PROVE rules' = rules
  BY <1>6 DEF Holder, JournalUnread, CleanupDone, Verify, VerifyReturns, WriteJournal, Record,
     StartWatcher, kernelVars
<1>7. ASSUME NEW e \in Engines, Watch(e) \/ KillWatcher(e) PROVE rules' = rules
  BY <1>7 DEF Watch, WatchEnds, WatchCleans, KillWatcher, kernelVars
<1>8. CASE EngineDies \/ KillHolder \/ Reboot
  BY <1>4, <1>8 DEF EngineDies, KillHolder, Reboot
<1>9. CASE UNCHANGED vars
  BY <1>4, <1>9 DEF vars, kernelVars
<1> QED BY <1>1, <1>2, <1>3, <1>4, <1>5, <1>6, <1>7, <1>8, <1>9 DEF Next

\* The lock is given back, and the journal covers what it did.
LEMMA ReleaseRefusal ==
  ASSUME Release,
         \A i \in {2, 4} : Undoing(Plan[i])' /\ Plan[i] \in rules' => Known(i)'
  PROVE  RInv'
BY DEF Release, RInv, Pending, Refusal, OldIsDropped, Cleaning

LEMMA CleanupRefusal ==
  ASSUME IInv, RInv, NEW p, NEW ph \in {"undo", "abort", "misread"}, StartCleanup(p, ph),
         UNCHANGED <<journal, stray, orphan>>,
         \A i \in {2, 4} : Undoing(Plan[i]) /\ Plan[i] \in rules' => Known(i)
  PROVE  RInv'
<1>1. /\ idx' = (IF journal.old THEN 0 ELSE journal.undo) /\ failed' = "no"
      /\ phase' # "write"
  BY DEF StartCleanup
<1>2. Pending'
  BY <1>1 DEF Pending, Known, Undoing
<1>3. Refusal' /\ OldIsDropped'
  BY <1>1 DEF Refusal, OldIsDropped
<1> QED BY <1>2, <1>3 DEF RInv

\* Steps that neither take the lock nor touch the journal, and add no rule.
LEMMA QuietRefusal ==
  ASSUME RInv, UNCHANGED <<journal, stray, orphan>>, UNCHANGED lockVars, rules' \subseteq rules
  PROVE  RInv'
BY DEF RInv, Pending, Known, Refusal, OldIsDropped, Undoing, Cleaning, lockVars

LEMMA ScriptRefusal == ASSUME IInv, RInv, NEW c \in Ctl, Script(c) PROVE RInv'
<1>1. CASE Enter(c)
  BY <1>1, CleanupRefusal DEF Enter, kernelVars, RInv, Pending
<1>2. CASE ~Enter(c)
  BY <1>2, QuietRefusal
  DEF Script, Request, KillEngine, Launch, LaunchFails, SetupTun, KillCtl, kernelVars
<1> QED BY <1>1, <1>2

LEMMA UndoRefusal == ASSUME IInv, RInv, Undo PROVE RInv'
<1> DEFINE k == Plan[idx]
<1>1. /\ idx \in 1..5 /\ Cleaning /\ Cleaning' /\ idx' = idx - 1 /\ failed # "refused"
      /\ UNCHANGED <<engine, launched, orphan, journal, lock, phase, target, ctlVars>>
      /\ journal # NoJournal
  BY PlanFacts, JournalType DEF IInv, TypeOK, Undo, RInv, Refusal, Progress, Cleaning
<1>2. /\ rules' \subseteq rules
      /\ failed' = "no" => failed = "no" /\ k \notin rules'
      /\ failed' = "refused" => failed = "no" /\ UndoRefused(k) /\ UNCHANGED <<rules, stray>>
  BY <1>1 DEF Undo
<1>3. Pending'
  <2> SUFFICES ASSUME NEW i \in {2, 4}, Undoing(Plan[i]), Plan[i] \in rules'
               PROVE  Known(i) /\ (failed' = "no" => i <= idx - 1)
    BY <1>1 DEF Pending, Known, Undoing, Cleaning
  <2>1. Known(i) /\ (failed = "no" => i <= idx)
    BY <1>1, <1>2 DEF RInv, Pending
  <2>2. failed' = "no" => i # idx
    BY <1>2
  <2> QED BY <1>1, <1>2, <2>1, <2>2
<1>4. Refusal'
  <2> SUFFICES ASSUME failed' = "refused"
               PROVE  idx' = 0 /\ \E c \in {"content", "jump"} : c \in stray' /\ ~Undoing(c)'
    BY DEF Refusal
  <2>1. k = "chain" /\ rules \cap {"content", "jump"} # {} /\ failed = "no"
    BY <1>2 DEF UndoRefused
  <2>2. idx = 1
    BY <1>1, <2>1, PlanDistinct
  <2>3. rules \subseteq stray \cup {"chain"}
    <3>1. UpTo(1) = {"chain"}
      BY PlanDistinct DEF UpTo
    <3> QED BY <1>1, <2>1, <2>2, <3>1 DEF IInv, Progress
  <2>4. PICK j \in {2, 4} : Plan[j] \in rules /\ Plan[j] \in {"content", "jump"}
    BY <2>1, PlanDistinct
  <2>5. Plan[j] \in stray /\ ~Undoing(Plan[j])
    BY <1>1, <2>1, <2>2, <2>3, <2>4 DEF RInv, Pending
  <2>6. Plan[j] \in stray' /\ ~Undoing(Plan[j])'
    BY <1>1, <1>2, <2>5 DEF Undoing
  <2> QED BY <1>1, <2>2, <2>4, <2>6
<1>5. OldIsDropped'
  BY <1>1 DEF RInv, OldIsDropped
<1> QED BY <1>3, <1>4, <1>5 DEF RInv

LEMMA CleanupDoneRefusal == ASSUME IInv, RInv, CleanupDone PROVE RInv'
<1>1. /\ Cleaning /\ idx = 0 /\ UNCHANGED <<rules, orphan>>
      /\ journal' \in {journal, NoJournal}
  BY DEF CleanupDone
<1>2. \A i \in {2, 4} : Undoing(Plan[i])' /\ Plan[i] \in rules' => Known(i)'
  BY <1>1 DEF RInv, Pending, Known, Undoing
<1>3. CASE Release
  BY <1>2, <1>3, ReleaseRefusal
<1>4. CASE phase' = "verify"
  BY <1>2, <1>4 DEF RInv, Pending, Refusal, OldIsDropped, Cleaning
<1> QED BY <1>3, <1>4 DEF CleanupDone, CleanupReturn, CtlReturn

\* A reader's failure undoes nothing.
LEMMA UnreadRefusal == ASSUME IInv, RInv, JournalUnread PROVE RInv'
BY DEF JournalUnread, kernelVars, RInv, Pending, Known, Refusal, OldIsDropped, Cleaning, Undoing

LEMMA StartRefusal ==
  ASSUME IInv, Chained, RInv, Verify \/ VerifyReturns \/ WriteJournal \/ StartWatcher
  PROVE  RInv'
<1>1. CASE Verify
  <2>1. \A i \in {2, 4} : Plan[i] \notin rules'
    BY <1>1, PlanDistinct DEF Verify, Chained, kernelVars
  <2> QED BY <1>1, <2>1 DEF Verify, RInv, Pending, Refusal, OldIsDropped, Cleaning
<1>2. CASE VerifyReturns
  BY <1>2, ReleaseRefusal DEF VerifyReturns, CtlReturn, kernelVars, RInv, Pending, Known, Undoing
<1>3. CASE WriteJournal
  <2>1. journal = NoJournal /\ UNCHANGED kernelVars
    BY <1>3 DEF WriteJournal, IInv, Progress
  <2>2. \A i \in {2, 4} : ~(Undoing(Plan[i])' /\ Plan[i] \in rules')
    BY <1>3, <2>1 DEF WriteJournal, RInv, Pending, kernelVars, Undoing
  <2>3. CASE phase' = "record"
    BY <2>2, <2>3 DEF RInv, Pending, Refusal, OldIsDropped, Cleaning
  <2>4. CASE Release
    BY <2>2, <2>4, ReleaseRefusal
  <2> QED BY <1>3, <2>3, <2>4 DEF WriteJournal, CtlReturn
<1>4. CASE StartWatcher
  <2>1. UNCHANGED kernelVars /\ UNCHANGED journal
    BY <1>4 DEF StartWatcher
  <2>2. \A i \in {2, 4} : Undoing(Plan[i]) /\ Plan[i] \in rules => Known(i)
    BY DEF RInv, Pending
  <2>3. CASE Release
    BY <2>1, <2>2, <2>3, ReleaseRefusal DEF kernelVars, Known, Undoing
  <2>4. CASE StartCleanup(lock, "abort")
    BY <2>1, <2>2, <2>4, CleanupRefusal DEF kernelVars
  <2> QED BY <1>4, <2>3, <2>4 DEF StartWatcher, CtlReturn
<1> QED BY <1>1, <1>2, <1>3, <1>4

LEMMA RecordRefusal == ASSUME IInv, RInv, Record PROVE RInv'
<1>1. /\ phase = "record" /\ ~journal.old /\ idx \in 1..5 /\ journal.undo = idx - 1
      /\ UNCHANGED kernelVars /\ journal.pid = target /\ journal \in Journals /\ target \in 1..launched
  BY PlanFacts DEF IInv, TypeOK, Record, Progress, Holding
<1>2. \A i \in {2, 4} : Undoing(Plan[i]) /\ Plan[i] \in rules => i <= journal.undo
  BY <1>1 DEF RInv, Pending, Known, NoJournal
<1>3. CASE journal' = [journal EXCEPT !.undo = idx] /\ phase' = "run"
  <2>1. journal \in [pid : Engines, undo : 0..Len(Plan), old : BOOLEAN]
    BY <1>1 DEF Journals, NoJournal
  <2>2. journal'.undo = idx /\ journal'.old = journal.old
    BY <1>3, <2>1
  <2>3. Pending'
    BY <1>1, <1>2, <1>3, <2>2 DEF Pending, Known, Undoing, kernelVars, Cleaning
  <2> QED BY <1>3, <2>3 DEF RInv, Refusal, OldIsDropped, Cleaning
<1>4. CASE StartCleanup(lock, "abort") /\ journal' = journal
  BY <1>1, <1>2, <1>4, CleanupRefusal DEF kernelVars, Known
<1> QED BY <1>3, <1>4 DEF Record

\* The command that runs is the last one recorded.
LEMMA RunCommandRefusal == ASSUME IInv, RInv, RunCommand PROVE RInv'
<1>1. /\ phase = "run" /\ ~journal.old /\ idx \in 1..5 /\ journal.undo = idx
      /\ UNCHANGED <<orphan, stray, journal>>
  BY PlanFacts DEF IInv, TypeOK, RunCommand, Progress
<1>2. rules' \subseteq rules \cup {Plan[idx]}
  BY DEF RunCommand
<1>3. \A i \in {2, 4} : Undoing(Plan[i]) /\ Plan[i] \in rules' => Known(i)
  BY <1>1, <1>2, PlanDistinct DEF RInv, Pending, Known
<1>4. CASE phase' \in {"watch", "record"}
  BY <1>1, <1>3, <1>4 DEF RInv, Pending, Known, Refusal, OldIsDropped, Cleaning, Undoing
<1>5. CASE StartCleanup(lock, "abort")
  BY <1>1, <1>3, <1>5, CleanupRefusal
<1> QED BY <1>4, <1>5 DEF RunCommand

LEMMA KillHolderRefusal == ASSUME IInv, RInv, KillHolder PROVE RInv'
<1>1. Release /\ UNCHANGED <<rules, journal>>
  BY DEF KillHolder, CtlReturn
<1>2. ASSUME NEW i \in {2, 4}, Undoing(Plan[i])', Plan[i] \in rules'
      PROVE  Known(i)'
  <2>1. CASE orphan' = orphan
    BY <1>1, <1>2, <2>1 DEF RInv, Pending, Known, Undoing
  <2>2. CASE orphan' = InFlight
    <3>1. Cleaning /\ idx > 0 /\ Plan[i] = Plan[idx]
      BY <1>2, <2>2 DEF InFlight, Undoing, NoOrphan
    <3>2. idx \in 1..5
      BY <3>1, PlanFacts DEF IInv, TypeOK
    <3> QED BY <1>1, <3>1, <3>2, PlanDistinct DEF RInv, OldIsDropped, IInv, Progress, Known
  <2> QED BY <2>1, <2>2 DEF KillHolder
<1> QED BY <1>1, <1>2, ReleaseRefusal

LEMMA OrphanRefusal == ASSUME IInv, RInv, OrphanEnds PROVE RInv'
<1>1. orphan' = NoOrphan /\ UNCHANGED <<journal, lockVars>> /\ orphan \in Orphans /\ orphan # NoOrphan
  BY DEF OrphanEnds, IInv, TypeOK
<1>2. \A k : ~Undoing(k)'
  BY <1>1 DEF Undoing, NoOrphan
<1>3. ASSUME NEW k \in stray, ~Undoing(k) PROVE k \in stray'
  <2>1. orphan = [op |-> orphan.op, kind |-> orphan.kind]
    BY <1>1 DEF Orphans
  <2>2. orphan.op = "undo" => orphan.kind # k
    BY <1>3, <2>1 DEF Undoing
  <2> QED BY <1>3, <2>2 DEF OrphanEnds
<1>4. Pending'
  BY <1>2 DEF Pending
<1>5. Refusal' /\ OldIsDropped'
  BY <1>1, <1>2, <1>3 DEF RInv, Refusal, OldIsDropped, Cleaning, lockVars
<1> QED BY <1>4, <1>5 DEF RInv

LEMMA NextRefusal == ASSUME IInv, Chained, RInv, [Next]_vars PROVE RInv'
<1>1. ASSUME NEW c \in Ctl, Script(c) PROVE RInv'
  BY <1>1, ScriptRefusal
<1>2. CASE Holder
  BY <1>2, UnreadRefusal, UndoRefusal, CleanupDoneRefusal, StartRefusal, RecordRefusal,
     RunCommandRefusal DEF Holder
<1>3. ASSUME NEW e \in Engines, Watch(e) \/ KillWatcher(e) PROVE RInv'
  <2>1. CASE WatchCleans(e)
    BY <2>1, CleanupRefusal DEF WatchCleans, kernelVars, RInv, Pending
  <2>2. CASE WatchEnds(e) \/ KillWatcher(e)
    BY <2>2, QuietRefusal DEF WatchEnds, KillWatcher, kernelVars
  <2> QED BY <1>3, <2>1, <2>2 DEF Watch
<1>4. CASE EngineDies
  BY <1>4, QuietRefusal DEF EngineDies
<1>5. CASE Reboot
  <2>1. Release /\ orphan' = NoOrphan
    BY <1>5 DEF Reboot
  <2>2. \A k : ~Undoing(k)'
    BY <2>1 DEF Undoing, NoOrphan
  <2> QED BY <2>1, <2>2, ReleaseRefusal
<1>6. CASE KillHolder \/ OrphanEnds
  BY <1>6, KillHolderRefusal, OrphanRefusal
<1>7. CASE UNCHANGED vars
  BY <1>7, QuietRefusal DEF vars, kernelVars, lockVars
<1> QED BY <1>1, <1>2, <1>3, <1>4, <1>5, <1>6, <1>7 DEF Next

---------------------------------------------------------------------------

LEMMA NextInv == ASSUME IInv, [Next]_vars PROVE IInv'
<1>1. ASSUME NEW c \in Ctl, Script(c) PROVE IInv'
  BY <1>1, ScriptInv, EnterInv DEF Script
<1>2. CASE Holder
  BY <1>2, JournalUnreadInv, UndoInv, CleanupDoneInv, VerifyInv, VerifyReturnsInv, WriteJournalInv,
     RecordInv, RunCommandInv, StartWatcherInv DEF Holder
<1>3. ASSUME NEW e \in Engines, Watch(e) \/ KillWatcher(e) PROVE IInv'
  BY <1>3, WatcherEndsInv, WatchCleansInv DEF Watch
<1>4. CASE EngineDies \/ KillHolder \/ OrphanEnds \/ Reboot
  BY <1>4, EngineDiesInv, KillHolderInv, OrphanInv, RebootInv
<1>5. CASE UNCHANGED vars
  BY <1>5 DEF vars, kernelVars, lockVars, ctlVars, IInv, TypeOK, RulesJournaled, Recorded,
     Progress, UpTo, Holding, WatcherSparesLiveEngine, Cleaning
<1> QED BY <1>1, <1>2, <1>3, <1>4, <1>5 DEF Next

\* IInv is an invariant, whatever fails and however controllers, watchers and
\* orphaned commands interleave.
THEOREM Inductive == Spec => []IInv
BY InitInv, NextInv, PTL DEF Spec

\* Type correctness of the route journal and its processes.
THEOREM RoutesTypes == Spec => []TypeOK
<1>1. IInv => TypeOK  BY DEF IInv
<1> QED BY <1>1, Inductive, PTL

\* Whatever startRoutes has put into the kernel can be removed from the
\* journal on disk, wherever a command or a write failed and whoever was
\* killed.  What an orphaned command added escapes it, and what was in a
\* journal that cleanupRoutes could not read and removed.
THEOREM EveryRuleJournaled == Spec => []RulesJournaled
<1>1. IInv => RulesJournaled  BY DEF IInv
<1> QED BY <1>1, Inductive, PTL

\* The watcher of a dead engine never takes the rules of its successor, and
\* that of a live one takes its rules only when it cannot read /proc.
THEOREM LiveEngineSpared == Spec => []WatcherSparesLiveEngine
<1>1. IInv => WatcherSparesLiveEngine  BY DEF IInv
<1> QED BY <1>1, Inductive, PTL

\* The undo list is in an order that works for every partial setup and every
\* partial cleanup: cleanupRoutes is refused a command only after an earlier
\* failure or because of a resource that no journal knows of.
THEOREM RetrySucceeds == Spec => []RetryIsNotRefused
<1>1. Init => RInv /\ Chained
  BY DEF Init, RInv, Pending, Refusal, OldIsDropped, Cleaning, Chained
<1>2. IInv /\ RInv /\ Chained /\ [Next]_vars => RInv' /\ Chained'
  BY NextRefusal, NextChained
<1>3. RInv => RetryIsNotRefused
  BY DEF RInv, Refusal, RetryIsNotRefused
<1> QED BY <1>1, <1>2, <1>3, Inductive, PTL DEF Spec
=============================================================================
