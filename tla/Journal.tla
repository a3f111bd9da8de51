------------------------------ MODULE Journal ------------------------------
(***************************************************************************)
(* The durable owner of the TPROXY resources, DurableIsolated              *)
(* (ebpf-proxy/internal/tproxy/journal_linux.go), and the guardian that    *)
(* recovers after a worker's death (guardian_linux.go).                    *)
(*                                                                         *)
(* One process at a time has the journal open (the flock).  It runs the    *)
(* public methods Setup, ResolvePending, Recover and Close; every kernel   *)
(* observation, every save and every command is a step of its own, and     *)
(* between any two of them the process may be killed, a query, save or     *)
(* command may fail, and somebody else may change the namespace.  A        *)
(* command that was running when its controller died is an orphan: in      *)
(* Scoped mode it carries the journal lease (command_guard_linux.go), in   *)
(* strict mode nothing ties it to the journal.                             *)
(*                                                                         *)
(* A SHA-256 digest is the value it digests.  A missing journal.json is    *)
(* the record Fresh, which is what opening without a file starts from.     *)
(***************************************************************************)
EXTENDS Plan

CONSTANTS
  MaxFaults,   \* bound on kills and failing queries, saves and commands
  MaxForeign   \* bound on changes made by anybody else

ASSUME BoundAssumption == MaxFaults \in Nat /\ MaxForeign \in Nat

VARIABLES
  scoped,     \* TRUE: v3 scoped journal; FALSE: strict whole-namespace v2
  res,        \* kernel: copies of each planned resource
  outside,    \* kernel: 1 when there is content outside the footprint
  disk,       \* journal.json
  mem,        \* d.r, the record in the memory of the process
  seen,       \* the record change/reconcile are about to save
  pc,         \* where that process is
  call,       \* the public method it executes
  script,     \* who it is: a worker, or the guardian
  cmd,        \* the command it is waiting for
  orphan,     \* a command whose controller was killed
  clean,      \* GuardianResult.Clean of the last guardian
  disturbed,  \* somebody else has changed the footprint
  faults, foreign     \* bound counters

vars == <<scoped, res, outside, disk, mem, seen, pc, call, script, cmd, orphan,
          clean, disturbed, faults, foreign>>

kernelVars == <<scoped, res, outside, disturbed, foreign>>

---------------------------------------------------------------------------
(* Records, digests and commands *)

Digest   == [res : Counts, out : {0, 1}]
NoDigest == [res |-> Prefix(0), out |-> -1]
Pendings == {"none", "add", "remove"}
Record   == [owned : 0..N, pending : Pendings,
             snap : Digest \cup {NoDigest}, proof : Digest \cup {NoDigest}]
Fresh    == [owned |-> 0, pending |-> "none",
             snap |-> NoDigest, proof |-> NoDigest]
Command  == [op : {"add", "remove"}, step : Steps, applied : BOOLEAN]
NoCmd    == [op |-> "none", step |-> 0, applied |-> FALSE]

\* Mutant: the new record forgets its snapshot.
CommittedNoSnapshot(n, s) == [owned |-> n, pending |-> "none",
                              snap |-> NoDigest, proof |-> NoDigest]

\* The record with n committed steps and snapshot s.
Committed(n, s) == [owned |-> n, pending |-> "none",
                    snap |-> s, proof |-> NoDigest]

\* Mutant: steps are removed from the bottom of the plan.
IndexFromBottom(r) == IF r.pending = "remove" THEN 1 ELSE r.owned + 1

\* The step a pending operation is about, and the owned count once it has
\* taken effect.
Index(r) == IF r.pending = "remove" THEN r.owned ELSE r.owned + 1
After(r) == IF r.pending = "remove" THEN r.owned - 1 ELSE r.owned + 1

\* decodeJournalMode: what a journal must satisfy to be opened.
Decodable(r) == /\ r.pending = "add" => r.owned < N
                /\ r.pending = "remove" => r.owned > 0
                /\ r.pending = "none" => r.proof = NoDigest
                /\ r # Fresh => r.snap # NoDigest

---------------------------------------------------------------------------
(* Observations *)

\* The snapshot digest: strict mode digests the whole namespace, scoped mode
\* only the reserved footprint.
Whole == [res |-> res, out |-> IF scoped THEN 0 ELSE outside]

\* The pending proof: everything but the planned resources (strict), or the
\* planned resources other than number i (scoped).
Residual(i) == IF scoped THEN [res |-> [res EXCEPT ![i] = 0], out |-> 0]
                         ELSE [res |-> Prefix(0), out |-> outside]

\* classifyResources refuses duplicates.
Classified == \A i \in Steps : res[i] <= 1

\* Mutant: an observation is taken as it is.
SnapshotUnchecked(n) == TRUE

\* snapshot() of a controller that owns n steps: only scoped mode compares
\* the observation with the owned profile.
SnapshotOK(n) == scoped => res = Prefix(n)

\* check()
CheckOK == /\ mem.pending = "none"
           /\ SnapshotOK(mem.owned)
           /\ mem.snap # NoDigest => Whole = mem.snap

---------------------------------------------------------------------------
(* Steps shared by the methods *)

Fault == faults < MaxFaults /\ faults' = faults + 1

\* A method returns.  The guardian goes on from ResolvePending to Recover
\* and closes the journal after an error or at the end; a worker may call
\* another method.
ReturnOK(owned) ==
  \/ script = "worker" /\ pc' = "idle" /\ call' = "none" /\ UNCHANGED clean
  \/ /\ script = "guardian" /\ call = "resolve"
     /\ pc' = "precheck" /\ call' = "recover" /\ UNCHANGED clean
  \/ /\ script = "guardian" /\ call = "recover"
     /\ pc' = "closed" /\ call' = "none" /\ clean' = (owned = 0)

ReturnErr ==
  /\ pc' = IF script = "worker" THEN "idle" ELSE "closed"
  /\ call' = "none"
  /\ clean' = FALSE

Goto(l) == pc' = l /\ UNCHANGED <<call, clean>>

\* save(): staging file, rename, directory sync.  An error before the rename
\* leaves the old record, an error after it leaves the new one.
SaveOK(r)   == disk' = r /\ UNCHANGED faults
SaveFail(r) == disk' \in {disk, r} /\ Fault

---------------------------------------------------------------------------
(* Opening, calling, closing *)

\* Mutant: the lock does not wait for leased commands.
OpenUnleased(s) ==
  /\ pc = "closed"
  /\ Decodable(disk)
  /\ mem' = disk
  /\ script' = s
  /\ clean' = FALSE
  /\ IF s = "worker" THEN pc' = "idle" /\ call' = "none"
     ELSE /\ call' = "resolve"
          /\ pc' = IF disk.pending = "none" THEN "precheck" ELSE "reconcile"
  /\ UNCHANGED <<kernelVars, disk, seen, cmd, orphan, faults>>

\* openDurableIsolated; a leased orphan still holds the lock.
Open(s) ==
  /\ pc = "closed"
  /\ scoped => orphan = NoCmd
  /\ Decodable(disk)
  /\ mem' = disk
  /\ script' = s
  /\ clean' = FALSE
  /\ IF s = "worker" THEN pc' = "idle" /\ call' = "none"
     ELSE /\ call' = "resolve"
          /\ pc' = IF disk.pending = "none" THEN "precheck" ELSE "reconcile"
  /\ UNCHANGED <<kernelVars, disk, seen, cmd, orphan, faults>>

\* The guardian's attempt while a leased orphan holds the lock (LOCK_NB): it
\* reports the error and is over.
GuardianBlocked ==
  /\ pc = "closed"
  /\ scoped /\ orphan # NoCmd
  /\ script' = "guardian" /\ clean' = FALSE
  /\ UNCHANGED <<kernelVars, disk, mem, seen, pc, call, cmd, orphan, faults>>

CallSetup ==
  /\ pc = "idle"
  /\ pc' = "enter" /\ call' = "setup"
  /\ UNCHANGED <<kernelVars, disk, mem, seen, script, cmd, orphan, clean, faults>>

\* ResolvePending and Recover begin alike.
CallRecover(m) ==
  /\ pc = "idle"
  /\ pc' = IF mem.pending = "none" THEN "precheck" ELSE "reconcile"
  /\ call' = m
  /\ UNCHANGED <<kernelVars, disk, mem, seen, script, cmd, orphan, clean, faults>>

Close ==
  /\ pc = "idle"
  /\ pc' = "closed"
  /\ UNCHANGED <<kernelVars, disk, mem, seen, call, script, cmd, orphan, clean, faults>>

\* SIGKILL of the process.  At most one orphan is followed at a time.
Kill ==
  /\ pc # "closed"
  /\ Fault
  /\ cmd # NoCmd => orphan = NoCmd
  /\ orphan' = IF cmd = NoCmd THEN orphan ELSE cmd
  /\ cmd' = NoCmd
  /\ pc' = "closed" /\ call' = "none"
  /\ UNCHANGED <<kernelVars, disk, mem, seen, script, clean>>

---------------------------------------------------------------------------
(* Setup *)

SetupEnter ==
  /\ pc = "enter"
  /\ \/ CheckOK /\ mem.owned = 0 /\ Goto("fresh")
     \/ CheckOK /\ mem.owned = N /\ ReturnOK(N)
     \/ (CheckOK => mem.owned \notin {0, N}) /\ ReturnErr
  /\ UNCHANGED <<kernelVars, disk, mem, seen, script, cmd, orphan, faults>>

\* Scoped: no reserved resource may be present; the same observation becomes
\* the snapshot.  Strict: the namespace must be pristine; the snapshot is a
\* second observation.
SetupFresh ==
  /\ pc = "fresh"
  /\ IF scoped
     THEN IF res = Prefix(0)
          THEN mem' = [mem EXCEPT !.snap = Whole] /\ Goto("base")
          ELSE UNCHANGED mem /\ ReturnErr
     ELSE /\ UNCHANGED mem
          /\ IF res = Prefix(0) /\ outside = 0 THEN Goto("snap")
             ELSE ReturnErr
  /\ UNCHANGED <<kernelVars, disk, seen, script, cmd, orphan, faults>>

SetupSnap ==
  /\ pc = "snap"
  /\ mem' = [mem EXCEPT !.snap = Whole]
  /\ Goto("base")
  /\ UNCHANGED <<kernelVars, disk, seen, script, cmd, orphan, faults>>

SetupBase ==
  /\ pc = "base"
  /\ \/ SaveOK(mem) /\ Goto("check")
     \/ SaveFail(mem) /\ ReturnErr
  /\ UNCHANGED <<kernelVars, mem, seen, script, cmd, orphan>>

---------------------------------------------------------------------------
(* change(intent) *)

ChangeCheck ==
  /\ pc = "check"
  /\ IF CheckOK THEN Goto("witness") ELSE ReturnErr
  /\ UNCHANGED <<kernelVars, disk, mem, seen, script, cmd, orphan, faults>>

\* witness(index), the comparison with the recorded snapshot, and the intent
\* written into the record in memory.
ChangeWitness ==
  /\ pc = "witness"
  /\ LET op == IF call = "setup" THEN "add" ELSE "remove"
         r  == [mem EXCEPT !.pending = op]
     IN IF Whole = mem.snap /\ res = Prefix(mem.owned)
        THEN mem' = [r EXCEPT !.proof = Residual(Index(r))] /\ Goto("intent")
        ELSE UNCHANGED mem /\ ReturnErr
  /\ UNCHANGED <<kernelVars, disk, seen, script, cmd, orphan, faults>>

\* Mutant: the intent is not saved before the command runs.
ChangeIntentUnsaved ==
  /\ pc = "intent"
  /\ Goto("run")
  /\ UNCHANGED <<kernelVars, disk, mem, seen, script, cmd, orphan, faults>>

\* The intent is durable before the kernel is touched.  On an error the
\* record in memory stays pending.
ChangeIntent ==
  /\ pc = "intent"
  /\ \/ SaveOK(mem) /\ Goto("run")
     \/ SaveFail(mem) /\ ReturnErr
  /\ UNCHANGED <<kernelVars, mem, seen, script, cmd, orphan>>

ChangeRun ==
  /\ pc = "run"
  /\ cmd' = [op |-> mem.pending, step |-> Index(mem), applied |-> FALSE]
  /\ Goto("wait")
  /\ UNCHANGED <<kernelVars, disk, mem, seen, script, orphan, faults>>

\* Exit status 0.
ChangeRan ==
  /\ pc = "wait"
  /\ cmd.applied
  /\ cmd' = NoCmd
  /\ Goto("observe")
  /\ UNCHANGED <<kernelVars, disk, mem, seen, script, orphan, faults>>

\* The kernel has nothing to do for this command: a planned resource that
\* exists already, or one that is not there to be removed.
Refused(c) == IF c.op = "add" THEN res[c.step] >= 1 ELSE res[c.step] = 0

\* Mutant: a failed command is taken to have had no effect.
ChangeRunFailedRollsBack ==
  /\ pc = "wait"
  /\ IF ~cmd.applied /\ Refused(cmd) THEN UNCHANGED faults ELSE Fault
  /\ cmd' = NoCmd
  /\ mem' = Committed(mem.owned, mem.snap)
  /\ disk' = mem'
  /\ ReturnErr
  /\ UNCHANGED <<kernelVars, seen, script, orphan>>

\* An error or timeout: the effect may or may not have happened, and the
\* record in memory stays pending.
ChangeRunFailed ==
  /\ pc = "wait"
  /\ IF ~cmd.applied /\ Refused(cmd) THEN UNCHANGED faults ELSE Fault
  /\ cmd' = NoCmd
  /\ ReturnErr
  /\ UNCHANGED <<kernelVars, disk, mem, seen, script, orphan>>

\* The snapshot after the command, taken for the new owned count.
ChangeObserve ==
  /\ pc = "observe"
  /\ IF SnapshotOK(After(mem))
     THEN seen' = Committed(After(mem), Whole) /\ Goto("commit")
     ELSE UNCHANGED seen /\ ReturnErr
  /\ UNCHANGED <<kernelVars, disk, mem, script, cmd, orphan, faults>>

\* Mutant: Setup and Recover do not stop at the end of the plan.
ChangeCommitForever ==
  /\ pc = "commit"
  /\ SaveOK(seen)
  /\ mem' = seen
  /\ Goto("check")
  /\ UNCHANGED <<kernelVars, seen, script, cmd, orphan>>

\* The commit; on an error the record in memory is pending again.
ChangeCommit ==
  /\ pc = "commit"
  /\ \/ /\ SaveOK(seen)
        /\ mem' = seen
        /\ IF seen.owned = (IF call = "setup" THEN N ELSE 0)
           THEN ReturnOK(seen.owned) ELSE Goto("check")
     \/ SaveFail(seen) /\ UNCHANGED mem /\ ReturnErr
  /\ UNCHANGED <<kernelVars, seen, script, cmd, orphan>>

---------------------------------------------------------------------------
(* ResolvePending and Recover *)

\* Mutant: only the outcome without effect is recognised.
ReconcileOnlyBefore ==
  /\ pc = "reconcile"
  /\ IF mem.proof # NoDigest /\ Classified /\ Residual(Index(mem)) = mem.proof
        /\ res = Prefix(mem.owned)
     THEN seen' = Committed(mem.owned, Whole) /\ Goto("settle")
     ELSE UNCHANGED seen /\ ReturnErr
  /\ UNCHANGED <<kernelVars, disk, mem, script, cmd, orphan, faults>>

\* Mutant: a pending operation is taken not to have happened.
ReconcileBlindly ==
  /\ pc = "reconcile"
  /\ seen' = Committed(mem.owned, Whole) /\ Goto("settle")
  /\ UNCHANGED <<kernelVars, disk, mem, script, cmd, orphan, faults>>

\* reconcile(): exactly the two witnessed outcomes are admitted.
Reconcile ==
  /\ pc = "reconcile"
  /\ IF mem.proof # NoDigest /\ Classified /\ Residual(Index(mem)) = mem.proof
     THEN IF res = Prefix(After(mem))
          THEN seen' = Committed(After(mem), Whole) /\ Goto("settle")
          ELSE IF res = Prefix(mem.owned)
          THEN seen' = Committed(mem.owned, Whole) /\ Goto("settle")
          ELSE UNCHANGED seen /\ ReturnErr
     ELSE UNCHANGED seen /\ ReturnErr
  /\ UNCHANGED <<kernelVars, disk, mem, script, cmd, orphan, faults>>

Settle ==
  /\ pc = "settle"
  /\ \/ /\ SaveOK(seen)
        /\ mem' = seen
        /\ IF call = "resolve" THEN ReturnOK(seen.owned) ELSE Goto("precheck")
     \/ SaveFail(seen) /\ UNCHANGED mem /\ ReturnErr
  /\ UNCHANGED <<kernelVars, seen, script, cmd, orphan>>

\* The check of a record without pending intent; Recover then removes the
\* owned steps, last first.
PreCheck ==
  /\ pc = "precheck"
  /\ \/ CheckOK /\ call = "recover" /\ mem.owned > 0 /\ Goto("check")
     \/ CheckOK /\ (call = "recover" => mem.owned = 0) /\ ReturnOK(mem.owned)
     \/ ~CheckOK /\ ReturnErr
  /\ UNCHANGED <<kernelVars, disk, mem, seen, script, cmd, orphan, faults>>

\* A query of an observation fails.
ObserveFailed ==
  /\ pc \in {"enter", "fresh", "snap", "check", "witness", "observe",
             "reconcile", "precheck"}
  /\ Fault
  /\ ReturnErr
  /\ UNCHANGED <<kernelVars, disk, mem, seen, script, cmd, orphan>>

---------------------------------------------------------------------------
(* The kernel and everybody else *)

\* The effect of a command: one more or one fewer copy.
Effect(c) == IF c.op = "add"
             THEN res[c.step] < 2 /\ res' = [res EXCEPT ![c.step] = @ + 1]
             ELSE res[c.step] > 0 /\ res' = [res EXCEPT ![c.step] = @ - 1]

Apply ==
  /\ cmd # NoCmd /\ ~cmd.applied
  /\ Effect(cmd)
  /\ cmd' = [cmd EXCEPT !.applied = TRUE]
  /\ UNCHANGED <<scoped, outside, disk, mem, seen, pc, call, script, orphan, clean,
                 disturbed, faults, foreign>>

\* An orphan takes effect.  A leased one still owns the journal; an unleased
\* one changes the footprint behind the back of whoever owns it now.
OrphanApply ==
  /\ orphan # NoCmd /\ ~orphan.applied
  /\ Effect(orphan)
  /\ orphan' = [orphan EXCEPT !.applied = TRUE]
  /\ disturbed' = (disturbed \/ ~scoped)
  /\ UNCHANGED <<scoped, outside, disk, mem, seen, pc, call, script, cmd, clean,
                 faults, foreign>>

OrphanExit ==
  /\ orphan # NoCmd
  /\ orphan' = NoCmd
  /\ UNCHANGED <<kernelVars, disk, mem, seen, pc, call, script, cmd, clean, faults>>

\* Somebody adds or removes content outside the reserved footprint.
ForeignOutside ==
  /\ foreign < MaxForeign /\ foreign' = foreign + 1
  /\ outside' = 1 - outside
  /\ UNCHANGED <<scoped, res, disk, mem, seen, pc, call, script, cmd, orphan, clean,
                 disturbed, faults>>

\* Somebody changes a reserved resource.
ForeignReserved ==
  /\ foreign < MaxForeign /\ foreign' = foreign + 1
  /\ \E i \in Steps, n \in 0..2 : n # res[i] /\ res' = [res EXCEPT ![i] = n]
  /\ disturbed' = TRUE
  /\ UNCHANGED <<scoped, outside, disk, mem, seen, pc, call, script, cmd, orphan,
                 clean, faults>>

---------------------------------------------------------------------------

Init ==
  /\ scoped \in BOOLEAN
  /\ res \in [Steps -> 0..1]
  /\ disturbed = (res # Prefix(0))
  /\ outside \in {0, 1}
  /\ disk = Fresh /\ mem = Fresh /\ seen = Fresh
  /\ pc = "closed" /\ call = "none" /\ script = "worker"
  /\ cmd = NoCmd /\ orphan = NoCmd
  /\ clean = FALSE
  /\ faults = 0 /\ foreign = 0

Method == \/ SetupEnter \/ SetupFresh \/ SetupSnap \/ SetupBase
          \/ ChangeCheck \/ ChangeWitness \/ ChangeIntent \/ ChangeRun
          \/ ChangeRan \/ ChangeRunFailed \/ ChangeObserve \/ ChangeCommit
          \/ Reconcile \/ Settle \/ PreCheck

Owner == \/ Open("worker") \/ Open("guardian") \/ GuardianBlocked
         \/ CallSetup \/ CallRecover("resolve") \/ CallRecover("recover")
         \/ Close
         \/ Method \/ ObserveFailed

Environment == \/ Kill \/ Apply \/ OrphanApply \/ OrphanExit
               \/ ForeignOutside \/ ForeignReserved

Next == Owner \/ Environment

Spec == Init /\ [][Next]_vars

\* The guardian that waited for a worker's exit makes its one attempt; the
\* last holder of the journal was a worker exactly as long as it is due.
GuardianAttempt == script = "worker" /\ (Open("guardian") \/ GuardianBlocked)

\* A method in progress goes on, a command finishes (it runs under an 8 s
\* deadline), and the guardian makes its one attempt.  A further attempt,
\* after one that was blocked or failed, is left to the integrator: it is a
\* step of the specification that need never come.
Fairness == /\ WF_vars(Method)
            /\ WF_vars(Apply)
            /\ WF_vars(OrphanExit)
            /\ WF_vars(GuardianAttempt)

FairSpec == Spec /\ Fairness

---------------------------------------------------------------------------
(* Properties *)

\* The values of the kernel, of the records and of the process state.
TypeOK ==
  /\ scoped \in BOOLEAN /\ res \in Counts /\ outside \in {0, 1}
  /\ disk \in Record /\ mem \in Record /\ seen \in Record
  /\ pc \in {"closed", "idle", "enter", "fresh", "snap", "base", "check",
             "witness", "intent", "run", "wait", "observe", "commit",
             "reconcile", "settle", "precheck"}
  /\ call \in {"none", "setup", "resolve", "recover"}
  /\ script \in {"worker", "guardian"}
  /\ cmd \in Command \cup {NoCmd} /\ orphan \in Command \cup {NoCmd}
  /\ clean \in BOOLEAN /\ disturbed \in BOOLEAN
  /\ faults \in 0..MaxFaults /\ foreign \in 0..MaxForeign

\* The outcomes a record admits for the kernel.
Outcomes(r) == {Prefix(r.owned)} \cup
               (IF r.pending = "none" THEN {} ELSE {Prefix(After(r))})

\* Whatever saves, commands and processes fail, and wherever the process is
\* killed, the journal on disk tells the truth about the kernel: a committed
\* record counts exactly the resources that are there, a pending one leaves
\* open only whether its one command took effect.
DiskTruth == ~disturbed => res \in Outcomes(disk)

\* The journal on disk can always be opened again: decodeJournalMode never
\* refuses what save() wrote.
AlwaysDecodable == Decodable(disk)

\* When the guardian reports Clean, no planned resource is left and, in
\* Scoped mode, no command that could still create one is running.
CleanReport ==
  clean => /\ disturbed \/ res = Prefix(0)
           /\ scoped => orphan = NoCmd
           /\ disk.owned = 0 /\ disk.pending = "none"

\* Scoped mode never records a snapshot other than the exact profile of the
\* steps it claims to own, even when somebody else changes the footprint at
\* any moment: a foreign resource is never adopted into the journal.
NeverAdopts == scoped /\ disk # Fresh => disk.snap.res = Prefix(disk.owned)

\* Write-ahead: in scoped mode every change of the footprint that is not a
\* foreign one is the operation named by the pending intent on disk.
IntentFirst ==
  [][scoped /\ res' # res /\ foreign' = foreign =>
       /\ disk.pending # "none"
       /\ res' = [res EXCEPT ![Index(disk)] =
                    IF disk.pending = "add" THEN @ + 1 ELSE @ - 1]]_vars

\* "A foreign chain introduced in a pending window is preserved and blocks
\* recovery": an intent is only resolved into a snapshot with the same
\* foreign content as its proof.
PendingAdmitsNoForeign ==
  [][disk.pending # "none" /\ disk'.pending = "none" =>
       disk'.snap.out = disk.proof.out]_vars

\* One attempt is enough: after a worker's exit the guardian's single recovery
\* removes what the worker left behind, however often queries, saves and
\* commands of that worker failed and wherever it was killed.  Excused are a
\* fault during the attempt itself, a leased command that still holds the lock
\* at the exit, a worker that takes the journal over, a disturbed footprint
\* and, in strict mode, which refuses a namespace that is not the one it
\* recorded, a change of the rest of the namespace.
LeftBehind == pc = "closed" /\ script = "worker" /\ res # Prefix(0)
Recovered  == \A f \in 0..MaxFaults :
  LeftBehind /\ faults = f /\ (scoped => orphan = NoCmd) ~>
    \/ res = Prefix(0)
    \/ faults > f
    \/ script = "worker" /\ pc # "closed"
    \/ disturbed
    \/ ~scoped /\ foreign > 0

\* The journal implements the abstract stack of owned resources.
Stack == INSTANCE OwnedStack
StackSpec == Stack!Spec
=============================================================================
