-------------------------- MODULE JournalInv_proofs --------------------------
(***************************************************************************)
(* Proofs, for every number of planned steps, both modes and every bound,  *)
(* of the safety properties of Journal.                                    *)
(***************************************************************************)
EXTENDS JournalInv, TLAPS

\* A profile is a vector of counts.
LEMMA PrefixCounts == \A k \in Int : Prefix(k) \in Counts
BY DEF Prefix, Counts

\* Step k + 1 leads from the profile of k steps to that of k + 1, and back.
LEMMA Neighbours ==
  ASSUME NEW k \in 0..(N - 1)
  PROVE  /\ k + 1 \in Steps
         /\ Prefix(k)[k + 1] = 0 /\ Prefix(k + 1)[k + 1] = 1
         /\ [Prefix(k) EXCEPT ![k + 1] = @ + 1] = Prefix(k + 1)
         /\ [Prefix(k + 1) EXCEPT ![k + 1] = @ - 1] = Prefix(k)
<1>1. k \in Nat /\ k + 1 \in Steps
  BY NAssumption DEF Steps
<1>2. \A i \in Steps : i \in Int /\ (i <= k + 1 <=> i <= k \/ i = k + 1)
  BY <1>1 DEF Steps
<1>3. Prefix(k)[k + 1] = 0 /\ Prefix(k + 1)[k + 1] = 1
  BY <1>1, <1>2 DEF Prefix
<1>4. ASSUME NEW i \in Steps, i # k + 1 PROVE Prefix(k)[i] = Prefix(k + 1)[i]
  BY <1>1, <1>2, <1>4 DEF Prefix
<1>5. [Prefix(k) EXCEPT ![k + 1] = @ + 1] = Prefix(k + 1)
  BY <1>3, <1>4 DEF Prefix
<1>6. [Prefix(k + 1) EXCEPT ![k + 1] = @ - 1] = Prefix(k)
  BY <1>3, <1>4 DEF Prefix
<1> QED BY <1>1, <1>3, <1>5, <1>6

\* What an observation returns is a digest, and never the absent one.
LEMMA WholeDigest ==
  ASSUME TypeOK
  PROVE  Whole \in Digest /\ Whole # NoDigest
BY DEF TypeOK, Whole, Digest, NoDigest

\* A pending proof is a digest.
LEMMA ResidualDigest ==
  ASSUME TypeOK, NEW i \in Steps
  PROVE  Residual(i) \in Digest
BY PrefixCounts DEF TypeOK, Residual, Digest, Counts

\* What the type of a record says of its fields.
LEMMA RecordFacts ==
  /\ Fresh \in Record
  /\ \A n \in 0..N, s \in Digest : Committed(n, s) \in Record
  /\ \A r \in Record, s \in Digest : [r EXCEPT !.snap = s] \in Record
  /\ \A r \in Record, s \in Digest, op \in {"add", "remove"} :
       [[r EXCEPT !.pending = op] EXCEPT !.proof = s] \in Record
  /\ \A r \in Record : r.owned \in 0..N /\ r.pending \in Pendings
<1>1. Fresh \in Record
  BY NAssumption DEF Fresh, Record, Pendings
<1>2. \A n \in 0..N, s \in Digest : Committed(n, s) \in Record
  BY DEF Committed, Record, Pendings
<1>3. \A r \in Record, s \in Digest : [r EXCEPT !.snap = s] \in Record
  BY DEF Record
<1>4. \A r \in Record, s \in Digest, op \in {"add", "remove"} :
        [[r EXCEPT !.pending = op] EXCEPT !.proof = s] \in Record
  BY DEF Record, Pendings
<1>5. \A r \in Record : r.owned \in 0..N /\ r.pending \in Pendings
  BY DEF Record
<1> QED BY <1>1, <1>2, <1>3, <1>4, <1>5

\* The step and the outcome of a pending operation lie within the plan.
LEMMA PendingRange ==
  ASSUME NEW r \in Record, Decodable(r), r.pending # "none"
  PROVE  Index(r) \in Steps /\ After(r) \in 0..N
<1>1. r.owned \in 0..N /\ r.pending \in {"add", "remove"}
  BY RecordFacts DEF Pendings
<1> QED BY <1>1, NAssumption DEF Decodable, Index, After, Steps

\* The bound counters stay within their bounds.
LEMMA FaultType ==
  ASSUME TypeOK, Fault
  PROVE  faults' \in 0..MaxFaults
BY BoundAssumption DEF TypeOK, Fault

\* The same for the counter of foreign changes.
LEMMA ForeignType ==
  ASSUME TypeOK, foreign < MaxForeign, foreign' = foreign + 1
  PROVE  foreign' \in 0..MaxForeign
BY BoundAssumption DEF TypeOK

\* The initial states of the journal (no journal.json yet) are well typed.
THEOREM TypeInit == Init => TypeOK
<1> SUFFICES ASSUME Init PROVE TypeOK
  OBVIOUS
<1>1. res \in Counts /\ disturbed \in BOOLEAN
  BY DEF Init, Counts
<1>2. faults \in 0..MaxFaults /\ foreign \in 0..MaxForeign
  BY BoundAssumption DEF Init
<1> QED BY <1>1, <1>2, RecordFacts DEF Init, TypeOK

\* A command's effect keeps the counts in range.
LEMMA EffectType ==
  ASSUME TypeOK, NEW c \in Command, Effect(c)
  PROVE  res' \in Counts
<1>1. c.step \in Steps /\ res \in [Steps -> 0..2]
  BY DEF TypeOK, Command, Counts
<1>2. res[c.step] \in 0..2
  BY <1>1
<1>3. CASE c.op = "add"
  BY <1>1, <1>2, <1>3 DEF Effect, Counts
<1>4. CASE c.op # "add"
  BY <1>1, <1>2, <1>4 DEF Effect, Counts
<1> QED BY <1>3, <1>4

\* Every step keeps the types; the ranges of a command's step and of the
\* new owned count come from the shape of the pending record.
LEMMA TypeStep ==
  ASSUME TypeOK, Shape, [Next]_vars
  PROVE  TypeOK'
<1> USE DEF TypeOK, kernelVars, ReturnOK, ReturnErr, Goto, SaveOK, SaveFail
<1>1. ASSUME NEW s \in {"worker", "guardian"}, Open(s) PROVE TypeOK'
  BY <1>1 DEF Open
<1>2. ASSUME NEW m \in {"resolve", "recover"}, CallRecover(m) PROVE TypeOK'
  BY <1>2 DEF CallRecover
<1>3. CASE SetupEnter
  BY <1>3 DEF SetupEnter
<1>4. CASE SetupFresh
  BY <1>4, WholeDigest, RecordFacts DEF SetupFresh
<1>5. CASE SetupSnap
  BY <1>5, WholeDigest, RecordFacts DEF SetupSnap
<1>6. CASE SetupBase
  BY <1>6, FaultType DEF SetupBase
<1>7. CASE ChangeCheck
  BY <1>7 DEF ChangeCheck
<1>8. CASE ChangeWitness
  <2> DEFINE op == IF call = "setup" THEN "add" ELSE "remove"
             r  == [mem EXCEPT !.pending = op]
  <2>1. CASE Whole = mem.snap /\ res = Prefix(mem.owned)
    <3>1. r \in Record /\ r.pending = op /\ r.owned = mem.owned
      BY DEF Record, Pendings
    <3>2. Index(r) \in Steps
      <4>1. mem.owned \in 0..N
        BY RecordFacts
      <4>2. \/ call = "setup" /\ mem.owned < N
            \/ call = "recover" /\ mem.owned > 0
        BY <1>8 DEF ChangeWitness, Shape
      <4> QED BY <3>1, <4>1, <4>2, NAssumption DEF Index, Steps
    <3>3. [r EXCEPT !.proof = Residual(Index(r))] \in Record
      BY <3>2, ResidualDigest, RecordFacts
    <3>4. mem' = [r EXCEPT !.proof = Residual(Index(r))]
      BY <1>8, <2>1 DEF ChangeWitness
    <3>5. mem' \in Record
      BY <3>3, <3>4
    <3> QED BY <1>8, <2>1, <3>5 DEF ChangeWitness
  <2>2. CASE ~(Whole = mem.snap /\ res = Prefix(mem.owned))
    BY <1>8, <2>2 DEF ChangeWitness
  <2> QED BY <2>1, <2>2
<1>9. CASE ChangeIntent
  BY <1>9, FaultType DEF ChangeIntent
<1>10. CASE ChangeRun
  <2>1. mem.pending \in {"add", "remove"} /\ Index(mem) \in Steps
    BY <1>10, PendingRange, RecordFacts DEF ChangeRun, Shape, Pendings
  <2>2. cmd' \in Command
    BY <1>10, <2>1 DEF ChangeRun, Command
  <2> QED BY <1>10, <2>2 DEF ChangeRun
<1>11. CASE ChangeRan
  BY <1>11 DEF ChangeRan
<1>12. CASE ChangeRunFailed
  BY <1>12, FaultType DEF ChangeRunFailed
<1>13. CASE ChangeObserve
  <2>1. After(mem) \in 0..N
    BY <1>13, PendingRange DEF ChangeObserve, Shape
  <2>2. Committed(After(mem), Whole) \in Record
    BY <2>1, WholeDigest, RecordFacts
  <2>3. seen' \in Record
    BY <1>13, <2>2 DEF ChangeObserve
  <2> QED BY <1>13, <2>3 DEF ChangeObserve
<1>14. CASE ChangeCommit
  BY <1>14, FaultType DEF ChangeCommit
<1>15. CASE Reconcile
  <2>1. After(mem) \in 0..N /\ mem.owned \in 0..N
    BY <1>15, PendingRange, RecordFacts DEF Reconcile, Shape
  <2>2. /\ Committed(After(mem), Whole) \in Record
        /\ Committed(mem.owned, Whole) \in Record
    BY <2>1, WholeDigest, RecordFacts
  <2>3. seen' \in Record
    BY <1>15, <2>2 DEF Reconcile
  <2> QED BY <1>15, <2>3 DEF Reconcile
<1>16. CASE Settle
  BY <1>16, FaultType DEF Settle
<1>17. CASE PreCheck
  BY <1>17 DEF PreCheck
<1>18. CASE ObserveFailed
  BY <1>18, FaultType DEF ObserveFailed
<1>19. CASE CallSetup
  BY <1>19 DEF CallSetup
<1>20. CASE Close
  BY <1>20 DEF Close
<1>21. CASE Kill
  BY <1>21, FaultType DEF Kill
<1>22. CASE Apply
  <2>1. cmd \in Command
    BY <1>22 DEF Apply
  <2>2. cmd' \in Command
    BY <1>22, <2>1 DEF Apply, Command
  <2>3. res' \in Counts
    BY <1>22, <2>1, EffectType DEF Apply
  <2> QED BY <1>22, <2>2, <2>3 DEF Apply
<1>23. CASE OrphanApply
  <2>1. orphan \in Command
    BY <1>23 DEF OrphanApply
  <2>2. orphan' \in Command
    BY <1>23, <2>1 DEF OrphanApply, Command
  <2>3. res' \in Counts
    BY <1>23, <2>1, EffectType DEF OrphanApply
  <2>4. disturbed' \in BOOLEAN
    BY <1>23, Zenon DEF OrphanApply
  <2> QED BY <1>23, <2>2, <2>3, <2>4 DEF OrphanApply
<1>24. CASE OrphanExit
  BY <1>24 DEF OrphanExit
<1>25. CASE ForeignOutside
  BY <1>25, ForeignType DEF ForeignOutside
<1>26. CASE ForeignReserved
  <2>1. res' \in Counts
    BY <1>26 DEF ForeignReserved, Counts
  <2> QED BY <1>26, <2>1, ForeignType DEF ForeignReserved
<1>27. CASE UNCHANGED vars
  BY <1>27 DEF vars
<1>28. CASE GuardianBlocked
  BY <1>28 DEF GuardianBlocked
<1> QED BY <1>1, <1>2, <1>3, <1>4, <1>5, <1>6, <1>7, <1>8, <1>9, <1>10, <1>11, <1>12, <1>13,
   <1>14, <1>15, <1>16, <1>17, <1>18, <1>19, <1>20, <1>21, <1>22, <1>23, <1>24, <1>25,
   <1>26, <1>27, <1>28 DEF Next, Owner, Method, Environment

\* The records the methods build have the shape decodeJournalMode demands.
LEMMA CommittedShape ==
  ASSUME NEW n \in 0..N, NEW s, s # NoDigest
  PROVE  /\ Based(Committed(n, s))
         /\ Committed(n, s).pending = "none"
         /\ Committed(n, s).owned = n
         /\ Committed(n, s).snap = s
BY DEF Based, Decodable, Committed

\* Recording a snapshot (Setup) keeps a record decodable.
LEMMA SnapShape ==
  ASSUME NEW r \in Record, Decodable(r), r.pending = "none",
         NEW s, s # NoDigest
  PROVE  LET q == [r EXCEPT !.snap = s]
         IN Decodable(q) /\ q.pending = "none" /\ q.owned = r.owned /\ q.snap = s
BY DEF Record, Decodable

\* Writing an intent (change) keeps a record decodable.
LEMMA IntentShape ==
  ASSUME NEW r \in Record, Decodable(r), r.snap # NoDigest, NEW p,
         NEW op \in {"add", "remove"},
         op = "add" => r.owned < N, op = "remove" => r.owned > 0
  PROVE  LET q == [[r EXCEPT !.pending = op] EXCEPT !.proof = p]
         IN /\ Decodable(q) /\ q.pending = op /\ q.pending # "none"
            /\ q.owned = r.owned /\ q.snap = r.snap
<1> DEFINE q == [[r EXCEPT !.pending = op] EXCEPT !.proof = p]
<1>1. q.pending = op /\ q.owned = r.owned /\ q.snap = r.snap
  BY DEF Record
<1>2. q # Fresh
  BY <1>1 DEF Fresh
<1>3. op # "none"
  OBVIOUS
<1> QED BY <1>1, <1>2, <1>3 DEF Decodable

\* check() refuses a record with a pending intent.
LEMMA CheckedRecord == CheckOK => mem.pending = "none"
BY DEF CheckOK

\* Every step keeps the shape of the records.
LEMMA ShapeStep ==
  ASSUME TypeOK, Shape, [Next]_vars
  PROVE  Shape'
<1> USE DEF Shape, kernelVars, ReturnOK, ReturnErr, Goto, SaveOK, SaveFail
<1>1. ASSUME NEW s \in {"worker", "guardian"}, Open(s) PROVE Shape'
  BY <1>1 DEF Open
<1>2. ASSUME NEW m \in {"resolve", "recover"}, CallRecover(m) PROVE Shape'
  BY <1>2 DEF CallRecover
<1>3. CASE SetupEnter
  BY <1>3, CheckedRecord DEF SetupEnter
<1>4. CASE SetupFresh
  <2>1. CASE scoped /\ res = Prefix(0)
    <3>1. mem' = [mem EXCEPT !.snap = Whole] /\ UNCHANGED disk
      BY <1>4, <2>1 DEF SetupFresh
    <3>2. mem \in Record /\ Decodable(mem) /\ mem.pending = "none" /\ mem.owned = 0
      BY <1>4 DEF SetupFresh, TypeOK
    <3>3. Decodable(mem') /\ mem'.pending = "none" /\ mem'.owned = 0
          /\ mem'.snap # NoDigest
      BY <3>1, <3>2, WholeDigest, SnapShape
    <3> QED BY <1>4, <2>1, <3>3 DEF SetupFresh
  <2>2. CASE ~(scoped /\ res = Prefix(0))
    BY <1>4, <2>2 DEF SetupFresh
  <2> QED BY <2>1, <2>2
<1>5. CASE SetupSnap
  <2>1. mem' = [mem EXCEPT !.snap = Whole] /\ UNCHANGED disk
    BY <1>5 DEF SetupSnap
  <2>2. mem \in Record /\ Decodable(mem) /\ mem.pending = "none" /\ mem.owned = 0
    BY <1>5 DEF SetupSnap, TypeOK
  <2>3. Decodable(mem') /\ mem'.pending = "none" /\ mem'.owned = 0
        /\ mem'.snap # NoDigest
    BY <2>1, <2>2, WholeDigest, SnapShape
  <2> QED BY <1>5, <2>3 DEF SetupSnap
<1>6. CASE SetupBase
  BY <1>6, NAssumption DEF SetupBase, TypeOK
<1>7. CASE ChangeCheck
  BY <1>7, CheckedRecord DEF ChangeCheck
<1>8. CASE ChangeWitness
  <2> DEFINE op == IF call = "setup" THEN "add" ELSE "remove"
             r  == [mem EXCEPT !.pending = op]
  <2>1. CASE Whole = mem.snap /\ res = Prefix(mem.owned)
    <3>1. mem' = [r EXCEPT !.proof = Residual(Index(r))]
      BY <1>8, <2>1 DEF ChangeWitness
    <3>2. /\ mem \in Record /\ Decodable(mem) /\ mem.snap # NoDigest
          /\ op = "add" => mem.owned < N
          /\ op = "remove" => mem.owned > 0
      BY <1>8, <2>1, WholeDigest DEF ChangeWitness, TypeOK
    <3>3. Decodable(mem') /\ mem'.pending # "none"
      BY <3>1, <3>2, IntentShape
    <3> QED BY <1>8, <2>1, <3>3 DEF ChangeWitness
  <2>2. CASE ~(Whole = mem.snap /\ res = Prefix(mem.owned))
    BY <1>8, <2>2 DEF ChangeWitness
  <2> QED BY <2>1, <2>2
<1>9. CASE ChangeIntent
  BY <1>9 DEF ChangeIntent
<1>10. CASE ChangeRun
  <2>1. cmd' # NoCmd /\ cmd'.op = mem.pending /\ cmd'.step = Index(mem)
    BY <1>10 DEF ChangeRun, NoCmd
  <2> QED BY <1>10, <2>1 DEF ChangeRun
<1>11. CASE ChangeRan
  BY <1>11 DEF ChangeRan
<1>12. CASE ChangeRunFailed
  BY <1>12 DEF ChangeRunFailed
<1>13. CASE ChangeObserve
  <2>1. CASE SnapshotOK(After(mem))
    <3>1. After(mem) \in 0..N
      BY <1>13, PendingRange DEF ChangeObserve, TypeOK
    <3>2. Based(seen') /\ seen'.pending = "none"
      BY <1>13, <2>1, <3>1, WholeDigest, CommittedShape DEF ChangeObserve
    <3>3. pc' = "commit" /\ call \in {"setup", "recover"}
      BY <1>13, <2>1 DEF ChangeObserve
    <3> QED BY <1>13, <2>1, <3>2, <3>3 DEF ChangeObserve
  <2>2. CASE ~SnapshotOK(After(mem))
    BY <1>13, <2>2 DEF ChangeObserve
  <2> QED BY <2>1, <2>2
<1>14. CASE ChangeCommit
  <2>1. Decodable(seen) /\ seen.pending = "none" /\ seen.owned \in 0..N
    BY <1>14, RecordFacts DEF ChangeCommit, Based, TypeOK
  <2>2. CASE SaveOK(seen) /\ mem' = seen
    <3>1. CASE seen.owned = (IF call = "setup" THEN N ELSE 0)
      BY <1>14, <2>1, <2>2, <3>1 DEF ChangeCommit
    <3>2. CASE seen.owned # (IF call = "setup" THEN N ELSE 0)
      <4>1. \/ call = "setup" /\ seen.owned < N
            \/ call = "recover" /\ seen.owned > 0
        BY <1>14, <2>1, <3>2, NAssumption DEF ChangeCommit
      <4> QED BY <1>14, <2>1, <2>2, <3>2, <4>1 DEF ChangeCommit
    <3> QED BY <3>1, <3>2
  <2>3. CASE SaveFail(seen) /\ UNCHANGED mem /\ ReturnErr
    BY <1>14, <2>1, <2>3 DEF ChangeCommit
  <2> QED BY <1>14, <2>2, <2>3 DEF ChangeCommit
<1>15. CASE Reconcile
  <2>1. After(mem) \in 0..N /\ mem.owned \in 0..N
    BY <1>15, PendingRange, RecordFacts DEF Reconcile, TypeOK
  <2>2. \A n \in 0..N : /\ Based(Committed(n, Whole))
                        /\ Committed(n, Whole).pending = "none"
    BY WholeDigest, CommittedShape
  <2>3. pc' = "settle" => Based(seen') /\ seen'.pending = "none"
    BY <1>15, <2>1, <2>2 DEF Reconcile
  <2>4. pc' \in {"settle", "idle", "closed"}
    BY <1>15 DEF Reconcile
  <2> QED BY <1>15, <2>3, <2>4 DEF Reconcile
<1>16. CASE Settle
  BY <1>16 DEF Settle, Based
<1>17. CASE PreCheck
  BY <1>17, CheckedRecord DEF PreCheck
<1>18. CASE ObserveFailed
  BY <1>18 DEF ObserveFailed
<1>19. CASE CallSetup
  BY <1>19 DEF CallSetup
<1>20. CASE Close
  BY <1>20 DEF Close
<1>21. CASE Kill
  BY <1>21 DEF Kill
<1>22. CASE Apply
  <2>1. cmd \in Command
    BY <1>22 DEF Apply, TypeOK
  <2>2. cmd' # NoCmd /\ cmd'.op = cmd.op /\ cmd'.step = cmd.step
    BY <1>22, <2>1 DEF Apply, Command, NoCmd
  <2> QED BY <1>22, <2>2 DEF Apply
<1>23. CASE OrphanApply
  <2>1. orphan \in Command
    BY <1>23 DEF OrphanApply, TypeOK
  <2>2. orphan' # NoCmd /\ orphan'.op = orphan.op /\ orphan'.step = orphan.step
    BY <1>23, <2>1 DEF OrphanApply, Command, NoCmd
  <2> QED BY <1>23, <2>2 DEF OrphanApply
<1>24. CASE OrphanExit
  BY <1>24 DEF OrphanExit
<1>25. CASE ForeignOutside
  BY <1>25 DEF ForeignOutside
<1>26. CASE ForeignReserved
  BY <1>26 DEF ForeignReserved
<1>27. CASE UNCHANGED vars
  BY <1>27 DEF vars
<1>28. CASE GuardianBlocked
  BY <1>28 DEF GuardianBlocked
<1> QED BY <1>1, <1>2, <1>3, <1>4, <1>5, <1>6, <1>7, <1>8, <1>9, <1>10, <1>11, <1>12, <1>13,
   <1>14, <1>15, <1>16, <1>17, <1>18, <1>19, <1>20, <1>21, <1>22, <1>23, <1>24, <1>25,
   <1>26, <1>27, <1>28 DEF Next, Owner, Method, Environment

\* The outcomes of a record: its committed profile, and that of its pending
\* operation if there is one.
LEMMA OutcomeFacts ==
  \A r : /\ Prefix(r.owned) \in Outcomes(r)
         /\ r.pending # "none" => Prefix(After(r)) \in Outcomes(r)
         /\ r.pending = "none" => \A f \in Outcomes(r) : f = Prefix(r.owned)
BY DEF Outcomes

\* A pending operation that takes effect on the committed profile gives the
\* profile of its outcome.
LEMMA PendingEffect ==
  ASSUME NEW r \in Record, Decodable(r), r.pending # "none",
         NEW c, c.op = r.pending, c.step = Index(r),
         res = Prefix(r.owned), Effect(c)
  PROVE  res' = Prefix(After(r))
<1>1. r.owned \in 0..N /\ r.pending \in {"add", "remove"}
  BY RecordFacts DEF Pendings
<1>2. CASE r.pending = "add"
  <2>1. r.owned \in 0..(N - 1) /\ c.step = r.owned + 1 /\ After(r) = r.owned + 1
    BY <1>1, <1>2, NAssumption DEF Decodable, Index, After
  <2>2. res' = [Prefix(r.owned) EXCEPT ![r.owned + 1] = @ + 1]
    BY <1>2, <2>1 DEF Effect
  <2> QED BY <2>1, <2>2, Neighbours
<1>3. CASE r.pending = "remove"
  <2>1. /\ r.owned - 1 \in 0..(N - 1) /\ (r.owned - 1) + 1 = r.owned
        /\ c.step = r.owned /\ After(r) = r.owned - 1
    BY <1>1, <1>3, NAssumption DEF Decodable, Index, After
  <2>2. res' = [Prefix(r.owned) EXCEPT ![r.owned] = @ - 1]
    BY <1>3, <2>1 DEF Effect
  <2> QED BY <2>1, <2>2, Neighbours
<1> QED BY <1>1, <1>2, <1>3

\* Every step keeps the records true of the kernel.
LEMMA TruthStep ==
  ASSUME TypeOK, Shape, Truth, [Next]_vars
  PROVE  Truth'
<1> USE DEF Truth, InFlight, kernelVars, ReturnOK, ReturnErr, Goto, SaveOK, SaveFail
<1>1. ASSUME NEW s \in {"worker", "guardian"}, Open(s) PROVE Truth'
  BY <1>1 DEF Open, Shape
<1>2. ASSUME NEW m \in {"resolve", "recover"}, CallRecover(m) PROVE Truth'
  BY <1>2, OutcomeFacts DEF CallRecover
<1>3. CASE SetupEnter
  BY <1>3, OutcomeFacts DEF SetupEnter
<1>4. CASE SetupFresh
  <2>1. CASE scoped /\ res = Prefix(0)
    <3>1. mem' = [mem EXCEPT !.snap = Whole] /\ mem \in Record /\ mem.pending = "none"
      BY <1>4, <2>1 DEF SetupFresh, Shape, TypeOK
    <3>2. mem'.owned = mem.owned /\ mem'.pending = "none"
      BY <3>1 DEF Record
    <3> QED BY <1>4, <2>1, <3>1, <3>2, OutcomeFacts DEF SetupFresh
  <2>2. CASE ~(scoped /\ res = Prefix(0))
    BY <1>4, <2>2 DEF SetupFresh
  <2> QED BY <2>1, <2>2
<1>5. CASE SetupSnap
  <2>1. mem' = [mem EXCEPT !.snap = Whole] /\ mem \in Record /\ mem.pending = "none"
    BY <1>5 DEF SetupSnap, Shape, TypeOK
  <2>2. mem'.owned = mem.owned /\ mem'.pending = "none"
    BY <2>1 DEF Record
  <2> QED BY <1>5, <2>1, <2>2, OutcomeFacts DEF SetupSnap
<1>6. CASE SetupBase
  BY <1>6, OutcomeFacts DEF SetupBase, Shape
<1>7. CASE ChangeCheck
  BY <1>7, OutcomeFacts DEF ChangeCheck
<1>8. CASE ChangeWitness
  <2> DEFINE op == IF call = "setup" THEN "add" ELSE "remove"
             r  == [mem EXCEPT !.pending = op]
  <2>1. CASE Whole = mem.snap /\ res = Prefix(mem.owned)
    <3>1. mem' = [r EXCEPT !.proof = Residual(Index(r))]
      BY <1>8, <2>1 DEF ChangeWitness
    <3>2. /\ mem \in Record /\ Decodable(mem) /\ mem.snap # NoDigest
          /\ op = "add" => mem.owned < N
          /\ op = "remove" => mem.owned > 0
      BY <1>8, <2>1, WholeDigest DEF ChangeWitness, TypeOK, Shape
    <3>3. mem'.owned = mem.owned
      BY <3>1, <3>2 DEF Record
    <3>4. res' = Prefix(mem'.owned) /\ res' \in Outcomes(mem')
      BY <1>8, <2>1, <3>3, OutcomeFacts DEF ChangeWitness
    <3>5. pc # "wait" /\ pc' = "intent" /\ (scoped => orphan = NoCmd)
      BY <1>8, <2>1 DEF ChangeWitness, Shape
    <3> QED BY <1>8, <2>1, <3>4, <3>5 DEF ChangeWitness
  <2>2. CASE ~(Whole = mem.snap /\ res = Prefix(mem.owned))
    BY <1>8, <2>2 DEF ChangeWitness
  <2> QED BY <2>1, <2>2
<1>9. CASE ChangeIntent
  BY <1>9, OutcomeFacts DEF ChangeIntent, Shape
<1>10. CASE ChangeRun
  <2>1. ~cmd'.applied
    BY <1>10 DEF ChangeRun
  <2>2. /\ pc = "run" /\ pc' = "wait"
        /\ UNCHANGED <<scoped, res, disk, mem, orphan, disturbed>>
    BY <1>10 DEF ChangeRun
  <2> QED BY <2>1, <2>2 DEF InFlight
<1>11. CASE ChangeRan
  BY <1>11 DEF ChangeRan, InFlight
<1>12. CASE ChangeRunFailed
  BY <1>12, OutcomeFacts DEF ChangeRunFailed
<1>13. CASE ChangeObserve
  <2>1. CASE SnapshotOK(After(mem))
    <3>1. After(mem) \in 0..N
      BY <1>13, PendingRange DEF ChangeObserve, TypeOK, Shape
    <3>2. seen'.owned = After(mem)
      BY <1>13, <2>1, <3>1, WholeDigest, CommittedShape DEF ChangeObserve
    <3> QED BY <1>13, <2>1, <3>2 DEF ChangeObserve
  <2>2. CASE ~SnapshotOK(After(mem))
    BY <1>13, <2>2 DEF ChangeObserve
  <2> QED BY <2>1, <2>2
<1>14. CASE ChangeCommit
  BY <1>14, OutcomeFacts DEF ChangeCommit, Shape
<1>15. CASE Reconcile
  <2>1. After(mem) \in 0..N /\ mem.owned \in 0..N
    BY <1>15, PendingRange, RecordFacts DEF Reconcile, TypeOK, Shape
  <2>2. /\ Committed(After(mem), Whole).owned = After(mem)
        /\ Committed(mem.owned, Whole).owned = mem.owned
    BY <2>1, WholeDigest, CommittedShape
  <2>3. pc' = "settle" => res = Prefix(seen'.owned)
    BY <1>15, <2>2 DEF Reconcile
  <2>4. pc' \in {"settle", "idle", "closed"}
    BY <1>15 DEF Reconcile
  <2> QED BY <1>15, <2>3, <2>4 DEF Reconcile
<1>16. CASE Settle
  BY <1>16, OutcomeFacts DEF Settle, Shape
<1>17. CASE PreCheck
  BY <1>17, OutcomeFacts DEF PreCheck
<1>18. CASE ObserveFailed
  BY <1>18, OutcomeFacts DEF ObserveFailed
<1>19. CASE CallSetup
  BY <1>19, OutcomeFacts DEF CallSetup
<1>20. CASE Close
  BY <1>20, OutcomeFacts DEF Close
<1>21. CASE Kill
  <2>1. CASE cmd = NoCmd
    BY <1>21, <2>1 DEF Kill, InFlight
  <2>2. CASE cmd # NoCmd
    <3>1. pc = "wait" /\ disk = mem /\ orphan' = cmd /\ pc' = "closed"
      BY <1>21, <2>2 DEF Kill, Shape
    <3> QED BY <1>21, <3>1 DEF Kill, InFlight
  <2> QED BY <2>1, <2>2
<1>22. CASE Apply
  <2>1. /\ pc = "wait" /\ pc' = "wait" /\ cmd.op = mem.pending /\ cmd.step = Index(mem)
        /\ mem \in Record /\ Decodable(mem) /\ mem.pending # "none" /\ disk = mem
        /\ ~cmd.applied /\ (scoped => orphan = NoCmd)
    BY <1>22 DEF Apply, Shape, TypeOK
  <2>2. cmd'.applied
    BY <1>22 DEF Apply, TypeOK, Command
  <2>3. ~disturbed => res' = Prefix(After(mem))
    BY <1>22, <2>1, PendingEffect DEF Apply, InFlight
  <2>4. UNCHANGED <<scoped, mem, disk, orphan, disturbed>>
    BY <1>22 DEF Apply
  <2> QED BY <2>1, <2>2, <2>3, <2>4, OutcomeFacts DEF InFlight
<1>23. CASE OrphanApply
  <2>1. CASE ~scoped
    BY <1>23, <2>1 DEF OrphanApply
  <2>2. CASE scoped
    <3>1. /\ pc = "closed" /\ pc' = "closed" /\ orphan.op = disk.pending
          /\ orphan.step = Index(disk) /\ disk \in Record /\ Decodable(disk)
          /\ ~orphan.applied
      BY <1>23, <2>2 DEF OrphanApply, Shape, TypeOK
    <3>2. orphan \in Command
      BY <1>23 DEF OrphanApply, TypeOK
    <3>3. disk.pending # "none" /\ orphan'.applied
      BY <1>23, <3>1, <3>2 DEF OrphanApply, Command
    <3>4. UNCHANGED disk /\ (disturbed' => disturbed) /\ (disturbed => disturbed')
      BY <1>23, <2>2 DEF OrphanApply
    <3>5. ~disturbed => res' = Prefix(After(disk))
      BY <1>23, <2>2, <3>1, <3>3, PendingEffect DEF OrphanApply, InFlight
    <3> QED BY <3>1, <3>3, <3>4, <3>5, OutcomeFacts DEF InFlight
  <2> QED BY <2>1, <2>2
<1>24. CASE OrphanExit
  BY <1>24 DEF OrphanExit, InFlight
<1>25. CASE ForeignOutside
  BY <1>25 DEF ForeignOutside, InFlight
<1>26. CASE ForeignReserved
  BY <1>26, OutcomeFacts DEF ForeignReserved
<1>27. CASE UNCHANGED vars
  BY <1>27 DEF vars
<1>28. CASE GuardianBlocked
  BY <1>28 DEF GuardianBlocked, InFlight
<1> QED BY <1>1, <1>2, <1>3, <1>4, <1>5, <1>6, <1>7, <1>8, <1>9, <1>10, <1>11, <1>12, <1>13,
   <1>14, <1>15, <1>16, <1>17, <1>18, <1>19, <1>20, <1>21, <1>22, <1>23, <1>24, <1>25,
   <1>26, <1>27, <1>28 DEF Next, Owner, Method, Environment

\* Every step keeps the guardian's report about the journal on disk.
LEMMA ReportStep ==
  ASSUME TypeOK, Shape, Truth, Report, [Next]_vars
  PROVE  Report'
<1> USE DEF Report, CleanReport, kernelVars, ReturnOK, ReturnErr, Goto, SaveOK, SaveFail
<1>1. ASSUME NEW s \in {"worker", "guardian"}, Open(s) PROVE Report'
  BY <1>1 DEF Open
<1>2. ASSUME NEW m \in {"resolve", "recover"}, CallRecover(m) PROVE Report'
  BY <1>2 DEF CallRecover
<1>3. CASE SetupEnter
  BY <1>3 DEF SetupEnter, Shape
<1>4. CASE SetupFresh
  BY <1>4 DEF SetupFresh, Shape
<1>5. CASE SetupSnap
  BY <1>5 DEF SetupSnap, Shape
<1>6. CASE SetupBase
  BY <1>6 DEF SetupBase, Shape
<1>7. CASE ChangeCheck
  BY <1>7 DEF ChangeCheck
<1>8. CASE ChangeWitness
  BY <1>8 DEF ChangeWitness
<1>9. CASE ChangeIntent
  BY <1>9 DEF ChangeIntent, Shape
<1>10. CASE ChangeRun
  BY <1>10 DEF ChangeRun, Shape
<1>11. CASE ChangeRan
  BY <1>11 DEF ChangeRan
<1>12. CASE ChangeRunFailed
  BY <1>12 DEF ChangeRunFailed
<1>13. CASE ChangeObserve
  BY <1>13 DEF ChangeObserve
<1>14. CASE ChangeCommit
  BY <1>14, OutcomeFacts DEF ChangeCommit, Shape, Truth, TypeOK
<1>15. CASE Reconcile
  BY <1>15 DEF Reconcile
<1>16. CASE Settle
  BY <1>16, OutcomeFacts DEF Settle, Shape, Truth
<1>17. CASE PreCheck
  BY <1>17, CheckedRecord, OutcomeFacts DEF PreCheck, Shape, Truth, TypeOK
<1>18. CASE ObserveFailed
  BY <1>18 DEF ObserveFailed
<1>19. CASE CallSetup
  BY <1>19 DEF CallSetup, Shape
<1>20. CASE Close
  BY <1>20 DEF Close
<1>21. CASE Kill
  BY <1>21 DEF Kill, Shape, TypeOK
<1>22. CASE Apply
  BY <1>22 DEF Apply, Shape
<1>23. CASE OrphanApply
  BY <1>23 DEF OrphanApply
<1>24. CASE OrphanExit
  BY <1>24 DEF OrphanExit
<1>25. CASE ForeignOutside
  BY <1>25 DEF ForeignOutside
<1>26. CASE ForeignReserved
  BY <1>26 DEF ForeignReserved
<1>27. CASE UNCHANGED vars
  BY <1>27 DEF vars
<1>28. CASE GuardianBlocked
  BY <1>28 DEF GuardianBlocked
<1> QED BY <1>1, <1>2, <1>3, <1>4, <1>5, <1>6, <1>7, <1>8, <1>9, <1>10, <1>11, <1>12, <1>13,
   <1>14, <1>15, <1>16, <1>17, <1>18, <1>19, <1>20, <1>21, <1>22, <1>23, <1>24, <1>25,
   <1>26, <1>27, <1>28 DEF Next, Owner, Method, Environment

\* Every step keeps the snapshots honest, whatever others do to the footprint.
LEMMA HonestStep ==
  ASSUME TypeOK, Shape, Honest, [Next]_vars
  PROVE  Honest'
<1> USE DEF Honest, HonestRecord, kernelVars, ReturnOK, ReturnErr, Goto, SaveOK, SaveFail
<1>1. ASSUME NEW s \in {"worker", "guardian"}, Open(s) PROVE Honest'
  BY <1>1 DEF Open
<1>2. ASSUME NEW m \in {"resolve", "recover"}, CallRecover(m) PROVE Honest'
  BY <1>2 DEF CallRecover
<1>3. CASE SetupEnter
  BY <1>3 DEF SetupEnter
<1>4. CASE SetupFresh
  <2>1. CASE scoped /\ res = Prefix(0)
    <3>1. /\ mem' = [mem EXCEPT !.snap = Whole] /\ mem \in Record
          /\ mem.owned = 0 /\ UNCHANGED disk /\ pc' = "base"
      BY <1>4, <2>1 DEF SetupFresh, Shape, TypeOK
    <3>2. mem'.owned = 0 /\ mem'.snap.res = Prefix(0)
      BY <2>1, <3>1 DEF Record, Whole
    <3> QED BY <1>4, <3>1, <3>2 DEF SetupFresh
  <2>2. CASE ~(scoped /\ res = Prefix(0))
    BY <1>4, <2>2 DEF SetupFresh
  <2> QED BY <2>1, <2>2
<1>5. CASE SetupSnap
  <2>1. ~scoped /\ UNCHANGED scoped
    BY <1>5 DEF SetupSnap, Shape
  <2> QED BY <2>1
<1>6. CASE SetupBase
  BY <1>6 DEF SetupBase
<1>7. CASE ChangeCheck
  BY <1>7 DEF ChangeCheck
<1>8. CASE ChangeWitness
  <2> DEFINE op == IF call = "setup" THEN "add" ELSE "remove"
             r  == [mem EXCEPT !.pending = op]
  <2>1. CASE Whole = mem.snap /\ res = Prefix(mem.owned)
    <3>1. mem' = [r EXCEPT !.proof = Residual(Index(r))] /\ mem \in Record
      BY <1>8, <2>1 DEF ChangeWitness, TypeOK
    <3>2. mem'.owned = mem.owned /\ mem'.snap = mem.snap
      BY <3>1 DEF Record
    <3>3. pc' = "intent" /\ pc # "closed" /\ UNCHANGED <<scoped, disk>>
      BY <1>8, <2>1 DEF ChangeWitness
    <3> QED BY <3>2, <3>3
  <2>2. CASE ~(Whole = mem.snap /\ res = Prefix(mem.owned))
    BY <1>8, <2>2 DEF ChangeWitness
  <2> QED BY <2>1, <2>2
<1>9. CASE ChangeIntent
  BY <1>9 DEF ChangeIntent
<1>10. CASE ChangeRun
  BY <1>10 DEF ChangeRun
<1>11. CASE ChangeRan
  BY <1>11 DEF ChangeRan
<1>12. CASE ChangeRunFailed
  BY <1>12 DEF ChangeRunFailed
<1>13. CASE ChangeObserve
  <2>1. CASE SnapshotOK(After(mem))
    <3>1. After(mem) \in 0..N
      BY <1>13, PendingRange DEF ChangeObserve, TypeOK, Shape
    <3>2. seen'.owned = After(mem) /\ seen'.snap = Whole
      BY <1>13, <2>1, <3>1, WholeDigest, CommittedShape DEF ChangeObserve
    <3>3. scoped => Whole.res = Prefix(After(mem))
      BY <2>1 DEF SnapshotOK, Whole
    <3> QED BY <1>13, <2>1, <3>2, <3>3 DEF ChangeObserve
  <2>2. CASE ~SnapshotOK(After(mem))
    BY <1>13, <2>2 DEF ChangeObserve
  <2> QED BY <2>1, <2>2
<1>14. CASE ChangeCommit
  BY <1>14 DEF ChangeCommit
<1>15. CASE Reconcile
  <2>1. After(mem) \in 0..N /\ mem.owned \in 0..N
    BY <1>15, PendingRange, RecordFacts DEF Reconcile, TypeOK, Shape
  <2>2. \A n \in 0..N : /\ Committed(n, Whole).owned = n
                        /\ Committed(n, Whole).snap = Whole
    BY WholeDigest, CommittedShape
  <2>3. pc' = "settle" => Whole.res = Prefix(seen'.owned) /\ seen'.snap = Whole
    BY <1>15, <2>1, <2>2 DEF Reconcile, Whole
  <2>4. pc' \in {"settle", "idle", "closed"}
    BY <1>15 DEF Reconcile
  <2> QED BY <1>15, <2>3, <2>4 DEF Reconcile
<1>16. CASE Settle
  BY <1>16 DEF Settle
<1>17. CASE PreCheck
  BY <1>17 DEF PreCheck
<1>18. CASE ObserveFailed
  BY <1>18 DEF ObserveFailed
<1>19. CASE CallSetup
  BY <1>19 DEF CallSetup
<1>20. CASE Close
  BY <1>20 DEF Close
<1>21. CASE Kill
  BY <1>21 DEF Kill
<1>22. CASE Apply
  BY <1>22 DEF Apply
<1>23. CASE OrphanApply
  BY <1>23 DEF OrphanApply
<1>24. CASE OrphanExit
  BY <1>24 DEF OrphanExit
<1>25. CASE ForeignOutside
  BY <1>25 DEF ForeignOutside
<1>26. CASE ForeignReserved
  BY <1>26 DEF ForeignReserved
<1>27. CASE UNCHANGED vars
  BY <1>27 DEF vars
<1>28. CASE GuardianBlocked
  BY <1>28 DEF GuardianBlocked
<1> QED BY <1>1, <1>2, <1>3, <1>4, <1>5, <1>6, <1>7, <1>8, <1>9, <1>10, <1>11, <1>12, <1>13,
   <1>14, <1>15, <1>16, <1>17, <1>18, <1>19, <1>20, <1>21, <1>22, <1>23, <1>24, <1>25,
   <1>26, <1>27, <1>28 DEF Next, Owner, Method, Environment

\* The initial states satisfy the whole inductive invariant.
LEMMA InvInit == Init => IInv
<1> SUFFICES ASSUME Init PROVE IInv
  OBVIOUS
<1>1. TypeOK
  BY TypeInit
<1>2. Decodable(Fresh)
  BY DEF Decodable, Fresh
<1>3. Fresh.owned = 0 /\ Fresh.snap = NoDigest
  BY DEF Fresh
<1>4. Shape
  BY <1>2 DEF Init, Shape
<1>5. Truth
  BY <1>3, OutcomeFacts DEF Init, Truth
<1>6. Report
  BY DEF Init, Report, CleanReport
<1>7. Honest
  BY <1>3 DEF Init, Honest, HonestRecord
<1> QED BY <1>1, <1>4, <1>5, <1>6, <1>7 DEF IInv

\* Journal.IInv is inductive: for every number of steps, both modes, any
\* number of kills, failing saves and commands, and foreign changes.
THEOREM Inductive == Spec => []IInv
<1>1. IInv /\ [Next]_vars => IInv'
  BY TypeStep, ShapeStep, TruthStep, ReportStep, HonestStep DEF IInv
<1> QED BY InvInit, <1>1, PTL DEF Spec

\* Type correctness of the journal model.
THEOREM TypeCorrect == Spec => []TypeOK
<1>1. IInv => TypeOK
  BY DEF IInv
<1> QED BY Inductive, <1>1, PTL

\* The journal on disk is always true of the kernel (journal_linux.go: intent
\* before command, commit after observation, save by rename).
THEOREM DiskIsTrue == Spec => []DiskTruth
<1>1. IInv => DiskTruth
  BY DEF IInv, Truth, DiskTruth
<1> QED BY Inductive, <1>1, PTL

\* Whatever save() wrote can be opened again (journal.go, decodeJournalMode).
THEOREM CanReopen == Spec => []AlwaysDecodable
<1>1. IInv => AlwaysDecodable
  BY DEF IInv, Shape, AlwaysDecodable
<1> QED BY Inductive, <1>1, PTL

\* A guardian that reports Clean left nothing behind (guardian_linux.go).
THEOREM CleanIsClean == Spec => []CleanReport
<1>1. IInv => CleanReport
  BY DEF IInv, Report
<1> QED BY Inductive, <1>1, PTL

\* A scoped journal never adopts foreign resources, even when the footprint
\* is changed by others at any moment.
THEOREM NoAdoption == Spec => []NeverAdopts
<1>1. IInv => NeverAdopts
  BY DEF IInv, Shape, Decodable, Honest, HonestRecord, NeverAdopts
<1> QED BY Inductive, <1>1, PTL

\* Which steps can change the footprint, and how.
LEMMA FootprintSteps ==
  ASSUME [Next]_vars
  PROVE  \/ Apply
         \/ OrphanApply
         \/ ForeignReserved
         \/ UNCHANGED <<res, disturbed>>
BY DEF Next, Owner, Method, Environment, vars, kernelVars, Open, CallSetup,
       CallRecover, Close, Kill, SetupEnter, SetupFresh, SetupSnap, SetupBase,
       ChangeCheck, ChangeWitness, ChangeIntent, ChangeRun, ChangeRan,
       ChangeRunFailed, ChangeObserve, ChangeCommit, Reconcile, Settle,
       PreCheck, ObserveFailed, OrphanExit, ForeignOutside, GuardianBlocked

\* Write-ahead logging: no command of ours changes the kernel without its
\* intent on disk (journal_linux.go, change: "write intent before mutating
\* the kernel").
THEOREM WriteAhead == Spec => IntentFirst
<1> DEFINE Logged == scoped /\ res' # res /\ foreign' = foreign =>
              /\ disk.pending # "none"
              /\ res' = [res EXCEPT ![Index(disk)] =
                           IF disk.pending = "add" THEN @ + 1 ELSE @ - 1]
<1>1. IInv /\ [Next]_vars => Logged
  <2> SUFFICES ASSUME IInv, [Next]_vars, scoped PROVE Logged
    OBVIOUS
  <2>1. CASE Apply
    <3>1. cmd.op = disk.pending /\ cmd.step = Index(disk) /\ disk.pending # "none"
      BY <2>1 DEF IInv, Shape, Apply
    <3> QED BY <2>1, <3>1 DEF Apply, Effect
  <2>2. CASE OrphanApply
    <3>1. orphan.op = disk.pending /\ orphan.step = Index(disk)
      BY <2>2 DEF IInv, Shape, OrphanApply
    <3>2. orphan \in Command
      BY <2>2 DEF IInv, TypeOK, OrphanApply
    <3>3. disk.pending # "none"
      BY <3>1, <3>2 DEF Command
    <3> QED BY <2>2, <3>1, <3>3 DEF OrphanApply, Effect
  <2>3. CASE ForeignReserved
    <3>1. foreign' # foreign
      BY <2>3 DEF ForeignReserved, IInv, TypeOK
    <3> QED BY <3>1
  <2>4. CASE UNCHANGED <<res, disturbed>>
    BY <2>4
  <2> QED BY <2>1, <2>2, <2>3, <2>4, FootprintSteps
<1>2. IInv /\ [Next]_vars => [Logged]_vars
  BY <1>1
<1> QED BY Inductive, <1>2, PTL DEF Spec, IntentFirst

\* A committed operation that takes effect is a push or a pop.
LEMMA StackMove ==
  ASSUME NEW r \in Record, Decodable(r), r.pending # "none",
         res = Prefix(r.owned), res' = Prefix(After(r)), UNCHANGED disturbed
  PROVE  Stack!Push \/ Stack!Pop
<1>1. r.owned \in 0..N /\ r.pending \in {"add", "remove"}
  BY RecordFacts DEF Pendings
<1>2. \A k : Stack!Prefix(k) = Prefix(k)
  BY DEF Stack!Prefix, Prefix, Stack!Steps, Steps
<1>3. CASE r.pending = "add"
  <2>1. r.owned \in 0..(N - 1) /\ After(r) = r.owned + 1
    BY <1>1, <1>3, NAssumption DEF Decodable, After
  <2> QED BY <1>2, <2>1 DEF Stack!Push
<1>4. CASE r.pending = "remove"
  <2>1. r.owned \in 1..N /\ After(r) = r.owned - 1
    BY <1>1, <1>4, NAssumption DEF Decodable, After
  <2> QED BY <1>2, <2>1 DEF Stack!Pop
<1> QED BY <1>1, <1>3, <1>4

\* The journal implements OwnedStack: whoever dies and whatever fails, the
\* planned resources are pushed and popped one at a time, until somebody
\* else writes the footprint.
THEOREM ImplementsStack == Spec => StackSpec
<1>1. Init => Stack!Init
  BY DEF Init, Stack!Init, Stack!Prefix, Prefix, Stack!Steps, Steps
<1>2. IInv /\ IInv' /\ [Next]_vars => [Stack!Next]_<<res, disturbed>>
  <2> SUFFICES ASSUME IInv, IInv', [Next]_vars
               PROVE  [Stack!Next]_<<res, disturbed>>
    OBVIOUS
  <2>1. res' \in Stack!Counts
    BY DEF IInv, TypeOK, Counts, Stack!Counts, Steps, Stack!Steps
  <2>2. disturbed' = TRUE => Stack!Disturb
    BY <2>1 DEF Stack!Disturb
  <2>3. disturbed \in BOOLEAN /\ disturbed' \in BOOLEAN
    BY DEF IInv, TypeOK
  <2>4. CASE disturbed' = TRUE
    BY <2>2, <2>4 DEF Stack!Next
  <2>5. CASE disturbed' = FALSE
    <3>1. CASE Apply
      <4>1. UNCHANGED disturbed /\ ~disturbed
        BY <2>5, <3>1 DEF Apply
      <4>2. /\ mem \in Record /\ Decodable(mem) /\ mem.pending # "none"
            /\ cmd.op = mem.pending /\ cmd.step = Index(mem)
            /\ res = Prefix(mem.owned)
        BY <3>1, <4>1 DEF Apply, IInv, TypeOK, Shape, Truth, InFlight
      <4>3. res' = Prefix(After(mem))
        BY <3>1, <4>2, PendingEffect DEF Apply
      <4> QED BY <4>1, <4>2, <4>3, StackMove DEF Stack!Next
    <3>2. CASE OrphanApply
      <4>1. scoped /\ ~disturbed /\ UNCHANGED disturbed
        BY <2>3, <2>5, <3>2 DEF OrphanApply, IInv, TypeOK
      <4>2. orphan \in Command
        BY <3>2 DEF OrphanApply, IInv, TypeOK
      <4>3. /\ disk \in Record /\ Decodable(disk)
            /\ orphan.op = disk.pending /\ orphan.step = Index(disk)
            /\ res = Prefix(disk.owned)
        BY <3>2, <4>1 DEF OrphanApply, IInv, TypeOK, Shape, Truth, InFlight
      <4>4. disk.pending # "none"
        BY <4>2, <4>3 DEF Command
      <4>5. res' = Prefix(After(disk))
        BY <3>2, <4>3, <4>4, PendingEffect DEF OrphanApply
      <4> QED BY <4>1, <4>3, <4>4, <4>5, StackMove DEF Stack!Next
    <3>3. CASE ForeignReserved
      BY <2>5, <3>3 DEF ForeignReserved
    <3>4. CASE UNCHANGED <<res, disturbed>>
      BY <3>4
    <3> QED BY <3>1, <3>2, <3>3, <3>4, FootprintSteps
  <2> QED BY <2>3, <2>4, <2>5
<1> QED BY <1>1, <1>2, Inductive, PTL DEF Spec, StackSpec, Stack!Spec, Stack!vars


=============================================================================
