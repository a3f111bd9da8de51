------------------------- MODULE Transaction_proofs -------------------------
(***************************************************************************)
(* Proofs, for every number of planned steps and of failing commands, of   *)
(* the safety properties of Transaction.  NoSilentPartial needs to know    *)
(* that a teardown in progress is marked as such; the other two are        *)
(* inductive with the types.                                               *)
(***************************************************************************)
EXTENDS Transaction, TLAPS

\* The inductive invariant.
TInv == /\ TypeOK
        /\ NoSilentPartial
        /\ pc = "teardown" => stopping
        /\ OwnsWhatIsThere

\* The effect of a planned command keeps the counts in range.
LEMMA EffectCounts ==
  ASSUME res \in Counts, NEW i \in Steps
  PROVE  Add(i) \in Counts /\ Remove(i) \in Counts
<1>1. res[i] \in 0..2
  BY DEF Counts
<1>2. (IF res[i] < 2 THEN res[i] + 1 ELSE res[i]) \in 0..2
  BY <1>1
<1>3. (IF res[i] > 0 THEN res[i] - 1 ELSE res[i]) \in 0..2
  BY <1>1
<1> QED BY <1>2, <1>3 DEF Add, Remove, Counts

\* Step k + 1 leads from the profile of k steps to that of k + 1, and back.
LEMMA Neighbours ==
  ASSUME NEW k \in 0..(N - 1)
  PROVE  /\ k + 1 \in Steps
         /\ Prefix(k)[k + 1] = 0 /\ Prefix(k + 1)[k + 1] = 1
         /\ [Prefix(k) EXCEPT ![k + 1] = @ + 1] = Prefix(k + 1)
         /\ [Prefix(k + 1) EXCEPT ![k + 1] = @ - 1] = Prefix(k)
<1>1. k \in Nat /\ k + 1 \in Steps
  BY NAssumption DEF Steps
<1>2. \A i \in Steps : i \in Int /\ (i <= k + 1 <=> i <= k \/ i = k + 1)
  BY <1>1 DEF Steps
<1>3. Prefix(k)[k + 1] = 0 /\ Prefix(k + 1)[k + 1] = 1
  BY <1>1, <1>2 DEF Prefix
<1>4. ASSUME NEW i \in Steps, i # k + 1 PROVE Prefix(k)[i] = Prefix(k + 1)[i]
  BY <1>1, <1>2, <1>4 DEF Prefix
<1>5. [Prefix(k) EXCEPT ![k + 1] = @ + 1] = Prefix(k + 1)
  BY <1>3, <1>4 DEF Prefix
<1>6. [Prefix(k + 1) EXCEPT ![k + 1] = @ - 1] = Prefix(k)
  BY <1>3, <1>4 DEF Prefix
<1> QED BY <1>1, <1>3, <1>5, <1>6

\* On an exact profile the next Add is a push and the last Remove a pop.
LEMMA ExactEffect ==
  ASSUME done \in 0..N, res = Prefix(done)
  PROVE  /\ done < N => Add(done + 1) = Prefix(done + 1)
         /\ done > 0 => Remove(done) = Prefix(done - 1)
<1>1. ASSUME done < N PROVE Add(done + 1) = Prefix(done + 1)
  <2>1. done \in 0..(N - 1)
    BY <1>1, NAssumption
  <2>2. res[done + 1] = 0 /\ [res EXCEPT ![done + 1] = @ + 1] = Prefix(done + 1)
    BY <2>1, Neighbours
  <2>3. Add(done + 1) = [res EXCEPT ![done + 1] = @ + 1]
    BY <2>2 DEF Add
  <2> QED BY <2>2, <2>3
<1>2. ASSUME done > 0 PROVE Remove(done) = Prefix(done - 1)
  <2>1. done - 1 \in 0..(N - 1) /\ (done - 1) + 1 = done
    BY <1>2, NAssumption
  <2>2. res[done] = 1 /\ [res EXCEPT ![done] = @ - 1] = Prefix(done - 1)
    BY <2>1, Neighbours
  <2>3. Remove(done) = [res EXCEPT ![done] = @ - 1]
    BY <2>2 DEF Remove
  <2> QED BY <2>2, <2>3
<1> QED BY <1>1, <1>2

\* The initial states satisfy the invariant.
LEMMA TInvInit == Init => TInv
<1> SUFFICES ASSUME Init PROVE TInv
  OBVIOUS
<1>1. res \in Counts
  BY DEF Init, Counts
<1>2. TypeOK
  <2>1. ambiguous \in BOOLEAN
    BY Zenon DEF Init
  <2>2. done \in 0..N /\ failures \in 0..MaxFailures
    BY NAssumption, FailureAssumption DEF Init
  <2> QED BY <1>1, <2>1, <2>2 DEF Init, TypeOK
<1>3. OwnsWhatIsThere
  BY DEF Init, OwnsWhatIsThere
<1> QED BY <1>2, <1>3 DEF Init, TInv, NoSilentPartial

\* Every step of setup and teardown keeps the invariant.
LEMMA TInvStep == TInv /\ [Next]_vars => TInv'
<1> SUFFICES ASSUME TInv, [Next]_vars PROVE TInv'
  OBVIOUS
<1> USE NAssumption, FailureAssumption DEF TInv, TypeOK, NoSilentPartial, OwnsWhatIsThere
<1>1. CASE CallSetup
  BY <1>1 DEF CallSetup, Return
<1>2. CASE SetupStep
  <2>1. done \in 0..N /\ done < N /\ done + 1 \in Steps /\ done + 1 \in 0..N
    BY <1>2 DEF SetupStep, Steps
  <2>2. res' \in Counts
    BY <1>2, <2>1, EffectCounts DEF SetupStep
  <2>3. OwnsWhatIsThere'
    BY <1>2, <2>1, ExactEffect DEF SetupStep
  <2> QED BY <1>2, <2>1, <2>2, <2>3 DEF SetupStep
<1>3. CASE SetupDone
  BY <1>3 DEF SetupDone, Return
<1>4. CASE SetupFails
  <2>1. done + 1 \in Steps
    BY <1>4 DEF SetupFails, Steps
  <2>2. Add(done + 1) \in Counts
    BY <2>1, EffectCounts
  <2>3. res' \in Counts /\ ambiguous' \in BOOLEAN
    BY <1>4, <2>2, Zenon DEF SetupFails, FailedEffect
  <2>4. OwnsWhatIsThere'
    BY <1>4 DEF SetupFails, FailedEffect
  <2>5. failures' \in 0..MaxFailures
    BY <1>4 DEF SetupFails, Fail
  <2> QED BY <1>4, <2>3, <2>4, <2>5 DEF SetupFails
<1>5. CASE CallTeardown
  BY <1>5 DEF CallTeardown
<1>6. CASE TeardownStep
  <2>1. done \in 0..N /\ done > 0 /\ done \in Steps /\ done - 1 \in 0..N
    BY <1>6 DEF TeardownStep, Steps
  <2>2. res' \in Counts
    BY <1>6, <2>1, EffectCounts DEF TeardownStep
  <2>3. OwnsWhatIsThere'
    BY <1>6, <2>1, ExactEffect DEF TeardownStep
  <2> QED BY <1>6, <2>1, <2>2, <2>3 DEF TeardownStep
<1>7. CASE TeardownFails
  <2>1. done \in Steps
    BY <1>7 DEF TeardownFails, Steps
  <2>2. Remove(done) \in Counts
    BY <2>1, EffectCounts
  <2>3. res' \in Counts /\ ambiguous' \in BOOLEAN
    BY <1>7, <2>2, Zenon DEF TeardownFails, FailedEffect
  <2>4. OwnsWhatIsThere'
    BY <1>7 DEF TeardownFails, FailedEffect
  <2>5. failures' \in 0..MaxFailures
    BY <1>7 DEF TeardownFails, Fail
  <2> QED BY <1>7, <2>3, <2>4, <2>5 DEF TeardownFails, Return
<1>8. CASE TeardownDone
  BY <1>8 DEF TeardownDone, Return
<1>9. CASE UNCHANGED vars
  BY <1>9 DEF vars
<1> QED BY <1>1, <1>2, <1>3, <1>4, <1>5, <1>6, <1>7, <1>8, <1>9 DEF Next

\* TInv is inductive, however many commands fail and in whatever way.
THEOREM TransactionInvariant == Spec => []TInv
BY TInvInit, TInvStep, PTL DEF Spec

\* Type correctness of the transaction.
THEOREM TransactionTypes == Spec => []TypeOK
<1>1. TInv => TypeOK
  BY DEF TInv
<1> QED BY <1>1, TransactionInvariant, PTL

\* A partial setup is never mistaken for a finished one (transaction.go,
\* setup and teardown).
THEOREM PartialIsMarked == Spec => []NoSilentPartial
<1>1. TInv => NoSilentPartial
  BY DEF TInv
<1> QED BY <1>1, TransactionInvariant, PTL

\* "done" counts exactly the resources that are there, as long as no failed
\* command took effect (transaction.go, done).
THEOREM DoneIsExact == Spec => []OwnsWhatIsThere
<1>1. TInv => OwnsWhatIsThere
  BY DEF TInv
<1> QED BY <1>1, TransactionInvariant, PTL

\* Every step of the transaction is a push, a pop, a disturbance or a stutter
\* of OwnedStack.
LEMMA StackStep == TInv /\ TInv' /\ [Next]_vars => [Stack!Next]_(Stack!vars)
<1> SUFFICES ASSUME TInv, TInv', [Next]_vars PROVE [Stack!Next]_(Stack!vars)
  OBVIOUS
<1>0. res' \in Stack!Counts /\ done \in 0..N /\ ambiguous \in BOOLEAN
  BY DEF TInv, TypeOK, Counts, Stack!Counts, Steps, Stack!Steps
<1>1. ASSUME ambiguous' = TRUE PROVE Stack!Disturb
  BY <1>0, <1>1 DEF Stack!Disturb
<1>7. \A k : Stack!Prefix(k) = Prefix(k)
  BY DEF Stack!Prefix, Prefix, Stack!Steps, Steps
<1>2. CASE SetupStep
  <2>1. CASE ambiguous
    BY <1>1, <1>2, <2>1 DEF SetupStep, Stack!Next
  <2>2. CASE ~ambiguous
    <3>1. res = Prefix(done) /\ done \in 0..(N - 1)
      BY <1>0, <1>2, <2>2, NAssumption DEF TInv, OwnsWhatIsThere, SetupStep
    <3>2. res' = Prefix(done + 1)
      BY <1>0, <1>2, <3>1, ExactEffect DEF SetupStep
    <3> QED BY <1>2, <1>7, <3>1, <3>2 DEF SetupStep, Stack!Push, Stack!Next
  <2> QED BY <2>1, <2>2
<1>3. CASE TeardownStep
  <2>1. CASE ambiguous
    BY <1>1, <1>3, <2>1 DEF TeardownStep, Stack!Next
  <2>2. CASE ~ambiguous
    <3>1. res = Prefix(done) /\ done \in 1..N
      BY <1>0, <1>3, <2>2, NAssumption DEF TInv, OwnsWhatIsThere, TeardownStep
    <3>2. res' = Prefix(done - 1)
      BY <1>0, <1>3, <3>1, ExactEffect DEF TeardownStep
    <3> QED BY <1>3, <1>7, <3>1, <3>2 DEF TeardownStep, Stack!Pop, Stack!Next
  <2> QED BY <2>1, <2>2
<1>4. CASE SetupFails
  BY <1>1, <1>4 DEF SetupFails, FailedEffect, Stack!Next, Stack!vars
<1>5. CASE TeardownFails
  BY <1>1, <1>5 DEF TeardownFails, FailedEffect, Stack!Next, Stack!vars
<1>6. CASE CallSetup \/ SetupDone \/ CallTeardown \/ TeardownDone \/ UNCHANGED vars
  BY <1>6 DEF CallSetup, SetupDone, CallTeardown, TeardownDone, vars, Stack!vars
<1> QED BY <1>2, <1>3, <1>4, <1>5, <1>6 DEF Next

\* The transaction implements OwnedStack: resources are added bottom up and
\* removed top down, so the entrance never outlives a dependency.
THEOREM TransactionIsStack == Spec => StackSpec
<1>1. Init => Stack!Init
  BY DEF Init, Stack!Init, Stack!Prefix, Prefix, Stack!Steps, Steps
<1> QED BY <1>1, StackStep, TransactionInvariant, PTL DEF Spec, StackSpec, Stack!Spec
=============================================================================
