---------------------------- MODULE Transaction ----------------------------
(***************************************************************************)
(* The in-process transaction (internal/tproxy/transaction.go): Setup runs *)
(* the Add commands in order and tears down what it did when one fails,    *)
(* Teardown runs the Remove commands from the top and stops at the first   *)
(* failure.  The mutex makes one call run at a time.  There is no journal: *)
(* "done" is all the transaction knows.                                    *)
(*                                                                         *)
(* A command that reports an error usually did nothing, but one killed at  *)
(* its deadline may already have changed the kernel.  Such a silent change *)
(* raises "ambiguous".                                                     *)
(***************************************************************************)
EXTENDS Plan

CONSTANT MaxFailures        \* bound on commands that report an error

ASSUME FailureAssumption == MaxFailures \in Nat

VARIABLES
  res,        \* kernel: copies of each planned resource
  ambiguous,  \* a command reported an error and yet took effect
  done,       \* t.done
  stopping,   \* t.stopping
  pc,         \* "idle", or in the loop of "setup" or "teardown"
  result,     \* what the last call returned: "none", "ok" or "error"
  failed,     \* the teardown in progress belongs to a setup that failed
  failures    \* bound counter

vars == <<res, ambiguous, done, stopping, pc, result, failed, failures>>

Fail == failures < MaxFailures /\ failures' = failures + 1

Return(r) == pc' = "idle" /\ result' = r /\ failed' = FALSE

\* What a command that fails leaves in the kernel: nothing, or its effect.
FailedEffect(effect) ==
  \/ UNCHANGED <<res, ambiguous>>
  \/ res' = effect /\ ambiguous' = TRUE

Add(i)    == [res EXCEPT ![i] = IF @ < 2 THEN @ + 1 ELSE @]
Remove(i) == [res EXCEPT ![i] = IF @ > 0 THEN @ - 1 ELSE @]

\* setup up to its loop.
CallSetup ==
  /\ pc = "idle"
  /\ \/ done = N /\ ~stopping /\ Return("ok")
     \/ done # 0 /\ (done = N => stopping) /\ Return("error")
     \/ done = 0 /\ pc' = "setup" /\ result' = "none" /\ UNCHANGED failed
  /\ UNCHANGED <<res, ambiguous, done, stopping, failures>>

\* One Add that succeeds; an existing chain, route or rule makes it fail.
SetupStep ==
  /\ pc = "setup" /\ done < N
  /\ res[done + 1] = 0
  /\ res' = Add(done + 1)
  /\ done' = done + 1
  /\ UNCHANGED <<ambiguous, stopping, pc, result, failed, failures>>

SetupDone ==
  /\ pc = "setup" /\ done = N
  /\ Return("ok")
  /\ UNCHANGED <<res, ambiguous, done, stopping, failures>>

\* Mutant: the step that failed is counted as done.
SetupFailsCounted ==
  /\ pc = "setup" /\ done < N
  /\ \/ res[done + 1] > 0 /\ UNCHANGED <<res, ambiguous, failures>>
     \/ Fail /\ FailedEffect(Add(done + 1))
  /\ pc' = "teardown" /\ stopping' = TRUE /\ failed' = TRUE
  /\ done' = done + 1
  /\ UNCHANGED result

\* An Add fails: teardown() starts under the same lock.
SetupFails ==
  /\ pc = "setup" /\ done < N
  /\ \/ res[done + 1] > 0 /\ UNCHANGED <<res, ambiguous, failures>>
     \/ Fail /\ FailedEffect(Add(done + 1))
  /\ pc' = "teardown" /\ stopping' = TRUE /\ failed' = TRUE
  /\ UNCHANGED <<done, result>>

\* Mutant: a teardown that failed once cannot be called again.
CallTeardownOnce ==
  /\ pc = "idle" /\ ~stopping
  /\ pc' = "teardown" /\ stopping' = TRUE /\ result' = "none"
  /\ UNCHANGED <<res, ambiguous, done, failed, failures>>

CallTeardown ==
  /\ pc = "idle"
  /\ pc' = "teardown" /\ stopping' = TRUE /\ result' = "none"
  /\ UNCHANGED <<res, ambiguous, done, failed, failures>>

\* Mutant: the steps are removed in the order they were added.
TeardownStepForward ==
  /\ pc = "teardown" /\ done > 0
  /\ res[1] > 0
  /\ res' = Remove(1)
  /\ done' = done - 1
  /\ UNCHANGED <<ambiguous, stopping, pc, result, failed, failures>>

TeardownStep ==
  /\ pc = "teardown" /\ done > 0
  /\ res[done] > 0
  /\ res' = Remove(done)
  /\ done' = done - 1
  /\ UNCHANGED <<ambiguous, stopping, pc, result, failed, failures>>

\* Mutant: a failed teardown forgets that it was begun.
TeardownFailsForgets ==
  /\ pc = "teardown" /\ done > 0
  /\ \/ res[done] = 0 /\ UNCHANGED <<res, ambiguous, failures>>
     \/ Fail /\ FailedEffect(Remove(done))
  /\ stopping' = FALSE
  /\ Return("error")
  /\ UNCHANGED done

\* A Remove fails: ownership is kept for a retry.
TeardownFails ==
  /\ pc = "teardown" /\ done > 0
  /\ \/ res[done] = 0 /\ UNCHANGED <<res, ambiguous, failures>>
     \/ Fail /\ FailedEffect(Remove(done))
  /\ Return("error")
  /\ UNCHANGED <<done, stopping>>

TeardownDone ==
  /\ pc = "teardown" /\ done = 0
  /\ stopping' = FALSE
  /\ Return(IF failed THEN "error" ELSE "ok")
  /\ UNCHANGED <<res, ambiguous, done, failures>>

Init ==
  /\ res \in [Steps -> 0..1]
  /\ ambiguous = (res # Prefix(0))
  /\ done = 0 /\ stopping = FALSE
  /\ pc = "idle" /\ result = "none" /\ failed = FALSE
  /\ failures = 0

Next == \/ CallSetup \/ SetupStep \/ SetupDone \/ SetupFails
        \/ CallTeardown \/ TeardownStep \/ TeardownFails \/ TeardownDone

Spec == Init /\ [][Next]_vars

\* A call in progress goes on, and the owner retries Teardown while steps
\* remain owned.
FairSpec == /\ Spec
            /\ WF_vars(SetupStep \/ SetupDone \/ SetupFails)
            /\ WF_vars(TeardownStep \/ TeardownFails \/ TeardownDone)
            /\ SF_vars(stopping /\ CallTeardown)

---------------------------------------------------------------------------
(* Properties *)

\* The values of the kernel and of the fields of Transaction.
TypeOK ==
  /\ res \in Counts /\ ambiguous \in BOOLEAN
  /\ done \in 0..N /\ stopping \in BOOLEAN
  /\ pc \in {"idle", "setup", "teardown"}
  /\ result \in {"none", "ok", "error"} /\ failed \in BOOLEAN
  /\ failures \in 0..MaxFailures

\* Between calls the transaction is empty, complete, or marked as being torn
\* down: a partial setup is never mistaken for a finished one.
NoSilentPartial == pc = "idle" => done \in {0, N} \/ stopping

\* The transaction owns exactly what is there, as long as no command lied.
OwnsWhatIsThere == ~ambiguous => res = Prefix(done)

\* The transaction implements the stack of owned resources; a pre-existing
\* resource or a command that took effect although it failed counts as a
\* disturbance.
Stack == INSTANCE OwnedStack WITH disturbed <- ambiguous
StackSpec == Stack!Spec

\* A teardown that was begun is finished by retrying it, unless a command
\* took effect without saying so.
TeardownCompletes == stopping ~> (done = 0 \/ ambiguous)
=============================================================================
