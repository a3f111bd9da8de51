----------------------------- MODULE CertTrust -----------------------------
(***************************************************************************)
(* The certificate manager: the content-addressed store of public CAs      *)
(* (cmd/tun2proxy-web/certificate/store.go), the operations of its API     *)
(* (cert_api.go) and the bind mounts that show the managed CAs in Android's*)
(* trust stores (cert_mount.go).                                           *)
(*                                                                         *)
(* Every operation holds the flock of certLocked from its load to its last *)
(* save, in the web server as in --cert-apply (at boot) and --cert-remove  *)
(* (uninstall), so one operation runs at a time; each of its commands and  *)
(* writes may fail, it may be killed between any two of them, somebody else*)
(* may mount over a trust store at any moment, and zygote may be restarted.*)
(*                                                                         *)
(* A mount point is a trust store in one mount namespace, the first one in *)
(* that of init.  A mounted generation shows the stock CAs, which are left *)
(* out, and the CAs that were managed when it was prepared.                *)
(***************************************************************************)
EXTENDS Integers, Sequences, FiniteSets

CONSTANTS
  CA,          \* certificates
  Slots,       \* Yakit endpoints (times kinds) with a current certificate
  None,        \* no certificate
  NPoints,     \* number of mount points
  MaxLayers,   \* mounts per point from which planTrust refuses (32)
  MaxFaults,   \* bound on failing commands and writes, kills and reboots
  MaxForeign,  \* bound on mounts by somebody else and restarts of zygote
  MaxTroubles  \* bound on both together

ASSUME NoneAssumption  == None \notin CA
ASSUME BoundAssumption == /\ NPoints \in Nat \ {0} /\ MaxLayers \in Nat \ {0}
                          /\ MaxFaults \in Nat /\ MaxForeign \in Nat /\ MaxTroubles \in Nat

VARIABLES
  disk,      \* inventory.json
  objects,   \* objects/<id>.pem
  stack,     \* kernel: the layers mounted on each point, the top one last
  ns,        \* kernel: the mount namespace of each point, by number
  mounts,    \* mounts.json: the generation it names
  names,     \* mounts.json: the namespace it names for each point, 0 for none
  pc,        \* where the operation that holds the lock is
  op,        \* what kind of operation it is
  new,       \* v, the inventory it works on
  plan,      \* applyTrust: the prepared generation
  old,       \* applyTrust: mounts.json before
  oldNames,  \* applyTrust: its namespaces
  seen,      \* detectTrust: the namespaces found, 0 for one that was not
  idx,       \* the mount point it is at
  bad,       \* rollback: an umount failed
  arg,       \* the certificate being deleted
  module,    \* "installed"; "leaving" from uninstall.sh's --cert-remove to its
             \* rm, "wiping" while that runs, "gone" after it
  whole,     \* no rm has removed a part of the store only
  excused,   \* the stores may differ from the inventory (see TrustAgrees);
             \* "late" when somebody else interfered with the operation
  faults, foreign   \* bound counters

kernel == <<stack, ns>>
file   == <<mounts, names>>
opVars == <<op, new, plan, old, oldNames, seen, idx, bad, arg>>
vars == <<disk, objects, kernel, file, pc, opVars, module, whole, excused, faults, foreign>>

---------------------------------------------------------------------------
(* Inventories, generations and mounts *)

Points      == 1..NPoints
Inventories == [entries : SUBSET CA, managed : SUBSET CA, link : [Slots -> CA \cup {None}]]
Empty       == [entries |-> {}, managed |-> {}, link |-> [s \in Slots |-> None]]

\* A directory made by MkdirTemp has a name of its own.
MaxGen   == NPoints * (MaxLayers + 2 * MaxForeign) + 3
Layers   == [gen : 1..MaxGen, cas : SUBSET CA]
NoLayer  == [gen |-> 0, cas |-> {}]
Foreign  == [gen |-> -1, cas |-> {}]
InUse    == {mounts.gen, old.gen, plan.gen}
              \cup UNION {{stack[p][i].gen : i \in 1..Len(stack[p])} : p \in Points}
FreshGen == CHOOSE g \in 1..MaxGen : g \notin InUse /\ \A h \in 1..(g - 1) : h \in InUse

\* No namespace is named.
NoNames == [p \in Points |-> 0]

\* mountRoot and ownedRoot
Top(p)   == IF stack[p] = <<>> THEN NoLayer ELSE stack[p][Len(stack[p])]
Owned(p) == Top(p).gen > 0

\* Mounts and umounts may propagate between namespaces whose stacks agree.
Peers(p)   == {q \in Points : stack[q] = stack[p]}
Group(p)   == {{p}, Peers(p)}
Push(p, l) == \E g \in Group(p) :
                stack' = [q \in Points |-> IF q \in g THEN Append(stack[q], l) ELSE stack[q]]
Pop(p)     == \E g \in Group(p) :
                stack' = [q \in Points |-> IF q \in g
                                           THEN SubSeq(stack[q], 1, Len(stack[q]) - 1)
                                           ELSE stack[q]]

\* Something fails.
Fault ==
  /\ faults < MaxFaults /\ faults + foreign < MaxTroubles
  /\ faults' = faults + 1

\* A reason, or an earlier one, why the stores may differ from now on.
Excuse(e) == excused' = IF e \/ excused # "no" THEN "yes" ELSE "no"

\* The operation returns.
End == /\ pc' = "idle" /\ op' = "none" /\ new' = Empty
       /\ plan' = NoLayer /\ old' = NoLayer /\ oldNames' = NoNames /\ seen' = NoNames
       /\ idx' = 0 /\ bad' = FALSE /\ arg' = None

---------------------------------------------------------------------------
(* The operations *)

\* An operation has the lock, has loaded the inventory and goes on with v.
Begin(o, v, l) ==
  /\ pc = "idle" /\ module \in {"installed", "leaving"}
  /\ op' = o /\ new' = v /\ pc' = l
  /\ UNCHANGED <<disk, kernel, file, plan, old, oldNames, seen, idx, bad, excused,
                 faults, foreign, module, whole>>

\* Put: the object is on disk before any inventory names it.
Put(v, c) == [v EXCEPT !.entries = @ \cup {c}]
PutObject(c) == objects' = IF c \in disk.entries THEN objects ELSE objects \cup {c}

Import(c) ==
  /\ PutObject(c)
  /\ Begin("put", Put(disk, c), "save")
  /\ UNCHANGED arg

\* Of a cached CA, or of one of the user's that is copied first.
Install(c) ==
  /\ PutObject(c) /\ c \in objects'
  /\ Begin("change", [Put(disk, c) EXCEPT !.managed = @ \cup {c}], "plan")
  /\ UNCHANGED arg

Remove(c) ==
  /\ c \in disk.entries
  /\ Begin("change", [disk EXCEPT !.managed = @ \ {c}], "plan")
  /\ UNCHANGED <<objects, arg>>

Apply == Begin("change", disk, "plan") /\ UNCHANGED <<objects, arg>>

\* Mutant: the object is removed before the inventory is saved.
DeleteObjectFirst(c) ==
  /\ c \in disk.entries \ disk.managed
  /\ arg' = c
  /\ Begin("delete", [disk EXCEPT !.entries = @ \ {c},
                                  !.link = [s \in Slots |-> IF @[s] = c THEN None ELSE @[s]]],
           "save")
  /\ objects' = objects \ {c}

\* Store.Delete
Delete(c) ==
  /\ c \in disk.entries \ disk.managed
  /\ arg' = c
  /\ Begin("delete", [disk EXCEPT !.entries = @ \ {c},
                                  !.link = [s \in Slots |-> IF @[s] = c THEN None ELSE @[s]]],
           "save")
  /\ UNCHANGED objects

\* Mutant: the replaced certificate is always withdrawn.
SyncUnshared(s, c) ==
  /\ PutObject(c)
  /\ LET v == [Put(disk, c) EXCEPT !.link[s] = c]
         prior == disk.link[s]
     IN IF prior \in disk.managed \ {c}
        THEN Begin("change", [v EXCEPT !.managed = (@ \ {prior}) \cup {c}], "plan")
        ELSE Begin("change", v, "save")
  /\ UNCHANGED arg

\* The certificate the endpoint of slot s offers now becomes its current one.
\* If the one it replaces is managed, the new one is managed instead; the
\* other one stays managed too when it is current for another slot.
Sync(s, c) ==
  /\ PutObject(c)
  /\ LET v      == [Put(disk, c) EXCEPT !.link[s] = c]
         prior  == disk.link[s]
         shared == \E t \in Slots \ {s} : disk.link[t] = prior
     IN IF prior \in disk.managed \ {c}
        THEN Begin("change", [v EXCEPT !.managed = (IF shared THEN @ ELSE @ \ {prior}) \cup {c}],
                   "plan")
        ELSE Begin("change", v, "save")
  /\ UNCHANGED arg

\* A check only records what the endpoint offers.
Check == Begin("change", disk, "save") /\ UNCHANGED <<objects, arg>>

BootApply == Begin("boot", disk, "plan") /\ UNCHANGED <<objects, arg>>

\* detectTrust asks pidof for the zygotes and reads the namespace of each; it
\* ignores an error of either, and the points of that namespace are missed.
Detect ==
  \/ seen' = ns /\ UNCHANGED <<excused, faults>>
  \/ /\ Fault /\ excused' = "late"
     /\ \E missed \in (SUBSET (Points \ {1})) \ {{}} :
          seen' = [p \in Points |-> IF p \in missed THEN 0 ELSE ns[p]]

\* --cert-remove
Uninstall ==
  /\ pc = "idle" /\ module = "installed"
  /\ op' = "uninstall" /\ pc' = "remove" /\ idx' = 1
  /\ Detect
  /\ UNCHANGED <<disk, objects, kernel, file, new, plan, old, oldNames, bad, arg,
                 foreign, module, whole>>

---------------------------------------------------------------------------
(* applyTrust *)

\* It returns an error.  The callers then leave the inventory as it is; the
\* result of restoring the old view is ignored.
ApplyFails(e) == End /\ Excuse(e \/ op = "restore")

\* It returns nil.
ApplyDone ==
  /\ excused' = IF excused = "late" \/ (op = "uninstall" /\ disk.managed # {})
                THEN "yes" ELSE "no"
  /\ IF op = "change"
     THEN pc' = "save" /\ UNCHANGED <<op, new, arg>>
          /\ plan' = NoLayer /\ old' = NoLayer /\ oldNames' = NoNames /\ seen' = NoNames
          /\ idx' = 0 /\ bad' = FALSE
     ELSE End

\* Mutant: the limit on the layers is not checked.
PlanUnlimited(d) ==
  /\ \A p \in Points : d[p] # 0 => Top(p) # Foreign
  /\ new.managed \subseteq objects

\* planTrust refuses a point with too many layers or with a foreign mount on
\* top, and a managed CA without its object.
PlanOK(d) ==
  /\ \A p \in Points : d[p] # 0 => Len(stack[p]) < MaxLayers /\ Top(p) # Foreign
  /\ new.managed \subseteq objects

\* The generation is prepared and the intent saved, or nothing is to be
\* mounted at all.
Plan ==
  /\ pc = "plan"
  /\ \/ /\ new.managed = {} /\ Detect
        /\ pc' = "remove" /\ idx' = 1
        /\ UNCHANGED <<file, op, new, plan, old, oldNames, bad, arg>>
     \/ /\ new.managed # {} /\ Detect /\ PlanOK(seen')
        /\ plan' = [gen |-> FreshGen, cas |-> new.managed]
        /\ old' = mounts /\ mounts' = plan'
        /\ oldNames' = names /\ names' = seen'
        /\ pc' = "mount" /\ idx' = 1
        /\ UNCHANGED <<op, new, bad, arg>>
     \/ /\ new.managed # {} /\ ~PlanOK(ns)
        /\ ApplyFails(FALSE) /\ UNCHANGED <<file, faults>>
     \/ Fault /\ ApplyFails(FALSE) /\ UNCHANGED file
  /\ UNCHANGED <<disk, objects, kernel, foreign, module, whole>>

\* The process whose namespace detectTrust found at p still has it.
Current(p) == seen[p] = ns[p]

\* One mount and its verification; a point that was missed, or where the
\* generation shows already (through propagation), is left alone, and nothing
\* can be mounted in a namespace that is gone.
Mount ==
  /\ pc = "mount" /\ idx <= NPoints
  /\ \/ /\ seen[idx] = 0 \/ (Current(idx) /\ Top(idx) = plan)
        /\ idx' = idx + 1 /\ UNCHANGED <<stack, pc, faults>>
     \/ /\ Current(idx) /\ Top(idx) # plan /\ Push(idx, plan)
        /\ idx' = idx + 1 /\ UNCHANGED <<pc, faults>>
     \/ /\ Current(idx) /\ Top(idx) # plan /\ Fault
        /\ Push(idx, plan) \/ UNCHANGED stack
        /\ pc' = "rollback" /\ idx' = NPoints
     \/ /\ seen[idx] # 0 /\ ~Current(idx)
        /\ pc' = "rollback" /\ idx' = NPoints /\ UNCHANGED <<stack, faults>>
  /\ UNCHANGED <<disk, objects, ns, file, op, new, plan, old, oldNames, seen, bad, arg, excused,
                 foreign, module, whole>>

\* verifyMount of every point, and Android's own view.
Verify ==
  /\ pc = "mount" /\ idx > NPoints
  /\ LET verified == \A p \in Points : seen[p] # 0 => Current(p) /\ Top(p) = plan IN
     \/ verified /\ ApplyDone /\ UNCHANGED faults
     \/ /\ \/ ~verified /\ UNCHANGED faults
           \/ Fault
        /\ pc' = "rollback" /\ idx' = NPoints
        /\ UNCHANGED <<op, new, plan, old, oldNames, seen, bad, arg, excused>>
  /\ UNCHANGED <<disk, objects, kernel, file, foreign, module, whole>>

\* rollback: points whose top is the new generation are unmounted, last first.
RollbackLook ==
  /\ pc = "rollback" /\ idx > 0
  /\ IF Current(idx) /\ Top(idx) = plan THEN pc' = "unroll" /\ UNCHANGED idx
     ELSE idx' = idx - 1 /\ UNCHANGED pc
  /\ UNCHANGED <<disk, objects, kernel, file, op, new, plan, old, oldNames, seen, bad, arg, excused,
                 faults, foreign, module, whole>>

RollbackUmount ==
  /\ pc = "unroll"
  /\ \/ Current(idx) /\ Pop(idx) /\ UNCHANGED <<bad, faults>>
     \/ Current(idx) /\ Fault /\ bad' = TRUE /\ (Pop(idx) \/ UNCHANGED stack)
     \/ ~Current(idx) /\ bad' = TRUE /\ UNCHANGED <<stack, faults>>
  /\ pc' = "rollback" /\ idx' = idx - 1
  /\ UNCHANGED <<disk, objects, ns, file, op, new, plan, old, oldNames, seen, arg, excused, foreign,
                 module, whole>>

\* The old mounts.json comes back unless an umount failed.
RollbackDone ==
  /\ pc = "rollback" /\ idx = 0
  /\ \/ ~bad /\ mounts' = old /\ names' = oldNames /\ ApplyFails(FALSE) /\ UNCHANGED faults
     \/ bad /\ ApplyFails(TRUE) /\ UNCHANGED <<file, faults>>
     \/ ~bad /\ Fault /\ ApplyFails(TRUE) /\ UNCHANGED file
  /\ UNCHANGED <<disk, objects, kernel, foreign, module, whole>>

---------------------------------------------------------------------------
(* removeTrust *)

\* It unmounts from each point it has found in turn while the top is one of
\* its own.
RemoveLook ==
  /\ pc = "remove" /\ idx <= NPoints
  /\ IF Current(idx) /\ Owned(idx) THEN pc' = "umount" /\ UNCHANGED idx
     ELSE idx' = idx + 1 /\ UNCHANGED pc
  /\ UNCHANGED <<disk, objects, kernel, file, op, new, plan, old, oldNames, seen, bad, arg, excused,
                 faults, foreign, module, whole>>

\* The first failing umount ends it, and nothing is mounted again.
RemoveUmount ==
  /\ pc = "umount"
  /\ \/ Current(idx) /\ Pop(idx) /\ pc' = "remove" /\ UNCHANGED <<opVars, excused, faults>>
     \/ Current(idx) /\ Fault /\ (Pop(idx) \/ UNCHANGED stack) /\ ApplyFails(TRUE)
     \/ ~Current(idx) /\ ApplyFails(TRUE) /\ UNCHANGED <<stack, faults>>
  /\ UNCHANGED <<disk, objects, ns, file, foreign, module, whole>>

\* The empty mounts.json is saved.
RemoveDone ==
  /\ pc = "remove" /\ idx > NPoints
  /\ \/ /\ mounts' = NoLayer /\ names' = NoNames
        /\ ApplyDone
        /\ module' = IF op = "uninstall" THEN "leaving" ELSE module
        /\ UNCHANGED faults
     \/ Fault /\ ApplyFails(TRUE) /\ UNCHANGED <<file, module>>
  /\ UNCHANGED <<disk, objects, kernel, foreign, whole>>

---------------------------------------------------------------------------
(* The end of uninstall.sh *)

\* It kills the server, with whatever request that has accepted since
\* --cert-remove, and begins to remove the store.
Wipe ==
  /\ module = "leaving" /\ module' = "wiping"
  /\ End
  /\ whole' = FALSE /\ excused' = "yes"
  /\ UNCHANGED <<disk, objects, kernel, file, faults, foreign>>

\* rm -rf removes one file after the other, in the order of the directory.
WipeFile ==
  /\ module = "wiping"
  /\ \/ disk # Empty /\ disk' = Empty /\ UNCHANGED <<objects, file>>
     \/ \E c \in objects : objects' = objects \ {c} /\ UNCHANGED <<disk, file>>
     \/ mounts # NoLayer /\ mounts' = NoLayer /\ names' = NoNames /\ UNCHANGED <<disk, objects>>
  /\ UNCHANGED <<kernel, pc, opVars, module, whole, excused, faults, foreign>>

WipeDone ==
  /\ module = "wiping" /\ module' = "gone"
  /\ disk = Empty /\ objects = {} /\ mounts = NoLayer
  /\ whole' = TRUE
  /\ excused' = IF \E p \in Points : Owned(p) THEN "yes" ELSE "no"
  /\ UNCHANGED <<disk, objects, kernel, file, pc, opVars, faults, foreign>>

---------------------------------------------------------------------------
(* Saving the inventory *)

\* Store.Save; Delete then removes the object.
Save ==
  /\ pc = "save"
  /\ disk' = new
  /\ IF op = "delete" THEN pc' = "unlink" /\ UNCHANGED opVars ELSE End
  /\ Excuse(FALSE)
  /\ UNCHANGED <<objects, kernel, file, faults, foreign, module, whole>>

\* Mutant: the mounts are not restored.
SaveFailsOnly ==
  /\ pc = "save" /\ Fault
  /\ End /\ Excuse(FALSE)
  /\ UNCHANGED <<disk, objects, kernel, file, foreign, module, whole>>

\* The old inventory is applied again after a failed change.
SaveFails ==
  /\ pc = "save" /\ Fault
  /\ IF op = "change"
     THEN op' = "restore" /\ new' = disk /\ pc' = "plan"
          /\ UNCHANGED <<plan, old, oldNames, seen, idx, bad, arg>>
     ELSE End
  /\ Excuse(FALSE)
  /\ UNCHANGED <<disk, objects, kernel, file, foreign, module, whole>>

Unlink ==
  /\ pc = "unlink"
  /\ \/ objects' = objects \ {arg} /\ UNCHANGED faults
     \/ UNCHANGED objects /\ Fault
  /\ End /\ Excuse(FALSE)
  /\ UNCHANGED <<disk, kernel, file, foreign, module, whole>>

---------------------------------------------------------------------------
(* Deaths and others *)

Crash ==
  /\ pc # "idle" /\ Fault
  /\ End
  /\ Excuse(op \notin {"put", "delete"})
  /\ UNCHANGED <<disk, objects, kernel, file, foreign, module, whole>>

\* Mounts do not survive a reboot, and mountState ignores an older boot's file.
\* A module that is installed again starts with one, and with what an
\* interrupted rm has left of its store.
Reboot ==
  /\ IF module = "gone" THEN UNCHANGED faults ELSE Fault
  /\ End
  /\ stack' = [p \in Points |-> <<>>] /\ ns' = [p \in Points |-> 1]
  /\ mounts' = NoLayer /\ names' = NoNames
  /\ excused' = IF module = "gone" THEN "no" ELSE "yes"
  /\ module' = "installed"
  /\ UNCHANGED <<disk, objects, whole, foreign>>

\* Somebody else interferes with the mounts, and the operation is not aware.
Interference == excused' = IF pc = "idle" THEN "yes" ELSE "late"
Meddle ==
  /\ foreign < MaxForeign /\ faults + foreign < MaxTroubles
  /\ foreign' = foreign + 1
  /\ Interference

\* Somebody else mounts over a trust store, or takes the mount away.
ForeignMount(p) ==
  /\ Meddle
  /\ stack' = [stack EXCEPT ![p] = Append(@, Foreign)]
  /\ UNCHANGED <<disk, objects, ns, file, pc, opVars, faults, module, whole>>

ForeignUmount(p) ==
  /\ Top(p) = Foreign
  /\ stack' = [stack EXCEPT ![p] = SubSeq(@, 1, Len(@) - 1)]
  /\ Interference
  /\ UNCHANGED <<disk, objects, ns, file, pc, opVars, faults, foreign, module, whole>>

\* zygote is restarted: the points P of its namespace are replaced by those of
\* a new one, which begins as a copy of the namespaces that stay.
ZygoteRestart(P) ==
  /\ Meddle
  /\ ns' = [p \in Points |-> IF p \in P THEN ns[p] + 1 ELSE ns[p]]
  /\ \E from \in [P -> Points \ P] :
       stack' = [p \in Points |-> IF p \in P THEN stack[from[p]] ELSE stack[p]]
  /\ UNCHANGED <<disk, objects, file, pc, opVars, faults, module, whole>>

---------------------------------------------------------------------------

Init ==
  /\ disk = Empty /\ objects = {}
  /\ stack = [p \in Points |-> <<>>] /\ ns = [p \in Points |-> 1]
  /\ mounts = NoLayer /\ names = NoNames
  /\ pc = "idle" /\ op = "none" /\ new = Empty
  /\ plan = NoLayer /\ old = NoLayer /\ oldNames = NoNames /\ seen = NoNames
  /\ idx = 0 /\ bad = FALSE /\ arg = None
  /\ module = "installed" /\ whole = TRUE /\ excused = "no"
  /\ faults = 0 /\ foreign = 0

Requests == \/ \E c \in CA : Import(c) \/ Install(c) \/ Remove(c) \/ Delete(c)
            \/ \E s \in Slots, c \in CA : Sync(s, c)
            \/ Apply \/ Check \/ BootApply \/ Uninstall

Steps == \/ Plan \/ Mount \/ Verify
         \/ RollbackLook \/ RollbackUmount \/ RollbackDone
         \/ RemoveLook \/ RemoveUmount \/ RemoveDone
         \/ Wipe \/ WipeFile \/ WipeDone
         \/ Save \/ SaveFails \/ Unlink

Next == \/ Requests \/ Steps
        \/ Crash \/ Reboot
        \/ \E p \in Points : ForeignMount(p) \/ ForeignUmount(p)
        \/ \E P \in (SUBSET (Points \ {1})) \ {{}} : ZygoteRestart(P)

Spec == Init /\ [][Next]_vars

---------------------------------------------------------------------------
(* Properties *)

\* The values of the store, the mounts and the operation.
TypeOK ==
  /\ disk \in Inventories /\ new \in Inventories /\ objects \subseteq CA
  /\ DOMAIN stack = Points
  /\ \A p \in Points : /\ Len(stack[p]) <= MaxLayers + 2 * MaxForeign
                       /\ \A i \in 1..Len(stack[p]) : stack[p][i] \in Layers \cup {Foreign}
  /\ {mounts, plan, old} \subseteq Layers \cup {NoLayer}
  /\ ns \in [Points -> 1..(MaxForeign + 1)]
  /\ {names, oldNames, seen} \subseteq [Points -> 0..(MaxForeign + 1)]
  /\ pc \in {"idle", "plan", "mount", "rollback", "unroll", "remove", "umount",
             "save", "unlink"}
  /\ op \in {"none", "put", "delete", "change", "restore", "boot", "uninstall"}
  /\ idx \in 0..(NPoints + 1) /\ arg \in CA \cup {None}
  /\ bad \in BOOLEAN /\ whole \in BOOLEAN
  /\ module \in {"installed", "leaving", "wiping", "gone"}
  /\ excused \in {"no", "yes", "late"}
  /\ faults \in 0..MaxFaults /\ foreign \in 0..MaxForeign

\* "interrupted cleanup cannot leave a dangling inventory entry", nor can an
\* interrupted or failed import, install or sync: every entry has its object,
\* every managed CA and every current one of a slot its entry.  The rm of
\* uninstall.sh gives no such promise: what it leaves of a store when it is
\* interrupted is exempt.
NoDangling ==
  whole =>
    /\ disk.entries \subseteq objects
    /\ disk.managed \subseteq disk.entries
    /\ \A s \in Slots : disk.link[s] \in disk.entries \cup {None}

\* What certificateView reports as mounted: nothing, unless verifyMount finds
\* every namespace that mounts.json names, and the generation on its top.
Reported ==
  IF mounts # NoLayer /\ \A p \in Points : names[p] # 0 => names[p] = ns[p] /\ Top(p) = mounts
  THEN mounts.cas ELSE {}

\* Between operations every trust store shows exactly the managed CAs, and the
\* list reports exactly these, after successful and failed operations alike.
\* The excuses are a kill or a reboot, a foreign mount, a restart of zygote, an
\* apply that missed a namespace, a failing umount, a failing mounts.json at
\* the end of a rollback or removal, a failed attempt to restore the old view,
\* and an unfinished or raced uninstall; the next apply that finds every
\* namespace and succeeds undisturbed ends them.
TrustAgrees ==
  pc = "idle" /\ excused = "no" /\ (\A p \in Points : Top(p) # Foreign) =>
    /\ \A p \in Points : Top(p).cas = disk.managed
    /\ Reported = disk.managed

\* "A shared CA may still be the current certificate of another computer":
\* giving one slot a new certificate never withdraws the managed certificate
\* of another slot.
SharedKept ==
  [][\A s, t \in Slots :
       /\ s # t
       /\ disk'.link[s] # disk.link[s] /\ disk'.link[s] # None
       /\ disk.link[t] \in disk.managed
       => disk.link[t] \in disk'.managed]_vars
=============================================================================
