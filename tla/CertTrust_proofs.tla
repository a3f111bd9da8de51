-------------------------- MODULE CertTrust_proofs --------------------------
(***************************************************************************)
(* Proofs about the certificate store, for any number of certificates,     *)
(* slots, mount points, layers, failures and foreign mounts: the inventory *)
(* on disk names no object that is not there unless an rm has removed a    *)
(* part of the store (NoDangling), a synchronisation never withdraws       *)
(* another slot's certificate (SharedKept), the types, and the trust stores*)
(* show exactly the managed CAs (TrustAgrees).                             *)
(*                                                                         *)
(* None is inductive.  The first two speak of the inventory on disk, which *)
(* a step takes from v, the inventory an operation made several steps      *)
(* earlier: IInv says the same of v in advance, and what Delete has already*)
(* dropped from it.  TrustAgrees only speaks of moments between operations:*)
(* TrustInv says at each position of applyTrust, its rollback and          *)
(* removeTrust what is on each mount point and under the new generation,   *)
(* and that an operation nobody interfered with knows every namespace.     *)
(* That a generation has a fresh name is a pigeonhole argument over the    *)
(* mounts (NameLeft).                                                      *)
(***************************************************************************)
EXTENDS CertTrust, FiniteSetTheorems, TLAPS

\* Every name in inventory v leads to something that is stored.
Sound(v) ==
  /\ v.entries \subseteq objects
  /\ v.managed \subseteq v.entries
  /\ \A s \in Slots : v.link[s] \in v.entries \cup {None}

\* Going from the inventory on disk to v withdraws no other slot's certificate.
Keeps(v) ==
  \A s, t \in Slots :
    /\ s # t
    /\ v.link[s] # disk.link[s] /\ v.link[s] # None
    /\ disk.link[t] \in disk.managed
    => disk.link[t] \in v.managed

\* uninstall.sh is at its rm or past it, and no operation runs any more.
Removed == module \in {"wiping", "gone"}

IInv ==
  /\ disk \in Inventories /\ new \in Inventories /\ objects \subseteq CA
  /\ whole \in BOOLEAN
  /\ Keeps(new) /\ (whole => Sound(disk) /\ Sound(new))
  /\ Removed => pc = "idle" /\ new = Empty
  /\ module = "wiping" => ~whole
  /\ pc = "save" /\ op = "delete" => arg \notin new.entries
  /\ pc = "unlink" => arg \notin disk.entries

---------------------------------------------------------------------------

LEMMA EmptyIsSound ==
  Empty \in Inventories /\ Sound(Empty) /\ Keeps(Empty)
BY DEF Empty, Inventories, Sound, Keeps

LEMMA InitInv == Init => IInv
BY EmptyIsSound DEF Init, IInv, Removed

\* The store does not change, and v is kept, dropped or reset to it.
LEMMA StoreKept ==
  ASSUME IInv, UNCHANGED <<disk, objects, whole>>,
         new' = new \/ new' = Empty \/ new' = disk,
         \/ module' = module /\ (pc # "idle" \/ ~Removed)
         \/ module' \in {"installed", "leaving"},
         pc' = "save" => op' = "change",
         pc' # "unlink"
  PROVE  IInv'
<1>1. Keeps(new)' /\ new' \in Inventories /\ (whole => Sound(new)')
  <2>1. CASE new' = new
    BY <2>1 DEF IInv, Sound, Keeps
  <2>2. CASE new' = Empty
    BY <2>2, EmptyIsSound DEF Empty, Sound, Keeps
  <2>3. CASE new' = disk
    BY <2>3 DEF IInv, Sound, Keeps
  <2> QED BY <2>1, <2>2, <2>3
<1>2. (whole => Sound(disk)') /\ disk' \in Inventories /\ (objects \subseteq CA)'
  BY DEF IInv, Sound
<1>3. ~Removed'
  BY DEF IInv, Removed
<1> QED BY <1>1, <1>2, <1>3 DEF IInv, Removed

\* An operation begins with an inventory that is sound with its object.
LEMMA BeginInv ==
  ASSUME IInv, NEW o, NEW v \in Inventories, NEW l, Begin(o, v, l),
         objects \subseteq objects', objects' \subseteq CA,
         whole => /\ v.entries \subseteq objects' /\ v.managed \subseteq v.entries
                  /\ \A s \in Slots : v.link[s] \in v.entries \cup {None},
         Keeps(v), l # "unlink", o = "delete" => arg' \notin v.entries
  PROVE  IInv'
BY DEF IInv, Begin, Sound, Keeps, Removed

LEMMA PutIsSound ==
  ASSUME IInv, NEW c \in CA, PutObject(c)
  PROVE  /\ objects \subseteq objects' /\ objects' \subseteq CA
         /\ whole => c \in objects'
         /\ Put(disk, c) \in Inventories
         /\ Put(disk, c).entries = disk.entries \cup {c}
         /\ Put(disk, c).managed = disk.managed
         /\ Put(disk, c).link = disk.link
BY DEF IInv, Sound, PutObject, Put, Inventories

LEMMA ImportInv == ASSUME IInv, NEW c \in CA, Import(c) PROVE IInv'
<1> DEFINE v == Put(disk, c)
<1>1. PutObject(c) /\ Begin("put", v, "save")  BY DEF Import
<1>2. Keeps(v)  BY <1>1, PutIsSound DEF Keeps
<1>3. whole => /\ v.entries \subseteq objects' /\ v.managed \subseteq v.entries
               /\ \A s \in Slots : v.link[s] \in v.entries \cup {None}
  BY <1>1, PutIsSound DEF IInv, Sound
<1>4. v \in Inventories /\ objects \subseteq objects' /\ objects' \subseteq CA
  BY <1>1, PutIsSound
<1> QED BY <1>1, <1>2, <1>3, <1>4, BeginInv

LEMMA InstallInv == ASSUME IInv, NEW c \in CA, Install(c) PROVE IInv'
<1> DEFINE p == Put(disk, c)
           v == [p EXCEPT !.managed = @ \cup {c}]
<1>1. PutObject(c) /\ Begin("change", v, "plan")  BY DEF Install
<1>2. /\ v \in Inventories
      /\ v.entries = disk.entries \cup {c} /\ v.managed = disk.managed \cup {c}
      /\ v.link = disk.link
  BY <1>1, PutIsSound DEF Inventories
<1>3. Keeps(v)  BY <1>2 DEF Keeps
<1>4. whole => /\ v.entries \subseteq objects' /\ v.managed \subseteq v.entries
               /\ \A s \in Slots : v.link[s] \in v.entries \cup {None}
  BY <1>1, <1>2, PutIsSound DEF IInv, Sound
<1>5. objects \subseteq objects' /\ objects' \subseteq CA
  BY <1>1, PutIsSound
<1> HIDE DEF v
<1> QED BY <1>1, <1>2, <1>3, <1>4, <1>5, BeginInv

LEMMA RemoveInv == ASSUME IInv, NEW c \in CA, Remove(c) PROVE IInv'
<1> DEFINE v == [disk EXCEPT !.managed = @ \ {c}]
<1>1. Begin("change", v, "plan") /\ objects' = objects  BY DEF Remove
<1>2. /\ v \in Inventories
      /\ v.entries = disk.entries /\ v.managed = disk.managed \ {c}
      /\ v.link = disk.link
  BY DEF IInv, Inventories
<1>3. Keeps(v)  BY <1>2 DEF Keeps
<1>4. whole => /\ v.entries \subseteq objects' /\ v.managed \subseteq v.entries
               /\ \A s \in Slots : v.link[s] \in v.entries \cup {None}
  BY <1>1, <1>2 DEF IInv, Sound
<1> HIDE DEF v
<1> QED BY <1>1, <1>2, <1>3, <1>4, BeginInv DEF IInv

LEMMA DeleteInv == ASSUME IInv, NEW c \in CA, Delete(c) PROVE IInv'
<1> DEFINE k == [s \in Slots |-> IF disk.link[s] = c THEN None ELSE disk.link[s]]
           v == [disk EXCEPT !.entries = @ \ {c}, !.link = k]
<1>1. Begin("delete", v, "save") /\ objects' = objects /\ arg' = c
      /\ c \in disk.entries \ disk.managed
  BY DEF Delete
<1>2. /\ v \in Inventories
      /\ v.entries = disk.entries \ {c} /\ v.managed = disk.managed
      /\ v.link = k
  <2>1. disk \in Inventories
    BY DEF IInv
  <2>2. k \in [Slots -> CA \cup {None}]
    BY <2>1 DEF Inventories
  <2> HIDE DEF k
  <2> QED BY <2>1, <2>2 DEF Inventories
<1>3. Keeps(v)  BY <1>2 DEF Keeps
<1>4. whole => /\ v.entries \subseteq objects' /\ v.managed \subseteq v.entries
               /\ \A s \in Slots : v.link[s] \in v.entries \cup {None}
  BY <1>1, <1>2 DEF IInv, Sound
<1> HIDE DEF v
<1> QED BY <1>1, <1>2, <1>3, <1>4, BeginInv DEF IInv

\* The certificate that is replaced stays managed when another slot has it.
LEMMA SyncInv == ASSUME IInv, NEW s \in Slots, NEW c \in CA, Sync(s, c) PROVE IInv'
<1> DEFINE p == Put(disk, c)
           v == [p EXCEPT !.link[s] = c]
           prior  == disk.link[s]
           shared == \E t \in Slots \ {s} : disk.link[t] = prior
           w == [v EXCEPT !.managed = (IF shared THEN @ ELSE @ \ {prior}) \cup {c}]
<1>1. PutObject(c)  BY DEF Sync
<1>2. /\ v \in Inventories
      /\ v.entries = disk.entries \cup {c} /\ v.managed = disk.managed
      /\ v.link = [disk.link EXCEPT ![s] = c]
  BY <1>1, PutIsSound DEF Inventories
<1>3. objects \subseteq objects' /\ objects' \subseteq CA
      /\ (whole => v.entries \subseteq objects')
  BY <1>1, <1>2, PutIsSound DEF IInv, Sound
<1>4. \A t \in Slots : v.link[t] = IF t = s THEN c ELSE disk.link[t]
  BY <1>2 DEF IInv, Inventories
<1>5. whole => \A t \in Slots : v.link[t] \in v.entries \cup {None}
  BY <1>2, <1>4 DEF IInv, Sound
<1>6. CASE Begin("change", v, "save")
  <2>1. Keeps(v)  BY <1>2 DEF Keeps
  <2>2. whole => v.managed \subseteq v.entries  BY <1>2 DEF IInv, Sound
  <2> HIDE DEF v
  <2> QED BY <1>2, <1>3, <1>5, <1>6, <2>1, <2>2, BeginInv
<1>7. CASE Begin("change", w, "plan")
  <2> HIDE DEF v
  <2>1. /\ w \in Inventories
        /\ w.entries = v.entries /\ w.link = v.link
        /\ w.managed = (IF shared THEN disk.managed ELSE disk.managed \ {prior}) \cup {c}
    BY <1>2 DEF Inventories
  <2>2. Keeps(w)
    BY <1>4, <2>1 DEF Keeps
  <2>3. whole => w.managed \subseteq w.entries
    BY <1>2, <2>1 DEF IInv, Sound
  <2> HIDE DEF w
  <2> QED BY <1>3, <1>5, <1>7, <2>1, <2>2, <2>3, BeginInv
<1> QED BY <1>6, <1>7 DEF Sync

LEMMA SaveInv == ASSUME IInv, Save PROVE IInv'
<1>1. /\ disk' = new /\ objects' = objects /\ whole' = whole /\ module' = module /\ pc = "save"
      /\ (op = "delete" => pc' = "unlink" /\ new' = new /\ arg' = arg)
      /\ (op # "delete" => pc' = "idle" /\ new' = Empty)
  BY DEF Save, End, opVars
<1>2. (whole => Sound(disk)') /\ disk' \in Inventories
  BY <1>1 DEF IInv, Sound
<1>3. (whole => Sound(new)') /\ Keeps(new)' /\ new' \in Inventories
  <2>1. CASE new' = new
    BY <1>1, <2>1 DEF IInv, Sound, Keeps
  <2>2. CASE new' = Empty
    BY <2>2, EmptyIsSound DEF Empty, Sound, Keeps
  <2> QED BY <1>1, <2>1, <2>2
<1>4. ~Removed'
  BY <1>1 DEF IInv, Removed
<1> QED BY <1>1, <1>2, <1>3, <1>4 DEF IInv, Removed

LEMMA UnlinkInv == ASSUME IInv, Unlink PROVE IInv'
<1>1. /\ disk' = disk /\ pc' = "idle" /\ new' = Empty /\ whole' = whole
      /\ objects' \in {objects, objects \ {arg}}
      /\ arg \notin disk.entries /\ ~Removed'
  BY DEF IInv, Unlink, End, Removed
<1>2. (whole => Sound(disk)') /\ objects' \subseteq CA /\ disk' \in Inventories
  BY <1>1 DEF IInv, Sound
<1>3. Sound(new)' /\ Keeps(new)' /\ new' \in Inventories
  BY <1>1, EmptyIsSound DEF Empty, Sound, Keeps
<1> QED BY <1>1, <1>2, <1>3 DEF IInv, Removed

\* While rm works the store is sound no more, and no operation runs; when it
\* is done nothing is left.
LEMMA WipeInv == ASSUME IInv, Wipe \/ WipeFile \/ WipeDone PROVE IInv'
<1>1. /\ pc' = "idle" /\ new' = Empty
      /\ disk' \in {disk, Empty} /\ objects' \subseteq objects
      /\ whole' => disk' = Empty
      /\ module' = "wiping" => ~whole'
      /\ whole' \in BOOLEAN
  <2>1. CASE Wipe
    BY <2>1 DEF Wipe, End
  <2>2. CASE WipeFile
    BY <2>2 DEF IInv, WipeFile, opVars, Removed
  <2>3. CASE WipeDone
    BY <2>3 DEF IInv, WipeDone, opVars, Removed
  <2> QED BY <2>1, <2>2, <2>3
<1>2. disk' \in Inventories /\ objects' \subseteq CA /\ new' \in Inventories
  BY <1>1, EmptyIsSound DEF IInv
<1>3. Keeps(new)' /\ Sound(new)' /\ (whole' => Sound(disk)')
  BY <1>1 DEF Empty, Sound, Keeps
<1> QED BY <1>1, <1>2, <1>3 DEF IInv

\* The steps of applyTrust and removeTrust leave the store alone.
LEMMA ApplyInv ==
  ASSUME IInv, \/ Plan \/ Mount \/ Verify \/ RollbackLook \/ RollbackUmount
               \/ RollbackDone \/ RemoveLook \/ RemoveUmount \/ RemoveDone \/ SaveFails
  PROVE  IInv'
<1>1. CASE Plan
  BY <1>1, StoreKept DEF Plan, ApplyFails, End
<1>2. CASE Mount
  BY <1>2, StoreKept DEF Mount
<1>3. CASE Verify
  BY <1>3, StoreKept DEF Verify, ApplyDone, End
<1>4. CASE RollbackLook \/ RollbackUmount
  BY <1>4, StoreKept DEF RollbackLook, RollbackUmount
<1>5. CASE RollbackDone
  BY <1>5, StoreKept DEF RollbackDone, ApplyFails, End
<1>6. CASE RemoveLook
  BY <1>6, StoreKept DEF RemoveLook
<1>7. CASE RemoveUmount
  BY <1>7, StoreKept DEF RemoveUmount, ApplyFails, End, opVars
<1>8. CASE RemoveDone
  BY <1>8, StoreKept DEF RemoveDone, ApplyDone, ApplyFails, End
<1>9. CASE SaveFails
  BY <1>9, StoreKept DEF SaveFails, End
<1> QED BY <1>1, <1>2, <1>3, <1>4, <1>5, <1>6, <1>7, <1>8, <1>9

LEMMA RequestInv == ASSUME IInv, Requests PROVE IInv'
<1>1. ASSUME NEW c \in CA, Import(c) \/ Install(c) \/ Remove(c) \/ Delete(c)
      PROVE  IInv'
  BY <1>1, ImportInv, InstallInv, RemoveInv, DeleteInv
<1>2. ASSUME NEW s \in Slots, NEW c \in CA, Sync(s, c) PROVE IInv'
  BY <1>2, SyncInv
<1>3. CASE Apply \/ Check \/ BootApply
  BY <1>3, StoreKept DEF Apply, Check, BootApply, Begin, Removed
<1>4. CASE Uninstall
  BY <1>4, StoreKept DEF Uninstall, Removed
<1> QED BY <1>1, <1>2, <1>3, <1>4 DEF Requests

LEMMA OthersInv ==
  ASSUME IInv, \/ Crash \/ Reboot
               \/ \E p \in Points : ForeignMount(p) \/ ForeignUmount(p)
               \/ \E P \in (SUBSET (Points \ {1})) \ {{}} : ZygoteRestart(P)
  PROVE  IInv'
<1>1. CASE Crash \/ Reboot
  BY <1>1, StoreKept DEF Crash, Reboot, End
<1>2. CASE \/ \E p \in Points : ForeignMount(p) \/ ForeignUmount(p)
           \/ \E P \in (SUBSET (Points \ {1})) \ {{}} : ZygoteRestart(P)
  <2>1. UNCHANGED <<disk, objects, new, pc, op, arg, whole, module>>
    BY <1>2 DEF ForeignMount, ForeignUmount, ZygoteRestart, opVars
  <2> QED BY <2>1 DEF IInv, Sound, Keeps, Removed
<1> QED BY <1>1, <1>2

LEMMA NextInv == ASSUME IInv, [Next]_vars PROVE IInv'
<1>1. CASE Requests  BY <1>1, RequestInv
<1>2. CASE Steps
  BY <1>2, ApplyInv, SaveInv, UnlinkInv, WipeInv DEF Steps
<1>3. CASE \/ Crash \/ Reboot
           \/ \E p \in Points : ForeignMount(p) \/ ForeignUmount(p)
           \/ \E P \in (SUBSET (Points \ {1})) \ {{}} : ZygoteRestart(P)
  BY <1>3, OthersInv
<1>4. CASE UNCHANGED vars
  BY <1>4 DEF vars, opVars, IInv, Sound, Keeps, Removed
<1> QED BY <1>1, <1>2, <1>3, <1>4 DEF Next

---------------------------------------------------------------------------
(* The mounts: what each position of applyTrust and removeTrust knows *)

TopOf(l) == IF l = <<>> THEN NoLayer ELSE l[Len(l)]
Front(l) == SubSeq(l, 1, Len(l) - 1)

Typed ==
  /\ stack \in [Points -> Seq(Layers \cup {Foreign})]
  /\ mounts \in Layers \cup {NoLayer} /\ plan \in Layers \cup {NoLayer}
  /\ old \in Layers \cup {NoLayer}
  /\ pc \in {"idle", "plan", "mount", "rollback", "unroll", "remove", "umount",
             "save", "unlink"}
  /\ op \in {"none", "put", "delete", "change", "restore", "boot", "uninstall"}
  /\ arg \in CA \cup {None} /\ bad \in BOOLEAN
  /\ module \in {"installed", "leaving", "wiping", "gone"} /\ excused \in {"no", "yes", "late"}
  /\ faults \in 0..MaxFaults /\ foreign \in 0..MaxForeign

\* The namespaces; an operation nobody interfered with knows them all.
Working == {"mount", "rollback", "unroll", "remove", "umount"}
Numbers == 0..(MaxForeign + 1)
Spaces ==
  /\ ns \in [Points -> Numbers] /\ \A p \in Points : ns[p] \in 1..(foreign + 1)
  /\ names \in [Points -> Numbers] /\ oldNames \in [Points -> Numbers]
  /\ seen \in [Points -> Numbers] /\ \A p \in Points : seen[p] <= ns[p]
  /\ pc = "mount" => names = seen
  /\ excused # "late" /\ pc \in Working => seen = ns

\* The loop variable, by loop.
Position ==
  /\ idx \in 0..(NPoints + 1)
  /\ pc \in {"mount", "remove"}  => idx \in 1..(NPoints + 1)
  /\ pc = "rollback"             => idx \in 0..NPoints
  /\ pc \in {"unroll", "umount"} => idx \in Points

\* An apply adds one layer to a point it has found, and one more for every
\* foreign mount that hides it.
Height ==
  \A p \in Points :
    /\ Len(stack[p]) <= MaxLayers + 2 * foreign
    /\ pc = "mount" /\ Current(p) /\ Top(p) # plan
         => Len(stack[p]) < MaxLayers + 2 * foreign

\* What the operation works on.
Operation ==
  /\ pc \in {"plan", "mount", "rollback", "unroll"} => op \in {"change", "boot", "restore"}
  /\ pc \in {"remove", "umount"} =>
       /\ op \in {"change", "boot", "restore", "uninstall"}
       /\ op # "uninstall" => new.managed = {}
  /\ pc = "save" => /\ op \in {"put", "delete", "change"}
                    /\ op # "change" => new.managed = disk.managed
  /\ pc # "idle" /\ op \in {"boot", "restore"} => new.managed = disk.managed
  /\ pc \in {"mount", "rollback", "unroll"} =>
       /\ plan.gen > 0 /\ plan.cas = new.managed /\ new.managed # {}
       /\ old.gen # plan.gen
  /\ pc = "mount" => mounts = plan
  /\ Removed => pc = "idle"
  /\ module = "wiping" => excused # "no"
  /\ module = "gone" => disk.managed = {}

\* Every store shows M and mounts.json names m for it, with namespaces n that
\* are there.
Shown(m, n, M) ==
  IF M = {} THEN m = NoLayer /\ \A p \in Points : ~Owned(p)
  ELSE m.gen > 0 /\ m.cas = M /\ \A p \in Points : Top(p) = m /\ n[p] \in {0, ns[p]}

\* The same once the layers of the new generation are gone: what a rollback
\* comes back to.
Below(p) == IF Top(p) = plan THEN TopOf(Front(stack[p])) ELSE Top(p)
Back(m, n, M) ==
  IF M = {} THEN m = NoLayer /\ \A p \in Points : Below(p).gen <= 0
  ELSE m.gen > 0 /\ m.cas = M /\ \A p \in Points : Below(p) = m /\ n[p] \in {0, ns[p]}

\* Without an excuse the old view is on, under the new one or taken back.
View ==
  excused = "no" =>
    /\ pc \in {"idle", "unlink"} => Shown(mounts, names, disk.managed)
    /\ pc = "save" => Shown(mounts, names, new.managed)
    /\ pc = "plan" /\ op # "restore" => Shown(mounts, names, disk.managed)
    /\ pc \in {"mount", "rollback", "unroll"} /\ op # "restore" => Back(old, oldNames, disk.managed)
    /\ pc \in {"rollback", "unroll"} /\ op # "restore" /\ ~bad
         => \A p \in (idx + 1)..NPoints : Top(p) # plan
    /\ pc = "unroll" => Top(idx) = plan

\* A removal nobody interfered with has cleared the points behind it.
Cleared ==
  excused # "late" =>
    /\ pc \in {"remove", "umount"} => \A p \in 1..(idx - 1) : ~Owned(p)
    /\ pc = "umount" => Owned(idx)

TrustInv == Typed /\ Spaces /\ Position /\ Height /\ Operation /\ View /\ Cleared

---------------------------------------------------------------------------
(* A fresh generation exists *)

Width == MaxLayers + 2 * MaxForeign

LEMMA WidthType == Width \in Nat \ {0} /\ NPoints * Width \in Nat /\ MaxGen = NPoints * Width + 3
BY BoundAssumption DEF Width, MaxGen

\* The generations in use, one per mount and three in the files and the
\* operation, are fewer than the names.
LEMMA NameLeft ==
  ASSUME Typed, \A p \in Points : Len(stack[p]) <= Width, Len(stack[1]) < MaxLayers
  PROVE  \E g \in 1..MaxGen : g \notin InUse
<1> DEFINE D == Points \X (1..Width)
           f == [d \in D |-> IF d[2] <= Len(stack[d[1]]) THEN stack[d[1]][d[2]].gen ELSE 0]
           T == {f[d] : d \in D}
           three == {mounts.gen} \cup {old.gen} \cup {plan.gen}
<1>1. IsFiniteSet(D) /\ Cardinality(D) = NPoints * Width
  <2>1. IsFiniteSet(Points) /\ Cardinality(Points) = NPoints
    <3>1. NPoints \in Int /\ 1 \in Int /\ ~(1 > NPoints) /\ NPoints - 1 + 1 = NPoints
      BY BoundAssumption
    <3> QED BY <3>1, FS_Interval DEF Points
  <2>2. IsFiniteSet(1..Width) /\ Cardinality(1..Width) = Width
    BY WidthType, FS_Interval
  <2> QED BY <2>1, <2>2, FS_Product
<1>2. IsFiniteSet(T) /\ Cardinality(T) <= NPoints * Width /\ Cardinality(T) \in Nat
  <2>1. f \in Surjection(D, T)
    BY DEF Surjection
  <2> HIDE DEF f, D
  <2> QED BY <1>1, <2>1, FS_Surjection, FS_CardinalityType
<1>3. IsFiniteSet(three) /\ Cardinality(three) <= 3 /\ Cardinality(three) \in Nat
  <2>1. IsFiniteSet({mounts.gen}) /\ Cardinality({mounts.gen}) = 1
    BY FS_Singleton
  <2> DEFINE one == {mounts.gen}
             two == one \cup {old.gen}
  <2> HIDE DEF one
  <2>2. IsFiniteSet(two) /\ Cardinality(two) \in {1, 2}
    <3>1. IsFiniteSet(two)
          /\ Cardinality(two) = IF old.gen \in one THEN Cardinality(one) ELSE Cardinality(one) + 1
      BY <2>1, FS_AddElement DEF one
    <3> QED BY <2>1, <3>1 DEF one
  <2> HIDE DEF two
  <2>3. IsFiniteSet(three) /\ Cardinality(three) \in {1, 2, 3}
    <3>1. three = two \cup {plan.gen}
      BY DEF one, two
    <3>2. IsFiniteSet(three)
          /\ Cardinality(three) = IF plan.gen \in two THEN Cardinality(two) ELSE Cardinality(two) + 1
      BY <2>2, <3>1, FS_AddElement
    <3> QED BY <2>2, <3>2
  <2> QED BY <2>3
<1>4. InUse \subseteq three \cup T
  <2> SUFFICES ASSUME NEW p \in Points, NEW i \in 1..Len(stack[p])
               PROVE  stack[p][i].gen \in T
    <3>1. ASSUME NEW x \in InUse, x \notin three
          PROVE  \E p \in Points : x \in {stack[p][i].gen : i \in 1..Len(stack[p])}
      BY <3>1 DEF InUse
    <3> HIDE DEF T
    <3> QED BY <3>1
  <2>1. i \in 1..Width /\ i <= Len(stack[p])
    <3>1. Len(stack[p]) \in Nat /\ Len(stack[p]) <= Width
      BY DEF Typed
    <3> QED BY <3>1, WidthType
  <2>2. <<p, i>> \in D /\ f[<<p, i>>] = stack[p][i].gen
    BY <2>1
  <2> QED BY <2>2
<1>5. 0 \in T
  <2>1. 1 \in Points /\ Width \in 1..Width
    BY BoundAssumption, WidthType DEF Points
  <2>2. ~(Width <= Len(stack[1]))
    <3>1. Len(stack[1]) \in Nat /\ Len(stack[1]) < MaxLayers
      BY <2>1 DEF Typed
    <3> QED BY <3>1, BoundAssumption DEF Width
  <2>3. <<1, Width>> \in D /\ f[<<1, Width>>] = 0
    BY <2>1, <2>2
  <2> QED BY <2>3
<1> HIDE DEF f, T, D, three
<1>6. /\ IsFiniteSet(three \cup T)
      /\ Cardinality(three \cup T) \in Nat /\ Cardinality(three \cup T) <= NPoints * Width + 3
  <2>1. /\ IsFiniteSet(three \cup T)
        /\ Cardinality(three \cup T) = Cardinality(three) + Cardinality(T) - Cardinality(three \cap T)
    BY <1>2, <1>3, FS_Union
  <2>2. Cardinality(three \cap T) \in Nat
    BY <1>2, FS_Intersection, FS_CardinalityType
  <2>3. Cardinality(three \cup T) \in Nat
    BY <2>1, FS_CardinalityType
  <2> QED BY <1>2, <1>3, <2>1, <2>2, <2>3, WidthType
<1> DEFINE X == (three \cup T) \ {0}
<1>7. IsFiniteSet(X) /\ Cardinality(X) = Cardinality(three \cup T) - 1
  BY <1>5, <1>6, FS_RemoveElement
<1>8. IsFiniteSet(1..MaxGen) /\ Cardinality(1..MaxGen) = MaxGen /\ MaxGen \in Nat
  <2>1. MaxGen \in Nat /\ 1 <= MaxGen
    BY WidthType
  <2>2. IsFiniteSet(1..MaxGen) /\ Cardinality(1..MaxGen) = IF 1 > MaxGen THEN 0 ELSE MaxGen - 1 + 1
    BY <2>1, FS_Interval
  <2> QED BY <2>1, <2>2
<1>9. ~(1..MaxGen \subseteq X)
  <2> SUFFICES ASSUME 1..MaxGen \subseteq X PROVE FALSE
    OBVIOUS
  <2> HIDE DEF X
  <2>1. Cardinality(1..MaxGen) <= Cardinality(X)
    BY <1>7, FS_Subset
  <2> QED BY <2>1, <1>6, <1>7, <1>8, WidthType
<1> QED BY <1>4, <1>9

LEMMA FreshIsFresh ==
  ASSUME Typed, \A p \in Points : Len(stack[p]) <= Width, Len(stack[1]) < MaxLayers
  PROVE  FreshGen \in 1..MaxGen /\ FreshGen \notin InUse
<1> DEFINE F == {g \in 1..MaxGen : g \notin InUse}
           R == OpToRel(<, Nat)
<1>1. F \subseteq Nat /\ F # {}
  BY NameLeft
<1>2. PICK g \in F : \A h \in F : ~(<<h, g>> \in R)
  <2> HIDE DEF F, R
  <2>1. IsWellFoundedOn(R, Nat)
    BY NatLessThanWellFounded DEF R
  <2> QED BY <1>1, <2>1, WFMin
<1>3. \A h \in F : ~(h < g)
  BY <1>1, <1>2 DEF OpToRel
<1>4. \A h \in 1..(g - 1) : h \in InUse
  BY <1>3, WidthType
<1> QED BY <1>4 DEF FreshGen

---------------------------------------------------------------------------
(* Layers *)

Mounted == Layers \cup {Foreign}

LEMMA LayerGens ==
  /\ \A l \in Layers : l.gen \in 1..MaxGen
  /\ NoLayer.gen = 0 /\ NoLayer.cas = {} /\ Foreign.gen = -1
  /\ MaxGen \in Nat
BY WidthType DEF Layers, NoLayer, Foreign

LEMMA AppendFacts ==
  ASSUME NEW S, NEW l \in Seq(S), NEW x \in S
  PROVE  /\ Append(l, x) \in Seq(S) /\ Len(Append(l, x)) = Len(l) + 1
         /\ TopOf(Append(l, x)) = x /\ Front(Append(l, x)) = l
<1>1. Append(l, x) \in Seq(S) /\ Len(Append(l, x)) = Len(l) + 1 /\ Len(l) \in Nat
  OBVIOUS
<1>2. Append(l, x) # <<>> /\ Append(l, x)[Len(l) + 1] = x
  BY <1>1
<1>3. Front(Append(l, x)) = l
  BY <1>1 DEF Front
<1> QED BY <1>1, <1>2, <1>3 DEF TopOf

LEMMA FrontFacts ==
  ASSUME NEW S, NEW l \in Seq(S)
  PROVE  Front(l) \in Seq(S) /\ Len(Front(l)) <= Len(l) /\ Len(Front(l)) \in Nat
BY DEF Front

\* The layers on each point.
Shelves == stack \in [Points -> Seq(Mounted)]

LEMMA TopIsTop == \A p : Top(p) = TopOf(stack[p])
BY DEF Top, TopOf

LEMMA TopTyped ==
  ASSUME Shelves, NEW p \in Points
  PROVE  Top(p) \in Mounted \cup {NoLayer} /\ Top(p).gen \in Int
<1>1. Top(p) \in Mounted \cup {NoLayer}
  BY DEF Shelves, Top
<1> QED BY <1>1, LayerGens DEF Mounted

LEMMA PushFacts ==
  ASSUME Shelves, NEW p \in Points, NEW x \in Mounted, Push(p, x)
  PROVE  \E g \in SUBSET Peers(p) :
           /\ p \in g
           /\ \A q \in g : /\ Len(stack'[q]) = Len(stack[q]) + 1
                           /\ Top(q)' = x /\ Front(stack'[q]) = stack[q]
           /\ \A q \in Points \ g : stack'[q] = stack[q]
           /\ Shelves'
<1>1. PICK g \in Group(p) :
        stack' = [q \in Points |-> IF q \in g THEN Append(stack[q], x) ELSE stack[q]]
  BY DEF Push
<1>2. g \in SUBSET Peers(p) /\ p \in g /\ g \subseteq Points
  BY <1>1 DEF Group, Peers
<1>3. Shelves'
  BY <1>1, AppendFacts DEF Shelves
<1>4. ASSUME NEW q \in g
      PROVE  /\ Len(stack'[q]) = Len(stack[q]) + 1
             /\ Top(q)' = x /\ Front(stack'[q]) = stack[q]
  <2>1. stack'[q] = Append(stack[q], x) /\ stack[q] \in Seq(Mounted)
    BY <1>1, <1>2 DEF Shelves
  <2> QED BY <2>1, AppendFacts DEF Top, TopOf
<1>5. \A q \in Points \ g : stack'[q] = stack[q]
  BY <1>1
<1> QED BY <1>2, <1>3, <1>4, <1>5

LEMMA PopFacts ==
  ASSUME Shelves, NEW p \in Points, Pop(p)
  PROVE  \E g \in SUBSET Peers(p) :
           /\ p \in g
           /\ \A q \in g : stack'[q] = Front(stack[q]) /\ Top(q)' = TopOf(Front(stack[q]))
           /\ \A q \in Points \ g : stack'[q] = stack[q]
           /\ \A q \in Points : Len(stack'[q]) <= Len(stack[q])
           /\ Shelves'
<1>1. PICK g \in Group(p) :
        stack' = [q \in Points |-> IF q \in g THEN Front(stack[q]) ELSE stack[q]]
  BY DEF Pop, Front
<1>2. g \in SUBSET Peers(p) /\ p \in g /\ g \subseteq Points
  BY <1>1 DEF Group, Peers
<1>3. Shelves'
  BY <1>1, FrontFacts DEF Shelves
<1>4. \A q \in g : stack'[q] = Front(stack[q]) /\ Top(q)' = TopOf(Front(stack[q]))
  BY <1>1, <1>2 DEF Top, TopOf
<1>5. \A q \in Points \ g : stack'[q] = stack[q]
  BY <1>1
<1>6. \A q \in Points : Len(stack'[q]) <= Len(stack[q])
  BY <1>2, <1>4, <1>5, FrontFacts DEF Shelves
<1> QED BY <1>2, <1>3, <1>4, <1>5, <1>6

\* What stays when the kernel is left alone.
LEMMA StackKept ==
  ASSUME stack' = stack
  PROVE  /\ \A p : Top(p)' = Top(p) /\ (Owned(p)' <=> Owned(p))
         /\ Shelves' <=> Shelves
BY DEF Top, Owned, Shelves

---------------------------------------------------------------------------
(* The operation ends *)

\* The part of the types that no operation owns.
World ==
  /\ ns \in [Points -> Numbers] /\ \A p \in Points : ns[p] \in 1..(foreign + 1)
  /\ names \in [Points -> Numbers]
  /\ Shelves /\ mounts \in Layers \cup {NoLayer}
  /\ module \in {"installed", "leaving", "wiping", "gone"} /\ excused \in {"no", "yes", "late"}
  /\ faults \in 0..MaxFaults /\ foreign \in 0..MaxForeign
  /\ \A p \in Points : Len(stack[p]) <= MaxLayers + 2 * foreign

LEMMA WorldTyped == TrustInv => World
BY DEF TrustInv, Typed, Spaces, Height, World, Shelves, Mounted

\* No namespace is named.
LEMMA NoNamesType == NoNames \in [Points -> Numbers] /\ \A p \in Points : NoNames[p] = 0
BY BoundAssumption DEF NoNames, Numbers

LEMMA FaultType == TrustInv /\ Fault => faults' \in 0..MaxFaults
BY BoundAssumption DEF TrustInv, Typed, Fault

\* What detectTrust finds: every namespace, or it is an excuse.
Detected ==
  /\ seen' \in [Points -> Numbers] /\ \A p \in Points : seen'[p] <= ns[p]
  /\ seen'[1] = ns[1] /\ ns[1] # 0
  /\ excused' # "late" => seen' = ns
  /\ excused' \in {excused, "late"} /\ faults' \in 0..MaxFaults

LEMMA DetectFacts == ASSUME TrustInv, Detect PROVE Detected
<1>1. World /\ 1 \in Points
  BY WorldTyped, BoundAssumption DEF Points
<1>2. \A p \in Points : ns[p] \in Numbers /\ ns[p] \in 1..(foreign + 1) /\ foreign \in Nat
  BY <1>1 DEF World
<1>3. \A p \in Points : ns[p] \in Int /\ 0 < ns[p]
  BY <1>2
<1>4. CASE seen' = ns /\ UNCHANGED <<excused, faults>>
  BY <1>1, <1>3, <1>4 DEF Detected, World
<1>5. CASE /\ Fault /\ excused' = "late"
           /\ \E missed \in (SUBSET (Points \ {1})) \ {{}} :
                seen' = [p \in Points |-> IF p \in missed THEN 0 ELSE ns[p]]
  <2>1. PICK missed \in SUBSET (Points \ {1}) :
          seen' = [p \in Points |-> IF p \in missed THEN 0 ELSE ns[p]]
    BY <1>5
  <2>2. 0 \in Numbers
    BY BoundAssumption DEF Numbers
  <2>3. seen' \in [Points -> Numbers] /\ \A p \in Points : seen'[p] <= ns[p]
    BY <1>2, <1>3, <2>1, <2>2
  <2>4. seen'[1] = ns[1]
    BY <1>1, <2>1
  <2> QED BY <1>1, <1>3, <1>5, <2>3, <2>4, FaultType DEF Detected
<1> QED BY <1>4, <1>5 DEF Detect

\* A step of the operation that leaves the namespaces and the files alone.
LEMMA SpacesKept ==
  ASSUME TrustInv, UNCHANGED <<ns, names, oldNames, seen, excused, foreign>>,
         pc \in Working, pc' \in Working, pc' = "mount" => pc = "mount"
  PROVE  Spaces'
BY DEF TrustInv, Spaces

LEMMA EndInv ==
  ASSUME End, World', (module' = "gone" => disk'.managed = {}),
         (module' = "wiping" => excused' # "no"),
         (excused' = "no" => Shown(mounts, names, disk.managed)')
  PROVE  TrustInv'
<1>1. /\ pc' = "idle" /\ op' = "none" /\ idx' = 0 /\ bad' = FALSE /\ arg' = None
      /\ plan' = NoLayer /\ old' = NoLayer /\ oldNames' = NoNames /\ seen' = NoNames
  BY DEF End
<1>2. Typed'
  BY <1>1 DEF World, Typed, Shelves, Mounted
<1>5. Spaces'
  <2>1. \A p \in Points : ns'[p] \in 1..(foreign' + 1) /\ foreign' \in Nat /\ seen'[p] = 0
    BY <1>1, NoNamesType DEF World
  <2>2. \A p \in Points : seen'[p] <= ns'[p]
    BY <2>1
  <2> QED BY <1>1, <2>2, NoNamesType DEF World, Spaces, Working
<1>3. Position'
  BY <1>1, BoundAssumption DEF Position
<1>4. Height' /\ Operation' /\ View' /\ Cleared'
  BY <1>1 DEF World, Height, Operation, View, Cleared
<1> QED BY <1>2, <1>3, <1>4, <1>5 DEF TrustInv

\* A failed apply ends with the mounts it found, or is excused.
LEMMA ApplyFailsInv ==
  ASSUME TrustInv, NEW e \in BOOLEAN, ApplyFails(e), Shelves', mounts' \in Layers \cup {NoLayer},
         names' \in [Points -> Numbers],
         \A p \in Points : Len(stack'[p]) <= MaxLayers + 2 * foreign,
         UNCHANGED <<disk, ns, foreign, module>>, pc # "idle",
         faults' \in 0..MaxFaults,
         ~e /\ excused = "no" /\ op # "restore" => Shown(mounts, names, disk.managed)'
  PROVE  TrustInv'
<1>1. /\ End /\ excused' \in {"no", "yes"}
      /\ excused' = "no" => ~e /\ excused = "no" /\ op # "restore"
  BY DEF ApplyFails, Excuse
<1>2. World'
  BY <1>1, WorldTyped DEF World
<1>3. module' # "gone" /\ module' # "wiping"
  BY DEF TrustInv, Operation, Removed
<1> QED BY <1>1, <1>2, <1>3, EndInv

\* A successful one leaves the new view on, and a change goes on to its save.
LEMMA ApplyDoneInv ==
  ASSUME IInv, TrustInv, ApplyDone, stack' = stack, mounts' \in Layers \cup {NoLayer},
         names' \in [Points -> Numbers], ns' = ns,
         UNCHANGED <<disk, foreign, faults>>, module' \in {"installed", "leaving"},
         pc \in {"mount", "remove"},
         excused # "late" =>
           IF op = "uninstall" THEN mounts' = NoLayer /\ \A p \in Points : ~Owned(p)
           ELSE Shown(mounts', names', new.managed)
  PROVE  TrustInv'
<1>1. /\ excused' \in {"no", "yes"}
      /\ excused' = "no" => excused # "late" /\ (op = "uninstall" => disk.managed = {})
  BY DEF ApplyDone
<1>2. World'
  BY <1>1, StackKept, WorldTyped DEF World
<1>3. \A p : Top(p)' = Top(p) /\ (Owned(p)' <=> Owned(p))
  BY StackKept
<1>4. op \in {"change", "boot", "restore", "uninstall"}
      /\ (op \in {"boot", "restore"} => new.managed = disk.managed)
  BY DEF TrustInv, Operation
<1>5. CASE op = "change"
  <2>1. /\ pc' = "save" /\ UNCHANGED <<op, new, arg>>
        /\ plan' = NoLayer /\ old' = NoLayer /\ oldNames' = NoNames /\ seen' = NoNames
        /\ idx' = 0 /\ bad' = FALSE
    BY <1>5 DEF ApplyDone
  <2>2. Typed'
    BY <1>2, <2>1 DEF World, Typed, Shelves, Mounted, TrustInv
  <2>6. Spaces'
    <3>1. \A p \in Points : ns[p] \in 1..(foreign + 1) /\ foreign \in Nat /\ seen'[p] = 0
      BY <2>1, NoNamesType, WorldTyped DEF World
    <3>2. \A p \in Points : seen'[p] <= ns[p]
      BY <3>1
    <3> QED BY <1>2, <2>1, <3>2, NoNamesType DEF World, Spaces, Working
  <2>3. Position'
    BY <2>1, BoundAssumption DEF Position
  <2>4. Height' /\ Operation' /\ Cleared'
    BY <1>2, <1>5, <2>1 DEF World, Height, Operation, Cleared, Removed
  <2>5. View'
    BY <1>1, <1>3, <1>5, <2>1 DEF View, Shown, Owned
  <2> QED BY <2>2, <2>3, <2>4, <2>5, <2>6 DEF TrustInv
<1>6. CASE op # "change"
  <2>1. End
    BY <1>6 DEF ApplyDone
  <2>2. excused' = "no" => Shown(mounts, names, disk.managed)'
    BY <1>1, <1>3, <1>4, <1>6 DEF Shown, Owned
  <2> QED BY <1>2, <2>1, <2>2, EndInv
<1> QED BY <1>5, <1>6

---------------------------------------------------------------------------
(* Requests *)

LEMMA BeginTrust ==
  ASSUME TrustInv, NEW o, NEW v, NEW l \in {"save", "plan"}, Begin(o, v, l),
         arg' \in CA \cup {None},
         l = "plan" => o \in {"change", "boot"},
         l = "save" => o \in {"put", "delete", "change"} /\ v.managed = disk.managed,
         o = "boot" => v.managed = disk.managed
  PROVE  TrustInv'
<1>1. /\ pc = "idle" /\ ~Removed /\ pc' = l /\ op' = o /\ new' = v
      /\ UNCHANGED <<disk, stack, ns, mounts, names, plan, old, oldNames, seen, idx, bad, excused,
                     faults, foreign, module>>
      /\ o \in {"put", "delete", "change", "boot"}
  BY DEF Begin, kernel, file, Removed
<1>2. \A p : Top(p)' = Top(p) /\ (Owned(p)' <=> Owned(p))
  BY <1>1, StackKept
<1>3. Typed'
  BY <1>1 DEF TrustInv, Typed
<1>4. Spaces' /\ Position' /\ Height' /\ Cleared'
  BY <1>1, <1>2 DEF TrustInv, Spaces, Working, Position, Height, Cleared
<1>5. Operation'
  BY <1>1 DEF Operation, Removed
<1>6. View'
  <2> SUFFICES ASSUME excused' = "no" PROVE View'
    BY DEF View
  <2>1. Shown(mounts, names, disk.managed)
    BY <1>1 DEF TrustInv, View
  <2>2. Shown(mounts, names, disk.managed)' /\ (l = "save" => Shown(mounts, names, new.managed)')
    BY <1>1, <1>2, <2>1 DEF Shown, Owned
  <2> QED BY <1>1, <2>2 DEF View
<1> QED BY <1>3, <1>4, <1>5, <1>6 DEF TrustInv

LEMMA RequestTrust == ASSUME IInv, TrustInv, Requests PROVE TrustInv'
<1>0. arg \in CA \cup {None} /\ disk \in Inventories
  BY DEF IInv, TrustInv, Typed
<1>1. ASSUME NEW c \in CA, Import(c) PROVE TrustInv'
  BY <1>0, <1>1, BeginTrust DEF Import, Put, Inventories
<1>2. ASSUME NEW c \in CA, Install(c) PROVE TrustInv'
  BY <1>0, <1>2, BeginTrust DEF Install
<1>3. ASSUME NEW c \in CA, Remove(c) PROVE TrustInv'
  BY <1>0, <1>3, BeginTrust DEF Remove
<1>4. ASSUME NEW c \in CA, Delete(c) PROVE TrustInv'
  <2> DEFINE k == [s \in Slots |-> IF disk.link[s] = c THEN None ELSE disk.link[s]]
             v == [disk EXCEPT !.entries = @ \ {c}, !.link = k]
  <2>1. Begin("delete", v, "save") /\ arg' = c
    BY <1>4 DEF Delete
  <2>2. v.managed = disk.managed
    BY <1>0 DEF Inventories
  <2> HIDE DEF v
  <2> QED BY <2>1, <2>2, BeginTrust
<1>5. ASSUME NEW s \in Slots, NEW c \in CA, Sync(s, c) PROVE TrustInv'
  <2> DEFINE v == [Put(disk, c) EXCEPT !.link[s] = c]
             prior == disk.link[s]
             shared == \E t \in Slots \ {s} : disk.link[t] = prior
             w == [v EXCEPT !.managed = (IF shared THEN @ ELSE @ \ {prior}) \cup {c}]
  <2>1. (Begin("change", v, "save") \/ Begin("change", w, "plan")) /\ arg' = arg
    BY <1>5 DEF Sync
  <2>2. v.managed = disk.managed
    BY <1>0 DEF Put, Inventories
  <2> HIDE DEF v, w
  <2> QED BY <1>0, <2>1, <2>2, BeginTrust
<1>6. CASE Apply \/ Check \/ BootApply
  BY <1>0, <1>6, BeginTrust DEF Apply, Check, BootApply
<1>7. CASE Uninstall
  <2>1. /\ pc' = "remove" /\ idx' = 1 /\ op' = "uninstall" /\ module = "installed"
        /\ UNCHANGED <<disk, stack, ns, mounts, names, new, plan, old, oldNames, bad, arg,
                       foreign, module>>
        /\ Detect
    BY <1>7 DEF Uninstall, kernel, file
  <2>5. Detected
    BY <2>1, DetectFacts
  <2>2. Typed'
    BY <2>1, <2>5 DEF TrustInv, Typed, Detected
  <2>3. Position' /\ Spaces'
    BY <2>1, <2>5, BoundAssumption DEF Position, TrustInv, Spaces, Detected
  <2>4. Height' /\ Operation' /\ View' /\ Cleared'
    BY <2>1 DEF TrustInv, Height, Operation, View, Cleared, Removed
  <2> QED BY <2>2, <2>3, <2>4 DEF TrustInv
<1> QED BY <1>1, <1>2, <1>3, <1>4, <1>5, <1>6, <1>7 DEF Requests

---------------------------------------------------------------------------
(* applyTrust *)

\* A name that is not in use differs from all that are.
LEMMA PlanTrust == ASSUME IInv, TrustInv, Plan PROVE TrustInv'
<1>0. /\ Typed /\ World /\ pc = "plan" /\ new \in Inventories /\ op \in {"change", "boot", "restore"}
      /\ UNCHANGED <<disk, objects, stack, ns, foreign, module>> /\ ~Removed
      /\ (excused = "no" /\ op # "restore" => Shown(mounts, names, disk.managed))
  BY WorldTyped DEF IInv, TrustInv, Plan, Operation, View, kernel
<1>1. \A p : Top(p)' = Top(p) /\ (Owned(p)' <=> Owned(p))
  BY <1>0, StackKept
<1>2. CASE /\ new.managed = {} /\ Detect /\ pc' = "remove" /\ idx' = 1
           /\ UNCHANGED <<mounts, names, op, new, plan, old, oldNames, bad, arg>>
  <2>0. Detected
    BY <1>2, DetectFacts
  <2>1. Typed'
    BY <1>0, <1>2, <2>0 DEF Typed, Detected
  <2>2. Position' /\ Spaces'
    BY <1>0, <1>2, <2>0, BoundAssumption DEF Position, TrustInv, Spaces, Detected
  <2>3. Height'
    BY <1>0, <1>2 DEF World, Height
  <2>4. Operation'
    BY <1>0, <1>2 DEF TrustInv, Operation, Removed
  <2>5. View' /\ Cleared'
    BY <1>2 DEF View, Cleared
  <2> QED BY <2>1, <2>2, <2>3, <2>4, <2>5 DEF TrustInv
<1>3. CASE /\ new.managed # {} /\ Detect /\ PlanOK(seen')
           /\ plan' = [gen |-> FreshGen, cas |-> new.managed]
           /\ old' = mounts /\ mounts' = plan'
           /\ oldNames' = names /\ names' = seen'
           /\ pc' = "mount" /\ idx' = 1
           /\ UNCHANGED <<op, new, bad, arg>>
  <2>0. Detected
    BY <1>3, DetectFacts
  <2>1. \A p \in Points : seen'[p] # 0 => Len(stack[p]) < MaxLayers
    BY <1>3 DEF PlanOK
  <2>2. FreshGen \in 1..MaxGen /\ FreshGen \notin InUse
    <3>1. 1 \in Points /\ Len(stack[1]) < MaxLayers
      BY <2>0, <2>1, BoundAssumption DEF Detected, Points
    <3>2. ASSUME NEW p \in Points PROVE Len(stack[p]) <= Width
      <4>1. Len(stack[p]) <= MaxLayers + 2 * foreign /\ Len(stack[p]) \in Nat
            /\ foreign \in 0..MaxForeign
        BY <1>0 DEF World, Shelves
      <4> QED BY <4>1, BoundAssumption DEF Width
    <3> QED BY <1>0, <3>1, <3>2, FreshIsFresh
  <2>3. plan' \in Layers /\ plan'.gen > 0 /\ plan'.gen # mounts.gen /\ plan'.cas = new.managed
    <3>1. new.managed \in SUBSET CA
      BY <1>0 DEF Inventories
    <3>2. mounts.gen \in InUse
      BY DEF InUse
    <3> QED BY <1>3, <2>2, <3>1, <3>2, LayerGens DEF Layers
  <2>4. Typed'
    BY <1>0, <1>3, <2>0, <2>3 DEF Typed, Detected
  <2>5. Position' /\ Spaces'
    BY <1>0, <1>3, <2>0, BoundAssumption DEF Position, World, Spaces, Detected
  <2>6. Height'
    <3>1. \A p \in Points : Len(stack[p]) \in Nat /\ ns[p] # 0
      BY <1>0 DEF World, Shelves
    <3>2. foreign \in Nat /\ MaxLayers \in Nat
      BY <1>0, BoundAssumption DEF World
    <3>3. \A p \in Points : Current(p)' => Len(stack[p]) < MaxLayers
      BY <1>0, <2>1, <3>1 DEF Current
    <3>4. \A p \in Points : Len(stack[p]) <= MaxLayers + 2 * foreign
      BY <1>0 DEF World
    <3>5. \A p \in Points : Current(p)' => Len(stack[p]) < MaxLayers + 2 * foreign
      BY <3>1, <3>2, <3>3
    <3> QED BY <1>0, <3>4, <3>5 DEF Height
  <2>7. Operation'
    BY <1>0, <1>3, <2>3 DEF TrustInv, Operation, Removed
  <2>8. excused' = "no" /\ op # "restore" => Back(old, oldNames, disk.managed)'
    <3> SUFFICES ASSUME excused = "no", op # "restore" PROVE Back(old, oldNames, disk.managed)'
      BY <2>0 DEF Detected
    <3>1. Shown(mounts, names, disk.managed)
      BY <1>0
    <3>2. \A p \in Points : Top(p) # plan'
      <4>1. CASE disk.managed = {}
        BY <2>3, <3>1, <4>1 DEF Shown, Owned
      <4>2. CASE disk.managed # {}
        BY <2>3, <3>1, <4>2 DEF Shown
      <4> QED BY <4>1, <4>2
    <3>3. \A p \in Points : Below(p)' = Top(p)
      BY <1>1, <3>2 DEF Below
    <3>4. \A p \in Points : Top(p).gen \in Int
      BY <1>0, LayerGens, TopTyped DEF World
    <3> QED BY <1>0, <1>3, <3>1, <3>3, <3>4 DEF Shown, Back, Owned
  <2>9. View' /\ Cleared'
    BY <1>3, <2>8 DEF View, Cleared
  <2> QED BY <2>4, <2>5, <2>6, <2>7, <2>9 DEF TrustInv
<1>4. CASE ApplyFails(FALSE) /\ UNCHANGED file /\ (UNCHANGED faults \/ Fault)
  <2>1. faults' \in 0..MaxFaults
    BY <1>0, <1>4, FaultType DEF World
  <2>2. excused = "no" /\ op # "restore" => Shown(mounts, names, disk.managed)'
    BY <1>0, <1>1, <1>4 DEF Shown, Owned, file
  <2> QED BY <1>0, <1>4, <2>1, <2>2, StackKept, ApplyFailsInv DEF World, file
<1> QED BY <1>2, <1>3, <1>4 DEF Plan, file

\* A layer of the new generation on some points hides what was there.
LEMMA PushBack ==
  ASSUME TrustInv, pc = "mount", idx \in Points, Current(idx), Top(idx) # plan, Push(idx, plan),
         UNCHANGED <<plan, ns, seen, foreign>>
  PROVE  /\ Shelves' /\ \A p \in Points : Len(stack'[p]) <= MaxLayers + 2 * foreign
         /\ \A p \in Points : Current(p) /\ Top(p)' # plan
                                => Len(stack'[p]) < MaxLayers + 2 * foreign
         /\ \A p \in Points : Below(p)' = Below(p)
<1>1. World /\ plan \in Mounted /\ plan \in Layers
  BY WorldTyped, LayerGens DEF TrustInv, Typed, Operation, Mounted
<1>2. PICK g \in SUBSET Peers(idx) :
           /\ idx \in g
           /\ \A q \in g : /\ Len(stack'[q]) = Len(stack[q]) + 1
                           /\ Top(q)' = plan /\ Front(stack'[q]) = stack[q]
           /\ \A q \in Points \ g : stack'[q] = stack[q]
           /\ Shelves'
  BY <1>1, PushFacts DEF World
<1>3. \A q \in g : q \in Points /\ Top(q) = Top(idx) /\ stack[q] = stack[idx]
  BY <1>2 DEF Peers, Top
<1>4. ASSUME NEW p \in Points
      PROVE  /\ Len(stack'[p]) <= MaxLayers + 2 * foreign
             /\ Current(p) /\ Top(p)' # plan => Len(stack'[p]) < MaxLayers + 2 * foreign
             /\ Below(p)' = Below(p)
  <2>1. CASE p \in g
    <3>1. Len(stack[p]) < MaxLayers + 2 * foreign
      BY <1>3, <2>1 DEF TrustInv, Height
    <3>2. Len(stack[p]) \in Nat /\ foreign \in Nat /\ MaxLayers \in Nat
      BY <1>1, BoundAssumption DEF World, Shelves
    <3>3. Below(p)' = TopOf(stack[p]) /\ Below(p) = TopOf(stack[p])
      BY <1>2, <1>3, <2>1, TopIsTop DEF Below
    <3> QED BY <1>2, <2>1, <3>1, <3>2, <3>3
  <2>2. CASE p \notin g
    <3>1. stack'[p] = stack[p] /\ Top(p)' = Top(p)
      BY <1>2, <2>2 DEF Top
    <3> QED BY <3>1 DEF TrustInv, Height, Below
  <2> QED BY <2>1, <2>2
<1> QED BY <1>2, <1>4

LEMMA BackKept ==
  ASSUME \A p \in Points : Below(p)' = Below(p), UNCHANGED <<old, oldNames, ns, disk>>,
         Back(old, oldNames, disk.managed)
  PROVE  Back(old, oldNames, disk.managed)'
BY DEF Back

LEMMA MountTrust == ASSUME TrustInv, Mount PROVE TrustInv'
<1>0. /\ Typed /\ World /\ pc = "mount" /\ idx \in Points
      /\ UNCHANGED <<disk, objects, ns, mounts, names, op, new, plan, old, oldNames, seen, bad, arg,
                     excused, foreign, module>>
      /\ (excused = "no" /\ op # "restore" => Back(old, oldNames, disk.managed))
  BY WorldTyped, BoundAssumption DEF TrustInv, Mount, Position, Points, View, file
<1>1. /\ Shelves' /\ \A p \in Points : Len(stack'[p]) <= MaxLayers + 2 * foreign
      /\ \A p \in Points : Current(p) /\ Top(p)' # plan
                             => Len(stack'[p]) < MaxLayers + 2 * foreign
      /\ \A p \in Points : Below(p)' = Below(p)
  <2>1. CASE stack' = stack
    BY <1>0, <2>1, StackKept DEF World, TrustInv, Height, Below
  <2>2. CASE Current(idx) /\ Top(idx) # plan /\ Push(idx, plan)
    BY <1>0, <2>2, PushBack
  <2> QED BY <2>1, <2>2 DEF Mount
<1>2. /\ (pc' = "mount" /\ idx' = idx + 1) \/ (pc' = "rollback" /\ idx' = NPoints)
      /\ faults' \in 0..MaxFaults
  BY <1>0, FaultType DEF Mount, World
<1>3. Typed'
  BY <1>0, <1>1, <1>2 DEF Typed, Shelves, Mounted
<1>4. Position'
  BY <1>0, <1>2, BoundAssumption DEF Position, Points
<1>5. Height' /\ Spaces'
  BY <1>0, <1>1, <1>2, SpacesKept DEF Height, Current, Working
<1>6. Operation' /\ Cleared'
  BY <1>0, <1>2 DEF TrustInv, Operation, Cleared, Removed
<1>7. View'
  BY <1>0, <1>1, <1>2, BackKept, BoundAssumption DEF View
<1> QED BY <1>3, <1>4, <1>5, <1>6, <1>7 DEF TrustInv

LEMMA VerifyTrust == ASSUME IInv, TrustInv, Verify PROVE TrustInv'
<1>0. /\ Typed /\ World /\ pc = "mount"
      /\ UNCHANGED <<disk, objects, stack, ns, mounts, names, foreign, module>>
      /\ (excused = "no" /\ op # "restore" => Back(old, oldNames, disk.managed))
      /\ op \in {"change", "boot", "restore"} /\ mounts = plan /\ plan.gen > 0
      /\ plan.cas = new.managed /\ new.managed # {} /\ ~Removed /\ names = seen
      /\ (excused # "late" => seen = ns)
  BY WorldTyped DEF TrustInv, Verify, View, Operation, Spaces, Working, kernel, file
<1>1. CASE /\ \A p \in Points : seen[p] # 0 => Current(p) /\ Top(p) = plan
           /\ ApplyDone /\ UNCHANGED faults
  <2>1. ASSUME excused # "late" PROVE Shown(mounts', names', new.managed)
    <3>1. \A p \in Points : ns[p] # 0
      BY <1>0 DEF World
    <3> QED BY <1>0, <1>1, <2>1, <3>1 DEF Shown
  <2>2. module' \in {"installed", "leaving"}
    BY <1>0 DEF World, Removed
  <2> QED BY <1>0, <1>1, <2>1, <2>2, ApplyDoneInv DEF World
<1>2. CASE /\ pc' = "rollback" /\ idx' = NPoints /\ (UNCHANGED faults \/ Fault)
           /\ UNCHANGED <<op, new, plan, old, oldNames, seen, bad, arg, excused>>
  <2>0. faults' \in 0..MaxFaults
    BY <1>0, <1>2, FaultType DEF World
  <2>1. Typed'
    BY <1>0, <1>2, <2>0 DEF Typed
  <2>2. Position' /\ Spaces'
    BY <1>0, <1>2, SpacesKept, BoundAssumption DEF Position, Working
  <2>3. Height' /\ Operation' /\ Cleared'
    BY <1>0, <1>2 DEF TrustInv, Height, Operation, Cleared, Removed
  <2>4. \A p \in Points : Below(p)' = Below(p)
    BY <1>0, <1>2, StackKept DEF Below
  <2>5. View'
    BY <1>0, <1>2, <2>4, BackKept, BoundAssumption DEF View
  <2> QED BY <2>1, <2>2, <2>3, <2>5 DEF TrustInv
<1> QED BY <1>1, <1>2 DEF Verify

LEMMA RollbackLookTrust == ASSUME TrustInv, RollbackLook PROVE TrustInv'
<1>0. /\ Typed /\ World /\ pc = "rollback" /\ idx \in Points
      /\ UNCHANGED <<disk, objects, stack, ns, mounts, names, op, new, plan, old, oldNames, seen,
                     bad, arg, excused, faults, foreign, module>>
      /\ \/ Top(idx) = plan /\ pc' = "unroll" /\ idx' = idx
         \/ ~(Current(idx) /\ Top(idx) = plan) /\ pc' = "rollback" /\ idx' = idx - 1
      /\ (excused # "late" => Current(idx))
  BY WorldTyped, BoundAssumption DEF TrustInv, RollbackLook, Position, Points, Spaces, Working,
                                     Current, kernel, file
<1>1. \A p : Top(p)' = Top(p)
  BY <1>0, StackKept
<1>2. \A p \in Points : Below(p)' = Below(p)
  BY <1>0, <1>1 DEF Below
<1>3. Typed'
  BY <1>0 DEF Typed
<1>4. Position'
  BY <1>0, BoundAssumption DEF Position, Points
<1>5. Height' /\ Cleared' /\ Spaces'
  BY <1>0, SpacesKept DEF World, Height, Cleared, Working
<1>6. Operation'
  BY <1>0 DEF TrustInv, Operation, Removed
<1>7. View'
  <2> SUFFICES ASSUME excused' = "no" PROVE View'
    BY DEF View
  <2>1. op # "restore" => Back(old, oldNames, disk.managed)'
    BY <1>0, <1>2, BackKept DEF TrustInv, View
  <2>2. op # "restore" /\ ~bad => \A p \in (idx' + 1)..NPoints : Top(p) # plan
    <3> SUFFICES ASSUME op # "restore", ~bad, NEW p \in (idx' + 1)..NPoints
                 PROVE  Top(p) # plan
      OBVIOUS
    <3>1. \A q \in (idx + 1)..NPoints : Top(q) # plan
      BY <1>0 DEF TrustInv, View
    <3> QED BY <1>0, <3>1, BoundAssumption DEF Points
  <2> QED BY <1>0, <1>1, <2>1, <2>2 DEF View
<1> QED BY <1>3, <1>4, <1>5, <1>6, <1>7 DEF TrustInv

\* An umount takes the new generation off the point and its peers, and what
\* was below shows again.
LEMMA RollbackUmountTrust == ASSUME TrustInv, RollbackUmount PROVE TrustInv'
<1>0. /\ Typed /\ World /\ pc = "unroll" /\ idx \in Points
      /\ UNCHANGED <<disk, objects, ns, mounts, names, op, new, plan, old, oldNames, seen, arg,
                     excused, foreign, module>>
      /\ pc' = "rollback" /\ idx' = idx - 1 /\ bad' \in BOOLEAN /\ faults' \in 0..MaxFaults
      /\ (~bad' => ~bad /\ Pop(idx)) /\ (Pop(idx) \/ stack' = stack)
  BY WorldTyped, FaultType DEF TrustInv, Typed, World, RollbackUmount, Position, file
<1>1. Shelves' /\ \A p \in Points : Len(stack'[p]) <= MaxLayers + 2 * foreign
  <2>1. CASE stack' = stack
    BY <1>0, <2>1, StackKept DEF World
  <2>2. CASE Pop(idx)
    <3>1. Shelves' /\ \A p \in Points : Len(stack'[p]) <= Len(stack[p])
      BY <1>0, <2>2, PopFacts DEF World
    <3>2. \A p \in Points : Len(stack[p]) \in Nat /\ Len(stack'[p]) \in Nat
      BY <1>0, <3>1 DEF World, Shelves
    <3>3. foreign \in Nat /\ MaxLayers \in Nat
      BY <1>0, BoundAssumption DEF World
    <3> QED BY <1>0, <3>1, <3>2, <3>3 DEF World
  <2> QED BY <1>0, <2>1, <2>2
<1>2. Typed'
  BY <1>0, <1>1 DEF Typed, Shelves, Mounted
<1>3. Position'
  BY <1>0, BoundAssumption DEF Position, Points
<1>4. Height' /\ Cleared' /\ Spaces'
  BY <1>0, <1>1, SpacesKept DEF Height, Cleared, Working
<1>5. Operation'
  BY <1>0 DEF TrustInv, Operation, Removed
<1>6. View'
  <2> SUFFICES ASSUME excused' = "no", op # "restore"
               PROVE  /\ Back(old, oldNames, disk.managed)'
                      /\ ~bad' => \A p \in (idx' + 1)..NPoints : Top(p)' # plan
    BY <1>0 DEF View
  <2>1. /\ Back(old, oldNames, disk.managed) /\ Top(idx) = plan
        /\ ~bad => \A p \in (idx + 1)..NPoints : Top(p) # plan
    BY <1>0 DEF TrustInv, View
  <2>2. CASE stack' = stack /\ ~Pop(idx)
    <3>1. \A p \in Points : Below(p)' = Below(p)
      BY <1>0, <2>2, StackKept DEF Below
    <3> QED BY <1>0, <2>1, <2>2, <3>1, BackKept
  <2>3. CASE Pop(idx)
    <3>1. PICK g \in SUBSET Peers(idx) :
           /\ idx \in g
           /\ \A q \in g : stack'[q] = Front(stack[q]) /\ Top(q)' = TopOf(Front(stack[q]))
           /\ \A q \in Points \ g : stack'[q] = stack[q]
      BY <1>0, <2>3, PopFacts DEF World
    <3>2. \A q \in g : q \in Points /\ Top(q) = plan
      BY <2>1, <3>1 DEF Peers, Top
    <3>3. \A q \in g : Below(q) # plan
      <4>1. plan.gen > 0 /\ old.gen # plan.gen
        BY <1>0 DEF TrustInv, Operation
      <4>2. plan.gen \in Int
        BY <1>0, LayerGens DEF Typed
      <4> QED BY <2>1, <3>2, <4>1, <4>2 DEF Back
    <3>4. \A q \in g : Top(q)' = Below(q) /\ Below(q)' = Below(q)
      BY <1>0, <3>1, <3>2, <3>3 DEF Below
    <3>5. \A q \in Points \ g : Top(q)' = Top(q) /\ Below(q)' = Below(q)
      BY <1>0, <3>1 DEF Below, Top
    <3>6. \A q \in Points : Below(q)' = Below(q)
      BY <3>4, <3>5
    <3>7. ASSUME ~bad', NEW p \in (idx' + 1)..NPoints PROVE Top(p)' # plan
      <4>1. p \in Points /\ (p = idx \/ p \in (idx + 1)..NPoints)
        BY <1>0, BoundAssumption DEF Points
      <4>2. CASE p \in g
        BY <3>3, <3>4, <4>2
      <4>3. CASE p \notin g
        BY <1>0, <2>1, <3>1, <3>5, <3>7, <4>1, <4>3
      <4> QED BY <4>2, <4>3
    <3> QED BY <1>0, <2>1, <3>6, <3>7, BackKept
  <2> QED BY <1>0, <2>2, <2>3
<1> QED BY <1>2, <1>3, <1>4, <1>5, <1>6 DEF TrustInv

LEMMA RollbackDoneTrust == ASSUME TrustInv, RollbackDone PROVE TrustInv'
<1>0. /\ Typed /\ World /\ pc = "rollback" /\ idx = 0
      /\ UNCHANGED <<disk, objects, stack, ns, foreign, module>>
      /\ \/ ~bad /\ mounts' = old /\ names' = oldNames /\ ApplyFails(FALSE)
         \/ ApplyFails(TRUE) /\ mounts' = mounts /\ names' = names
      /\ faults' \in 0..MaxFaults /\ Spaces
  BY WorldTyped, FaultType DEF TrustInv, World, RollbackDone, kernel, file
<1>1. /\ Shelves' /\ mounts' \in Layers \cup {NoLayer} /\ names' \in [Points -> Numbers]
      /\ \A p \in Points : Len(stack'[p]) <= MaxLayers + 2 * foreign
  BY <1>0, StackKept DEF Typed, World, Spaces
<1>2. CASE ~bad /\ mounts' = old /\ names' = oldNames /\ ApplyFails(FALSE)
  <2>1. ASSUME excused = "no", op # "restore" PROVE Shown(mounts, names, disk.managed)'
    <3>1. \A p \in Points : Top(p) # plan
      <4>1. \A p \in (idx + 1)..NPoints : Top(p) # plan
        BY <1>0, <1>2, <2>1 DEF TrustInv, View
      <4> QED BY <1>0, <4>1 DEF Points
    <3>2. \A p \in Points : Below(p) = Top(p) /\ Top(p)' = Top(p)
      BY <1>0, <3>1, StackKept DEF Below
    <3>3. Back(old, oldNames, disk.managed)
      BY <1>0, <2>1 DEF TrustInv, View
    <3>4. \A p \in Points : Top(p).gen \in Int
      BY <1>0, TopTyped DEF World
    <3> QED BY <1>0, <1>2, <3>2, <3>3, <3>4 DEF Back, Shown, Owned
  <2> QED BY <1>0, <1>1, <1>2, <2>1, ApplyFailsInv
<1>3. CASE ApplyFails(TRUE)
  BY <1>0, <1>1, <1>3, ApplyFailsInv
<1> QED BY <1>0, <1>2, <1>3

---------------------------------------------------------------------------
(* removeTrust *)

LEMMA RemoveLookTrust == ASSUME TrustInv, RemoveLook PROVE TrustInv'
<1>0. /\ Typed /\ World /\ pc = "remove" /\ idx \in Points
      /\ UNCHANGED <<disk, objects, stack, ns, mounts, names, op, new, plan, old, oldNames, seen,
                     bad, arg, excused, faults, foreign, module>>
      /\ \/ Owned(idx) /\ pc' = "umount" /\ idx' = idx
         \/ ~(Current(idx) /\ Owned(idx)) /\ pc' = "remove" /\ idx' = idx + 1
      /\ (excused # "late" => Current(idx))
  BY WorldTyped, BoundAssumption DEF TrustInv, RemoveLook, Position, Points, Spaces, Working,
                                     Current, kernel, file
<1>1. \A p : Owned(p)' <=> Owned(p)
  BY <1>0, StackKept
<1>2. Typed'
  BY <1>0 DEF Typed
<1>3. Position'
  BY <1>0, BoundAssumption DEF Position, Points
<1>4. Height' /\ View' /\ Spaces'
  BY <1>0, SpacesKept DEF World, Height, View, Working
<1>5. Operation'
  BY <1>0 DEF TrustInv, Operation, Removed
<1>6. Cleared'
  <2> SUFFICES ASSUME excused # "late" PROVE Cleared'
    BY <1>0 DEF Cleared
  <2>1. \A p \in 1..(idx - 1) : ~Owned(p)
    BY <1>0 DEF TrustInv, Cleared
  <2>2. \A p \in 1..(idx' - 1) : ~Owned(p)
    BY <1>0, <2>1, BoundAssumption DEF Points
  <2>3. pc' = "umount" => Owned(idx')
    BY <1>0
  <2> QED BY <1>0, <1>1, <2>2, <2>3 DEF Cleared
<1> QED BY <1>2, <1>3, <1>4, <1>5, <1>6 DEF TrustInv

LEMMA PopWorld ==
  ASSUME World, NEW p \in Points, Pop(p) \/ stack' = stack
  PROVE  Shelves' /\ \A q \in Points : Len(stack'[q]) <= MaxLayers + 2 * foreign
<1>1. CASE stack' = stack
  BY <1>1, StackKept DEF World
<1>2. CASE Pop(p)
  <2>1. Shelves' /\ \A q \in Points : Len(stack'[q]) <= Len(stack[q])
    BY <1>2, PopFacts DEF World
  <2>2. \A q \in Points : Len(stack[q]) \in Nat /\ Len(stack'[q]) \in Nat
    BY <2>1 DEF World, Shelves
  <2>3. foreign \in Nat /\ MaxLayers \in Nat
    BY BoundAssumption DEF World
  <2> QED BY <2>1, <2>2, <2>3 DEF World
<1> QED BY <1>1, <1>2

\* The points behind are not peers of one that still has a layer of its own.
LEMMA RemoveUmountTrust == ASSUME TrustInv, RemoveUmount PROVE TrustInv'
<1>0. /\ Typed /\ World /\ pc = "umount" /\ idx \in Points
      /\ UNCHANGED <<disk, objects, ns, mounts, names, foreign, module>>
  BY WorldTyped DEF TrustInv, RemoveUmount, Position, file
<1>1. CASE Pop(idx) /\ pc' = "remove" /\ UNCHANGED <<opVars, excused, faults>>
  <2>0. UNCHANGED <<op, new, plan, old, oldNames, seen, idx, bad, arg, excused, faults>>
    BY <1>1 DEF opVars
  <2>1. Shelves' /\ \A q \in Points : Len(stack'[q]) <= MaxLayers + 2 * foreign
    BY <1>0, <1>1, PopWorld
  <2>2. Typed'
    BY <1>0, <1>1, <2>0, <2>1 DEF Typed, Shelves, Mounted
  <2>3. Position'
    BY <1>0, <1>1, <2>0, BoundAssumption DEF Position, Points
  <2>4. Height' /\ View' /\ Spaces'
    BY <1>0, <1>1, <2>0, <2>1, SpacesKept DEF Height, View, Working
  <2>5. Operation'
    BY <1>0, <1>1, <2>0 DEF TrustInv, Operation, Removed
  <2>6. Cleared'
    <3> SUFFICES ASSUME excused # "late", NEW p \in 1..(idx - 1) PROVE ~Owned(p)'
      BY <1>1, <2>0 DEF Cleared
    <3>1. ~Owned(p) /\ Owned(idx) /\ p \in Points
      BY <1>0, BoundAssumption DEF TrustInv, Cleared, Points
    <3>2. p \notin Peers(idx)
      BY <3>1 DEF Peers, Owned, Top
    <3>3. stack'[p] = stack[p]
      BY <1>0, <1>1, <3>1, <3>2, PopFacts DEF World
    <3> QED BY <3>1, <3>3 DEF Owned, Top
  <2> QED BY <2>2, <2>3, <2>4, <2>5, <2>6 DEF TrustInv
<1>2. CASE (Fault \/ UNCHANGED faults) /\ (Pop(idx) \/ UNCHANGED stack) /\ ApplyFails(TRUE)
  BY <1>0, <1>2, PopWorld, FaultType, ApplyFailsInv DEF World
<1> QED BY <1>1, <1>2 DEF RemoveUmount

LEMMA RemoveDoneTrust == ASSUME IInv, TrustInv, RemoveDone PROVE TrustInv'
<1>0. /\ Typed /\ World /\ pc = "remove" /\ idx > NPoints /\ idx \in 1..(NPoints + 1)
      /\ UNCHANGED <<disk, objects, stack, ns, foreign>>
      /\ ~Removed /\ (op # "uninstall" => new.managed = {})
  BY WorldTyped DEF TrustInv, RemoveDone, Position, Operation, kernel
<1>1. CASE /\ mounts' = NoLayer /\ names' = NoNames /\ ApplyDone /\ UNCHANGED faults
           /\ module' = IF op = "uninstall" THEN "leaving" ELSE module
  <2>1. excused # "late" => \A p \in Points : ~Owned(p)
    <3>1. \A p \in Points : p \in 1..(idx - 1)
      BY <1>0, BoundAssumption DEF Points
    <3> QED BY <1>0, <3>1 DEF TrustInv, Cleared
  <2>2. module' \in {"installed", "leaving"}
    BY <1>0, <1>1 DEF World, Removed
  <2> QED BY <1>0, <1>1, <2>1, <2>2, NoNamesType, ApplyDoneInv DEF Shown
<1>2. CASE Fault /\ ApplyFails(TRUE) /\ UNCHANGED <<mounts, names, module>>
  BY <1>0, <1>2, StackKept, FaultType, ApplyFailsInv DEF World
<1> QED BY <1>1, <1>2 DEF RemoveDone, file

LEMMA WipeTrust == ASSUME TrustInv, Wipe PROVE TrustInv'
<1>0. /\ World /\ End /\ module' = "wiping" /\ excused' = "yes"
      /\ UNCHANGED <<stack, ns, mounts, names, faults, foreign>>
  BY WorldTyped DEF Wipe, kernel, file
<1>1. World'
  BY <1>0, StackKept DEF World
<1> QED BY <1>0, <1>1, EndInv

\* rm leaves the mounts alone; what is left of them afterwards is an excuse.
LEMMA WipeStepTrust == ASSUME TrustInv, WipeFile \/ WipeDone PROVE TrustInv'
<1>0. /\ module = "wiping" /\ pc = "idle" /\ Removed
      /\ UNCHANGED <<stack, ns, pc, op, new, plan, old, oldNames, seen, idx, bad, arg,
                     faults, foreign>>
      /\ Typed /\ World
  BY WorldTyped DEF TrustInv, Operation, WipeFile, WipeDone, opVars, kernel, Removed
<1>1. /\ mounts' \in Layers \cup {NoLayer} /\ names' \in [Points -> Numbers]
      /\ module' \in {"wiping", "gone"} /\ excused' \in {"no", "yes", "late"}
      /\ module' = "wiping" => excused' # "no"
      /\ module' = "gone" => disk' = Empty
      /\ excused' = "no" => disk' = Empty /\ mounts' = NoLayer /\ \A p \in Points : ~Owned(p)
  <2>1. CASE WipeFile
    <3>1. module' = module /\ excused' = excused /\ excused # "no"
      BY <1>0, <2>1 DEF WipeFile, TrustInv, Operation
    <3>2. (mounts' = mounts /\ names' = names) \/ (mounts' = NoLayer /\ names' = NoNames)
      BY <2>1 DEF WipeFile, file
    <3> QED BY <1>0, <3>1, <3>2, NoNamesType DEF World
  <2>2. CASE WipeDone
    BY <1>0, <2>2 DEF WipeDone, World, file
  <2> QED BY <2>1, <2>2
<1>2. Typed'
  BY <1>0, <1>1 DEF Typed
<1>3. Spaces' /\ Position' /\ Height' /\ Cleared'
  BY <1>0, <1>1 DEF TrustInv, World, Spaces, Working, Position, Height, Cleared
<1>4. Operation'
  BY <1>0, <1>1 DEF Operation, Removed, Empty
<1>5. View'
  <2>1. excused' = "no" => Shown(mounts, names, disk.managed)'
    BY <1>0, <1>1, StackKept DEF Shown, Empty
  <2> QED BY <1>0, <2>1 DEF View
<1> QED BY <1>2, <1>3, <1>4, <1>5 DEF TrustInv

---------------------------------------------------------------------------
(* Saves, deaths and others *)

\* The operation ends and leaves the mounts as they are.
LEMMA QuietEnd ==
  ASSUME TrustInv, End, UNCHANGED <<stack, ns, mounts, names, foreign, module>>,
         excused' \in {"no", "yes"}, faults' \in 0..MaxFaults, pc # "idle",
         excused' = "no" => Shown(mounts, names, disk'.managed)
  PROVE  TrustInv'
<1>1. World'
  BY WorldTyped, StackKept DEF World
<1>2. excused' = "no" => Shown(mounts, names, disk.managed)'
  BY StackKept DEF Shown
<1>3. module' # "gone" /\ module' # "wiping"
  BY DEF TrustInv, Operation, Removed
<1> QED BY <1>1, <1>2, <1>3, EndInv

LEMMA ExcuseFacts ==
  ASSUME NEW e \in BOOLEAN, Excuse(e)
  PROVE  excused' \in {"no", "yes"} /\ (excused' = "no" => excused = "no" /\ ~e)
BY DEF Excuse

LEMMA SaveTrust == ASSUME IInv, TrustInv, Save PROVE TrustInv'
<1>0. /\ Typed /\ World /\ pc = "save" /\ disk' = new /\ op \in {"put", "delete", "change"}
      /\ excused' \in {"no", "yes"} /\ (excused' = "no" => Shown(mounts, names, new.managed))
      /\ UNCHANGED <<objects, stack, ns, mounts, names, faults, foreign, module>> /\ ~Removed
  BY WorldTyped, ExcuseFacts DEF TrustInv, Save, Operation, View, kernel, file
<1>1. CASE End
  BY <1>0, <1>1, QuietEnd DEF World
<1>2. CASE op = "delete" /\ pc' = "unlink" /\ UNCHANGED opVars
  <2>0. UNCHANGED <<op, new, plan, old, oldNames, seen, idx, bad, arg>>
    BY <1>2 DEF opVars
  <2>1. Typed'
    BY <1>0, <1>2, <2>0 DEF Typed
  <2>2. Spaces' /\ Position' /\ Height' /\ Cleared'
    BY <1>0, <1>2, <2>0 DEF TrustInv, World, Spaces, Working, Position, Height, Cleared
  <2>3. Operation'
    BY <1>0, <1>2, <2>0 DEF Operation, Removed
  <2>4. View'
    BY <1>0, <1>2, <2>0, StackKept DEF View, Shown
  <2> QED BY <2>1, <2>2, <2>3, <2>4 DEF TrustInv
<1> QED BY <1>1, <1>2 DEF Save

LEMMA SaveFailsTrust == ASSUME IInv, TrustInv, SaveFails PROVE TrustInv'
<1>0. /\ Typed /\ World /\ pc = "save" /\ op \in {"put", "delete", "change"}
      /\ excused' \in {"no", "yes"}
      /\ (excused' = "no" => excused = "no" /\ Shown(mounts, names, new.managed))
      /\ (op # "change" => new.managed = disk.managed)
      /\ faults' \in 0..MaxFaults /\ ~Removed
      /\ UNCHANGED <<disk, objects, stack, ns, mounts, names, foreign, module>>
  BY WorldTyped, FaultType, ExcuseFacts DEF TrustInv, SaveFails, Operation, View, kernel, file
<1>1. CASE op # "change" /\ End
  BY <1>0, <1>1, QuietEnd
<1>2. CASE op = "change" /\ op' = "restore" /\ new' = disk /\ pc' = "plan"
           /\ UNCHANGED <<plan, old, oldNames, seen, idx, bad, arg>>
  <2>1. Typed'
    BY <1>0, <1>2 DEF Typed
  <2>2. Spaces' /\ Position' /\ Height' /\ Cleared'
    BY <1>0, <1>2 DEF TrustInv, World, Spaces, Working, Position, Height, Cleared
  <2>3. Operation' /\ View'
    BY <1>0, <1>2 DEF Operation, View, Removed
  <2> QED BY <2>1, <2>2, <2>3 DEF TrustInv
<1> QED BY <1>1, <1>2 DEF SaveFails

LEMMA UnlinkTrust == ASSUME TrustInv, Unlink PROVE TrustInv'
<1>0. /\ World /\ pc = "unlink" /\ End /\ excused' \in {"no", "yes"}
      /\ (excused' = "no" => excused = "no")
      /\ faults' \in 0..MaxFaults
      /\ UNCHANGED <<disk, stack, ns, mounts, names, foreign, module>>
  BY WorldTyped, FaultType, ExcuseFacts DEF World, Unlink, kernel, file
<1> QED BY <1>0, QuietEnd DEF TrustInv, View

\* A kill is excused where mounts may be half done; elsewhere the view is the
\* one on disk.
LEMMA CrashTrust == ASSUME TrustInv, Crash PROVE TrustInv'
<1>0. /\ World /\ pc # "idle" /\ End /\ excused' \in {"no", "yes"}
      /\ (excused' = "no" => excused = "no" /\ op \in {"put", "delete"})
      /\ faults' \in 0..MaxFaults
      /\ UNCHANGED <<disk, stack, ns, mounts, names, foreign, module>>
  BY WorldTyped, FaultType, ExcuseFacts DEF Crash, kernel, file
<1>1. excused' = "no" => pc \in {"save", "unlink"} /\ Shown(mounts, names, disk.managed)
  BY <1>0 DEF TrustInv, Typed, Operation, View
<1> QED BY <1>0, <1>1, QuietEnd

LEMMA EmptyShelf == <<>> \in Seq(Mounted) /\ Len(<<>>) = 0
OBVIOUS

LEMMA RebootTrust == ASSUME TrustInv, Reboot PROVE TrustInv'
<1>0. /\ World /\ End /\ stack' = [p \in Points |-> <<>>] /\ mounts' = NoLayer
      /\ ns' = [p \in Points |-> 1] /\ names' = NoNames
      /\ excused' = (IF module = "gone" THEN "no" ELSE "yes") /\ module' = "installed"
      /\ faults' \in 0..MaxFaults /\ UNCHANGED <<disk, foreign>>
  BY WorldTyped, FaultType DEF World, Reboot
<1>1. \A p \in Points : Len(stack'[p]) <= MaxLayers + 2 * foreign
  BY <1>0, EmptyShelf, BoundAssumption DEF World
<1>2. World'
  <2>1. ns' \in [Points -> Numbers] /\ \A p \in Points : ns'[p] \in 1..(foreign + 1)
    BY <1>0, BoundAssumption DEF World, Numbers
  <2> QED BY <1>0, <1>1, <2>1, EmptyShelf, NoNamesType DEF World, Shelves
<1>3. excused' = "no" => disk'.managed = {}
  BY <1>0 DEF TrustInv, Operation
<1>4. \A p \in Points : ~Owned(p)'
  <2>1. \A p \in Points : Top(p)' = NoLayer
    BY <1>0 DEF Top
  <2> QED BY <2>1, LayerGens DEF Owned
<1>5. excused' = "no" => Shown(mounts, names, disk.managed)'
  BY <1>0, <1>3, <1>4 DEF Shown
<1> QED BY <1>0, <1>2, <1>5, EndInv

LEMMA ForeignTrust ==
  ASSUME TrustInv, NEW p \in Points, ForeignMount(p) \/ ForeignUmount(p)
  PROVE  TrustInv'
<1>0. /\ Typed /\ World
      /\ UNCHANGED <<disk, objects, ns, mounts, names, pc, op, new, plan, old, oldNames, seen, idx,
                     bad, arg, faults, module>>
      /\ excused' = IF pc = "idle" THEN "yes" ELSE "late"
  BY WorldTyped DEF TrustInv, ForeignMount, ForeignUmount, Meddle, Interference, opVars, file
<1>1. Foreign \in Mounted /\ stack[p] \in Seq(Mounted) /\ stack \in [Points -> Seq(Mounted)]
      /\ Len(stack[p]) \in Nat /\ foreign \in Nat /\ MaxLayers \in Nat
      /\ MaxForeign \in Nat /\ foreign \in 0..MaxForeign
  BY <1>0, BoundAssumption DEF World, Shelves, Mounted
<1>2. /\ Shelves' /\ foreign' \in 0..MaxForeign
      /\ foreign' \in {foreign, foreign + 1}
      /\ \A q \in Points \ {p} : stack'[q] = stack[q]
      /\ Len(stack'[p]) <= MaxLayers + 2 * foreign'
      /\ pc = "mount" /\ Current(p) => Len(stack'[p]) < MaxLayers + 2 * foreign'
  <2>1. CASE ForeignMount(p)
    <3>1. /\ foreign' = foreign + 1 /\ foreign < MaxForeign
          /\ stack' = [stack EXCEPT ![p] = Append(stack[p], Foreign)]
      BY <2>1 DEF ForeignMount, Meddle
    <3>2. Append(stack[p], Foreign) \in Seq(Mounted)
          /\ Len(Append(stack[p], Foreign)) = Len(stack[p]) + 1
      BY <1>1, AppendFacts
    <3>3. Shelves' /\ stack'[p] = Append(stack[p], Foreign)
      BY <1>1, <3>1, <3>2 DEF Shelves
    <3>4. \A q \in Points \ {p} : stack'[q] = stack[q]
      BY <1>1, <3>1
    <3>5. Len(stack[p]) <= MaxLayers + 2 * foreign
      BY <1>0 DEF World
    <3> QED BY <1>1, <3>1, <3>2, <3>3, <3>4, <3>5
  <2>2. CASE ForeignUmount(p)
    <3>1. /\ foreign' = foreign /\ Top(p) = Foreign
          /\ stack' = [stack EXCEPT ![p] = Front(stack[p])]
      BY <2>2 DEF ForeignUmount, Front
    <3>2. Front(stack[p]) \in Seq(Mounted) /\ Len(Front(stack[p])) <= Len(stack[p])
          /\ Len(Front(stack[p])) \in Nat
      BY <1>1, FrontFacts
    <3>3. Shelves' /\ stack'[p] = Front(stack[p])
      BY <1>1, <3>1, <3>2 DEF Shelves
    <3>4. \A q \in Points \ {p} : stack'[q] = stack[q]
      BY <1>1, <3>1
    <3>5. Len(stack[p]) <= MaxLayers + 2 * foreign
          /\ (pc = "mount" /\ Current(p) => Len(stack[p]) < MaxLayers + 2 * foreign)
      <4>1. pc = "mount" => Top(p) # plan
        <5>1. pc = "mount" => plan.gen > 0
          BY DEF TrustInv, Operation
        <5> QED BY <3>1, <5>1, LayerGens
      <4> QED BY <4>1 DEF TrustInv, Height
    <3> QED BY <1>1, <3>1, <3>2, <3>3, <3>4, <3>5
  <2> QED BY <2>1, <2>2
<1>3. Typed'
  BY <1>0, <1>2 DEF Typed, Shelves, Mounted
<1>4. Height'
  <2> SUFFICES ASSUME NEW q \in Points, q # p
               PROVE  /\ Len(stack'[q]) <= MaxLayers + 2 * foreign'
                      /\ pc = "mount" /\ Current(q) /\ Top(q)' # plan
                           => Len(stack'[q]) < MaxLayers + 2 * foreign'
    BY <1>0, <1>2 DEF Height, Current
  <2>1. stack'[q] = stack[q] /\ Top(q)' = Top(q) /\ Len(stack[q]) \in Nat
    BY <1>0, <1>2 DEF Top, World, Shelves
  <2>2. /\ Len(stack[q]) <= MaxLayers + 2 * foreign
        /\ pc = "mount" /\ Current(q) /\ Top(q) # plan
             => Len(stack[q]) < MaxLayers + 2 * foreign
    BY DEF TrustInv, Height
  <2> QED BY <1>1, <1>2, <2>1, <2>2
<1>5. Position' /\ Operation'
  BY <1>0 DEF TrustInv, Position, Operation, Removed
<1>6. View' /\ Cleared'
  BY <1>0 DEF View, Cleared
<1>7. Spaces'
  <2>1. \A q \in Points : ns[q] \in 1..(foreign' + 1)
    BY <1>0, <1>1, <1>2 DEF World
  <2> QED BY <1>0, <2>1 DEF TrustInv, Spaces, Working
<1> QED BY <1>3, <1>4, <1>5, <1>6, <1>7 DEF TrustInv

\* The new namespace has the layers of one that stays, and no operation has
\* found it yet.
LEMMA ZygoteTrust ==
  ASSUME TrustInv, NEW P \in SUBSET (Points \ {1}), ZygoteRestart(P)
  PROVE  TrustInv'
<1>0. /\ Typed /\ World /\ Spaces
      /\ UNCHANGED <<disk, objects, mounts, names, pc, op, new, plan, old, oldNames, seen, idx,
                     bad, arg, faults, module>>
      /\ excused' = (IF pc = "idle" THEN "yes" ELSE "late")
      /\ foreign < MaxForeign /\ foreign' = foreign + 1
  BY WorldTyped DEF TrustInv, ZygoteRestart, Meddle, Interference, opVars, file
<1>1. PICK from \in [P -> Points \ P] :
        stack' = [p \in Points |-> IF p \in P THEN stack[from[p]] ELSE stack[p]]
  BY DEF ZygoteRestart
<1>2. /\ foreign \in Nat /\ MaxForeign \in Nat /\ MaxLayers \in Nat
      /\ foreign' \in 0..MaxForeign
  BY <1>0, BoundAssumption DEF World
<1>3. ASSUME NEW p \in Points
      PROVE  /\ ns'[p] \in Numbers /\ ns'[p] \in 1..(foreign' + 1)
             /\ seen[p] <= ns'[p]
             /\ p \in P => seen[p] # ns'[p]
             /\ p \notin P => ns'[p] = ns[p]
  <2>1. ns'[p] = IF p \in P THEN ns[p] + 1 ELSE ns[p]
    BY DEF ZygoteRestart
  <2>2. ns[p] \in 1..(foreign + 1) /\ seen[p] \in Numbers /\ seen[p] <= ns[p]
    BY <1>0 DEF Spaces
  <2> QED BY <1>0, <1>2, <2>1, <2>2 DEF Numbers
<1>4. ns' \in [Points -> Numbers]
  <2>1. ns' = [p \in Points |-> ns'[p]]
    BY DEF ZygoteRestart
  <2> QED BY <1>3, <2>1
<1>5. Shelves' /\ \A p \in Points : Len(stack'[p]) <= MaxLayers + 2 * foreign
                                   /\ Len(stack'[p]) \in Nat
  <2>1. \A p \in Points : \E q \in Points : stack'[p] = stack[q]
    BY <1>1
  <2>2. \A q \in Points : stack[q] \in Seq(Mounted) /\ Len(stack[q]) \in Nat
                           /\ Len(stack[q]) <= MaxLayers + 2 * foreign
    BY <1>0 DEF World, Shelves
  <2>3. stack' = [p \in Points |-> stack'[p]]
    BY <1>1
  <2> QED BY <2>1, <2>2, <2>3 DEF Shelves
<1>6. Typed'
  BY <1>0, <1>2, <1>5 DEF Typed, Shelves, Mounted
<1>7. Spaces'
  BY <1>0, <1>3, <1>4 DEF Spaces, Working
<1>8. Height'
  <2> SUFFICES ASSUME NEW p \in Points
               PROVE  /\ Len(stack'[p]) <= MaxLayers + 2 * foreign'
                      /\ Len(stack'[p]) < MaxLayers + 2 * foreign'
    BY DEF Height
  <2>1. Len(stack'[p]) <= MaxLayers + 2 * foreign /\ Len(stack'[p]) \in Nat
    BY <1>5
  <2> QED BY <1>0, <1>2, <2>1
<1>9. Position' /\ Operation'
  BY <1>0 DEF TrustInv, Position, Operation, Removed
<1>10. View' /\ Cleared'
  BY <1>0 DEF View, Cleared
<1> QED BY <1>6, <1>7, <1>8, <1>9, <1>10 DEF TrustInv

LEMMA InitTrust == Init => TrustInv
<1> SUFFICES ASSUME Init PROVE TrustInv
  OBVIOUS
<1>1. stack \in [Points -> Seq(Layers \cup {Foreign})]
  BY EmptyShelf DEF Init, Mounted
<1>6. Spaces
  <2>1. /\ ns = [p \in Points |-> 1] /\ foreign = 0 /\ pc = "idle"
        /\ names = NoNames /\ oldNames = NoNames /\ seen = NoNames
    BY DEF Init
  <2>2. 1 \in Numbers
    BY BoundAssumption DEF Numbers
  <2>3. \A p \in Points : ns[p] = 1 /\ seen[p] = 0
    BY <2>1, NoNamesType
  <2> QED BY <2>1, <2>2, <2>3, NoNamesType DEF Spaces, Working
<1>2. Typed
  <2>1. faults \in 0..MaxFaults /\ foreign \in 0..MaxForeign
    BY BoundAssumption DEF Init
  <2>2. bad \in BOOLEAN
    BY DEF Init
  <2>3. /\ {mounts, plan, old} \subseteq {NoLayer} /\ arg = None
        /\ pc = "idle" /\ op = "none" /\ module = "installed" /\ excused = "no"
    BY DEF Init
  <2> QED BY <1>1, <2>1, <2>2, <2>3 DEF Typed
<1>3. Position /\ Operation /\ Cleared
  BY BoundAssumption DEF Init, Position, Operation, Cleared, Removed
<1>4. Height
  BY EmptyShelf, BoundAssumption DEF Init, Height
<1>5. View
  <2>1. \A p \in Points : Top(p) = NoLayer
    BY DEF Init, Top
  <2>2. \A p \in Points : ~Owned(p)
    BY <2>1, LayerGens DEF Owned
  <2> QED BY <2>2 DEF Init, View, Shown, Empty
<1> QED BY <1>2, <1>3, <1>4, <1>5, <1>6 DEF TrustInv

LEMMA NextTrust == ASSUME IInv, TrustInv, [Next]_vars PROVE TrustInv'
<1>1. CASE Requests
  BY <1>1, RequestTrust
<1>2. CASE Steps
  BY <1>2, PlanTrust, MountTrust, VerifyTrust, RollbackLookTrust, RollbackUmountTrust,
     RollbackDoneTrust, RemoveLookTrust, RemoveUmountTrust, RemoveDoneTrust, WipeTrust,
     WipeStepTrust, SaveTrust, SaveFailsTrust, UnlinkTrust DEF Steps
<1>3. CASE \/ Crash \/ Reboot
           \/ \E p \in Points : ForeignMount(p) \/ ForeignUmount(p)
           \/ \E P \in (SUBSET (Points \ {1})) \ {{}} : ZygoteRestart(P)
  BY <1>3, CrashTrust, RebootTrust, ForeignTrust, ZygoteTrust
<1>4. CASE UNCHANGED vars
  <2>1. UNCHANGED <<disk, stack, ns, mounts, names, pc, op, new, plan, old, oldNames, seen, idx,
                    bad, arg, module, excused, faults, foreign>>
    BY <1>4 DEF vars, opVars, kernel, file
  <2>2. Typed' /\ Spaces' /\ Position' /\ Operation'
    BY <2>1 DEF TrustInv, Typed, Spaces, Position, Operation, Removed
  <2>3. Height' /\ View' /\ Cleared'
    BY <2>1 DEF TrustInv, Height, View, Cleared, Shown, Back, Below, Owned, Top, Current
  <2> QED BY <2>2, <2>3 DEF TrustInv
<1> QED BY <1>1, <1>2, <1>3, <1>4 DEF Next

---------------------------------------------------------------------------

\* No failure or kill of an operation, and no order of them, leaves an inventory
\* entry without its object, a managed CA without its entry or a slot naming a
\* deleted CA.  A store that the rm of uninstall.sh has removed in part, while
\* it works or after a reboot that interrupts it, is exempt.
THEOREM InventoryIsSound == Spec => []NoDangling
<1>1. IInv => NoDangling  BY DEF IInv, Sound, NoDangling
<1> QED BY <1>1, InitInv, NextInv, PTL DEF Spec

\* A Yakit synchronisation of one slot never withdraws the managed certificate
\* of another one.
THEOREM SharedIsKept == Spec => SharedKept
<1> DEFINE Kept == \A s, t \in Slots :
                     /\ s # t
                     /\ disk'.link[s] # disk.link[s] /\ disk'.link[s] # None
                     /\ disk.link[t] \in disk.managed
                     => disk.link[t] \in disk'.managed
<1>1. ASSUME IInv, [Next]_vars PROVE Kept
  <2>1. disk' \in {disk, new, Empty}
    <3>1. CASE Requests
      BY <3>1 DEF Requests, Import, Install, Remove, Delete, Sync, Apply, Check,
                  BootApply, Begin, Uninstall
    <3>2. CASE Steps
      BY <3>2 DEF Steps, Plan, Mount, Verify, RollbackLook, RollbackUmount, RollbackDone,
                  RemoveLook, RemoveUmount, RemoveDone, Wipe, WipeFile, WipeDone, Save,
                  SaveFails, Unlink
    <3>3. CASE \/ Crash \/ Reboot
               \/ \E p \in Points : ForeignMount(p) \/ ForeignUmount(p)
               \/ \E P \in (SUBSET (Points \ {1})) \ {{}} : ZygoteRestart(P)
      BY <3>3 DEF Crash, Reboot, ForeignMount, ForeignUmount, ZygoteRestart
    <3>4. CASE UNCHANGED vars
      BY <3>4 DEF vars
    <3> QED BY <1>1, <3>1, <3>2, <3>3, <3>4 DEF Next
  <2>2. CASE disk' = disk  BY <2>2
  <2>3. CASE disk' = new   BY <1>1, <2>3 DEF IInv, Keeps
  <2>4. CASE disk' = Empty  BY <2>4 DEF Empty
  <2> QED BY <2>1, <2>2, <2>3, <2>4
<1>2. IInv /\ [Next]_vars => [Kept]_vars
  BY <1>1
<1> QED BY <1>2, InitInv, NextInv, PTL DEF Spec, SharedKept

\* The joint invariant of the store and the mounts.
THEOREM TrustInvariant == Spec => [](IInv /\ TrustInv)
<1>1. Init => IInv /\ TrustInv
  BY InitInv, InitTrust
<1>2. IInv /\ TrustInv /\ [Next]_vars => (IInv /\ TrustInv)'
  BY NextInv, NextTrust
<1> QED BY <1>1, <1>2, PTL DEF Spec

\* The values of the store, the mounts and the operation keep their types; in
\* particular a fresh generation name always exists, and no point ever gets
\* more layers than planTrust's limit and the foreign mounts explain.
THEOREM TrustTypes == Spec => []TypeOK
<1>1. IInv /\ TrustInv => TypeOK
  <2> SUFFICES ASSUME IInv, TrustInv PROVE TypeOK
    OBVIOUS
  <2>1. ASSUME NEW p \in Points
        PROVE  /\ Len(stack[p]) <= MaxLayers + 2 * MaxForeign
               /\ \A i \in 1..Len(stack[p]) : stack[p][i] \in Layers \cup {Foreign}
    <3>1. stack[p] \in Seq(Mounted) /\ Len(stack[p]) <= MaxLayers + 2 * foreign
      BY WorldTyped DEF World, Shelves
    <3>2. foreign \in 0..MaxForeign /\ Len(stack[p]) \in Nat /\ MaxForeign \in Nat /\ MaxLayers \in Nat
      BY <3>1, BoundAssumption DEF TrustInv, Typed
    <3>3. \A i \in 1..Len(stack[p]) : stack[p][i] \in Mounted
      BY <3>1
    <3> QED BY <3>1, <3>2, <3>3 DEF Mounted
  <2>2. DOMAIN stack = Points
    BY DEF TrustInv, Typed
  <2>3. /\ ns \in [Points -> 1..(MaxForeign + 1)]
        /\ {names, oldNames, seen} \subseteq [Points -> 0..(MaxForeign + 1)]
    <3>1. \A p \in Points : ns[p] \in 1..(MaxForeign + 1)
      BY BoundAssumption DEF TrustInv, Typed, Spaces
    <3> QED BY <3>1 DEF TrustInv, Spaces, Numbers
  <2>4. whole \in BOOLEAN
    BY DEF IInv
  <2> QED BY <2>1, <2>2, <2>3, <2>4 DEF TypeOK, IInv, TrustInv, Typed, Position
<1> QED BY <1>1, TrustInvariant, PTL

\* Between operations every trust store shows exactly the managed CAs and the
\* list reports exactly these, however operations of applyTrust, removeTrust,
\* their rollback and the saves have failed, unless one of the excuses that
\* TrustAgrees names holds, the restart of zygote and a namespace detectTrust
\* missed among them: applyTrust goes back to the layers it found, and
\* mounts.json names only namespaces that are there.
THEOREM StoresShowManaged == Spec => []TrustAgrees
<1>1. IInv /\ TrustInv => TrustAgrees
  <2> SUFFICES ASSUME TrustInv, pc = "idle", excused = "no",
                      \A p \in Points : Top(p) # Foreign
               PROVE  /\ \A p \in Points : Top(p).cas = disk.managed
                      /\ Reported = disk.managed
    BY DEF TrustAgrees
  <2>1. Shown(mounts, names, disk.managed) /\ World
    BY WorldTyped DEF TrustInv, View
  <2>2. CASE disk.managed = {}
    <3>1. \A p \in Points : Top(p) = NoLayer
      <4> SUFFICES ASSUME NEW p \in Points PROVE Top(p) = NoLayer
        OBVIOUS
      <4>1. Top(p) \in Layers \cup {Foreign, NoLayer}
        BY <2>1, TopTyped DEF World, Mounted
      <4>2. ~(Top(p).gen > 0)
        BY <2>1, <2>2 DEF Shown, Owned
      <4> QED BY <4>1, <4>2, LayerGens
    <3> QED BY <2>1, <2>2, <3>1, LayerGens DEF Shown, Reported
  <2>3. CASE disk.managed # {}
    <3>1. mounts # NoLayer
      BY <2>1, <2>3, LayerGens DEF Shown
    <3> QED BY <2>1, <2>3, <3>1 DEF Shown, Reported
  <2> QED BY <2>2, <2>3
<1> QED BY <1>1, TrustInvariant, PTL
=============================================================================
