------------------------- MODULE WebControl_proofs -------------------------
(***************************************************************************)
(* Proofs about the web controller, for any number of concurrent requests, *)
(* profiles, configurations and failures: the types, FilesAgree,           *)
(* OneBackend, and which requests can wait for each other.                 *)
(*                                                                         *)
(* FilesAgree is silent while a request holds profileMu, and a save writes *)
(* the two files one after the other.  The invariant therefore says what   *)
(* the holder knows at each of its positions: which configuration it has   *)
(* written, and that the one it remembers is the active profile's.  For    *)
(* OneBackend it says that a request about to launch has the backend lock  *)
(* and has seen no engine: whatever is on has come on without a look since.*)
(***************************************************************************)
EXTENDS WebControl, TLAPS

\* Positions inside a profile or configuration request, and inside the child
\* process that holds backend.lock.
InProfile == {"target", "runtime", "index", "restore", "edit"}
InBackend == {"stop", "check", "launch", "blind"}

\* The locks are held by whom the program counters say.
Locked ==
  \A h \in Handlers :
    /\ req[h].pc \in InProfile <=> profileMu = h
    /\ req[h].pc \in InBackend => backendLock = h

\* The request has a configuration to save, given or of a stored profile.
Saves(h) ==
  \/ req[h].op \in {"put", "start"} /\ req[h].arg \in Configs
  \/ req[h].op = "select" /\ req[h].arg \in DOMAIN profiles
NewConfig(h) == IF req[h].op = "select" THEN profiles[req[h].arg] ELSE req[h].arg

\* What is remembered for a restore is what the index says.
Remembers(h) == req[h].old \in Configs /\ (~torn => req[h].old = profiles[active])

\* What a request knows at each of its positions.
Known(h) ==
  /\ req[h].pc = "lifecycle" /\ req[h].op = "start" => req[h].arg \in Configs \cup {None}
  /\ req[h].pc = "profile" =>
       \/ req[h].op \in {"put", "start"} /\ req[h].arg \in Configs
       \/ req[h].op \in {"select", "create", "clone", "delete"} /\ req[h].arg \in Ids
  /\ req[h].pc = "target"  => req[h].op = "select" /\ req[h].old = config
  /\ req[h].pc = "edit"    => req[h].arg \in Ids
  /\ req[h].pc = "runtime" => Saves(h) /\ req[h].old = config
  /\ req[h].pc = "index"   => Saves(h) /\ config = NewConfig(h) /\ Remembers(h)
  /\ req[h].pc = "restore" => Remembers(h)
  /\ req[h].pc \in InBackend => req[h].old \in Configs

\* Up to the first write of a save, and outside, the two files agree.
Agreed ==
  /\ active \in DOMAIN profiles
  /\ ~torn /\ (\A h \in Handlers : req[h].pc \notin {"index", "restore"})
       => config = profiles[active]

\* A launch comes after a look at both engines; only stray starts come between.
Looked == \A h \in Handlers : req[h].pc = "launch" => on \subseteq blind

IInv == TypeOK /\ Locked /\ (\A h \in Handlers : Known(h)) /\ Agreed /\ Looked /\ OneBackend

---------------------------------------------------------------------------
(* Types *)

Positions == {"idle", "lifecycle", "profile", "target", "runtime", "index",
              "restore", "edit", "flock", "stop", "check", "launch", "blind"}
Requests  == [pc  : Positions,
              op  : {"none", "put", "start", "stop", "restart", "auto",
                     "select", "create", "clone", "delete"},
              arg : Configs \cup Ids \cup {None},
              old : Configs \cup {None}]

\* A stored index: profiles with a configuration each.
LEMMA IndexType ==
  \A p : p \in UNION {[S -> Configs] : S \in SUBSET Ids}
           <=> DOMAIN p \subseteq Ids /\ p \in [DOMAIN p -> Configs]
<1> TAKE p
<1>1. ASSUME p \in UNION {[S -> Configs] : S \in SUBSET Ids}
      PROVE  DOMAIN p \subseteq Ids /\ p \in [DOMAIN p -> Configs]
  <2>1. PICK S \in SUBSET Ids : p \in [S -> Configs]
    BY <1>1
  <2> QED BY <2>1
<1>2. ASSUME DOMAIN p \subseteq Ids, p \in [DOMAIN p -> Configs]
      PROVE  p \in UNION {[S -> Configs] : S \in SUBSET Ids}
  BY <1>2
<1> QED BY <1>1, <1>2

Files == /\ config \in Configs
         /\ DOMAIN profiles \subseteq Ids /\ profiles \in [DOMAIN profiles -> Configs]
         /\ active \in Ids
Holders == /\ profileMu \in Handlers \cup {None} /\ lifecycleMu \in Handlers \cup {None}
           /\ backendLock \in Handlers \cup {None}
Bits == /\ on \subseteq Engines /\ stray \subseteq Engines /\ blind \subseteq on
        /\ torn \in BOOLEAN

LEMMA Types ==
  TypeOK <=> /\ Files /\ Holders /\ Bits
             /\ req \in [Handlers -> Requests] /\ faults \in 0..MaxFaults
BY IndexType DEF TypeOK, Files, Holders, Bits, Requests, Positions

LEMMA TypesNext ==
  /\ Files' /\ Holders' /\ Bits'
  /\ req' \in [Handlers -> Requests] /\ faults' \in 0..MaxFaults
  => TypeOK'
BY IndexType DEF TypeOK, Files, Holders, Bits, Requests, Positions

LEMMA FaultType == TypeOK /\ Fault => faults' \in 0..MaxFaults
BY FaultAssumption DEF TypeOK, Fault

\* A request goes on to l.
LEMMA GotoFacts ==
  ASSUME req \in [Handlers -> Requests], NEW h \in Handlers, NEW l \in Positions, Goto(h, l)
  PROVE  /\ req' \in [Handlers -> Requests]
         /\ req'[h].pc = l /\ req'[h].op = req[h].op
         /\ req'[h].arg = req[h].arg /\ req'[h].old = req[h].old
         /\ \A g \in Handlers : g # h => req'[g] = req[g]
BY DEF Goto, Requests

\* A request is answered, and all it held is free.
LEMMA AnswerFacts ==
  ASSUME req \in [Handlers -> Requests], Holders, NEW h \in Handlers, Answer(h)
  PROVE  /\ req' \in [Handlers -> Requests] /\ Holders'
         /\ req'[h] = Idle /\ req'[h].pc = "idle"
         /\ \A g \in Handlers : g # h => req'[g] = req[g]
<1>1. Idle \in Requests /\ Idle.pc = "idle"
  BY DEF Idle, Requests, Positions
<1> QED BY <1>1 DEF Answer, Holders

---------------------------------------------------------------------------
(* A step of request h, seen from the others *)

LEMMA OthersKnow ==
  ASSUME IInv, NEW h \in Handlers,
         \A g \in Handlers : g # h => req'[g] = req[g],
         UNCHANGED fileVars \/ req[h].pc \in InProfile,
         Known(h)'
  PROVE  \A g \in Handlers : Known(g)'
<1> SUFFICES ASSUME NEW g \in Handlers, g # h PROVE Known(g)'
  OBVIOUS
<1>1. Known(g) /\ req'[g] = req[g]
  BY DEF IInv
<1>2. CASE UNCHANGED fileVars
  BY <1>1, <1>2 DEF Known, Saves, NewConfig, Remembers, fileVars, InBackend
<1>3. CASE req[h].pc \in InProfile
  <2>1. req[g].pc \notin InProfile
    BY <1>3 DEF IInv, Locked
  <2> QED BY <1>1, <2>1 DEF Known, InProfile, InBackend
<1> QED BY <1>2, <1>3

LEMMA AnswerLocked == ASSUME IInv, NEW h \in Handlers, Answer(h) PROVE Locked'
<1>1. /\ req'[h].pc = "idle" /\ \A g \in Handlers : g # h => req'[g] = req[g]
  BY Types, AnswerFacts DEF IInv
<1> QED BY <1>1, NoneAssumption DEF IInv, Locked, Answer, InProfile, InBackend

LEMMA MoveLocked ==
  ASSUME IInv, NEW h \in Handlers, UNCHANGED <<profileMu, backendLock>>,
         \A g \in Handlers : g # h => req'[g] = req[g],
         req'[h].pc \in InProfile <=> req[h].pc \in InProfile,
         req'[h].pc \in InBackend => req[h].pc \in InBackend
  PROVE  Locked'
BY DEF IInv, Locked

LEMMA AgreedKept ==
  ASSUME IInv, NEW h \in Handlers, UNCHANGED fileVars,
         \A g \in Handlers : g # h => req'[g] = req[g],
         req[h].pc \notin {"index", "restore"}
  PROVE  Agreed'
<1>1. ASSUME \A g \in Handlers : req'[g].pc \notin {"index", "restore"}
      PROVE  \A g \in Handlers : req[g].pc \notin {"index", "restore"}
  BY <1>1
<1> QED BY <1>1 DEF IInv, Agreed, fileVars

\* Nobody but the holder of the backend lock is about to launch.
LEMMA LookedKept ==
  ASSUME IInv, NEW h \in Handlers,
         \A g \in Handlers : g # h => req'[g] = req[g],
         UNCHANGED engineVars \/ req[h].pc \in InBackend,
         req'[h].pc = "launch" => (on \subseteq blind)'
  PROVE  Looked'
<1> SUFFICES ASSUME NEW g \in Handlers, g # h, req'[g].pc = "launch"
             PROVE  (on \subseteq blind)'
  BY DEF Looked
<1>1. req[g].pc = "launch" /\ on \subseteq blind
  BY DEF IInv, Looked
<1>2. CASE UNCHANGED engineVars
  BY <1>1, <1>2 DEF engineVars
<1>3. CASE req[h].pc \in InBackend
  BY <1>1, <1>3 DEF IInv, Locked, InBackend
<1> QED BY <1>2, <1>3

---------------------------------------------------------------------------

LEMMA InitInv == Init => IInv
<1> SUFFICES ASSUME Init PROVE IInv
  OBVIOUS
<1>1. PICK i \in Ids : active = i /\ profiles = [j \in {i} |-> config]
  BY DEF Init
<1>2. Idle \in Requests /\ Idle.pc = "idle"
  BY DEF Idle, Requests, Positions
<1>3. TypeOK
  <2>1. Files
    BY <1>1 DEF Init, Files
  <2>2. faults \in 0..MaxFaults
    BY FaultAssumption DEF Init
  <2>3. req \in [Handlers -> Requests]
    BY <1>2 DEF Init
  <2>4. Holders /\ Bits
    BY DEF Init, Holders, Bits
  <2> QED BY <2>1, <2>2, <2>3, <2>4, Types
<1>4. Agreed
  BY <1>1 DEF Init, Agreed
<1>5. Locked /\ Looked /\ OneBackend /\ \A h \in Handlers : Known(h)
  BY <1>2, NoneAssumption DEF Init, Locked, Looked, OneBackend, Engines, Known, InProfile, InBackend
<1> QED BY <1>3, <1>4, <1>5 DEF IInv

---------------------------------------------------------------------------
(* Steps that leave the files alone *)

LEMMA FilesKept == UNCHANGED fileVars => (Files' <=> Files) /\ torn' = torn
BY DEF fileVars, Files

\* A request goes from one position to another.
LEMMA MoveInv ==
  ASSUME IInv, NEW h \in Handlers, UNCHANGED fileVars,
         \A g \in Handlers : g # h => req'[g] = req[g],
         req[h].pc \notin {"index", "restore"},
         UNCHANGED engineVars \/ req[h].pc \in InBackend,
         req'[h].pc = "launch" => (on \subseteq blind)',
         req' \in [Handlers -> Requests], Holders', Bits', faults' \in 0..MaxFaults,
         Locked', Known(h)', OneBackend'
  PROVE  IInv'
<1>1. TypeOK'
  <2>1. Files'
    BY FilesKept, Types DEF IInv
  <2> QED BY <2>1, TypesNext
<1>2. (\A g \in Handlers : Known(g)') /\ Agreed' /\ Looked'
  BY OthersKnow, AgreedKept, LookedKept
<1> QED BY <1>1, <1>2 DEF IInv

\* A request ends before it has written anything.
LEMMA AnswerInv ==
  ASSUME IInv, NEW h \in Handlers, Answer(h), UNCHANGED fileVars,
         req[h].pc \notin {"index", "restore"},
         UNCHANGED engineVars \/ req[h].pc \in InBackend,
         Bits', faults' \in 0..MaxFaults, OneBackend'
  PROVE  IInv'
<1>1. /\ req' \in [Handlers -> Requests] /\ Holders' /\ req'[h].pc = "idle"
      /\ \A g \in Handlers : g # h => req'[g] = req[g]
  BY Types, AnswerFacts DEF IInv
<1>2. Known(h)'
  BY <1>1 DEF Known, InBackend
<1> QED BY <1>1, <1>2, AnswerLocked, MoveInv

LEMMA EnginesKept ==
  ASSUME IInv, UNCHANGED engineVars, torn' = torn
  PROVE  Bits' /\ OneBackend'
<1>1. Bits /\ OneBackend
  BY Types DEF IInv
<1> QED BY <1>1 DEF Bits, OneBackend, engineVars

\* Engines that end break nothing.
LEMMA FewerEngines ==
  ASSUME IInv, NEW e \in SUBSET on, Engine(e, {}), UNCHANGED <<stray, torn>>
  PROVE  Bits' /\ OneBackend'
<1>1. Bits /\ OneBackend
  BY Types DEF IInv
<1>2. on' = e /\ blind' = blind \cap e
  BY DEF Engine
<1>3. Engines \subseteq e => blind' = blind
  BY <1>1, <1>2 DEF Bits
<1> QED BY <1>1, <1>2, <1>3 DEF Bits, OneBackend

LEMMA RequestInv == ASSUME IInv, NEW h \in Handlers, Request(h) PROVE IInv'
<1>1. PICK o \in {"put", "start", "stop", "restart", "auto", "select", "create", "clone", "delete"},
           a \in Configs \cup Ids \cup {None} :
        /\ Receive(h, o, a)
        /\ o = "put" => a \in Configs
        /\ o = "start" => a \in Configs \cup {None}
        /\ o \in {"select", "create", "clone", "delete"} => a \in Ids
  BY DEF Request
<1> DEFINE r == [pc  |-> IF o \in {"start", "stop", "restart"} THEN "lifecycle"
                         ELSE IF o = "auto" THEN "flock" ELSE "profile",
                 op  |-> o, arg |-> a, old |-> None]
<1>2. /\ req' = [req EXCEPT ![h] = r] /\ req[h].pc = "idle"
      /\ UNCHANGED <<fileVars, engineVars, locks, faults>>
  BY <1>1 DEF Receive
<1>3. r \in Requests /\ r.pc \in {"lifecycle", "flock", "profile"} /\ r.op = o /\ r.arg = a
      /\ (r.pc = "profile" => o \in {"put", "select", "create", "clone", "delete"})
  BY DEF Requests, Positions
<1> HIDE DEF r
<1>4. TypeOK /\ req \in [Handlers -> Requests]
  BY Types DEF IInv
<1>5. /\ req' \in [Handlers -> Requests] /\ req'[h] = r
      /\ \A g \in Handlers : g # h => req'[g] = req[g]
  BY <1>2, <1>3, <1>4
<1>6. Known(h)'
  BY <1>1, <1>3, <1>5 DEF Known, InBackend
<1>7. Locked'
  BY <1>2, <1>3, <1>5, MoveLocked DEF locks, InProfile, InBackend
<1>8. Holders' /\ faults' \in 0..MaxFaults
  BY <1>2, <1>4, Types DEF locks, Holders
<1>9. Bits' /\ OneBackend'
  BY <1>2, EnginesKept DEF fileVars
<1> QED BY <1>2, <1>3, <1>5, <1>6, <1>7, <1>8, <1>9, MoveInv

LEMMA LockLifecycleInv == ASSUME IInv, NEW h \in Handlers, LockLifecycle(h) PROVE IInv'
<1> DEFINE l == IF req[h].op = "start" /\ req[h].arg # None THEN "profile" ELSE "flock"
<1>1. /\ Goto(h, l) /\ req[h].pc = "lifecycle" /\ lifecycleMu' = h
      /\ UNCHANGED <<fileVars, engineVars, profileMu, backendLock, faults>>
  BY DEF LockLifecycle
<1>2. TypeOK /\ req \in [Handlers -> Requests] /\ l \in Positions
  BY Types DEF IInv, Positions
<1>3. /\ req' \in [Handlers -> Requests] /\ req'[h].pc = l /\ req'[h].op = req[h].op
      /\ req'[h].arg = req[h].arg
      /\ \A g \in Handlers : g # h => req'[g] = req[g]
  BY <1>1, <1>2, GotoFacts
<1>4. Known(h)'
  BY <1>1, <1>3 DEF IInv, Known, InBackend
<1>5. Locked'
  BY <1>1, <1>3, MoveLocked DEF InProfile, InBackend
<1>6. Holders' /\ faults' \in 0..MaxFaults
  BY <1>1, <1>2, Types DEF Holders
<1>7. Bits' /\ OneBackend'
  BY <1>1, EnginesKept DEF fileVars
<1> QED BY <1>1, <1>3, <1>4, <1>5, <1>6, <1>7, MoveInv

\* The files are read under profileMu.
LEMMA LockProfileInv == ASSUME IInv, NEW h \in Handlers, LockProfile(h) PROVE IInv'
<1> DEFINE o == req[h].op
           old == IF o \in {"put", "start", "select"} THEN config ELSE None
           l == CASE o \in {"put", "start"} -> "runtime"
                  [] o = "select" -> "target"
                  [] OTHER -> "edit"
<1>1. /\ req[h].pc = "profile" /\ profileMu = None /\ profileMu' = h
      /\ req' = [req EXCEPT ![h].old = old, ![h].pc = l]
      /\ UNCHANGED <<fileVars, engineVars, lifecycleMu, backendLock, faults>>
  BY DEF LockProfile
<1>2. TypeOK /\ req \in [Handlers -> Requests] /\ old \in Configs \cup {None}
  BY Types DEF IInv, Files
<1>3. /\ o \in {"put", "start"} => l = "runtime"
      /\ o = "select" => l = "target"
      /\ l \in {"runtime", "target", "edit"} /\ l \in Positions
  BY DEF Positions
<1>4. l = "runtime" => o \in {"put", "start"}
  OBVIOUS
<1>5. l = "target" => o = "select"
  OBVIOUS
<1>6. l \in {"runtime", "target"} => old = config
  BY <1>4, <1>5
<1> HIDE DEF old, l
<1>7. /\ req' \in [Handlers -> Requests] /\ req'[h].pc = l /\ req'[h].op = o
      /\ req'[h].arg = req[h].arg /\ req'[h].old = old
      /\ \A g \in Handlers : g # h => req'[g] = req[g]
  BY <1>1, <1>2, <1>3 DEF Requests
<1>8. Known(h)'
  <2>1. Known(h)
    BY DEF IInv
  <2>2. config' = config
    BY <1>1 DEF fileVars
  <2>3. l = "runtime" => req[h].arg \in Configs
    BY <1>1, <1>4, <2>1 DEF Known, InBackend
  <2>4. l = "edit" => req[h].arg \in Ids
    BY <1>1, <1>3, <2>1 DEF Known, InBackend
  <2> QED BY <1>3, <1>4, <1>5, <1>6, <1>7, <2>2, <2>3, <2>4 DEF Known, Saves, InBackend
<1>9. Locked'
  BY <1>1, <1>3, <1>7, NoneAssumption DEF IInv, Locked, InProfile, InBackend
<1>10. Holders' /\ faults' \in 0..MaxFaults
  BY <1>1, <1>2, Types DEF Holders
<1>11. Bits' /\ OneBackend'
  BY <1>1, EnginesKept DEF fileVars
<1> QED BY <1>1, <1>3, <1>7, <1>8, <1>9, <1>10, <1>11, MoveInv

LEMMA SelectInv ==
  ASSUME IInv, NEW h \in Handlers, SelectAnswered(h) \/ SelectLock(h)
  PROVE  IInv'
<1>0. TypeOK /\ req \in [Handlers -> Requests] /\ Holders /\ faults \in 0..MaxFaults /\ Known(h)
  BY Types DEF IInv
<1>1. req[h].pc = "target" /\ UNCHANGED fileVars /\ torn' = torn
  BY DEF SelectAnswered, SelectLock, fileVars
<1>2. CASE Answer(h) /\ UNCHANGED <<engineVars, faults>>
  BY <1>0, <1>1, <1>2, EnginesKept, AnswerInv
<1>3. CASE /\ Goto(h, "runtime") /\ req[h].arg \in DOMAIN profiles
           /\ UNCHANGED engineVars /\ (UNCHANGED faults \/ Overlooked)
           /\ lifecycleMu' = h /\ UNCHANGED <<profileMu, backendLock>>
  <2>1. /\ req' \in [Handlers -> Requests] /\ req'[h].pc = "runtime" /\ req'[h].op = req[h].op
        /\ req'[h].arg = req[h].arg /\ req'[h].old = req[h].old
        /\ \A g \in Handlers : g # h => req'[g] = req[g]
    BY <1>0, <1>3, GotoFacts DEF Positions
  <2>2. TypeOK'
    <3>1. Bits' /\ faults' \in 0..MaxFaults
      BY <1>0, <1>1, <1>3, Types, FaultType DEF Bits, Overlooked, engineVars
    <3>2. Files' /\ Holders'
      BY <1>0, <1>1, <1>3, FilesKept, Types DEF Holders
    <3> QED BY <2>1, <3>1, <3>2, TypesNext
  <2>3. Known(h)'
    BY <1>0, <1>1, <1>3, <2>1 DEF Known, Saves, fileVars, InBackend
  <2>4. Locked'
    BY <1>1, <1>3, <2>1, MoveLocked DEF InProfile, InBackend
  <2>5. OneBackend'
    BY <1>3 DEF IInv, OneBackend, engineVars
  <2>6. Looked'
    BY <1>1, <1>3, <2>1 DEF IInv, Looked, engineVars
  <2> QED BY <1>1, <2>1, <2>2, <2>3, <2>4, <2>5, <2>6, OthersKnow, AgreedKept DEF IInv
<1> QED BY <1>2, <1>3 DEF SelectAnswered, SelectLock

---------------------------------------------------------------------------
(* Steps of a save: the holder of profileMu writes a file *)

LEMMA SaveInv ==
  ASSUME IInv, NEW h \in Handlers, req[h].pc \in InProfile, UNCHANGED engineVars,
         \A g \in Handlers : g # h => req'[g] = req[g],
         req'[h].pc # "launch",
         Files', torn' \in BOOLEAN, Holders',
         req' \in [Handlers -> Requests], faults' \in 0..MaxFaults,
         Locked', Known(h)', Agreed'
  PROVE  IInv'
<1>1. Bits' /\ OneBackend'
  <2>1. Bits /\ OneBackend
    BY Types DEF IInv
  <2> QED BY <2>1 DEF Bits, OneBackend, engineVars
<1>2. TypeOK'
  BY <1>1, TypesNext
<1>3. (\A g \in Handlers : Known(g)') /\ Looked'
  BY OthersKnow, LookedKept
<1> QED BY <1>1, <1>2, <1>3 DEF IInv

\* Nobody else is inside a save.
LEMMA Alone ==
  ASSUME IInv, NEW h \in Handlers, req[h].pc \in InProfile
  PROVE  \A g \in Handlers : g # h => req[g].pc \notin InProfile
BY DEF IInv, Locked

LEMMA SavedConfig ==
  ASSUME IInv, NEW h \in Handlers, Saves(h)
  PROVE  NewConfig(h) \in Configs /\ (req[h].op = "select" => req[h].arg \in Ids)
<1>1. Files
  BY Types DEF IInv
<1> QED BY <1>1 DEF Files, Saves, NewConfig

LEMMA WriteRuntimeInv == ASSUME IInv, NEW h \in Handlers, WriteRuntime(h) PROVE IInv'
<1>0. /\ TypeOK /\ req \in [Handlers -> Requests] /\ Holders /\ faults \in 0..MaxFaults
      /\ Files /\ torn \in BOOLEAN /\ Known(h) /\ Agreed
  BY Types DEF IInv, Bits
<1>1. /\ req[h].pc = "runtime" /\ req[h].pc \in InProfile /\ Saves(h) /\ req[h].old = config
      /\ UNCHANGED <<profiles, active, torn>> /\ UNCHANGED engineVars
  BY <1>0 DEF WriteRuntime, Known, InProfile, InBackend
<1>2. CASE Fault /\ Answer(h) /\ UNCHANGED config
  BY <1>0, <1>1, <1>2, FaultType, EnginesKept, AnswerInv DEF fileVars
<1>3. CASE config' = NewConfig(h) /\ Goto(h, "index") /\ UNCHANGED <<locks, faults>>
  <2>1. /\ req' \in [Handlers -> Requests] /\ req'[h].pc = "index" /\ req'[h].op = req[h].op
        /\ req'[h].arg = req[h].arg /\ req'[h].old = req[h].old
        /\ \A g \in Handlers : g # h => req'[g] = req[g]
    BY <1>0, <1>3, GotoFacts DEF Positions
  <2>2. Files'
    BY <1>0, <1>1, <1>3, SavedConfig DEF Files
  <2>3. Holders'
    BY <1>0, <1>3 DEF Holders, locks
  <2>4. Locked'
    BY <1>1, <1>3, <2>1, MoveLocked DEF locks, InProfile, InBackend
  <2>5. \A g \in Handlers : req[g].pc \notin {"index", "restore"}
    BY <1>1, Alone DEF InProfile
  <2>6. Remembers(h)'
    BY <1>0, <1>1, <2>1, <2>5 DEF Remembers, Agreed, Files
  <2>7. Saves(h)' /\ (config = NewConfig(h))'
    BY <1>1, <1>3, <2>1 DEF Saves, NewConfig
  <2>8. Known(h)'
    BY <2>1, <2>6, <2>7 DEF Known, InBackend
  <2>9. Agreed'
    BY <1>0, <1>1, <2>1 DEF Agreed
  <2> QED BY <1>0, <1>1, <1>3, <2>1, <2>2, <2>3, <2>4, <2>8, <2>9, SaveInv
<1> QED BY <1>2, <1>3 DEF WriteRuntime, NewConfig

LEMMA WriteIndexInv == ASSUME IInv, NEW h \in Handlers, WriteIndex(h) PROVE IInv'
<1>0. /\ TypeOK /\ req \in [Handlers -> Requests] /\ Holders /\ faults \in 0..MaxFaults
      /\ Files /\ torn \in BOOLEAN /\ Known(h) /\ Agreed
  BY Types DEF IInv, Bits
<1>1. /\ req[h].pc = "index" /\ req[h].pc \in InProfile /\ profileMu = h
      /\ Saves(h) /\ config = NewConfig(h) /\ Remembers(h)
      /\ UNCHANGED config /\ UNCHANGED engineVars
  BY <1>0 DEF WriteIndex, Known, InProfile, IInv, Locked, InBackend
<1>2. CASE Fault /\ Goto(h, "restore") /\ UNCHANGED <<profiles, active, torn, locks>>
  <2>1. /\ req' \in [Handlers -> Requests] /\ req'[h].pc = "restore"
        /\ req'[h].old = req[h].old
        /\ \A g \in Handlers : g # h => req'[g] = req[g]
    BY <1>0, <1>2, GotoFacts DEF Positions
  <2>2. Files' /\ Holders' /\ faults' \in 0..MaxFaults
    BY <1>0, <1>1, <1>2, FaultType DEF Files, Holders, locks
  <2>3. Locked'
    BY <1>1, <1>2, <2>1, MoveLocked DEF locks, InProfile, InBackend
  <2>4. Known(h)'
    BY <1>1, <1>2, <2>1 DEF Known, Remembers, InBackend
  <2>5. Agreed'
    BY <1>0, <1>2, <2>1 DEF Agreed
  <2> QED BY <1>0, <1>1, <1>2, <2>1, <2>2, <2>3, <2>4, <2>5, SaveInv
<1>3. CASE /\ active' = IF req[h].op = "select" THEN req[h].arg ELSE active
           /\ profiles' = IF req[h].op = "select" THEN profiles
                          ELSE [profiles EXCEPT ![active] = req[h].arg]
           /\ torn' = FALSE
           /\ UNCHANGED faults
           /\ IF req[h].op = "start"
              THEN Goto(h, "flock") /\ profileMu' = None /\ UNCHANGED <<lifecycleMu, backendLock>>
              ELSE Answer(h)
  <2>1. Files' /\ active' \in DOMAIN profiles' /\ config' = profiles'[active']
    <3>1. CASE req[h].op = "select"
      BY <1>0, <1>1, <1>3, <3>1, SavedConfig DEF Files, Saves, NewConfig
    <3>2. CASE req[h].op # "select"
      <4>1. /\ req[h].arg \in Configs /\ config = req[h].arg /\ active \in DOMAIN profiles
            /\ UNCHANGED <<active, config>> /\ profiles' = [profiles EXCEPT ![active] = req[h].arg]
        BY <1>0, <1>1, <1>3, <3>2 DEF Saves, NewConfig, Agreed
      <4> QED BY <1>0, <4>1 DEF Files
    <3> QED BY <3>1, <3>2
  <2>2. /\ req' \in [Handlers -> Requests] /\ Holders' /\ req'[h].pc \in {"idle", "flock"}
        /\ \A g \in Handlers : g # h => req'[g] = req[g]
    <3>1. CASE req[h].op = "start"
      BY <1>0, <1>3, <3>1, GotoFacts DEF Positions, Holders
    <3>2. CASE req[h].op # "start"
      BY <1>0, <1>3, <3>2, AnswerFacts
    <3> QED BY <3>1, <3>2
  <2>3. Locked'
    <3>1. CASE req[h].op = "start"
      BY <1>1, <1>3, <2>2, <3>1, NoneAssumption DEF IInv, Locked, InProfile, InBackend
    <3>2. CASE req[h].op # "start"
      BY <1>3, <3>2, AnswerLocked
    <3> QED BY <3>1, <3>2
  <2>4. Known(h)'
    BY <2>2 DEF Known, InBackend
  <2>5. Agreed'
    BY <2>1 DEF Agreed
  <2> QED BY <1>0, <1>1, <1>3, <2>1, <2>2, <2>3, <2>4, <2>5, SaveInv
<1> QED BY <1>2, <1>3 DEF WriteIndex

LEMMA RestoreInv == ASSUME IInv, NEW h \in Handlers, Restore(h) PROVE IInv'
<1>0. /\ TypeOK /\ req \in [Handlers -> Requests] /\ Holders /\ faults \in 0..MaxFaults
      /\ Files /\ torn \in BOOLEAN /\ Known(h) /\ Agreed
  BY Types DEF IInv, Bits
<1>1. /\ req[h].pc \in InProfile /\ Remembers(h)
      /\ UNCHANGED <<profiles, active>> /\ UNCHANGED engineVars /\ Answer(h)
  BY <1>0 DEF Restore, Known, InProfile, InBackend
<1>2. /\ req' \in [Handlers -> Requests] /\ Holders' /\ req'[h].pc = "idle"
      /\ \A g \in Handlers : g # h => req'[g] = req[g]
  BY <1>0, <1>1, AnswerFacts
<1>3. Locked' /\ Known(h)'
  BY <1>1, <1>2, AnswerLocked DEF Known, InBackend
<1>4. Files' /\ torn' \in BOOLEAN /\ Agreed' /\ faults' \in 0..MaxFaults
  <2>1. CASE config' = req[h].old /\ UNCHANGED <<torn, faults>>
    BY <1>0, <1>1, <2>1 DEF Files, Agreed, Remembers
  <2>2. CASE Fault /\ torn' = TRUE /\ UNCHANGED config
    BY <1>0, <1>1, <2>2, FaultType DEF Files, Agreed
  <2> QED BY <2>1, <2>2 DEF Restore
<1> QED BY <1>1, <1>2, <1>3, <1>4, SaveInv

\* The active profile is neither overwritten nor deleted.
LEMMA EditIndexInv == ASSUME IInv, NEW h \in Handlers, EditIndex(h) PROVE IInv'
<1>0. /\ TypeOK /\ req \in [Handlers -> Requests] /\ Holders /\ faults \in 0..MaxFaults
      /\ Files /\ torn \in BOOLEAN /\ Known(h) /\ Agreed
  BY Types DEF IInv, Bits
<1>1. /\ req[h].pc = "edit" /\ req[h].pc \in InProfile /\ req[h].arg \in Ids
      /\ UNCHANGED <<config, active, torn, faults>> /\ UNCHANGED engineVars /\ Answer(h)
  BY <1>0 DEF EditIndex, Known, InProfile, InBackend
<1>2. /\ req' \in [Handlers -> Requests] /\ Holders' /\ req'[h].pc = "idle"
      /\ \A g \in Handlers : g # h => req'[g] = req[g]
  BY <1>0, <1>1, AnswerFacts
<1>3. Locked' /\ Known(h)'
  BY <1>1, <1>2, AnswerLocked DEF Known, InBackend
<1> DEFINE a == req[h].arg
           With(c) == [i \in DOMAIN profiles \cup {a} |-> IF i = a THEN c ELSE profiles[i]]
           Kept == /\ DOMAIN profiles' \subseteq Ids /\ profiles' \in [DOMAIN profiles' -> Configs]
                   /\ active \in DOMAIN profiles' /\ profiles'[active] = profiles[active]
<1>4. Kept
  <2>1. ASSUME NEW c \in Configs, a \notin DOMAIN profiles, profiles' = With(c)
        PROVE  Kept
    BY <1>0, <1>1, <2>1 DEF Files, Agreed
  <2>2. ASSUME a # active, profiles' = [i \in DOMAIN profiles \ {a} |-> profiles[i]]
        PROVE  Kept
    BY <1>0, <2>2 DEF Files, Agreed
  <2>3. ASSUME UNCHANGED profiles PROVE Kept
    BY <1>0, <2>3 DEF Files, Agreed
  <2>4. profiles[active] \in Configs /\ TunConfigs \subseteq Configs
    BY <1>0 DEF Files, Agreed, Configs
  <2>5. \/ a \notin DOMAIN profiles /\ \E c \in Configs : profiles' = With(c)
        \/ a # active /\ profiles' = [i \in DOMAIN profiles \ {a} |-> profiles[i]]
        \/ UNCHANGED profiles
    BY <2>4 DEF EditIndex, Restrict
  <2> QED BY <2>1, <2>2, <2>3, <2>5
<1>5. Files'
  BY <1>0, <1>1, <1>4 DEF Files
<1>6. Agreed'
  <2>1. \A g \in Handlers : req[g].pc \notin {"index", "restore"}
    BY <1>1, Alone DEF InProfile
  <2> QED BY <1>0, <1>1, <1>4, <2>1 DEF Agreed
<1> QED BY <1>0, <1>1, <1>2, <1>3, <1>5, <1>6, SaveInv

---------------------------------------------------------------------------
(* The backend, under backend.lock *)

LEMMA LockBackendInv == ASSUME IInv, NEW h \in Handlers, LockBackend(h) PROVE IInv'
<1> DEFINE l == IF req[h].op \in {"stop", "restart"} THEN "stop" ELSE "check"
<1>1. /\ req[h].pc = "flock" /\ backendLock = None /\ backendLock' = h
      /\ req' = [req EXCEPT ![h].old = config, ![h].arg = None, ![h].pc = l]
      /\ UNCHANGED <<fileVars, engineVars, profileMu, lifecycleMu, faults>>
  BY DEF LockBackend
<1>2. /\ TypeOK /\ req \in [Handlers -> Requests] /\ config \in Configs
      /\ l \in {"stop", "check"} /\ l \in Positions
  BY Types DEF IInv, Files, Positions
<1> HIDE DEF l
<1>3. /\ req' \in [Handlers -> Requests] /\ req'[h].pc = l /\ req'[h].old = config
      /\ \A g \in Handlers : g # h => req'[g] = req[g]
  BY <1>1, <1>2 DEF Requests
<1>4. Known(h)'
  BY <1>2, <1>3 DEF Known, InBackend
<1>5. Locked'
  BY <1>1, <1>2, <1>3, NoneAssumption DEF IInv, Locked, InProfile, InBackend
<1>6. Holders' /\ faults' \in 0..MaxFaults
  BY <1>1, <1>2, Types DEF Holders
<1>7. Bits' /\ OneBackend'
  BY <1>1, EnginesKept DEF fileVars
<1> QED BY <1>1, <1>2, <1>3, <1>4, <1>5, <1>6, <1>7, MoveInv

\* The holder of the backend lock goes on to the next position.
LEMMA BackendMove ==
  ASSUME IInv, NEW h \in Handlers, req[h].pc \in InBackend, NEW l \in {"check", "launch", "blind"},
         Goto(h, l), UNCHANGED locks, UNCHANGED fileVars,
         l = "launch" => req[h].pc = "check" /\ (on \subseteq blind)',
         Bits', faults' \in 0..MaxFaults, OneBackend'
  PROVE  IInv'
<1>1. TypeOK /\ req \in [Handlers -> Requests] /\ Holders /\ Known(h) /\ l \in Positions
  BY Types DEF IInv, Positions
<1>2. /\ req' \in [Handlers -> Requests] /\ req'[h].pc = l /\ req'[h].old = req[h].old
      /\ \A g \in Handlers : g # h => req'[g] = req[g]
  BY <1>1, GotoFacts
<1>3. Known(h)'
  BY <1>1, <1>2 DEF Known, InBackend
<1>4. Locked' /\ Holders'
  BY <1>1, <1>2, MoveLocked DEF InProfile, InBackend, locks, Holders
<1>5. req[h].pc \notin {"index", "restore"}
  BY DEF InBackend
<1> QED BY <1>2, <1>3, <1>4, <1>5, MoveInv

LEMMA StopBackendInv == ASSUME IInv, NEW h \in Handlers, StopBackend(h) PROVE IInv'
<1>0. TypeOK /\ Bits /\ OneBackend /\ faults \in 0..MaxFaults /\ Known(h)
  BY Types DEF IInv
<1>1. req[h].pc = "stop" /\ req[h].pc \in InBackend /\ UNCHANGED fileVars /\ torn' = torn
  BY DEF StopBackend, InBackend, fileVars
<1>2. Bits' /\ OneBackend' /\ faults' \in 0..MaxFaults
  <2>1. UNCHANGED stray /\ ({} \in SUBSET on)
    BY DEF StopBackend
  <2>2. CASE Engine({}, {}) /\ UNCHANGED faults
    BY <1>0, <1>1, <2>1, <2>2, FewerEngines
  <2>3. CASE "ebpf" \in on /\ Fault /\ Engine({"ebpf"}, {})
    BY <1>0, <1>1, <2>1, <2>3, FaultType, FewerEngines
  <2> QED BY <2>2, <2>3 DEF StopBackend
<1>3. CASE Answer(h)
  BY <1>1, <1>2, <1>3, AnswerInv
<1>4. CASE Goto(h, "check") /\ UNCHANGED locks
  BY <1>0, <1>1, <1>2, <1>4, BackendMove DEF Known, InBackend
<1> QED BY <1>3, <1>4 DEF StopBackend

LEMMA StopFailsInv == ASSUME IInv, NEW h \in Handlers, StopFails(h) PROVE IInv'
<1>0. TypeOK /\ Bits /\ OneBackend
  BY Types DEF IInv
<1>1. /\ req[h].pc = "stop" /\ req[h].pc \in InBackend /\ UNCHANGED fileVars /\ torn' = torn
      /\ Answer(h) /\ faults' \in 0..MaxFaults
  BY <1>0, FaultType DEF StopFails, InBackend, fileVars
<1>2. Bits' /\ OneBackend'
  BY <1>0, <1>1, FewerEngines DEF StopFails
<1> QED BY <1>1, <1>2, AnswerInv

LEMMA CheckBackendInv == ASSUME IInv, NEW h \in Handlers, CheckBackend(h) PROVE IInv'
<1>0. TypeOK /\ faults \in 0..MaxFaults
  BY Types DEF IInv
<1>1. /\ req[h].pc = "check" /\ req[h].pc \in InBackend /\ UNCHANGED fileVars /\ torn' = torn
      /\ UNCHANGED engineVars
  BY DEF CheckBackend, InBackend, fileVars
<1>2. Bits' /\ OneBackend'
  BY <1>1, EnginesKept
<1>3. CASE Answer(h) /\ UNCHANGED faults
  BY <1>0, <1>1, <1>2, <1>3, AnswerInv
<1>4. CASE ~Running /\ Goto(h, "launch") /\ UNCHANGED <<locks, faults>>
  <2>1. (on \subseteq blind)'
    BY <1>1, <1>4 DEF Running, engineVars
  <2> QED BY <1>0, <1>1, <1>2, <1>4, <2>1, BackendMove
<1>5. CASE Overlooked /\ Goto(h, "blind") /\ UNCHANGED locks
  <2>1. faults' \in 0..MaxFaults
    BY <1>0, <1>5, FaultType DEF Overlooked
  <2> QED BY <1>1, <1>2, <1>5, <2>1, BackendMove
<1> QED BY <1>3, <1>4, <1>5 DEF CheckBackend

\* Whatever is on has come on without a look, or the engine just started has.
LEMMA LaunchBackendInv == ASSUME IInv, NEW h \in Handlers, LaunchBackend(h) PROVE IInv'
<1>0. TypeOK /\ Bits /\ OneBackend /\ faults \in 0..MaxFaults
  BY Types DEF IInv
<1>1. /\ req[h].pc \in {"launch", "blind"} /\ req[h].pc \in InBackend
      /\ UNCHANGED fileVars /\ torn' = torn /\ Answer(h) /\ UNCHANGED <<stray, faults>>
  BY DEF LaunchBackend, InBackend, fileVars
<1>2. Wanted(h) \in Engines
  BY DEF Wanted, backendName, Engines
<1>3. PICK e \in {on, on \ ({"tun"} \cap {Wanted(h)}), on \cup {Wanted(h)}} :
        Engine(e, IF req[h].pc = "blind" THEN {Wanted(h)} ELSE {})
  BY DEF LaunchBackend
<1>4. CASE e \subseteq on
  <2>1. Engines \subseteq e => blind' # {}
    BY <1>0, <1>3, <1>4 DEF Engine, OneBackend, Bits
  <2> QED BY <1>0, <1>1, <1>3, <1>4, <2>1, AnswerInv DEF Engine, OneBackend, Bits
<1>5. CASE e = on \cup {Wanted(h)}
  <2>1. Engines \subseteq e => blind' # {}
    <3>1. CASE req[h].pc = "blind"
      BY <1>3, <1>5, <3>1 DEF Engine
    <3>2. CASE req[h].pc = "launch"
      <4>1. on \subseteq blind /\ blind' = blind \cap e
        BY <1>3, <3>2 DEF IInv, Looked, Engine
      <4>2. Engines \subseteq e => on # {}
        BY <1>5 DEF Engines
      <4> QED BY <1>5, <4>1, <4>2
    <3> QED BY <1>1, <3>1, <3>2
  <2>2. Bits'
    BY <1>0, <1>1, <1>2, <1>3, <1>5 DEF Engine, Bits
  <2> QED BY <1>0, <1>1, <1>3, <2>1, <2>2, AnswerInv DEF Engine, OneBackend
<1> QED BY <1>3, <1>4, <1>5

\* Of a killed action at most a start in progress is left.
LEMMA KillActionInv == ASSUME IInv, NEW h \in Handlers, KillAction(h) PROVE IInv'
<1>0. TypeOK /\ Bits /\ OneBackend
  BY Types DEF IInv
<1>1. /\ req[h].pc \in {"flock", "stop", "check", "launch", "blind"}
      /\ UNCHANGED fileVars /\ torn' = torn /\ Answer(h) /\ UNCHANGED <<on, blind>>
      /\ faults' \in 0..MaxFaults
  BY <1>0, FaultType DEF KillAction, fileVars
<1>2. Wanted(h) \in Engines
  BY DEF Wanted, backendName, Engines
<1>3. Bits' /\ OneBackend'
  BY <1>0, <1>1, <1>2 DEF KillAction, Bits, OneBackend
<1>4. /\ req' \in [Handlers -> Requests] /\ Holders' /\ req'[h].pc = "idle"
      /\ \A g \in Handlers : g # h => req'[g] = req[g]
  BY <1>1, Types, AnswerFacts DEF IInv
<1>5. Known(h)' /\ Locked'
  BY <1>1, <1>4, AnswerLocked DEF Known, InBackend
<1>6. Looked'
  BY <1>1, <1>4 DEF IInv, Looked
<1>7. TypeOK'
  <2>1. Files'
    BY <1>1, FilesKept, Types DEF IInv
  <2> QED BY <1>1, <1>3, <1>4, <2>1, TypesNext
<1>8. (\A g \in Handlers : Known(g)') /\ Agreed'
  BY <1>1, <1>4, <1>5, OthersKnow, AgreedKept
<1> QED BY <1>3, <1>5, <1>6, <1>7, <1>8 DEF IInv

---------------------------------------------------------------------------
(* Steps of nobody's request *)

\* An engine ends, or a stray start brings one on.
LEMMA EnginesInv == ASSUME IInv, EngineDies \/ StrayStarts PROVE IInv'
<1>0. /\ TypeOK /\ Files /\ Holders /\ Bits /\ req \in [Handlers -> Requests]
      /\ faults \in 0..MaxFaults /\ OneBackend /\ Looked
  BY Types DEF IInv
<1>1. UNCHANGED fileVars /\ UNCHANGED <<locks, req, faults>> /\ torn' = torn
  BY DEF EngineDies, StrayStarts, fileVars
<1>2. Bits' /\ OneBackend' /\ (on \subseteq blind => (on \subseteq blind)')
  <2>1. CASE EngineDies
    BY <1>0, <1>1, <2>1 DEF EngineDies, Engine, Bits, OneBackend
  <2>2. CASE StrayStarts
    <3>1. PICK b \in stray : /\ stray' = stray \ {b}
                             /\ \/ Engine(on \cup {b}, {b})
                                \/ UNCHANGED <<on, blind>>
      BY <2>2 DEF StrayStarts
    <3> QED BY <1>0, <1>1, <3>1 DEF Engine, Bits, OneBackend
  <2> QED BY <2>1, <2>2
<1>3. TypeOK'
  BY <1>0, <1>1, <1>2, TypesNext DEF Holders, Files, fileVars, locks
<1>4. Locked'
  BY <1>1 DEF IInv, Locked, locks
<1>5. \A h \in Handlers : Known(h)'
  BY <1>1 DEF IInv, Known, Saves, NewConfig, Remembers, fileVars, InBackend
<1>6. Agreed'
  BY <1>1 DEF IInv, Agreed, fileVars
<1>7. Looked'
  BY <1>0, <1>1, <1>2 DEF Looked
<1> QED BY <1>2, <1>3, <1>4, <1>5, <1>6, <1>7 DEF IInv

\* Only the children that hold or wait for the backend lock survive.
LEMMA CrashInv == ASSUME IInv, Crash PROVE IInv'
<1>0. TypeOK /\ Files /\ Holders /\ Bits /\ req \in [Handlers -> Requests]
  BY Types DEF IInv
<1>1. Idle \in Requests /\ Idle.pc = "idle"
  BY DEF Idle, Requests, Positions
<1>2. /\ req' \in [Handlers -> Requests]
      /\ \A h \in Handlers :
           \/ req'[h] = req[h] /\ req[h].pc \in {"flock", "stop", "check", "launch", "blind"}
           \/ req'[h].pc = "idle"
  <2> DEFINE child == {h \in Handlers : req[h].pc \in {"flock", "stop", "check", "launch", "blind"}}
  <2>1. PICK lost \in SUBSET {h \in child : req[h].pc = "flock"} :
          req' = [h \in Handlers |-> IF h \in child \ lost THEN req[h] ELSE Idle]
    BY DEF Crash
  <2> QED BY <1>0, <1>1, <2>1
<1>3. /\ profileMu' = None /\ lifecycleMu' = None /\ faults' \in 0..MaxFaults
      /\ UNCHANGED <<config, profiles, active>> /\ UNCHANGED engineVars /\ UNCHANGED backendLock
      /\ torn' \in BOOLEAN
      /\ torn' <=> (torn \/ \E h \in Handlers : req[h].pc \in {"index", "restore"})
  BY <1>0, FaultType DEF Crash
<1>4. Files' /\ Holders' /\ Bits'
  BY <1>0, <1>3 DEF Files, Holders, Bits, engineVars
<1>5. TypeOK'
  BY <1>2, <1>3, <1>4, TypesNext
<1>6. Locked'
  BY <1>2, <1>3, NoneAssumption DEF IInv, Locked, InProfile, InBackend
<1>7. \A h \in Handlers : Known(h)'
  BY <1>2 DEF IInv, Known, InBackend
<1>8. Agreed'
  BY <1>3 DEF IInv, Agreed
<1>9. Looked' /\ OneBackend'
  BY <1>2, <1>3 DEF IInv, Looked, OneBackend, Running, engineVars
<1> QED BY <1>5, <1>6, <1>7, <1>8, <1>9 DEF IInv

LEMMA StutterInv == ASSUME IInv, UNCHANGED vars PROVE IInv'
BY DEF IInv, vars, fileVars, engineVars, locks, TypeOK, Locked, Known, Saves, NewConfig, InBackend,
       Remembers, Agreed, Looked, Running, OneBackend

LEMMA StepInv == IInv /\ [Next]_vars => IInv'
<1> SUFFICES ASSUME IInv, [Next]_vars PROVE IInv'
  OBVIOUS
<1>1. ASSUME NEW h \in Handlers, Request(h) \/ KillAction(h) PROVE IInv'
  BY <1>1, RequestInv, KillActionInv
<1>2. ASSUME NEW h \in Handlers, Step(h) PROVE IInv'
  BY <1>2, LockLifecycleInv, LockProfileInv, SelectInv, WriteRuntimeInv, WriteIndexInv,
     RestoreInv, EditIndexInv, LockBackendInv, StopBackendInv, StopFailsInv,
     CheckBackendInv, LaunchBackendInv DEF Step
<1> QED BY <1>1, <1>2, EnginesInv, CrashInv, StutterInv DEF Next

---------------------------------------------------------------------------
(* Who waits for whom *)

\* Where the holder of lifecycleMu and of backend.lock may be.  The two
\* mutexes are not taken in one order: a start with a body holds lifecycleMu
\* at "profile", a select holds profileMu at "target".
Holds(h) ==
  /\ lifecycleMu = h =>
       \/ req[h].pc \in {"runtime", "index", "restore", "flock"} \cup InBackend
       \/ req[h].pc = "profile" /\ req[h].op = "start"
  /\ backendLock = h => req[h].pc \in InBackend

HInv == IInv /\ \A h \in Handlers : Holds(h)

\* Request h cannot go on before g lets go of a lock.
Waits(h, g) ==
  \/ req[h].pc = "lifecycle" /\ lifecycleMu = g
  \/ req[h].pc = "profile" /\ profileMu = g
  \/ /\ req[h].pc = "target" /\ lifecycleMu = g
     /\ req[h].arg \in DOMAIN profiles /\ req[h].arg # active
  \/ req[h].pc = "flock" /\ backendLock = g

\* A start that saves a configuration and a switch of computers, each with
\* the mutex the other waits for.
StartMeetsSelect(g, h) ==
  /\ req[g].op = "select" /\ req[g].pc = "target"  /\ Waits(g, h)
  /\ req[h].op = "start"  /\ req[h].pc = "profile" /\ Waits(h, g)

\* A set of requests that wait for each other holds such a pair.
OneCycle ==
  \A S \in (SUBSET Handlers) \ {{}} :
    (\A h \in S : \E g \in S : Waits(h, g)) => \E g, h \in S : StartMeetsSelect(g, h)

\* A step of request h, seen from the others.
LEMMA HoldsKept ==
  ASSUME HInv, NEW h \in Handlers,
         \A g \in Handlers : g # h => req'[g] = req[g],
         lifecycleMu' \in {lifecycleMu, h, None}, backendLock' \in {backendLock, h, None},
         Holds(h)'
  PROVE  \A g \in Handlers : Holds(g)'
BY NoneAssumption DEF HInv, Holds

LEMMA AnswerHolds ==
  ASSUME HInv, NEW h \in Handlers, Answer(h) PROVE \A g \in Handlers : Holds(g)'
<1>1. /\ req'[h].pc = "idle" /\ \A g \in Handlers : g # h => req'[g] = req[g]
  BY Types, AnswerFacts DEF HInv, IInv
<1>2. /\ lifecycleMu' \in {lifecycleMu, h, None} /\ lifecycleMu' # h
      /\ backendLock' \in {backendLock, h, None} /\ backendLock' # h
  BY NoneAssumption DEF Answer
<1> QED BY <1>1, <1>2, HoldsKept DEF Holds

LEMMA GotoHolds ==
  ASSUME HInv, NEW h \in Handlers, NEW l \in {"runtime", "index", "restore", "flock"} \cup InBackend,
         Goto(h, l), lifecycleMu' \in {lifecycleMu, h}, backendLock' = backendLock,
         req[h].pc \in InBackend => l \in InBackend
  PROVE  \A g \in Handlers : Holds(g)'
<1>1. req \in [Handlers -> Requests] /\ l \in Positions
  BY Types DEF HInv, IInv, Positions, InBackend
<1>2. req'[h].pc = l /\ \A g \in Handlers : g # h => req'[g] = req[g]
  BY <1>1, GotoFacts
<1>3. Holds(h)'
  BY <1>2 DEF HInv, Holds
<1> QED BY <1>2, <1>3, HoldsKept

LEMMA RequestHolds ==
  ASSUME HInv, NEW h \in Handlers, Request(h) PROVE \A g \in Handlers : Holds(g)'
<1>1. /\ req[h].pc = "idle" /\ UNCHANGED locks
      /\ \E r : req' = [req EXCEPT ![h] = r]
  BY DEF Request, Receive
<1>2. \A g \in Handlers : g # h => req'[g] = req[g]
  BY <1>1, Types DEF HInv, IInv
<1>3. Holds(h)'
  BY <1>1, NoneAssumption DEF HInv, Holds, InBackend, locks
<1> QED BY <1>1, <1>2, <1>3, HoldsKept DEF locks

LEMMA StepHolds ==
  ASSUME HInv, NEW h \in Handlers, Step(h) PROVE \A g \in Handlers : Holds(g)'
<1>0. req \in [Handlers -> Requests]
  BY Types DEF HInv, IInv
<1>1. CASE LockLifecycle(h)
  <2> DEFINE l == IF req[h].op = "start" /\ req[h].arg # None THEN "profile" ELSE "flock"
  <2>1. /\ Goto(h, l) /\ l \in Positions /\ lifecycleMu' = h /\ backendLock' = backendLock
        /\ req[h].pc = "lifecycle"
    BY <1>1 DEF LockLifecycle, Positions
  <2>2. /\ req'[h].pc = l /\ req'[h].op = req[h].op
        /\ \A g \in Handlers : g # h => req'[g] = req[g]
    BY <1>0, <2>1, GotoFacts
  <2>3. Holds(h)'
    BY <2>1, <2>2 DEF HInv, Holds, InBackend
  <2> QED BY <2>1, <2>2, <2>3, HoldsKept
<1>2. CASE LockProfile(h)
  <2> DEFINE l == CASE req[h].op \in {"put", "start"} -> "runtime"
                    [] req[h].op = "select" -> "target"
                    [] OTHER -> "edit"
  <2>1. /\ req[h].pc = "profile" /\ UNCHANGED <<lifecycleMu, backendLock>>
        /\ req[h].op = "start" => l = "runtime"
    BY <1>2 DEF LockProfile
  <2>2. req'[h].pc = l /\ \A g \in Handlers : g # h => req'[g] = req[g]
    BY <1>0, <1>2 DEF LockProfile, Requests
  <2>3. Holds(h)'
    BY <2>1, <2>2 DEF HInv, Holds, InBackend
  <2> QED BY <2>1, <2>2, <2>3, HoldsKept
<1>3. CASE LockBackend(h)
  <2> DEFINE l == IF req[h].op \in {"stop", "restart"} THEN "stop" ELSE "check"
  <2>1. UNCHANGED lifecycleMu /\ backendLock' = h /\ l \in InBackend
    BY <1>3 DEF LockBackend, InBackend
  <2>2. req'[h].pc = l /\ \A g \in Handlers : g # h => req'[g] = req[g]
    BY <1>0, <1>3 DEF LockBackend, Requests
  <2> QED BY <2>1, <2>2, HoldsKept DEF Holds
<1>4. CASE SelectAnswered(h) \/ Restore(h) \/ EditIndex(h) \/ StopFails(h) \/ LaunchBackend(h)
  BY <1>4, AnswerHolds DEF SelectAnswered, Restore, EditIndex, StopFails, LaunchBackend
<1>5. CASE SelectLock(h) \/ WriteRuntime(h) \/ WriteIndex(h)
  <2>1. CASE Answer(h)
    BY <2>1, AnswerHolds
  <2>2. ASSUME ~Answer(h)
        PROVE  /\ \E l \in {"runtime", "index", "restore", "flock"} : Goto(h, l)
               /\ lifecycleMu' \in {lifecycleMu, h} /\ backendLock' = backendLock
               /\ req[h].pc \notin InBackend
    BY <1>5, <2>2 DEF SelectLock, WriteRuntime, WriteIndex, InBackend, locks
  <2> QED BY <2>1, <2>2, GotoHolds
<1>6. CASE StopBackend(h) \/ CheckBackend(h)
  <2>1. CASE Answer(h)
    BY <2>1, AnswerHolds
  <2>2. ASSUME ~Answer(h)
        PROVE  (\E l \in InBackend : Goto(h, l)) /\ UNCHANGED locks
    BY <1>6, <2>2 DEF StopBackend, CheckBackend, InBackend
  <2> QED BY <2>1, <2>2, GotoHolds DEF locks
<1> QED BY <1>1, <1>2, <1>3, <1>4, <1>5, <1>6 DEF Step

LEMMA HoldsStep == HInv /\ [Next]_vars => HInv'
<1> SUFFICES ASSUME HInv, [Next]_vars PROVE \A h \in Handlers : Holds(h)'
  BY StepInv DEF HInv
<1>1. CASE Crash
  <2>1. \A h \in Handlers : req[h].pc \in InBackend => req'[h] = req[h]
    BY <1>1 DEF Crash, InBackend
  <2> QED BY <1>1, <2>1, NoneAssumption DEF HInv, Holds, Crash
<1>2. CASE EngineDies \/ StrayStarts \/ UNCHANGED vars
  BY <1>2 DEF HInv, Holds, EngineDies, StrayStarts, vars, locks
<1>3. ASSUME NEW h \in Handlers, KillAction(h) PROVE \A g \in Handlers : Holds(g)'
  BY <1>3, AnswerHolds DEF KillAction
<1> QED BY <1>1, <1>2, <1>3, RequestHolds, StepHolds DEF Next

\* Of two requests in a cycle, each holds a mutex and waits for the other's.
LEMMA OnlyCycle == HInv => OneCycle
<1> SUFFICES ASSUME HInv, NEW S \in SUBSET Handlers, S # {},
                    \A h \in S : \E g \in S : Waits(h, g)
             PROVE  \E g, h \in S : StartMeetsSelect(g, h)
  BY DEF OneCycle
<1>1. PICK f \in S, g \in S, h \in S, k \in S, m \in S :
        Waits(f, g) /\ Waits(g, h) /\ Waits(h, k) /\ Waits(k, m)
  OBVIOUS
<1>2. ASSUME NEW a \in S, NEW b \in S, NEW c \in S, Waits(a, b), Waits(b, c)
      PROVE  \/ req[b].pc = "target" /\ req[b].op = "select" /\ profileMu = b /\ lifecycleMu = c
             \/ req[b].pc = "profile" /\ req[b].op = "start" /\ lifecycleMu = b /\ profileMu = c
             \/ req[b].pc = "flock" /\ backendLock = c
  <2>1. b \in Handlers /\ Known(b) /\ Holds(b) /\ (req[b].pc \in InProfile <=> profileMu = b)
    BY DEF HInv, IInv, Locked
  <2>2. profileMu = b \/ lifecycleMu = b \/ backendLock = b
    BY <1>2 DEF Waits
  <2> QED BY <1>2, <2>1, <2>2 DEF Waits, Known, Holds, InProfile, InBackend
<1>3. \A a \in S : backendLock # a
  <2> SUFFICES ASSUME NEW a \in S, backendLock = a PROVE FALSE
    OBVIOUS
  <2>1. req[a].pc \in InBackend
    BY DEF HInv, Holds
  <2> QED BY <2>1 DEF Waits, InBackend
<1>4. /\ \/ req[g].pc = "target" /\ req[g].op = "select" /\ profileMu = g /\ lifecycleMu = h
         \/ req[g].pc = "profile" /\ req[g].op = "start" /\ lifecycleMu = g /\ profileMu = h
      /\ \/ req[h].pc = "target" /\ req[h].op = "select" /\ profileMu = h /\ lifecycleMu = k
         \/ req[h].pc = "profile" /\ req[h].op = "start" /\ lifecycleMu = h /\ profileMu = k
  <2>1. backendLock # h /\ backendLock # k
    BY <1>3
  <2> QED BY <1>1, <1>2, <2>1
<1>5. \A a \in S : lifecycleMu = a => req[a].pc # "target"
  BY DEF HInv, Holds, InBackend
<1>6. CASE req[g].pc = "target"
  <2>0. k = g /\ req[h].pc = "profile" /\ req[h].op = "start"
    BY <1>5, <1>4, <1>6
  <2>1. StartMeetsSelect(g, h)
    BY <1>1, <1>4, <1>6, <2>0 DEF StartMeetsSelect
  <2> QED BY <2>1
<1>7. CASE req[g].pc = "profile"
  <2>0. k = g /\ req[h].pc = "target" /\ req[h].op = "select"
    <3>1. CASE req[h].pc = "target"
      BY <1>4, <1>7, <3>1
    <3>2. CASE req[h].pc = "profile"
      \* Then h = g holds profileMu at "profile".
      <4>1. profileMu = h /\ req[h].pc \notin InProfile
        BY <1>4, <1>7, <3>2 DEF InProfile
      <4> QED BY <4>1 DEF HInv, IInv, Locked
    <3> QED BY <1>4, <3>1, <3>2
  <2>1. StartMeetsSelect(h, g)
    BY <1>1, <1>4, <1>7, <2>0 DEF StartMeetsSelect
  <2> QED BY <2>1
<1> QED BY <1>4, <1>6, <1>7

---------------------------------------------------------------------------
(* Results *)

\* The inductive invariant holds in every reachable state.
THEOREM ControlInvariant == Spec => []IInv
BY InitInv, StepInv, PTL DEF Spec

\* The files, locks, requests and engine flags of the web controller keep
\* their types, for any number of concurrent requests and failures.
THEOREM ControlTypes == Spec => []TypeOK
<1>1. IInv => TypeOK
  BY DEF IInv
<1> QED BY <1>1, ControlInvariant, PTL

\* config.json is the active profile's configuration whenever no save is in
\* progress, and the active profile exists: saveConfig and apiProfiles write
\* both files under profileMu and restore the first when the second fails.
THEOREM FilesAlwaysAgree == Spec => []FilesAgree
<1>1. IInv => FilesAgree
  <2> SUFFICES ASSUME IInv, profileMu = None, ~torn PROVE config = profiles[active]
    BY DEF IInv, Agreed, FilesAgree
  <2>1. \A h \in Handlers : req[h].pc \notin {"index", "restore"}
    BY NoneAssumption DEF IInv, Locked, InProfile
  <2> QED BY <2>1 DEF IInv, Agreed
<1> QED BY <1>1, ControlInvariant, PTL

\* The TUN engine and the eBPF daemon run together only when one of them came
\* on without a look at the other, whichever requests and command lines start
\* them and whoever is killed: backendAction looks at both under backend.lock
\* and launches under the same hold.  What gets past it is named by blind: a
\* failed status query of the same action, and a start that outlives its
\* killed action, whose lock is then free.
THEOREM OneBackendOnly == Spec => []OneBackend
<1>1. IInv => OneBackend
  BY DEF IInv
<1> QED BY <1>1, ControlInvariant, PTL

\* However many requests overlap, the only way in which they can wait for
\* each other is a start with a body (lifecycleMu, then profileMu) against a
\* switch of computers (profileMu, then lifecycleMu); no other combination of
\* requests and command lines deadlocks, whatever fails and whenever the web
\* server is killed.
THEOREM OneLockCycle == Spec => []OneCycle
<1>1. Init => HInv
  BY InitInv, NoneAssumption DEF Init, HInv, Holds
<1> QED BY <1>1, HoldsStep, OnlyCycle, PTL DEF Spec
=============================================================================
