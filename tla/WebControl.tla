----------------------------- MODULE WebControl -----------------------------
(***************************************************************************)
(* The web controller's requests (cmd/tun2proxy-web: main.go, profiles.go, *)
(* backend.go) and the command line that shares the backend with them.     *)
(*                                                                         *)
(* Go serves every request in its own goroutine: here a handler.  Two      *)
(* mutexes order them, profileMu (config.json with profiles.json) and      *)
(* lifecycleMu (start, stop, switch); the backend itself is started and    *)
(* stopped by a child process under the flock backend.lock, which          *)
(* tun2proxyctl takes too, without the mutexes.  A handler with op "auto"  *)
(* is such a command line (service.sh runs auto-start at boot, beside the  *)
(* web server).  Every file write and every lock is a step of its own.     *)
(* The server and a child may each be killed alone, and what a killed      *)
(* child was starting may still come up, without its lock.                 *)
(***************************************************************************)
EXTENDS FiniteSets, Integers, Functions

CONSTANTS
  Handlers,      \* requests in progress at a time
  Ids,           \* profile identifiers
  TunConfigs, EbpfConfigs,   \* configurations by backend
  None,
  MaxFaults      \* bound on failing writes and queries, crashes and kills

ASSUME ConfigAssumption == TunConfigs \cap EbpfConfigs = {}
ASSUME NoneAssumption == None \notin Handlers \cup Ids \cup TunConfigs \cup EbpfConfigs
ASSUME FaultAssumption == MaxFaults \in Nat

VARIABLES
  config,     \* config.json
  profiles,   \* profiles.json: configuration of each saved profile
  active,     \* profiles.json: activeId
  profileMu, lifecycleMu, backendLock,   \* holders
  req,        \* of each handler: where it is, its request and argument, and
              \* the configuration it has read
  on,         \* the engines that are on
  stray,      \* starts in progress whose action was killed
  blind,      \* engines that came on without a look at the other one: behind
              \* a failed status query, or by a stray start
  torn,       \* the last save was cut in two by a second failure
  faults      \* bound counter

locks      == <<profileMu, lifecycleMu, backendLock>>
fileVars   == <<config, profiles, active, torn>>
engineVars == <<on, stray, blind>>
vars == <<fileVars, engineVars, locks, req, faults>>

Configs == TunConfigs \cup EbpfConfigs
Engines == {"tun", "ebpf"}

backendName(c) == IF c \in EbpfConfigs THEN "ebpf" ELSE "tun"

Idle == [pc |-> "idle", op |-> "none", arg |-> None, old |-> None]

\* getProcessStatus: both engines are looked at.
Running == on # {}

Fault == faults < MaxFaults /\ faults' = faults + 1

\* The status query of the eBPF daemon fails, which reads as "not running".
Overlooked == on = {"ebpf"} /\ Fault

\* The engines are now those of e, and those of b came on without a look.
Engine(e, b) == on' = e /\ blind' = (blind \cup b) \cap e

Goto(h, l) == req' = [req EXCEPT ![h].pc = l]

\* The handler answers its request: deferred unlocks run.
Answer(h) ==
  /\ req' = [req EXCEPT ![h] = Idle]
  /\ profileMu'   = IF profileMu = h THEN None ELSE profileMu
  /\ lifecycleMu' = IF lifecycleMu = h THEN None ELSE lifecycleMu
  /\ backendLock' = IF backendLock = h THEN None ELSE backendLock

---------------------------------------------------------------------------
(* Requests and locks *)

Receive(h, o, a) ==
  /\ req[h].pc = "idle"
  /\ req' = [req EXCEPT ![h] =
               [pc  |-> IF o \in {"start", "stop", "restart"} THEN "lifecycle"
                        ELSE IF o = "auto" THEN "flock" ELSE "profile",
                op  |-> o, arg |-> a, old |-> None]]
  /\ UNCHANGED <<fileVars, engineVars, locks, faults>>

\* PUT /api/config; POST /api/start with or without a body, /api/stop,
\* /api/restart; the profile actions; a command line.
Request(h) ==
  \/ \E c \in Configs : Receive(h, "put", c)
  \/ \E c \in Configs \cup {None} : Receive(h, "start", c)
  \/ \E o \in {"stop", "restart", "auto"} : Receive(h, o, None)
  \/ \E o \in {"select", "create", "clone", "delete"}, i \in Ids : Receive(h, o, i)

\* Mutant: a start without a body is saved too.
LockLifecycleSaves(h) ==
  /\ req[h].pc = "lifecycle" /\ lifecycleMu = None
  /\ lifecycleMu' = h
  /\ Goto(h, IF req[h].op = "start" THEN "profile" ELSE "flock")
  /\ UNCHANGED <<fileVars, engineVars, profileMu, backendLock, faults>>

LockLifecycle(h) ==
  /\ req[h].pc = "lifecycle" /\ lifecycleMu = None
  /\ lifecycleMu' = h
  /\ Goto(h, IF req[h].op = "start" /\ req[h].arg # None THEN "profile" ELSE "flock")
  /\ UNCHANGED <<fileVars, engineVars, profileMu, backendLock, faults>>

\* saveConfig and apiProfiles take profileMu and read the files, which only
\* holders of profileMu write.
LockProfile(h) ==
  /\ req[h].pc = "profile" /\ profileMu = None
  /\ profileMu' = h
  /\ req' = [req EXCEPT
       ![h].old = IF req[h].op \in {"put", "start", "select"} THEN config ELSE None,
       ![h].pc  = CASE req[h].op \in {"put", "start"} -> "runtime"
                    [] req[h].op = "select" -> "target"
                    [] OTHER -> "edit"]
  /\ UNCHANGED <<fileVars, engineVars, lifecycleMu, backendLock, faults>>

\* select of an unknown or of the active profile is answered at once.
SelectAnswered(h) ==
  /\ req[h].pc = "target"
  /\ req[h].arg \notin DOMAIN profiles \/ req[h].arg = active
  /\ Answer(h)
  /\ UNCHANGED <<fileVars, engineVars, faults>>

\* Switching waits for lifecycleMu with profileMu held, and is refused while
\* a backend is seen to run.
SelectLock(h) ==
  /\ req[h].pc = "target"
  /\ req[h].arg \in DOMAIN profiles /\ req[h].arg # active
  /\ lifecycleMu = None
  /\ \/ Running /\ Answer(h) /\ UNCHANGED faults
     \/ /\ (~Running /\ UNCHANGED faults) \/ Overlooked
        /\ lifecycleMu' = h /\ Goto(h, "runtime")
        /\ UNCHANGED <<profileMu, backendLock>>
  /\ UNCHANGED <<fileVars, engineVars>>

---------------------------------------------------------------------------
(* The two files *)

\* saveRuntimeConfig(config.json)
WriteRuntime(h) ==
  /\ req[h].pc = "runtime"
  /\ \/ /\ config' = IF req[h].op = "select" THEN profiles[req[h].arg] ELSE req[h].arg
        /\ Goto(h, "index") /\ UNCHANGED <<locks, faults>>
     \/ Fault /\ Answer(h) /\ UNCHANGED config
  /\ UNCHANGED <<profiles, active, torn, engineVars>>

\* writeProfiles(profiles.json) after it; "start" goes on to the backend.
WriteIndex(h) ==
  /\ req[h].pc = "index"
  /\ \/ /\ active' = IF req[h].op = "select" THEN req[h].arg ELSE active
        /\ profiles' = IF req[h].op = "select" THEN profiles
                       ELSE [profiles EXCEPT ![active] = req[h].arg]
        /\ torn' = FALSE
        /\ UNCHANGED faults
        /\ IF req[h].op = "start"
           THEN Goto(h, "flock") /\ profileMu' = None /\ UNCHANGED <<lifecycleMu, backendLock>>
           ELSE Answer(h)
     \/ Fault /\ Goto(h, "restore") /\ UNCHANGED <<profiles, active, torn, locks>>
  /\ UNCHANGED <<config, engineVars>>

\* Mutant: config.json is not written back.
RestoreNothing(h) ==
  /\ req[h].pc = "restore"
  /\ Answer(h)
  /\ UNCHANGED <<fileVars, engineVars, faults>>

\* The old configuration is written back; nobody looks whether that worked.
Restore(h) ==
  /\ req[h].pc = "restore"
  /\ \/ config' = req[h].old /\ UNCHANGED <<torn, faults>>
     \/ Fault /\ torn' = TRUE /\ UNCHANGED config
  /\ Answer(h)
  /\ UNCHANGED <<profiles, active, engineVars>>

\* create, clone and delete write the index only.
EditIndex(h) ==
  /\ req[h].pc = "edit"
  /\ LET o == req[h].op  a == req[h].arg
         With(c) == [i \in DOMAIN profiles \cup {a} |-> IF i = a THEN c ELSE profiles[i]]
     IN \/ o = "create" /\ a \notin DOMAIN profiles /\ \E c \in TunConfigs : profiles' = With(c)
        \/ o = "clone" /\ a \notin DOMAIN profiles /\ profiles' = With(profiles[active])
        \/ /\ o = "delete" /\ a # active /\ Cardinality(DOMAIN profiles) > 1
           /\ profiles' = Restrict(profiles, DOMAIN profiles \ {a})
        \/ UNCHANGED profiles      \* refused, or the write fails
  /\ Answer(h)
  /\ UNCHANGED <<config, active, torn, engineVars, faults>>

---------------------------------------------------------------------------
(* backendAction, under backend.lock *)

LockBackend(h) ==
  /\ req[h].pc = "flock" /\ backendLock = None
  /\ backendLock' = h
  /\ req' = [req EXCEPT ![h].old = config, ![h].arg = None,
                        ![h].pc = IF req[h].op \in {"stop", "restart"} THEN "stop"
                                  ELSE "check"]
  /\ UNCHANGED <<fileVars, engineVars, profileMu, lifecycleMu, faults>>

\* The eBPF daemon is stopped when the status query says it is loaded, then
\* the TUN engine.
StopBackend(h) ==
  /\ req[h].pc = "stop"
  /\ \/ Engine({}, {}) /\ UNCHANGED faults
     \/ "ebpf" \in on /\ Fault /\ Engine({"ebpf"}, {})
  /\ IF req[h].op = "restart" THEN Goto(h, "check") /\ UNCHANGED locks ELSE Answer(h)
  /\ UNCHANGED <<fileVars, stray>>

\* An error ends the request; engines may have been stopped before it.
StopFails(h) ==
  /\ req[h].pc = "stop"
  /\ Fault
  /\ \E e \in SUBSET on : Engine(e, {})
  /\ Answer(h)
  /\ UNCHANGED <<fileVars, stray>>

\* Mutant: only the TUN engine is looked for.
CheckBackendTun(h) ==
  /\ req[h].pc = "check"
  /\ \/ "tun" \in on /\ Answer(h)
     \/ "tun" \notin on /\ Goto(h, "launch") /\ UNCHANGED locks
  /\ UNCHANGED <<fileVars, engineVars, faults>>

\* auto-start of a disabled configuration does nothing; a running backend is
\* left alone, whichever it is, unless it is overlooked.
CheckBackend(h) ==
  /\ req[h].pc = "check"
  /\ \/ (Running \/ req[h].op = "auto") /\ Answer(h) /\ UNCHANGED faults
     \/ ~Running /\ Goto(h, "launch") /\ UNCHANGED <<locks, faults>>
     \/ Overlooked /\ Goto(h, "blind") /\ UNCHANGED locks
  /\ UNCHANGED <<fileVars, engineVars>>

\* The engine that the action of h is to start.
Wanted(h) == backendName(req[h].old)

\* The backend of the configuration that was read is started; a failed start
\* leaves its engine off (a TUN engine that was on may be lost with it).
LaunchBackend(h) ==
  /\ req[h].pc \in {"launch", "blind"}
  /\ \E e \in {on, on \ ({"tun"} \cap {Wanted(h)}), on \cup {Wanted(h)}} :
       Engine(e, IF req[h].pc = "blind" THEN {Wanted(h)} ELSE {})
  /\ Answer(h)
  /\ UNCHANGED <<fileVars, stray, faults>>

\* The process of the backend action is killed, alone: its lock is free (the
\* descriptor is close-on-exec) and its request fails, while the script or
\* daemon it was starting may go on.  Of a stop it may have begun nothing is
\* left but engines that end.
KillAction(h) ==
  /\ req[h].pc \in {"flock", "stop", "check", "launch", "blind"}
  /\ Fault
  /\ stray' \in {stray, stray \cup (IF req[h].pc \in {"launch", "blind"}
                                    THEN {Wanted(h)} ELSE {})}
  /\ Answer(h)
  /\ UNCHANGED <<fileVars, on, blind>>

\* A stray start comes to its end, with or without its engine.
StrayStarts ==
  /\ \E b \in stray :
       /\ stray' = stray \ {b}
       /\ \/ b \notin on /\ Engine(on \cup {b}, {b})
          \/ UNCHANGED <<on, blind>>
  /\ UNCHANGED <<fileVars, locks, req, faults>>

\* An engine ends by itself.
EngineDies ==
  /\ \E b \in on : Engine(on \ {b}, {})
  /\ UNCHANGED <<fileVars, stray, locks, req, faults>>

\* The web server is killed: its mutexes are gone, a backend child it has
\* started goes on, and a save between its two writes stays cut.
Crash ==
  /\ Fault
  /\ LET child == {h \in Handlers :
                     req[h].pc \in {"flock", "stop", "check", "launch", "blind"}}
     IN \E lost \in SUBSET {h \in child : req[h].pc = "flock"} :
          req' = [h \in Handlers |-> IF h \in child \ lost THEN req[h] ELSE Idle]
  /\ profileMu' = None /\ lifecycleMu' = None
  /\ torn' = (torn \/ \E h \in Handlers : req[h].pc \in {"index", "restore"})
  /\ UNCHANGED <<config, profiles, active, engineVars, backendLock>>

---------------------------------------------------------------------------

Init ==
  /\ config \in Configs
  /\ \E i \in Ids : active = i /\ profiles = [j \in {i} |-> config]
  /\ profileMu = None /\ lifecycleMu = None /\ backendLock = None
  /\ req = [h \in Handlers |-> Idle]
  /\ on = {} /\ stray = {} /\ blind = {}
  /\ torn = FALSE /\ faults = 0

Step(h) ==
  \/ LockLifecycle(h) \/ LockProfile(h) \/ SelectAnswered(h) \/ SelectLock(h)
  \/ WriteRuntime(h) \/ WriteIndex(h) \/ Restore(h) \/ EditIndex(h)
  \/ LockBackend(h) \/ StopBackend(h) \/ StopFails(h) \/ CheckBackend(h)
  \/ LaunchBackend(h)

Next == \/ \E h \in Handlers : Request(h) \/ Step(h) \/ KillAction(h)
        \/ StrayStarts \/ EngineDies
        \/ Crash

Spec == Init /\ [][Next]_vars

\* Go runs every goroutine, a mutex is handed over in turn, and so is flock.
FairSpec == Spec /\ \A h \in Handlers : SF_vars(Step(h))

---------------------------------------------------------------------------
(* Properties *)

\* The values of the files, the locks and the requests.
TypeOK ==
  /\ config \in Configs
  /\ profiles \in UNION {[S -> Configs] : S \in SUBSET Ids} /\ active \in Ids
  /\ \A l \in {profileMu, lifecycleMu, backendLock} : l \in Handlers \cup {None}
  /\ req \in [Handlers ->
       [pc  : {"idle", "lifecycle", "profile", "target", "runtime", "index",
               "restore", "edit", "flock", "stop", "check", "launch", "blind"},
        op  : {"none", "put", "start", "stop", "restart", "auto",
               "select", "create", "clone", "delete"},
        arg : Configs \cup Ids \cup {None},
        old : Configs \cup {None}]]
  /\ on \subseteq Engines /\ stray \subseteq Engines /\ blind \subseteq on
  /\ torn \in BOOLEAN
  /\ faults \in 0..MaxFaults

\* Outside a save, config.json is the configuration of the active profile,
\* which is always among the saved ones: requests may interleave and one
\* write may fail; only a failing restore or a crash inside a save parts the
\* two files, and the next save joins them again.
FilesAgree ==
  /\ active \in DOMAIN profiles
  /\ profileMu = None /\ ~torn => config = profiles[active]

\* TUN and eBPF are on together only if one of them came on without a look
\* at the other: its own action's status query failed, or its start outlived
\* its killed action.  No other order of requests, command lines, crashes and
\* kills gets past the check under backend.lock, and once such an engine has
\* ended the promise is whole again.
OneBackend == Engines \subseteq on => blind # {}

\* "Stop the running proxy before switching computers": the active profile
\* never changes while a backend is on.
SwitchOnlyWhenStopped == [][active' # active => ~Running]_vars

\* The documented routine, stop, switch the computer, save and start: every
\* request is answered in the end, however requests overlap.
Answered == \A h \in Handlers : req[h] # Idle ~> req[h] = Idle
=============================================================================
