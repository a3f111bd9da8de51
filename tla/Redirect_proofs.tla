-------------------------- MODULE Redirect_proofs --------------------------
(***************************************************************************)
(* Proofs about the redirect backend, for any number of client sockets,    *)
(* ports, relay slots and lives of the daemon: the types with the slot     *)
(* limit, OwnDestination, MapsOutliveResolvers and RedirectWhileServing.   *)
(*                                                                         *)
(* OwnDestination is about what a handler has read; the invariant says in  *)
(* advance what it can read.  As long as sockops sees every close, a       *)
(* record belongs to a live socket that still has the record's port        *)
(* (Records), and no two live sockets share a port (Connections).          *)
(***************************************************************************)
EXTENDS Redirect, FiniteSetTheorems, TLAPS

Serving == {"loaded", "running", "sweeping", "deleting", "disabled",
            "detaching", "detached"}

\* What the position of daemon.Run says about listener, hooks, maps, relay.
Lifecycle ==
  /\ run \in Serving => listening
  /\ run = "loaded" => ~enabled
  /\ run \in {"detaching", "detached", "draining"} => "connect" \notin links
  /\ run = "waiting" => "connect" \notin links \/ ~enabled
  /\ run = "down" => links = {} /\ \A p \in Ports : flow[p] = None
  /\ run # "down" => maps
  /\ run \in {"down", "dying"} => serve = "off" /\ Active = {}

\* Where a connection can be.  A socket waits in the backlog once, before its
\* only handler begins.
Connections ==
  /\ \A s \in Socks : sock[s] \in {"sent", "open", "closed"} => port[s] \in Ports
  /\ \A s, t \in Live : port[s] = port[t] => s = t
  /\ \A s \in Socks : handler[s] # "none" => sock[s] \in {"open", "closed"}
  /\ \A i \in 1..Len(backlog) : /\ handler[backlog[i]] = "none"
                                /\ sock[backlog[i]] \in {"open", "closed"}
  /\ \A i, j \in 1..Len(backlog) : backlog[i] = backlog[j] => i = j
  /\ \A s \in Socks : got[s] # None => handler[s] \in {"consume", "relay"}

\* A record belongs to the live socket that has its port.
Records ==
  "sockops" \in links =>
    \A p \in Ports : flow[p] # None =>
       /\ flow[p].cookie \in Live \cap stored
       /\ port[flow[p].cookie] = p

IInv == TypeOK /\ Lifecycle /\ Connections /\ Records /\ OwnDestination

---------------------------------------------------------------------------
(* The slots of the relay *)

LEMMA ActiveFinite == IsFiniteSet(Active) /\ Cardinality(Active) \in Nat
<1>1. IsFiniteSet(Active)
  BY SockAssumption, FS_Subset DEF Active
<1> QED BY <1>1, FS_CardinalityType

\* Handlers end, or stay where they are.
LEMMA SlotsKept ==
  ASSUME Cardinality(Active) <= MaxConnections, Active' \subseteq Active
  PROVE  Cardinality(Active)' <= MaxConnections
<1>1. IsFiniteSet(Active') /\ Cardinality(Active') \in Nat
      /\ Cardinality(Active') <= Cardinality(Active)
  BY ActiveFinite, FS_Subset, FS_CardinalityType
<1> QED BY <1>1, ActiveFinite, LimitAssumption

\* One handler begins.
LEMMA SlotTaken ==
  ASSUME Cardinality(Active) < MaxConnections, NEW s, Active' \subseteq Active \cup {s}
  PROVE  Cardinality(Active)' <= MaxConnections
<1> DEFINE A == Active \cup {s}
<1>1. IsFiniteSet(A) /\ Cardinality(A) <= Cardinality(Active) + 1 /\ Cardinality(A) \in Nat
  BY ActiveFinite, FS_AddElement, FS_CardinalityType
<1>2. IsFiniteSet(Active') /\ Cardinality(Active') \in Nat
      /\ Cardinality(Active') <= Cardinality(A)
  BY <1>1, FS_Subset, FS_CardinalityType
<1> QED BY <1>1, <1>2, ActiveFinite, LimitAssumption

LEMMA SameHandlers == handler' = handler => Active' = Active
BY DEF Active

LEMMA SameSocks == sock' = sock => Live' = Live
BY DEF Live

---------------------------------------------------------------------------

LEMMA InitInv == Init => IInv
<1> SUFFICES ASSUME Init PROVE IInv
  OBVIOUS
<1>1. Active = {} /\ Live = {}
  BY DEF Init, Active, Live
<1>2. TypeOK
  <2>1. Cardinality(Active) <= MaxConnections
    BY <1>1, FS_EmptySet, LimitAssumption
  <2>2. starts \in 0..MaxStarts
    BY LimitAssumption DEF Init
  <2>3. flow \in [Ports -> Value \cup {None}] /\ backlog \in Seq(Socks)
    BY DEF Init
  <2> QED BY <2>1, <2>2, <2>3 DEF Init, TypeOK
<1>3. Lifecycle /\ Connections /\ Records /\ OwnDestination
  BY <1>1 DEF Init, Lifecycle, Connections, Records, OwnDestination, Serving
<1> QED BY <1>2, <1>3 DEF IInv

---------------------------------------------------------------------------
(* Types *)

LEMMA FlowTypes ==
  ASSUME TypeOK, NEW p
  PROVE  /\ [flow EXCEPT ![p] = None] \in [Ports -> Value \cup {None}]
         /\ p \in Ports /\ flow[p] # None =>
              /\ flow[p] \in Value /\ flow[p].cookie \in Socks /\ flow[p].age \in 0..2
         /\ \A s \in Socks : [flow EXCEPT ![p] = [cookie |-> s, age |-> 0]]
                                \in [Ports -> Value \cup {None}]
<1>1. flow \in [Ports -> Value \cup {None}]
  BY DEF TypeOK
<1>2. [flow EXCEPT ![p] = None] \in [Ports -> Value \cup {None}]
  BY <1>1
<1>3. ASSUME p \in Ports, flow[p] # None
      PROVE  flow[p] \in Value /\ flow[p].cookie \in Socks /\ flow[p].age \in 0..2
  BY <1>1, <1>3 DEF Value
<1>4. ASSUME NEW s \in Socks
      PROVE  [flow EXCEPT ![p] = [cookie |-> s, age |-> 0]] \in [Ports -> Value \cup {None}]
  <2>1. [cookie |-> s, age |-> 0] \in Value
    BY DEF Value
  <2> QED BY <1>1, <2>1
<1> QED BY <1>2, <1>3, <1>4

LEMMA EmptyBacklog == <<>> \in Seq(Socks)
OBVIOUS

\* The steps of the kernel.
LEMMA KernelTypes == IInv /\ Kernel => TypeOK'
<1> SUFFICES ASSUME IInv, Kernel PROVE TypeOK'
  OBVIOUS
<1>0. TypeOK
  BY DEF IInv
<1>a. ASSUME handler' = handler PROVE Cardinality(Active)' <= MaxConnections
  BY <1>0, <1>a, SameHandlers, SlotsKept DEF TypeOK
<1>1. CASE \E s \in Socks : Connect(s)
  BY <1>0, <1>1, <1>a DEF TypeOK, Connect, policyVars, relayVars
<1>2. CASE \E s \in Socks : Publish(s)
  <2>1. flow' \in [Ports -> Value \cup {None}]
    BY <1>0, <1>2, FlowTypes DEF Publish, TypeOK
  <2> QED BY <1>0, <1>2, <2>1, <1>a DEF TypeOK, Publish, policyVars, relayVars
<1>3. CASE \E s \in Socks : Establish(s)
  <2>1. flow' \in [Ports -> Value \cup {None}]
    BY <1>0, <1>3, FlowTypes DEF Establish, Unpublish, Delete, TypeOK
  <2>2. backlog' \in Seq(Socks)
    <3>1. \A s \in Socks : Append(backlog, s) \in Seq(Socks)
      BY <1>0 DEF TypeOK
    <3>2. backlog' = backlog \/ \E s \in Socks : backlog' = Append(backlog, s)
      BY <1>3 DEF Establish
    <3>3. backlog \in Seq(Socks)
      BY <1>0 DEF TypeOK
    <3> QED BY <3>1, <3>2, <3>3, Zenon
  <2> QED BY <1>0, <1>3, <2>1, <2>2, <1>a DEF TypeOK, Establish, policyVars
<1>4. CASE \E s \in Socks : ClientClose(s)
  <2>1. flow' \in [Ports -> Value \cup {None}]
    BY <1>0, <1>4, FlowTypes DEF ClientClose, Unpublish, Delete, TypeOK
  <2> QED BY <1>0, <1>4, <2>1, <1>a DEF TypeOK, ClientClose, policyVars, relayVars
<1>5. CASE \E p \in Ports : Evict(p)
  <2>1. flow' \in [Ports -> Value \cup {None}]
    BY <1>0, <1>5, FlowTypes DEF Evict, Delete
  <2> QED BY <1>0, <1>5, <2>1, <1>a DEF TypeOK, Evict, policyVars, relayVars, clientVars
<1>6. CASE \E p \in Ports : Age(p)
  <2>1. flow' \in [Ports -> Value \cup {None}]
    BY <1>0, <1>6, FlowTypes DEF Age, Value, TypeOK
  <2> QED BY <1>0, <1>6, <2>1, <1>a DEF TypeOK, Age, policyVars, relayVars, clientVars
<1>7. CASE Lapse
  BY <1>0, <1>7, <1>a DEF TypeOK, Lapse, mapVars, relayVars, clientVars
<1> QED BY <1>1, <1>2, <1>3, <1>4, <1>5, <1>6, <1>7 DEF Kernel

\* The steps of the relay: an accepted connection takes a free slot.
LEMMA RelayTypes == IInv /\ Relay => TypeOK'
<1> SUFFICES ASSUME IInv, Relay PROVE TypeOK'
  OBVIOUS
<1>0. TypeOK
  BY DEF IInv
<1>1. CASE Accept
  <2> DEFINE s == Head(backlog)
  <2>1. s \in Socks /\ backlog' \in Seq(Socks)
    BY <1>0, <1>1 DEF Accept, TypeOK
  <2>2. handler' \in [Socks -> {"none", "lookup", "consume", "relay", "done"}]
    BY <1>0, <1>1, <2>1 DEF Accept, TypeOK
  <2>3. Cardinality(Active)' <= MaxConnections
    <3>1. CASE Cardinality(Active) < MaxConnections
      <4>1. Active' \subseteq Active \cup {s}
        BY <1>0, <1>1, <2>1 DEF Accept, Active, TypeOK
      <4> QED BY <3>1, <4>1, SlotTaken
    <3>2. CASE ~(Cardinality(Active) < MaxConnections)
      <4>1. handler' = [handler EXCEPT ![s] = "done"]
        BY <1>1, <3>2 DEF Accept
      <4>2. Active' \subseteq Active
        BY <1>0, <2>1, <4>1 DEF Active, TypeOK
      <4> QED BY <1>0, <4>2, SlotsKept DEF TypeOK
    <3> QED BY <3>1, <3>2
  <2> QED BY <1>0, <1>1, <2>1, <2>2, <2>3
          DEF TypeOK, Accept, mapVars, policyVars, clientVars
<1>2. CASE AcceptFails
  <2>1. Cardinality(Active)' <= MaxConnections
    BY <1>0, <1>2, SameHandlers, SlotsKept DEF TypeOK, AcceptFails
  <2> QED BY <1>0, <1>2, <2>1 DEF TypeOK, AcceptFails, mapVars, policyVars, clientVars
<1>3. ASSUME NEW s \in Socks, Lookup(s) PROVE TypeOK'
  <2>1. Active' \subseteq Active
    BY <1>0, <1>3 DEF Active, Lookup, TypeOK
  <2>2. Cardinality(Active)' <= MaxConnections
    BY <1>0, <2>1, SlotsKept DEF TypeOK
  <2>3. port[s] \in Ports
    BY <1>3 DEF IInv, Connections, Lookup
  <2>4. got' \in [Socks -> Socks \cup {None}]
    BY <1>0, <1>3, <2>3, FlowTypes DEF TypeOK, Lookup
  <2>5. handler' \in [Socks -> {"none", "lookup", "consume", "relay", "done"}]
    BY <1>0, <1>3 DEF Lookup, TypeOK
  <2> QED BY <1>0, <1>3, <2>2, <2>4, <2>5
          DEF TypeOK, Lookup, mapVars, policyVars, clientVars
<1>4. ASSUME NEW s \in Socks, Consume(s) PROVE TypeOK'
  <2>1. Active' \subseteq Active
    BY <1>0, <1>4 DEF Active, Consume, TypeOK
  <2>2. Cardinality(Active)' <= MaxConnections
    BY <1>0, <2>1, SlotsKept DEF TypeOK
  <2>3. flow' \in [Ports -> Value \cup {None}]
    BY <1>0, <1>4, FlowTypes DEF Consume, Delete
  <2> QED BY <1>0, <1>4, <2>2, <2>3 DEF TypeOK, Consume, policyVars, clientVars
<1>5. ASSUME NEW s \in Socks, RelayEnds(s) PROVE TypeOK'
  <2>1. Active' \subseteq Active
    BY <1>0, <1>5 DEF Active, RelayEnds, TypeOK
  <2>2. Cardinality(Active)' <= MaxConnections
    BY <1>0, <2>1, SlotsKept DEF TypeOK
  <2> QED BY <1>0, <1>5, <2>2 DEF TypeOK, RelayEnds, mapVars, policyVars, clientVars
<1> QED BY <1>1, <1>2, <1>3, <1>4, <1>5 DEF Relay, Resolving

\* The steps of the daemon, and its end.
LEMMA DaemonTypes == IInv /\ (Daemon \/ Shutdown \/ Crash) => TypeOK'
<1> SUFFICES ASSUME IInv, Daemon \/ Shutdown \/ Crash PROVE TypeOK'
  OBVIOUS
<1>0. TypeOK
  BY DEF IInv
<1>a. ASSUME handler' = handler PROVE Cardinality(Active)' <= MaxConnections
  BY <1>0, <1>a, SameHandlers, SlotsKept DEF TypeOK
<1>1. CASE Start
  <2>1. starts' \in 0..MaxStarts
    BY <1>0, <1>1, LimitAssumption DEF TypeOK, Start
  <2> QED BY <1>0, <1>1, <1>a, <2>1 DEF TypeOK, Start, Goto, clientVars
<1>2. CASE Enable \/ Heartbeat
  BY <1>0, <1>2, <1>a DEF TypeOK, Enable, Heartbeat, Goto, mapVars, relayVars, clientVars
<1>3. CASE EnableFails \/ CloseListener
  BY <1>0, <1>3, <1>a, EmptyBacklog DEF TypeOK, EnableFails, CloseListener, Goto, mapVars, policyVars, clientVars
<1>4. CASE \E p \in Ports : SweepFinds(p)
  <2>1. swept' \in [port : Ports, cookie : Socks] \cup {None}
    BY <1>0, <1>4, FlowTypes DEF SweepFinds
  <2> QED BY <1>0, <1>4, <2>1, <1>a DEF TypeOK, SweepFinds, Goto, mapVars, policyVars,
             relayVars, clientVars
<1>5. CASE SweepChecks
  BY <1>0, <1>5, <1>a DEF TypeOK, SweepChecks, mapVars, policyVars, relayVars, clientVars
<1>6. CASE SweepDeletes
  <2>1. flow' \in [Ports -> Value \cup {None}]
    BY <1>0, <1>6, FlowTypes DEF SweepDeletes, Delete
  <2> QED BY <1>0, <1>6, <2>1, <1>a DEF TypeOK, SweepDeletes, Goto, policyVars, relayVars,
             clientVars
<1>7. CASE Disable
  BY <1>0, <1>7, <1>a DEF TypeOK, Disable, Goto, mapVars, policyVars, relayVars, clientVars
<1>8. CASE Detach \/ DetachSockops
  BY <1>0, <1>8, <1>a DEF TypeOK, Detach, DetachSockops, Goto, policyVars, relayVars, clientVars
<1>9. CASE Cancel
  BY <1>0, <1>9, <1>a DEF TypeOK, Cancel, Goto, mapVars, policyVars, relayVars, clientVars
<1>10. CASE Finish \/ CrashDetaches
  BY <1>0, <1>10, <1>a DEF TypeOK, Finish, CrashDetaches, Release, relayVars, clientVars
<1>11. CASE Crash
  <2>1. Active' = {}
    BY <1>11 DEF Active, Crash
  <2>2. Cardinality(Active)' <= MaxConnections
    BY <1>0, <2>1, SlotsKept DEF TypeOK
  <2>3. handler' \in [Socks -> {"none", "lookup", "consume", "relay", "done"}]
    BY <1>0, <1>11 DEF Crash, TypeOK
  <2> QED BY <1>0, <1>11, <2>2, <2>3, EmptyBacklog DEF TypeOK, Crash, mapVars, policyVars, clientVars
<1> QED BY <1>1, <1>2, <1>3, <1>4, <1>5, <1>6, <1>7, <1>8, <1>9, <1>10, <1>11
        DEF Daemon, Shutdown, Sweep, Stop, ServeReturns

---------------------------------------------------------------------------
(* Lifecycle *)

\* Without the programs no record appears.
LEMMA KernelLifecycle == IInv /\ Kernel => Lifecycle'
<1> SUFFICES ASSUME IInv, Kernel PROVE Lifecycle'
  OBVIOUS
<1>1. UNCHANGED <<run, links, maps, enabled, listening, serve, handler>>
  BY DEF Kernel, Connect, Publish, Establish, ClientClose, Evict, Age, Lapse,
     policyVars, relayVars, mapVars
<1>2. ASSUME links = {}, \A p \in Ports : flow[p] = None
      PROVE  flow' = flow
  BY <1>2 DEF Kernel, Connect, Publish, Establish, ClientClose, Evict, Age, Lapse,
     Unpublish, mapVars
<1> QED BY <1>1, <1>2, SameHandlers DEF IInv, Lifecycle

\* Without Serve no handler begins.
LEMMA RelayLifecycle == IInv /\ Relay => Lifecycle'
<1> SUFFICES ASSUME IInv, Relay PROVE Lifecycle'
  OBVIOUS
<1>1. UNCHANGED <<run, links, maps, enabled, listening>>
  BY DEF Relay, Resolving, Accept, AcceptFails, Lookup, Consume, RelayEnds,
     policyVars, mapVars
<1>2. ASSUME run \in {"down", "dying"} PROVE FALSE
  <2>1. serve = "off" /\ \A s \in Socks : handler[s] \notin {"lookup", "consume", "relay"}
    BY <1>2 DEF IInv, Lifecycle, Active
  <2> QED BY <2>1 DEF Relay, Resolving, Accept, AcceptFails, Lookup, Consume, RelayEnds
<1> QED BY <1>1, <1>2 DEF IInv, Lifecycle

\* Interception begins after the listener and ends before it.
LEMMA DaemonLifecycle == IInv /\ (Daemon \/ Shutdown \/ Crash) => Lifecycle'
<1> SUFFICES ASSUME IInv, Daemon \/ Shutdown \/ Crash PROVE Lifecycle'
  OBVIOUS
<1>0. Lifecycle /\ TypeOK
  BY DEF IInv
<1>1. CASE Start \/ Enable \/ EnableFails \/ Heartbeat \/ CloseListener \/ Disable
           \/ Detach \/ DetachSockops \/ Cancel
  <2>1. run' \notin {"down", "dying"} /\ maps'
    BY <1>0, <1>1 DEF Lifecycle, Start, Enable, EnableFails, Heartbeat, CloseListener,
       Disable, Detach, DetachSockops, Cancel, Goto, mapVars
  <2>2. CASE Start \/ Enable
    BY <1>0, <2>1, <2>2 DEF Lifecycle, Start, Enable, Goto, Serving, mapVars, relayVars
  <2>4. CASE EnableFails
    <3>1. enabled' = enabled /\ ~enabled /\ run' = "waiting"
      BY <1>0, <2>4 DEF Lifecycle, EnableFails, Goto, policyVars
    <3> QED BY <2>1, <3>1 DEF Lifecycle, Serving
  <2>5. CASE Heartbeat
    BY <1>0, <2>1, <2>5 DEF Lifecycle, Heartbeat, Serving, mapVars, relayVars
  <2>3. CASE CloseListener \/ Disable \/ Detach \/ DetachSockops \/ Cancel
    BY <1>0, <2>1, <2>3 DEF Lifecycle, CloseListener, Disable, Detach, DetachSockops,
       Cancel, Goto, Serving, mapVars, policyVars, relayVars
  <2> QED BY <1>1, <2>2, <2>3, <2>4, <2>5
<1>2. CASE Sweep
  BY <1>0, <1>2 DEF Lifecycle, Sweep, SweepFinds, SweepChecks, SweepDeletes, Goto, Serving,
     mapVars, policyVars, relayVars
<1>3. CASE Finish \/ CrashDetaches
  <2>1. serve' = "off" /\ Active' = {}
    BY <1>0, <1>3, SameHandlers DEF Lifecycle, Finish, CrashDetaches, relayVars
  <2> QED BY <1>3, <2>1 DEF Lifecycle, Finish, CrashDetaches, Release, Serving
<1>4. CASE Crash
  <2>1. Active' = {}
    BY <1>4 DEF Active, Crash
  <2> QED BY <1>0, <1>4, <2>1 DEF Lifecycle, Crash, Serving, mapVars
<1> QED BY <1>1, <1>2, <1>3, <1>4 DEF Daemon, Shutdown, Stop, ServeReturns

---------------------------------------------------------------------------
(* Connections *)

LEMMA ConnectionsKept ==
  ASSUME IInv, UNCHANGED clientVars, UNCHANGED <<handler, got>>,
         backlog' = backlog \/ backlog' = <<>>
  PROVE  Connections'
<1>1. Connections /\ Live' = Live
  BY SameSocks DEF IInv, clientVars
<1> QED BY <1>1 DEF Connections, clientVars

\* A socket changes its state, and perhaps its port, with no handler at work
\* on it but for a close.
LEMMA KernelConnections == IInv /\ Kernel => Connections'
<1> SUFFICES ASSUME IInv, Kernel PROVE Connections'
  OBVIOUS
<1>0. Connections /\ TypeOK
  BY DEF IInv
<1>1. ASSUME NEW s \in Socks, Connect(s) PROVE Connections'
  <2>1. Live' = Live /\ UNCHANGED <<handler, got, backlog, port>>
    BY <1>0, <1>1 DEF Live, Connect, TypeOK, relayVars
  <2>2. \A t \in Socks : t # s => sock'[t] = sock[t]
    BY <1>0, <1>1 DEF Connect, TypeOK
  <2>3. sock[s] = "idle" /\ sock'[s] \in {"hooked", "direct"}
    BY <1>0, <1>1 DEF Connect, TypeOK
  <2> QED BY <1>0, <2>1, <2>2, <2>3 DEF Connections, TypeOK
<1>2. ASSUME NEW s \in Socks, Publish(s) PROVE Connections'
  <2>1. PICK p \in Ports : /\ \A t \in Live : port[t] # p
                           /\ port' = [port EXCEPT ![s] = p]
    BY <1>2 DEF Publish
  <2>2. sock[s] = "hooked" /\ sock' = [sock EXCEPT ![s] = "sent"]
        /\ UNCHANGED <<handler, got, backlog>>
    BY <1>2 DEF Publish, relayVars
  <2>3. Live' = Live \cup {s} /\ s \notin Live
    BY <1>0, <2>2 DEF Live, TypeOK
  <2>4. \A t \in Live : t # s /\ port'[t] = port[t]
    BY <1>0, <2>1, <2>3 DEF TypeOK, Live
  <2>5. port'[s] = p
    BY <1>0, <2>1 DEF TypeOK
  <2>6. \A t, u \in Live' : port'[t] = port'[u] => t = u
    BY <1>0, <2>1, <2>3, <2>4, <2>5 DEF Connections
  <2>7. \A t \in Socks : t # s => sock'[t] = sock[t] /\ port'[t] = port[t]
    BY <1>0, <2>1, <2>2 DEF TypeOK
  <2>8. handler[s] = "none" /\ \A i \in 1..Len(backlog) : backlog[i] # s
    BY <1>0, <2>2 DEF Connections, TypeOK
  <2>9. \A i \in 1..Len(backlog) : backlog[i] \in Socks
    BY <1>0 DEF TypeOK
  <2> QED BY <1>0, <2>2, <2>5, <2>6, <2>7, <2>8, <2>9 DEF Connections
<1>3. ASSUME NEW s \in Socks, Establish(s) PROVE Connections'
  <2>1. UNCHANGED <<handler, got, port>> /\ sock[s] = "sent"
    BY <1>3 DEF Establish
  <2>2. Live' \subseteq Live
    BY <1>0, <1>3 DEF Establish, Live, TypeOK
  <2>3. \A t \in Socks : t # s => sock'[t] = sock[t]
    BY <1>0, <1>3 DEF Establish, TypeOK
  <2>4. sock'[s] \in {"open", "closed"}
    BY <1>0, <1>3 DEF Establish, TypeOK
  <2>5. handler[s] = "none" /\ \A i \in 1..Len(backlog) : backlog[i] # s
    BY <1>0, <2>1 DEF Connections, TypeOK
  <2>6. backlog \in Seq(Socks) /\ \A i \in 1..Len(backlog) : backlog[i] \in Socks
    BY <1>0 DEF TypeOK
  <2>7. /\ \A i \in 1..Len(backlog') : /\ handler[backlog'[i]] = "none"
                                       /\ sock'[backlog'[i]] \in {"open", "closed"}
        /\ \A i, j \in 1..Len(backlog') : backlog'[i] = backlog'[j] => i = j
    <3>1. CASE backlog' = backlog
      BY <1>0, <2>3, <2>4, <2>5, <2>6, <3>1 DEF Connections
    <3>2. CASE backlog' = Append(backlog, s)
      <4>1. /\ Len(backlog') = Len(backlog) + 1 /\ backlog'[Len(backlog) + 1] = s
            /\ \A i \in 1..Len(backlog) : backlog'[i] = backlog[i]
        BY <2>6, <3>2
      <4>2. \A i \in 1..Len(backlog') : i \in 1..Len(backlog) \/ i = Len(backlog) + 1
        BY <2>6, <4>1
      <4> QED BY <1>0, <2>3, <2>4, <2>5, <2>6, <4>1, <4>2 DEF Connections
    <3> QED BY <1>3, <3>1, <3>2 DEF Establish
  <2> QED BY <1>0, <2>1, <2>2, <2>3, <2>4, <2>7 DEF Connections
<1>4. ASSUME NEW s \in Socks, ClientClose(s) PROVE Connections'
  <2>1. Live' \subseteq Live /\ UNCHANGED <<handler, got, backlog, port>>
    BY <1>0, <1>4 DEF ClientClose, Live, TypeOK, relayVars
  <2>2. \A t \in Socks : t # s => sock'[t] = sock[t]
    BY <1>0, <1>4 DEF ClientClose, TypeOK
  <2>3. sock[s] = "open" /\ sock'[s] = "closed"
    BY <1>0, <1>4 DEF ClientClose, TypeOK
  <2>4. \A i \in 1..Len(backlog) : backlog[i] \in Socks
    BY <1>0 DEF TypeOK
  <2> QED BY <1>0, <2>1, <2>2, <2>3, <2>4 DEF Connections
<1>5. CASE (\E p \in Ports : Evict(p) \/ Age(p)) \/ Lapse
  BY <1>5, ConnectionsKept DEF Evict, Age, Lapse, relayVars
<1> QED BY <1>1, <1>2, <1>3, <1>4, <1>5 DEF Kernel

\* A connection leaves the backlog for its handler, which resolves, relays
\* and ends.
LEMMA RelayConnections == IInv /\ Relay => Connections'
<1> SUFFICES ASSUME IInv, Relay PROVE Connections'
  OBVIOUS
<1>0. Connections /\ TypeOK
  BY DEF IInv
<1>1. UNCHANGED clientVars /\ Live' = Live
  BY SameSocks DEF Relay, Resolving, Accept, AcceptFails, Lookup, Consume, RelayEnds,
     clientVars
<1>2. CASE Accept
  <2> DEFINE s == Head(backlog)
  <2>1. /\ backlog \in Seq(Socks) /\ backlog # <<>>
        /\ s = backlog[1] /\ s \in Socks /\ 1 \in 1..Len(backlog)
        /\ \A i \in 1..Len(backlog) : backlog[i] \in Socks
    BY <1>0, <1>2 DEF Accept, TypeOK
  <2>2. /\ backlog' = Tail(backlog) /\ got' = got
        /\ \A t \in Socks : t # s => handler'[t] = handler[t]
        /\ handler'[s] \in {"lookup", "done"}
    BY <1>0, <1>2, <2>1 DEF Accept, TypeOK
  <2>3. /\ Len(backlog') = Len(backlog) - 1
        /\ \A i \in 1..Len(backlog') : /\ backlog'[i] = backlog[i + 1]
                                       /\ i + 1 \in 1..Len(backlog) /\ i + 1 # 1
    BY <2>1, <2>2
  <2>4. handler[s] = "none" /\ sock[s] \in {"open", "closed"}
    BY <1>0, <2>1 DEF Connections
  <2>5. \A i \in 1..Len(backlog') : backlog'[i] \in Socks /\ backlog'[i] # s
    BY <1>0, <2>1, <2>3 DEF Connections
  <2> HIDE DEF s
  <2>6. \A i, j \in 1..Len(backlog') : backlog'[i] = backlog'[j] => i = j
    BY <1>0, <2>3 DEF Connections
  <2>7. \A i \in 1..Len(backlog') : /\ handler'[backlog'[i]] = "none"
                                    /\ sock[backlog'[i]] \in {"open", "closed"}
    BY <1>0, <2>2, <2>3, <2>5 DEF Connections
  <2> QED BY <1>0, <1>1, <2>1, <2>2, <2>4, <2>6, <2>7 DEF Connections, clientVars
<1>3. CASE AcceptFails
  BY <1>3, ConnectionsKept DEF AcceptFails
<1>4. ASSUME NEW s \in Socks, Lookup(s) \/ Consume(s) \/ RelayEnds(s) PROVE Connections'
  <2>1. /\ handler[s] \in {"lookup", "consume", "relay"} /\ backlog' = backlog
        /\ \A t \in Socks : t # s => handler'[t] = handler[t] /\ got'[t] = got[t]
        /\ got'[s] # None => handler'[s] \in {"consume", "relay"}
    BY <1>0, <1>4 DEF Connections, Lookup, Consume, RelayEnds, TypeOK
  <2>2. \A i \in 1..Len(backlog) : backlog[i] \in Socks /\ backlog[i] # s
    BY <1>0, <2>1 DEF Connections, TypeOK
  <2> QED BY <1>0, <1>1, <2>1, <2>2 DEF Connections, clientVars
<1> QED BY <1>2, <1>3, <1>4 DEF Relay, Resolving

LEMMA DaemonConnections == IInv /\ (Daemon \/ Shutdown \/ Crash) => Connections'
<1> SUFFICES ASSUME IInv, Daemon \/ Shutdown \/ Crash PROVE Connections'
  OBVIOUS
<1>1. CASE Crash
  <2>1. UNCHANGED clientVars /\ Live' = Live /\ backlog' = <<>>
    BY <1>1, SameSocks DEF Crash, clientVars
  <2> QED BY <1>1, <2>1 DEF IInv, Connections, Crash, Active, TypeOK, clientVars
<1>2. CASE Daemon \/ Shutdown
  <2>1. /\ UNCHANGED clientVars /\ UNCHANGED <<handler, got>>
        /\ backlog' = backlog \/ backlog' = <<>>
    BY <1>2 DEF Daemon, Start, Enable, EnableFails, Heartbeat, Sweep, SweepFinds, SweepChecks,
       SweepDeletes, Stop, Disable, Shutdown, ServeReturns, Detach, DetachSockops,
       CloseListener, Cancel, Finish, CrashDetaches, relayVars
  <2> QED BY <2>1, ConnectionsKept
<1> QED BY <1>1, <1>2

---------------------------------------------------------------------------
(* Records *)

\* No socket changes; records may only go, or get older.
LEMMA RecordsKept ==
  ASSUME IInv, "sockops" \in links' => "sockops" \in links,
         Live' = Live, port' = port, stored \subseteq stored',
         \A p \in Ports : \/ flow'[p] = None
                          \/ flow[p] # None /\ flow'[p].cookie = flow[p].cookie
  PROVE  Records'
<1> SUFFICES ASSUME "sockops" \in links', NEW p \in Ports, flow'[p] # None
             PROVE  flow'[p].cookie \in Live' \cap stored' /\ port'[flow'[p].cookie] = p
  BY DEF Records
<1> QED BY DEF IInv, Records

\* Deleting a record, whoever's it is.
LEMMA DeleteKeeps ==
  ASSUME TypeOK, NEW q, flow' = flow \/ Delete(q)
  PROVE  \A p \in Ports : \/ flow'[p] = None
                          \/ flow[p] # None /\ flow'[p].cookie = flow[p].cookie
BY DEF TypeOK, Delete

\* sockops removes the record of the socket that closes.
LEMMA CloseRecords ==
  ASSUME IInv, NEW s \in Live, Unpublish(s), UNCHANGED <<links, port, stored>>,
         Live \ {s} \subseteq Live'
  PROVE  Records'
<1> SUFFICES ASSUME "sockops" \in links, NEW p \in Ports, flow'[p] # None
             PROVE  flow'[p].cookie \in Live' \cap stored /\ port[flow'[p].cookie] = p
  BY DEF Records
<1>1. port[s] \in Ports /\ flow \in [Ports -> Value \cup {None}]
  BY DEF IInv, TypeOK, Connections, Live
<1>2. flow'[p] = flow[p]
  BY <1>1 DEF Unpublish, Delete
<1>3. flow[p].cookie \in Live \cap stored /\ port[flow[p].cookie] = p
  BY <1>2 DEF IInv, Records
<1>4. flow[p].cookie # s
  BY <1>1, <1>2, <1>3 DEF Unpublish, Delete
<1> QED BY <1>2, <1>3, <1>4

LEMMA KernelRecords == IInv /\ Kernel => Records'
<1> SUFFICES ASSUME IInv, Kernel PROVE Records'
  OBVIOUS
<1>0. Connections /\ TypeOK /\ Records
  BY DEF IInv
<1>1. ASSUME NEW s \in Socks, Connect(s) PROVE Records'
  <2>1. /\ Live' = Live /\ UNCHANGED <<links, port, flow>> /\ stored \subseteq stored'
    BY <1>0, <1>1 DEF Live, Connect, TypeOK
  <2> QED BY <2>1, RecordsKept
<1>2. ASSUME NEW s \in Socks, Publish(s) PROVE Records'
  <2>1. PICK p \in Ports : /\ \A t \in Live : port[t] # p
                           /\ port' = [port EXCEPT ![s] = p]
                           /\ \/ /\ s \in stored
                                 /\ flow' = [flow EXCEPT ![p] = [cookie |-> s, age |-> 0]]
                              \/ flow' = flow
    BY <1>2 DEF Publish
  <2>2. sock[s] = "hooked" /\ sock' = [sock EXCEPT ![s] = "sent"]
        /\ UNCHANGED <<links, stored>>
    BY <1>2 DEF Publish
  <2>3. Live' = Live \cup {s} /\ s \notin Live
    BY <1>0, <2>2 DEF Live, TypeOK
  <2>4. port'[s] = p /\ \A t \in Live : port'[t] = port[t]
    BY <1>0, <2>1, <2>3 DEF TypeOK, Live
  <2> SUFFICES ASSUME "sockops" \in links, NEW q \in Ports, flow'[q] # None
               PROVE  flow'[q].cookie \in Live' \cap stored /\ port'[flow'[q].cookie] = q
    BY <2>2 DEF Records
  <2>5. CASE flow'[q] = flow[q]
    BY <1>0, <2>3, <2>4, <2>5 DEF Records
  <2>6. CASE flow'[q] # flow[q]
    <3>1. q = p /\ s \in stored /\ flow'[q] = [cookie |-> s, age |-> 0]
      BY <1>0, <2>1, <2>6 DEF TypeOK
    <3> QED BY <2>3, <2>4, <3>1
  <2> QED BY <2>5, <2>6
<1>3. ASSUME NEW s \in Socks, Establish(s) PROVE Records'
  <2>1. UNCHANGED <<links, port, stored>> /\ s \in Live
    BY <1>3 DEF Establish, Live
  <2>2. CASE listening
    <3>1. flow' = flow /\ Live' = Live
      BY <1>0, <1>3, <2>2 DEF Establish, Live, TypeOK
    <3> QED BY <2>1, <3>1, RecordsKept
  <2>3. CASE ~listening
    <3>1. Unpublish(s) /\ Live \ {s} \subseteq Live'
      BY <1>0, <1>3, <2>3 DEF Establish, Live, TypeOK
    <3> QED BY <2>1, <3>1, CloseRecords
  <2> QED BY <2>2, <2>3
<1>4. ASSUME NEW s \in Socks, ClientClose(s) PROVE Records'
  <2>1. UNCHANGED <<links, port, stored>> /\ s \in Live /\ Unpublish(s)
    BY <1>4 DEF ClientClose, Live
  <2>2. Live \ {s} \subseteq Live'
    BY <1>0, <1>4 DEF ClientClose, Live, TypeOK
  <2> QED BY <2>1, <2>2, CloseRecords
<1>5. ASSUME NEW p \in Ports, Evict(p) PROVE Records'
  <2>1. UNCHANGED <<links, port, stored, sock>> /\ Delete(p)
    BY <1>5 DEF Evict, clientVars
  <2> QED BY <1>0, <2>1, SameSocks, DeleteKeeps, RecordsKept
<1>6. ASSUME NEW p \in Ports, Age(p) PROVE Records'
  <2>1. UNCHANGED <<links, port, stored, sock>>
    BY <1>6 DEF Age, clientVars
  <2>2. flow[p] \in Value /\ flow' = [flow EXCEPT ![p].age = @ + 1] /\ flow[p] # None
    BY <1>0, <1>6, FlowTypes DEF Age
  <2>3. flow'[p].cookie = flow[p].cookie
    BY <1>0, <2>2 DEF TypeOK, Value
  <2>4. \A q \in Ports : q # p => flow'[q] = flow[q]
    BY <1>0, <2>2 DEF TypeOK
  <2> QED BY <2>1, <2>2, <2>3, <2>4, SameSocks, RecordsKept
<1>7. CASE Lapse
  BY <1>7, SameSocks, RecordsKept DEF Lapse, mapVars, clientVars
<1> QED BY <1>1, <1>2, <1>3, <1>4, <1>5, <1>6, <1>7 DEF Kernel

LEMMA RelayRecords == IInv /\ Relay => Records'
<1> SUFFICES ASSUME IInv, Relay PROVE Records'
  OBVIOUS
<1>1. UNCHANGED <<links, stored, sock, port>>
  BY DEF Relay, Resolving, Accept, AcceptFails, Lookup, Consume, RelayEnds, mapVars, clientVars
<1>2. flow' = flow \/ \E s \in Socks : Delete(port[s])
  BY DEF Relay, Resolving, Accept, AcceptFails, Lookup, Consume, RelayEnds, mapVars
<1>3. TypeOK
  BY DEF IInv
<1> QED BY <1>1, <1>2, <1>3, SameSocks, DeleteKeeps, RecordsKept

\* A new collection is empty.
LEMMA DaemonRecords == IInv /\ (Daemon \/ Shutdown \/ Crash) => Records'
<1> SUFFICES ASSUME IInv, Daemon \/ Shutdown \/ Crash PROVE Records'
  OBVIOUS
<1>1. CASE Start
  BY <1>1 DEF IInv, Lifecycle, Records, Start, Goto
<1>2. CASE Finish \/ CrashDetaches
  BY <1>2 DEF Records, Finish, CrashDetaches, Release
<1>3. CASE Enable \/ EnableFails \/ Heartbeat \/ Sweep \/ Disable \/ Detach \/ DetachSockops
           \/ CloseListener \/ Cancel \/ Crash
  <2>1. UNCHANGED <<stored, sock, port>> /\ links' \subseteq links
    BY <1>3 DEF Enable, EnableFails, Heartbeat, Sweep, SweepFinds, SweepChecks, SweepDeletes,
       Disable, Detach, DetachSockops, CloseListener, Cancel, Crash, mapVars, clientVars
  <2>2. flow' = flow \/ Delete(swept.port)
    BY <1>3 DEF Enable, EnableFails, Heartbeat, Sweep, SweepFinds, SweepChecks, SweepDeletes,
       Disable, Detach, DetachSockops, CloseListener, Cancel, Crash, mapVars
  <2>3. TypeOK
    BY DEF IInv
  <2> QED BY <2>1, <2>2, <2>3, SameSocks, DeleteKeeps, RecordsKept
<1> QED BY <1>1, <1>2, <1>3 DEF Daemon, Shutdown, Stop, ServeReturns

---------------------------------------------------------------------------
(* Destinations *)

\* What a handler reads under its client's port is its client's.
LEMMA DestinationStep == IInv /\ Next => OwnDestination'
<1> SUFFICES ASSUME IInv, Next, "sockops" \in links', NEW s \in Socks, got'[s] # None
             PROVE  got'[s] = s \/ sock'[s] = "closed"
  BY DEF OwnDestination
<1>0. OwnDestination /\ Connections /\ Records /\ Lifecycle /\ TypeOK
  BY DEF IInv
<1>1. CASE Kernel
  <2>1. UNCHANGED <<links, got>>
    BY <1>1 DEF Kernel, Connect, Publish, Establish, ClientClose, Evict, Age, Lapse,
       relayVars, mapVars
  <2>2. sock[s] = "closed" => sock'[s] = "closed"
    BY <1>0, <1>1 DEF TypeOK, Kernel, Connect, Publish, Establish, ClientClose, Evict, Age, Lapse,
       clientVars
  <2> QED BY <1>0, <2>1, <2>2 DEF OwnDestination
<1>2. CASE Relay
  <2>1. UNCHANGED <<links, sock>>
    BY <1>2 DEF Relay, Resolving, Accept, AcceptFails, Lookup, Consume, RelayEnds, mapVars,
       clientVars
  <2>2. CASE got'[s] = got[s]
    BY <1>0, <2>1, <2>2 DEF OwnDestination
  <2>3. CASE got'[s] # got[s]
    <3>1. Lookup(s) /\ got'[s] = flow[port[s]].cookie /\ flow[port[s]] # None
      BY <1>0, <1>2, <2>3 DEF TypeOK, Relay, Resolving, Accept, AcceptFails, Lookup, Consume,
         RelayEnds
    <3>2. sock[s] \in {"open", "closed"} /\ port[s] \in Ports
      BY <1>0, <3>1 DEF Connections, Lookup
    <3>3. ASSUME sock[s] = "open" PROVE got'[s] = s
      BY <1>0, <2>1, <3>1, <3>2, <3>3 DEF Records, Connections, Live
    <3> QED BY <2>1, <3>2, <3>3
  <2> QED BY <2>2, <2>3
<1>3. CASE Start
  <2>1. got' = got /\ Active = {}
    BY <1>0, <1>3 DEF Start, Goto, Lifecycle
  <2> QED BY <1>0, <2>1 DEF Connections, Active
<1>4. CASE Crash
  BY <1>4 DEF Crash
<1>5. CASE (Daemon /\ ~Start) \/ Shutdown
  <2>1. UNCHANGED <<got, sock>> /\ links' \subseteq links
    BY <1>5 DEF Daemon, Enable, EnableFails, Heartbeat, Sweep, SweepFinds, SweepChecks,
       SweepDeletes, Stop, Disable, Shutdown, ServeReturns, Detach, DetachSockops,
       CloseListener, Cancel, Finish, CrashDetaches, Release, relayVars, mapVars, clientVars
  <2> QED BY <1>0, <2>1 DEF OwnDestination
<1> QED BY <1>1, <1>2, <1>3, <1>4, <1>5 DEF Next

---------------------------------------------------------------------------

LEMMA StepInv == IInv /\ [Next]_vars => IInv'
<1> SUFFICES ASSUME IInv, [Next]_vars PROVE IInv'
  OBVIOUS
<1>1. CASE Next
  BY <1>1, KernelTypes, RelayTypes, DaemonTypes, KernelLifecycle, RelayLifecycle,
     DaemonLifecycle, KernelConnections, RelayConnections, DaemonConnections,
     KernelRecords, RelayRecords, DaemonRecords, DestinationStep DEF Next, IInv
<1>2. CASE UNCHANGED vars
  <2>1. UNCHANGED <<run, links, maps, flow, stored, enabled, lapsed, swept, listening, backlog,
                    serve, handler, got, sock, port, starts>>
    BY <1>2 DEF vars, mapVars, policyVars, relayVars, clientVars
  <2>2. Active' = Active /\ Live' = Live
    BY <2>1, SameHandlers, SameSocks
  <2> QED BY <2>1, <2>2 DEF IInv, TypeOK, Lifecycle, Connections, Records, OwnDestination
<1> QED BY <1>1, <1>2

\* IInv is inductive: no interleaving of clients, handlers and daemon, no
\* lost, evicted or swept record and no crash breaks it.
THEOREM RedirectInvariant == Spec => []IInv
BY InitInv, StepInv, PTL DEF Spec

\* Types, and with them the limit of relay.go: never more handlers at work
\* than MaxConnections.
THEOREM RedirectTypes == Spec => []TypeOK
<1>1. IInv => TypeOK
  BY DEF IInv
<1> QED BY <1>1, RedirectInvariant, PTL

\* A handler never resolves another live client's destination
\* (redirect.bpf.c, the records; relay.go and loader_linux.go, Resolve).
THEOREM DestinationIsOwn == Spec => []OwnDestination
<1>1. IInv => OwnDestination
  BY DEF IInv
<1> QED BY <1>1, RedirectInvariant, PTL

\* The maps are open as long as a handler may use them (server_linux.go, the
\* order of shutdown).
THEOREM MapsStayOpen == Spec => []MapsOutliveResolvers
<1>1. IInv => MapsOutliveResolvers
  BY DEF IInv, Lifecycle, MapsOutliveResolvers
<1> QED BY <1>1, RedirectInvariant, PTL

\* The connect hook redirects only while the listener is open, or in the
\* moment a killed daemon takes to vanish (server_linux.go, the orders of
\* start and shutdown).
THEOREM OnlyWhileServing == Spec => RedirectWhileServing
<1>1. IInv /\ [Next]_vars =>
        [\A s \in Socks : sock[s] = "idle" /\ sock'[s] = "hooked" =>
           listening \/ run = "dying"]_vars
  <2> SUFFICES ASSUME IInv, Next, NEW s \in Socks, sock[s] = "idle", sock'[s] = "hooked"
               PROVE  listening \/ run = "dying"
    OBVIOUS
  <2>1. PICK t \in Socks : Connect(t)
    <3>1. CASE Kernel
      BY <3>1 DEF IInv, TypeOK, Kernel, Connect, Publish, Establish, ClientClose, Evict, Age,
         Lapse, clientVars
    <3>2. CASE ~Kernel
      <4>1. sock' = sock
        BY <3>2 DEF Next, Relay, Resolving, Accept, AcceptFails, Lookup, Consume, RelayEnds,
           Daemon, Start, Enable, EnableFails, Heartbeat, Sweep, SweepFinds, SweepChecks,
           SweepDeletes, Stop, Disable, Shutdown, ServeReturns, Detach, DetachSockops,
           CloseListener, Cancel, Finish, CrashDetaches, Crash, clientVars
      <4> QED BY <4>1
    <3> QED BY <3>1, <3>2
  <2>2. "connect" \in links /\ enabled
    BY <2>1 DEF Connect, IInv, TypeOK
  <2> QED BY <2>2 DEF IInv, TypeOK, Lifecycle, Serving
<1> QED BY <1>1, RedirectInvariant, PTL DEF Spec, RedirectWhileServing
=============================================================================
