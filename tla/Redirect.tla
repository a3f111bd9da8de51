------------------------------ MODULE Redirect ------------------------------
(***************************************************************************)
(* The eBPF redirect backend: the connect and sockops programs             *)
(* (bpf/redirect.bpf.c), their maps and links (redirect/loader_linux.go),  *)
(* the daemon (daemon/server_linux.go) and its relay (relay/relay.go).     *)
(*                                                                         *)
(* A redirected socket is sent to the daemon's listener.  The connect hook *)
(* keeps its destination in socket storage, sockops publishes it in        *)
(* flow_map under the client's port, and the handler of the accepted       *)
(* connection looks it up there.  A destination is the socket it belongs   *)
(* to, which is also its cookie.  Of a record's age only the two limits    *)
(* matter: 0 is at most 30 s, 1 at most 60 s, 2 more.  Everything else the *)
(* connect hook may let a socket pass for (UID, CIDR, protocol, storage)   *)
(* is a choice.  There is one listener.                                    *)
(***************************************************************************)
EXTENDS Naturals, Sequences, FiniteSets

CONSTANTS
  Socks,           \* client sockets
  Ports,           \* client ports
  None,
  MaxConnections,  \* cfg.MaxConnections
  MaxStarts        \* bound on the lives of the daemon

ASSUME SockAssumption == IsFiniteSet(Socks) /\ None \notin Socks \cup Ports
ASSUME LimitAssumption == MaxConnections \in Nat \ {0} /\ MaxStarts \in Nat

VARIABLES
  run,        \* where daemon.Run is
  enabled, lapsed,   \* config_map: policy on, heartbeat older than the lease
  links,      \* attached programs
  maps,       \* the collection is open
  flow,       \* flow_map
  swept,      \* the record Sweep is at
  listening,  \* the listener is open
  backlog,    \* connections not accepted yet
  serve,      \* relay.Serve: "off", "on", or "failed" (Accept returned an error)
  handler,    \* of each connection, where its handler is
  got,        \* the destination a handler has resolved
  sock,       \* of each client socket, where it is
  port,       \* its local port
  stored,     \* sockets with a value in socket_store
  starts      \* bound counter

mapVars    == <<links, maps, flow, stored>>
policyVars == <<enabled, lapsed>>
relayVars  == <<listening, backlog, serve, handler, got>>
clientVars == <<sock, port>>
vars == <<run, mapVars, policyVars, swept, relayVars, clientVars, starts>>

Value  == [cookie : Socks, age : 0..2]
Active == {s \in Socks : handler[s] \in {"lookup", "consume", "relay"}}
Live   == {s \in Socks : sock[s] \in {"sent", "open"}}

Goto(from, to) == run = from /\ run' = to

Delete(p) == flow' = [flow EXCEPT ![p] = None]

---------------------------------------------------------------------------
(* The programs in the kernel *)

\* ep_connect4: the socket is redirected, or goes on untouched.
Connect(s) ==
  /\ sock[s] = "idle"
  /\ \/ /\ "connect" \in links /\ enabled /\ ~lapsed
        /\ sock' = [sock EXCEPT ![s] = "hooked"]
        /\ stored' = stored \cup {s}
     \/ /\ sock' = [sock EXCEPT ![s] = "direct"]
        /\ UNCHANGED stored
  /\ UNCHANGED <<run, links, maps, flow, policyVars, swept, relayVars, port, starts>>

\* TCP_CONNECT_CB, before the SYN: the port is assigned and the record
\* published, unless the update fails or the program is no longer there.
Publish(s) ==
  /\ sock[s] = "hooked"
  /\ \E p \in Ports :
       /\ \A t \in Live : port[t] # p
       /\ port' = [port EXCEPT ![s] = p]
       /\ \/ /\ "sockops" \in links /\ s \in stored
             /\ flow' = [flow EXCEPT ![p] = [cookie |-> s, age |-> 0]]
          \/ UNCHANGED flow
  /\ sock' = [sock EXCEPT ![s] = "sent"]
  /\ UNCHANGED <<run, links, maps, stored, policyVars, swept, relayVars, starts>>

\* Mutant: the record of a closed socket stays.
UnpublishNever(s) == UNCHANGED flow

\* STATE_CB with TCP_CLOSE: the record goes if it is still the socket's own.
Unpublish(s) ==
  IF /\ "sockops" \in links /\ s \in stored
     /\ flow[port[s]] # None /\ flow[port[s]].cookie = s
  THEN Delete(port[s])
  ELSE UNCHANGED flow

\* The listener's kernel side answers the SYN, or refuses it.
Establish(s) ==
  /\ sock[s] = "sent"
  /\ \/ /\ listening
        /\ sock' = [sock EXCEPT ![s] = "open"]
        /\ backlog' = Append(backlog, s)
        /\ UNCHANGED flow
     \/ /\ ~listening
        /\ sock' = [sock EXCEPT ![s] = "closed"]
        /\ Unpublish(s)
        /\ UNCHANGED backlog
  /\ UNCHANGED <<run, links, maps, stored, policyVars, swept, listening, serve,
                 handler, got, port, starts>>

\* The client closes or aborts; its port is free again.
ClientClose(s) ==
  /\ sock[s] = "open"
  /\ sock' = [sock EXCEPT ![s] = "closed"]
  /\ Unpublish(s)
  /\ UNCHANGED <<run, links, maps, stored, policyVars, swept, relayVars, port, starts>>

\* LRU eviction under load.
Evict(p) ==
  /\ flow[p] # None
  /\ Delete(p)
  /\ UNCHANGED <<run, links, maps, stored, policyVars, swept, relayVars,
                 clientVars, starts>>

Age(p) ==
  /\ flow[p] # None /\ flow[p].age < 2
  /\ flow' = [flow EXCEPT ![p].age = @ + 1]
  /\ UNCHANGED <<run, links, maps, stored, policyVars, swept, relayVars,
                 clientVars, starts>>

\* Three seconds without a heartbeat.
Lapse ==
  /\ ~lapsed /\ lapsed' = TRUE
  /\ UNCHANGED <<run, mapVars, enabled, swept, relayVars, clientVars, starts>>

---------------------------------------------------------------------------
(* The relay *)

\* Mutant: one connection more than there are slots.
AcceptOneMore ==
  /\ serve = "on" /\ listening /\ backlog # <<>>
  /\ LET s == Head(backlog)
         free == Cardinality(Active) <= MaxConnections
     IN  handler' = [handler EXCEPT ![s] = IF free THEN "lookup" ELSE "done"]
  /\ backlog' = Tail(backlog)
  /\ UNCHANGED <<run, mapVars, policyVars, swept, listening, serve, got,
                 clientVars, starts>>

\* Serve takes the next connection, or closes it when all slots are taken.
Accept ==
  /\ serve = "on" /\ listening /\ backlog # <<>>
  /\ LET s == Head(backlog)
         free == Cardinality(Active) < MaxConnections
     IN  handler' = [handler EXCEPT ![s] = IF free THEN "lookup" ELSE "done"]
  /\ backlog' = Tail(backlog)
  /\ UNCHANGED <<run, mapVars, policyVars, swept, listening, serve, got,
                 clientVars, starts>>

\* Accept returns an error: Serve accepts no more, and returns it once all
\* its handlers have ended (wg.Wait).
AcceptFails ==
  /\ serve = "on" /\ listening /\ serve' = "failed"
  /\ UNCHANGED <<run, mapVars, policyVars, swept, listening, backlog, handler,
                 got, clientVars, starts>>

\* Resolve's Lookup: a young record is taken; an old one is an error, and so
\* is a missing one after the last retry.
Lookup(s) ==
  /\ handler[s] = "lookup"
  /\ LET v == flow[port[s]]
         valid == maps /\ v # None /\ v.age = 0
     IN  \/ /\ valid
            /\ handler' = [handler EXCEPT ![s] = "consume"]
            /\ got' = [got EXCEPT ![s] = v.cookie]
         \/ /\ ~valid
            /\ handler' = [handler EXCEPT ![s] = "done"]
            /\ UNCHANGED got
  /\ UNCHANGED <<run, mapVars, policyVars, swept, listening, backlog, serve,
                 clientVars, starts>>

\* Resolve's Delete, by key, and on to the upstream.
Consume(s) ==
  /\ handler[s] = "consume"
  /\ Delete(port[s])
  /\ handler' = [handler EXCEPT ![s] = "relay"]
  /\ UNCHANGED <<run, links, maps, stored, policyVars, swept, listening, backlog,
                 serve, got, clientVars, starts>>

\* The upstream fails, the streams end, or the context is cancelled.
RelayEnds(s) ==
  /\ handler[s] = "relay"
  /\ handler' = [handler EXCEPT ![s] = "done"]
  /\ got' = [got EXCEPT ![s] = None]
  /\ UNCHANGED <<run, mapVars, policyVars, swept, listening, backlog, serve,
                 clientVars, starts>>

---------------------------------------------------------------------------
(* The daemon *)

\* Run up to SetEnabled: listener, Load with its attachments, Serve.
Start ==
  /\ Goto("down", "loaded")
  /\ starts < MaxStarts /\ starts' = starts + 1
  /\ listening' = TRUE /\ serve' = "on"
  /\ links' = {"sockops", "connect"} /\ maps' = TRUE
  /\ enabled' = FALSE /\ lapsed' = FALSE
  /\ UNCHANGED <<flow, stored, swept, backlog, handler, got, clientVars>>

Enable ==
  /\ Goto("loaded", "running")
  /\ enabled' = TRUE /\ lapsed' = FALSE
  /\ UNCHANGED <<mapVars, swept, relayVars, clientVars, starts>>

\* SetEnabled fails: the listener is closed and Serve awaited.
EnableFails ==
  /\ Goto("loaded", "waiting")
  /\ listening' = FALSE /\ backlog' = <<>>
  /\ UNCHANGED <<mapVars, policyVars, swept, serve, handler, got, clientVars, starts>>

Heartbeat ==
  /\ run = "running" /\ lapsed /\ lapsed' = FALSE
  /\ UNCHANGED <<run, mapVars, enabled, swept, relayVars, clientVars, starts>>

\* Sweep meets an old record; looks it up again; deletes it by key.
SweepFinds(p) ==
  /\ Goto("running", "sweeping")
  /\ flow[p] # None /\ flow[p].age = 2
  /\ swept' = [port |-> p, cookie |-> flow[p].cookie]
  /\ UNCHANGED <<mapVars, policyVars, relayVars, clientVars, starts>>

SweepChecks ==
  LET v == flow[swept.port]
      same == v # None /\ v.cookie = swept.cookie
  IN  /\ run = "sweeping"
      /\ \/ same /\ run' = "deleting" /\ UNCHANGED swept
         \/ ~same /\ run' = "running" /\ swept' = None
      /\ UNCHANGED <<mapVars, policyVars, relayVars, clientVars, starts>>

SweepDeletes ==
  /\ Goto("deleting", "running")
  /\ Delete(swept.port) /\ swept' = None
  /\ UNCHANGED <<links, maps, stored, policyVars, relayVars, clientVars, starts>>

\* SetEnabled(false), whose error is ignored.
Disable ==
  /\ Goto("running", "disabled")
  /\ \/ enabled' = FALSE /\ lapsed' = FALSE
     \/ UNCHANGED policyVars
  /\ UNCHANGED <<mapVars, swept, relayVars, clientVars, starts>>

\* A signal, the stop command, a lost control socket, a failing heartbeat.
Stop == Disable

\* Serve has returned its error.
ServeReturns == serve = "failed" /\ Active = {} /\ Disable

\* Mutant: the listener is closed first, the hooks are detached after it.
DetachLate ==
  /\ Goto("disabled", "detaching")
  /\ listening' = FALSE /\ backlog' = <<>>
  /\ UNCHANGED <<mapVars, policyVars, swept, serve, handler, got, clientVars, starts>>

\* Detach closes the links from the last to the first: connect, then sockops.
Detach ==
  /\ Goto("disabled", "detaching")
  /\ links' = links \ {"connect"}
  /\ UNCHANGED <<maps, flow, stored, policyVars, swept, relayVars, clientVars, starts>>

DetachSockops ==
  /\ Goto("detaching", "detached")
  /\ links' = {}
  /\ UNCHANGED <<maps, flow, stored, policyVars, swept, relayVars, clientVars, starts>>

\* The listener is closed; the kernel resets what was not accepted.
CloseListener ==
  /\ Goto("detached", "draining")
  /\ listening' = FALSE /\ backlog' = <<>>
  /\ UNCHANGED <<mapVars, policyVars, swept, serve, handler, got, clientVars, starts>>

\* Mutant: the drain has no deadline.
CancelWhenIdle ==
  /\ Goto("draining", "waiting") /\ Active = {}
  /\ UNCHANGED <<mapVars, policyVars, swept, relayVars, clientVars, starts>>

\* The last relay has ended, or three seconds have passed: cancel().
Cancel ==
  /\ Goto("draining", "waiting")
  /\ UNCHANGED <<mapVars, policyVars, swept, relayVars, clientVars, starts>>

\* The collection and all it holds are gone.
Release == /\ run' = "down"
           /\ links' = {} /\ maps' = FALSE /\ enabled' = FALSE
           /\ flow' = [p \in Ports |-> None] /\ stored' = {}
           /\ swept' = None

\* Mutant: Run does not wait for Serve.
FinishAtOnce ==
  /\ run = "waiting" /\ Release /\ serve' = "off"
  /\ UNCHANGED <<lapsed, listening, backlog, handler, got, clientVars, starts>>

\* Serve has returned, and with it every handler: the deferred Close.
Finish ==
  /\ run = "waiting" /\ Active = {} /\ Release /\ serve' = "off"
  /\ UNCHANGED <<lapsed, listening, backlog, handler, got, clientVars, starts>>

\* SIGKILL: the kernel closes the descriptors, the listener's before the
\* links'.
Crash ==
  /\ run \notin {"down", "dying"} /\ run' = "dying"
  /\ listening' = FALSE /\ backlog' = <<>> /\ serve' = "off"
  /\ handler' = [s \in Socks |-> IF s \in Active THEN "done" ELSE handler[s]]
  /\ got' = [s \in Socks |-> None]
  /\ UNCHANGED <<mapVars, policyVars, swept, clientVars, starts>>

CrashDetaches ==
  /\ run = "dying" /\ Release
  /\ UNCHANGED <<lapsed, relayVars, clientVars, starts>>

---------------------------------------------------------------------------

Init ==
  /\ run = "down" /\ starts = 0
  /\ enabled = FALSE /\ lapsed = FALSE
  /\ links = {} /\ maps = FALSE
  /\ flow = [p \in Ports |-> None] /\ stored = {} /\ swept = None
  /\ listening = FALSE /\ backlog = <<>> /\ serve = "off"
  /\ handler = [s \in Socks |-> "none"] /\ got = [s \in Socks |-> None]
  /\ sock = [s \in Socks |-> "idle"] /\ port = [s \in Socks |-> None]

Kernel == \/ \E s \in Socks : Connect(s) \/ Publish(s) \/ Establish(s) \/ ClientClose(s)
          \/ \E p \in Ports : Evict(p) \/ Age(p)
          \/ Lapse

Resolving == \E s \in Socks : Lookup(s) \/ Consume(s)

Relay == Accept \/ AcceptFails \/ Resolving \/ \E s \in Socks : RelayEnds(s)

Sweep == (\E p \in Ports : SweepFinds(p)) \/ SweepChecks \/ SweepDeletes

Shutdown == \/ ServeReturns \/ Detach \/ DetachSockops \/ CloseListener
            \/ Cancel \/ Finish \/ CrashDetaches

Daemon == Start \/ Enable \/ EnableFails \/ Heartbeat \/ Sweep \/ Stop

Next == Kernel \/ Relay \/ Daemon \/ Shutdown \/ Crash

Spec == Init /\ [][Next]_vars

\* The daemon's own steps go on, a resolution ends (ten lookups, 5 ms apart),
\* and a relay ends when it is cancelled or its client is gone (a failing
\* write or the idle timeout).  No client has to do anything.
Fairness == /\ WF_vars(Shutdown)
            /\ WF_vars(Enable \/ SweepChecks \/ SweepDeletes)
            /\ WF_vars(Resolving)
            /\ \A s \in Socks :
                 WF_vars((run = "waiting" \/ sock[s] = "closed") /\ RelayEnds(s))

FairSpec == Spec /\ Fairness

---------------------------------------------------------------------------
(* Properties *)

\* The values of the daemon, the maps, the relay and the sockets: no more
\* connections are handled than the relay has slots.
TypeOK ==
  /\ run \in {"down", "loaded", "running", "sweeping", "deleting", "disabled",
              "detaching", "detached", "draining", "waiting", "dying"}
  /\ enabled \in BOOLEAN /\ lapsed \in BOOLEAN /\ maps \in BOOLEAN
  /\ links \subseteq {"sockops", "connect"}
  /\ flow \in [Ports -> Value \cup {None}] /\ stored \subseteq Socks
  /\ swept \in [port : Ports, cookie : Socks] \cup {None}
  /\ listening \in BOOLEAN /\ backlog \in Seq(Socks)
  /\ serve \in {"off", "on", "failed"}
  /\ handler \in [Socks -> {"none", "lookup", "consume", "relay", "done"}]
  /\ Cardinality(Active) <= MaxConnections
  /\ got \in [Socks -> Socks \cup {None}]
  /\ sock \in [Socks -> {"idle", "hooked", "sent", "open", "closed", "direct"}]
  /\ port \in [Socks -> Ports \cup {None}]
  /\ starts \in 0..MaxStarts

\* "rejects that single stream rather than guessing its destination": as long
\* as sockops is attached, a connection whose client is there is relayed to
\* that client's destination or not at all, whatever records were lost,
\* evicted, swept or left under a reused port.
OwnDestination ==
  "sockops" \in links =>
    \A s \in Socks : got[s] \in {None, s} \/ sock[s] = "closed"

\* A socket is only sent to a listener that is open: interception begins
\* after the listener does and ends before it, even when the policy could not
\* be switched off.  A killed daemon has a moment between the two.
RedirectWhileServing ==
  [][\A s \in Socks : sock[s] = "idle" /\ sock'[s] = "hooked" =>
       listening \/ run = "dying"]_vars

\* "Collection maps stay alive until all resolving handlers have exited."
MapsOutliveResolvers == Active # {} => maps

\* A daemon that began to stop comes down, even if streams never end and
\* clients never close.
StopEnds == run = "disabled" ~> run = "down"

\* "Existing active TCP streams do not migrate on failure; fail-open covers
\* new connects": once the relay has stopped accepting, interception ends.
Intercepting == enabled /\ ~lapsed /\ "connect" \in links
FailOpen     == serve = "failed" ~> ~Intercepting
=============================================================================
