----------------------------- MODULE DHTRouter -----------------------------
(***************************************************************************)
(* The DHT router of a network of nodes: Messages of                       *)
(* flmodules/src/dht_router/messages.rs on every node, each with its       *)
(* routing tables (KademliaCore.tla).                                       *)
(*                                                                         *)
(* The messages between nodes go through the network layer, which delivers *)
(* them in any order or not at all: a message may stay in net for ever.    *)
(* What the router hands to the DHT storage changes nothing here; of a     *)
(* message's content, only the id of a ReadFlo request is kept.            *)
(***************************************************************************)
EXTENDS KademliaCore

CONSTANTS
    LocalBlacklists, \* LOCAL_BLACKLISTS
    MaxInFlight,     \* 10 in the code
    Warm(_),         \* the nodes a node has heard of at the beginning, in order
    MaxSends,        \* bound on the messages of the DHT storage
    MaxChanges,      \* bound on changes of the network
    MaxTicks,        \* bound on ticks
    MaxNet           \* none of them happens with that many messages around

ASSUME RouterAssumption ==
    /\ LocalBlacklists \in BOOLEAN /\ IsFiniteSet(NodeID)
    /\ \A n \in NodeID : Warm(n) \in Seq(NodeID \ {n})
    /\ MaxInFlight \in Nat /\ MaxSends \in Nat /\ MaxChanges \in Nat
    /\ MaxTicks \in Nat /\ MaxNet \in Nat

VARIABLES
    tables,        \* core of every node
    connected,    \* connected of every node
    inFlight,     \* requests_in_flight: from request ids to next hops
    blacklisted,  \* blacklisted_nodes
    net,          \* the messages on their way
    sends, changes, ticks    \* what has happened so far

\* The ids of ReadFlo requests, and what stands for other content.
ReadFloID == 1..MaxSends
NoRead == 0

vars == <<tables, connected, inFlight, blacklisted, net, sends, changes, ticks>>

nodeVars == <<tables, connected, inFlight, blacklisted>>

----------------------------------------------------------------------------
(***************************************************************************)
(* ModuleMessage.  visited is a history of the nodes a message has been    *)
(* to, which the code does not have.                                       *)
(***************************************************************************)
Routed ==
    [type : {"Closest"}, from : NodeID, to : NodeID, orig : NodeID, key : ID,
     read : ReadFloID \cup {NoRead}, visited : SUBSET NodeID]
        \cup [type : {"Direct"}, from : NodeID, to : NodeID, orig : NodeID, key : NodeID,
              visited : SUBSET NodeID]

ModuleMessage ==
    Routed
        \cup [type : {"Ping", "Pong", "ConnectedIDsRequest", "Neighbour"},
              from : NodeID, to : NodeID]
        \cup [type : {"ConnectedIDsReply"}, from : NodeID, to : NodeID, ids : SUBSET NodeID]

IsRouted(m) == m.type \in {"Closest", "Direct"}

\* A routed message goes from n to next.
Hop(m, n, next) == [m EXCEPT !.from = n, !.to = next, !.visited = @ \cup {n}]

\* closest_or_connected for a node with table t.
ClosestOrConnected(n, t, key, last) ==
    IF key \in connected[n] THEN <<key>> ELSE RouteClosest(n, t, key, last)

----------------------------------------------------------------------------
(***************************************************************************)
(* A network that has been running: every node has heard of some others,   *)
(* and they are connected.                                                 *)
(***************************************************************************)
WarmTable(n) ==
    LET after[i \in 0..Len(Warm(n))] ==
            IF i = 0 THEN NewTable
            ELSE NodeActive(n, AddNode(n, after[i - 1], Warm(n)[i]), Warm(n)[i])
    IN  after[Len(Warm(n))]

Init ==
    /\ tables = [n \in NodeID |-> WarmTable(n)]
    /\ connected = [n \in NodeID |-> Range(Warm(n))]
    /\ inFlight = [n \in NodeID |-> <<>>]
    /\ blacklisted = [n \in NodeID |-> {}]
    /\ net = {}
    /\ sends = 0 /\ changes = 0 /\ ticks = 0

----------------------------------------------------------------------------
(***************************************************************************)
(* Messages of the DHT storage: DHTRouterIn.                               *)
(***************************************************************************)
Sending(out) ==
    /\ sends < MaxSends /\ Cardinality(net) < MaxNet
    /\ sends' = sends + 1
    /\ net' = net \cup out
    /\ UNCHANGED <<nodeVars, changes, ticks>>

First(hops) == IF hops = <<>> THEN {} ELSE {Head(hops)}

NewClosest(n, key, read) ==
    Sending({[type |-> "Closest", from |-> n, to |-> next, orig |-> n, key |-> key,
              read |-> read, visited |-> {n}] :
                next \in First(ClosestOrConnected(n, tables[n], key, NoNode))})

NewDirect(n, dst) ==
    Sending({[type |-> "Direct", from |-> n, to |-> next, orig |-> n, key |-> dst,
              visited |-> {n}] :
                next \in First(ClosestOrConnected(n, tables[n], dst, NoNode))})

MessageBroadcast(n) ==
    Sending({[type |-> "Neighbour", from |-> n, to |-> m] : m \in ActiveNodes(tables[n])})

\* Dropped when there is no connection.
MessageNeighbour(n, dst) ==
    Sending({[type |-> "Neighbour", from |-> n, to |-> m] : m \in {dst} \cap connected[n]})

----------------------------------------------------------------------------
(***************************************************************************)
(* Messages of the network layer: RouterOut.                               *)
(***************************************************************************)
Changing ==
    /\ changes < MaxChanges /\ Cardinality(net) < MaxNet
    /\ changes' = changes + 1
    /\ UNCHANGED <<inFlight, blacklisted, net, sends, ticks>>

\* The list comes in any order.
AddedNodes(n, t, ids) == {AddNodes(n, t, order) : order \in SetToSeqs(ids)}

NodeInfoAvailable(n, ids) ==
    /\ Changing
    /\ \E t \in AddedNodes(n, tables[n], ids) : tables' = [tables EXCEPT ![n] = t]
    /\ UNCHANGED connected

NodeIDsConnected(n, ids) ==
    /\ Changing
    /\ connected' = [connected EXCEPT ![n] = ids]
    /\ \E t \in AddedNodes(n, tables[n], ids) : tables' = [tables EXCEPT ![n] = t]

\* connected stays as it is until the next NodeIDsConnected.  None of the
\* routers in src/ reports it: the handler is there for one that does.
Disconnected(n, id) ==
    /\ Changing
    /\ tables' = [tables EXCEPT ![n] = NodeDisconnected(n, @, id)]
    /\ UNCHANGED connected

\* Every second: those that are silent get a ping, and all active nodes that
\* are left are asked for theirs.
Clock(n) ==
    /\ ticks < MaxTicks /\ Cardinality(net) < MaxNet
    /\ ticks' = ticks + 1
    /\ tables' = [tables EXCEPT ![n] = Tick(@)]
    /\ net' = net
          \cup {[type |-> "Ping", from |-> n, to |-> m] : m \in Pings(tables[n])}
          \cup {[type |-> "ConnectedIDsRequest", from |-> n, to |-> m] :
                   m \in ActiveNodes(tables'[n])}
    /\ UNCHANGED <<connected, inFlight, blacklisted, sends, changes>>

----------------------------------------------------------------------------
(***************************************************************************)
(* Messages of other nodes: process_node_message.                          *)
(***************************************************************************)
\* The node that handled m, with table t before, has heard of the sender.
Heard(m, t, out) ==
    /\ tables' = [tables EXCEPT ![m.to] = NodeActive(m.to, t, m.from)]
    /\ net' = (net \ {m}) \cup out
    /\ UNCHANGED <<connected, sends, changes, ticks>>

Answer(m, out) ==
    /\ Heard(m, tables[m.to], out)
    /\ UNCHANGED <<inFlight, blacklisted>>

HandlePing(m) ==
    /\ m.type = "Ping"
    /\ Answer(m, {[type |-> "Pong", from |-> m.to, to |-> m.from]})

\* Their content goes to the DHT storage, if any.
HandlePong(m) ==
    /\ m.type \in {"Pong", "Neighbour"}
    /\ Answer(m, {})

HandleConnectedIDsRequest(m) ==
    /\ m.type = "ConnectedIDsRequest"
    /\ Answer(m, {[type |-> "ConnectedIDsReply", from |-> m.to, to |-> m.from,
                   ids |-> ActiveNodes(tables[m.to])]})

HandleConnectedIDsReply(m) ==
    /\ m.type = "ConnectedIDsReply"
    /\ \E t \in AddedNodes(m.to, tables[m.to], m.ids) : Heard(m, t, {})
    /\ UNCHANGED <<inFlight, blacklisted>>

\* For the node it is for, the message has arrived; without a next hop it is
\* dropped.
HandleDirect(m) ==
    /\ m.type = "Direct"
    /\ LET hops == IF m.key = m.to THEN <<>>
                   ELSE ClosestOrConnected(m.to, tables[m.to], m.key, m.from)
       IN  \/ hops = <<>> /\ Answer(m, {})
           \/ \E next \in Range(hops) : Answer(m, {Hop(m, m.to, next)})

\* Next hops that too many requests went to.
BadNodes(n) ==
    {x \in Range(inFlight[n]) :
        /\ LocalBlacklists
        /\ Cardinality({r \in DOMAIN inFlight[n] : inFlight[n][r] = x}) > MaxInFlight}

RemoveNodes(n, t, ids) ==
    LET after[i \in 0..Len(ids)] ==
            IF i = 0 THEN t ELSE RemoveNode(n, after[i - 1], ids[i])
    IN  after[Len(ids)]

\* Faulty: the requests of a blacklisted node stay.
BlacklistKeepsRequests(n) ==
    [table       |-> RemoveNodes(n, tables[n], SetToSeq(BadNodes(n))),
     inFlight    |-> inFlight[n],
     blacklisted |-> blacklisted[n] \cup BadNodes(n)]

\* blacklist_bad_nodes: at most one node, as every message adds one request.
BlacklistBadNodes(n) ==
    LET kept == {r \in DOMAIN inFlight[n] : inFlight[n][r] \notin BadNodes(n)}
    IN  [table       |-> RemoveNodes(n, tables[n], SetToSeq(BadNodes(n))),
         inFlight    |-> Restrict(inFlight[n], kept),
         blacklisted |-> blacklisted[n] \cup BadNodes(n)]

\* randomly_whitelist: sometimes, one node gets another chance.
RandomlyWhitelist(n, s) ==
    {s} \cup {[s EXCEPT !.table = AddNode(n, @, x), !.blacklisted = @ \ {x}] :
                 x \in IF LocalBlacklists THEN s.blacklisted ELSE {}}

\* Requests that go to next, if there is one.
Noted(requests, reads, next) ==
    IF next = {} THEN requests
    ELSE [r \in DOMAIN requests \cup reads |->
             IF r \in reads THEN CHOOSE x \in next : TRUE ELSE requests[r]]

\* Handed on towards the key, or given to the DHT storage of this node.  A
\* request is noted under its next hop, and never taken back by an answer.
HandleClosest(m) ==
    /\ m.type = "Closest"
    /\ LET n    == m.to
           s    == BlacklistBadNodes(n)
           next == First(ClosestOrConnected(n, s.table, m.key, m.from))
       IN  \E s2 \in RandomlyWhitelist(n, s) :
              /\ inFlight' = [inFlight EXCEPT ![n] =
                     Noted(s2.inFlight, {m.read} \cap ReadFloID, next)]
              /\ blacklisted' = [blacklisted EXCEPT ![n] = s2.blacklisted]
              /\ Heard(m, s2.table, {Hop(m, n, x) : x \in next})

Handle(m) ==
    \/ HandlePing(m) \/ HandlePong(m)
    \/ HandleConnectedIDsRequest(m) \/ HandleConnectedIDsReply(m)
    \/ HandleDirect(m) \/ HandleClosest(m)

Next ==
    \/ \E n \in NodeID :
          \/ \E key \in ID, read \in {NoRead, sends + 1} : NewClosest(n, key, read)
          \/ \E dst \in NodeID \ {n} : NewDirect(n, dst) \/ MessageNeighbour(n, dst)
          \/ MessageBroadcast(n)
          \/ \E ids \in SUBSET (NodeID \ {n}) :
                NodeInfoAvailable(n, ids) \/ NodeIDsConnected(n, ids)
          \/ \E id \in NodeID \ {n} : Disconnected(n, id)
          \/ Clock(n)
    \/ \E m \in net : Handle(m)

Spec == Init /\ [][Next]_vars

----------------------------------------------------------------------------
TypeOK ==
    /\ \A n \in NodeID : IsTable(tables[n]) /\ Known(tables[n]) \subseteq NodeID \ {n}
    /\ connected \in [NodeID -> SUBSET NodeID]
    /\ \A n \in NodeID : DOMAIN inFlight[n] \subseteq ReadFloID
                            /\ Range(inFlight[n]) \subseteq NodeID
    /\ blacklisted \in [NodeID -> SUBSET NodeID]
    /\ net \subseteq ModuleMessage
    /\ sends \in 0..MaxSends /\ changes \in 0..MaxChanges /\ ticks \in 0..MaxTicks

\* What the nodes do with routed messages is what KeyRouting allows, where
\* messages never go in circles (LoopFree in RoutingProofs): with tables
\* that are split, merged, learnt from hearsay and blacklisted meanwhile.
Routing == INSTANCE KeyRouting
    WITH known <- [n \in NodeID |-> ActiveNodes(tables[n]) \cup connected[n]],
         msgs  <- {[key |-> m.key, from |-> m.from, to |-> m.to, visited |-> m.visited] :
                      m \in {m \in net : IsRouted(m)}}

ImplementsKeyRouting == Routing!Spec

\* While nodes are blacklisted, no node has more requests of one node than
\* the limit and one, however the requests arrive.
InFlightBounded ==
    LocalBlacklists => \A n, x \in NodeID :
        Cardinality({r \in DOMAIN inFlight[n] : inFlight[n][r] = x}) <= MaxInFlight + 1

\* What every node keeps: well formed tables that never hold the node itself, and requests that
\* are bounded, whatever comes from the network.
RoutersWellFormed == TypeOK /\ InFlightBounded

----------------------------------------------------------------------------
(***************************************************************************)
(* What the code says, and does not do.                                    *)
(***************************************************************************)
\* messages.rs:361: "IMPOSSIBLE?: sending a message to a blacklisted node."
NoneToBlacklisted ==
    [][\A m \in net' \ net :
          m.type = "Closest" /\ m.from # m.orig => m.to \notin blacklisted'[m.from]]_vars
=============================================================================
