---------------------------- MODULE Connections ----------------------------
(***************************************************************************)
(* The connections of one node to its peers, kept by four tasks that talk  *)
(* through the queues of their brokers:                                    *)
(*   - RandomConnections of flmodules/src/random_connections decides whom  *)
(*     to connect to, and tells the others who is connected;               *)
(*   - Ping of flmodules/src/ping watches the connected nodes;             *)
(*   - Messages of flmodules/src/network/broker.rs is between them and the *)
(*     WebRTC connections;                                                 *)
(*   - WebRTCConn of flarch/src/web_rtc/mod.rs holds a NodeConnection for  *)
(*     every peer, for ever.                                               *)
(* The timer of the node ticks once a second for each of the first two:    *)
(* here, when few messages wait.                                           *)
(*                                                                         *)
(* A peer may die and come back.  Its channel breaks without a notice, or  *)
(* this node sees it close.  What the peers send is a pong: other messages *)
(* do nothing but to connect their sender, as all do.  Infos of nodes, the *)
(* age of connected nodes, and the counters of packets are left out, and   *)
(* so is DropConnection, which no node sends any more.                     *)
(***************************************************************************)
EXTENDS Integers, SequencesExt, Functions

CONSTANTS
    Peer,               \* the other nodes
    TwoLn(_),           \* (n as f64).ln() * 2, rounded up
    FillConnected,      \* fill_connected
    ConnectingTimeout,  \* connecting_timeout
    Interval, Timeout,  \* of PingConfig
    MaxFaults,          \* bound on peers that die and channels that close
    MaxQueue            \* bound on the waiting messages when something new happens

ASSUME ConnectionsAssumption ==
    /\ IsFiniteSet(Peer)
    /\ \A n \in 2..Cardinality(Peer) : TwoLn(n) \in Nat
    /\ FillConnected \in Nat \ {0} /\ ConnectingTimeout \in Nat
    /\ Interval \in Nat \ {0} /\ Timeout \in Nat
    /\ MaxFaults \in Nat /\ MaxQueue \in Nat \ {0}

VARIABLES
    storage,      \* RandomStorage
    fill,         \* fill of RandomConnections
    lastping,     \* stats of Ping: of every node it watches
    connections,  \* connections of Network
    nodeConns,    \* connections of WebRTCConn
    channel,      \* the data channel to every peer
    alive,        \* the peers that run
    toRandom, toPing, toNet,  \* the queues of the brokers
    faults        \* the faults so far

vars == <<storage, fill, lastping, connections, nodeConns, channel, alive, toRandom, toPing, toNet,
          faults>>

\* connecting counts the ticks of its nodes, which nothing reads: up to the timeout, here.
Storage ==
    [known : SUBSET Peer, connected : SUBSET Peer,
     connecting : UNION {[S -> 0..(ConnectingTimeout + 1)] : S \in SUBSET Peer}]

RandomIn ==
    [type : {"NodeList"}, nodes : SUBSET Peer] \cup [type : {"Tick"}]
        \cup [type : {"NodeConnected", "NodeDisconnected", "NodeFailure", "FromNetwork",
                      "ToNetwork"}, node : Peer]
PingIn ==
    [type : {"UpdateNodeList"}, nodes : SUBSET Peer] \cup [type : {"Tick"}]
        \cup [type : {"DisconnectNode", "Pong"}, node : Peer]
NetworkIn == [type : {"Connect", "Disconnect", "MessageToNode"}, node : Peer]

Msg(type, p) == [type |-> type, node |-> p]
Msgs(type, nodes) == SetToSeq({Msg(type, p) : p \in nodes})

----------------------------------------------------------------------------
(***************************************************************************)
(* RandomStorage: every change of s.                                       *)
(***************************************************************************)
Empty == <<>>
NoStorage == [known |-> {}, connected |-> {}, connecting |-> Empty]

Connecting(s) == DOMAIN s.connecting

NewList(s, nodes) == [s EXCEPT !.known = @ \cup nodes]

\* Faulty: a connected node stays in the list of those it connects to.
ConnectToo(s, p) == [s EXCEPT !.known = @ \cup {p}, !.connected = @ \cup {p}]

Connect(s, p) ==
    [known |-> s.known \cup {p}, connected |-> s.connected \cup {p},
     connecting |-> Restrict(s.connecting, Connecting(s) \ {p})]

\* disconnect and failure
Disconnect(s, p) ==
    [known |-> s.known \ {p}, connected |-> s.connected \ {p},
     connecting |-> Restrict(s.connecting, Connecting(s) \ {p})]

StartConnecting(s, nodes) ==
    [s EXCEPT !.connecting = [p \in DOMAIN @ \cup nodes |-> IF p \in DOMAIN @ THEN @[p] ELSE 0]]

TickStorage(s) ==
    [s EXCEPT !.connecting = [p \in DOMAIN @ |->
        IF @[p] > ConnectingTimeout THEN @[p] ELSE @[p] + 1]]

TotalLen(s) == Cardinality(s.connected) + Cardinality(Connecting(s))

NodesNeeded(s) ==
    LET n == Cardinality(s.known) IN IF n <= 1 THEN n ELSE TwoLn(n)

\* choose_new: any n of the known nodes that are not used, or all if there are less.
Unused(s) == s.known \ (s.connected \cup Connecting(s))

ChooseNew(s, n) ==
    {S \in SUBSET Unused(s) :
        Cardinality(S) = IF n < Cardinality(Unused(s)) THEN n ELSE Cardinality(Unused(s))}

\* fill_up
FillUp(s) ==
    LET needed == (NodesNeeded(s) + 1) \div 2 - TotalLen(s)
    IN  ChooseNew(s, IF needed > 0 THEN needed ELSE 0)

----------------------------------------------------------------------------
(***************************************************************************)
(* Messages of RandomConnections: process_message.                         *)
(***************************************************************************)
RandomHandles(type) ==
    /\ toRandom # <<>> /\ Head(toRandom).type = type
    /\ toRandom' = Tail(toRandom)
    /\ UNCHANGED <<lastping, connections, nodeConns, channel, alive, faults>>

ConnectedMsg == [type |-> "UpdateNodeList", nodes |-> storage'.connected]

\* new_connection for the storage s.
NewConnection(s, more) ==
    \E S \in FillUp(s) :
        /\ storage' = StartConnecting(s, S)
        /\ toNet' = toNet \o Msgs("Connect", S) \o more

NodeList ==
    /\ RandomHandles("NodeList")
    /\ NewConnection(NewList(storage, Head(toRandom).nodes), <<>>)
    /\ UNCHANGED <<fill, toPing>>

NodeConnected ==
    /\ RandomHandles("NodeConnected")
    /\ storage' = Connect(storage, Head(toRandom).node)
    /\ toPing' = Append(toPing, ConnectedMsg)
    /\ UNCHANGED <<fill, toNet>>

\* Faulty: Ping is not told.
NodeDisconnectedQuietly ==
    /\ RandomHandles("NodeDisconnected")
    /\ NewConnection(Disconnect(storage, Head(toRandom).node), <<>>)
    /\ UNCHANGED <<fill, toPing>>

NodeDisconnected ==
    /\ RandomHandles("NodeDisconnected")
    /\ NewConnection(Disconnect(storage, Head(toRandom).node), <<>>)
    /\ toPing' = Append(toPing, ConnectedMsg)
    /\ UNCHANGED fill

NodeFailure ==
    /\ RandomHandles("NodeFailure")
    /\ LET p == Head(toRandom).node
       IN  /\ NewConnection(Disconnect(storage, p), <<Msg("Disconnect", p)>>)
           /\ toPing' = toPing \o <<ConnectedMsg, Msg("DisconnectNode", p)>>
    /\ UNCHANGED fill

\* A message of a peer connects it; there is no list of it for the others yet.
FromNetwork ==
    /\ RandomHandles("FromNetwork")
    /\ LET p == Head(toRandom).node
       IN  /\ storage' = Connect(storage, p)
           /\ toPing' = Append(toPing, Msg("Pong", p))
    /\ UNCHANGED <<fill, toNet>>

\* A message of Ping: if its node is not connected, it is taken off all lists.
ToNetwork ==
    /\ RandomHandles("ToNetwork")
    /\ LET p == Head(toRandom).node
       IN  IF p \in storage.connected
           THEN /\ toNet' = Append(toNet, Msg("MessageToNode", p))
                /\ UNCHANGED <<storage, toPing>>
           ELSE /\ storage' = Disconnect(storage, p)
                /\ toPing' = Append(toPing, ConnectedMsg)
                /\ UNCHANGED toNet
    /\ UNCHANGED fill

\* The tick fills up, and every fill_connected ticks adds one more connection.
RandomTick ==
    /\ RandomHandles("Tick")
    /\ fill' = (fill + 1) % FillConnected
    /\ \E S \in FillUp(TickStorage(storage)) :
        LET s == StartConnecting(TickStorage(storage), S)
            more == IF fill' = 0 /\ TotalLen(s) < NodesNeeded(s) THEN 1 ELSE 0
        IN  \E T \in ChooseNew(s, more) :
                /\ storage' = StartConnecting(s, T)
                /\ toNet' = toNet \o Msgs("Connect", S) \o Msgs("Connect", T)
    /\ toPing' = Append(toPing, ConnectedMsg)

----------------------------------------------------------------------------
(***************************************************************************)
(* Messages of Ping: process_msg.                                          *)
(***************************************************************************)
PingHandles(type) ==
    /\ toPing # <<>> /\ Head(toPing).type = type
    /\ toPing' = Tail(toPing)
    /\ UNCHANGED <<storage, fill, connections, nodeConns, channel, alive, toNet, faults>>

Watched == DOMAIN lastping

\* Faulty: every list starts all over.
UpdateNodeListAnew ==
    /\ PingHandles("UpdateNodeList")
    /\ lastping' = [p \in Head(toPing).nodes |-> 0]
    /\ UNCHANGED toRandom

UpdateNodeList ==
    /\ PingHandles("UpdateNodeList")
    /\ lastping' = [p \in Head(toPing).nodes |-> IF p \in Watched THEN lastping[p] ELSE 0]
    /\ UNCHANGED toRandom

\* remove_node: the failures it notes are forgotten with the next tick.
DisconnectNode ==
    /\ PingHandles("DisconnectNode")
    /\ lastping' = Restrict(lastping, Watched \ {Head(toPing).node})
    /\ UNCHANGED toRandom

\* A pong of a node that is not watched adds it.
Pong ==
    /\ PingHandles("Pong")
    /\ lastping' = [p \in Watched \cup {Head(toPing).node} |->
                        IF p = Head(toPing).node THEN 0 ELSE lastping[p]]
    /\ UNCHANGED toRandom

PingTick ==
    /\ PingHandles("Tick")
    /\ LET next == [p \in Watched |-> lastping[p] + 1]
           failed == {p \in Watched : next[p] >= Timeout + Interval}
           pinged == {p \in Watched \ failed : next[p] >= Interval}
       IN  /\ lastping' = Restrict(next, Watched \ failed)
           /\ toRandom' = toRandom \o Msgs("ToNetwork", pinged) \o Msgs("NodeFailure", failed)

----------------------------------------------------------------------------
(***************************************************************************)
(* Messages of Network: msg_call, and what WebRTCConn makes of it.         *)
(***************************************************************************)
NetworkHandles(type) ==
    /\ toNet # <<>> /\ Head(toNet).type = type
    /\ toNet' = Tail(toNet)
    /\ UNCHANGED <<storage, fill, lastping, alive, toPing, faults>>

\* assure_connection and ensure_connection: only a new NodeConnection sends an Init to the peer,
\* and only that starts a channel.
Assure(p) ==
    /\ connections' = connections \cup {p}
    /\ nodeConns' = nodeConns \cup {p}
    /\ channel' = IF p \notin connections \cup nodeConns
                  THEN [channel EXCEPT ![p] = "setup"] ELSE channel

\* Connect, and MessageToNode, whose text the peer gets if it can.
ConnectOrMessage ==
    /\ NetworkHandles("Connect") \/ NetworkHandles("MessageToNode")
    /\ Assure(Head(toNet).node)
    /\ UNCHANGED toRandom

\* disconnect: the reset of the channel may be reported once more.
NetworkDisconnect ==
    /\ NetworkHandles("Disconnect")
    /\ LET p == Head(toNet).node
           gone == <<Msg("NodeDisconnected", p)>>
       IN  /\ connections' = connections \ {p}
           /\ channel' = IF p \in connections THEN [channel EXCEPT ![p] = "none"] ELSE channel
           /\ \/ toRandom' = toRandom \o gone
              \/ p \in connections /\ toRandom' = toRandom \o gone \o gone
    /\ UNCHANGED nodeConns

----------------------------------------------------------------------------
(***************************************************************************)
(* The world: the timer, the signalling server, and the peers.             *)
(***************************************************************************)
HasTime == Len(toRandom) + Len(toPing) + Len(toNet) < MaxQueue

Tick ==
    /\ HasTime
    /\ toRandom' = Append(toRandom, [type |-> "Tick"])
    /\ toPing' = Append(toPing, [type |-> "Tick"])
    /\ UNCHANGED <<storage, fill, lastping, connections, nodeConns, channel, alive, toNet, faults>>

ToRandom(msg) ==
    /\ HasTime
    /\ toRandom' = Append(toRandom, msg)
    /\ UNCHANGED <<storage, fill, lastping, toPing, toNet>>

\* The list of the signalling server, which may have nodes that do not run any more.
NodeListFromWS(nodes) ==
    /\ ToRandom([type |-> "NodeList", nodes |-> nodes])
    /\ UNCHANGED <<connections, nodeConns, channel, alive, faults>>

\* A channel that was set up opens.
ChannelOpens(p) ==
    /\ channel[p] = "setup" /\ p \in alive
    /\ ToRandom(Msg("NodeConnected", p))
    /\ channel' = [channel EXCEPT ![p] = "open"]
    /\ UNCHANGED <<connections, nodeConns, alive, faults>>

\* A peer sets up a channel: an Offer passed on by the signalling server.
PeerSetup(p) ==
    /\ p \in alive /\ channel[p] # "open"
    /\ connections' = connections \cup {p} /\ nodeConns' = nodeConns \cup {p}
    /\ channel' = [channel EXCEPT ![p] = "setup"]
    /\ UNCHANGED <<storage, fill, lastping, alive, toRandom, toPing, toNet, faults>>

PeerSends(p) ==
    /\ channel[p] = "open"
    /\ ToRandom(Msg("FromNetwork", p))
    /\ UNCHANGED <<connections, nodeConns, channel, alive, faults>>

\* A channel closes, which is reported; network/broker.rs keeps the connection.
ChannelCloses(p) ==
    /\ faults < MaxFaults /\ faults' = faults + 1
    /\ channel[p] = "open"
    /\ ToRandom(Msg("NodeDisconnected", p))
    /\ channel' = [channel EXCEPT ![p] = "none"]
    /\ UNCHANGED <<connections, nodeConns, alive>>

\* A peer dies, and its channel with it: nobody tells.
PeerDies(p) ==
    /\ faults < MaxFaults /\ faults' = faults + 1
    /\ p \in alive
    /\ alive' = alive \ {p}
    /\ channel' = [channel EXCEPT ![p] = IF @ = "open" THEN "none" ELSE @]
    /\ UNCHANGED <<storage, fill, lastping, connections, nodeConns, toRandom, toPing, toNet>>

PeerReturns(p) ==
    /\ p \notin alive
    /\ alive' = alive \cup {p}
    /\ UNCHANGED <<storage, fill, lastping, connections, nodeConns, channel, toRandom, toPing,
                   toNet, faults>>

----------------------------------------------------------------------------
Init ==
    /\ storage = NoStorage
    /\ fill = 0
    /\ lastping = Empty
    /\ connections = {} /\ nodeConns = {}
    /\ channel = [p \in Peer |-> "none"]
    /\ alive = Peer
    /\ toRandom = <<>> /\ toPing = <<>> /\ toNet = <<>>
    /\ faults = 0

RandomNext ==
    NodeList \/ NodeConnected \/ NodeDisconnected \/ NodeFailure \/ FromNetwork \/ ToNetwork
        \/ RandomTick
PingNext == UpdateNodeList \/ DisconnectNode \/ Pong \/ PingTick
NetworkNext == ConnectOrMessage \/ NetworkDisconnect

Next ==
    \/ RandomNext \/ PingNext \/ NetworkNext \/ Tick
    \/ \E nodes \in SUBSET Peer : NodeListFromWS(nodes)
    \/ \E p \in Peer :
        \/ ChannelOpens(p) \/ PeerSetup(p) \/ PeerSends(p) \/ ChannelCloses(p)
        \/ PeerDies(p) \/ PeerReturns(p)

Spec == Init /\ [][Next]_vars

\* The brokers handle their messages, and the node has time for every tick in the end.
FairSpec ==
    Spec /\ WF_vars(RandomNext) /\ WF_vars(PingNext) /\ WF_vars(NetworkNext) /\ SF_vars(Tick)

----------------------------------------------------------------------------
\* The types of the variables of the four tasks.
TypeOK ==
    /\ storage \in Storage
    /\ fill \in 0..(FillConnected - 1)
    /\ Watched \subseteq Peer /\ Range(lastping) \subseteq 0..(Timeout + Interval - 1)
    /\ connections \subseteq nodeConns /\ nodeConns \subseteq Peer
    /\ channel \in [Peer -> {"none", "setup", "open"}] /\ alive \subseteq Peer
    /\ toRandom \in Seq(RandomIn) /\ toPing \in Seq(PingIn) /\ toNet \in Seq(NetworkIn)
    /\ faults \in 0..MaxFaults

\* A known node is connected, connecting, or unused: no node is counted twice among the
\* connections this node needs, and none is connected that it does not know.
ListsDisjoint ==
    /\ storage.connected \cap Connecting(storage) = {}
    /\ storage.connected \cup Connecting(storage) \subseteq storage.known

\* The lists of nodes and the messages between the tasks.
ListsConsistent == TypeOK /\ ListsDisjoint

\* With no message on the way to Ping, it watches only nodes that are connected: it never lets a
\* connection fail, nor sends to a node, that RandomConnections has given up.
WatchedAreConnected == toPing = <<>> => Watched \subseteq storage.connected

\* A peer that is gone for good, or never gets a channel again, is not connected for ever, though
\* nobody may have seen its channel close.
DeadPeersLeave ==
    \A p \in Peer : <>[](channel[p] # "open") => <>[](p \notin storage.connected)

\* connecting_timeout is "how long a node stays in the connecting-queue before it is considered to
\* have a failed connection" (messages.rs:230).
ConnectingTimesOut ==
    \A p \in Connecting(storage) : storage.connecting[p] <= ConnectingTimeout
=============================================================================
