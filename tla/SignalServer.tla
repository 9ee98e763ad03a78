---------------------------- MODULE SignalServer ----------------------------
(***************************************************************************)
(* The signalling server of flmodules/src/network/signal.rs on the         *)
(* websocket server: it keeps a list of the nodes that are connected, and  *)
(* passes the messages that set up a connection between two of them.       *)
(*                                                                         *)
(* The handler takes the events one by one, in the order in which the      *)
(* tasks of the websocket server emitted them, and its messages are sent   *)
(* in the same step: a message that waits to be sent is an event that is   *)
(* handled later, for the handler sees of the connections only what the    *)
(* events tell.  A node answers a challenge when it gets it, but its       *)
(* answer stays on the wire until it is read.                              *)
(* Signatures are those of the node and cannot be forged: an announcement  *)
(* is the challenge it signs.  Statistics, the system realm and the order  *)
(* and length of the list are left out.                                    *)
(***************************************************************************)
EXTENDS WebSocketServer

CONSTANTS
    TTL,       \* ttl_minutes
    MaxWire,   \* bound on the messages of a connection on the wire
    MaxRequests  \* bound on what the nodes ask

ASSUME SignalAssumption == TTL \in Nat \ {0} /\ MaxWire \in Nat /\ MaxRequests \in Nat

VARIABLES
    connectionIds,  \* connection_ids: a bijection, from indexes to challenges and nodes
    info,           \* the nodes with an entry in info
    ttl,            \* of every index
    requests        \* what nodes asked so far

signalVars == <<connectionIds, info, ttl, requests>>
vars == <<serverVars, signalVars>>

\* The challenge of a connection, and the id of a node.
Challenge(i) == [kind |-> "challenge", of |-> i]
ID(n) == [kind |-> "node", of |-> n]
Left == {Challenge(i) : i \in Index} \cup {ID(n) : n \in Node}

\* get_by_left
IndexesOf(left) == {i \in DOMAIN connectionIds : connectionIds[i] = left}

\* Faulty: a map instead of a bijection.
InsertIntoMap(left, i) ==
    [k \in DOMAIN connectionIds \cup {i} |-> IF k = i THEN left ELSE connectionIds[k]]

\* BiMap: insert replaces what either side was bound to.
Insert(left, i) ==
    [k \in (DOMAIN connectionIds \ IndexesOf(left)) \cup {i} |->
        IF k = i THEN left ELSE connectionIds[k]]

\* ws_list_ids: the nodes of the list.
Listed == info

----------------------------------------------------------------------------
Init ==
    /\ ServerInit
    /\ connectionIds = <<>> /\ info = {} /\ ttl = <<>> /\ requests = 0

\* Faulty: the node of a connection is removed, not the id of its index.
RemoveOwners(indexes, t) ==
    /\ info' = info \ {owner[i] : i \in indexes}
    /\ connectionIds' = Restrict(connectionIds, DOMAIN connectionIds \ indexes)
    /\ ttl' = Restrict(t, DOMAIN t \ indexes)

\* remove_node, with the time to live t of the other connections.
RemoveNodes(indexes, t) ==
    /\ info' = info \ {n \in Node : \E i \in indexes \cap DOMAIN connectionIds :
                                        connectionIds[i] = ID(n)}
    /\ connectionIds' = Restrict(connectionIds, DOMAIN connectionIds \ indexes)
    /\ ttl' = Restrict(t, DOMAIN t \ indexes)

----------------------------------------------------------------------------
(***************************************************************************)
(* What comes from the nodes.                                              *)
(***************************************************************************)
\* Whichever node gets the challenge of i answers it.
AnswersChallenge(i) ==
    wire' = [c \in Accepted |->
                IF c \in Receivers(i)
                THEN Append(wire[c], [type |-> "Announce", challenge |-> i]) ELSE wire[c]]

\* A node asks for the list, after its announcement and then every 10 seconds, and wants to
\* connect to others.
SendRequest(i, msg) ==
    /\ Open(i) /\ msg # [type |-> "PeerSetup", to |-> owner[i]]
    /\ requests < MaxRequests /\ Len(wire[i]) < MaxWire
    /\ wire' = [wire EXCEPT ![i] = Append(@, msg)]
    /\ requests' = requests + 1
    /\ UNCHANGED <<owner, link, reading, new, connections, events>>
    /\ UNCHANGED <<connectionIds, info, ttl>>

----------------------------------------------------------------------------
(***************************************************************************)
(* The handler: msg_in.                                                    *)
(***************************************************************************)
Handle(e) ==
    /\ events # <<>> /\ Head(events) = e /\ events' = Tail(events)
    /\ UNCHANGED <<owner, link, reading, new, requests>>

\* Faulty: the time to live starts with the first message.
NewConnectionWithoutTTL(i) ==
    /\ Handle([type |-> "NewConnection", of |-> i])
    /\ connectionIds' = Insert(Challenge(i), i)
    /\ Send(i) /\ AnswersChallenge(i)
    /\ UNCHANGED <<info, ttl>>

\* msg_ws_connect
NewConnection(i) ==
    /\ Handle([type |-> "NewConnection", of |-> i])
    /\ connectionIds' = Insert(Challenge(i), i)
    /\ ttl' = [k \in DOMAIN ttl \cup {i} |-> IF k = i THEN TTL ELSE ttl[k]]
    /\ Send(i) /\ AnswersChallenge(i)
    /\ UNCHANGED info

\* A message from a connection, which keeps it alive.
Message(i, msg) ==
    /\ Handle([type |-> "Message", of |-> i, msg |-> msg])
    /\ ttl' = IF i \in DOMAIN ttl THEN [ttl EXCEPT ![i] = TTL] ELSE ttl
    /\ UNCHANGED wire

\* ws_announce: the signature must be the one of the challenge of this connection.
Verifies(i, challenge) == i \in DOMAIN connectionIds /\ connectionIds[i] = Challenge(challenge)

Announce(i, challenge) ==
    /\ Message(i, [type |-> "Announce", challenge |-> challenge])
    /\ IF Verifies(i, challenge)
       THEN /\ connectionIds' = Insert(ID(owner[i]), i)
            /\ info' = info \cup {owner[i]}
            /\ Send(i)
       ELSE UNCHANGED <<connectionIds, info, connections>>

\* ws_list_ids
ListIDs(i) ==
    /\ Message(i, [type |-> "ListIDsRequest"])
    /\ Send(i)
    /\ UNCHANGED <<connectionIds, info>>

\* ws_peer_setup: only from connections with the id of a node, which get_remote looks for, and to
\* nodes with an index.
PeerSetup(i, to) ==
    /\ Message(i, [type |-> "PeerSetup", to |-> to])
    /\ IF i \in IndexesOf(ID(owner[i])) /\ IndexesOf(ID(to)) # {}
       THEN \E dst \in IndexesOf(ID(to)) : Send(dst)
       ELSE UNCHANGED connections
    /\ UNCHANGED <<connectionIds, info>>

Disconnection(i) ==
    /\ Handle([type |-> "Disconnection", of |-> i])
    /\ RemoveNodes({i}, ttl)
    /\ UNCHANGED <<wire, connections>>

\* msg_in_timer, once a minute.
Timer ==
    /\ ttl # <<>>
    /\ RemoveNodes({i \in DOMAIN ttl : ttl[i] = 1}, [i \in DOMAIN ttl |-> ttl[i] - 1])
    /\ UNCHANGED <<serverVars, requests>>

Next ==
    \/ \E n \in Node :
        \/ AcceptConnection(n) /\ UNCHANGED signalVars
        \/ NodeLeaves(n) /\ UNCHANGED signalVars
    \/ HandshakeFails /\ UNCHANGED signalVars
    \/ \E i \in Accepted :
        \/ NewConnectionOut(i) /\ UNCHANGED signalVars
        \/ MessageOut(i) /\ UNCHANGED signalVars
        \/ DisconnectionOut(i) /\ UNCHANGED signalVars
        \/ NewConnection(i) \/ ListIDs(i) \/ Disconnection(i)
        \/ \E challenge \in Index : Announce(i, challenge)
        \/ \E to \in Node : PeerSetup(i, to)
        \/ \E msg \in Request : SendRequest(i, msg)
    \/ Timer

Spec == Init /\ [][Next]_vars

\* The timer of the server ticks every minute; nothing is assumed of the network, the nodes, or
\* the tasks that read.
FairSpec == Spec /\ WF_vars(Timer)

----------------------------------------------------------------------------
\* The types of the variables of both servers.
TypeOK ==
    /\ owner \in Seq(Node \cup {NoNode}) /\ Len(owner) <= MaxConnections
    /\ link \in Seq({"open", "gone"}) /\ DOMAIN link = Accepted
    /\ wire \in Seq(Seq(FromNode)) /\ DOMAIN wire = Accepted
    /\ reading \subseteq Accepted /\ new \subseteq Accepted
    /\ connections \in Seq(Accepted)
    /\ events \in Seq(WSServerOut)
    /\ DOMAIN connectionIds \subseteq Accepted /\ Range(connectionIds) \subseteq Left
    /\ info \subseteq Node
    /\ DOMAIN ttl \subseteq Accepted /\ Range(ttl) \subseteq 1..TTL
    /\ requests \in 0..MaxRequests

\* The list has exactly the nodes with an index, which is one, is of a connection of the node, and
\* has a time to live: however the connections of a node overlap, and in whatever order their events
\* come, no node is listed that nothing would ever remove, and no node is found by its id that
\* is not listed.
NoGhosts ==
    /\ \A n \in Node : n \in info <=> IndexesOf(ID(n)) # {}
    /\ \A i \in DOMAIN connectionIds :
        /\ i \in DOMAIN ttl
        /\ connectionIds[i] \in {Challenge(i), ID(owner[i])}
        /\ IndexesOf(connectionIds[i]) = {i}

\* The list of nodes, the indexes and the times to live belong together.
ListConsistent == TypeOK /\ NoGhosts

\* A node leaves the list only because the connection it is listed with is gone, or was idle for
\* too long: the end of an older connection, which may come late, takes no node off the list.
LeavesForAReason ==
    [][\A n \in info : n \notin info' =>
            \E i \in IndexesOf(ID(n)) : link[i] = "gone" \/ ttl[i] = 1]_vars

\* A node that is gone for good leaves the list for good, whether the end of its connection is
\* ever seen or not.
Gone(n) == \A i \in Accepted : owner[i] = n => ~Open(i)

GoneNodesLeave == \A n \in Node : <>[]Gone(n) => <>[](n \notin Listed)
=============================================================================
