-------------------------- MODULE WebSocketServer --------------------------
(***************************************************************************)
(* The websocket server of flarch/src/web_rtc/libc/web_socket_server.rs:   *)
(* one task accepts connections, one task per connection reads it, and the *)
(* handler of the broker sends and closes.  The connections are numbered   *)
(* in the order they are accepted, from 1 here and from 0 in the code.     *)
(*                                                                         *)
(* The other ends are the websocket clients of the nodes.  A node has one  *)
(* connection it uses, the last one; when it connects again, or when it    *)
(* crashes, the server learns it by a Close message, by an error of the    *)
(* connection, or not at all.  The signalling server closes no connection  *)
(* itself, and is not stopped.                                             *)
(*                                                                         *)
(* The events of all tasks wait in one queue, in the order in which they   *)
(* were emitted.  The accepting task goes on once it has emitted, and a    *)
(* connection is read before its NewConnection is emitted.                 *)
(***************************************************************************)
EXTENDS Naturals, SequencesExt, Functions

CONSTANTS
    Node,           \* the nodes
    NoNode,         \* the owner of a connection whose handshake failed
    MaxConnections, \* bound on the connections that are accepted
    MaxEvents       \* bound on the events that wait when another is emitted

ASSUME ServerAssumption ==
    NoNode \notin Node /\ MaxConnections \in Nat /\ MaxEvents \in Nat

VARIABLES
    owner,        \* the node of every connection
    link,         \* its state as the node sees it: "open" or "gone"
    wire,         \* messages from the node that were not read yet
    reading,      \* the connections with a running loop_read
    new,          \* the connection whose NewConnection was not emitted yet
    connections,  \* the field of WebSocketServer: the connection at every place
    events        \* the WSServerOut that were not handled yet

serverVars == <<owner, link, wire, reading, new, connections, events>>

Index == 1..MaxConnections
Accepted == DOMAIN owner
Open(i) == link[i] = "open"

\* What a node sends: the answer to the challenge of a connection, a request for the list or to
\* be connected with another node.
Request == [type : {"ListIDsRequest"}] \cup [type : {"PeerSetup"}, to : Node]
FromNode == [type : {"Announce"}, challenge : Index] \cup Request

\* What the server tells of a connection.
WSServerOut ==
    [type : {"NewConnection", "Disconnection"}, of : Index]
        \cup [type : {"Message"}, of : Index, msg : FromNode]

----------------------------------------------------------------------------
ServerInit ==
    /\ owner = <<>> /\ link = <<>> /\ wire = <<>>
    /\ reading = {} /\ new = {}
    /\ connections = <<>> /\ events = <<>>

\* A node closes its connection, or crashes.
NodeLeaves(n) ==
    /\ \E i \in Accepted : owner[i] = n /\ Open(i)
    /\ link' = [i \in Accepted |-> IF owner[i] = n THEN "gone" ELSE link[i]]
    /\ UNCHANGED <<owner, wire, reading, new, connections, events>>

\* The accepting task handles one connection after the other, until it has emitted its
\* NewConnection.  Every one counts, also if its handshake fails.
AcceptConnection(n) ==
    /\ new = {} /\ Len(owner) < MaxConnections
    /\ LET i == Len(owner) + 1
       IN  /\ owner' = Append(owner, n)
           /\ connections' = Append(connections, i)
           /\ reading' = reading \cup {i} /\ new' = {i}
           /\ link' = Append([k \in Accepted |-> IF owner[k] = n THEN "gone" ELSE link[k]], "open")
           /\ wire' = Append(wire, <<>>)
    /\ UNCHANGED events

HandshakeFails ==
    /\ new = {} /\ Len(owner) < MaxConnections
    /\ owner' = Append(owner, NoNode)
    /\ link' = Append(link, "gone") /\ wire' = Append(wire, <<>>)
    /\ UNCHANGED <<reading, new, connections, events>>

----------------------------------------------------------------------------
(***************************************************************************)
(* emit_msg_out: the events of the server.                                 *)
(***************************************************************************)
Emit(e) ==
    /\ Len(events) < MaxEvents
    /\ events' = Append(events, e)
    /\ UNCHANGED <<owner, link, connections>>

NewConnectionOut(i) ==
    /\ i \in new /\ new' = {}
    /\ Emit([type |-> "NewConnection", of |-> i])
    /\ UNCHANGED <<wire, reading>>

MessageOut(i) ==
    /\ i \in reading /\ wire[i] # <<>>
    /\ wire' = [wire EXCEPT ![i] = Tail(@)]
    /\ Emit([type |-> "Message", of |-> i, msg |-> Head(wire[i])])
    /\ UNCHANGED <<reading, new>>

\* loop_read ends with a Close of the node, with an error of the connection, or because a message
\* to the connection could not be sent; what it has not read is lost.  It may never see the end of
\* a connection.
DisconnectionOut(i) ==
    /\ i \in reading /\ ~Open(i)
    /\ reading' = reading \ {i}
    /\ wire' = [wire EXCEPT ![i] = <<>>]
    /\ Emit([type |-> "Disconnection", of |-> i])
    /\ UNCHANGED new

----------------------------------------------------------------------------
(***************************************************************************)
(* WSServerIn::Message: whatever is at the place of the index gets it.  A  *)
(* message to a connection that is gone may fail: then it is closed, and   *)
(* removed.                                                                *)
(***************************************************************************)
\* The connections that get a message to index: one or none.
Receivers(index) ==
    {c \in Accepted : index \in DOMAIN connections /\ connections[index] = c /\ Open(c)}

Send(index) ==
    \/ UNCHANGED connections
    \/ /\ index \in DOMAIN connections /\ ~Open(connections[index])
       /\ connections' = RemoveAt(connections, index)

\* "Send a message to the connection with index" (websocket.rs:97): every connection that is
\* open is found at the place of its index.
IndexFindsConnection ==
    \A i \in Accepted : Open(i) =>
        i \in DOMAIN connections /\ connections[i] = i
=============================================================================
