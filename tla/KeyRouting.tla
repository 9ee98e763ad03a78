----------------------------- MODULE KeyRouting -----------------------------
(***************************************************************************)
(* How messages find their way to a key, whatever the routing tables hold: *)
(* what the DHT router (DHTRouter.tla, flmodules/src/dht_router) promises. *)
(*                                                                         *)
(* A node hands a message to a node it knows that shares more bits with    *)
(* the key; or, when the message came from another node, to one on its own *)
(* "wrong" branch, that shares more bits with it than the key and the last *)
(* hop do.  What a node knows may change at any time in any way.           *)
(***************************************************************************)
EXTENDS IdDistance

VARIABLES
    known,   \* known[n]: the other nodes n can send to
    msgs     \* the messages on their way, each with the nodes it has visited

vars == <<known, msgs>>

Message == [key : ID, from : NodeID, to : NodeID, visited : SUBSET NodeID]

KnownSets == {k \in [NodeID -> SUBSET NodeID] : \A n \in NodeID : n \notin k[n]}

Closer(n, key, next) == Depth(n, next) = Depth(n, key)

WrongBranch(n, key, last, next) ==
    /\ Depth(n, next) > Depth(n, key)
    /\ Depth(n, next) > Depth(n, last)

Init ==
    /\ known \in KnownSets
    /\ msgs = {}

\* A new message leaves its origin.
Start(n, key) ==
    \E next \in known[n] :
        /\ Closer(n, key, next)
        /\ msgs' = msgs \cup {[key |-> key, from |-> n, to |-> next, visited |-> {n}]}

\* Messages that took the same way are one in msgs: one that is handed on may
\* leave another one behind.
Forward(m) ==
    \E next \in known[m.to], done \in SUBSET {m} :
        /\ \/ Closer(m.to, m.key, next)
           \/ WrongBranch(m.to, m.key, m.from, next)
        /\ msgs' = (msgs \ done) \cup
              {[key |-> m.key, from |-> m.to, to |-> next,
                visited |-> m.visited \cup {m.to}]}

\* The message has arrived where it can get, or is lost.
End(m) == msgs' = msgs \ {m}

\* Any step may change what nodes know.
Next ==
    /\ known' \in KnownSets
    /\ \/ UNCHANGED msgs
       \/ \E n \in NodeID, key \in ID : Start(n, key)
       \/ \E m \in msgs : Forward(m) \/ End(m)

Spec == Init /\ [][Next]_vars

----------------------------------------------------------------------------
TypeOK == known \in KnownSets /\ msgs \subseteq Message

\* No message ever comes back to a node it has visited, although no node
\* remembers it and all tables change: route_closest needs the last hop only.
NoLoop == \A m \in msgs : m.to \notin m.visited

\* Of the visited nodes, every one shares fewer bits with the key than the
\* next hop; or as many, and fewer with the next hop than the last one does.
Ordered(m) ==
    \A v \in m.visited :
        \/ Depth(v, m.key) < Depth(m.to, m.key)
        \/ /\ Depth(v, m.key) = Depth(m.to, m.key)
           /\ Depth(v, m.to) <= Depth(m.from, m.to)

IInv ==
    /\ TypeOK
    /\ \A m \in msgs :
          /\ m.from \in m.visited
          /\ m.to \notin m.visited
          /\ Ordered(m)
=============================================================================
