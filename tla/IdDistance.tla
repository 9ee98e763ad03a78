----------------------------- MODULE IdDistance -----------------------------
(***************************************************************************)
(* Ids and their depth, for routing: the number of leading bits two ids    *)
(* share, KNode::get_depth of flmodules/src/dht_router/kademlia.rs.        *)
(* NodeIds.tla defines it on small ids; here are the facts that routing    *)
(* relies on.                                                              *)
(***************************************************************************)
EXTENDS Integers

CONSTANTS
    ID,             \* ids of nodes, and of flos, that messages are sent to
    NodeID,         \* ids of nodes
    Depth(_, _),    \* KNode::get_depth
    MaxDepth        \* number of bits of an id, minus one

ASSUME DepthAssumption ==
    /\ MaxDepth \in Nat
    /\ NodeID \subseteq ID
    /\ \A a, b \in ID : Depth(a, b) \in 0..MaxDepth
    /\ \A a, b \in ID : Depth(a, b) = Depth(b, a)

\* Two ids share the bits they both share with a third one; and when they
\* leave it at the same bit, they share this bit too.
ASSUME PrefixAssumption ==
    /\ \A a, b, c \in ID : Depth(a, b) <= Depth(a, c) \/ Depth(b, c) <= Depth(a, c)
    /\ \A a, b, c \in ID :
          Depth(a, b) = Depth(a, c) /\ Depth(a, b) < MaxDepth
              => Depth(b, c) > Depth(a, b)

\* get_depth gives ids that differ in their last bit only the depth of equal
\* ids.  Node ids are random, of 256 bits: no two of them are that close.
ASSUME NodesApartAssumption ==
    \A n, m \in NodeID : n # m => Depth(n, m) < MaxDepth
=============================================================================
