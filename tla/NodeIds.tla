------------------------------ MODULE NodeIds ------------------------------
(***************************************************************************)
(* The ids of nodes and flos (U256 of flarch/src/nodeids.rs), cut down     *)
(* from 256 to Bits bits, and their distance: KNode::get_depth of          *)
(* flmodules/src/dht_router/kademlia.rs.  A storage keeps flos, a routing  *)
(* table keeps nodes, by the depth of their ids seen from the own id.      *)
(***************************************************************************)
EXTENDS Integers, FiniteSetsExt

CONSTANT Bits    \* 256 in the code, at least 1

\* Bit i of an id, counted from the most significant one.
Bit(id, i) == (id \div 2^(Bits - 1 - i)) % 2

\* The number of leading bits the two ids share.  Equal ids have the depth of
\* ids that differ only in their last bit.
GetDepth(root, id) ==
    LET differ == {i \in 0..(Bits - 1) : Bit(root, i) # Bit(id, i)}
    IN  IF differ = {} THEN Bits - 1 ELSE Min(differ)
=============================================================================
