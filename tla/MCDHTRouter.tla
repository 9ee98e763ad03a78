---------------------------- MODULE MCDHTRouter ----------------------------
(***************************************************************************)
(* Nodes with ids of 5 bits: from 16, the nodes 18 and 20 are on the same  *)
(* branch, at depths 3 and 2, and 0 on the other; 24 is the id of a flo    *)
(* between them, at depth 1.                                               *)
(***************************************************************************)
EXTENDS DHTRouter

NI == INSTANCE NodeIds WITH Bits <- 5

MCDepth(root, id) == NI!GetDepth(root, id)

\* Node 16 knows all the others, and they know it.
MCStar(n) == IF n = 16 THEN <<0, 20, 18>> ELSE <<16>>
=============================================================================
