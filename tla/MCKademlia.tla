----------------------------- MODULE MCKademlia -----------------------------
(***************************************************************************)
(* The table of node 0 among nodes with ids of 5 bits: 8, 10 and 12 are at *)
(* depth 1, 4 and 6 at depth 2, none at depth 0.                           *)
(***************************************************************************)
EXTENDS Kademlia

NI == INSTANCE NodeIds WITH Bits <- 5

MCDepth(root, id) == NI!GetDepth(root, id)
=============================================================================
