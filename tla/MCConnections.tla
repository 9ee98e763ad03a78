--------------------------- MODULE MCConnections ---------------------------
(***************************************************************************)
(* Two times the natural logarithm of up to four nodes, rounded up.        *)
(***************************************************************************)
EXTENDS Connections

MCTwoLn(n) == CASE n = 2 -> 2 [] n = 3 -> 3 [] n = 4 -> 3
=============================================================================
