--------------------------- MODULE MCSignalServer ---------------------------
(***************************************************************************)
(* Two nodes, which differ in nothing but their name.                      *)
(***************************************************************************)
EXTENDS SignalServer, TLC

MCSymmetry == Permutations(Node)
=============================================================================
