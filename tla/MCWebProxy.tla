----------------------------- MODULE MCWebProxy -----------------------------
(***************************************************************************)
(* Two requests, which differ in nothing but their name.                   *)
(***************************************************************************)
EXTENDS WebProxy, TLC

MCSymmetry == Permutations(Request)
=============================================================================
