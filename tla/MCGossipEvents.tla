--------------------------- MODULE MCGossipEvents ---------------------------
(***************************************************************************)
(* Two nodes that describe themselves, one of them twice: the second       *)
(* description replaces the first.  Three nodes in a line, the ends write  *)
(* a message each, and only the newer one is kept.                         *)
(***************************************************************************)
EXTENDS GossipEvents

MCUnique(c) == c = "NodeInfo"
MCMaxEvents(c) == IF c = "NodeInfo" THEN 2 ELSE 1

MCLine == {<<"a", "b">>, <<"b", "a">>, <<"b", "c">>, <<"c", "b">>}
MCPair == {<<"a", "b">>, <<"b", "a">>}

Text(n, t) == [category |-> "TextMessage", src |-> n, created |-> t]
Info(n, t) == [category |-> "NodeInfo", src |-> n, created |-> t]

MCLineEvents == {Text("a", 1), Text("c", 2)}
MCPairEvents == {Info("a", 1), Info("a", 3), Info("b", 2)}
=============================================================================
