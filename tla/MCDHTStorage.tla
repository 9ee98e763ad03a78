---------------------------- MODULE MCDHTStorage ----------------------------
(***************************************************************************)
(* Networks of two or three nodes with ids of 3 bits, and a realm with the *)
(* flos 4 (its own), 1, 2 and 5; flos 2 and 5 are cuckoos of flo 1.        *)
(***************************************************************************)
EXTENDS DHTStorage

NI == INSTANCE NodeIds WITH Bits <- 3

MCDepth(root, id) == NI!GetDepth(root, id)

MCFloSize(id, v) == 2 + v

MCParent(id) == IF id \in {2, 5} THEN 1 ELSE NoFlo

\* Any user stores any flo, in two versions of flo 1.
MCUserFlo == NodeID \X {f \in Flo : f.version = 0 \/ f.id = 1}

\* Node 0 stores the realm and a flo; its cuckoos are stored on node 3, which
\* does not keep the realm.
MCCuckooUser == {<<IF f.id \in {1, 4} THEN 0 ELSE 3, f>> : f \in Flo}
MCCuckooConfig(n) == IF n = 3 THEN {9} ELSE {4}

\* Two nodes, connected; the second is configured for another realm, 9, until
\* the signalling server names this one.
MCPair == {<<0, 7>>, <<7, 0>>}
MCPairConfig(n) == IF n = 7 THEN {9} ELSE {}

\* Three nodes in a line.
MCLine == {<<0, 7>>, <<7, 0>>, <<7, 3>>, <<3, 7>>}
MCRealmConfig(n) == {4}
=============================================================================
