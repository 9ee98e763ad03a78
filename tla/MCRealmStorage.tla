--------------------------- MODULE MCRealmStorage ---------------------------
(***************************************************************************)
(* A storage of the node 0 with ids of 3 bits: flo 1 is at depth 2, flos 2 *)
(* and 3 at depth 1, flo 5 and the realm, 4, at depth 0, where eviction    *)
(* starts.  MaxSpace holds three or four of the five flos.                 *)
(***************************************************************************)
EXTENDS RealmStorage

NI == INSTANCE NodeIds WITH Bits <- 3

MCDepth(root, id) == NI!GetDepth(root, id)

\* Version 1 of a flo is larger, that of flo 3 too large to be stored.
MCFloSize(id, v) == CASE id = 3 /\ v = 1 -> 5
                      [] id = 1          -> 3 + v
                      [] OTHER           -> 2 + v

\* Flos 2, 3 and 5 are cuckoos of the realm's flo, which three of them hold over MaxSpace; flo 1
\* is a cuckoo of flo 3.
MCParent(id) == CASE id \in {2, 3, 5} -> RealmID
                  [] id = 1           -> 3
                  [] OTHER            -> NoFlo

\* For the run on termination alone: every flo is a cuckoo of the realm's flo.
MCRealmParent(id) == IF id = RealmID THEN NoFlo ELSE RealmID

\* For the runs on admission: no cuckoos.
MCNoParent(id) == NoFlo
=============================================================================
