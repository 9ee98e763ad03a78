---------------------------- MODULE FloReplicas ----------------------------
(***************************************************************************)
(* What the DHT storage promises about the flos of a realm: users publish  *)
(* versions of flos, nodes hold copies.  A node only holds what was        *)
(* published, replaces a copy only by a newer version, may forget copies   *)
(* at any time, and holds no flo of the realm without the realm's own flo. *)
(*                                                                         *)
(* DHTStorage.tla implements this specification as long as every node has  *)
(* room for all flos.                                                      *)
(***************************************************************************)
EXTENDS Integers, FiniteSets

CONSTANTS Node, FloID, RealmID, Version, Nothing

VARIABLES
    published,   \* the flos users have stored, all versions
    copy         \* copy[n][id]: the version node n holds, or Nothing

Init ==
    /\ published = {}
    /\ copy = [n \in Node |-> [id \in FloID |-> Nothing]]

\* What a node that holds c can hold next, when pub has been published.
MayHold(c, pub, next) ==
    /\ \A id \in FloID :
          \/ next[id] \in {Nothing, c[id]}
          \/ /\ [id |-> id, version |-> next[id]] \in pub
             /\ c[id] # Nothing => c[id] < next[id]
    /\ next[RealmID] = Nothing => \A id \in FloID : next[id] = Nothing

\* A user publishes a flo on a node that may keep a copy.
Publish(n, flo) ==
    /\ published' = published \cup {flo}
    /\ \E next \in [FloID -> Version \cup {Nothing}] :
          /\ MayHold(copy[n], published', next)
          /\ copy' = [copy EXCEPT ![n] = next]

\* A node learns newer versions, or forgets some.
Replicate(n) ==
    /\ UNCHANGED published
    /\ \E next \in [FloID -> Version \cup {Nothing}] :
          /\ MayHold(copy[n], published, next)
          /\ copy' = [copy EXCEPT ![n] = next]

Next ==
    \E n \in Node :
        \/ \E flo \in [id : FloID, version : Version] : Publish(n, flo)
        \/ Replicate(n)

Spec == Init /\ [][Next]_<<published, copy>>
=============================================================================
