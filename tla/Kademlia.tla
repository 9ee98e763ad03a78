------------------------------ MODULE Kademlia ------------------------------
(***************************************************************************)
(* One routing table: Kademlia of flmodules/src/dht_router/kademlia.rs     *)
(* with every sequence of calls its owner, Messages of the same directory, *)
(* makes.  add_nodes is a sequence of AddNode.  The clock is Tick, once a  *)
(* second.                                                                 *)
(***************************************************************************)
EXTENDS KademliaCore

CONSTANT Root    \* the own id

ASSUME RootAssumption == Root \in NodeID

VARIABLES
    table,    \* the Kademlia structure
    heard,    \* history: known nodes that have sent a message since they are
    asked     \* history: known nodes pinged since their last message

tableVars == <<table, heard, asked>>

TableInit ==
    /\ table = NewTable
    /\ heard = {}
    /\ asked = {}

\* What is no longer known has no history.
Remember(h, a) ==
    /\ heard' = h \cap Known(table')
    /\ asked' = a \cap Known(table')

\* Kademlia::add_node, for every node the network tells of.
Add(id) ==
    /\ table' = AddNode(Root, table, id)
    /\ Remember(heard, asked)

\* Kademlia::node_disconnected.
Disconnect(id) ==
    /\ table' = NodeDisconnected(Root, table, id)
    /\ Remember(heard, asked)

\* Kademlia::remove_node, for a node that gets blacklisted.
Blacklist(id) ==
    /\ table' = RemoveNode(Root, table, id)
    /\ Remember(heard, asked)

\* Kademlia::node_active: a message of the node arrived.
Hear(id) ==
    /\ table' = NodeActive(Root, table, id)
    /\ Remember(heard \cup {id}, asked \ {id})

\* Kademlia::tick: the nodes returned are pinged.
TableClock ==
    /\ table' = Tick(table)
    /\ Remember(heard, asked \cup Pings(table))

TableNext ==
    \/ \E id \in NodeID : Add(id) \/ Disconnect(id) \/ Blacklist(id) \/ Hear(id)
    \/ TableClock

\* The clock never stops.
TableSpec == TableInit /\ [][TableNext]_tableVars /\ WF_tableVars(TableClock)

----------------------------------------------------------------------------
TableTypeOK ==
    /\ IsTable(table)
    /\ heard \subseteq Known(table) /\ asked \subseteq Known(table)

\* Bucket d holds nodes of depth d only, the root bucket the rest; every node
\* is in one place, and the own id in none.  The tests of kademlia.rs look for
\* the depths after some calls (kademlia_test_cache).
NodesInTheirBucket ==
    /\ Root \notin Known(table)
    /\ \A d \in DOMAIN table.buckets : \A id \in IDs(KNodes(table.buckets[d])) :
          Depth(Root, id) = d - 1
    /\ \A id \in IDs(KNodes(table.root_bucket)) :
          Depth(Root, id) >= Len(table.buckets)
    /\ \A b \in Buckets(table) : \A i, j \in DOMAIN KNodes(b) :
          KNodes(b)[i].id = KNodes(b)[j].id => i = j

\* No bucket but the root bucket grows beyond its limits, however nodes are
\* moved around.  The unsigned 2 * (k - active) of tick_cache relies on it.
BucketsWithinLimits ==
    \A b \in Range(table.buckets) : Len(b.active) <= K /\ Len(b.cache) <= 2 * K

\* Between calls the root bucket never overflows: neither after a split, that
\* could have to be repeated, nor after a merge, nor after deletions that
\* change which depth is the first.
RootBucketSettled == ~Overflowing(Root, table.root_bucket)

\* The table between two calls, after any of them: every node in its bucket, no bucket beyond its
\* limits, and a root bucket that does not overflow (one that wants more nodes is allowed).
TableWellFormed ==
    TableTypeOK /\ NodesInTheirBucket /\ BucketsWithinLimits /\ RootBucketSettled

\* Only nodes that have sent a message are used as next hops: however buckets
\* are split and merged, hearsay does not make a node active.
ActiveWereHeard == ActiveNodes(table) \subseteq heard

\* A node that is forgotten for its silence has been pinged, and has had a
\* tick at least to answer.
PingedBeforeDropped ==
    [][TableClock => Known(table) \ Known(table') \subseteq asked]_tableVars

\* A depth that has active nodes keeps one, unless they are all forgotten:
\* splitting, merging and full buckets never leave a depth without a next hop.
ReachKept ==
    [][\A d \in 0..MaxDepth :
          LET before == {id \in ActiveNodes(table) : Depth(Root, id) = d}
              after  == {id \in ActiveNodes(table') : Depth(Root, id) = d}
          IN  before # {} /\ after = {} => before \cap Known(table') = {}]_tableVars

\* An active node that falls silent does not stay active, even when the
\* buckets are rebalanced all the time.
SilentNotActive ==
    \A id \in NodeID :
        (<>[][~Hear(id)]_tableVars) => <>[](id \notin ActiveNodes(table))

----------------------------------------------------------------------------
(***************************************************************************)
(* What a comment of the code says, and the code does not do.              *)
(***************************************************************************)
\* kademlia.rs:107: "If a needed bucket is empty, the closest nodes on the
\* 'wrong' branch will be returned."  They are on that branch as far as they
\* share more bits with the own id than dst and the last hop do.
WrongBranchUsed ==
    \A dst, last \in NodeID \ {Root} :
        LET deeper == {id \in ActiveNodes(table) :
                          /\ Depth(Root, id) > Depth(Root, dst)
                          /\ Depth(Root, id) > Depth(Root, last)}
        IN  GetNodesDepth(Root, table, Depth(Root, dst)) = <<>> /\ deeper # {}
                => RouteClosest(Root, table, dst, last) # <<>>
=============================================================================
