---------------------------- MODULE KademliaCore ----------------------------
(***************************************************************************)
(* The routing table of a node: Kademlia and KBucket of                    *)
(* flmodules/src/dht_router/kademlia.rs, as operators on a table.          *)
(*                                                                         *)
(* Bucket number d holds nodes whose ids share exactly d leading bits with *)
(* the own id; the root bucket holds all that share more.  In every        *)
(* bucket, nodes that were heard of recently are active, the others wait   *)
(* in the cache.  The root bucket is split when it overflows, and takes    *)
(* the last bucket back when it is wanting.                                *)
(*                                                                         *)
(* The code sorts the active nodes of the root bucket by depth, stably.    *)
(* They are kept here in the order of their arrival: only the order of     *)
(* nodes of the same depth is ever used.  ticks_active is never read.      *)
(***************************************************************************)
EXTENDS IdDistance, Sequences, FiniteSets, SequencesExt, FiniteSetsExt

CONSTANTS
    NoNode,         \* no last hop
    K,              \* Config.k
    PingInterval,   \* Config.ping_interval, in ticks
    PingTimeout     \* Config.ping_timeout, in ticks

\* The default configuration is 2, 10, 30.
ASSUME ConfigAssumption ==
    /\ K \in Nat \ {0} /\ PingInterval \in Nat \ {0} /\ PingTimeout \in Nat
    /\ PingTimeout >= 2 * PingInterval

ASSUME NoNodeAssumption == NoNode \notin ID

----------------------------------------------------------------------------
(***************************************************************************)
(* Buckets.                                                                *)
(***************************************************************************)
KNode == [id : NodeID, ticks_last : 0..(PingTimeout - 1)]

KBucket == [active : Seq(KNode), cache : Seq(KNode)]

NewNode(id) == [id |-> id, ticks_last |-> 0]

EmptyBucket == [active |-> <<>>, cache |-> <<>>]

KNodes(b) == b.active \o b.cache

IDs(kns) == {kns[i].id : i \in DOMAIN kns}

\* The nodes of kns that are in S, in their order.
Only(kns, S) ==
    LET kept[i \in 0..Len(kns)] ==
            IF i = 0 THEN <<>>
            ELSE IF kns[i] \in S THEN Append(kept[i - 1], kns[i])
            ELSE kept[i - 1]
    IN  kept[Len(kns)]

\* The nodes of kns at depth d, seen from me.
AtDepth(me, kns, d) == Only(kns, {kn \in Range(kns) : Depth(me, kn.id) = d})

Without(kns, ids) == Only(kns, {kn \in Range(kns) : kn.id \notin ids})

\* Those that the timeout leaves.
Alive(kns) == Only(kns, {kn \in Range(kns) : kn.ticks_last < PingTimeout})

\* Faulty: a new node counts as active.
BucketAddNodeActiveAtOnce(b, isRoot, kn) ==
    IF isRoot \/ Len(b.active) < K THEN [b EXCEPT !.active = Append(@, kn)] ELSE b

BucketAddNode(b, isRoot, kn) ==
    IF isRoot \/ Len(b.cache) < 2 * K THEN [b EXCEPT !.cache = Append(@, kn)] ELSE b

BucketAddNodeActive(b, isRoot, kn) ==
    IF isRoot \/ Len(b.active) < K THEN [b EXCEPT !.active = Append(@, kn)]
    ELSE IF Len(b.cache) < K THEN [b EXCEPT !.cache = Append(@, kn)]
    ELSE b

BucketAddNodes(b, isRoot, kns) ==
    LET after[i \in 0..Len(kns)] ==
            IF i = 0 THEN b ELSE BucketAddNode(after[i - 1], isRoot, kns[i])
    IN  after[Len(kns)]

BucketAddNodesActive(b, isRoot, kns) ==
    LET after[i \in 0..Len(kns)] ==
            IF i = 0 THEN b ELSE BucketAddNodeActive(after[i - 1], isRoot, kns[i])
    IN  after[Len(kns)]

\* First actives, as active nodes, then cached.
BucketAddAll(b, isRoot, active, cache) ==
    BucketAddNodes(BucketAddNodesActive(b, isRoot, active), isRoot, cache)

BucketRemoveIDs(b, ids) ==
    [active |-> Without(b.active, ids), cache |-> Without(b.cache, ids)]

\* A message of the node arrived.
BucketNodeActive(b, isRoot, id) ==
    LET rest == BucketRemoveIDs(b, {id})
    IN  IF id \in IDs(b.active)
        THEN [b EXCEPT !.active = [i \in DOMAIN b.active |->
                IF b.active[i].id = id THEN NewNode(id) ELSE b.active[i]]]
        ELSE IF id \notin IDs(b.cache) THEN b
        ELSE IF isRoot \/ Len(b.active) < K
        THEN [rest EXCEPT !.active = Append(@, NewNode(id))]
        ELSE [rest EXCEPT !.cache = Append(@, NewNode(id))]

Wanting(b) == Len(KNodes(b)) < K

\* Overflowing, unless fewer than K nodes would be left without the first depth.
Overflowing(me, b) ==
    LET kns    == KNodes(b)
        deeper == {i \in DOMAIN kns :
                      \E j \in DOMAIN kns : Depth(me, kns[j].id) < Depth(me, kns[i].id)}
    IN  Len(kns) >= 2 * K /\ Cardinality(deeper) >= K

\* How many cached nodes get their ticks: those that could fill the bucket.
Fillup(b, isRoot) == IF isRoot THEN Len(b.cache) ELSE 2 * (K - Len(b.active))

Ticked(kn) == [kn EXCEPT !.ticks_last = @ + 1]

\* Faulty: cached nodes are not pinged.
BucketPingsLate(b, isRoot) ==
    {b.active[i].id : i \in {i \in DOMAIN b.active :
                               (b.active[i].ticks_last + 1) % PingInterval = 0}}

\* Whom a tick pings: an active node after an interval, a cached node at once.
BucketPings(b, isRoot) ==
    {b.active[i].id : i \in {i \in DOMAIN b.active :
                               (b.active[i].ticks_last + 1) % PingInterval = 0}}
    \cup
    {b.cache[i].id : i \in {i \in DOMAIN b.cache :
                               /\ i <= Fillup(b, isRoot)
                               /\ b.cache[i].ticks_last % PingInterval = 0}}

TickedActive(b) == [i \in DOMAIN b.active |-> Ticked(b.active[i])]

TickedCache(b, isRoot) ==
    [i \in DOMAIN b.cache |->
        IF i <= Fillup(b, isRoot) THEN Ticked(b.cache[i]) ELSE b.cache[i]]

\* Faulty: active nodes do not get older.
BucketTickCacheOnly(b, isRoot) ==
    [active |-> b.active, cache |-> Alive(TickedCache(b, isRoot))]

BucketTick(b, isRoot) ==
    [active |-> Alive(TickedActive(b)), cache |-> Alive(TickedCache(b, isRoot))]

----------------------------------------------------------------------------
(***************************************************************************)
(* Tables.                                                                 *)
(***************************************************************************)
NewTable == [buckets |-> <<>>, root_bucket |-> EmptyBucket]

Buckets(t) == Range(t.buckets) \cup {t.root_bucket}

Known(t) == UNION {IDs(KNodes(b)) : b \in Buckets(t)}

ActiveNodes(t) == UNION {IDs(b.active) : b \in Buckets(t)}

HasBucket(t, d) == d < Len(t.buckets)

\* The bucket for depth d, and the table where it is replaced by b.
BucketOf(t, d) == IF HasBucket(t, d) THEN t.buckets[d + 1] ELSE t.root_bucket

WithBucket(t, d, b) ==
    IF HasBucket(t, d) THEN [t EXCEPT !.buckets[d + 1] = b]
    ELSE [t EXCEPT !.root_bucket = b]

\* KBucket::remove_all_nodes_at_depth: some first nodes, cached ones first,
\* but K stay.
RemovedCache(me, b, d) ==
    LET found == AtDepth(me, b.cache, d)
        max   == Max({0, Len(KNodes(b)) - K})
    IN  SubSeq(found, 1, Min({Len(found), max}))

RemovedActive(me, b, d) ==
    LET found == AtDepth(me, b.active, d)
        max   == Max({0, Len(KNodes(b)) - K}) - Len(RemovedCache(me, b, d))
    IN  SubSeq(found, 1, Min({Len(found), max}))

\* Faulty: the nodes that are split off lose their state.
SplitToCache(me, t) ==
    LET d      == Len(t.buckets)
        active == RemovedActive(me, t.root_bucket, d)
        cache  == RemovedCache(me, t.root_bucket, d)
    IN  [buckets |-> Append(t.buckets,
                         BucketAddAll(EmptyBucket, FALSE, <<>>, active \o cache)),
         root_bucket |-> BucketRemoveIDs(t.root_bucket, IDs(active) \cup IDs(cache))]

\* The nodes at the first depth of the root bucket get a bucket of their own.
Split(me, t) ==
    LET d      == Len(t.buckets)
        active == RemovedActive(me, t.root_bucket, d)
        cache  == RemovedCache(me, t.root_bucket, d)
    IN  [buckets |-> Append(t.buckets, BucketAddAll(EmptyBucket, FALSE, active, cache)),
         root_bucket |-> BucketRemoveIDs(t.root_bucket, IDs(active) \cup IDs(cache))]

\* The last bucket goes back into the root bucket.
Merge(t) ==
    LET n    == Len(t.buckets)
        last == t.buckets[n]
    IN  [buckets |-> SubSeq(t.buckets, 1, n - 1),
         root_bucket |-> BucketAddAll(t.root_bucket, TRUE, last.active, last.cache)]

\* Faulty: splits once only.
RebalanceOverflowOnce(me, t) ==
    IF Overflowing(me, t.root_bucket) THEN Split(me, t) ELSE t

\* The loop ends at the latest when there is a bucket for every depth.
RebalanceOverflow(me, t) ==
    LET after[i \in 0..(MaxDepth + 1)] ==
            IF i = 0 THEN t
            ELSE IF Overflowing(me, after[i - 1].root_bucket) THEN Split(me, after[i - 1])
            ELSE after[i - 1]
    IN  after[MaxDepth + 1]

RebalanceWanting(t) ==
    LET after[i \in 0..Len(t.buckets)] ==
            IF i = 0 THEN t
            ELSE IF Wanting(after[i - 1].root_bucket) /\ after[i - 1].buckets # <<>>
            THEN Merge(after[i - 1])
            ELSE after[i - 1]
    IN  after[Len(t.buckets)]

AddNode(me, t, id) ==
    LET d     == Depth(me, id)
        added == WithBucket(t, d, BucketAddNode(BucketOf(t, d), ~HasBucket(t, d), NewNode(id)))
    IN  IF id = me \/ id \in Known(t) THEN t
        ELSE IF HasBucket(t, d) THEN added
        ELSE RebalanceOverflow(me, added)

AddNodes(me, t, ids) ==
    LET after[i \in 0..Len(ids)] ==
            IF i = 0 THEN t ELSE AddNode(me, after[i - 1], ids[i])
    IN  after[Len(ids)]

WithoutNode(me, t, id) ==
    LET d == Depth(me, id)
    IN  WithBucket(t, d, BucketRemoveIDs(BucketOf(t, d), {id}))

\* Nodes of the root bucket are left where they are.
NodeDisconnected(me, t, id) ==
    IF HasBucket(t, Depth(me, id)) THEN RebalanceWanting(WithoutNode(me, t, id)) ELSE t

\* Only the removal of a node of the root bucket rebalances.
RemoveNode(me, t, id) ==
    IF HasBucket(t, Depth(me, id)) THEN WithoutNode(me, t, id)
    ELSE RebalanceWanting(WithoutNode(me, t, id))

NodeActive(me, t, id) ==
    LET d == Depth(me, id)
    IN  WithBucket(t, d, BucketNodeActive(BucketOf(t, d), ~HasBucket(t, d), id))

\* No rebalancing, whatever was deleted.
Tick(t) ==
    [buckets     |-> [d \in DOMAIN t.buckets |-> BucketTick(t.buckets[d], FALSE)],
     root_bucket |-> BucketTick(t.root_bucket, TRUE)]

Pings(t) ==
    BucketPings(t.root_bucket, TRUE)
        \cup UNION {BucketPings(b, FALSE) : b \in Range(t.buckets)}

----------------------------------------------------------------------------
(***************************************************************************)
(* Routes.                                                                 *)
(***************************************************************************)
GetNodesDepth(me, t, d) ==
    LET found == AtDepth(me, BucketOf(t, d).active, d)
    IN  [i \in DOMAIN found |-> found[i].id]

\* Faulty: wherever the message came from.
RouteDepthsAnywhere(me, t, dst, last) ==
    LET active == IDs(t.root_bucket.active)
        depths == {Depth(me, id) : id \in active}
    IN  {Depth(me, dst)} \cup (IF last = NoNode THEN {} ELSE {d \in depths : d > Depth(me, dst)})

\* The depths route_closest looks at: the one of dst, and for a message that
\* came from last, those beyond last and before the deepest active node of the
\* root bucket.
RouteDepths(me, t, dst, last) ==
    LET depth     == Depth(me, dst)
        depthLast == Max({depth, Depth(me, last)})
        active    == IDs(t.root_bucket.active)
        rootLast  == IF active = {} THEN depthLast
                     ELSE Max({Depth(me, id) : id \in active})
    IN  {depth} \cup (IF last = NoNode THEN {} ELSE (depthLast + 1)..(rootLast - 1))

\* The next hops on the way to dst, all at the same depth.
RouteClosest(me, t, dst, last) ==
    LET useful == {d \in RouteDepths(me, t, dst, last) : GetNodesDepth(me, t, d) # <<>>}
    IN  IF useful = {} THEN <<>> ELSE GetNodesDepth(me, t, Min(useful))

----------------------------------------------------------------------------
\* At most one bucket for every depth of a node.
IsTable(t) ==
    /\ t \in [buckets : Seq(KBucket), root_bucket : KBucket]
    /\ Len(t.buckets) <= MaxDepth + 1
=============================================================================
