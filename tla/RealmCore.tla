----------------------------- MODULE RealmCore -----------------------------
(***************************************************************************)
(* The data structure behind one realm of the DHT storage: RealmStorage of *)
(* flmodules/src/dht_storage/core.rs.  A node keeps one RealmStorage for   *)
(* every realm it accepts.  It holds flos (the signed, versioned data      *)
(* blobs of the realm) up to max_space bytes and, when it is full, drops   *)
(* those whose ids share the fewest leading bits with the node's own id.   *)
(*                                                                         *)
(* This module has no state: a storage is a record and each method of the  *)
(* struct is an operator from storages to storages.  RealmStorage.tla      *)
(* turns one storage into a state machine, DHTStorage.tla gives one to     *)
(* every node of a network.                                                *)
(*                                                                         *)
(* Abstractions: a flo is an id and a version (its data, its conditions    *)
(* and their signatures are left out); the serialised size of a flo is     *)
(* FloSize(id, version); the bookkeeping fields of FloStorage (times and   *)
(* read counter, never changed after creation) add Overhead bytes, every   *)
(* cuckoo id adds CuckooSize bytes.                                        *)
(***************************************************************************)
EXTENDS Integers, Sequences, FiniteSets, FiniteSetsExt, Functions

CONSTANTS
    NodeID,       \* ids of nodes: the root of a storage
    FloID,        \* ids of the flos of this realm
    RealmID,      \* the id of the realm, which is the id of its FloRealm
    Version,      \* the versions a flo can have
    NoFlo,        \* stands for None in an Option<FloID>
    MaxDepth,     \* the largest value of KNode::get_depth (255 in the code)
    MaxSpace,     \* RealmConfig.max_space
    Overhead,     \* size of a FloStorage without its flo and its cuckoos
    CuckooSize,   \* size of one id in FloStorage.cuckoos
    FloSize(_, _),\* size of a flo: id, version
    Parent(_),    \* FloConfig.cuckoo_parent of the flo with that id
    Depth(_, _)   \* KNode::get_depth(root, id)

ASSUME RealmAssumption  == /\ IsFiniteSet(FloID)
                           /\ RealmID \in FloID /\ NoFlo \notin FloID
ASSUME VersionAssumption == Version \subseteq Nat
ASSUME DepthAssumption  == /\ MaxDepth \in Nat
                           /\ \A n \in NodeID, id \in FloID :
                                Depth(n, id) \in 0..MaxDepth
ASSUME SizeAssumption   == /\ MaxSpace \in Nat /\ Overhead \in Nat
                           /\ CuckooSize \in Nat
                           /\ \A id \in FloID, v \in Version :
                                FloSize(id, v) \in Nat \ {0}
ASSUME ParentAssumption == \A id \in FloID : Parent(id) \in FloID \cup {NoFlo}

Flo == [id : FloID, version : Version]

\* What is kept of a stored flo; cuckoos is a Vec without duplicates.
FloStorage == [version : Version, cuckoos : SUBSET FloID]

Depths == 0..MaxDepth

StoredSize(id, fs) ==
    Overhead + FloSize(id, fs.version) + CuckooSize * Cardinality(fs.cuckoos)

----------------------------------------------------------------------------
Stored(st) == DOMAIN st.flos

Elems(s) == {s[i] : i \in DOMAIN s}

\* Vec::retain(|i| i != id) on a vector that holds id at most once.
Without(s, id) ==
    IF id \in Elems(s)
    THEN LET i == CHOOSE i \in DOMAIN s : s[i] = id
         IN  SubSeq(s, 1, i - 1) \o SubSeq(s, i + 1, Len(s))
    ELSE s

\* Faulty: the id stays behind in the index by depth.
RemoveEntryKeepsIndex(st, id) ==
    IF id \in Stored(st)
    THEN [st EXCEPT
            !.flos = [i \in Stored(st) \ {id} |-> st.flos[i]],
            !.size = @ - StoredSize(id, st.flos[id])]
    ELSE st

RemoveEntry(st, id) ==
    IF id \in Stored(st)
    THEN [st EXCEPT
            !.flos = [i \in Stored(st) \ {id} |-> st.flos[i]],
            !.distances[Depth(st.root, id)] = Without(@, id),
            !.size = @ - StoredSize(id, st.flos[id])]
    ELSE st

\* Faulty: the older version is not removed first, so it counts twice.
PutOverOld(st, flo) ==
    LET fs == [version |-> flo.version, cuckoos |-> {}]
    IN  [st EXCEPT
            !.flos = [i \in Stored(st) \cup {flo.id} |->
                        IF i = flo.id THEN fs ELSE st.flos[i]],
            !.distances[Depth(st.root, flo.id)] = Without(@, flo.id) \o <<flo.id>>,
            !.size = @ + StoredSize(flo.id, fs)]

\* Faulty: the size of what is put is not added.
PutWithoutSize(st, flo) ==
    LET rest == RemoveEntry(st, flo.id)
        fs   == [version |-> flo.version, cuckoos |-> {}]
    IN  [rest EXCEPT
            !.flos = [i \in Stored(rest) \cup {flo.id} |->
                        IF i = flo.id THEN fs ELSE rest.flos[i]],
            !.distances[Depth(st.root, flo.id)] = Append(@, flo.id)]

\* A put starts a fresh FloStorage: the cuckoos of an older version are gone.
Put(st, flo) ==
    LET rest == RemoveEntry(st, flo.id)
        fs   == [version |-> flo.version, cuckoos |-> {}]
    IN  [rest EXCEPT
            !.flos = [i \in Stored(rest) \cup {flo.id} |->
                        IF i = flo.id THEN fs ELSE rest.flos[i]],
            !.distances[Depth(st.root, flo.id)] = Append(@, flo.id),
            !.size = @ + StoredSize(flo.id, fs)]

\* RealmStorage::new stores the realm's flo without looking at its size.
NewStorage(root, version) ==
    Put([root |-> root, flos |-> [i \in {} |-> 0],
         distances |-> [d \in Depths |-> <<>>], size |-> 0],
        [id |-> RealmID, version |-> version])

\* Neither an eviction nor a limit on the size: only upsert_flo looks at it.
\* The loop of store_cuckoo_ids adds those that are not there yet.
StoreCuckooIDs(st, parent, cuckoos) ==
    IF parent \in Stored(st)
    THEN LET fs == [st.flos[parent] EXCEPT !.cuckoos = @ \cup cuckoos]
         IN  [st EXCEPT
                !.flos[parent] = fs,
                !.size = @ - StoredSize(parent, st.flos[parent])
                           + StoredSize(parent, fs)]
    ELSE st

StoreCuckooID(st, parent, cuckoo) == StoreCuckooIDs(st, parent, {cuckoo})

----------------------------------------------------------------------------
Sizes(st) == [id \in Stored(st) |-> StoredSize(id, st.flos[id])]

SizeOf(st, ids) == SumFunctionOnSet(Sizes(st), ids \cap Stored(st))

SizeAtDepth(st, d) == SizeOf(st, Elems(st.distances[d]))

\* The depths remove_furthest looks at: those that hold more than the realm.
EvictableDepths(st) ==
    {d \in Depths : Elems(st.distances[d]) \ {RealmID} # {}}

\* Faulty: the realm's flo is not skipped.
FurthestIDOrRealm(st) ==
    LET vec == st.distances[Min(EvictableDepths(st))] IN vec[Len(vec)]

\* Faulty: the nearest instead of the furthest.
NearestID(st) ==
    LET vec  == st.distances[Max(EvictableDepths(st))]
        last == Max({i \in DOMAIN vec : vec[i] # RealmID})
    IN  vec[last]

\* Last of the smallest of these depths, the realm's flo skipped.
FurthestID(st) ==
    LET vec  == st.distances[Min(EvictableDepths(st))]
        last == Max({i \in DOMAIN vec : vec[i] # RealmID})
    IN  vec[last]

RemoveFurthest(st) ==
    IF EvictableDepths(st) = {} THEN st ELSE RemoveEntry(st, FurthestID(st))

----------------------------------------------------------------------------
\* upsert_flo, up to its eviction loop.
TooLarge(flo) == FloSize(flo.id, flo.version) * 3 > MaxSpace

WithCuckoo(st, flo) ==
    IF Parent(flo.id) = NoFlo THEN st
    ELSE StoreCuckooID(st, Parent(flo.id), flo.id)

NewSize(flo) == StoredSize(flo.id, [version |-> flo.version, cuckoos |-> {}])

\* The sum of what is stored at smaller depths than the flo's.
SizeAbove(st, id) ==
    MapThenSumSet(LAMBDA d : SizeAtDepth(st, d), 0..(Depth(st.root, id) - 1))

\* Whether the flo, which is not stored yet, is put.
Admitted(st, flo) ==
    \/ st.size + NewSize(flo) <= MaxSpace
    \/ NewSize(flo) <= SizeAbove(st, flo.id)

\* Faulty: any other version replaces the stored one.
IsPutIfOther(st, flo) ==
    IF flo.id \in Stored(st)
    THEN st.flos[flo.id].version # flo.version
    ELSE Admitted(st, flo)

\* The flo is put: a newer version, or a new flo that is admitted.
IsPut(st, flo) ==
    IF flo.id \in Stored(st)
    THEN st.flos[flo.id].version < flo.version
    ELSE Admitted(st, flo)

BeforeEviction(st, flo) ==
    LET s == WithCuckoo(st, flo) IN IF IsPut(s, flo) THEN Put(s, flo) ELSE s

\* What upsert_flo returns, evaluated before the put.
IsNewFlo(st, flo) ==
    /\ ~TooLarge(flo)
    /\ flo.id \in Stored(st) => st.flos[flo.id].version < flo.version

\* Every non-realm flo is evicted at most once: n rounds are enough, unless
\* the realm's flo alone is larger than MaxSpace (then the loop never ends).
Evict(st) ==
    LET rounds == Cardinality(Stored(st))
        after[n \in 0..rounds] ==
            IF n = 0 THEN st
            ELSE IF after[n - 1].size > MaxSpace
                 THEN RemoveFurthest(after[n - 1])
                 ELSE after[n - 1]
    IN  after[rounds]

UpsertFlo(st, flo) ==
    IF TooLarge(flo) THEN st ELSE Evict(BeforeEviction(st, flo))

----------------------------------------------------------------------------
(***************************************************************************)
(* What is true of a storage between any two calls.                        *)
(***************************************************************************)
IsStorage(st) ==
    /\ st = [root |-> st.root, flos |-> st.flos,
             distances |-> st.distances, size |-> st.size]
    /\ st.root \in NodeID
    /\ Stored(st) \subseteq FloID
    /\ st.flos \in [Stored(st) -> FloStorage]
    /\ st.distances \in [Depths -> Seq(FloID)]
    /\ st.size \in Nat

\* The index by depth and the map of flos hold the same ids, each once and at
\* its own depth.
IndexMatches(st) ==
    /\ \A d \in Depths : \A i, j \in DOMAIN st.distances[d] :
          /\ st.distances[d][i] \in Stored(st)
          /\ Depth(st.root, st.distances[d][i]) = d
          /\ st.distances[d][i] = st.distances[d][j] => i = j
    /\ \A id \in Stored(st) : id \in Elems(st.distances[Depth(st.root, id)])

\* The running total is the sum of the sizes of what is stored.
SizeMatches(st) == st.size = SizeOf(st, Stored(st))

----------------------------------------------------------------------------
\* The synchronisation between two storages of the same realm.
FloMetas(st) ==
    {[id |-> id, version |-> st.flos[id].version,
      cuckoos |-> Cardinality(st.flos[id].cuckoos)] : id \in Stored(st)}

\* Faulty: the versions are not compared.
UpToDateIfStored(st, meta) ==
    /\ meta.id \in Stored(st)
    /\ Cardinality(st.flos[meta.id].cuckoos) >= meta.cuckoos

\* Up to date: at least that version and at least that many cuckoos.
UpToDate(st, meta) ==
    /\ meta.id \in Stored(st)
    /\ st.flos[meta.id].version >= meta.version
    /\ Cardinality(st.flos[meta.id].cuckoos) >= meta.cuckoos

SyncAvailable(st, metas) == {meta.id : meta \in {m \in metas : ~UpToDate(st, m)}}
=============================================================================
