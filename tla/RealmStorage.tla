---------------------------- MODULE RealmStorage ----------------------------
(***************************************************************************)
(* One RealmStorage (flmodules/src/dht_storage/core.rs) under any sequence *)
(* of the calls its owner, dht_storage/messages.rs, makes: upsert_flo and  *)
(* store_cuckoo_id.                                                        *)
(*                                                                         *)
(* The eviction loop of upsert_flo,                                        *)
(*     while self.size > self.realm_config.max_space { remove_furthest() } *)
(* is modelled one iteration at a time, so that its termination is a       *)
(* property and not an assumption: while pc = "evicting" no other call can *)
(* start, since the storage is owned by one task.  remove_furthest does    *)
(* nothing when only the realm's flo is left.                              *)
(***************************************************************************)
EXTENDS RealmCore

CONSTANT Root    \* the id of the node that owns the storage

ASSUME RootAssumption == Root \in NodeID

VARIABLES
    st,     \* the RealmStorage
    pc,     \* "idle", or "evicting": in the loop of upsert_flo
    flo,    \* the argument of the running or last upsert_flo
    result  \* what the running or last upsert_flo returns

storageVars == <<st, pc, flo, result>>

NoCall == [id |-> RealmID, version |-> 0]

StorageInit ==
    /\ \E v \in Version : st = NewStorage(Root, v)
    /\ pc = "idle"
    /\ flo = NoCall
    /\ result = FALSE

----------------------------------------------------------------------------
\* upsert_flo refuses a flo that takes more than a third of the space.
UpsertTooLarge(f) ==
    /\ pc = "idle"
    /\ TooLarge(f)
    /\ flo' = f
    /\ result' = FALSE
    /\ UNCHANGED <<st, pc>>

\* upsert_flo up to its loop.
Upsert(f) ==
    /\ pc = "idle"
    /\ ~TooLarge(f)
    /\ st' = BeforeEviction(st, f)
    /\ pc' = "evicting"
    /\ flo' = f
    /\ result' = IsNewFlo(st, f)

\* One iteration of the loop.
EvictOne ==
    /\ pc = "evicting"
    /\ st.size > MaxSpace
    /\ st' = RemoveFurthest(st)
    /\ UNCHANGED <<pc, flo, result>>

\* Faulty: an `if` in place of the `while`.
UpsertDoneAnyway ==
    /\ pc = "evicting"
    /\ pc' = "idle"
    /\ UNCHANGED <<st, flo, result>>

\* The loop's condition is false: upsert_flo returns.
UpsertDone ==
    /\ pc = "evicting"
    /\ st.size <= MaxSpace
    /\ pc' = "idle"
    /\ UNCHANGED <<st, flo, result>>

\* A StoreCuckooID message, or one id of a synchronised flo's cuckoos.
StoreCuckoo(parent, cuckoo) ==
    /\ pc = "idle"
    /\ st' = StoreCuckooID(st, parent, cuckoo)
    /\ UNCHANGED <<pc, flo, result>>

StorageNext ==
    \/ \E f \in Flo : UpsertTooLarge(f) \/ Upsert(f)
    \/ EvictOne
    \/ UpsertDone
    \/ \E cuckoo \in FloID : /\ Parent(cuckoo) # NoFlo
                             /\ StoreCuckoo(Parent(cuckoo), cuckoo)

\* The loop runs in the task of its caller, which nothing interrupts.
StorageFairness == WF_storageVars(EvictOne) /\ WF_storageVars(UpsertDone)

StorageSpec == StorageInit /\ [][StorageNext]_storageVars /\ StorageFairness

----------------------------------------------------------------------------
\* The type of every variable.  A size below zero would be a wrapped u64: it
\* stays a natural only because every subtraction takes off what was added.
StorageTypeOK ==
    /\ IsStorage(st)
    /\ st.root = Root
    /\ pc \in {"idle", "evicting"}
    /\ flo \in Flo \cup {NoCall}
    /\ result \in BOOLEAN

\* The index by depth and the map of flos hold the same ids, each once and at
\* its own depth (put, remove_entry).  An id left behind in the index makes
\* remove_furthest remove nothing, for ever.
IndexMatchesFlos == IndexMatches(st)

\* The running total `size`, adjusted by put, remove_entry and
\* store_cuckoo_id, is the sum of the sizes of what is stored.
SizeMatchesFlos == SizeMatches(st)

\* The flo that defines the realm, its size limit included, is never evicted,
\* however far from the node it is (remove_furthest skips it).
RealmKept == RealmID \in Stored(st)

\* The size of the stored flos without their cuckoo ids.
FlosSize(s) ==
    SumFunctionOnSet([id \in Stored(s) |-> Overhead + FloSize(id, s.flos[id].version)], Stored(s))

\* Between calls only the cuckoo ids, which no limit applies to, can hold the
\* storage over max_space: the flos themselves fit (the loop of upsert_flo).
OverrunOnlyByCuckoos == pc = "idle" => FlosSize(st) <= MaxSpace

\* What a step drops is at most as deep as everything that stays, the realm's
\* flo excepted: the node keeps the flos nearest to its own id.
FurthestFirst ==
    [][\A gone \in Stored(st) \ Stored(st)', kept \in Stored(st)' \ {RealmID} :
          Depth(Root, gone) <= Depth(Root, kept)]_storageVars

\* A flo that stays stored never goes back to an older version, and loses
\* cuckoos only to a newer version (upsert_flo compares versions before put).
NoDowngrade ==
    [][\A id \in Stored(st) \cap Stored(st)' :
          \/ st.flos[id].version < st.flos'[id].version
          \/ /\ st.flos[id].version = st.flos'[id].version
             /\ st.flos[id].cuckoos \subseteq st.flos'[id].cuckoos]_storageVars

\* All that is left is the realm's flo, and its cuckoo ids alone hold it over max_space.
RealmOverruns == Stored(st) = {RealmID} /\ st.size > MaxSpace

\* The eviction loop ends, and upsert_flo returns, for every sequence of calls before it; but if
\* the realm's flo has got too many cuckoos, the loop evicts all other flos and goes on for ever.
UpsertReturns == pc = "evicting" ~> pc = "idle" \/ RealmOverruns

----------------------------------------------------------------------------
(***************************************************************************)
(* What a comment of the code says, or its callers take for granted, and   *)
(* the code does not do.                                                   *)
(***************************************************************************)
\* upsert_flo returns, whatever the cuckoos of the realm's flo: its caller, the task of the
\* storage, handles nothing else before.
AlwaysReturns == pc = "evicting" ~> pc = "idle"

\* messages.rs:488, on the upsert_flo that returns this value: "When 'true'
\* is returned, then the flo has been stored."
TrueMeansStored == pc = "idle" /\ result => flo.id \in Stored(st)
=============================================================================
