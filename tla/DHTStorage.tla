----------------------------- MODULE DHTStorage -----------------------------
(***************************************************************************)
(* The DHT storage of a network of nodes: Messages of                      *)
(* flmodules/src/dht_storage/messages.rs on every node, with one           *)
(* RealmStorage (RealmCore.tla) each.                                      *)
(*                                                                         *)
(* Flos spread in two ways.  A flo that is stored is sent through the DHT  *)
(* router towards the node closest to its id, and stored by every node on  *)
(* the way (MessageClosest).  And once a minute every node asks its        *)
(* neighbours for their realms, then for the versions of their flos, then  *)
(* for the flos it lacks (MessageNeighbour).                               *)
(*                                                                         *)
(* One realm: the storages of a node's realms share nothing but the file   *)
(* they are written to.  The routes of the router are not modelled: a      *)
(* message to the closest node reaches any set of other nodes, in any      *)
(* order, or none.  Queries that change nothing on any node (GetRealms,    *)
(* GetFlos, ReadCuckooIDs) are left out.                                   *)
(***************************************************************************)
EXTENDS RealmCore, SequencesExt

CONSTANTS
    Neighbours,     \* the connected pairs of nodes, a symmetric relation
    Evil,           \* nodes with EVIL_NO_FORWARD: they hand out no flos
    Config(_),      \* DHTConfig.realms of a node when it starts
    SystemRealmID,  \* system_realm in the signalling server's configuration
    UserFlo,        \* the flos users store, each with the user's node
    Reader,         \* the nodes whose users read flos
    NoRealm,        \* stands for a node without a storage for the realm
    Lossy,          \* whether neighbour messages can be lost
    MaxStores,      \* bound on the StoreFlo calls of users
    MaxCrashes,     \* bound on restarts
    MaxNet          \* no user and no timer acts with that many messages around

ASSUME NetworkAssumption ==
    /\ Neighbours \subseteq NodeID \X NodeID
    /\ Evil \subseteq NodeID
    /\ UserFlo \subseteq NodeID \X Flo
    /\ Reader \subseteq NodeID
    /\ Lossy \in BOOLEAN
    /\ MaxStores \in Nat /\ MaxCrashes \in Nat /\ MaxNet \in Nat

VARIABLES
    realm,    \* realm[n]: the node's RealmStorage, or NoRealm
    disk,     \* disk[n]: what its file holds of it
    config,   \* config[n]: DHTConfig.realms
    net,      \* the messages on their way
    published,\* the flos users have stored: a history, no node knows it
    stores,   \* number of StoreFlo calls of users
    crashes   \* number of restarts

vars == <<realm, disk, config, net, published, stores, crashes>>

----------------------------------------------------------------------------
(***************************************************************************)
(* Messages.  A flo travels with the cuckoos its sender knows (FloCuckoo). *)
(***************************************************************************)
FloCuckoo == [id : FloID, version : Version, cuckoos : SUBSET FloID]
FloMeta   == [id : FloID, version : Version, cuckoos : Nat]

MessageClosest ==
    [type : {"StoreFlo"}, from : NodeID, to : NodeID, flo : Flo]
        \cup [type : {"ReadFlo"}, from : NodeID, to : NodeID, id : FloID]
        \cup [type : {"StoreCuckooID"}, from : NodeID, to : NodeID,
              parent : FloID, cuckoo : FloID]

MessageDest ==
    [type : {"FloValue"}, from : NodeID, to : NodeID, flo : FloCuckoo]

MessageNeighbour ==
    [type : {"RequestRealmIDs", "AvailableRealmIDs", "RequestFloMetas"},
     from : NodeID, to : NodeID]
        \cup [type : {"AvailableFlos"}, from : NodeID, to : NodeID,
              metas : SUBSET FloMeta]
        \cup [type : {"RequestFlos"}, from : NodeID, to : NodeID,
              ids : SUBSET FloID]
        \cup [type : {"Flos"}, from : NodeID, to : NodeID,
              flos : SUBSET FloCuckoo]

IsNeighbourMessage(m) == m.type \notin {"StoreFlo", "ReadFlo", "StoreCuckooID", "FloValue"}

NeighboursOf(n) == {m \in NodeID : <<n, m>> \in Neighbours}

\* out is sent: some of it arrives, all of it between neighbours unless the
\* links lose messages.
Sent(out, sent) ==
    /\ sent \subseteq out
    /\ ~Lossy => {m \in out : IsNeighbourMessage(m)} \subseteq sent

----------------------------------------------------------------------------
(***************************************************************************)
(* One node's store.                                                       *)
(***************************************************************************)
AcceptsRealm(n) == config[n] = {} \/ RealmID \in config[n]

\* Only the realm's own flo makes a node keep the realm.
CreatesRealm(n, f) == f.id = RealmID /\ AcceptsRealm(n)

\* Messages::upsert_flo: the storage after it, and whether it was modified.
UpsertAt(n, s, f) ==
    IF s # NoRealm THEN UpsertFlo(s, f)
    ELSE IF CreatesRealm(n, f) THEN NewStorage(n, f.version) ELSE NoRealm

Modification(n, s, f) ==
    IF s # NoRealm THEN IsNewFlo(s, f) ELSE CreatesRealm(n, f)

\* Faulty: the file is written only when the node gets the realm.
StoreFloUnwritten(n, node, f) ==
    LET s == UpsertAt(n, node.realm, f)
    IN  [realm |-> s, disk |-> IF node.realm = NoRealm THEN s ELSE node.disk]

\* A modification writes the file; nothing else does.
StoreFlo(n, node, f) ==
    LET s == UpsertAt(n, node.realm, f)
    IN  [realm |-> s,
         disk |-> IF Modification(n, node.realm, f) THEN s ELSE node.disk]

\* A received flo is stored, then its cuckoos, which are not written.
StoreFloCuckoo(n, node, fc) ==
    LET stored == StoreFlo(n, node, [id |-> fc.id, version |-> fc.version])
    IN  IF stored.realm = NoRealm THEN stored
        ELSE [stored EXCEPT !.realm = StoreCuckooIDs(@, fc.id, fc.cuckoos)]

\* The flos of a list, one after the other.
StoreFloCuckoos(n, node, list) ==
    LET after[i \in 0..Len(list)] ==
            IF i = 0 THEN node ELSE StoreFloCuckoo(n, after[i - 1], list[i])
    IN  after[Len(list)]

\* What store_flo emits: the flo towards its own id when it was new, and its
\* id towards its cuckoo parent.
StoreFloOut(n, node, f) ==
    {[type |-> "StoreFlo", from |-> n, to |-> m,
      flo |-> [id |-> f.id, version |-> f.version]] :
        m \in {m \in NodeID \ {n} : Modification(n, node.realm, f)}}
    \cup
    {[type |-> "StoreCuckooID", from |-> n, to |-> m,
      parent |-> Parent(f.id), cuckoo |-> f.id] :
        m \in {m \in NodeID \ {n} : Parent(f.id) # NoFlo}}

NodeState(n) == [realm |-> realm[n], disk |-> disk[n]]

SetNode(n, node) ==
    /\ realm' = [realm EXCEPT ![n] = node.realm]
    /\ disk' = [disk EXCEPT ![n] = node.disk]

GetFloCuckoos(n, ids) ==
    {[id |-> id, version |-> realm[n].flos[id].version,
      cuckoos |-> realm[n].flos[id].cuckoos] :
        id \in IF realm[n] = NoRealm THEN {} ELSE ids \cap Stored(realm[n])}

----------------------------------------------------------------------------
Init ==
    /\ realm = [n \in NodeID |-> NoRealm]
    /\ disk = [n \in NodeID |-> NoRealm]
    /\ config = [n \in NodeID |-> Config(n)]
    /\ net = {}
    /\ published = {}
    /\ stores = 0
    /\ crashes = 0

\* A call of the node's user: DHTStorageIn::StoreFlo.
UserStore(n, f) ==
    /\ stores < MaxStores /\ Cardinality(net) < MaxNet
    /\ <<n, f>> \in UserFlo
    /\ SetNode(n, StoreFlo(n, NodeState(n), f))
    /\ \E sent \in SUBSET StoreFloOut(n, NodeState(n), f) : net' = net \cup sent
    /\ published' = published \cup {f}
    /\ stores' = stores + 1
    /\ UNCHANGED <<config, crashes>>

\* DHTStorageIn::ReadFlo of a flo that is not stored here.
UserRead(n, id) ==
    /\ n \in Reader
    /\ Cardinality(net) < MaxNet
    /\ GetFloCuckoos(n, {id}) = {}
    /\ \E sent \in SUBSET {[type |-> "ReadFlo", from |-> n, to |-> m, id |-> id] :
                              m \in NodeID \ {n}} :
          net' = net \cup sent
    /\ UNCHANGED <<realm, disk, config, published, stores, crashes>>

\* Every minute: DHTStorageIn::SyncFromNeighbors.
SyncFromNeighbors(n) ==
    /\ Cardinality(net) < MaxNet
    /\ \E sent \in SUBSET {[type |-> "RequestRealmIDs", from |-> n, to |-> m] :
                              m \in NeighboursOf(n)} :
          /\ Sent({[type |-> "RequestRealmIDs", from |-> n, to |-> m] :
                      m \in NeighboursOf(n)}, sent)
          /\ net' = net \cup sent
    /\ UNCHANGED <<realm, disk, config, published, stores, crashes>>

\* DHTStorage::propagate.
PropagateFlos(n) ==
    /\ Cardinality(net) < MaxNet
    /\ realm[n] # NoRealm
    /\ \E sent \in SUBSET {[type |-> "AvailableRealmIDs", from |-> n, to |-> m] :
                              m \in NeighboursOf(n)} :
          /\ Sent({[type |-> "AvailableRealmIDs", from |-> n, to |-> m] :
                      m \in NeighboursOf(n)}, sent)
          /\ net' = net \cup sent
    /\ UNCHANGED <<realm, disk, config, published, stores, crashes>>

\* DHTRouterOut::SystemRealm, when the node connects to the signalling server.
SystemRealm(n) ==
    /\ config' = [config EXCEPT ![n] = @ \cup {SystemRealmID}]
    /\ UNCHANGED <<realm, disk, net, published, stores, crashes>>

----------------------------------------------------------------------------
(***************************************************************************)
(* The handlers of messages.  An empty list is never sent.                 *)
(***************************************************************************)
\* m has been handled, out is sent.
Reply(m, out) ==
    \E sent \in SUBSET out : Sent(out, sent) /\ net' = (net \ {m}) \cup sent

Unchanged == UNCHANGED <<config, published, stores, crashes>>

HandleRequestRealmIDs(m) ==
    /\ m.type = "RequestRealmIDs"
    /\ Reply(m, {[type |-> "AvailableRealmIDs", from |-> m.to, to |-> m.from] :
                    x \in {realm[m.to]} \ {NoRealm}})
    /\ UNCHANGED <<realm, disk>> /\ Unchanged

\* The flo of an unknown realm is asked for, and the versions of all its flos.
HandleAvailableRealmIDs(m) ==
    /\ m.type = "AvailableRealmIDs"
    /\ LET metas == [type |-> "RequestFloMetas", from |-> m.to, to |-> m.from]
           flos  == [type |-> "RequestFlos", from |-> m.to, to |-> m.from,
                     ids |-> {RealmID}]
       IN  Reply(m, {r \in {metas, flos} :
                        /\ AcceptsRealm(m.to)
                        /\ r = flos => realm[m.to] = NoRealm})
    /\ UNCHANGED <<realm, disk>> /\ Unchanged

HandleRequestFloMetas(m) ==
    /\ m.type = "RequestFloMetas"
    /\ Reply(m, {[type |-> "AvailableFlos", from |-> m.to, to |-> m.from,
                  metas |-> FloMetas(s)] :
                    s \in {realm[n] : n \in {m.to} \ Evil} \ {NoRealm}})
    /\ UNCHANGED <<realm, disk>> /\ Unchanged

HandleAvailableFlos(m) ==
    /\ m.type = "AvailableFlos"
    /\ LET needed == IF realm[m.to] = NoRealm THEN {}
                     ELSE SyncAvailable(realm[m.to], m.metas)
       IN  Reply(m, {[type |-> "RequestFlos", from |-> m.to, to |-> m.from,
                      ids |-> ids] : ids \in {needed} \ {{}}})
    /\ UNCHANGED <<realm, disk>> /\ Unchanged

HandleRequestFlos(m) ==
    /\ m.type = "RequestFlos"
    /\ LET found == IF m.to \in Evil THEN {} ELSE GetFloCuckoos(m.to, m.ids)
       IN  Reply(m, {[type |-> "Flos", from |-> m.to, to |-> m.from,
                      flos |-> flos] : flos \in {found} \ {{}}})
    /\ UNCHANGED <<realm, disk>> /\ Unchanged

\* The flos come in the order of the sender's hash map, which is any.  What
\* store_flo would emit is dropped.
HandleFlos(m) ==
    /\ m.type = "Flos"
    /\ \E order \in SetToSeqs(m.flos) :
          SetNode(m.to, StoreFloCuckoos(m.to, NodeState(m.to), order))
    /\ Reply(m, {}) /\ Unchanged

HandleStoreFlo(m) ==
    /\ m.type = "StoreFlo"
    /\ SetNode(m.to, StoreFlo(m.to, NodeState(m.to), m.flo))
    /\ Reply(m, StoreFloOut(m.to, NodeState(m.to), m.flo)) /\ Unchanged

HandleReadFlo(m) ==
    /\ m.type = "ReadFlo"
    /\ Reply(m, {[type |-> "FloValue", from |-> m.to, to |-> m.from, flo |-> fc] :
                    fc \in {fc \in GetFloCuckoos(m.to, {m.id}) : m.to \notin Evil}})
    /\ UNCHANGED <<realm, disk>> /\ Unchanged

\* The only handler that changes a storage and never writes the file.
HandleStoreCuckooID(m) ==
    /\ m.type = "StoreCuckooID"
    /\ realm' = [realm EXCEPT ![m.to] =
                    IF @ = NoRealm THEN NoRealm ELSE StoreCuckooID(@, m.parent, m.cuckoo)]
    /\ UNCHANGED disk
    /\ Reply(m, {}) /\ Unchanged

HandleFloValue(m) ==
    /\ m.type = "FloValue"
    /\ SetNode(m.to, StoreFloCuckoo(m.to, NodeState(m.to), m.flo))
    /\ Reply(m, {}) /\ Unchanged

Handle(m) ==
    \/ HandleRequestRealmIDs(m) \/ HandleAvailableRealmIDs(m)
    \/ HandleRequestFloMetas(m) \/ HandleAvailableFlos(m)
    \/ HandleRequestFlos(m) \/ HandleFlos(m)
    \/ HandleStoreFlo(m) \/ HandleReadFlo(m)
    \/ HandleStoreCuckooID(m) \/ HandleFloValue(m)

----------------------------------------------------------------------------
(***************************************************************************)
(* Restarts.  What was on its way to the node is lost, and its             *)
(* configuration is the one it was started with.                           *)
(***************************************************************************)
Stop(n) ==
    /\ crashes < MaxCrashes
    /\ crashes' = crashes + 1
    /\ config' = [config EXCEPT ![n] = Config(n)]
    /\ net' = {m \in net : m.to # n}
    /\ UNCHANGED <<published, stores>>

Restart(n) ==
    /\ Stop(n)
    /\ realm' = [realm EXCEPT ![n] = disk[n]]
    /\ UNCHANGED disk

\* The file is truncated, then written, at every modification and at every
\* start: a node that stops in between finds a file it cannot read, takes it
\* for an empty one and writes that back.
RestartTorn(n) ==
    /\ Stop(n)
    /\ realm' = [realm EXCEPT ![n] = NoRealm]
    /\ disk' = [disk EXCEPT ![n] = NoRealm]

Next ==
    \/ \E n \in NodeID :
          \/ \E f \in Flo : UserStore(n, f)
          \/ \E id \in FloID : UserRead(n, id)
          \/ SyncFromNeighbors(n)
          \/ PropagateFlos(n)
          \/ SystemRealm(n)
          \/ Restart(n)
          \/ RestartTorn(n)
    \/ \E m \in net : Handle(m)

\* Every message that arrives is handled: a node takes them from one queue.
\* The minute timer never stops: only the bound MaxNet disables it at times.
Fairness ==
    \A n \in NodeID :
        /\ SF_vars(SyncFromNeighbors(n))
        /\ LET Handled(H(_)) == \E m \in net : m.to = n /\ H(m)
           IN  /\ WF_vars(Handled(HandleRequestRealmIDs))
               /\ WF_vars(Handled(HandleAvailableRealmIDs))
               /\ WF_vars(Handled(HandleRequestFloMetas))
               /\ WF_vars(Handled(HandleAvailableFlos))
               /\ WF_vars(Handled(HandleRequestFlos))
               /\ WF_vars(Handled(HandleFlos))
               /\ WF_vars(Handled(HandleStoreFlo))
               /\ WF_vars(Handled(HandleReadFlo))
               /\ WF_vars(Handled(HandleStoreCuckooID))
               /\ WF_vars(Handled(HandleFloValue))

Spec == Init /\ [][Next]_vars

FairSpec == Spec /\ Fairness

----------------------------------------------------------------------------
IsRealm(s) == s = NoRealm \/ (IsStorage(s) /\ IndexMatches(s) /\ SizeMatches(s))

\* The type of every variable.
TypeOK ==
    /\ DOMAIN realm = NodeID /\ DOMAIN disk = NodeID
    /\ \A n \in NodeID : IsRealm(realm[n]) /\ IsRealm(disk[n])
    /\ \A n \in NodeID : Config(n) \subseteq config[n]
    /\ net \subseteq MessageClosest \cup MessageDest \cup MessageNeighbour
    /\ published \subseteq Flo
    /\ stores \in 0..MaxStores /\ crashes \in 0..MaxCrashes

\* A flo that a node has stored survives its restart, in the same version:
\* every put is followed by a write of the file, in upsert_flo of messages.rs.
\* The file may hold more, what an eviction without a put dropped.
StoredIsDurable ==
    \A n \in NodeID : realm[n] # NoRealm =>
        /\ disk[n] # NoRealm
        /\ \A id \in Stored(realm[n]) :
              /\ id \in Stored(disk[n])
              /\ disk[n].flos[id].version = realm[n].flos[id].version

\* With room for everything, the nodes hold copies as FloReplicas allows: no
\* message, however late, no restart and no torn file makes a node go back to
\* an older version, or hold a flo nobody stored or a flo without its realm.
\* In a full storage one list of flos can evict a version and then put an
\* older one of the same flo.
Copies ==
    [n \in NodeID |-> [id \in FloID |->
        IF realm[n] # NoRealm /\ id \in Stored(realm[n])
        THEN realm[n].flos[id].version ELSE NoRealm]]

Replicas == INSTANCE FloReplicas
                WITH Node <- NodeID, Nothing <- NoRealm, copy <- Copies

ImplementsReplicas == Replicas!Spec

\* The nodes that hand out flos hold the same flos in the same versions.
Agree == \A n, m \in NodeID \ Evil : Copies[n] = Copies[m]

\* When there is room for everything and users stop storing, synchronisation
\* makes all nodes agree, whatever the router lost and whoever restarted.
Converges == <>[]Agree

----------------------------------------------------------------------------
(***************************************************************************)
(* What a comment of the code says, and the code does not do.              *)
(***************************************************************************)
\* core.rs:201 says of the filter of sync_available, which decides what is
\* synchronised: "This is actually correct".  Then neighbours that keep
\* synchronising get to know the same cuckoos of the flos they both store.
CuckoosConverge ==
    <>[](\A p \in Neighbours : realm[p[1]] # NoRealm /\ realm[p[2]] # NoRealm =>
            \A id \in Stored(realm[p[1]]) \cap Stored(realm[p[2]]) :
               realm[p[1]].flos[id].cuckoos = realm[p[2]].flos[id].cuckoos)
=============================================================================
