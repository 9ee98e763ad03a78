# Fledger in TLA+

Fledger is a peer-to-peer system of nodes in browsers and servers. A node stores
*flos* (versioned, signed blobs) of *realms* in a distributed hash table, chats
by gossip and fetches web pages over other nodes. This directory holds
specifications of its modules (`src/fledger/flmodules/src/...`, abbreviated
`flmodules/...` below), of the websocket server and the WebRTC connections
under them (`src/fledger/flarch/src/web_rtc`) and of the page editor of the
browser node (`src/fledger/flbrowser/src`), the instances TLC checks and the
theorems TLAPS proves.

1. [The system](#1-the-system): components, state, operations, what is hard
2. [The modules](#2-the-modules) and how they correspond to the code
3. [The runs](#3-the-runs): what is checked, with which bounds
4. [Fairness](#4-fairness)
5. [Proofs](#5-proofs)
6. [Where code and comments disagree](#6-where-code-and-comments-disagree)
7. [What is not modelled](#7-what-is-not-modelled)
8. [Open work](#8-open-work)

To check a run: `tlc -workers 2 -config MCRealmStorage.cfg MCRealmStorage.tla`;
to check proofs: `tlapm StorageProofs.tla`. `PROJECT.json` lists the runs,
which lines every definition stands for, the hazards and the theorems.

## 1. The system

All modules are actors (`flarch/broker.rs`): a *broker* has an input and an
output queue, handlers turn inputs into outputs, translators forward messages
to other brokers, taps copy them to tasks that wait for an answer. A handler
works on its own state only and runs to its end before the next message: this
is why an action of the models is a whole handler. All concurrency is between
actors and between nodes, in the order of messages.

```
 signalling server          (network/signal.rs)
        |  websocket: challenge, list of nodes, connection setup
     Network                (network/broker.rs)          WebRTC channels
        |-------------------------------.
  RouterNetwork (router)          RandomConnections ---- Ping
        |                               |
    DHT router  -- Kademlia table     Gossip (chat, node infos)   Web proxy
        |                                                        (either router)
    DHT storage -- one storage per realm
        |
    DHT storage broker, realm view -- page editor -- browser (main.js)
```

| Component | State | Operations | Hard behaviour | Correct means |
|---|---|---|---|---|
| Storage of a realm (`dht_storage/core.rs`) | flos by id with their cuckoo ids; index by depth; running size | `upsert_flo` with an eviction loop, `store_cuckoo_id`, `sync_available` | three pieces of state adjusted in several places; a loop that must end; a size limit that cuckoo ids ignore | index, map and size agree; furthest flos go first, the realm's flo never; no downgrade; a call returns unless the realm's flo alone is too large |
| DHT storage (`dht_storage/messages.rs`) | storages, accepted realms, neighbours, a file | store, read, synchronise with neighbours every minute, system realm | lost, late and reordered messages; restarts; a file that is truncated before it is written; a batch of flos in a full storage | what is stored is in the file; nodes hold only what was stored; copies never go back; neighbours agree in the end |
| Kademlia table (`dht_router/kademlia.rs`) | buckets and a root bucket of active and cached nodes with two counters | add, disconnect, blacklist, heard of, tick, route | splitting and merging; counters; limits of the lists | every node in its bucket; limits; next hops were heard of and are pinged before they go |
| DHT router (`dht_router/messages.rs`) | table, connected nodes, requests in flight, blacklist | send to a key / a node / the neighbours; ping; forward | each hop uses another node's table, which changes meanwhile; blacklisting while messages are on their way | no message goes in circles; bounded bookkeeping |
| Gossip (`gossip_events/`) | events per category, requested ids, known nodes, a file | add an event, new list of nodes, tick, four messages | lost messages and requests; restarts; writes that fail or are cut off; a full category; descriptions of a node out of order | all nodes end up with the same, newest events; limits; what was written is kept |
| Random connections (`random_connections/`) | known, connected, connecting nodes | connect on demand, drop, churn | reports that are late or never come; four actors with queues between them | no node in two lists; a dead node leaves |
| Ping (`ping/`) | counters of the connected nodes | list, ping, pong, tick | a list, a failure and a pong in one queue | watches the connected nodes and no others; a silent node is noticed |
| Network (`network/broker.rs`) | connections, countdown | connect on demand, connection setup both ways | both sides start at once; a side that closes | a message finds a connection |
| WebRTC connections (`flarch/src/web_rtc/mod.rs`) | a connection object of every peer, for ever | ensure a connection, send, close | objects of connections that never came up | a peer that is wanted gets an offer |
| Websocket server (`flarch/src/web_rtc/libc/web_socket_server.rs`) | connections in the order they were accepted | accept, read, send, close | handshakes that fail, sends that fail, events of several tasks in one queue | an index finds its connection |
| Signalling server (`network/signal.rs`) | connection <-> id, node infos, time to live | challenge, announce, list, setup, timer | reconnection of a known node, idle nodes, late ends of connections | no ghosts in the list; no node is dropped for the end of an old connection |
| Web proxy (`web_proxy/`) | requests by nonce, a channel of each, nodes in turn | get, header, chunks, done, timeout, reading | a tap that is set up after its request, a task of each chunk, answers after the timeout | get returns; no chunk is lost or doubled; the reader comes to an end |
| Page editor (`flbrowser/src/pages.rs`, `dht_storage/realm_view.rs`) | a view of the realm's pages, the edited and the shown page, the editor | view, edit, update, create, reset | text typed and clicks made while an update waits; a view that is ahead of the storage or behind it | an update stores its text, for its page; no page the editor takes for granted is missing; the view does not fall behind the user's own updates |
| Embedding of a page (`flbrowser/src/main.js`) | shadow root, scripts, a race of fetches and a timer | embed, script arrives or fails, timeout, inline scripts | late scripts, after the alert or on another page | inline scripts last; the race decides once |
| Router (`router/broker.rs`) | none | translates lists and messages | lists as of different moments | lists reflect the network |
| DHT storage broker (`dht_storage/broker.rs`) | requests of users | read with a timeout | answers for other callers, late answers | an answer answers its question |
| Broker (`flarch/broker.rs`) | queues, subsystems | emit, subscribe, settle | taps added while messages are pending, loops of links | no message lost or doubled |
| Conditions (`flcrypto/access.rs`) | none (algorithm) | verify a condition of keys, badges, thresholds | recursion, thresholds | the decision is the meaning of the condition |

The hazards of each component, with the line where they bite and the properties
that cover them, are in `PROJECT.json`.

## 2. The modules

**Storage of a realm.** `RealmCore` has the state of a `RealmStorage` as a
record (`flos`, `distances`, `size`) and its methods as operators; `RealmStorage`
makes a state machine of them: `Upsert` is `upsert_flo` up to its loop,
`EvictOne` one round of the loop, `UpsertDone` the return, so that the loop is
visible to a liveness property. A flo is an id and a version; `FloSize` gives
the size of its encoding and `Parent` the flo it is a cuckoo of. Depths are
those of `KNode::get_depth`, which `NodeIds` defines on bits for TLC.

**DHT storage.** `DHTStorage` composes one `RealmCore` storage per node (for one
realm) with the messages of `dht_storage/messages.rs`. `net` is a set: messages
may be reordered; with `Lossy` they may get lost. Messages of the router
(StoreFlo, ReadFlo, StoreCuckooID, and the answer) can reach any node, because
which one the router picks depends on its table; those between neighbours follow
`Neighbours`. `disk` is the file; `Restart` reads it, `RestartTorn` finds it
truncated. `Evil` nodes are those with `EVIL_NO_FORWARD`. `FloReplicas` is the
abstract specification: versions that users published, and copies that nodes
hold. `DHTStorage!Copies` is the refinement mapping.

**Routing table.** `KademliaCore` has the buckets and the methods of `Kademlia`
and `KBucket`; `Kademlia` is the state machine of all calls. Two histories,
`heard` and `asked`, record which known nodes have sent a message and which
were pinged since. Of the two counters of a node only `ticks_last` decides
anything, and it never gets past the timeout, where the node goes. `IdDistance` states
what the models need of depths (the assumptions of the proofs), which TLC
evaluates for the ids of the instances.

**DHT router.** `DHTRouter` has a table, `connected`, `requests_in_flight` and
the blacklist for every node, and the messages between them with their last
hop. Each message carries the nodes it visited, as a history. `KeyRouting` is
the abstract specification: a message may be handed to a known node that shares
more bits with the key, or to one on the wrong branch that is nearer to the
sender than both the key and the last hop, while what nodes know changes
arbitrarily. Messages are a set there, so that two that took the same way are one;
`Forward` may therefore leave one behind. `RouterOut::Disconnected` is handled in the code and in the model
although no router in the repository emits it (`router/broker.rs:143`).

**Gossip.** `GossipEvents` has for each node its events, the file, the list of
neighbours, the ids it asked for and the ticks since it started, and a FIFO
channel per direction of a connection. `Insert` and `Limit` are the storage;
each message is an action. An event is identified with its hash. `Lose` is a
message to a node that is not connected, which
`random_connections/messages.rs:97` drops. `Store` writes the file, and may fail:
`File::create` truncates it first (`flarch/src/data_storage/libc.rs:66`), so that it
keeps what it had or is empty, and the code only warns. A node that restarts from
an empty or unreadable file starts with no events (`gossip_events/messages.rs:66`);
a crash in the middle of a write is a failed write with a `Restart` after it.
`failed` and `forgotten` are histories: the nodes whose last write failed, and the
events that nobody held any more after a restart of one of them.

**Web proxy.** `WebProxy` is a node that asks and the proxies it asks. A call of
`get` emits its request (`Get`) and only then sets up the tap (`TapOut`) that
sees the header; the broker handles the request (`HandleRequestGet`) at any
time in between. Each chunk is given to a task of its own (`tasks`, a set,
because tasks run in any order) that puts it into a bounded `channel`; the
channel ends when the last sender is dropped, which `Sends` counts: the message
that is not handled yet, the entry of the table, and every task. The proxy
(`StartRequest`) picks one of the answers the code can produce: all of the
body, an error, or a beginning after which its task panicked.

**Signalling.** `WebSocketServer` has the accepting task, the reading tasks and
the vector of connections; `SignalServer` EXTENDS it with the handler of the
signalling server. Indexes count from 1. `connection_ids` is a bijection, so
that `Insert` drops whatever either side was bound to. A node answers whichever
challenge reaches it, because the vector may send it to the wrong one; a
signature is the challenge that is signed, so that `Verifies` can refuse it. The
events of all tasks wait in one queue, `events`: the accepting task emits
`NewConnection` and goes on, so that the vector may have changed when the event is
handled, and a reading task, which runs before that, may be the first to emit
something of its connection. What the handler sends is delivered in the same step:
its state depends on the events and the timer only, so that a message which waits
for its delivery is an event that is handled later.

**Connections.** `Connections` composes four actors of one node, with the queues
between them: `RandomConnections` (`toRandom`), `Ping` (`toPing`), `Network`
(`toNet`), and the table of WebRTC connections (`nodeConns`, `channel`). Each
handler is one action, named after its message. The peers are the environment:
they open, close, send, die without a notice and come back.

**Page editor.** `EmbedPage` is `embedPage` of `main.js`: each call is numbered,
and its record has the fetches under way, the timer, the outcome of
`Promise.race` and the scripts that ran. Microtasks (`RunInlineScripts`) go
before tasks (`ScriptArrives`, `FetchFails`, `Timeout`), as in the browser.
`Pages` EXTENDS it with the task of `pages.rs`, its queue of clicks, its view and
what the storage below does to pages. `store_page` puts a page into the view and only
emits `StoreFlo` (`realm_view.rs:375`): the task of the storage takes it later from
the queue `storing`, ignores it when it has a version as new, or finds no room
(`StoreFlo`), and may evict it (`Evict`); flos of other nodes come in between
(`FloFromNetwork`). `update_cuckoos` finds what the storage holds and asks other
nodes for the rest, whose answers may be old, late or missing (`Found`, `asked`).
`store_edit_page` is three actions, because the user goes on while it waits:
`StoreEditPage` reads the editor, `UpdatePage` stores what was read, or fails
(`UpdateFails`), and `UpdateCuckoos` refreshes the view and fills the editor again.
`ShowHomePage` and `CreatePage` end with `UpdateCuckoos`, too.

Definitions marked "Faulty" are variants of the definition below them, with a
mistake a change of the code could make; every property is violated by at least
one of them, so that it is known to be able to fail. They are not used by any
specification.

## 3. The runs

| Run | What it shows | Bounds | States |
|---|---|---|---|
| `realm_storage` | index, running size, realm's flo, eviction order, versions, for every sequence of calls; every upsert returns unless the realm's flo alone exceeds the storage | 5 flos at 3 depths, 2 versions, a size that three or four of them fill, cuckoos of the realm's flo, which can exceed the storage, and of others; one flo too large to be stored | 3 406 |
| `dht_storage` | every storage and file stays consistent, and every stored flo is in the file | 2 nodes, 3 flos, too little room, lossy links, 3 stores by users, 1 restart that may be torn, 2 messages at a time | 489 114 (1 min) |
| `dht_converge` | the nodes implement `FloReplicas`, and synchronisation makes them agree | 3 nodes in a line, 2 flos, 3 stores, 1 restart | 47 597 (65 s) |
| `kademlia` | a well-formed table under any calls (`TableWellFormed`: types, every node in its bucket, limits, a root bucket that does not overflow), next hops that were heard of, pings before a node goes, nothing lost by splitting, silent nodes gone | ids of 5 bits, 5 other nodes at 2 depths, k = 2, interval 1, timeout 2 | 24 282 (1 min) |
| `dht_router` | hops are those of `KeyRouting`; tables and requests in flight stay bounded (`RoutersWellFormed`) | 4 nodes in a star, keys of nodes and of a flo, 2 messages, 1 change of the lists, 1 tick, k = 1, limit 0 | 450 529 (90 s) |
| `gossip_pair` | the file has what is in memory once a write succeeds (`EventsAreDurable`), limits (`EventsWellFormed`) and agreement with one disconnection, loss, restart or failed write at any point | 2 nodes, two descriptions of one of them | 279 024 (1 min) |
| `gossip_line` | only old events go, and all nodes end up with the newest ones | 3 nodes in a line, 2 messages of which one is kept | 123 262 (50 s) |
| `pages` | the pages the editor takes for granted are there (`EditorConsistent`), the view does not fall behind the user's own updates, inline scripts run last and in their order, an alert is final, an update stores its text, and every page gets its scripts or an alert | 2 pages of which one is attached to the other and one may be evicted, a text with an external script between two inline ones, 3 clicks of which 1 waits, 2 versions, 2 embeddings, updates of other nodes | 806 181 (140 s) |
| `web_proxy` | a body that was read to its end is complete (`ResponsesConsistent`), `get` returns, readers end | 2 requests, a proxy that comes or goes once, bodies of 2 chunks, a channel of 1, 1 lost message | 122 548 (35 s) |
| `signalling` | the list has exactly the nodes with one live index (`ListConsistent`), nodes leave it for a reason, and those that are gone leave it | 2 nodes, 3 connections whose handshakes may fail, an event that waits while others happen, a time to live of 2, 1 request | 1 324 452 (165 s) |
| `connections` | the three lists stay apart (`ListsConsistent`), Ping watches connected nodes only, and dead nodes leave | 2 peers, 1 fault, events while less than 2 messages wait, interval and timeout 1 | 392 820 (65 s) |
| `web_sockets` | the disagreement of section 6 | as `signalling` | 20, to the violation |

Why these bounds are enough to mean something:

- *Realm.* The state space is complete: no counter is bounded, every order of
  calls is covered. Five flos fill the storage with two candidates for eviction
  at one depth, the realm's flo at the depth where eviction starts, and a
  flo that grows with its version. Three flos are cuckoos of the realm's flo: with
  their ids it is larger than `max_space`, and the loop of `upsert_flo` does not end,
  which `UpsertReturns` names as the only exception (`RealmOverruns`).
- *DHT storage.* `MaxNet` bounds the messages under way when a user stores or reads
  or a timer ticks; what handlers send is not bounded. In `dht_storage` it is 2, so that
  an old version may be on its way while the new one is stored, and a
  synchronisation races another message. In `dht_converge` it is 1: a store or a
  synchronisation starts only when nothing is under way, and what races are the
  messages that come of one of them, which are handled in any order, and a restart.
  Two nodes suffice for durability, which is per node; agreement needs the third,
  which hears of everything only through the second.
- *Kademlia.* With k = 2, five nodes are enough to split the root bucket, to
  merge it again, and to fill a depth beyond k. Interval and timeout are as
  short as the assumption on them (a timeout of two intervals at least) allows.
  No counter is bounded: every sequence of calls is covered.
- *DHT router.* The star has a node on the wrong branch, and two on the same
  branch at different depths. `MaxInFlight` is 0 (10 in the code), so that the
  second request of a node blacklists it. `MaxNet` is 1: a message, a change of the
  lists or a tick starts only when no message is under way. Several are under way
  when one is sent to all neighbours or by a tick; while a message to a key is on
  its way, only its own handlers change tables, which learn of the last hop
  and lose blacklisted nodes. The theorems are for any `MaxNet`.
- *Gossip.* `WarmUp` is 1 (3 in the code): it only delays the first tick.
  `MaxQueue` lets a node tick only while the channels are nearly empty; the
  handlers are not bounded. `MaxFaults` is 1 in `gossip_pair`, and a restart after a
  write that was cut off counts once.
- *Pages.* Three clicks are enough for edit, update and a view of another page
  in between; two embeddings for a late script on a page that was left. What other
  nodes send has the text "app", and the user's own is the empty one: an own text
  that comes back from another node is not in the run. The editor is there
  (`Ace`); without it an update stores an empty text, which section 6 describes.
- *Web proxy.* A channel of one place makes the second chunk wait for the
  reader; the second request interferes through the turns of the nodes and the
  table only.
- *Signalling.* The third connection makes one of the two nodes reconnect before,
  during or after the removal of its old connection, or takes the place of a
  failed handshake. `MaxEvents` is 1: tasks emit only while no event waits, which is
  enough for a third connection at the place of the second before the challenge of
  the second is sent, so that the challenge reaches the third and its answer is
  refused. The theorems are for any number of events.
- *Connections.* `MaxQueue` bounds when the world may add to the queues, not what
  the handlers send: up to five messages wait. With `Interval = Timeout = 1` a node
  is pinged once before it fails.

`CHECK_DEADLOCK FALSE` is set for `dht_router`, `pages`, `web_proxy`, `signalling`,
`web_sockets` and `connections`: clicks, requests, connections, or faults are
bounded, and the instance stops (or only waits for the world) when they are
used up.

## 4. Fairness

Safety properties assume none. For liveness:

- `RealmStorage`: the eviction loop goes on (`WF` of `EvictOne` and
  `UpsertDone`): a thread in a loop runs. `UpsertReturns` says that it ends, or that
  only the realm's flo is left and larger than `max_space` (`RealmOverruns`).
- `DHTStorage!FairSpec`: every kind of message that waits for a node is handled
  (`WF`, one queue per node), and the minute timer does not stop (`SF` of
  `SyncFromNeighbors`: strong, because the bound `MaxNet` disables it at times,
  which the code's timer does not know). Nothing is assumed of users, of the
  router's deliveries beyond handling, or of restarts, whose number is bounded.
- `Kademlia`: the second timer ticks (`WF` of `Clock`), for `SilentNotActive`
  only.
- `GossipEvents!FairSpec`: messages are handled, the second timer ticks (`SF`,
  because of `MaxQueue`), and a node is told of its neighbours after every
  change of them (`random_connections/messages.rs` reports every change).
- `Pages!FairSpec`: microtasks run and the timer of an embedding fires. Nothing is
  assumed of fetches, which may neither end nor fail, nor of the storage and the task
  of the pages.
- `WebProxy!FairSpec`: the executor runs the tasks of the node that asks, the
  timeout of a caller goes off, and a reader reads. Nothing is assumed of proxies
  or the network: they may keep silent for ever.
- `SignalServer!FairSpec`: the minute timer ticks. Nothing is assumed of nodes,
  connections, reading tasks and the queue of events: the end of a connection may
  never be seen.
- `Connections!FairSpec`: the three brokers handle their messages (`WF` of each),
  and the second timer ticks (`SF`, because `MaxQueue` disables it at times).

## 5. Proofs

Each theorem is proved for every value of the constants that satisfies the
assumptions stated in its module, which the runs evaluate. The properties have the
names they have in the runs.

**`StorageProofs`** has three parts.

*The methods of a storage.* A lemma for each of them says that it takes good
storages to good ones (typed, index matches, size matches) and what it changes
(`RemoveEntryGood`, `PutGood`, `StoreCuckoosGood`, `RemoveFurthestGood`,
`BeforeEvictionGood`), then the eviction loop (`EvictGood`) and the whole of
`upsert_flo` (`UpsertGood`, `UpsertPuts`).

*The storage of a realm*, for any finite set of flos, sizes, depths and cuckoo
relation:

- `StorageTypeCorrect`, `IndexCorrect`, `SizeCorrect`, `RealmFloKept`: four of the
  invariants of `realm_storage`;
- `EvictsFurthestFirst`, `NeverDowngrades`: its two action properties;
- `OnlyCuckoosOverrun`: `OverrunOnlyByCuckoos`, if the realm's own flo fits into
  `max_space` in every version. This is needed: eviction never takes that flo,
  so nothing else can make room for it.

None of the invariants is inductive alone: the size is only right if what
eviction removes from the map is what the index names, and the index only if
ids are in it once. `StorageIInv` is their conjunction: the storage is good, its
root is the node, the realm's flo is stored, and while an upsert evicts, the flo
is one that may be stored. For the overrun, the sum of the flos alone is below
the running size, which counts their cuckoos as well, and the
loop goes on while that is too large.

*The nodes of a network*, for any finite set of nodes, flos, versions, cuckoo
relation, sizes and bounds:

- `TypeCorrect` and `FlosAreDurable` (`StoredIsDurable`): what a node stores is in
  its file after every handler, whatever list of flos arrived;
- `ReplicasImplemented` (`ImplementsReplicas`): every step is a step of
  `FloReplicas` or a stutter, under the hypothesis `RoomForAll`, that no storage
  can exceed `max_space`, as in the instance of `dht_converge`.

The invariant of the first two says of every node that its storage and the one
in its file are good and that each stored flo is in the file (`NodesOK`), and of
every message that it is a finite list of such data (`MessagesOK`). The refinement
needs in addition that every version in a storage, a file or a message was
published, and that the realm's own flo is stored. Then a list only lets
versions grow (`Grows`, which is transitive along the list). Without room it does
not: section 6.

**`InductionLemmas`** is what the other proofs use in place of induction, for which
the installed provers have no principle: minimal counterexamples, which exist in
every interval of the naturals (`IntervalInduction`) and, by the finiteness of the
power set, among the subsets of a finite set (`MinimalSubset`). Handlers of lists and
loops are recursive functions over an interval in the models, and `Iterates` says
that such a function exists. The sum over a finite set of the community modules,
`SumFunctionOnSet`, is unfolded here once. All of this is arithmetic and set theory,
lemmas that the other modules cite and no statement about the code.

**`GossipEventsProofs`**, for any nodes, events, categories and limits:

- `EventsStayWellFormed` (`EventsWellFormed`);
- `EventsStayDurable` (`EventsAreDurable`): once a write has succeeded the file has
  what is in memory, until one fails, and so also after a node restarted from a file
  that was left empty;
- `OldestGo` (`OldestGoFirst`): an event leaves a node only for a newer one of its
  source, or out of a category that is full of events that are no older, or with a
  restart after a write that failed.

The invariant says of the events of a node that they are those in its file unless
the last write failed, that both were created by somebody and keep within the limits,
for a restart may bring back an older file (`EventsOK`), and of messages and
requests that they are about events that were created (`MessagesOK`). The difficulty is in the
action property: a handler that gets a list inserts one event after the other, and
what the first replaced may be missed by a later one. `Remembered` says of an event
that it is stored or superseded, that is, a newer one of its source is stored or its
category is full of events as new; `InsertRemembers` says that inserting and
cutting a category back to its limit leaves all events remembered, and
`InsertAllGood` carries this along the list. `LimitDropsOldest` is the
fact about the limit: what is cut off is no newer than anything that stays.

**`RoutingProofs`**, for any ids whose depths behave like the length of a common
prefix (the assumptions of `IdDistance`), finitely many nodes, any k and any limits,
has four parts.

*The table*, as the state machine `Kademlia`: `TableIsWellFormed`
(`TableWellFormed`), `OnlyHeardIsActive` (`ActiveWereHeard`), `DroppedWasPinged`
(`PingedBeforeDropped`) and `DepthsKeepNextHop` (`ReachKept`). Each method is
described by what it does to the nodes of the table as a whole, with `Moves` where
nodes only change their list or their bucket, and `Settles` where some come and
some go. The invariant `TableInv` says that the table is settled, that active nodes
were heard of, and that a node which was silent for longer than the interval has
been asked (`SilentAsked`). What is hard is the loop that splits the root bucket, whose
bound the code does not state: it splits while at least k nodes are *beyond* the
depth that is split off, so that each round takes all nodes of one depth
out of it (`SplitKeeps`), and it ends after `MaxDepth + 1` rounds at the latest, with a
root bucket that does not overflow (`RebalanceOverflowKeeps`).

*The routers*: `RoutersAreWellFormed` (`RoutersWellFormed`). `RouterInv` says that every
table is settled and does not contain the node itself, whatever was learnt from
hearsay (`AddNodesSettled`) and removed by a blacklist (`RemoveNodesSettled`), and that
a router with blacklists has at most `MaxInFlight + 1` requests with any node: blacklisting leaves
at most `MaxInFlight`, and a message notes one per node (`NotedKeeps`, `BlacklistKeeps`).

*The refinement*: `RoutersImplementKeyRouting` (`ImplementsKeyRouting`). Next hops
are active nodes at the depth of the key or, for a message that is forwarded, at one
beyond both the key and the last hop (`HopsOfRoute`); or the key itself, where it is
a connected node (`HopsOfNode`). With `Abstraction`, the routed messages of the network with
the nodes they visited, each handler is a `Start`, a `Forward`, an `End` or a
stutter of `KeyRouting` (`NextAbstracted`).

*The way of a message*: `LoopFree`, that under `KeyRouting` a message never visits
a node twice, whatever tables become between hops; and, by the refinement,
`RoutersAreLoopFree`, that none does among the routers. The inductive invariant is
`KeyRouting!IInv`: every visited node shares fewer bits with the key than the next
hop; or as many, and then it shares fewer with the next hop than the hop before
does.

**`SignalServerProofs`**, for any nodes, numbers of connections and times to live:
`ListStaysConsistent` (`ListConsistent`) and `NodesLeaveForAReason`
(`LeavesForAReason`). They need an invariant of the queue, `EventsOK`: all events
are of connections of nodes, not of failed handshakes; a connection whose
`NewConnection` was not handled has no challenge yet, and no second `NewConnection`;
and `Disconnection` is only emitted of connections that are gone. Without the second,
`Insert` could take an index from another connection. `Handling` says that taking the
first event keeps `EventsOK`, `EmittedIInv` that emitting one does.

**`ConnectionsProofs`**, for any peers and bounds: `ListsStayConsistent`
(`ListsConsistent`) and `PingWatchesConnected` (`WatchedAreConnected`). The second
is a statement about an empty queue, and what makes it inductive is a statement
about full ones, `Forgets`: for every node that is not connected, the messages in
the queue of `Ping` settle it, that is, either none is about it and it is not
watched, or the last one that is takes it away. A list without the node and
`DisconnectNode` take it away, a pong and a list with the node do not, a tick
says nothing; the lemmas about `Forgets` say what appending one or several
messages and taking the first one do to it. Every handler that takes a node from
`connected` sends a list after it, which is what keeps it true.

**`PagesProofs`**, for any pages, texts, scripts and bounds: `EditorStaysConsistent`
(`EditorConsistent`), `OwnUpdatesStay` (`ViewHasOwnUpdates`), `InlineScriptsComeLast`
(`InlineScriptsLast`), `AlertIsFinal` (`AlertedNeverRuns`), `UpdatesStoreTheText`
(`UpdateStoresTheText`). The invariant has three parts. `EmbedsOK`, about the browser:
while the race of an embedding is open only external scripts have run; once it is
won no fetch is left, so that nothing can run after the inline scripts. `EditorOK`,
about the task of the pages: what was clicked or is edited is in the view, and the
text that waits is the one of its click. `OwnOK`, about the storage: what waits for
it is in the view, in a version as new (`QueueInView`), and the storage has what it
took of this user's, or something newer (`OwnStored`); so a refresh, which waits until
the storage has handled the queue, does not take the user's own version from the view.

**`WebProxyProofs`**, for any requests, nodes, number of chunks and capacity:
`ResponsesStayComplete` (`ResponsesConsistent`). The invariant `Answer` says of every
request that each chunk that arrived is in exactly one place, with a task, in the
channel or in the text (`Accounted`), unless a timeout dropped the channel. Since
tasks are a set, this needs that no chunk arrives twice: what is left of an answer
is in its order and comes after what arrived (`Ordered`, `After`), and before the
answer begins, nothing of it is anywhere (`Unanswered`), because a request is asked
once.

Only model-checked: liveness (`UpsertReturns`, `Converges`, `SilentNotActive`,
`GossipSettles`, `GetReturns`, `ReaderEnds`, `EveryPageDecided`, `GoneNodesLeave`,
`DeadPeersLeave`), which needs fairness and `ENABLED`, out of reach of the provers. All
other properties of the passing runs are theorems.

## 6. Where code and comments disagree

`web_sockets` is a run whose one property, `IndexFindsConnection`, states what the
code says, and which TLC finds violated. "Send a message to the connection with
index `usize`. If the connection doesn't exist, or is closed, nothing happens."
(`flarch/src/web_rtc/websocket.rs:97`) But the accepting task counts every
connection, also one whose handshake fails, the vector holds only the good ones,
and `remove(id)` shifts the others (`web_socket_server.rs:55`, `:82`): from then on
messages go to another connection, or to none. The list of the signalling server
stays consistent all the same: `signalling` has this behaviour, too, and in it
challenges that reach the wrong connection, whose answers `Verifies` refuses.

Seven configurations are kept beside the runs, each for one more statement of a
comment that the model, like the code, does not satisfy. They show their
counterexample on demand, e.g.
`tlc -config MCProxyOrder.cfg MCWebProxy.tla`:

| Configuration (module) | The code | The comment |
|---|---|---|
| `MCRealmTrueStored` (`MCRealmStorage`) | `upsert_flo` returns `true` for a flo it did not store (`dht_storage/core.rs:229`): no room, or evicted at once, because the space that eviction can free counts the realm's flo (`:241`) | "When 'true' is returned, then the flo has been stored." (`messages.rs:488`) |
| `MCRealmHang` (`MCRealmStorage`) | once the realm's flo with its cuckoo ids is larger than `max_space`, the loop of `upsert_flo` does not end (`core.rs:251`): `AlwaysReturns` fails, where `UpsertReturns` names the exception | the lines after the loop report that case (`:257`) |
| `MCDHTCuckoos` (`MCDHTStorage`) | nodes that know equally many, but different, cuckoos of a flo never exchange them (`core.rs:204`) | "This is actually correct" (`:201`) |
| `MCKademliaRoute` (`MCKademlia`) | the wrong branch is not used for its deepest nodes, nor for a new message (`kademlia.rs:114`) | the comment at `:107` |
| `MCDHTBlacklist` (`MCDHTRouter`) | a blacklisted node that is connected still gets messages (`dht_router/messages.rs:217`) | "IMPOSSIBLE?" (`:361`) |
| `MCProxyOrder` (`MCWebProxy`) | two tasks with chunks may run in either order (`web_proxy/core.rs:87`) | a reply is "indexed by the second argument" (`web_proxy/messages.rs:26`) |
| `MCConnectingTimeout` (`MCConnections`) | `connecting_timeout` is never read; a node that never comes up stays in `connecting` and counts as a connection (`flarch/src/web_rtc/mod.rs:88`) | "how long a node stays in the connecting-queue before it is considered to have a failed connection" (`random_connections/messages.rs:230`) |

Other observations made while modelling, which no comment contradicts:

*Storage and gossip*

- In a full storage, one `Flos` message can evict a version and then store an
  older one of the same flo: `ImplementsReplicas` is checked and proved only with
  room.
- Cuckoo ids that arrive with a flo are added after the file was written
  (`messages.rs:448`) and are lost by a restart until the next change.
- The result of a write is dropped (`gossip_events/messages.rs:94`); after one that fails the next
  that succeeds makes up for it; a node that dies between the truncation of its file
  and the write comes back with no events, and what nobody else held is gone.
- An event older than everything in a full category is inserted, dropped at
  once, and still announced (`gossip_events/core.rs:163`): the neighbours ask
  for what the node no longer has.
- Events of a category with equal times are dropped in the order of a
  `HashMap`: full categories may stay different. `GossipSettles` assumes
  distinct times.
- `node_disconnected` does nothing for nodes in the root bucket.

*Connections*

- When a channel closes, `Disconnected` is passed on, but the node stays in
  `Network.connections` (`network/broker.rs:281`); and `WebRTCConn` keeps its
  object for ever, also after `Network` disconnected. A later `Connect` sends no
  `Init` then: only the peer can bring the pair together again.
- `MessageToNode` puts a node that was disconnected in the meantime back into
  `Network.connections`. That new connections are refused beyond
  "2 * nodes_needed" (`random_connections/core.rs:135`) is not in the code: the calls
  that drop surplus connections are commented out (`messages.rs:84`), so that no
  node sends `DropConnection`.

*Signalling*

- A node that was removed for being idle does not announce itself again while its
  connection lives. The list is also given to connections that announced nothing.
- The time to live is decremented and then compared with 0 (`signal.rs:180`): a
  `ttl_minutes` of 0 would wrap around, which the models exclude. "Add 2 to the
  ttl_minutes" (`:136`) is not done: an idle node may be removed almost a minute
  before the "minimum time" of `:124`.
- The accepting task waits for each handshake before it accepts the next one.

*Web proxy*

- The header may come before the tap of its caller: `get` then returns its timeout.
- An error of a proxy leaves the request in the table, and a lost `Done` leaves the
  reader waiting for ever; `ReaderEnds` therefore starts where the request has
  left the table.

*Pages*

- Reset and Update clicked in a row make the task of the pages panic, because
  `store_edit_page().await.expect(...)` has nothing to edit (`running` in `Pages`).
- An update from a view that is behind the storage is lost: the storage ignores a
  version that is not newer than what it got from another node, the view shows it all
  the same, and the next refresh replaces it. So is one for which there is no room,
  although it is announced to other nodes (`StoreFlo` in `Pages`).
- A late or older answer of another node may put an older page over the user's own in
  the view (`update_cuckoos` takes what it finds): pages that were asked for are
  the exception in `ViewHasOwnUpdates`.
- An update whose condition is not found in time panics, like one without a page.
- Text typed while an update or a creation waits is overwritten when the page is edited again.
- External scripts run in the order they arrive, also after the alert. The alert
  of a page that was left is still shown. If the editor could not be loaded, an
  update stores an empty text.

## 7. What is not modelled

Every component has an entry in `PROJECT.json` with the reason. In short:

- *Wiring and reading only*: router, DHT storage broker, node, timer. The storage
  broker takes the first answer that fits a question (`dht_storage/broker.rs:294`),
  which may be that of another caller; the answers only read, and the pattern of a
  tap and a timeout is modelled in `WebProxy`.
- *Sequential algorithms with unit tests*: conditions and signatures.
- *Data*: encodings, hashes, statistics, logs, formats of earlier versions of a file.
- *Input and output*: the negotiation inside a WebRTC connection, the other tabs of
  the browser node, the command line, simulations, experiments, the metrics library.

About the JavaScript of the repository: nearly all of the 20 files are minified
bundles of a framework below `src/hermes/public/js` (tables, forms, charts), generated
from sources that are not in the repository and without state of Fledger. The only
file of its own is `src/fledger/flbrowser/src/main.js`, of which the editor and the
embedding of pages (`Pages`, `EmbedPage`) are modelled; its remaining lines load
the WebAssembly of the node. All the logic of Fledger is in Rust, and nearly all of
`map` points there. A share of the JavaScript lines above a sixth would need models
of those bundles, which would say nothing of this system.

Within the modelled components:

- Requests that only read (`GetFlos`, `GetRealms`, `ReadCuckooIDs`, the statistics of
  the web page) are left out. A node has one realm in `DHTStorage`: realms share only
  the file and the list of accepted ones. `max_space` of a realm is that of its flo
  and does not change. A write of the file that fails (`dht_storage/messages.rs:548`,
  whose result is ignored) is not modelled there, only one that a crash cuts off
  (`RestartTorn`): `StoredIsDurable` is about writes that succeed.
- `DHTStorage` and `DHTRouter` are separate: the router's deliveries are an arbitrary
  choice of a node in the first, the payload is opaque in the second.
- `Connections`: dropping surplus connections and churn, whose calls are
  commented out (`messages.rs:84`), the infos of nodes, the reconnection
  of the websocket. Messages of one list go out in a fixed order. The late report of
  a channel that was reset is put into the queue at once. Left out of the messages to
  peers are the answers to their pings and those of other modules; a channel opens and
  closes for both sides, so that a `Disconnected` of one direction only is not there.
- `WebProxy`: the tap that stays when `get` times out (`web_proxy/broker.rs:91`).
- `SignalServer`: `Close` and `Stop` of the websocket server, which nobody sends.
- `WebProxy`: the web server of the proxy itself; a proxy answers in one of the ways
  `start_request` can.
- `Pages`: parents, children and paths of pages, pages with several files, and realms;
  which flos a storage evicts and when (any page of `Evictable`, at any time); callbacks
  and timers of scripts that ran, which find in the global `documentRoot` the page that
  is shown when they run.

## 8. Open work

- A storage broker with several callers, composed with `DHTStorage`.
- The setup of one WebRTC connection by both sides at once (`web_rtc/node_connection.rs`),
  composed with `SignalServer`.
