------------------------- MODULE ConnectionsProofs -------------------------
(***************************************************************************)
(* Proof that the lists of one node stay consistent, and that Ping watches *)
(* only connected nodes, for any peers, intervals and timeouts and however *)
(* the four tasks interleave.                                              *)
(*                                                                         *)
(* The second is not inductive: Ping learns of the end of a connection by  *)
(* messages.  What is (Forgets) says of every node that is not connected   *)
(* that the messages on their way to Ping make Ping forget it: the last    *)
(* one that is about it removes it.                                        *)
(***************************************************************************)
EXTENDS Connections, FiniteSetTheorems, TLAPS

\* The messages that make Ping watch a node, and those that make it stop.
Adds(m, p) ==
    (m.type = "UpdateNodeList" /\ p \in m.nodes) \/ (m.type = "Pong" /\ m.node = p)
Removes(m, p) ==
    (m.type = "UpdateNodeList" /\ p \notin m.nodes) \/ (m.type = "DisconnectNode" /\ m.node = p)

\* Once Ping, which watches w, has handled the messages of q, it does not watch p.
Settles(q, w, p) ==
    \/ \E i \in DOMAIN q : Removes(q[i], p) /\ \A j \in DOMAIN q : j > i => ~Adds(q[j], p)
    \/ p \notin w /\ \A j \in DOMAIN q : ~Adds(q[j], p)

Forgets == \A p \in Peer \ storage.connected : Settles(toPing, Watched, p)

IInv == TypeOK /\ ListsDisjoint /\ Forgets

----------------------------------------------------------------------------
(***************************************************************************)
(* Lemmas about the queues.                                                *)
(***************************************************************************)
LEMMA AppendSettles ==
    ASSUME NEW q \in Seq(PingIn), NEW m \in PingIn, NEW w, NEW p,
           Removes(m, p) \/ (Settles(q, w, p) /\ ~Adds(m, p))
    PROVE  Settles(Append(q, m), w, p)
<1> DEFINE n == Len(q)
           r == Append(q, m)
<1>1. /\ n \in Nat /\ DOMAIN q = 1..n /\ DOMAIN r = 1..(n + 1)
      /\ \A i \in 1..n : r[i] = q[i]
      /\ r[n + 1] = m
  OBVIOUS
<1> HIDE DEF n, r
<1>2. CASE Removes(m, p)
  <2>1. n + 1 \in DOMAIN r /\ Removes(r[n + 1], p) /\ \A j \in DOMAIN r : ~(j > n + 1)
    BY <1>1, <1>2
  <2> QED
    BY <2>1 DEF Settles, r
<1>3. CASE Settles(q, w, p) /\ ~Adds(m, p)
  <2>1. CASE \E i \in DOMAIN q : Removes(q[i], p) /\ \A j \in DOMAIN q : j > i => ~Adds(q[j], p)
    <3>1. PICK i \in DOMAIN q : Removes(q[i], p) /\ \A j \in DOMAIN q : j > i => ~Adds(q[j], p)
      BY <2>1
    <3>2. i \in DOMAIN r /\ Removes(r[i], p)
      BY <1>1, <3>1
    <3>3. ASSUME NEW j \in DOMAIN r, j > i PROVE ~Adds(r[j], p)
      <4>1. CASE j = n + 1
        BY <4>1, <1>1, <1>3
      <4>2. CASE j # n + 1
        <5>1. j \in DOMAIN q /\ r[j] = q[j]
          BY <4>2, <1>1
        <5> QED
          BY <5>1, <3>1, <3>3
      <4> QED
        BY <4>1, <4>2
    <3> QED
      BY <3>2, <3>3 DEF Settles, r
  <2>2. CASE p \notin w /\ \A j \in DOMAIN q : ~Adds(q[j], p)
    <3>1. ASSUME NEW j \in DOMAIN r PROVE ~Adds(r[j], p)
      <4>1. CASE j = n + 1
        BY <4>1, <1>1, <1>3
      <4>2. CASE j # n + 1
        <5>1. j \in DOMAIN q /\ r[j] = q[j]
          BY <4>2, <1>1
        <5> QED
          BY <5>1, <2>2
      <4> QED
        BY <4>1, <4>2
    <3> QED
      BY <2>2, <3>1 DEF Settles, r
  <2> QED
    BY <1>3, <2>1, <2>2 DEF Settles
<1> QED
  BY <1>2, <1>3

LEMMA HeadSettles ==
    ASSUME NEW q \in Seq(PingIn), q # <<>>, NEW w, NEW v, NEW p, Settles(q, w, p),
           Removes(Head(q), p) => p \notin v,
           p \notin w /\ ~Adds(Head(q), p) => p \notin v
    PROVE  Settles(Tail(q), v, p)
<1> DEFINE n == Len(q)
           r == Tail(q)
<1>1. /\ n \in Nat \ {0} /\ DOMAIN q = 1..n /\ DOMAIN r = 1..(n - 1)
      /\ \A i \in 1..(n - 1) : r[i] = q[i + 1]
      /\ Head(q) = q[1]
  OBVIOUS
<1> HIDE DEF n, r
<1>2. CASE \E i \in DOMAIN q : Removes(q[i], p) /\ \A j \in DOMAIN q : j > i => ~Adds(q[j], p)
  <2>1. PICK i \in DOMAIN q : Removes(q[i], p) /\ \A j \in DOMAIN q : j > i => ~Adds(q[j], p)
    BY <1>2
  <2>2. \A j \in DOMAIN r : j + 1 \in DOMAIN q /\ r[j] = q[j + 1]
    BY <1>1
  <2>3. CASE i = 1
    <3>1. p \notin v
      BY <2>1, <2>3, <1>1
    <3>2. \A j \in DOMAIN r : ~Adds(r[j], p)
      BY <2>1, <2>2, <2>3, <1>1
    <3> QED
      BY <3>1, <3>2 DEF Settles, r
  <2>4. CASE i # 1
    <3>1. i - 1 \in DOMAIN r /\ r[i - 1] = q[i]
      BY <2>4, <1>1
    <3>2. \A j \in DOMAIN r : j > i - 1 => ~Adds(r[j], p)
      BY <2>1, <2>2, <1>1
    <3> QED
      BY <2>1, <3>1, <3>2 DEF Settles, r
  <2> QED
    BY <2>3, <2>4
<1>3. CASE p \notin w /\ \A j \in DOMAIN q : ~Adds(q[j], p)
  <2>1. p \notin v
    BY <1>1, <1>3
  <2>2. \A j \in DOMAIN r : ~Adds(r[j], p)
    BY <1>1, <1>3
  <2> QED
    BY <2>1, <2>2 DEF Settles, r
<1> QED
  BY <1>2, <1>3 DEF Settles

\* A list of messages to some nodes.
LEMMA MsgsType ==
    ASSUME NEW type, NEW nodes \in SUBSET Peer
    PROVE  Msgs(type, nodes) \in Seq({Msg(type, p) : p \in nodes})
<1> DEFINE S == {Msg(type, p) : p \in nodes}
           f == [p \in nodes |-> Msg(type, p)]
<1>1. IsFiniteSet(nodes)
  BY FS_Subset, ConnectionsAssumption
<1>2. f \in Surjection(nodes, S)
  BY DEF Surjection
<1>3. IsFiniteSet(S)
  BY <1>1, <1>2, FS_Surjection
<1>4. /\ Cardinality(S) \in Nat
      /\ \E g \in [1..Cardinality(S) -> S] : IsInjective(g)
  BY <1>3, FS_CardinalityType DEF ExistsBijection, Bijection, Injection, IsInjective
<1>5. SetToSeq(S) \in [1..Cardinality(S) -> S]
  BY <1>4 DEF SetToSeq
<1>6. ASSUME NEW T, NEW n \in Nat, NEW s \in [1..n -> T] PROVE s \in Seq(T)
  OBVIOUS
<1> QED
  BY <1>4, <1>5, <1>6 DEF Msgs

----------------------------------------------------------------------------
(***************************************************************************)
(* Lemmas about the lists of nodes.                                        *)
(***************************************************************************)
Disjoint(s) ==
    /\ s.connected \cap Connecting(s) = {}
    /\ s.connected \cup Connecting(s) \subseteq s.known

\* A storage is typed when its parts are.
LEMMA StorageParts ==
    ASSUME NEW s \in Storage
    PROVE  /\ s.known \subseteq Peer /\ s.connected \subseteq Peer
           /\ Connecting(s) \subseteq Peer
           /\ s.connecting \in [Connecting(s) -> 0..(ConnectingTimeout + 1)]
           /\ s = [known |-> s.known, connected |-> s.connected, connecting |-> s.connecting]
BY DEF Storage, Connecting

LEMMA RestrictKeeps ==
    ASSUME NEW s \in Storage, NEW T \in SUBSET Connecting(s)
    PROVE  /\ Restrict(s.connecting, T) \in [T -> 0..(ConnectingTimeout + 1)]
           /\ DOMAIN Restrict(s.connecting, T) = T
           /\ T \in SUBSET Peer
BY StorageParts DEF Restrict

LEMMA ConnectKeeps ==
    ASSUME NEW s \in Storage, Disjoint(s), NEW p \in Peer
    PROVE  /\ Connect(s, p) \in Storage /\ Disjoint(Connect(s, p))
           /\ Connect(s, p).connected = s.connected \cup {p}
<1> DEFINE T == Connecting(s) \ {p}
           c == Restrict(s.connecting, T)
<1>1. Connect(s, p) =
        [known |-> s.known \cup {p}, connected |-> s.connected \cup {p}, connecting |-> c]
  BY DEF Connect
<1>2. c \in [T -> 0..(ConnectingTimeout + 1)] /\ DOMAIN c = T /\ T \in SUBSET Peer
  BY RestrictKeeps
<1> HIDE DEF c
<1>3. Connect(s, p) \in Storage
  BY <1>1, <1>2, StorageParts DEF Storage
<1>4. Disjoint(Connect(s, p))
  BY <1>1, <1>2 DEF Disjoint, Connecting
<1> QED
  BY <1>1, <1>3, <1>4

LEMMA DisconnectKeeps ==
    ASSUME NEW s \in Storage, Disjoint(s), NEW p \in Peer
    PROVE  /\ Disconnect(s, p) \in Storage /\ Disjoint(Disconnect(s, p))
<1> DEFINE T == Connecting(s) \ {p}
           c == Restrict(s.connecting, T)
<1>1. Disconnect(s, p) =
        [known |-> s.known \ {p}, connected |-> s.connected \ {p}, connecting |-> c]
  BY DEF Disconnect
<1>2. c \in [T -> 0..(ConnectingTimeout + 1)] /\ DOMAIN c = T /\ T \in SUBSET Peer
  BY RestrictKeeps
<1>3. s.known \ {p} \in SUBSET Peer /\ s.connected \ {p} \in SUBSET Peer
  BY StorageParts
<1> HIDE DEF c, T
<1>4. Disconnect(s, p) \in Storage
  BY <1>1, <1>2, <1>3 DEF Storage
<1> USE DEF T
<1>5. Disjoint(Disconnect(s, p))
  BY <1>1, <1>2 DEF Disjoint, Connecting
<1> QED
  BY <1>4, <1>5

LEMMA NewListKeeps ==
    ASSUME NEW s \in Storage, Disjoint(s), NEW nodes \in SUBSET Peer
    PROVE  /\ NewList(s, nodes) \in Storage /\ Disjoint(NewList(s, nodes))
           /\ NewList(s, nodes).connected = s.connected
BY StorageParts DEF Storage, Disjoint, Connecting, NewList

LEMMA StartConnectingKeeps ==
    ASSUME NEW s \in Storage, Disjoint(s), NEW nodes \in SUBSET Unused(s)
    PROVE  /\ StartConnecting(s, nodes) \in Storage /\ Disjoint(StartConnecting(s, nodes))
           /\ StartConnecting(s, nodes).connected = s.connected
           /\ nodes \subseteq Peer
<1> DEFINE c == [p \in DOMAIN s.connecting \cup nodes |->
                    IF p \in DOMAIN s.connecting THEN s.connecting[p] ELSE 0]
<1>1. StartConnecting(s, nodes) =
        [known |-> s.known, connected |-> s.connected, connecting |-> c]
  BY StorageParts DEF StartConnecting
<1>2. nodes \subseteq s.known /\ nodes \cap s.connected = {} /\ nodes \subseteq Peer
  BY StorageParts DEF Unused
<1>3. 0 \in 0..(ConnectingTimeout + 1)
  BY ConnectionsAssumption
<1>4. /\ c \in [DOMAIN s.connecting \cup nodes -> 0..(ConnectingTimeout + 1)]
      /\ DOMAIN s.connecting \cup nodes \in SUBSET Peer
  BY <1>2, <1>3, StorageParts DEF Connecting
<1> HIDE DEF c
<1>5. StartConnecting(s, nodes) \in Storage
  BY <1>1, <1>4, StorageParts DEF Storage
<1>6. DOMAIN c = DOMAIN s.connecting \cup nodes
  BY <1>4
<1>7. Disjoint(StartConnecting(s, nodes))
  BY <1>1, <1>2, <1>6 DEF Disjoint, Connecting
<1> QED
  BY <1>1, <1>2, <1>5, <1>7

LEMMA TickStorageKeeps ==
    ASSUME NEW s \in Storage, Disjoint(s)
    PROVE  /\ TickStorage(s) \in Storage /\ Disjoint(TickStorage(s))
           /\ TickStorage(s).connected = s.connected
<1> DEFINE c == [p \in DOMAIN s.connecting |->
                    IF s.connecting[p] > ConnectingTimeout THEN s.connecting[p]
                    ELSE s.connecting[p] + 1]
<1>1. TickStorage(s) = [known |-> s.known, connected |-> s.connected, connecting |-> c]
  BY StorageParts DEF TickStorage
<1>2. \A p \in DOMAIN s.connecting : s.connecting[p] \in 0..(ConnectingTimeout + 1)
  BY StorageParts DEF Connecting
<1>3. c \in [DOMAIN s.connecting -> 0..(ConnectingTimeout + 1)]
  BY <1>2, ConnectionsAssumption
<1> HIDE DEF c
<1>4. TickStorage(s) \in Storage
  BY <1>1, <1>3, StorageParts DEF Storage, Connecting
<1>5. DOMAIN c = DOMAIN s.connecting
  BY <1>3
<1>6. Disjoint(TickStorage(s))
  BY <1>1, <1>5 DEF Disjoint, Connecting
<1> QED
  BY <1>1, <1>4, <1>6

LEMMA ChooseNewUnused ==
    ASSUME NEW s, NEW n, NEW S \in ChooseNew(s, n)
    PROVE  S \in SUBSET Unused(s)
BY DEF ChooseNew

LEMMA FillUpUnused ==
    ASSUME NEW s, NEW S \in FillUp(s)
    PROVE  S \in SUBSET Unused(s)
BY ChooseNewUnused DEF FillUp

LEMMA SeqSubset ==
    ASSUME NEW S, NEW T, S \subseteq T, NEW q \in Seq(S)
    PROVE  q \in Seq(T)
OBVIOUS

\* Messages of one kind to some peers.
LEMMA NetworkMsgs ==
    ASSUME NEW type \in {"Connect", "Disconnect", "MessageToNode"}, NEW nodes \in SUBSET Peer
    PROVE  Msgs(type, nodes) \in Seq(NetworkIn)
<1>1. {Msg(type, p) : p \in nodes} \subseteq NetworkIn
  BY DEF Msg, NetworkIn
<1>2. Msgs(type, nodes) \in Seq({Msg(type, p) : p \in nodes})
  BY MsgsType
<1> QED
  BY <1>1, <1>2, SeqSubset

LEMMA RandomMsgs ==
    ASSUME NEW type \in {"ToNetwork", "NodeFailure"}, NEW nodes \in SUBSET Peer
    PROVE  Msgs(type, nodes) \in Seq(RandomIn)
<1>1. {Msg(type, p) : p \in nodes} \subseteq RandomIn
  BY DEF Msg, RandomIn
<1>2. Msgs(type, nodes) \in Seq({Msg(type, p) : p \in nodes})
  BY MsgsType
<1> QED
  BY <1>1, <1>2, SeqSubset

----------------------------------------------------------------------------
(***************************************************************************)
(* The steps of RandomConnections.                                         *)
(***************************************************************************)
\* What every message to RandomConnections leaves alone.
LEMMA RandomHandlesFacts ==
    ASSUME IInv, NEW type, RandomHandles(type)
    PROVE  /\ toRandom \in Seq(RandomIn) /\ toRandom # <<>> /\ toRandom' \in Seq(RandomIn)
           /\ Head(toRandom) \in RandomIn /\ Head(toRandom).type = type
           /\ UNCHANGED <<lastping, connections, nodeConns, channel, alive, faults>>
BY DEF IInv, TypeOK, RandomHandles

\* A message for Ping that removes a node, or leaves one alone that was not connected before.
LEMMA PingToldForgets ==
    ASSUME IInv, NEW m \in PingIn, UNCHANGED lastping, toPing' = Append(toPing, m),
           \A p \in Peer \ storage'.connected :
               Removes(m, p) \/ (p \notin storage.connected /\ ~Adds(m, p))
    PROVE  toPing' \in Seq(PingIn) /\ Forgets'
<1>1. toPing \in Seq(PingIn) /\ Forgets
  BY DEF IInv, TypeOK
<1>2. ASSUME NEW p \in Peer \ storage'.connected PROVE Settles(toPing', Watched', p)
  <2>1. Removes(m, p) \/ (Settles(toPing, Watched, p) /\ ~Adds(m, p))
    BY <1>1 DEF Forgets
  <2>2. Settles(Append(toPing, m), Watched, p)
    BY <1>1, <2>1, AppendSettles
  <2> QED
    BY <2>2 DEF Watched
<1> QED
  BY <1>1, <1>2 DEF Forgets

\* A new list for Ping settles the nodes that are not connected.
LEMMA ToldOfConnected ==
    ASSUME IInv, NEW list \in PingIn, list = ConnectedMsg, UNCHANGED lastping,
           toPing' = Append(toPing, list)
    PROVE  toPing' \in Seq(PingIn) /\ Forgets'
<1>1. \A p \in Peer \ storage'.connected : Removes(list, p)
  BY DEF ConnectedMsg, Removes
<1> QED
  BY <1>1, PingToldForgets

LEMMA ConnectedMsgType ==
    ASSUME storage' \in Storage
    PROVE  ConnectedMsg \in PingIn
BY DEF ConnectedMsg, PingIn, Storage

\* The connected nodes and the queue of Ping stay as they are.
LEMMA ForgetsSame ==
    ASSUME IInv, UNCHANGED <<toPing, lastping>>, storage'.connected = storage.connected
    PROVE  Forgets'
BY DEF IInv, Forgets, Watched

LEMMA NewConnectionKeeps ==
    ASSUME IInv, NEW s \in Storage, Disjoint(s), NEW more \in Seq(NetworkIn),
           NewConnection(s, more)
    PROVE  /\ storage' \in Storage /\ Disjoint(storage')
           /\ storage'.connected = s.connected
           /\ toNet' \in Seq(NetworkIn)
<1>1. PICK S \in FillUp(s) :
        /\ storage' = StartConnecting(s, S)
        /\ toNet' = toNet \o Msgs("Connect", S) \o more
  BY DEF NewConnection
<1>2. S \in SUBSET Unused(s) /\ S \in SUBSET Peer
  BY FillUpUnused, StartConnectingKeeps
<1>3. Msgs("Connect", S) \in Seq(NetworkIn)
  BY <1>2, NetworkMsgs
<1>4. toNet \in Seq(NetworkIn)
  BY DEF IInv, TypeOK
<1> QED
  BY <1>1, <1>2, <1>3, <1>4, StartConnectingKeeps

\* The lists after a step, from those of the storage.
LEMMA ListsAfter ==
    ASSUME Disjoint(storage')
    PROVE  ListsDisjoint'
BY DEF Disjoint, ListsDisjoint

LEMMA ListsBefore ==
    ASSUME IInv
    PROVE  storage \in Storage /\ Disjoint(storage) /\ toPing \in Seq(PingIn)
BY DEF IInv, TypeOK, Disjoint, ListsDisjoint

LEMMA NodeListIInv ==
    ASSUME IInv, NodeList
    PROVE  IInv'
<1> DEFINE s == NewList(storage, Head(toRandom).nodes)
<1>1. /\ toRandom' \in Seq(RandomIn)
      /\ Head(toRandom) \in RandomIn /\ Head(toRandom).type = "NodeList"
      /\ UNCHANGED <<lastping, connections, nodeConns, channel, alive, faults, fill, toPing>>
      /\ NewConnection(s, <<>>)
  BY RandomHandlesFacts DEF NodeList
<1>2. Head(toRandom).nodes \in SUBSET Peer
  BY <1>1 DEF RandomIn
<1>3. s \in Storage /\ Disjoint(s) /\ s.connected = storage.connected
  BY <1>2, ListsBefore, NewListKeeps
<1> HIDE DEF s
<1>4. /\ storage' \in Storage /\ Disjoint(storage')
      /\ storage'.connected = storage.connected
      /\ toNet' \in Seq(NetworkIn)
  BY <1>1, <1>3, NewConnectionKeeps, <<>> \in Seq(NetworkIn)
<1>5. Forgets'
  BY <1>1, <1>4, ForgetsSame
<1>6. TypeOK'
  BY <1>1, <1>4 DEF IInv, TypeOK, Watched
<1> QED
  BY <1>4, <1>5, <1>6, ListsAfter DEF IInv

LEMMA NodeConnectedIInv ==
    ASSUME IInv, NodeConnected
    PROVE  IInv'
<1>1. /\ toRandom' \in Seq(RandomIn)
      /\ Head(toRandom) \in RandomIn /\ Head(toRandom).type = "NodeConnected"
      /\ UNCHANGED <<lastping, connections, nodeConns, channel, alive, faults, fill, toNet>>
      /\ storage' = Connect(storage, Head(toRandom).node)
      /\ toPing' = Append(toPing, ConnectedMsg)
  BY RandomHandlesFacts DEF NodeConnected
<1>2. Head(toRandom).node \in Peer
  BY <1>1 DEF RandomIn
<1>3. storage' \in Storage /\ Disjoint(storage')
  BY <1>1, <1>2, ListsBefore, ConnectKeeps
<1>4. toPing' \in Seq(PingIn) /\ Forgets'
  BY <1>1, <1>3, ConnectedMsgType, ToldOfConnected
<1>5. TypeOK'
  BY <1>1, <1>3, <1>4 DEF IInv, TypeOK, Watched
<1> QED
  BY <1>3, <1>4, <1>5, ListsAfter DEF IInv

LEMMA NodeDisconnectedIInv ==
    ASSUME IInv, NodeDisconnected
    PROVE  IInv'
<1> DEFINE s == Disconnect(storage, Head(toRandom).node)
<1>1. /\ toRandom' \in Seq(RandomIn)
      /\ Head(toRandom) \in RandomIn /\ Head(toRandom).type = "NodeDisconnected"
      /\ UNCHANGED <<lastping, connections, nodeConns, channel, alive, faults, fill>>
      /\ NewConnection(s, <<>>)
      /\ toPing' = Append(toPing, ConnectedMsg)
  BY RandomHandlesFacts DEF NodeDisconnected
<1>2. Head(toRandom).node \in Peer
  BY <1>1 DEF RandomIn
<1>3. s \in Storage /\ Disjoint(s)
  BY <1>2, ListsBefore, DisconnectKeeps
<1> HIDE DEF s
<1>4. storage' \in Storage /\ Disjoint(storage') /\ toNet' \in Seq(NetworkIn)
  BY <1>1, <1>3, NewConnectionKeeps, <<>> \in Seq(NetworkIn)
<1>5. toPing' \in Seq(PingIn) /\ Forgets'
  BY <1>1, <1>4, ConnectedMsgType, ToldOfConnected
<1>6. TypeOK'
  BY <1>1, <1>4, <1>5 DEF IInv, TypeOK, Watched
<1> QED
  BY <1>4, <1>5, <1>6, ListsAfter DEF IInv

LEMMA NodeFailureIInv ==
    ASSUME IInv, NodeFailure
    PROVE  IInv'
<1> DEFINE p == Head(toRandom).node
           s == Disconnect(storage, p)
           list == ConnectedMsg
           m == Msg("DisconnectNode", p)
<1>1. /\ toRandom' \in Seq(RandomIn)
      /\ Head(toRandom) \in RandomIn /\ Head(toRandom).type = "NodeFailure"
      /\ UNCHANGED <<lastping, connections, nodeConns, channel, alive, faults, fill>>
      /\ NewConnection(s, <<Msg("Disconnect", p)>>)
      /\ toPing' = toPing \o <<list, m>>
  BY RandomHandlesFacts DEF NodeFailure
<1>2. p \in Peer
  BY <1>1 DEF RandomIn
<1>3. /\ s \in Storage /\ Disjoint(s)
      /\ <<Msg("Disconnect", p)>> \in Seq(NetworkIn)
      /\ m \in PingIn /\ \A n : ~Adds(m, n)
  BY <1>2, ListsBefore, DisconnectKeeps DEF Msg, NetworkIn, PingIn, Adds
<1> HIDE DEF s, m, p
<1>4. storage' \in Storage /\ Disjoint(storage') /\ toNet' \in Seq(NetworkIn)
  BY <1>1, <1>3, NewConnectionKeeps
<1>5. list \in PingIn
  BY <1>4, ConnectedMsgType
<1>6. \A n \in Peer \ storage'.connected : Removes(list, n)
  BY DEF ConnectedMsg, Removes
<1> HIDE DEF list
<1>7. /\ toPing \in Seq(PingIn)
      /\ Append(toPing, list) \in Seq(PingIn)
      /\ toPing' = Append(Append(toPing, list), m)
      /\ toPing' \in Seq(PingIn)
  BY <1>1, <1>3, <1>5, ListsBefore
<1>8. ASSUME NEW n \in Peer \ storage'.connected PROVE Settles(toPing', Watched', n)
  <2>1. Settles(Append(toPing, list), Watched, n)
    BY <1>5, <1>6, <1>7, AppendSettles
  <2>2. Settles(Append(Append(toPing, list), m), Watched, n)
    BY <1>3, <1>7, <2>1, AppendSettles
  <2> QED
    BY <1>1, <1>7, <2>2 DEF Watched
<1>9. Forgets'
  BY <1>8 DEF Forgets
<1>10. TypeOK'
  BY <1>1, <1>4, <1>7 DEF IInv, TypeOK, Watched
<1> QED
  BY <1>4, <1>9, <1>10, ListsAfter DEF IInv

LEMMA FromNetworkIInv ==
    ASSUME IInv, FromNetwork
    PROVE  IInv'
<1> DEFINE p == Head(toRandom).node
           m == Msg("Pong", p)
<1>1. /\ toRandom' \in Seq(RandomIn)
      /\ Head(toRandom) \in RandomIn /\ Head(toRandom).type = "FromNetwork"
      /\ UNCHANGED <<lastping, connections, nodeConns, channel, alive, faults, fill, toNet>>
      /\ storage' = Connect(storage, p)
      /\ toPing' = Append(toPing, m)
  BY RandomHandlesFacts DEF FromNetwork
<1>2. p \in Peer
  BY <1>1 DEF RandomIn
<1> HIDE DEF p
<1>3. /\ storage' \in Storage /\ Disjoint(storage')
      /\ storage'.connected = storage.connected \cup {p}
  BY <1>1, <1>2, ListsBefore, ConnectKeeps
<1>4. m \in PingIn /\ \A n : n # p => ~Adds(m, n)
  BY <1>2 DEF Msg, PingIn, Adds
<1> HIDE DEF m
<1>5. toPing' \in Seq(PingIn) /\ Forgets'
  <2>1. \A n \in Peer \ storage'.connected : n \notin storage.connected /\ ~Adds(m, n)
    BY <1>3, <1>4
  <2> QED
    BY <1>1, <1>4, <2>1, PingToldForgets
<1>6. TypeOK'
  BY <1>1, <1>3, <1>5 DEF IInv, TypeOK, Watched
<1> QED
  BY <1>3, <1>5, <1>6, ListsAfter DEF IInv

LEMMA ToNetworkIInv ==
    ASSUME IInv, ToNetwork
    PROVE  IInv'
<1> DEFINE p == Head(toRandom).node
<1>1. /\ toRandom' \in Seq(RandomIn)
      /\ Head(toRandom) \in RandomIn /\ Head(toRandom).type = "ToNetwork"
      /\ UNCHANGED <<lastping, connections, nodeConns, channel, alive, faults, fill>>
  BY RandomHandlesFacts DEF ToNetwork
<1>2. p \in Peer
  BY <1>1 DEF RandomIn
<1>3. CASE p \in storage.connected
  <2>1. UNCHANGED <<storage, toPing>> /\ toNet' = Append(toNet, Msg("MessageToNode", p))
    BY <1>3 DEF ToNetwork
  <2>2. toNet' \in Seq(NetworkIn)
    BY <1>2, <2>1 DEF IInv, TypeOK, Msg, NetworkIn
  <2>3. Forgets'
    BY <1>1, <2>1, ForgetsSame
  <2>4. TypeOK' /\ Disjoint(storage')
    BY <1>1, <2>1, <2>2, ListsBefore DEF IInv, TypeOK, Watched
  <2> QED
    BY <2>3, <2>4, ListsAfter DEF IInv
<1>4. CASE p \notin storage.connected
  <2>1. /\ storage' = Disconnect(storage, p)
        /\ toPing' = Append(toPing, ConnectedMsg)
        /\ UNCHANGED toNet
    BY <1>4 DEF ToNetwork
  <2>2. storage' \in Storage /\ Disjoint(storage')
    BY <1>2, <2>1, ListsBefore, DisconnectKeeps
  <2>3. toPing' \in Seq(PingIn) /\ Forgets'
    BY <1>1, <2>1, <2>2, ConnectedMsgType, ToldOfConnected
  <2>4. TypeOK'
    BY <1>1, <2>1, <2>2, <2>3 DEF IInv, TypeOK, Watched
  <2> QED
    BY <2>2, <2>3, <2>4, ListsAfter DEF IInv
<1> QED
  BY <1>3, <1>4

LEMMA RandomTickIInv ==
    ASSUME IInv, RandomTick
    PROVE  IInv'
<1> DEFINE s0 == TickStorage(storage)
<1>1. /\ toRandom' \in Seq(RandomIn)
      /\ UNCHANGED <<lastping, connections, nodeConns, channel, alive, faults>>
      /\ fill' = (fill + 1) % FillConnected
      /\ toPing' = Append(toPing, ConnectedMsg)
  BY RandomHandlesFacts DEF RandomTick
<1>2. PICK S \in FillUp(s0) :
        \E T \in ChooseNew(StartConnecting(s0, S),
                    IF fill' = 0 /\ TotalLen(StartConnecting(s0, S))
                                       < NodesNeeded(StartConnecting(s0, S)) THEN 1 ELSE 0) :
            /\ storage' = StartConnecting(StartConnecting(s0, S), T)
            /\ toNet' = toNet \o Msgs("Connect", S) \o Msgs("Connect", T)
  BY DEF RandomTick
<1> DEFINE s1 == StartConnecting(s0, S)
<1>3. PICK T \in SUBSET Unused(s1) :
        /\ storage' = StartConnecting(s1, T)
        /\ toNet' = toNet \o Msgs("Connect", S) \o Msgs("Connect", T)
  BY <1>2, ChooseNewUnused
<1>4. s0 \in Storage /\ Disjoint(s0)
  BY ListsBefore, TickStorageKeeps
<1>5. S \in SUBSET Unused(s0)
  BY FillUpUnused
<1> HIDE DEF s0
<1>6. s1 \in Storage /\ Disjoint(s1) /\ S \in SUBSET Peer
  BY <1>4, <1>5, StartConnectingKeeps
<1> HIDE DEF s1
<1>7. storage' \in Storage /\ Disjoint(storage') /\ T \in SUBSET Peer
  BY <1>3, <1>6, StartConnectingKeeps
<1>8. toNet' \in Seq(NetworkIn)
  <2>1. Msgs("Connect", S) \in Seq(NetworkIn) /\ Msgs("Connect", T) \in Seq(NetworkIn)
    BY <1>6, <1>7, NetworkMsgs
  <2>2. toNet \in Seq(NetworkIn)
    BY DEF IInv, TypeOK
  <2> QED
    BY <1>3, <2>1, <2>2
<1>9. toPing' \in Seq(PingIn) /\ Forgets'
  BY <1>1, <1>7, ConnectedMsgType, ToldOfConnected
<1>10. fill' \in 0..(FillConnected - 1)
  BY <1>1, ConnectionsAssumption DEF IInv, TypeOK
<1>11. TypeOK'
  BY <1>1, <1>7, <1>8, <1>9, <1>10 DEF IInv, TypeOK, Watched
<1> QED
  BY <1>7, <1>9, <1>11, ListsAfter DEF IInv

----------------------------------------------------------------------------
(***************************************************************************)
(* The steps of Ping.                                                      *)
(***************************************************************************)
LEMMA PingHandlesFacts ==
    ASSUME IInv, NEW type, PingHandles(type)
    PROVE  /\ toPing \in Seq(PingIn) /\ toPing # <<>>
           /\ toPing' = Tail(toPing) /\ toPing' \in Seq(PingIn)
           /\ Head(toPing) \in PingIn /\ Head(toPing).type = type
           /\ UNCHANGED <<storage, fill, connections, nodeConns, channel, alive, toNet, faults>>
BY DEF IInv, TypeOK, PingHandles

\* What a message must do to keep the promise of the queue.
LEMMA PingKeeps ==
    ASSUME IInv, NEW type, PingHandles(type),
           \A p \in Peer : Removes(Head(toPing), p) => p \notin Watched',
           \A p \in Peer : p \notin Watched /\ ~Adds(Head(toPing), p) => p \notin Watched'
    PROVE  ListsDisjoint' /\ Forgets'
<1>1. /\ toPing \in Seq(PingIn) /\ toPing # <<>> /\ toPing' = Tail(toPing)
      /\ UNCHANGED storage
  BY PingHandlesFacts
<1>2. ASSUME NEW p \in Peer \ storage'.connected PROVE Settles(toPing', Watched', p)
  <2>1. Settles(toPing, Watched, p)
    BY <1>1 DEF IInv, Forgets
  <2>2. Settles(Tail(toPing), Watched', p)
    BY <1>1, <2>1, HeadSettles
  <2> QED
    BY <1>1, <2>2
<1> QED
  BY <1>1, <1>2, ListsBefore, ListsAfter DEF Forgets

\* The type of what Ping watches.
LEMMA LastPingType ==
    ASSUME IInv
    PROVE  /\ Watched \subseteq Peer
           /\ \A p \in Watched : lastping[p] \in 0..(Timeout + Interval - 1)
           /\ 0 \in 0..(Timeout + Interval - 1)
BY ConnectionsAssumption DEF IInv, TypeOK, Range, Watched

LEMMA UpdateNodeListIInv ==
    ASSUME IInv, UpdateNodeList
    PROVE  IInv'
<1> DEFINE m == Head(toPing)
<1>1. /\ toPing' \in Seq(PingIn) /\ m \in PingIn /\ m.type = "UpdateNodeList"
      /\ UNCHANGED <<storage, fill, connections, nodeConns, channel, alive, toNet, faults>>
  BY PingHandlesFacts DEF UpdateNodeList
<1>2. /\ lastping' = [p \in m.nodes |-> IF p \in Watched THEN lastping[p] ELSE 0]
      /\ UNCHANGED toRandom
      /\ PingHandles("UpdateNodeList")
  BY DEF UpdateNodeList
<1>3. m.nodes \subseteq Peer
  BY <1>1 DEF PingIn
<1> HIDE DEF m
<1>4. Watched' = m.nodes
  BY <1>2 DEF Watched
<1>5. /\ \A p \in Peer : Removes(m, p) => p \notin Watched'
      /\ \A p \in Peer : p \notin Watched /\ ~Adds(m, p) => p \notin Watched'
  BY <1>1, <1>4 DEF Adds, Removes
<1>6. ListsDisjoint' /\ Forgets'
  BY <1>2, <1>5, PingKeeps DEF m
<1>7. Range(lastping') \subseteq 0..(Timeout + Interval - 1)
  BY <1>2, LastPingType DEF Range
<1>8. TypeOK'
  BY <1>1, <1>2, <1>3, <1>4, <1>7 DEF IInv, TypeOK
<1> QED
  BY <1>6, <1>8 DEF IInv

LEMMA DisconnectNodeIInv ==
    ASSUME IInv, DisconnectNode
    PROVE  IInv'
<1> DEFINE m == Head(toPing)
<1>1. /\ toPing' \in Seq(PingIn) /\ m \in PingIn /\ m.type = "DisconnectNode"
      /\ UNCHANGED <<storage, fill, connections, nodeConns, channel, alive, toNet, faults>>
  BY PingHandlesFacts DEF DisconnectNode
<1>2. /\ lastping' = [p \in Watched \ {m.node} |-> lastping[p]]
      /\ UNCHANGED toRandom
      /\ PingHandles("DisconnectNode")
  BY DEF DisconnectNode, Restrict
<1> HIDE DEF m
<1>3. Watched' = Watched \ {m.node}
  BY <1>2 DEF Watched
<1>4. /\ \A p \in Peer : Removes(m, p) => p \notin Watched'
      /\ \A p \in Peer : p \notin Watched /\ ~Adds(m, p) => p \notin Watched'
  BY <1>1, <1>3 DEF Adds, Removes
<1>5. ListsDisjoint' /\ Forgets'
  BY <1>2, <1>4, PingKeeps DEF m
<1>6. Watched' \subseteq Peer /\ Range(lastping') \subseteq 0..(Timeout + Interval - 1)
  BY <1>2, <1>3, LastPingType DEF Range
<1>7. TypeOK'
  BY <1>1, <1>2, <1>6 DEF IInv, TypeOK
<1> QED
  BY <1>5, <1>7 DEF IInv

LEMMA PongIInv ==
    ASSUME IInv, Pong
    PROVE  IInv'
<1> DEFINE m == Head(toPing)
<1>1. /\ toPing' \in Seq(PingIn) /\ m \in PingIn /\ m.type = "Pong"
      /\ UNCHANGED <<storage, fill, connections, nodeConns, channel, alive, toNet, faults>>
  BY PingHandlesFacts DEF Pong
<1>2. /\ lastping' = [p \in Watched \cup {m.node} |-> IF p = m.node THEN 0 ELSE lastping[p]]
      /\ UNCHANGED toRandom
      /\ PingHandles("Pong")
  BY DEF Pong
<1>3. m.node \in Peer
  BY <1>1 DEF PingIn
<1> HIDE DEF m
<1>4. Watched' = Watched \cup {m.node}
  BY <1>2 DEF Watched
<1>5. /\ \A p \in Peer : Removes(m, p) => p \notin Watched'
      /\ \A p \in Peer : p \notin Watched /\ ~Adds(m, p) => p \notin Watched'
  BY <1>1, <1>4 DEF Adds, Removes
<1>6. ListsDisjoint' /\ Forgets'
  BY <1>2, <1>5, PingKeeps DEF m
<1>7. Watched' \subseteq Peer /\ Range(lastping') \subseteq 0..(Timeout + Interval - 1)
  BY <1>2, <1>3, <1>4, LastPingType DEF Range
<1>8. TypeOK'
  BY <1>1, <1>2, <1>7 DEF IInv, TypeOK
<1> QED
  BY <1>6, <1>8 DEF IInv

LEMMA PingTickIInv ==
    ASSUME IInv, PingTick
    PROVE  IInv'
<1> DEFINE m == Head(toPing)
           next == [p \in Watched |-> lastping[p] + 1]
           failed == {p \in Watched : next[p] >= Timeout + Interval}
           pinged == {p \in Watched \ failed : next[p] >= Interval}
<1>1. /\ toPing' \in Seq(PingIn) /\ m \in PingIn /\ m.type = "Tick"
      /\ UNCHANGED <<storage, fill, connections, nodeConns, channel, alive, toNet, faults>>
  BY PingHandlesFacts DEF PingTick
<1>2. /\ lastping' = [p \in Watched \ failed |-> next[p]]
      /\ toRandom' = toRandom \o Msgs("ToNetwork", pinged) \o Msgs("NodeFailure", failed)
      /\ PingHandles("Tick")
  BY DEF PingTick, Restrict
<1> HIDE DEF m
<1>3. \A p \in Watched : next[p] \in 1..(Timeout + Interval)
  BY LastPingType, ConnectionsAssumption
<1>4. \A p \in Watched \ failed : next[p] \in 0..(Timeout + Interval - 1)
  BY <1>3, ConnectionsAssumption
<1>5. failed \subseteq Peer /\ pinged \subseteq Peer
  BY LastPingType
<1> HIDE DEF next, failed, pinged
<1>6. Watched' = Watched \ failed
  BY <1>2 DEF Watched
<1>7. /\ \A p \in Peer : Removes(m, p) => p \notin Watched'
      /\ \A p \in Peer : p \notin Watched /\ ~Adds(m, p) => p \notin Watched'
  BY <1>1, <1>6 DEF Adds, Removes
<1>8. ListsDisjoint' /\ Forgets'
  BY <1>2, <1>7, PingKeeps DEF m
<1>9. Watched' \subseteq Peer /\ Range(lastping') \subseteq 0..(Timeout + Interval - 1)
  BY <1>2, <1>4, <1>6, LastPingType DEF Range
<1>10. toRandom' \in Seq(RandomIn)
  <2>1. /\ Msgs("ToNetwork", pinged) \in Seq(RandomIn)
        /\ Msgs("NodeFailure", failed) \in Seq(RandomIn)
    BY <1>5, RandomMsgs
  <2> QED
    BY <1>2, <2>1 DEF IInv, TypeOK
<1>11. TypeOK'
  BY <1>1, <1>9, <1>10 DEF IInv, TypeOK
<1> QED
  BY <1>8, <1>11 DEF IInv

----------------------------------------------------------------------------
(***************************************************************************)
(* The steps of Network, and of the world.                                 *)
(***************************************************************************)
\* What is neither of RandomConnections nor of Ping.
LEMMA OthersKeep ==
    ASSUME IInv, UNCHANGED <<storage, lastping, toPing>>
    PROVE  ListsDisjoint' /\ Forgets'
BY ForgetsSame DEF IInv, ListsDisjoint, Connecting

LEMMA NetworkHandlesFacts ==
    ASSUME IInv, NEW type, NetworkHandles(type)
    PROVE  /\ toNet' \in Seq(NetworkIn) /\ Head(toNet).node \in Peer
           /\ UNCHANGED <<storage, fill, lastping, alive, toPing, faults>>
<1>1. toNet \in Seq(NetworkIn) /\ toNet # <<>>
  BY DEF IInv, TypeOK, NetworkHandles
<1>2. Head(toNet) \in NetworkIn
  BY <1>1
<1> QED
  BY <1>1, <1>2 DEF NetworkHandles, NetworkIn

LEMMA NetworkIInv ==
    ASSUME IInv, NetworkNext
    PROVE  IInv'
<1> DEFINE p == Head(toNet).node
<1>1. /\ toNet' \in Seq(NetworkIn) /\ p \in Peer
      /\ UNCHANGED <<storage, fill, lastping, alive, toPing, faults>>
  BY NetworkHandlesFacts DEF NetworkNext, ConnectOrMessage, NetworkDisconnect
<1>2. ListsDisjoint' /\ Forgets'
  BY <1>1, OthersKeep
<1>3. CASE ConnectOrMessage
  <2>1. Assure(p) /\ UNCHANGED toRandom
    BY <1>3 DEF ConnectOrMessage
  <2> HIDE DEF p
  <2>2. channel' \in [Peer -> {"none", "setup", "open"}]
    BY <1>1, <2>1 DEF IInv, TypeOK, Assure
  <2>3. TypeOK'
    BY <1>1, <2>1, <2>2 DEF IInv, TypeOK, Assure, Watched
  <2> QED
    BY <1>2, <2>3 DEF IInv
<1>4. CASE NetworkDisconnect
  <2> DEFINE gone == <<Msg("NodeDisconnected", p)>>
  <2>1. /\ connections' = connections \ {p}
        /\ channel' = IF p \in connections THEN [channel EXCEPT ![p] = "none"] ELSE channel
        /\ toRandom' = toRandom \o gone \/ toRandom' = toRandom \o gone \o gone
        /\ UNCHANGED nodeConns
    BY <1>4 DEF NetworkDisconnect
  <2> HIDE DEF p
  <2>2. channel' \in [Peer -> {"none", "setup", "open"}]
    BY <1>1, <2>1 DEF IInv, TypeOK
  <2>3. toRandom' \in Seq(RandomIn)
    <3>1. gone \in Seq(RandomIn) /\ toRandom \in Seq(RandomIn)
      BY <1>1 DEF Msg, RandomIn, IInv, TypeOK
    <3> HIDE DEF gone
    <3>2. toRandom \o gone \in Seq(RandomIn)
      BY <3>1
    <3>3. (toRandom \o gone) \o gone \in Seq(RandomIn)
      BY <3>1, <3>2
    <3> QED
      BY <2>1, <3>2, <3>3
  <2>4. TypeOK'
    BY <1>1, <2>1, <2>2, <2>3 DEF IInv, TypeOK, Watched
  <2> QED
    BY <1>2, <2>4 DEF IInv
<1> QED
  BY <1>3, <1>4 DEF NetworkNext

LEMMA TickIInv ==
    ASSUME IInv, Tick
    PROVE  IInv'
<1> DEFINE m == [type |-> "Tick"]
<1>1. /\ toPing' = Append(toPing, m) /\ toRandom' = Append(toRandom, m)
      /\ UNCHANGED <<storage, fill, lastping, connections, nodeConns, channel, alive, toNet,
                     faults>>
  BY DEF Tick
<1>2. m \in PingIn /\ m \in RandomIn /\ \A p : ~Adds(m, p)
  BY DEF PingIn, RandomIn, Adds
<1> HIDE DEF m
<1>3. toPing' \in Seq(PingIn) /\ Forgets'
  BY <1>1, <1>2, PingToldForgets
<1>4. toRandom' \in Seq(RandomIn)
  BY <1>1, <1>2 DEF IInv, TypeOK
<1>5. TypeOK' /\ ListsDisjoint'
  BY <1>1, <1>3, <1>4 DEF IInv, TypeOK, Watched, ListsDisjoint, Connecting
<1> QED
  BY <1>3, <1>5 DEF IInv

\* A message of the world to RandomConnections.
LEMMA ToRandomKeeps ==
    ASSUME IInv, NEW m \in RandomIn, ToRandom(m)
    PROVE  /\ toRandom' \in Seq(RandomIn)
           /\ UNCHANGED <<storage, fill, lastping, toPing, toNet>>
           /\ ListsDisjoint' /\ Forgets'
BY OthersKeep DEF IInv, TypeOK, ToRandom

LEMMA ChannelsAndPeersIInv ==
    ASSUME IInv, NEW p \in Peer,
           ChannelOpens(p) \/ PeerSetup(p) \/ PeerSends(p) \/ ChannelCloses(p)
             \/ PeerDies(p) \/ PeerReturns(p)
    PROVE  IInv'
<1>1. \A type \in {"NodeConnected", "NodeDisconnected", "FromNetwork"} :
        Msg(type, p) \in RandomIn
  BY DEF Msg, RandomIn
<1>2. CASE ChannelOpens(p)
  <2>1. TypeOK'
    BY <1>1, <1>2, ToRandomKeeps DEF ChannelOpens, IInv, TypeOK, Watched
  <2> QED
    BY <1>1, <1>2, <2>1, ToRandomKeeps DEF ChannelOpens, IInv
<1>3. CASE PeerSetup(p)
  <2>1. TypeOK'
    BY <1>3 DEF PeerSetup, IInv, TypeOK, Watched
  <2> QED
    BY <1>3, <2>1, OthersKeep DEF PeerSetup, IInv
<1>4. CASE PeerSends(p)
  <2>1. TypeOK'
    BY <1>1, <1>4, ToRandomKeeps DEF PeerSends, IInv, TypeOK, Watched
  <2> QED
    BY <1>1, <1>4, <2>1, ToRandomKeeps DEF PeerSends, IInv
<1>5. CASE ChannelCloses(p)
  <2>1. faults' \in 0..MaxFaults
    BY <1>5, ConnectionsAssumption DEF ChannelCloses, IInv, TypeOK
  <2>2. TypeOK'
    BY <1>1, <1>5, <2>1, ToRandomKeeps DEF ChannelCloses, IInv, TypeOK, Watched
  <2> QED
    BY <1>1, <1>5, <2>2, ToRandomKeeps DEF ChannelCloses, IInv
<1>6. CASE PeerDies(p)
  <2>1. faults' \in 0..MaxFaults
    BY <1>6, ConnectionsAssumption DEF PeerDies, IInv, TypeOK
  <2>2. TypeOK'
    BY <1>6, <2>1 DEF PeerDies, IInv, TypeOK, Watched
  <2> QED
    BY <1>6, <2>2, OthersKeep DEF PeerDies, IInv
<1>7. CASE PeerReturns(p)
  <2>1. TypeOK'
    BY <1>7 DEF PeerReturns, IInv, TypeOK, Watched
  <2> QED
    BY <1>7, <2>1, OthersKeep DEF PeerReturns, IInv
<1> QED
  BY <1>2, <1>3, <1>4, <1>5, <1>6, <1>7

LEMMA NodeListFromWSIInv ==
    ASSUME IInv, NEW nodes \in SUBSET Peer, NodeListFromWS(nodes)
    PROVE  IInv'
<1>1. [type |-> "NodeList", nodes |-> nodes] \in RandomIn
  BY DEF RandomIn
<1>2. TypeOK'
  BY <1>1, ToRandomKeeps DEF NodeListFromWS, IInv, TypeOK, Watched
<1> QED
  BY <1>1, <1>2, ToRandomKeeps DEF NodeListFromWS, IInv

----------------------------------------------------------------------------
LEMMA InitIInv == Init => IInv
<1> SUFFICES ASSUME Init PROVE IInv
  OBVIOUS
<1>1. storage \in Storage /\ ListsDisjoint
  BY DEF Init, NoStorage, Empty, Storage, ListsDisjoint, Connecting
<1>2. Watched = {} /\ Range(lastping) = {}
  BY DEF Init, Empty, Watched, Range
<1>3. TypeOK
  BY <1>1, <1>2, ConnectionsAssumption DEF Init, TypeOK
<1>4. Forgets
  BY <1>2 DEF Init, Forgets, Settles
<1> QED
  BY <1>1, <1>3, <1>4 DEF IInv

LEMMA NextIInv == IInv /\ [Next]_vars => IInv'
<1> SUFFICES ASSUME IInv, [Next]_vars PROVE IInv'
  OBVIOUS
<1>1. CASE RandomNext
  BY <1>1, NodeListIInv, NodeConnectedIInv, NodeDisconnectedIInv, NodeFailureIInv,
     FromNetworkIInv, ToNetworkIInv, RandomTickIInv DEF RandomNext
<1>2. CASE PingNext
  BY <1>2, UpdateNodeListIInv, DisconnectNodeIInv, PongIInv, PingTickIInv DEF PingNext
<1>3. CASE NetworkNext
  BY <1>3, NetworkIInv
<1>4. CASE Tick
  BY <1>4, TickIInv
<1>5. CASE \E nodes \in SUBSET Peer : NodeListFromWS(nodes)
  BY <1>5, NodeListFromWSIInv
<1>6. CASE \E p \in Peer :
        \/ ChannelOpens(p) \/ PeerSetup(p) \/ PeerSends(p) \/ ChannelCloses(p)
        \/ PeerDies(p) \/ PeerReturns(p)
  BY <1>6, ChannelsAndPeersIInv
<1>7. CASE UNCHANGED vars
  <2>1. TypeOK'
    BY <1>7 DEF vars, IInv, TypeOK, Watched
  <2> QED
    BY <1>7, <2>1, OthersKeep DEF vars, IInv
<1> QED
  BY <1>1, <1>2, <1>3, <1>4, <1>5, <1>6, <1>7 DEF Next

LEMMA Invariant == Spec => []IInv
<1> QED
  BY InitIInv, NextIInv, PTL DEF Spec

\* The lists of RandomStorage and the messages between the tasks stay consistent: whatever the
\* nodes, the signalling server and the peers send, no node is at once connected and connecting,
\* and none is either without being known (random_connections/core.rs).
THEOREM ListsStayConsistent == Spec => []ListsConsistent
<1>1. IInv => ListsConsistent
  BY DEF IInv, ListsConsistent
<1> QED
  BY <1>1, Invariant, PTL

\* Ping never goes on watching a node that RandomConnections has given up: when the last message
\* to it is handled, it watches connected nodes only (random_connections/broker.rs tells it of
\* every change, and ping/core.rs takes every list).
THEOREM PingWatchesConnected == Spec => []WatchedAreConnected
<1>1. IInv => WatchedAreConnected
  BY DEF IInv, TypeOK, Forgets, Settles, WatchedAreConnected
<1> QED
  BY <1>1, Invariant, PTL
=============================================================================
