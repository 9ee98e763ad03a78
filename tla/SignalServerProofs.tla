------------------------- MODULE SignalServerProofs -------------------------
(***************************************************************************)
(* Proof that the list of the signalling server is consistent for any      *)
(* nodes, connections and times to live, and that nodes leave it for a     *)
(* reason.                                                                 *)
(*                                                                         *)
(* NoGhosts is inductive but for what it needs of the events that wait     *)
(* (EventsOK): they are of connections of nodes, so that an id that is     *)
(* announced is the one of a node; and a connection is reported once, when *)
(* it has no challenge yet, so that its challenge takes no id away.  That  *)
(* nodes leave for a reason also needs that the end of a connection is     *)
(* only reported when it is gone.                                          *)
(***************************************************************************)
EXTENDS SignalServer, TLAPS

EventsOK ==
    /\ \A i \in reading : owner[i] \in Node
    /\ \A i \in new : owner[i] \in Node /\ i \notin DOMAIN connectionIds
    /\ \A k \in DOMAIN events :
        /\ events[k].of \in Accepted /\ owner[events[k].of] \in Node
        /\ events[k].type = "Disconnection" => link[events[k].of] = "gone"
        /\ events[k].type = "NewConnection" =>
            events[k].of \notin new /\ events[k].of \notin DOMAIN connectionIds
    /\ \A k, l \in DOMAIN events :
        events[k].type = "NewConnection" /\ events[l].type = "NewConnection" /\ k # l =>
            events[k].of # events[l].of

IInv == TypeOK /\ NoGhosts /\ EventsOK

----------------------------------------------------------------------------
\* Restrict of the library, as a function.
LEMMA Restricting ==
    ASSUME NEW f, NEW S
    PROVE  /\ DOMAIN Restrict(f, S) = S
           /\ \A x \in S : Restrict(f, S)[x] = f[x]
BY DEF Restrict

\* A sequence without one of its places is one over the same set.
LEMMA RemoveAtType ==
    ASSUME NEW S, NEW s \in Seq(S), NEW k \in DOMAIN s
    PROVE  RemoveAt(s, k) \in Seq(S)
<1>1. k \in 1..Len(s) /\ Len(s) \in Nat
  OBVIOUS
<1>2. SubSeq(s, 1, k - 1) \in Seq(S) /\ SubSeq(s, k + 1, Len(s)) \in Seq(S)
  BY <1>1
<1> QED
  BY <1>2 DEF RemoveAt

\* An index is bound to what was inserted, and nothing else is.
LEMMA Inserting ==
    ASSUME NEW left, NEW i, NEW k
    PROVE  LET ids == Insert(left, i)
           IN  /\ k \in DOMAIN ids <=>
                    k = i \/ (k \in DOMAIN connectionIds /\ connectionIds[k] # left)
               /\ k \in DOMAIN ids =>
                    ids[k] = IF k = i THEN left ELSE connectionIds[k]
BY DEF Insert, IndexesOf

\* Sending keeps the connections those that were accepted.
LEMMA Sending ==
    ASSUME TypeOK, NEW i, Send(i)
    PROVE  connections' \in Seq(Accepted)
<1>1. CASE UNCHANGED connections
  BY <1>1 DEF TypeOK
<1>2. CASE i \in DOMAIN connections /\ connections' = RemoveAt(connections, i)
  BY <1>2, RemoveAtType DEF TypeOK
<1> QED
  BY <1>1, <1>2 DEF Send

\* A challenge is of one connection and no node.
LEMMA Lefts ==
    /\ \A i, j : Challenge(i) = Challenge(j) <=> i = j
    /\ \A m, n : ID(m) = ID(n) <=> m = n
    /\ \A i, n : Challenge(i) # ID(n)
BY DEF Challenge, ID

\* Connections have an index.
LEMMA Indexes ==
    ASSUME TypeOK
    PROVE  /\ Accepted = 1..Len(owner) /\ Len(owner) \in Nat
           /\ Accepted \subseteq Index
           /\ \A i \in Accepted : Challenge(i) \in Left /\ owner[i] \in Node \cup {NoNode}
<1>1. Accepted = 1..Len(owner) /\ Len(owner) \in Nat
  BY DEF TypeOK, Accepted
<1> QED
  BY <1>1, ServerAssumption DEF TypeOK, Accepted, Index, Left

\* An event that is emitted comes last.
LEMMA Emitting ==
    ASSUME TypeOK, NEW e \in WSServerOut, Emit(e)
    PROVE  /\ events' \in Seq(WSServerOut)
           /\ DOMAIN events = 1..Len(events) /\ Len(events) \in Nat
           /\ DOMAIN events' = 1..(Len(events) + 1)
           /\ \A k \in DOMAIN events : events'[k] = events[k]
           /\ events'[Len(events) + 1] = e
           /\ UNCHANGED <<owner, link, connections>> /\ Accepted' = Accepted
<1>1. events \in Seq(WSServerOut) /\ events' = Append(events, e)
  BY DEF TypeOK, Emit
<1> QED
  BY <1>1 DEF Emit, Accepted

\* An event that is handled came first.
LEMMA Taking ==
    ASSUME TypeOK, NEW e, Handle(e)
    PROVE  /\ events' \in Seq(WSServerOut) /\ e \in WSServerOut
           /\ 1 \in DOMAIN events /\ events[1] = e
           /\ \A k \in DOMAIN events' :
                k + 1 \in DOMAIN events /\ k + 1 # 1 /\ events'[k] = events[k + 1]
           /\ \A k, l \in DOMAIN events' : k # l => k + 1 # l + 1
<1>1. /\ events \in Seq(WSServerOut) /\ events # <<>>
      /\ e = Head(events) /\ events' = Tail(events)
  BY DEF TypeOK, Handle
<1> QED
  BY <1>1

\* What the queue of events owes to the handler, when only a report of a new connection adds an
\* index.
LEMMA Handling ==
    ASSUME IInv, NEW e, Handle(e),
           \A i \in DOMAIN connectionIds' \ DOMAIN connectionIds :
                e.type = "NewConnection" /\ e.of = i
    PROVE  /\ events' \in Seq(WSServerOut) /\ EventsOK'
           /\ e.of \in Accepted /\ owner[e.of] \in Node
           /\ e.type = "Disconnection" => link[e.of] = "gone"
           /\ e.type = "NewConnection" => e.of \notin DOMAIN connectionIds
<1>1. /\ events' \in Seq(WSServerOut)
      /\ 1 \in DOMAIN events /\ events[1] = e
      /\ \A k \in DOMAIN events' :
            k + 1 \in DOMAIN events /\ k + 1 # 1 /\ events'[k] = events[k + 1]
      /\ \A k, l \in DOMAIN events' : k # l => k + 1 # l + 1
  BY Taking DEF IInv
<1>2. UNCHANGED <<owner, link, reading, new>> /\ Accepted' = Accepted
  BY DEF Handle, Accepted
<1>3. /\ e.of \in Accepted /\ owner[e.of] \in Node
      /\ e.type = "Disconnection" => link[e.of] = "gone"
      /\ e.type = "NewConnection" => e.of \notin new /\ e.of \notin DOMAIN connectionIds
  BY <1>1 DEF IInv, EventsOK
<1>4. \A i \in new : owner'[i] \in Node /\ i \notin DOMAIN connectionIds'
  BY <1>2, <1>3 DEF IInv, EventsOK
<1>5. ASSUME NEW k \in DOMAIN events'
      PROVE  /\ events'[k].of \in Accepted' /\ owner'[events'[k].of] \in Node
             /\ events'[k].type = "Disconnection" => link'[events'[k].of] = "gone"
             /\ events'[k].type = "NewConnection" =>
                 events'[k].of \notin new' /\ events'[k].of \notin DOMAIN connectionIds'
  <2>1. k + 1 \in DOMAIN events /\ k + 1 # 1 /\ events'[k] = events[k + 1]
    BY <1>1
  <2>2. /\ events[k + 1].of \in Accepted /\ owner[events[k + 1].of] \in Node
        /\ events[k + 1].type = "Disconnection" => link[events[k + 1].of] = "gone"
        /\ events[k + 1].type = "NewConnection" =>
            events[k + 1].of \notin new /\ events[k + 1].of \notin DOMAIN connectionIds
    BY <2>1 DEF IInv, EventsOK
  <2>3. events[k + 1].type = "NewConnection" /\ e.type = "NewConnection" =>
            events[k + 1].of # e.of
    BY <2>1, <1>1 DEF IInv, EventsOK
  <2>4. events[k + 1].type = "NewConnection" => events[k + 1].of \notin DOMAIN connectionIds'
    BY <2>2, <2>3
  <2> QED
    BY <2>1, <2>2, <2>4, <1>2
<1>6. ASSUME NEW k \in DOMAIN events', NEW l \in DOMAIN events', k # l,
             events'[k].type = "NewConnection", events'[l].type = "NewConnection"
      PROVE  events'[k].of # events'[l].of
  <2>1. /\ k + 1 \in DOMAIN events /\ l + 1 \in DOMAIN events /\ k + 1 # l + 1
        /\ events'[k] = events[k + 1] /\ events'[l] = events[l + 1]
    BY <1>1, <1>6
  <2> QED
    BY <2>1, <1>6 DEF IInv, EventsOK
<1>7. EventsOK'
  BY <1>2, <1>4, <1>5, <1>6 DEF IInv, EventsOK
<1> QED
  BY <1>1, <1>3, <1>7

----------------------------------------------------------------------------
LEMMA InitIInv == Init => IInv
<1> SUFFICES ASSUME Init PROVE IInv
  OBVIOUS
<1> USE DEF Init, ServerInit
<1>1. TypeOK
  BY ServerAssumption, SignalAssumption DEF TypeOK, Accepted, Range
<1> QED
  BY <1>1 DEF IInv, EventsOK, NoGhosts, IndexesOf

LEMMA AcceptConnectionIInv ==
    ASSUME IInv, NEW n \in Node, AcceptConnection(n), UNCHANGED signalVars
    PROVE  IInv'
<1> DEFINE i == Len(owner) + 1
           closed == [k \in Accepted |-> IF owner[k] = n THEN "gone" ELSE link[k]]
<1>1. /\ owner' = Append(owner, n) /\ connections' = Append(connections, i)
      /\ reading' = reading \cup {i} /\ new' = {i}
      /\ link' = Append(closed, "open") /\ wire' = Append(wire, <<>>)
      /\ Len(owner) < MaxConnections /\ new = {} /\ UNCHANGED events
  BY DEF AcceptConnection
<1>2. /\ owner \in Seq(Node \cup {NoNode}) /\ Accepted = 1..Len(owner) /\ Len(owner) \in Nat
      /\ connections \in Seq(Accepted)
  BY Indexes DEF IInv, TypeOK
<1>3. closed \in Seq({"open", "gone"}) /\ DOMAIN closed = Accepted
  <2>1. \A k \in Accepted : closed[k] \in {"open", "gone"}
    BY DEF IInv, TypeOK
  <2> QED
    BY <1>2, <2>1
<1>4. /\ owner' \in Seq(Node \cup {NoNode}) /\ Len(owner') = i
      /\ \A k \in Accepted : owner'[k] = owner[k]
      /\ owner'[i] = n
      /\ Accepted' = 1..i
  BY <1>1, <1>2 DEF Accepted
<1>5. /\ link' \in Seq({"open", "gone"}) /\ DOMAIN link' = 1..i
      /\ wire' \in Seq(Seq(FromNode)) /\ DOMAIN wire' = 1..i
  BY <1>1, <1>2, <1>3 DEF IInv, TypeOK
<1>6. connections' \in Seq(1..i)
  <2>1. connections \in Seq(1..i)
    BY <1>2
  <2> QED
    BY <1>1, <1>2, <2>1
<1>7. TypeOK'
  BY <1>1, <1>2, <1>4, <1>5, <1>6, ServerAssumption DEF IInv, TypeOK, signalVars
<1>8. i \notin DOMAIN connectionIds /\ DOMAIN connectionIds \subseteq Accepted
  BY <1>2 DEF IInv, TypeOK
<1>9. NoGhosts'
  BY <1>4, <1>8 DEF IInv, NoGhosts, IndexesOf, signalVars
<1>10. reading \subseteq Accepted
  BY DEF IInv, TypeOK
<1>11. \A k \in Accepted : link[k] = "gone" => link'[k] = "gone"
  BY <1>1, <1>2, <1>3
<1>12. \A k \in DOMAIN events : events[k].of \in Accepted /\ events[k].of # i
  BY <1>2 DEF IInv, EventsOK
<1>13. EventsOK'
  BY <1>1, <1>2, <1>4, <1>8, <1>10, <1>11, <1>12 DEF IInv, EventsOK, signalVars
<1> QED
  BY <1>7, <1>9, <1>13 DEF IInv

LEMMA HandshakeFailsIInv ==
    ASSUME IInv, HandshakeFails, UNCHANGED signalVars
    PROVE  IInv'
<1> DEFINE i == Len(owner) + 1
<1>1. /\ owner' = Append(owner, NoNode)
      /\ link' = Append(link, "gone") /\ wire' = Append(wire, <<>>)
      /\ UNCHANGED <<reading, new, connections, events>>
      /\ Len(owner) < MaxConnections
  BY DEF HandshakeFails
<1>2. /\ owner \in Seq(Node \cup {NoNode}) /\ Accepted = 1..Len(owner) /\ Len(owner) \in Nat
      /\ connections \in Seq(Accepted)
  BY Indexes DEF IInv, TypeOK
<1>3. /\ owner' \in Seq(Node \cup {NoNode}) /\ Len(owner') = i
      /\ \A k \in Accepted : owner'[k] = owner[k]
      /\ Accepted' = 1..i
  BY <1>1, <1>2 DEF Accepted
<1>4. /\ link' \in Seq({"open", "gone"}) /\ DOMAIN link' = 1..i
      /\ wire' \in Seq(Seq(FromNode)) /\ DOMAIN wire' = 1..i
  BY <1>1, <1>2 DEF IInv, TypeOK
<1>5. connections' \in Seq(1..i)
  BY <1>1, <1>2
<1>6. TypeOK'
  BY <1>1, <1>2, <1>3, <1>4, <1>5, ServerAssumption DEF IInv, TypeOK, signalVars
<1>7. /\ DOMAIN connectionIds \subseteq Accepted
      /\ reading \subseteq Accepted /\ new \subseteq Accepted
  BY DEF IInv, TypeOK
<1>8. NoGhosts'
  BY <1>3, <1>7 DEF IInv, NoGhosts, IndexesOf, signalVars
<1>9. \A k \in Accepted : link'[k] = link[k]
  BY <1>1, <1>2 DEF IInv, TypeOK
<1>10. \A k \in DOMAIN events : events[k].of \in Accepted
  BY DEF IInv, EventsOK
<1>11. UNCHANGED <<connectionIds, events, reading, new>> /\ Accepted \subseteq Accepted'
  BY <1>1, <1>2, <1>3 DEF signalVars
<1>12. EventsOK'
  BY <1>3, <1>7, <1>9, <1>10, <1>11 DEF IInv, EventsOK
<1> QED
  BY <1>6, <1>8, <1>12 DEF IInv

LEMMA NodeLeavesIInv ==
    ASSUME IInv, NEW n \in Node, NodeLeaves(n), UNCHANGED signalVars
    PROVE  IInv'
<1>1. /\ link' = [i \in Accepted |-> IF owner[i] = n THEN "gone" ELSE link[i]]
      /\ UNCHANGED <<owner, wire, reading, new, connections, events>>
      /\ Accepted' = Accepted
  BY DEF NodeLeaves, Accepted
<1>2. link' \in Seq({"open", "gone"}) /\ DOMAIN link' = Accepted
  <2>1. \A k \in Accepted : link'[k] \in {"open", "gone"}
    BY <1>1 DEF IInv, TypeOK
  <2>2. Accepted = 1..Len(owner) /\ Len(owner) \in Nat
    BY Indexes DEF IInv
  <2> QED
    BY <1>1, <2>1, <2>2
<1>3. TypeOK'
  BY <1>1, <1>2 DEF IInv, TypeOK, signalVars
<1>4. NoGhosts'
  BY <1>1 DEF IInv, NoGhosts, IndexesOf, signalVars
<1>5. EventsOK'
  BY <1>1 DEF IInv, EventsOK, signalVars
<1> QED
  BY <1>3, <1>4, <1>5 DEF IInv

LEMMA SendRequestIInv ==
    ASSUME IInv, NEW i \in Accepted, NEW msg \in Request, SendRequest(i, msg)
    PROVE  IInv'
<1>1. /\ wire' = [wire EXCEPT ![i] = Append(@, msg)]
      /\ requests' = requests + 1 /\ requests < MaxRequests
      /\ UNCHANGED <<owner, link, reading, new, connections, events, connectionIds, info, ttl>>
      /\ Accepted' = Accepted
  BY DEF SendRequest, Accepted
<1>2. wire' \in Seq(Seq(FromNode)) /\ DOMAIN wire' = Accepted
  BY <1>1 DEF IInv, TypeOK, FromNode
<1>3. TypeOK'
  BY <1>1, <1>2, SignalAssumption DEF IInv, TypeOK
<1>4. NoGhosts'
  BY <1>1 DEF IInv, NoGhosts, IndexesOf
<1>5. EventsOK'
  BY <1>1 DEF IInv, EventsOK
<1> QED
  BY <1>3, <1>4, <1>5 DEF IInv

\* The server emits what it saw: a connection once, messages, and the end of a connection.
LEMMA EmittedIInv ==
    ASSUME IInv, NEW e \in WSServerOut, Emit(e), UNCHANGED signalVars,
           e.of \in Accepted, owner[e.of] \in Node,
           e.type = "Disconnection" => link[e.of] = "gone",
           e.type = "NewConnection" => e.of \in new /\ e.of \notin new',
           new' \subseteq new, reading' \subseteq reading,
           wire' \in Seq(Seq(FromNode)), DOMAIN wire' = Accepted
    PROVE  IInv'
<1> DEFINE last == Len(events) + 1
<1>1. /\ events' \in Seq(WSServerOut)
      /\ DOMAIN events = 1..Len(events) /\ Len(events) \in Nat
      /\ DOMAIN events' = 1..last
      /\ \A k \in DOMAIN events : events'[k] = events[k]
      /\ events'[last] = e
      /\ UNCHANGED <<owner, link, connections>> /\ Accepted' = Accepted
  BY Emitting DEF IInv
<1>2. TypeOK'
  BY <1>1 DEF IInv, TypeOK, signalVars
<1>3. NoGhosts'
  BY <1>1 DEF IInv, NoGhosts, IndexesOf, signalVars
<1>4. \A k \in DOMAIN events' : (k \in DOMAIN events /\ events'[k] = events[k]) \/ (k = last /\ events'[k] = e)
  BY <1>1
<1>5. UNCHANGED connectionIds
  BY DEF signalVars
<1>6. e.type = "NewConnection" =>
        /\ e.of \notin DOMAIN connectionIds
        /\ \A k \in DOMAIN events : events[k].type = "NewConnection" => events[k].of # e.of
  BY DEF IInv, EventsOK
<1>7. ASSUME NEW k \in DOMAIN events'
      PROVE  /\ events'[k].of \in Accepted' /\ owner'[events'[k].of] \in Node
             /\ events'[k].type = "Disconnection" => link'[events'[k].of] = "gone"
             /\ events'[k].type = "NewConnection" =>
                 events'[k].of \notin new' /\ events'[k].of \notin DOMAIN connectionIds'
  BY <1>1, <1>4, <1>5, <1>6 DEF IInv, EventsOK
<1>8. ASSUME NEW k \in DOMAIN events', NEW l \in DOMAIN events', k # l,
             events'[k].type = "NewConnection", events'[l].type = "NewConnection"
      PROVE  events'[k].of # events'[l].of
  BY <1>4, <1>6, <1>8 DEF IInv, EventsOK
<1>9. EventsOK'
  BY <1>1, <1>5, <1>7, <1>8 DEF IInv, EventsOK
<1> QED
  BY <1>2, <1>3, <1>9 DEF IInv

LEMMA NewConnectionOutIInv ==
    ASSUME IInv, NEW i \in Accepted, NewConnectionOut(i), UNCHANGED signalVars
    PROVE  IInv'
<1> DEFINE e == [type |-> "NewConnection", of |-> i]
<1>1. /\ i \in new /\ new' = {} /\ Emit(e) /\ UNCHANGED <<wire, reading>>
      /\ e \in WSServerOut
  BY Indexes DEF NewConnectionOut, WSServerOut, IInv
<1>2. owner[i] \in Node /\ wire \in Seq(Seq(FromNode)) /\ DOMAIN wire = Accepted
  BY <1>1 DEF IInv, EventsOK, TypeOK
<1> QED
  BY <1>1, <1>2, EmittedIInv

LEMMA MessageOutIInv ==
    ASSUME IInv, NEW i \in Accepted, MessageOut(i), UNCHANGED signalVars
    PROVE  IInv'
<1> DEFINE e == [type |-> "Message", of |-> i, msg |-> Head(wire[i])]
<1>1. /\ i \in reading /\ wire[i] # <<>> /\ Emit(e) /\ UNCHANGED <<reading, new>>
      /\ wire' = [wire EXCEPT ![i] = Tail(@)]
  BY DEF MessageOut
<1>2. /\ owner[i] \in Node /\ wire[i] \in Seq(FromNode)
      /\ wire' \in Seq(Seq(FromNode)) /\ DOMAIN wire' = Accepted
  BY <1>1 DEF IInv, EventsOK, TypeOK
<1>3. e \in WSServerOut
  <2>1. Head(wire[i]) \in FromNode
    BY <1>1, <1>2
  <2> QED
    BY <2>1, Indexes DEF WSServerOut, IInv
<1> QED
  BY <1>1, <1>2, <1>3, EmittedIInv

LEMMA DisconnectionOutIInv ==
    ASSUME IInv, NEW i \in Accepted, DisconnectionOut(i), UNCHANGED signalVars
    PROVE  IInv'
<1> DEFINE e == [type |-> "Disconnection", of |-> i]
<1>1. /\ i \in reading /\ reading' = reading \ {i} /\ Emit(e) /\ UNCHANGED new
      /\ wire' = [wire EXCEPT ![i] = <<>>] /\ link[i] # "open"
      /\ e \in WSServerOut
  BY Indexes DEF DisconnectionOut, WSServerOut, Open, IInv
<1>2. /\ owner[i] \in Node /\ link[i] = "gone"
      /\ wire' \in Seq(Seq(FromNode)) /\ DOMAIN wire' = Accepted
  BY <1>1 DEF IInv, EventsOK, TypeOK
<1> QED
  BY <1>1, <1>2, EmittedIInv

----------------------------------------------------------------------------
LEMMA NewConnectionIInv ==
    ASSUME IInv, NEW i \in Accepted, NewConnection(i)
    PROVE  IInv'
<1> DEFINE e == [type |-> "NewConnection", of |-> i]
<1>1. /\ Handle(e)
      /\ connectionIds' = Insert(Challenge(i), i)
      /\ ttl' = [k \in DOMAIN ttl \cup {i} |-> IF k = i THEN TTL ELSE ttl[k]]
      /\ Send(i) /\ AnswersChallenge(i)
      /\ UNCHANGED <<owner, link, reading, new, info, requests>>
      /\ Accepted' = Accepted
  BY DEF NewConnection, Handle, Accepted
<1>2. /\ Accepted = 1..Len(owner) /\ Len(owner) \in Nat
      /\ Accepted \subseteq Index /\ Challenge(i) \in Left
  BY Indexes DEF IInv
<1>3. wire' \in Seq(Seq(FromNode)) /\ DOMAIN wire' = Accepted
  <2>1. [type |-> "Announce", challenge |-> i] \in FromNode
    BY <1>2 DEF FromNode
  <2>2. \A k \in Accepted : wire'[k] \in Seq(FromNode)
    BY <1>1, <2>1 DEF AnswersChallenge, IInv, TypeOK
  <2>3. wire' = [k \in Accepted |-> wire'[k]]
    BY <1>1 DEF AnswersChallenge
  <2> QED
    BY <1>2, <2>2, <2>3
<1>4. connections' \in Seq(Accepted)
  BY <1>1, Sending DEF IInv
<1>5. /\ DOMAIN connectionIds' \subseteq Accepted
      /\ \A k \in DOMAIN connectionIds' : connectionIds'[k] \in Left
  <2>1. /\ DOMAIN connectionIds \subseteq Accepted
        /\ \A k \in DOMAIN connectionIds : connectionIds[k] \in Left
    BY DEF IInv, TypeOK, Range
  <2>2. connectionIds' = Insert(Challenge(i), i)
    BY <1>1
  <2> QED
    BY <2>1, <2>2, <1>2 DEF Insert
<1>6. /\ DOMAIN ttl' = DOMAIN ttl \cup {i}
      /\ \A k \in DOMAIN ttl' : ttl'[k] \in 1..TTL
  BY <1>1, SignalAssumption DEF IInv, TypeOK, Range
<1>7. \A k \in DOMAIN connectionIds' \ DOMAIN connectionIds : k = i
  BY <1>1, Inserting
<1>8. /\ events' \in Seq(WSServerOut) /\ EventsOK'
       /\ i \notin DOMAIN connectionIds
  BY <1>1, <1>7, Handling
<1>9. TypeOK'
  BY <1>1, <1>3, <1>4, <1>5, <1>6, <1>8 DEF IInv, TypeOK, Range
<1>10. i \notin DOMAIN connectionIds
  BY <1>8
<1>11. \A k \in DOMAIN connectionIds : connectionIds[k] # Challenge(i)
  BY <1>10, Lefts DEF IInv, NoGhosts
<1>12. /\ DOMAIN connectionIds' = DOMAIN connectionIds \cup {i}
       /\ connectionIds'[i] = Challenge(i)
       /\ \A k \in DOMAIN connectionIds : connectionIds'[k] = connectionIds[k]
  BY <1>1, <1>10, <1>11 DEF Insert, IndexesOf
<1>13. \A n \in Node : n \in info' <=> IndexesOf(ID(n))' # {}
  BY <1>1, <1>12, Lefts DEF IInv, NoGhosts, IndexesOf
<1>14. ASSUME NEW k \in DOMAIN connectionIds'
       PROVE  /\ k \in DOMAIN ttl'
              /\ connectionIds'[k] \in {Challenge(k), ID(owner'[k])}
              /\ IndexesOf(connectionIds[k])' = {k}
  <2>1. CASE k = i
    BY <2>1, <1>1, <1>6, <1>11, <1>12 DEF IndexesOf
  <2>2. CASE k # i
    BY <2>2, <1>1, <1>6, <1>11, <1>12 DEF IInv, NoGhosts, IndexesOf
  <2> QED
    BY <2>1, <2>2
<1>15. NoGhosts'
  BY <1>13, <1>14 DEF NoGhosts
<1> QED
  BY <1>9, <1>15, <1>8 DEF IInv

\* What every message from a connection does.
LEMMA MessageFacts ==
    ASSUME IInv, NEW i \in Accepted, NEW msg, Message(i, msg),
           DOMAIN connectionIds' \subseteq DOMAIN connectionIds
    PROVE  /\ owner[i] \in Node
           /\ events' \in Seq(WSServerOut) /\ EventsOK'
           /\ DOMAIN ttl' = DOMAIN ttl /\ \A k \in DOMAIN ttl : ttl'[k] \in 1..TTL
           /\ UNCHANGED <<owner, link, wire, reading, new, requests>>
           /\ Accepted' = Accepted
<1> DEFINE e == [type |-> "Message", of |-> i, msg |-> msg]
<1>1. /\ Handle(e)
      /\ ttl' = IF i \in DOMAIN ttl THEN [ttl EXCEPT ![i] = TTL] ELSE ttl
      /\ UNCHANGED <<owner, link, wire, reading, new, requests>>
      /\ Accepted' = Accepted
  BY DEF Message, Handle, Accepted
<1>2. events' \in Seq(WSServerOut) /\ EventsOK' /\ owner[i] \in Node
  BY <1>1, Handling
<1>3. DOMAIN ttl' = DOMAIN ttl /\ \A k \in DOMAIN ttl : ttl'[k] \in 1..TTL
  BY <1>1, SignalAssumption DEF IInv, TypeOK, Range
<1> QED
  BY <1>1, <1>2, <1>3

\* A message that is only answered keeps the list.
LEMMA AnsweredIInv ==
    ASSUME IInv, NEW i \in Accepted, NEW msg, Message(i, msg),
           connections' \in Seq(Accepted), UNCHANGED <<connectionIds, info>>
    PROVE  IInv'
<1>1. /\ events' \in Seq(WSServerOut) /\ EventsOK'
      /\ DOMAIN ttl' = DOMAIN ttl /\ \A k \in DOMAIN ttl : ttl'[k] \in 1..TTL
      /\ UNCHANGED <<owner, link, wire, reading, new, requests>>
      /\ Accepted' = Accepted
  BY MessageFacts
<1>2. TypeOK'
  BY <1>1 DEF IInv, TypeOK, Range
<1>3. NoGhosts'
  BY <1>1 DEF IInv, NoGhosts, IndexesOf
<1> QED
  BY <1>1, <1>2, <1>3 DEF IInv

LEMMA AnnounceIInv ==
    ASSUME IInv, NEW i \in Accepted, NEW challenge \in Index, Announce(i, challenge)
    PROVE  IInv'
<1> DEFINE msg == [type |-> "Announce", challenge |-> challenge]
<1>1. Message(i, msg)
  BY DEF Announce
<1>2. CASE ~Verifies(i, challenge)
  <2>1. UNCHANGED <<connectionIds, info, connections>>
    BY <1>2 DEF Announce
  <2>2. connections' \in Seq(Accepted)
    BY <2>1 DEF IInv, TypeOK
  <2> QED
    BY <1>1, <2>1, <2>2, AnsweredIInv
<1>3. CASE Verifies(i, challenge)
  <2> DEFINE n == owner[i]
  <2>1. /\ connectionIds' = Insert(ID(n), i) /\ info' = info \cup {n}
        /\ Send(i)
    BY <1>3 DEF Announce
  <2>2. i \in DOMAIN connectionIds
    BY <1>3 DEF Verifies
  <2>3. DOMAIN connectionIds' \subseteq DOMAIN connectionIds
    BY <2>1, <2>2 DEF Insert, IndexesOf
  <2>4. /\ n \in Node
        /\ events' \in Seq(WSServerOut) /\ EventsOK'
        /\ DOMAIN ttl' = DOMAIN ttl /\ \A k \in DOMAIN ttl : ttl'[k] \in 1..TTL
        /\ UNCHANGED <<owner, link, wire, reading, new, requests>>
        /\ Accepted' = Accepted
    BY <1>1, <2>3, MessageFacts
  <2>5. i \in DOMAIN connectionIds /\ connectionIds[i] = Challenge(i)
    BY <1>3, Lefts DEF Verifies, IInv, NoGhosts
  <2>6. /\ DOMAIN connectionIds' \subseteq DOMAIN connectionIds /\ i \in DOMAIN connectionIds'
        /\ connectionIds'[i] = ID(n)
        /\ \A k \in DOMAIN connectionIds : k # i =>
              /\ k \in DOMAIN connectionIds' <=> connectionIds[k] # ID(n)
              /\ k \in DOMAIN connectionIds' => connectionIds'[k] = connectionIds[k]
    BY <2>1, <2>5 DEF Insert, IndexesOf
  <2>7. connections' \in Seq(Accepted)
    BY <2>1, Sending DEF IInv
  <2>8. ID(n) \in Left
    BY <2>4 DEF Left
  <2>9. /\ DOMAIN connectionIds' \subseteq Accepted
        /\ \A k \in DOMAIN connectionIds' : connectionIds'[k] \in Left
    BY <2>6, <2>8 DEF IInv, TypeOK, Range
  <2>10. TypeOK'
    BY <2>1, <2>4, <2>7, <2>9 DEF IInv, TypeOK, Range
  <2>11. ASSUME NEW m \in Node
        PROVE  m \in info' <=> IndexesOf(ID(m))' # {}
    <3>1. CASE m = n
      BY <3>1, <2>1, <2>6 DEF IndexesOf
    <3>2. CASE m # n
      <4>1. IndexesOf(ID(m))' = IndexesOf(ID(m))
        BY <3>2, <2>5, <2>6, Lefts DEF IndexesOf
      <4> QED
        BY <3>2, <4>1, <2>1 DEF IInv, NoGhosts
    <3> QED
      BY <3>1, <3>2
  <2>12. ASSUME NEW k \in DOMAIN connectionIds'
         PROVE  /\ k \in DOMAIN ttl'
                /\ connectionIds'[k] \in {Challenge(k), ID(owner'[k])}
                /\ IndexesOf(connectionIds[k])' = {k}
    <3>1. CASE k = i
      BY <3>1, <2>4, <2>5, <2>6 DEF IInv, NoGhosts, IndexesOf
    <3>2. CASE k # i
      <4>1. k \in DOMAIN connectionIds /\ connectionIds'[k] = connectionIds[k] /\ connectionIds[k] # ID(n)
        BY <3>2, <2>6
      <4>2. IndexesOf(connectionIds[k]) = {k}
        BY <4>1 DEF IInv, NoGhosts
      <4>3. IndexesOf(connectionIds[k])' = {k}
        BY <4>1, <4>2, <3>2, <2>6 DEF IndexesOf
      <4> QED
        BY <4>1, <4>3, <2>4 DEF IInv, NoGhosts
    <3> QED
      BY <3>1, <3>2
  <2>13. NoGhosts'
    BY <2>11, <2>12 DEF NoGhosts
  <2> QED
    BY <2>4, <2>10, <2>13 DEF IInv
<1> QED
  BY <1>2, <1>3

LEMMA ListIDsIInv ==
    ASSUME IInv, NEW i \in Accepted, ListIDs(i)
    PROVE  IInv'
<1>1. /\ Message(i, [type |-> "ListIDsRequest"]) /\ Send(i)
      /\ UNCHANGED <<connectionIds, info>>
  BY DEF ListIDs
<1> QED
  BY <1>1, Sending, AnsweredIInv DEF IInv

LEMMA PeerSetupIInv ==
    ASSUME IInv, NEW i \in Accepted, NEW to \in Node, PeerSetup(i, to)
    PROVE  IInv'
<1>1. /\ Message(i, [type |-> "PeerSetup", to |-> to])
      /\ UNCHANGED <<connectionIds, info>>
      /\ (\E dst \in IndexesOf(ID(to)) : Send(dst)) \/ UNCHANGED connections
  BY DEF PeerSetup
<1>2. connections' \in Seq(Accepted)
  <2>1. CASE UNCHANGED connections
    BY <2>1 DEF IInv, TypeOK
  <2>2. CASE \E dst \in IndexesOf(ID(to)) : Send(dst)
    BY <2>2, Sending DEF IInv
  <2> QED
    BY <1>1, <2>1, <2>2
<1> QED
  BY <1>1, <1>2, AnsweredIInv

\* Removing connections, whose nodes leave the list, keeps the rest of it.
LEMMA RemoveNodesKeeps ==
    ASSUME IInv, NEW S, NEW t, RemoveNodes(S, t), DOMAIN t = DOMAIN ttl,
           \A k \in DOMAIN ttl \ S : t[k] \in 1..TTL,
           UNCHANGED owner
    PROVE  /\ DOMAIN connectionIds' \subseteq DOMAIN connectionIds
           /\ \A k \in DOMAIN connectionIds' : connectionIds'[k] \in Left
           /\ info' \subseteq Node
           /\ DOMAIN ttl' \subseteq Accepted /\ \A k \in DOMAIN ttl' : ttl'[k] \in 1..TTL
           /\ NoGhosts'
<1>1. /\ info' = info \ {n \in Node : \E i \in S \cap DOMAIN connectionIds :
                                          connectionIds[i] = ID(n)}
      /\ DOMAIN connectionIds' = DOMAIN connectionIds \ S
      /\ \A k \in DOMAIN connectionIds \ S : connectionIds'[k] = connectionIds[k]
      /\ DOMAIN ttl' = DOMAIN ttl \ S
      /\ \A k \in DOMAIN ttl \ S : ttl'[k] = t[k]
  BY Restricting DEF RemoveNodes
<1>2. /\ \A k \in DOMAIN connectionIds' : connectionIds'[k] \in Left
      /\ info' \subseteq Node
      /\ DOMAIN ttl' \subseteq Accepted /\ \A k \in DOMAIN ttl' : ttl'[k] \in 1..TTL
  BY <1>1 DEF IInv, TypeOK, Range
<1>3. ASSUME NEW n \in Node
      PROVE  n \in info' <=> IndexesOf(ID(n))' # {}
  <2>1. IndexesOf(ID(n))' = IndexesOf(ID(n)) \ S
    BY <1>1 DEF IndexesOf
  <2>2. CASE IndexesOf(ID(n)) = {}
    BY <2>1, <2>2, <1>1 DEF IInv, NoGhosts
  <2>3. CASE IndexesOf(ID(n)) # {}
    <3>1. PICK k \in DOMAIN connectionIds : connectionIds[k] = ID(n)
      BY <2>3 DEF IndexesOf
    <3>2. IndexesOf(ID(n)) = {k} /\ n \in info
      BY <2>3, <3>1 DEF IInv, NoGhosts
    <3>3. n \in info' <=> k \notin S
      BY <1>1, <3>1, <3>2 DEF IndexesOf
    <3> QED
      BY <2>1, <3>2, <3>3
  <2> QED
    BY <2>2, <2>3
<1>4. ASSUME NEW k \in DOMAIN connectionIds'
      PROVE  /\ k \in DOMAIN ttl'
             /\ connectionIds'[k] \in {Challenge(k), ID(owner'[k])}
             /\ IndexesOf(connectionIds[k])' = {k}
  <2>1. k \in DOMAIN connectionIds \ S /\ connectionIds'[k] = connectionIds[k]
    BY <1>1
  <2>2. IndexesOf(connectionIds[k]) = {k}
    BY <2>1 DEF IInv, NoGhosts
  <2>3. IndexesOf(connectionIds[k])' = {k}
    BY <1>1, <2>1, <2>2 DEF IndexesOf
  <2> QED
    BY <1>1, <2>1, <2>3 DEF IInv, NoGhosts
<1>5. NoGhosts'
  BY <1>3, <1>4 DEF NoGhosts
<1> QED
  BY <1>1, <1>2, <1>5

LEMMA DisconnectionIInv ==
    ASSUME IInv, NEW i \in Accepted, Disconnection(i)
    PROVE  IInv'
<1>1. /\ Handle([type |-> "Disconnection", of |-> i]) /\ RemoveNodes({i}, ttl)
      /\ UNCHANGED <<owner, link, wire, reading, new, connections, requests>>
      /\ Accepted' = Accepted
  BY DEF Disconnection, Handle, Accepted
<1>2. \A k \in DOMAIN ttl : ttl[k] \in 1..TTL
  BY DEF IInv, TypeOK, Range
<1>3. /\ DOMAIN connectionIds' \subseteq DOMAIN connectionIds
      /\ \A k \in DOMAIN connectionIds' : connectionIds'[k] \in Left
      /\ info' \subseteq Node
      /\ DOMAIN ttl' \subseteq Accepted /\ \A k \in DOMAIN ttl' : ttl'[k] \in 1..TTL
      /\ NoGhosts'
  BY <1>1, <1>2, RemoveNodesKeeps
<1>4. events' \in Seq(WSServerOut) /\ EventsOK'
  BY <1>1, <1>3, Handling
<1>5. TypeOK'
  BY <1>1, <1>3, <1>4 DEF IInv, TypeOK, Range
<1> QED
  BY <1>3, <1>4, <1>5 DEF IInv

LEMMA TimerIInv ==
    ASSUME IInv, Timer
    PROVE  IInv'
<1> DEFINE S == {k \in DOMAIN ttl : ttl[k] = 1}
           t == [k \in DOMAIN ttl |-> ttl[k] - 1]
<1>1. RemoveNodes(S, t) /\ UNCHANGED <<serverVars, requests>>
  BY DEF Timer
<1>2. \A k \in DOMAIN ttl : ttl[k] \in 1..TTL
  BY DEF IInv, TypeOK, Range
<1>3. DOMAIN t = DOMAIN ttl /\ \A k \in DOMAIN ttl \ S : t[k] \in 1..TTL
  BY <1>2, SignalAssumption
<1>4. /\ UNCHANGED <<owner, link, wire, reading, new, connections, events, requests>>
      /\ Accepted' = Accepted
  BY <1>1 DEF serverVars, Accepted
<1> HIDE DEF S, t
<1>5. /\ DOMAIN connectionIds' \subseteq DOMAIN connectionIds
      /\ \A k \in DOMAIN connectionIds' : connectionIds'[k] \in Left
      /\ info' \subseteq Node
      /\ DOMAIN ttl' \subseteq Accepted /\ \A k \in DOMAIN ttl' : ttl'[k] \in 1..TTL
      /\ NoGhosts'
  BY <1>1, <1>3, <1>4, RemoveNodesKeeps
<1>6. TypeOK'
  BY <1>4, <1>5 DEF IInv, TypeOK, Range
<1>7. EventsOK'
  BY <1>4, <1>5 DEF IInv, EventsOK
<1> QED
  BY <1>5, <1>6, <1>7 DEF IInv

----------------------------------------------------------------------------
LEMMA NextIInv == IInv /\ [Next]_vars => IInv'
<1> SUFFICES ASSUME IInv, [Next]_vars PROVE IInv'
  OBVIOUS
<1>1. CASE UNCHANGED vars
  BY <1>1 DEF IInv, EventsOK, TypeOK, NoGhosts, IndexesOf, Accepted, vars, serverVars, signalVars
<1>2. ASSUME NEW n \in Node, AcceptConnection(n), UNCHANGED signalVars PROVE IInv'
  BY <1>2, AcceptConnectionIInv
<1>3. ASSUME NEW n \in Node, NodeLeaves(n), UNCHANGED signalVars PROVE IInv'
  BY <1>3, NodeLeavesIInv
<1>4. CASE HandshakeFails /\ UNCHANGED signalVars
  BY <1>4, HandshakeFailsIInv
<1>5. ASSUME NEW i \in Accepted, NewConnection(i) PROVE IInv'
  BY <1>5, NewConnectionIInv
<1>6. ASSUME NEW i \in Accepted, ListIDs(i) PROVE IInv'
  BY <1>6, ListIDsIInv
<1>7. ASSUME NEW i \in Accepted, Disconnection(i) PROVE IInv'
  BY <1>7, DisconnectionIInv
<1>8. ASSUME NEW i \in Accepted, NEW challenge \in Index, Announce(i, challenge) PROVE IInv'
  BY <1>8, AnnounceIInv
<1>9. ASSUME NEW i \in Accepted, NEW to \in Node, PeerSetup(i, to) PROVE IInv'
  BY <1>9, PeerSetupIInv
<1>10. ASSUME NEW i \in Accepted, NEW msg \in Request, SendRequest(i, msg) PROVE IInv'
  BY <1>10, SendRequestIInv
<1>11. CASE Timer
  BY <1>11, TimerIInv
<1>12. ASSUME NEW i \in Accepted, NewConnectionOut(i), UNCHANGED signalVars PROVE IInv'
  BY <1>12, NewConnectionOutIInv
<1>13. ASSUME NEW i \in Accepted, MessageOut(i), UNCHANGED signalVars PROVE IInv'
  BY <1>13, MessageOutIInv
<1>14. ASSUME NEW i \in Accepted, DisconnectionOut(i), UNCHANGED signalVars PROVE IInv'
  BY <1>14, DisconnectionOutIInv
<1> QED
  BY <1>1, <1>2, <1>3, <1>4, <1>5, <1>6, <1>7, <1>8, <1>9, <1>10, <1>11, <1>12, <1>13, <1>14
     DEF Next

LEMMA Invariant == Spec => []IInv
<1> QED
  BY InitIInv, NextIInv, PTL DEF Spec

(***************************************************************************)
(* signal.rs: the nodes of the list, the bijection of indexes and ids, and *)
(* the times to live belong together, however the connections of a node    *)
(* overlap and whenever their ends are noticed.                            *)
(***************************************************************************)
THEOREM ListStaysConsistent == Spec => []ListConsistent
<1>1. IInv => ListConsistent
  BY DEF IInv, ListConsistent
<1> QED
  BY <1>1, Invariant, PTL

\* A step that takes a node off the list is the end of its connection, or of its time.
LEMMA LeavingStep ==
    ASSUME IInv, [Next]_vars, NEW n \in info, n \notin info'
    PROVE  \E i \in IndexesOf(ID(n)) : link[i] = "gone" \/ ttl[i] = 1
<1>1. ASSUME NEW S, NEW t, RemoveNodes(S, t)
      PROVE  \E i \in S : i \in IndexesOf(ID(n))
  BY <1>1 DEF RemoveNodes, IndexesOf
<1>2. CASE \E i \in Accepted : Disconnection(i)
  <2>1. PICK i \in Accepted : Disconnection(i)
    BY <1>2
  <2>2. Handle([type |-> "Disconnection", of |-> i]) /\ RemoveNodes({i}, ttl)
    BY <2>1 DEF Disconnection
  <2>3. link[i] = "gone"
    <3>1. DOMAIN connectionIds' \subseteq DOMAIN connectionIds
      BY <2>2, Restricting DEF RemoveNodes
    <3> QED
      BY <2>2, <3>1, Handling
  <2>4. i \in IndexesOf(ID(n))
    BY <2>2, <1>1
  <2> QED
    BY <2>3, <2>4
<1>3. CASE Timer
  <2>1. RemoveNodes({k \in DOMAIN ttl : ttl[k] = 1}, [k \in DOMAIN ttl |-> ttl[k] - 1])
    BY <1>3 DEF Timer
  <2>2. PICK i \in {k \in DOMAIN ttl : ttl[k] = 1} : i \in IndexesOf(ID(n))
    BY <2>1, <1>1
  <2> QED
    BY <2>2
<1>4. CASE UNCHANGED info
  BY <1>4
<1>5. ASSUME NEW i \in Accepted, NEW challenge \in Index, Announce(i, challenge) PROVE FALSE
  BY <1>5 DEF Announce
<1> QED
  BY <1>2, <1>3, <1>4, <1>5
     DEF Next, NewConnection, ListIDs, PeerSetup, SendRequest, vars, serverVars, signalVars

(***************************************************************************)
(* signal.rs:171, 177: a node leaves the list only with the connection it  *)
(* is listed with, when that is gone or was idle for too long.             *)
(***************************************************************************)
THEOREM NodesLeaveForAReason == Spec => LeavesForAReason
<1>1. IInv /\ [Next]_vars =>
        [\A n \in info : n \notin info' =>
            \E i \in IndexesOf(ID(n)) : link[i] = "gone" \/ ttl[i] = 1]_vars
  BY LeavingStep
<1> QED
  BY <1>1, Invariant, PTL DEF Spec, LeavesForAReason
=============================================================================
