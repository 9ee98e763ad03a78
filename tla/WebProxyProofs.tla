--------------------------- MODULE WebProxyProofs ---------------------------
(***************************************************************************)
(* Proof that the text of a response is complete, for any requests, nodes, *)
(* chunks and capacity of a channel, and however the tasks interleave.     *)
(*                                                                         *)
(* Every chunk that arrived is in exactly one place (Accounted): with a    *)
(* task, in the channel, or in the text, unless a timeout dropped the      *)
(* channel.  Tasks are a set, so this needs that no chunk arrives twice: a *)
(* request is asked once, and its answer numbers the chunks upwards.       *)
(***************************************************************************)
EXTENDS WebProxy, FiniteSetTheorems, TLAPS

\* The chunks of an answer w come in their order.
Ordered(w) ==
    \A i, j \in DOMAIN w :
        i < j /\ w[i].type = "Body" /\ w[j].type = "Body" => w[i].chunk < w[j].chunk

\* Those of w come after those of a, which arrived.
After(w, a) ==
    \A i \in DOMAIN w, k \in DOMAIN a : w[i].type = "Body" => a[k] < w[i].chunk

\* The answer to r did not begin.
Unanswered(r) == caller[r] = "new" \/ r \in emitted \/ r \in asked

Accounted(r) ==
    /\ Range(text[r]) \cup Range(channel[r]) \cup tasks[r] = Range(arrived[r])
    /\ Len(text[r]) + Len(channel[r]) + Cardinality(tasks[r]) = Len(arrived[r])

Answer(r) ==
    /\ caller[r] = "new" => r \notin emitted \cup asked
    /\ r \in emitted => r \notin asked
    /\ Unanswered(r) =>
        /\ wire[r] = <<>> /\ arrived[r] = <<>> /\ tasks[r] = {}
        /\ channel[r] = <<>> /\ text[r] = <<>>
    /\ Ordered(wire[r]) /\ After(wire[r], arrived[r])
    /\ caller[r] = "done" =>
        r \notin emitted /\ r \notin DOMAIN requests /\ tasks[r] = {} /\ channel[r] = <<>>
    /\ caller[r] # "timeout" => Accounted(r)

IInv == TypeOK /\ \A r \in Request : Answer(r)

----------------------------------------------------------------------------
(***************************************************************************)
(* Lemmas about sequences.                                                 *)
(***************************************************************************)
LEMMA AppendRange ==
    ASSUME NEW S, NEW s \in Seq(S), NEW e \in S
    PROVE  /\ Append(s, e) \in Seq(S) /\ Len(Append(s, e)) = Len(s) + 1
           /\ Range(Append(s, e)) = Range(s) \cup {e}
<1> DEFINE t == Append(s, e)
<1>1. /\ t \in Seq(S) /\ Len(t) = Len(s) + 1 /\ Len(s) \in Nat
      /\ DOMAIN s = 1..Len(s) /\ DOMAIN t = 1..(Len(s) + 1)
      /\ \A i \in 1..Len(s) : t[i] = s[i]
      /\ t[Len(s) + 1] = e
  OBVIOUS
<1> HIDE DEF t
<1>2. Range(t) = Range(s) \cup {e}
  BY <1>1 DEF Range
<1> QED
  BY <1>1, <1>2 DEF t

LEMMA TailRange ==
    ASSUME NEW S, NEW s \in Seq(S), s # <<>>
    PROVE  /\ Head(s) \in S /\ Tail(s) \in Seq(S) /\ Len(Tail(s)) = Len(s) - 1
           /\ Range(s) = {Head(s)} \cup Range(Tail(s))
<1> DEFINE t == Tail(s)
<1>1. /\ t \in Seq(S) /\ Len(t) = Len(s) - 1 /\ Len(s) \in Nat \ {0}
      /\ DOMAIN s = 1..Len(s) /\ DOMAIN t = 1..(Len(s) - 1)
      /\ \A i \in 1..(Len(s) - 1) : t[i] = s[i + 1]
      /\ Head(s) = s[1] /\ Head(s) \in S
  OBVIOUS
<1> HIDE DEF t
<1>2. ASSUME NEW x \in Range(s) PROVE x = s[1] \/ x \in Range(t)
  <2>1. PICK i \in 1..Len(s) : x = s[i]
    BY <1>1 DEF Range
  <2>2. CASE i = 1
    BY <2>1, <2>2
  <2>3. CASE i # 1
    <3>1. i - 1 \in 1..(Len(s) - 1) /\ t[i - 1] = s[i]
      BY <1>1, <2>3
    <3> QED
      BY <1>1, <2>1, <3>1 DEF Range
  <2> QED
    BY <2>2, <2>3
<1>3. ASSUME NEW x, x = s[1] \/ x \in Range(t) PROVE x \in Range(s)
  BY <1>1, <1>3 DEF Range
<1> QED
  BY <1>1, <1>2, <1>3 DEF t

\* What is left of an answer when its first message arrives.
LEMMA TailOrdered ==
    ASSUME NEW w \in Seq(ResponseMessage), w # <<>>, Ordered(w), NEW a \in Seq(Body), After(w, a)
    PROVE  /\ Tail(w) \in Seq(ResponseMessage) /\ Ordered(Tail(w)) /\ After(Tail(w), a)
           /\ Head(w).type = "Body" =>
                /\ Head(w).chunk \in Body /\ Head(w).chunk \notin Range(a)
                /\ After(Tail(w), Append(a, Head(w).chunk))
<1> DEFINE t == Tail(w)
           c == Head(w).chunk
<1>1. /\ t \in Seq(ResponseMessage) /\ Len(w) \in Nat \ {0}
      /\ DOMAIN w = 1..Len(w) /\ DOMAIN t = 1..(Len(w) - 1)
      /\ \A i \in 1..(Len(w) - 1) : t[i] = w[i + 1]
      /\ Head(w) = w[1] /\ Head(w) \in ResponseMessage
  OBVIOUS
<1> HIDE DEF t
<1>2. Ordered(t)
  <2> SUFFICES ASSUME NEW i \in DOMAIN t, NEW j \in DOMAIN t, i < j,
                      t[i].type = "Body", t[j].type = "Body"
               PROVE  t[i].chunk < t[j].chunk
    BY DEF Ordered
  <2>1. i + 1 \in DOMAIN w /\ j + 1 \in DOMAIN w /\ i + 1 < j + 1
    BY <1>1
  <2>2. t[i] = w[i + 1] /\ t[j] = w[j + 1]
    BY <1>1
  <2>3. w[i + 1].type = "Body" /\ w[j + 1].type = "Body"
    BY <2>2
  <2> QED
    BY <2>1, <2>2, <2>3, Zenon DEF Ordered
<1>3. After(t, a)
  BY <1>1 DEF After
<1>4. ASSUME Head(w).type = "Body"
      PROVE  c \in Body /\ c \notin Range(a) /\ After(t, Append(a, c))
  <2>1. c \in Body
    BY <1>1, <1>4 DEF ResponseMessage
  <2>2. \A k \in DOMAIN a : a[k] < c
    BY <1>1, <1>4 DEF After
  <2>3. c \in Int
    BY <2>1 DEF Body
  <2> HIDE DEF c
  <2>4. c \notin Range(a)
    BY <2>2, <2>3 DEF Range
  <2>5. \A i \in DOMAIN t : t[i].type = "Body" => c < t[i].chunk
    <3> SUFFICES ASSUME NEW i \in DOMAIN t, t[i].type = "Body" PROVE c < t[i].chunk
      OBVIOUS
    <3>1. 1 \in DOMAIN w /\ i + 1 \in DOMAIN w /\ 1 < i + 1
      BY <1>1
    <3>2. t[i] = w[i + 1] /\ c = w[1].chunk /\ w[1].type = "Body"
      BY <1>1, <1>4 DEF c
    <3>3. w[i + 1].type = "Body"
      BY <3>2
    <3>4. w[1].chunk < w[i + 1].chunk
      BY <3>1, <3>2, <3>3, Zenon DEF Ordered
    <3> QED
      BY <3>2, <3>4
  <2>6. \A k \in DOMAIN Append(a, c) : (k \in DOMAIN a /\ Append(a, c)[k] = a[k])
                                          \/ Append(a, c)[k] = c
    BY <2>1
  <2>7. After(t, Append(a, c))
    BY <1>3, <2>5, <2>6 DEF After
  <2> QED
    BY <2>1, <2>4, <2>7
<1> QED
  BY <1>1, <1>2, <1>3, <1>4 DEF t

LEMMA ConcatIndex ==
    ASSUME NEW S, NEW s \in Seq(S), NEW t \in Seq(S)
    PROVE  /\ s \o t \in Seq(S) /\ Len(s) \in Nat /\ Len(t) \in Nat
           /\ DOMAIN (s \o t) = 1..(Len(s) + Len(t))
           /\ \A i \in 1..Len(s) : (s \o t)[i] = s[i]
           /\ \A i \in 1..Len(t) : (s \o t)[Len(s) + i] = t[i]
OBVIOUS

\* In what a proxy answers, the message i is the chunk i - 1, if it is one.
LEMMA AnswersOrdered ==
    ASSUME NEW w \in Answers
    PROVE  w \in Seq(ResponseMessage) /\ Ordered(w)
<1> DEFINE Bodies(n) == [i \in 1..n |-> BodyMessage(i)]
           Begin(n) == <<Header>> \o Bodies(n)
<1>1. ASSUME NEW n \in 0..Chunks
      PROVE  /\ Begin(n) \in Seq(ResponseMessage) /\ Len(Begin(n)) = n + 1
             /\ \A i \in 1..(n + 1) : Begin(n)[i].type = "Body" => Begin(n)[i].chunk = i - 1
  <2>1. n \in Nat
    BY WebProxyAssumption
  <2>2. \A i \in 1..n : BodyMessage(i) \in ResponseMessage
    BY <2>1, WebProxyAssumption DEF BodyMessage, ResponseMessage, Body
  <2>3. Bodies(n) \in Seq(ResponseMessage) /\ Len(Bodies(n)) = n
    BY <2>1, <2>2
  <2>4. <<Header>> \in Seq(ResponseMessage) /\ Len(<<Header>>) = 1
    BY DEF Header, ResponseMessage
  <2>5. \A i \in 1..n : Bodies(n)[i] = BodyMessage(i)
    OBVIOUS
  <2> HIDE DEF Bodies
  <2>6. Begin(n) \in Seq(ResponseMessage) /\ Len(Begin(n)) = n + 1
    BY <2>1, <2>3, <2>4
  <2>7. ASSUME NEW i \in 1..(n + 1), Begin(n)[i].type = "Body"
        PROVE  Begin(n)[i].chunk = i - 1
    <3>1. CASE i = 1
      <4>1. Begin(n)[1] = Header
        BY <2>1, <2>3, <2>4
      <4> QED
        BY <2>7, <3>1, <4>1 DEF Header
    <3>2. CASE i # 1
      <4>1. i - 1 \in 1..n /\ Begin(n)[i] = Bodies(n)[i - 1]
        BY <2>1, <2>3, <2>4, <3>2
      <4>2. Begin(n)[i] = BodyMessage(i - 1)
        BY <2>5, <4>1
      <4>3. BodyMessage(i - 1).chunk = i - 1
        BY DEF BodyMessage
      <4> QED
        BY <4>2, <4>3
    <3> QED
      BY <3>1, <3>2
  <2> QED
    BY <2>6, <2>7
<1> HIDE DEF Begin
<1>2. ASSUME NEW v \in Seq(ResponseMessage),
             \A i \in DOMAIN v : v[i].type = "Body" => v[i].chunk = i - 1
      PROVE  Ordered(v)
  BY <1>2 DEF Ordered
<1>3. CASE \E n \in 0..(Chunks - 1) : w = Begin(n)
  <2>1. PICK n \in 0..Chunks : w = Begin(n)
    BY <1>3, WebProxyAssumption
  <2>2. DOMAIN w = 1..(n + 1) /\ w \in Seq(ResponseMessage)
    BY <1>1, <2>1
  <2> QED
    BY <1>1, <1>2, <2>1, <2>2
<1>4. CASE w = <<Error>>
  <2>1. w \in Seq(ResponseMessage) /\ \A i \in DOMAIN w : w[i].type = "Error"
    BY <1>4 DEF Error, ResponseMessage
  <2> QED
    BY <1>2, <2>1
<1>5. CASE w = Begin(Chunks) \o <<Done, Done>>
  <2> DEFINE b == Begin(Chunks)
             e == <<Done, Done>>
  <2>1. /\ Chunks \in Nat /\ b \in Seq(ResponseMessage) /\ Len(b) = Chunks + 1
        /\ \A i \in 1..(Chunks + 1) : b[i].type = "Body" => b[i].chunk = i - 1
    BY <1>1, WebProxyAssumption
  <2>2. e \in Seq(ResponseMessage) /\ Len(e) = 2 /\ e[1] = Done /\ e[2] = Done
    BY DEF Done, ResponseMessage
  <2> HIDE DEF b, e
  <2>3. w = b \o e
    BY <1>5 DEF b, e
  <2>7. /\ b \o e \in Seq(ResponseMessage) /\ DOMAIN (b \o e) = 1..(Len(b) + Len(e))
        /\ \A i \in 1..Len(b) : (b \o e)[i] = b[i]
        /\ \A i \in 1..Len(e) : (b \o e)[Len(b) + i] = e[i]
    <3>1. b \in Seq(ResponseMessage) /\ e \in Seq(ResponseMessage)
      BY <2>1, <2>2
    <3> QED
      BY ONLY <3>1, ConcatIndex
  <2>4. w \in Seq(ResponseMessage) /\ DOMAIN w = 1..(Chunks + 3)
    <3>1. Len(b) + Len(e) = Chunks + 3
      BY <2>1, <2>2
    <3> QED
      BY <2>3, <2>7, <3>1, Zenon
  <2>5. \A i \in 1..(Chunks + 1) : w[i] = b[i]
    BY <2>1, <2>3, <2>7
  <2>6. w[Chunks + 2] = Done /\ w[Chunks + 3] = Done
    <3>1. (b \o e)[Chunks + 1 + 1] = e[1] /\ (b \o e)[Chunks + 1 + 2] = e[2]
      BY <2>1, <2>2, <2>7
    <3>2. Chunks + 1 + 1 = Chunks + 2 /\ Chunks + 1 + 2 = Chunks + 3
      BY <2>1
    <3> QED
      BY <2>2, <2>3, <3>1, <3>2
  <2>8. ASSUME NEW i \in DOMAIN w, w[i].type = "Body" PROVE w[i].chunk = i - 1
    <3>1. i \in 1..(Chunks + 1) \/ i = Chunks + 2 \/ i = Chunks + 3
      BY <2>1, <2>4
    <3> QED
      BY <2>1, <2>5, <2>6, <2>8, <3>1 DEF Done
  <2> QED
    BY <1>2, <2>4, <2>8
<1> QED
  BY <1>3, <1>4, <1>5 DEF Answers, Begin

----------------------------------------------------------------------------
(***************************************************************************)
(* The steps.                                                              *)
(***************************************************************************)
\* What a step does not touch of a request.
Same(q) ==
    /\ caller'[q] = caller[q] /\ wire'[q] = wire[q] /\ tasks'[q] = tasks[q]
    /\ channel'[q] = channel[q] /\ text'[q] = text[q] /\ arrived'[q] = arrived[q]
    /\ q \in emitted' <=> q \in emitted
    /\ q \in asked' <=> q \in asked
    /\ q \in DOMAIN requests' => q \in DOMAIN requests

LEMMA SameAnswer ==
    ASSUME NEW q \in Request, Answer(q), Same(q)
    PROVE  Answer(q)'
BY DEF Answer, Same, Unanswered, Accounted

LEMMA Types ==
    ASSUME IInv, NEW r \in Request
    PROVE  /\ caller[r] \in Caller /\ wire[r] \in Seq(ResponseMessage)
           /\ tasks[r] \in SUBSET Body /\ IsFiniteSet(tasks[r])
           /\ Cardinality(tasks[r]) \in Nat
           /\ channel[r] \in Seq(Body) /\ Len(channel[r]) \in 0..Capacity
           /\ text[r] \in Seq(Body) /\ arrived[r] \in Seq(Body)
           /\ Answer(r)
<1>1. TypeOK /\ Answer(r)
  BY DEF IInv
<1>2. tasks[r] \in SUBSET Body /\ IsFiniteSet(Body)
  BY <1>1, FS_Interval, WebProxyAssumption DEF TypeOK, Body
<1>3. IsFiniteSet(tasks[r]) /\ Cardinality(tasks[r]) \in Nat
  BY <1>2, FS_Subset, FS_CardinalityType
<1> QED
  BY <1>1, <1>2, <1>3, WebProxyAssumption DEF TypeOK

\* The list of nodes is as long as there are nodes at most.
LEMMA NodeListTypes ==
    ASSUME NEW list \in NodeLists
    PROVE  list \in Seq(Node) /\ Len(list) \in 0..Cardinality(Node)
<1>1. PICK S \in SUBSET Node : list \in SetToSeqs(S)
  BY DEF NodeLists
<1>2. IsFiniteSet(S) /\ Cardinality(S) \in Nat /\ Cardinality(Node) \in Nat
      /\ Cardinality(S) <= Cardinality(Node)
  BY WebProxyAssumption, FS_Subset, FS_CardinalityType
<1>3. list \in [1..Cardinality(S) -> S]
  BY <1>1 DEF SetToSeqs
<1>4. list \in Seq(S) /\ Len(list) = Cardinality(S)
  BY <1>2, <1>3
<1>5. list \in Seq(Node)
  BY <1>2, <1>3
<1> QED
  BY <1>2, <1>4, <1>5

LEMMA InitIInv == Init => IInv
<1> SUFFICES ASSUME Init PROVE IInv
  OBVIOUS
<1>1. TypeOK
  <2>1. Cardinality(Node) \in Nat
    BY WebProxyAssumption, FS_CardinalityType
  <2> QED
    BY <2>1, WebProxyAssumption DEF Init, TypeOK, Caller, Range
<1>2. ASSUME NEW r \in Request PROVE Answer(r)
  <2>1. /\ caller[r] = "new" /\ emitted = {} /\ asked = {} /\ wire[r] = <<>> /\ tasks[r] = {}
        /\ channel[r] = <<>> /\ text[r] = <<>> /\ arrived[r] = <<>>
    BY DEF Init
  <2>2. Ordered(<<>>) /\ After(<<>>, <<>>)
    BY DEF Ordered, After
  <2>3. Accounted(r)
    BY <2>1, FS_EmptySet DEF Accounted, Range
  <2> QED
    BY <2>1, <2>2, <2>3 DEF Answer
<1> QED
  BY <1>1, <1>2 DEF IInv

LEMMA GetStep ==
    ASSUME IInv, NEW r \in Request, Get(r) PROVE IInv'
<1>1. TypeOK'
  BY DEF IInv, TypeOK, Get, Caller
<1>2. ASSUME NEW q \in Request, q # r PROVE Same(q)
  BY <1>2 DEF IInv, TypeOK, Get, Same
<1>3. Answer(r)'
  BY DEF IInv, TypeOK, Get, Answer, Unanswered, Accounted
<1> QED
  BY <1>1, <1>2, <1>3, SameAnswer DEF IInv

LEMMA TapOutStep ==
    ASSUME IInv, NEW r \in Request, TapOut(r) PROVE IInv'
<1>1. TypeOK'
  BY DEF IInv, TypeOK, TapOut, Caller
<1>2. ASSUME NEW q \in Request, q # r PROVE Same(q)
  BY <1>2 DEF IInv, TypeOK, TapOut, Same
<1>3. Answer(r)'
  BY DEF IInv, TypeOK, TapOut, Answer, Unanswered, Accounted
<1> QED
  BY <1>1, <1>2, <1>3, SameAnswer DEF IInv

\* The channel is dropped, and nobody counts what was in it.
LEMMA TimeoutStep ==
    ASSUME IInv, NEW r \in Request, Timeout(r) PROVE IInv'
<1>1. TypeOK'
  BY WebProxyAssumption DEF IInv, TypeOK, Timeout, Caller
<1>2. ASSUME NEW q \in Request, q # r PROVE Same(q)
  BY <1>2 DEF IInv, TypeOK, Timeout, Same
<1>3. Answer(r)'
  BY DEF IInv, TypeOK, Timeout, Answer, Unanswered, Accounted
<1> QED
  BY <1>1, <1>2, <1>3, SameAnswer DEF IInv

LEMMA NodeListStep ==
    ASSUME IInv, NEW list \in NodeLists, NodeList(list) PROVE IInv'
<1>1. TypeOK'
  BY WebProxyAssumption DEF IInv, TypeOK, NodeList
<1>2. ASSUME NEW q \in Request PROVE Same(q)
  BY DEF NodeList, Same
<1> QED
  BY <1>1, <1>2, SameAnswer DEF IInv

LEMMA HandleRequestGetStep ==
    ASSUME IInv, NEW r \in Request, HandleRequestGet(r) PROVE IInv'
<1>1. /\ nodeIndex' \in 0..Cardinality(Node)
      /\ DOMAIN requests' \subseteq DOMAIN requests \cup {r} /\ Range(requests') \subseteq Node
      /\ asked' \subseteq asked \cup {r}
  <2>1. /\ nodes \in Seq(Node) /\ Len(nodes) \in 0..Cardinality(Node)
        /\ nodeIndex \in Nat /\ Cardinality(Node) \in Nat
        /\ Range(requests) \subseteq Node
    BY NodeListTypes, WebProxyAssumption, FS_CardinalityType DEF IInv, TypeOK
  <2>2. CASE nodes = <<>>
    BY <2>2 DEF HandleRequestGet, IInv, TypeOK
  <2>3. CASE nodes # <<>>
    <3> DEFINE i == nodeIndex % Len(nodes)
    <3>1. Len(nodes) \in Nat \ {0} /\ i \in 0..(Len(nodes) - 1)
      BY <2>1, <2>3
    <3>2. nodes[i + 1] \in Node /\ i + 1 \in 0..Cardinality(Node)
      BY <2>1, <3>1
    <3>3. /\ requests' = [q \in DOMAIN requests \cup {r} |->
                               IF q = r THEN nodes[i + 1] ELSE requests[q]]
          /\ nodeIndex' = i + 1 /\ asked' = asked \cup {r}
      BY <2>3 DEF HandleRequestGet
    <3> HIDE DEF i
    <3> QED
      BY <2>1, <3>2, <3>3 DEF Range
  <2> QED
    BY <2>2, <2>3
<1>2. TypeOK'
  BY <1>1 DEF IInv, TypeOK, HandleRequestGet
<1>3. ASSUME NEW q \in Request, q # r PROVE Same(q)
  BY <1>1, <1>3 DEF HandleRequestGet, Same
<1>4. Answer(r)'
  <2>1. /\ Answer(r) /\ r \in emitted /\ r \notin emitted'
        /\ UNCHANGED <<caller, wire, tasks, channel, text, arrived>>
    BY DEF IInv, HandleRequestGet
  <2> QED
    BY <2>1 DEF Answer, Unanswered, Accounted
<1> QED
  BY <1>2, <1>3, <1>4, SameAnswer DEF IInv

----------------------------------------------------------------------------
\* When a message arrives, the rest of the answer is still in its order.
LEMMA ArrivesStep ==
    ASSUME IInv, NEW r \in Request, NEW msg, Arrives(r, msg)
    PROVE  /\ msg \in ResponseMessage /\ ~Unanswered(r)
           /\ wire' \in [Request -> Seq(ResponseMessage)]
           /\ \A q \in Request : q # r => wire'[q] = wire[q]
           /\ Ordered(wire'[r]) /\ After(wire'[r], arrived[r])
           /\ msg.type = "Body" =>
                /\ msg.chunk \in Body /\ msg.chunk \notin Range(arrived[r])
                /\ After(wire'[r], Append(arrived[r], msg.chunk))
<1>1. /\ wire[r] \in Seq(ResponseMessage) /\ arrived[r] \in Seq(Body) /\ Answer(r)
  BY Types
<1>2. /\ wire[r] # <<>> /\ Head(wire[r]) = msg
      /\ wire' = [wire EXCEPT ![r] = Tail(@)] /\ wire \in [Request -> Seq(ResponseMessage)]
  BY DEF Arrives, IInv, TypeOK
<1>3. wire'[r] = Tail(wire[r]) /\ \A q \in Request : q # r => wire'[q] = wire[q]
  BY <1>2
<1>4. Ordered(wire[r]) /\ After(wire[r], arrived[r]) /\ ~Unanswered(r)
  BY <1>1, <1>2 DEF Answer
<1>5. Head(wire[r]) \in ResponseMessage
  BY <1>1, <1>2
<1> DEFINE w == wire[r]
           a == arrived[r]
<1> HIDE DEF w, a
<1>6. /\ w \in Seq(ResponseMessage) /\ w # <<>> /\ Ordered(w)
      /\ a \in Seq(Body) /\ After(w, a)
  BY <1>1, <1>2, <1>4 DEF w, a
<1>7. /\ Tail(w) \in Seq(ResponseMessage) /\ Ordered(Tail(w)) /\ After(Tail(w), a)
      /\ Head(w).type = "Body" =>
           /\ Head(w).chunk \in Body /\ Head(w).chunk \notin Range(a)
           /\ After(Tail(w), Append(a, Head(w).chunk))
  BY ONLY <1>6, TailOrdered
<1>8. wire' \in [Request -> Seq(ResponseMessage)]
  BY <1>2, <1>7 DEF w
<1> QED
  BY <1>2, <1>3, <1>4, <1>5, <1>7, <1>8 DEF w, a

LEMMA HandleHeaderStep ==
    ASSUME IInv, NEW r \in Request, HandleHeader(r) PROVE IInv'
<1>1. /\ ~Unanswered(r) /\ wire' \in [Request -> Seq(ResponseMessage)]
      /\ \A q \in Request : q # r => wire'[q] = wire[q]
      /\ Ordered(wire'[r]) /\ After(wire'[r], arrived[r])
  BY ArrivesStep DEF HandleHeader
<1>2. /\ caller' \in [Request -> Caller] /\ \A q \in Request : q # r => caller'[q] = caller[q]
      /\ caller'[r] = caller[r] \/ (caller'[r] = "answered" /\ caller[r] = "waiting")
  <2>1. caller \in [Request -> Caller] /\ "answered" \in Caller
    BY DEF IInv, TypeOK, Caller
  <2>2. \/ caller' = caller
        \/ caller[r] = "waiting" /\ caller' = [caller EXCEPT ![r] = "answered"]
    BY DEF HandleHeader
  <2> QED
    BY <2>1, <2>2
<1>3. UNCHANGED <<nodes, nodeIndex, emitted, asked, channel, text, lists, faults, requests, tasks,
                  arrived>>
  BY DEF HandleHeader, Arrives
<1>4. TypeOK'
  BY <1>1, <1>2, <1>3 DEF IInv, TypeOK
<1>5. ASSUME NEW q \in Request, q # r PROVE Same(q)
  BY <1>1, <1>2, <1>3, <1>5 DEF Same
<1>6. Answer(r)'
  BY <1>1, <1>2, <1>3 DEF IInv, Answer, Unanswered, Accounted
<1> QED
  BY <1>4, <1>5, <1>6, SameAnswer DEF IInv

\* No chunk comes twice: the new one is not with a task yet.
LEMMA HandleBodyStep ==
    ASSUME IInv, NEW r \in Request, NEW chunk \in Body, HandleBody(r, chunk) PROVE IInv'
<1> DEFINE msg == BodyMessage(chunk)
<1>1. /\ ~Unanswered(r) /\ wire' \in [Request -> Seq(ResponseMessage)]
      /\ \A q \in Request : q # r => wire'[q] = wire[q]
      /\ Ordered(wire'[r]) /\ After(wire'[r], arrived[r])
      /\ chunk \notin Range(arrived[r]) /\ After(wire'[r], Append(arrived[r], chunk))
  <2>1. msg.type = "Body" /\ msg.chunk = chunk
    BY DEF BodyMessage
  <2>2. Arrives(r, msg)
    BY DEF HandleBody
  <2> HIDE DEF msg
  <2> QED
    BY <2>1, <2>2, ArrivesStep
<1>2. UNCHANGED <<nodes, nodeIndex, emitted, asked, channel, text, lists, faults, requests, caller>>
  BY DEF HandleBody, Arrives
<1>3. /\ tasks' \in [Request -> SUBSET Body] /\ arrived' \in [Request -> Seq(Body)]
      /\ \A q \in Request : q # r => tasks'[q] = tasks[q] /\ arrived'[q] = arrived[q]
      /\ \/ /\ r \in DOMAIN requests
            /\ tasks'[r] = tasks[r] \cup {chunk} /\ arrived'[r] = Append(arrived[r], chunk)
         \/ tasks'[r] = tasks[r] /\ arrived'[r] = arrived[r]
  <2>1. tasks \in [Request -> SUBSET Body] /\ arrived \in [Request -> Seq(Body)]
    BY DEF IInv, TypeOK
  <2>2. CASE r \in DOMAIN requests
    <3>1. /\ tasks' = [tasks EXCEPT ![r] = @ \cup {chunk}]
          /\ arrived' = [arrived EXCEPT ![r] = Append(@, chunk)]
      BY <2>2 DEF HandleBody
    <3>2. tasks[r] \cup {chunk} \in SUBSET Body /\ Append(arrived[r], chunk) \in Seq(Body)
      BY <2>1
    <3> QED
      BY <2>1, <2>2, <3>1, <3>2
  <2>3. CASE r \notin DOMAIN requests
    BY <2>1, <2>3 DEF HandleBody
  <2> QED
    BY <2>2, <2>3
<1>4. TypeOK'
  BY <1>1, <1>2, <1>3 DEF IInv, TypeOK
<1>5. ASSUME NEW q \in Request, q # r PROVE Same(q)
  BY <1>1, <1>2, <1>3, <1>5 DEF Same
<1>6. CASE tasks'[r] = tasks[r] /\ arrived'[r] = arrived[r]
  <2>1. Answer(r)'
    BY <1>1, <1>2, <1>6 DEF IInv, Answer, Unanswered, Accounted
  <2> QED
    BY <1>4, <1>5, <2>1, SameAnswer DEF IInv
<1>7. CASE /\ r \in DOMAIN requests
           /\ tasks'[r] = tasks[r] \cup {chunk} /\ arrived'[r] = Append(arrived[r], chunk)
  <2>1. /\ IsFiniteSet(tasks[r]) /\ Cardinality(tasks[r]) \in Nat /\ Answer(r)
        /\ arrived[r] \in Seq(Body) /\ Len(arrived[r]) \in Nat
        /\ Len(channel[r]) \in Nat /\ Len(text[r]) \in Nat
    BY Types
  <2>2. /\ Len(arrived'[r]) = Len(arrived[r]) + 1
        /\ Range(arrived'[r]) = Range(arrived[r]) \cup {chunk}
    BY <1>7, <2>1, AppendRange
  <2>3. ASSUME caller[r] # "timeout" PROVE Accounted(r)'
    <3>1. Accounted(r)
      BY <2>1, <2>3 DEF Answer
    <3>2. chunk \notin tasks[r]
      BY <1>1, <3>1 DEF Accounted
    <3>3. Cardinality(tasks'[r]) = Cardinality(tasks[r]) + 1
      BY <1>7, <2>1, <3>2, FS_AddElement
    <3>4. Range(text[r]) \cup Range(channel[r]) \cup tasks'[r] = Range(arrived'[r])
      BY <1>7, <2>2, <3>1 DEF Accounted
    <3>5. Len(text[r]) + Len(channel[r]) + Cardinality(tasks'[r]) = Len(arrived'[r])
      <4>1. Len(text[r]) + Len(channel[r]) + Cardinality(tasks[r]) = Len(arrived[r])
        BY <3>1 DEF Accounted
      <4> DEFINE t == Len(text[r])
                 c == Len(channel[r])
                 a == Len(arrived[r])
                 k == Cardinality(tasks[r])
      <4>2. t \in Nat /\ c \in Nat /\ a \in Nat /\ k \in Nat /\ t + c + k = a
        BY <2>1, <4>1
      <4> HIDE DEF t, c, a, k
      <4>3. t + c + (k + 1) = a + 1
        BY <4>2
      <4> QED
        BY <2>2, <3>3, <4>3, Zenon DEF t, c, a, k
    <3> QED
      BY <1>2, <3>4, <3>5 DEF Accounted
  <2>4. Answer(r)'
    BY <1>1, <1>2, <1>7, <2>1, <2>3 DEF Answer, Unanswered
  <2> QED
    BY <1>4, <1>5, <2>4, SameAnswer DEF IInv
<1> QED
  BY <1>3, <1>6, <1>7

LEMMA HandleDoneStep ==
    ASSUME IInv, NEW r \in Request, HandleDone(r) PROVE IInv'
<1>1. /\ ~Unanswered(r) /\ wire' \in [Request -> Seq(ResponseMessage)]
      /\ \A q \in Request : q # r => wire'[q] = wire[q]
      /\ Ordered(wire'[r]) /\ After(wire'[r], arrived[r])
  BY ArrivesStep DEF HandleDone
<1>2. DOMAIN requests' \subseteq DOMAIN requests /\ Range(requests') \subseteq Range(requests)
  BY DEF HandleDone, Restrict, Range
<1>3. UNCHANGED <<nodes, nodeIndex, emitted, asked, channel, text, lists, faults, caller, tasks,
                  arrived>>
  BY DEF HandleDone, Arrives
<1>4. TypeOK'
  BY <1>1, <1>2, <1>3 DEF IInv, TypeOK
<1>5. ASSUME NEW q \in Request, q # r PROVE Same(q)
  BY <1>1, <1>2, <1>3, <1>5 DEF Same
<1>6. Answer(r)'
  BY <1>1, <1>2, <1>3 DEF IInv, Answer, Unanswered, Accounted
<1> QED
  BY <1>4, <1>5, <1>6, SameAnswer DEF IInv

LEMMA HandleErrorStep ==
    ASSUME IInv, NEW r \in Request, HandleError(r) PROVE IInv'
<1>1. /\ ~Unanswered(r) /\ wire' \in [Request -> Seq(ResponseMessage)]
      /\ \A q \in Request : q # r => wire'[q] = wire[q]
      /\ Ordered(wire'[r]) /\ After(wire'[r], arrived[r])
  BY ArrivesStep DEF HandleError
<1>2. UNCHANGED <<nodes, nodeIndex, emitted, asked, channel, text, lists, faults, requests, caller,
                  tasks, arrived>>
  BY DEF HandleError, Arrives
<1>3. TypeOK'
  BY <1>1, <1>2 DEF IInv, TypeOK
<1>4. ASSUME NEW q \in Request, q # r PROVE Same(q)
  BY <1>1, <1>2, <1>4 DEF Same
<1>5. Answer(r)'
  BY <1>1, <1>2 DEF IInv, Answer, Unanswered, Accounted
<1> QED
  BY <1>3, <1>4, <1>5, SameAnswer DEF IInv

----------------------------------------------------------------------------
\* The chunk of a task goes to the channel, unless nobody is left to receive it.
LEMMA SendBodyStep ==
    ASSUME IInv, NEW r \in Request, NEW chunk \in Body, SendBody(r, chunk) PROVE IInv'
<1>1. /\ caller[r] \in Caller /\ IsFiniteSet(tasks[r]) /\ Cardinality(tasks[r]) \in Nat
      /\ channel[r] \in Seq(Body) /\ Len(channel[r]) \in 0..Capacity
      /\ Len(channel[r]) \in Nat /\ text[r] \in Seq(Body) /\ Len(text[r]) \in Nat
      /\ Answer(r)
  BY Types
<1>2. UNCHANGED <<nodes, nodeIndex, requests, caller, emitted, asked, wire, text, arrived, lists,
                  faults>>
  BY DEF SendBody
<1>3. chunk \in tasks[r] /\ (Receives(r) => Len(channel[r]) < Capacity)
  BY DEF SendBody
<1>4. /\ tasks' \in [Request -> SUBSET Body] /\ tasks'[r] = tasks[r] \ {chunk}
      /\ \A q \in Request : q # r => tasks'[q] = tasks[q]
  BY DEF SendBody, IInv, TypeOK
<1>5. ~Unanswered(r) /\ caller[r] # "done" /\ caller[r] # "new"
  BY <1>1, <1>3 DEF Answer, Unanswered
<1>6. CASE ~Receives(r)
  <2>1. channel' = channel /\ caller[r] = "timeout"
    BY <1>1, <1>5, <1>6 DEF SendBody, Receives, Caller
  <2>2. TypeOK'
    BY <1>2, <1>4, <2>1 DEF IInv, TypeOK
  <2>3. ASSUME NEW q \in Request, q # r PROVE Same(q)
    BY <1>2, <1>4, <2>1, <2>3 DEF Same
  <2>4. Answer(r)'
    BY <1>1, <1>2, <1>5, <2>1 DEF Answer, Unanswered
  <2> QED
    BY <2>2, <2>3, <2>4, SameAnswer DEF IInv
<1>7. CASE Receives(r)
  <2>1. /\ Append(channel[r], chunk) \in Seq(Body)
        /\ Len(Append(channel[r], chunk)) = Len(channel[r]) + 1
        /\ Range(Append(channel[r], chunk)) = Range(channel[r]) \cup {chunk}
    BY <1>1, AppendRange
  <2>2. /\ channel' = [channel EXCEPT ![r] = Append(@, chunk)]
        /\ channel \in [Request -> Seq(Body)]
    BY <1>7 DEF SendBody, IInv, TypeOK
  <2>3. /\ channel'[r] = Append(channel[r], chunk) /\ channel' \in [Request -> Seq(Body)]
        /\ \A q \in Request : q # r => channel'[q] = channel[q]
    BY <2>1, <2>2
  <2>4. \A q \in Request : Len(channel'[q]) <= Capacity
    <3>1. Len(channel'[r]) <= Capacity
      BY <1>1, <1>3, <1>7, <2>1, <2>3, WebProxyAssumption
    <3>2. \A q \in Request : Len(channel[q]) <= Capacity
      BY DEF IInv, TypeOK
    <3> QED
      BY <2>3, <3>1, <3>2
  <2>5. TypeOK'
    BY <1>2, <1>4, <2>3, <2>4 DEF IInv, TypeOK
  <2>6. ASSUME NEW q \in Request, q # r PROVE Same(q)
    BY <1>2, <1>4, <2>3, <2>6 DEF Same
  <2>7. Accounted(r)'
    <3>1. Accounted(r)
      BY <1>1, <1>7 DEF Answer, Receives
    <3>2. Range(text[r]) \cup Range(channel'[r]) \cup tasks'[r] = Range(arrived[r])
      BY <1>3, <1>4, <2>1, <2>3, <3>1 DEF Accounted
    <3>3. Cardinality(tasks'[r]) = Cardinality(tasks[r]) - 1
      <4> DEFINE k == tasks[r]
      <4>1. IsFiniteSet(k) /\ chunk \in k
        BY <1>1, <1>3
      <4> HIDE DEF k
      <4>2. Cardinality(k \ {chunk}) = Cardinality(k) - 1
        BY <4>1, FS_RemoveElement
      <4> QED
        BY <1>4, <4>2, Zenon DEF k
    <3>4. Len(text[r]) + Len(channel'[r]) + Cardinality(tasks'[r]) = Len(arrived[r])
      <4> DEFINE t == Len(text[r])
                 c == Len(channel[r])
                 k == Cardinality(tasks[r])
      <4>1. t \in Nat /\ c \in Nat /\ k \in Nat /\ t + c + k = Len(arrived[r])
        BY <1>1, <3>1 DEF Accounted
      <4>2. Len(channel'[r]) = c + 1 /\ Cardinality(tasks'[r]) = k - 1
        BY <2>1, <2>3, <3>3
      <4> HIDE DEF t, c, k
      <4>3. t + (c + 1) + (k - 1) = t + c + k
        BY <4>1
      <4> QED
        BY <4>1, <4>2, <4>3 DEF t
    <3> QED
      BY <1>2, <3>2, <3>4 DEF Accounted
  <2>8. Answer(r)'
    BY <1>1, <1>2, <1>5, <2>7 DEF Answer, Unanswered
  <2> QED
    BY <2>5, <2>6, <2>8, SameAnswer DEF IInv
<1> QED
  BY <1>6, <1>7

\* The reader takes the next chunk.
LEMMA ChunkStep ==
    ASSUME IInv, NEW r \in Request, Chunk(r) PROVE IInv'
<1>1. /\ channel[r] \in Seq(Body) /\ text[r] \in Seq(Body) /\ Cardinality(tasks[r]) \in Nat
      /\ Len(channel[r]) \in Nat /\ Len(text[r]) \in Nat /\ Len(channel[r]) \in 0..Capacity
      /\ Answer(r)
  BY Types
<1>2. /\ caller[r] = "answered" /\ channel[r] # <<>>
      /\ UNCHANGED <<nodes, nodeIndex, requests, caller, emitted, asked, wire, tasks, arrived,
                     lists, faults>>
  BY DEF Chunk
<1> DEFINE chunk == Head(channel[r])
<1>3. /\ chunk \in Body /\ Tail(channel[r]) \in Seq(Body)
      /\ Len(Tail(channel[r])) = Len(channel[r]) - 1
      /\ Range(channel[r]) = {chunk} \cup Range(Tail(channel[r]))
  BY <1>1, <1>2, TailRange
<1>4. /\ Append(text[r], chunk) \in Seq(Body) /\ Len(Append(text[r], chunk)) = Len(text[r]) + 1
      /\ Range(Append(text[r], chunk)) = Range(text[r]) \cup {chunk}
  BY <1>1, <1>3, AppendRange
<1>5. /\ text' = [text EXCEPT ![r] = Append(@, chunk)] /\ text \in [Request -> Seq(Body)]
      /\ channel' = [channel EXCEPT ![r] = Tail(@)] /\ channel \in [Request -> Seq(Body)]
  BY DEF Chunk, IInv, TypeOK
<1> HIDE DEF chunk
<1>6. /\ text'[r] = Append(text[r], chunk) /\ text' \in [Request -> Seq(Body)]
      /\ channel'[r] = Tail(channel[r]) /\ channel' \in [Request -> Seq(Body)]
      /\ \A q \in Request : q # r => text'[q] = text[q] /\ channel'[q] = channel[q]
  BY <1>3, <1>4, <1>5
<1>7. \A q \in Request : Len(channel'[q]) <= Capacity
  <2>1. Len(channel'[r]) <= Capacity
    BY <1>1, <1>3, <1>6, WebProxyAssumption
  <2>2. \A q \in Request : Len(channel[q]) <= Capacity
    BY DEF IInv, TypeOK
  <2> QED
    BY <1>6, <2>1, <2>2
<1>8. TypeOK'
  BY <1>2, <1>6, <1>7 DEF IInv, TypeOK
<1>9. ASSUME NEW q \in Request, q # r PROVE Same(q)
  BY <1>2, <1>6, <1>9 DEF Same
<1>10. Accounted(r)'
  <2>1. Accounted(r)
    BY <1>1, <1>2 DEF Answer
  <2>2. Range(text'[r]) \cup Range(channel'[r]) \cup tasks[r] = Range(arrived[r])
    BY <1>3, <1>4, <1>6, <2>1 DEF Accounted
  <2>3. Len(text'[r]) + Len(channel'[r]) + Cardinality(tasks[r]) = Len(arrived[r])
    <3> DEFINE t == Len(text[r])
               c == Len(channel[r])
               k == Cardinality(tasks[r])
    <3>1. t \in Nat /\ c \in Nat /\ k \in Nat /\ t + c + k = Len(arrived[r])
      BY <1>1, <2>1 DEF Accounted
    <3>2. Len(text'[r]) = t + 1 /\ Len(channel'[r]) = c - 1
      BY <1>3, <1>4, <1>6
    <3> HIDE DEF t, c, k
    <3>3. (t + 1) + (c - 1) + k = t + c + k
      BY <3>1
    <3> QED
      BY <3>1, <3>2, <3>3 DEF k
  <2> QED
    BY <1>2, <2>2, <2>3 DEF Accounted
<1>11. ~Unanswered(r)
  BY <1>1, <1>2 DEF Answer
<1>12. Answer(r)'
  BY <1>1, <1>2, <1>10, <1>11 DEF Answer, Unanswered
<1> QED
  BY <1>8, <1>9, <1>12, SameAnswer DEF IInv

\* The channel ends: no request is left that could answer, and no task with a chunk.
LEMMA EndOfTextStep ==
    ASSUME IInv, NEW r \in Request, EndOfText(r) PROVE IInv'
<1>1. TypeOK'
  BY DEF IInv, TypeOK, EndOfText, Caller
<1>2. ASSUME NEW q \in Request, q # r PROVE Same(q)
  BY <1>2 DEF IInv, TypeOK, EndOfText, Same
<1>3. caller'[r] = "done"
  BY DEF IInv, TypeOK, EndOfText
<1>4. Answer(r)'
  BY <1>3 DEF IInv, EndOfText, Sends, Answer, Unanswered, Accounted
<1> QED
  BY <1>1, <1>2, <1>4, SameAnswer DEF IInv

\* A request is asked once, so its answer is the only one.
LEMMA StartRequestStep ==
    ASSUME IInv, NEW r \in Request, StartRequest(r) PROVE IInv'
<1>1. PICK answer \in Answers : wire' = [wire EXCEPT ![r] = answer]
  BY DEF StartRequest
<1>2. answer \in Seq(ResponseMessage) /\ Ordered(answer)
  BY AnswersOrdered
<1>3. /\ r \in asked /\ asked' = asked \ {r}
      /\ UNCHANGED <<nodes, nodeIndex, requests, caller, emitted, tasks, channel, text, arrived,
                     lists, faults>>
  BY DEF StartRequest
<1>4. /\ wire' \in [Request -> Seq(ResponseMessage)] /\ wire'[r] = answer
      /\ \A q \in Request : q # r => wire'[q] = wire[q]
  BY <1>1, <1>2 DEF IInv, TypeOK
<1>5. TypeOK'
  BY <1>3, <1>4 DEF IInv, TypeOK
<1>6. ASSUME NEW q \in Request, q # r PROVE Same(q)
  BY <1>3, <1>4, <1>6 DEF Same
<1>7. Answer(r) /\ Unanswered(r) /\ arrived[r] = <<>>
  BY <1>3 DEF IInv, Answer, Unanswered
<1>8. After(wire'[r], arrived[r])
  BY <1>7 DEF After
<1>9. Answer(r)'
  BY <1>2, <1>3, <1>4, <1>7, <1>8 DEF Answer, Unanswered, Accounted
<1> QED
  BY <1>5, <1>6, <1>9, SameAnswer DEF IInv

LEMMA LoseMessageStep ==
    ASSUME IInv, NEW r \in Request, LoseMessage(r) PROVE IInv'
<1>1. /\ faults < MaxFaults /\ faults' = faults + 1
      /\ UNCHANGED <<nodes, nodeIndex, requests, caller, emitted, tasks, channel, text, arrived,
                     lists>>
  BY DEF LoseMessage
<1>2. faults' \in 0..MaxFaults
  BY <1>1, WebProxyAssumption DEF IInv, TypeOK
<1>3. CASE asked' = asked \ {r} /\ wire' = wire
  <2>1. TypeOK'
    BY <1>1, <1>2, <1>3 DEF IInv, TypeOK
  <2>2. ASSUME NEW q \in Request, q # r PROVE Same(q)
    BY <1>1, <1>3, <2>2 DEF Same
  <2>3. Answer(r)'
    BY <1>1, <1>3 DEF IInv, Answer, Unanswered, Accounted
  <2> QED
    BY <2>1, <2>2, <2>3, SameAnswer DEF IInv
<1>4. CASE /\ wire[r] # <<>> /\ wire' = [wire EXCEPT ![r] = Tail(@)]
           /\ asked' = asked
  <2> DEFINE w == wire[r]
             a == arrived[r]
  <2>1. /\ w \in Seq(ResponseMessage) /\ w # <<>> /\ a \in Seq(Body) /\ Answer(r)
        /\ Ordered(w) /\ After(w, a) /\ ~Unanswered(r)
    BY <1>4, Types DEF Answer
  <2> HIDE DEF w, a
  <2>2. Tail(w) \in Seq(ResponseMessage) /\ Ordered(Tail(w)) /\ After(Tail(w), a)
    BY ONLY <2>1, TailOrdered
  <2>3. /\ wire' \in [Request -> Seq(ResponseMessage)] /\ wire'[r] = Tail(w)
        /\ \A q \in Request : q # r => wire'[q] = wire[q]
    BY <1>4, <2>2 DEF IInv, TypeOK, w
  <2>4. TypeOK'
    BY <1>1, <1>2, <1>4, <2>3 DEF IInv, TypeOK
  <2>5. ASSUME NEW q \in Request, q # r PROVE Same(q)
    BY <1>1, <1>4, <2>3, <2>5 DEF Same
  <2>6. Answer(r)'
    BY <1>1, <1>4, <2>1, <2>2, <2>3 DEF Answer, Unanswered, Accounted, a
  <2> QED
    BY <2>4, <2>5, <2>6, SameAnswer DEF IInv
<1> QED
  BY <1>3, <1>4 DEF LoseMessage

----------------------------------------------------------------------------
LEMMA NextIInv ==
    ASSUME IInv, [Next]_vars PROVE IInv'
<1>1. CASE UNCHANGED vars
  <2>1. TypeOK'
    BY <1>1 DEF IInv, TypeOK, vars
  <2>2. ASSUME NEW q \in Request PROVE Same(q)
    BY <1>1 DEF vars, Same
  <2> QED
    BY <2>1, <2>2, SameAnswer DEF IInv
<1>2. ASSUME NEW list \in NodeLists, NodeList(list) PROVE IInv'
  BY <1>2, NodeListStep
<1>3. ASSUME NEW r \in Request, Get(r) \/ TapOut(r) \/ Timeout(r) PROVE IInv'
  BY <1>3, GetStep, TapOutStep, TimeoutStep
<1>4. ASSUME NEW r \in Request,
             HandleRequestGet(r) \/ HandleHeader(r) \/ HandleDone(r) \/ HandleError(r)
      PROVE  IInv'
  BY <1>4, HandleRequestGetStep, HandleHeaderStep, HandleDoneStep, HandleErrorStep
<1>5. ASSUME NEW r \in Request, NEW chunk \in Body,
             HandleBody(r, chunk) \/ SendBody(r, chunk)
      PROVE  IInv'
  BY <1>5, HandleBodyStep, SendBodyStep
<1>6. ASSUME NEW r \in Request, Chunk(r) \/ EndOfText(r) PROVE IInv'
  BY <1>6, ChunkStep, EndOfTextStep
<1>7. ASSUME NEW r \in Request, StartRequest(r) \/ LoseMessage(r) PROVE IInv'
  BY <1>7, StartRequestStep, LoseMessageStep
<1> QED
  BY <1>1, <1>2, <1>3, <1>4, <1>5, <1>6, <1>7 DEF Next

LEMMA Invariant == Spec => []IInv
<1>1. IInv /\ [Next]_vars => IInv'
  BY NextIInv
<1> QED
  BY <1>1, InitIInv, PTL DEF Spec

\* A reader that comes to the end of a response has every chunk that arrived, once: for any
\* capacity of the channel, and although Done may close the request before the tasks of the chunks
\* ran (web_proxy/core.rs:87-95, response.rs).
THEOREM ResponsesStayComplete == Spec => []ResponsesConsistent
<1>1. IInv => ResponsesConsistent
  <2> SUFFICES ASSUME IInv PROVE ResponsesConsistent
    OBVIOUS
  <2>1. ASSUME NEW r \in Request, caller[r] = "done"
        PROVE  Range(text[r]) = Range(arrived[r]) /\ Len(text[r]) = Len(arrived[r])
    <3>1. /\ Accounted(r) /\ tasks[r] = {} /\ channel[r] = <<>>
          /\ text[r] \in Seq(Body) /\ Len(text[r]) \in Nat
      BY <2>1, Types DEF Answer
    <3>2. Range(<<>>) = {} /\ Len(<<>>) = 0 /\ Cardinality({}) = 0
      BY FS_EmptySet DEF Range
    <3>3. Range(text[r]) = Range(arrived[r])
      <4>1. Range(text[r]) \cup Range(<<>>) \cup {} = Range(arrived[r])
        BY <3>1, Zenon DEF Accounted
      <4> QED
        BY <3>2, <4>1
    <3>4. Len(text[r]) = Len(arrived[r])
      <4>1. Len(text[r]) + Len(<<>>) + Cardinality({}) = Len(arrived[r])
        BY <3>1, Zenon DEF Accounted
      <4>2. Len(text[r]) + 0 + 0 = Len(arrived[r])
        BY <3>2, <4>1, Zenon
      <4> QED
        BY <3>1, <4>2
    <3> QED
      BY <3>3, <3>4
  <2> QED
    BY <2>1 DEF IInv, ResponsesConsistent, BodyIsComplete
<1> QED
  BY <1>1, Invariant, PTL
=============================================================================
