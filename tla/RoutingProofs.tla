---------------------------- MODULE RoutingProofs ----------------------------
(***************************************************************************)
(* Proofs about routing: the table of a node (KademliaCore.tla, on its own *)
(* as Kademlia.tla), the routers of a network (DHTRouter.tla) and the way  *)
(* of a message (KeyRouting.tla), for any ids, tables and limits.          *)
(*                                                                         *)
(* Of a table: between two calls it is in Settled(me).  All buckets keep   *)
(* their limits, hold every node once, at its depth and never me, and the  *)
(* root bucket does not overflow.  The calls are followed through what     *)
(* they make of the nodes: Moves, for nodes that only change their list or *)
(* bucket, and Settles, for those that come and go.  A root bucket that is *)
(* split has at least K nodes beyond the depth that is split off, and      *)
(* keeps them: so all the nodes of this depth are split off, those that    *)
(* are left lie deeper, and the splitting ends when there is a bucket for  *)
(* every depth.                                                            *)
(*                                                                         *)
(* Of the routers: the table of every one is settled, whatever arrives;    *)
(* next hops are active or connected nodes in the right direction, so that *)
(* the routers implement KeyRouting.                                       *)
(*                                                                         *)
(* Of a message: a hop either shares more bits with the key than all nodes *)
(* visited so far; or it shares the same number and lies deeper in the     *)
(* branch of the current node than everything visited that shares as many. *)
(* Neither can be a node that has been visited.                            *)
(***************************************************************************)
EXTENDS DHTRouter, Kademlia, InductionLemmas, SequenceTheorems

----------------------------------------------------------------------------
(***************************************************************************)
(* Lists of nodes: the two lists of a bucket.                              *)
(***************************************************************************)
\* No node is in the list twice.
Distinct(s) == \A i, j \in DOMAIN s : s[i].id = s[j].id => i = j

LEMMA AppendNode ==
    ASSUME NEW X, NEW s \in Seq(X), Distinct(s), NEW kn \in X, kn.id \notin IDs(s)
    PROVE  /\ Append(s, kn) \in Seq(X)
           /\ Distinct(Append(s, kn))
           /\ Range(Append(s, kn)) = Range(s) \cup {kn}
           /\ IDs(Append(s, kn)) = IDs(s) \cup {kn.id}
           /\ Len(Append(s, kn)) = Len(s) + 1
<1> DEFINE t == Append(s, kn)
<1>1. /\ t \in Seq(X)
      /\ DOMAIN t = 1..(Len(s) + 1) /\ DOMAIN s = 1..Len(s) /\ Len(s) \in Nat
      /\ \A i \in 1..Len(s) : t[i] = s[i]
      /\ t[Len(s) + 1] = kn
      /\ Len(t) = Len(s) + 1
  OBVIOUS
<1> HIDE DEF t
<1>2. Distinct(t)
  BY <1>1 DEF Distinct, IDs
<1>3. Range(t) = Range(s) \cup {kn}
  BY <1>1 DEF Range
<1>4. IDs(t) = IDs(s) \cup {kn.id}
  BY <1>1 DEF IDs
<1> QED BY <1>1, <1>2, <1>3, <1>4 DEF t

LEMMA IDsOfRange ==
    ASSUME NEW s
    PROVE  IDs(s) = {kn.id : kn \in Range(s)}
BY DEF Range, IDs

LEMMA RangeIDs ==
    ASSUME NEW s \in Seq(KNode)
    PROVE  /\ IDs(s) = {kn.id : kn \in Range(s)}
           /\ Range(s) \subseteq KNode
           /\ IDs(s) \subseteq NodeID
<1>1. DOMAIN s = 1..Len(s) /\ \A i \in DOMAIN s : s[i] \in KNode
  OBVIOUS
<1>2. Range(s) \subseteq KNode
  BY <1>1 DEF Range
<1> QED BY <1>2, IDsOfRange DEF KNode

\* Only keeps the nodes of S, each once.
LEMMA OnlyIs ==
    ASSUME NEW N, NEW s \in Seq(N), Distinct(s), NEW S
    PROVE  /\ Only(s, S) \in Seq(N)
           /\ Distinct(Only(s, S))
           /\ Range(Only(s, S)) = Range(s) \cap S
           /\ Len(Only(s, S)) <= Len(s)
<1> DEFINE n == Len(s)
           IsLoop(g) == g = [i \in 0..n |->
                               IF i = 0 THEN <<>>
                               ELSE IF s[i] \in S THEN Append(g[i - 1], s[i])
                               ELSE g[i - 1]]
           f == CHOOSE g : IsLoop(g)
           X == Seq(N)
<1>1. n \in Nat /\ \A i \in 1..n : s[i] \in N
  OBVIOUS
<1>2. Only(s, S) = f[n]
  BY Zenon DEF Only
<1>3. \E g : IsLoop(g)
  <2> DEFINE step == [i \in 1..n |->
                        [u \in X |-> IF s[i] \in S THEN Append(u, s[i]) ELSE u]]
  <2> HIDE DEF n, X
  <2>1. step \in Steps(n, X)
    BY <1>1 DEF Steps, X
  <2>2. \A i \in 1..n : \A u \in X :
           step[i][u] = IF s[i] \in S THEN Append(u, s[i]) ELSE u
    OBVIOUS
  <2> HIDE DEF step
  <2>3. PICK g : g \in Iterations(n, X, <<>>, step)
    <3>1. <<>> \in X
      BY DEF X
    <3> QED BY <1>1, <2>1, <3>1, Iterates, Zenon
  <2>4. /\ g \in [0..n -> X] /\ g[0] = <<>>
        /\ \A i \in 1..n : g[i] = step[i][g[i - 1]]
    BY <2>3 DEF Iterations
  <2>5. \A i \in 1..n : g[i] = IF s[i] \in S THEN Append(g[i - 1], s[i]) ELSE g[i - 1]
    <3>1. \A i \in 1..n : g[i - 1] \in X
      BY <1>1, <2>4
    <3> QED BY <2>2, <2>4, <3>1
  <2>6. \A i \in 0..n : g[i] = IF i = 0 THEN <<>>
                               ELSE IF s[i] \in S THEN Append(g[i - 1], s[i])
                               ELSE g[i - 1]
    <3>1. \A i \in 0..n : i = 0 \/ i \in 1..n
      BY <1>1
    <3> QED BY <2>4, <2>5, <3>1, Zenon
  <2>7. g = [i \in 0..n |-> g[i]]
    BY <2>4
  <2>8. IsLoop(g)
    BY <2>6, <2>7, Zenon
  <2> QED BY <2>8, Zenon
<1>4. IsLoop(f)
  BY <1>3, Zenon
<1> HIDE DEF n, f
<1>5. /\ f[0] = <<>>
      /\ \A i \in 1..n : f[i] = IF s[i] \in S THEN Append(f[i - 1], s[i]) ELSE f[i - 1]
  <2>1. 0 \in 0..n /\ \A i \in 1..n : i \in 0..n /\ i # 0
    BY <1>1
  <2>2. \A i \in 0..n : f[i] = IF i = 0 THEN <<>>
                               ELSE IF s[i] \in S THEN Append(f[i - 1], s[i])
                               ELSE f[i - 1]
    BY <1>4, Zenon
  <2> QED BY <2>1, <2>2, Zenon
<1> DEFINE Kept(i) == {s[j] : j \in {j \in 1..i : s[j] \in S}}
           Good(i) == /\ f[i] \in Seq(N)
                      /\ Distinct(f[i])
                      /\ Range(f[i]) = Kept(i)
                      /\ Len(f[i]) <= i
           P == {i \in 0..n : Good(i)}
<1>6. 0 \in P
  <2>1. Kept(0) = {} /\ 0 \in 0..n
    BY <1>1
  <2>2. DOMAIN f[0] = {} /\ f[0] \in Seq(N) /\ Len(f[0]) = 0
    BY <1>5
  <2>3. Range(f[0]) = {} /\ Distinct(f[0])
    BY <2>2 DEF Distinct, Range
  <2> HIDE DEF Kept
  <2>4. Good(0)
    BY <2>1, <2>2, <2>3
  <2> HIDE DEF Good
  <2> QED BY <2>1, <2>4
<1>7. ASSUME NEW i \in 1..n, Good(i - 1) PROVE Good(i)
  <2>1. i \in Nat /\ i - 1 \in Nat
    BY <1>1
  <2>2. CASE s[i] \in S
    <3>1. f[i] = Append(f[i - 1], s[i])
      BY <1>5, <2>2
    <3>2. s[i].id \notin IDs(f[i - 1])
      <4>1. \A j \in 1..(i - 1) : s[j].id # s[i].id
        BY <1>1, <2>1 DEF Distinct, n
      <4>2. IDs(f[i - 1]) = {kn.id : kn \in Kept(i - 1)}
        BY <1>7, IDsOfRange
      <4> QED BY <4>1, <4>2
    <3>3. /\ f[i] \in Seq(N) /\ Distinct(f[i])
          /\ Range(f[i]) = Kept(i - 1) \cup {s[i]}
          /\ Len(f[i]) = Len(f[i - 1]) + 1
      BY <1>1, <1>7, <3>1, <3>2, AppendNode
    <3>4. Kept(i) = Kept(i - 1) \cup {s[i]}
      BY <2>1, <2>2
    <3>5. Len(f[i - 1]) \in Nat /\ Len(f[i - 1]) <= i - 1
      BY <1>7
    <3> HIDE DEF Kept
    <3>6. Len(f[i]) <= i
      BY <2>1, <3>3, <3>5
    <3> QED BY <3>3, <3>4, <3>6
  <2>3. CASE s[i] \notin S
    <3>1. f[i] = f[i - 1]
      BY <1>5, <2>3
    <3>2. Kept(i) = Kept(i - 1)
      BY <2>1, <2>3
    <3>3. Len(f[i - 1]) \in Nat /\ Len(f[i - 1]) <= i - 1
      BY <1>7
    <3>4. Len(f[i]) <= i
      BY <2>1, <3>1, <3>3
    <3> HIDE DEF Kept
    <3> QED BY <1>7, <3>1, <3>2, <3>4
  <2> QED BY <2>2, <2>3
<1>8. \A i \in 1..n : i - 1 \in P => i \in P
  <2> HIDE DEF Good
  <2> QED BY <1>1, <1>7
<1>9. 0..n \subseteq P
  <2> HIDE DEF P
  <2> QED BY <1>1, <1>6, <1>8, IntervalInduction
<1>10. Good(n)
  <2>1. n \in 0..n
    BY <1>1
  <2> HIDE DEF Good
  <2> QED BY <1>9, <2>1
<1>11. Range(f[n]) = Range(s) \cap S
  <2>1. DOMAIN s = 1..n
    BY DEF n
  <2> QED BY <1>10, <2>1 DEF Range
<1> QED BY <1>2, <1>10, <1>11 DEF n

\* Nodes of a list are counted by their ids.
LEMMA CountIDs ==
    ASSUME NEW s \in Seq(KNode), Distinct(s), NEW D
    PROVE  LET at == {i \in DOMAIN s : s[i].id \in D}
           IN  /\ IsFiniteSet(at) /\ IsFiniteSet(IDs(s) \cap D)
               /\ Cardinality(at) = Cardinality(IDs(s) \cap D)
<1> DEFINE at == {i \in DOMAIN s : s[i].id \in D}
           f == [i \in at |-> s[i].id]
           T == IDs(s) \cap D
<1>1. DOMAIN s = 1..Len(s) /\ Len(s) \in Nat
  OBVIOUS
<1>2. IsFiniteSet(DOMAIN s)
  BY <1>1, FS_Interval
<1>3. IsFiniteSet(at)
  BY <1>2, FS_Subset
<1>4. f \in Bijection(at, T)
  <2>1. f \in [at -> T]
    BY DEF IDs
  <2>2. \A i, j \in at : f[i] = f[j] => i = j
    BY DEF Distinct
  <2>3. \A x \in T : \E i \in at : f[i] = x
    BY DEF IDs
  <2> HIDE DEF f, at, T
  <2> QED BY <2>1, <2>2, <2>3 DEF Bijection, Injection, Surjection, IsInjective
<1>5. ExistsBijection(at, T)
  <2> HIDE DEF f, at, T
  <2> QED BY <1>4 DEF ExistsBijection
<1> HIDE DEF at, f, T
<1>6. IsFiniteSet(T) /\ Cardinality(at) = Cardinality(T)
  BY <1>3, <1>5, FS_Bijection
<1> QED BY <1>3, <1>6 DEF at, T

LEMMA LenIsCount ==
    ASSUME NEW s \in Seq(KNode), Distinct(s)
    PROVE  IsFiniteSet(IDs(s)) /\ Len(s) = Cardinality(IDs(s))
<1> DEFINE D == IDs(s)
<1>1. {i \in DOMAIN s : s[i].id \in D} = 1..Len(s) /\ Len(s) \in Nat
  BY DEF IDs
<1>2. D \cap D = D
  OBVIOUS
<1> HIDE DEF D
<1>3. IsFiniteSet(D \cap D) /\ Cardinality(1..Len(s)) = Cardinality(D \cap D)
  <2>1. D \cap D = IDs(s) \cap D
    BY DEF D
  <2> QED BY <1>1, <2>1, CountIDs
<1>4. Cardinality(1..Len(s)) = Len(s)
  <2> DEFINE n == Len(s)
  <2>1. n \in Nat /\ n \in Int /\ 1 \in Int
    BY <1>1
  <2> HIDE DEF n
  <2>2. Cardinality(1..n) = IF 1 > n THEN 0 ELSE n - 1 + 1
    BY <2>1, FS_Interval
  <2>3. Cardinality(1..n) = n
    BY <2>1, <2>2
  <2> QED BY <2>3 DEF n
<1> QED BY <1>2, <1>3, <1>4 DEF D

----------------------------------------------------------------------------
(***************************************************************************)
(* Buckets: a node is in one of the two lists, once.                       *)
(***************************************************************************)
BucketOK(b) ==
    /\ b \in KBucket
    /\ Distinct(b.active) /\ Distinct(b.cache)
    /\ IDs(b.active) \cap IDs(b.cache) = {}

InBucket(b) == IDs(b.active) \cup IDs(b.cache)

WithinLimits(b) == Len(b.active) <= K /\ Len(b.cache) <= 2 * K

LEMMA ConstantTypes ==
    /\ K \in Nat /\ K >= 1
    /\ PingInterval \in Nat /\ PingInterval >= 1
    /\ PingTimeout \in Nat /\ PingTimeout >= 2 * PingInterval
    /\ MaxDepth \in Nat
    /\ \A a, b \in NodeID : Depth(a, b) \in 0..MaxDepth
BY ConfigAssumption, DepthAssumption

LEMMA KNodesOfBucket ==
    ASSUME NEW b, BucketOK(b)
    PROVE  /\ KNodes(b) \in Seq(KNode)
           /\ Distinct(KNodes(b))
           /\ IDs(KNodes(b)) = InBucket(b)
           /\ Len(KNodes(b)) = Len(b.active) + Len(b.cache)
           /\ InBucket(b) \subseteq NodeID
           /\ IsFiniteSet(InBucket(b))
           /\ Len(KNodes(b)) = Cardinality(InBucket(b))
<1> DEFINE a == b.active
           c == b.cache
           s == a \o c
           n == Len(a)
           m == Len(c)
<1>1. /\ a \in Seq(KNode) /\ c \in Seq(KNode)
      /\ Distinct(a) /\ Distinct(c) /\ IDs(a) \cap IDs(c) = {}
  BY DEF BucketOK, KBucket
<1> HIDE DEF a, c
<1>2. /\ s \in Seq(KNode) /\ Len(s) = n + m /\ n \in Nat /\ m \in Nat
      /\ DOMAIN s = 1..(n + m) /\ DOMAIN a = 1..n /\ DOMAIN c = 1..m
      /\ \A i \in 1..n : s[i] = a[i]
      /\ \A i \in 1..m : s[n + i] = c[i]
  BY <1>1
<1> HIDE DEF s, n, m
<1>3. \A i \in DOMAIN s : i \in 1..n \/ (i - n \in 1..m /\ s[i] = c[i - n])
  <2> SUFFICES ASSUME NEW i \in DOMAIN s, i \notin 1..n
               PROVE  i - n \in 1..m /\ s[i] = c[i - n]
    OBVIOUS
  <2>1. i - n \in 1..m /\ n + (i - n) = i
    BY <1>2
  <2> QED BY <1>2, <2>1
<1>4. IDs(s) = IDs(a) \cup IDs(c)
  <2>1. IDs(s) \subseteq IDs(a) \cup IDs(c)
    BY <1>2, <1>3 DEF IDs
  <2>2. IDs(a) \subseteq IDs(s)
    <3>1. 1..n \subseteq DOMAIN s
      BY <1>2
    <3> QED BY <1>2, <3>1 DEF IDs
  <2>3. IDs(c) \subseteq IDs(s)
    <3>1. \A i \in 1..m : n + i \in DOMAIN s
      BY <1>2
    <3> QED BY <1>2, <3>1 DEF IDs
  <2> QED BY <2>1, <2>2, <2>3
<1>5. Distinct(s)
  <2> SUFFICES ASSUME NEW i \in DOMAIN s, NEW j \in DOMAIN s, s[i].id = s[j].id
               PROVE  i = j
    BY DEF Distinct
  <2>1. \A k \in 1..n : s[k].id \in IDs(a)
    BY <1>2 DEF IDs
  <2>2. \A k \in DOMAIN s : k \notin 1..n => s[k].id \in IDs(c)
    BY <1>2, <1>3 DEF IDs
  <2>3. CASE i \in 1..n /\ j \in 1..n
    BY <1>1, <1>2, <2>3 DEF Distinct
  <2>4. CASE i \notin 1..n /\ j \notin 1..n
    <3>1. i - n = j - n
      BY <1>1, <1>2, <1>3, <2>4 DEF Distinct
    <3> QED BY <1>2, <3>1
  <2> QED BY <1>1, <2>1, <2>2, <2>3, <2>4
<1>6. IDs(a) \subseteq NodeID /\ IDs(c) \subseteq NodeID
  BY <1>1, RangeIDs
<1>7. IsFiniteSet(IDs(s)) /\ Len(s) = Cardinality(IDs(s))
  BY <1>2, <1>5, LenIsCount
<1>8. KNodes(b) = s /\ InBucket(b) = IDs(a) \cup IDs(c)
  BY DEF KNodes, InBucket, s, a, c
<1>9. Len(KNodes(b)) = Len(b.active) + Len(b.cache)
  BY <1>2, <1>8 DEF n, m, a, c
<1> QED BY <1>2, <1>4, <1>5, <1>6, <1>7, <1>8, <1>9

\* What overflows, as a statement about ids.
Deeper(me, ids) ==
    {id \in ids : \E other \in ids : Depth(me, other) < Depth(me, id)}

Crowded(me, ids) ==
    Cardinality(ids) >= 2 * K /\ Cardinality(Deeper(me, ids)) >= K

LEMMA OverflowingIsCrowded ==
    ASSUME NEW me, NEW b, BucketOK(b)
    PROVE  Overflowing(me, b) <=> Crowded(me, InBucket(b))
<1> DEFINE s == KNodes(b)
           D == Deeper(me, IDs(s))
<1>1. /\ s \in Seq(KNode) /\ Distinct(s) /\ IDs(s) = InBucket(b)
      /\ Len(s) = Cardinality(InBucket(b))
  BY KNodesOfBucket
<1> HIDE DEF s
<1>2. {i \in DOMAIN s : \E j \in DOMAIN s : Depth(me, s[j].id) < Depth(me, s[i].id)}
        = {i \in DOMAIN s : s[i].id \in D}
  BY DEF Deeper, IDs
<1>3. D = IDs(s) \cap D
  BY DEF Deeper
<1> HIDE DEF D
<1>4. Cardinality({i \in DOMAIN s : s[i].id \in D}) = Cardinality(D)
  BY <1>1, <1>3, CountIDs
<1>5. Overflowing(me, b) <=> Len(s) >= 2 * K /\ Cardinality(D) >= K
  BY <1>2, <1>4 DEF Overflowing, s
<1>6. D = Deeper(me, InBucket(b))
  BY <1>1 DEF D
<1> QED BY <1>1, <1>5, <1>6 DEF Crowded

\* A bucket does not overflow because nodes leave.
LEMMA FewerNotCrowded ==
    ASSUME NEW me, NEW ids, IsFiniteSet(ids), NEW left \in SUBSET ids, Crowded(me, left)
    PROVE  Crowded(me, ids)
<1>1. Deeper(me, left) \subseteq Deeper(me, ids)
  BY DEF Deeper
<1>2. IsFiniteSet(left) /\ IsFiniteSet(Deeper(me, ids)) /\ IsFiniteSet(Deeper(me, left))
  <2>1. Deeper(me, ids) \subseteq ids
    BY DEF Deeper
  <2> QED BY <1>1, <2>1, FS_Subset
<1>3. Cardinality(left) <= Cardinality(ids)
  BY FS_Subset
<1>4. Cardinality(Deeper(me, left)) <= Cardinality(Deeper(me, ids))
  BY <1>1, <1>2, FS_Subset
<1>5. /\ Cardinality(left) \in Nat /\ Cardinality(ids) \in Nat
      /\ Cardinality(Deeper(me, left)) \in Nat /\ Cardinality(Deeper(me, ids)) \in Nat
  BY <1>2, FS_CardinalityType
<1> QED BY <1>3, <1>4, <1>5, ConstantTypes DEF Crowded

----------------------------------------------------------------------------
(***************************************************************************)
(* What add_node and add_node_active, once or in their loops, do to a      *)
(* bucket: u is b with some of the nodes in A, active or cached, and of    *)
(* those in C, cached; in the root bucket, with all of them.               *)
(***************************************************************************)
Added(b, u, isRoot, A, C) ==
    /\ BucketOK(u)
    /\ Range(b.active) \subseteq Range(u.active)
    /\ Range(u.active) \subseteq Range(b.active) \cup A
    /\ Range(b.cache) \subseteq Range(u.cache)
    /\ Range(u.cache) \subseteq Range(b.cache) \cup A \cup C
    /\ isRoot => A \subseteq Range(u.active) /\ C \subseteq Range(u.cache)
    /\ ~isRoot /\ WithinLimits(b) => WithinLimits(u)
    /\ A # {} => Range(u.active) # {}

LEMMA NothingAdded ==
    ASSUME NEW b, BucketOK(b), NEW isRoot \in BOOLEAN
    PROVE  Added(b, b, isRoot, {}, {})
BY DEF Added

LEMMA AddedTwice ==
    ASSUME NEW b, NEW u, NEW v, NEW isRoot \in BOOLEAN, NEW A, NEW B, NEW C, NEW D,
           Added(b, u, isRoot, A, C), Added(u, v, isRoot, B, D)
    PROVE  Added(b, v, isRoot, A \cup B, C \cup D)
<1>1. Range(b.active) \subseteq Range(v.active) /\ Range(b.cache) \subseteq Range(v.cache)
  BY DEF Added
<1>2. /\ Range(v.active) \subseteq Range(b.active) \cup (A \cup B)
      /\ Range(v.cache) \subseteq Range(b.cache) \cup (A \cup B) \cup (C \cup D)
  BY DEF Added
<1>3. isRoot => A \cup B \subseteq Range(v.active) /\ C \cup D \subseteq Range(v.cache)
  BY DEF Added
<1>4. A \cup B # {} => Range(v.active) # {}
  BY DEF Added
<1> QED BY <1>1, <1>2, <1>3, <1>4 DEF Added

LEMMA AddedIDs ==
    ASSUME NEW b, BucketOK(b), NEW u, NEW isRoot, NEW A, NEW C,
           Added(b, u, isRoot, A, C)
    PROVE  InBucket(u) \subseteq InBucket(b) \cup {kn.id : kn \in A \cup C}
<1>1. /\ b.active \in Seq(KNode) /\ b.cache \in Seq(KNode)
      /\ u.active \in Seq(KNode) /\ u.cache \in Seq(KNode)
  BY DEF Added, BucketOK, KBucket
<1>2. /\ IDs(b.active) = {kn.id : kn \in Range(b.active)}
      /\ IDs(b.cache) = {kn.id : kn \in Range(b.cache)}
      /\ IDs(u.active) = {kn.id : kn \in Range(u.active)}
      /\ IDs(u.cache) = {kn.id : kn \in Range(u.cache)}
  BY <1>1, RangeIDs
<1> QED BY <1>2 DEF Added, InBucket

LEMMA AddNodeAdds ==
    ASSUME NEW b, BucketOK(b), NEW kn \in KNode, kn.id \notin InBucket(b),
           NEW isRoot \in BOOLEAN
    PROVE  /\ Added(b, BucketAddNode(b, isRoot, kn), isRoot, {}, {kn})
           /\ BucketAddNode(b, isRoot, kn).active = b.active
<1> DEFINE u == BucketAddNode(b, isRoot, kn)
<1>1. /\ b.active \in Seq(KNode) /\ b.cache \in Seq(KNode)
      /\ Distinct(b.active) /\ Distinct(b.cache)
      /\ b = [active |-> b.active, cache |-> b.cache]
      /\ kn.id \notin IDs(b.active) /\ kn.id \notin IDs(b.cache)
      /\ IDs(b.active) \cap IDs(b.cache) = {}
  BY DEF BucketOK, KBucket, InBucket
<1>2. CASE isRoot \/ Len(b.cache) < 2 * K
  <2>1. u = [active |-> b.active, cache |-> Append(b.cache, kn)]
    BY <1>1, <1>2 DEF BucketAddNode
  <2>2. /\ Append(b.cache, kn) \in Seq(KNode) /\ Distinct(Append(b.cache, kn))
        /\ Range(Append(b.cache, kn)) = Range(b.cache) \cup {kn}
        /\ IDs(Append(b.cache, kn)) = IDs(b.cache) \cup {kn.id}
        /\ Len(Append(b.cache, kn)) = Len(b.cache) + 1
    BY <1>1, AppendNode
  <2>3. BucketOK(u)
    BY <1>1, <2>1, <2>2 DEF BucketOK, KBucket
  <2>4. ~isRoot /\ WithinLimits(b) => WithinLimits(u)
    <3>1. Len(b.cache) \in Nat
      BY <1>1
    <3> QED BY <1>2, <2>1, <2>2, <3>1, ConstantTypes DEF WithinLimits
  <2> HIDE DEF u
  <2> QED BY <2>1, <2>2, <2>3, <2>4 DEF Added, u
<1>3. CASE ~(isRoot \/ Len(b.cache) < 2 * K)
  <2>1. u = b
    BY <1>3 DEF BucketAddNode
  <2> HIDE DEF u
  <2> QED BY <1>3, <2>1 DEF Added, u
<1> QED BY <1>2, <1>3

LEMMA AddNodeActiveAdds ==
    ASSUME NEW b, BucketOK(b), NEW kn \in KNode, kn.id \notin InBucket(b),
           NEW isRoot \in BOOLEAN
    PROVE  Added(b, BucketAddNodeActive(b, isRoot, kn), isRoot, {kn}, {})
<1> DEFINE u == BucketAddNodeActive(b, isRoot, kn)
<1>1. /\ b.active \in Seq(KNode) /\ b.cache \in Seq(KNode)
      /\ Distinct(b.active) /\ Distinct(b.cache)
      /\ b = [active |-> b.active, cache |-> b.cache]
      /\ kn.id \notin IDs(b.active) /\ kn.id \notin IDs(b.cache)
      /\ IDs(b.active) \cap IDs(b.cache) = {}
      /\ Len(b.active) \in Nat /\ Len(b.cache) \in Nat
  BY DEF BucketOK, KBucket, InBucket
<1>2. CASE isRoot \/ Len(b.active) < K
  <2>1. u = [active |-> Append(b.active, kn), cache |-> b.cache]
    BY <1>1, <1>2 DEF BucketAddNodeActive
  <2>2. /\ Append(b.active, kn) \in Seq(KNode) /\ Distinct(Append(b.active, kn))
        /\ Range(Append(b.active, kn)) = Range(b.active) \cup {kn}
        /\ IDs(Append(b.active, kn)) = IDs(b.active) \cup {kn.id}
        /\ Len(Append(b.active, kn)) = Len(b.active) + 1
    BY <1>1, AppendNode
  <2>3. BucketOK(u)
    BY <1>1, <2>1, <2>2 DEF BucketOK, KBucket
  <2>4. ~isRoot /\ WithinLimits(b) => WithinLimits(u)
    BY <1>1, <1>2, <2>1, <2>2, ConstantTypes DEF WithinLimits
  <2> HIDE DEF u
  <2> QED BY <2>1, <2>2, <2>3, <2>4 DEF Added, u
<1>3. CASE ~isRoot /\ ~(Len(b.active) < K)
  <2>1. Range(b.active) # {}
    <3>1. 1 \in DOMAIN b.active
      BY <1>1, <1>3, ConstantTypes
    <3> QED BY <3>1 DEF Range
  <2>2. Len(b.active) >= K
    BY <1>1, <1>3, ConstantTypes
  <2>3. CASE Len(b.cache) < K
    <3>1. u = [active |-> b.active, cache |-> Append(b.cache, kn)]
      BY <1>1, <1>3, <2>2, <2>3 DEF BucketAddNodeActive
    <3>2. /\ Append(b.cache, kn) \in Seq(KNode) /\ Distinct(Append(b.cache, kn))
          /\ Range(Append(b.cache, kn)) = Range(b.cache) \cup {kn}
          /\ IDs(Append(b.cache, kn)) = IDs(b.cache) \cup {kn.id}
          /\ Len(Append(b.cache, kn)) = Len(b.cache) + 1
      BY <1>1, AppendNode
    <3>3. BucketOK(u)
      BY <1>1, <3>1, <3>2 DEF BucketOK, KBucket
    <3>4. WithinLimits(b) => WithinLimits(u)
      BY <1>1, <2>3, <3>1, <3>2, ConstantTypes DEF WithinLimits
    <3> HIDE DEF u
    <3> QED BY <1>3, <2>1, <3>1, <3>2, <3>3, <3>4 DEF Added, u
  <2>4. CASE ~(Len(b.cache) < K)
    <3>1. u = b
      BY <1>3, <2>2, <2>4 DEF BucketAddNodeActive
    <3> HIDE DEF u
    <3> QED BY <1>3, <2>1, <3>1 DEF Added, u
  <2> QED BY <2>3, <2>4
<1> QED BY <1>2, <1>3

LEMMA AddNodesActiveAdds ==
    ASSUME NEW b, BucketOK(b), NEW kns \in Seq(KNode), Distinct(kns),
           IDs(kns) \cap InBucket(b) = {}, NEW isRoot \in BOOLEAN
    PROVE  Added(b, BucketAddNodesActive(b, isRoot, kns), isRoot, Range(kns), {})
<1> DEFINE n == Len(kns)
           b0 == b
           X == KBucket
           IsLoop(g) == g = [i \in 0..n |-> IF i = 0 THEN b ELSE BucketAddNodeActive(g[i - 1], isRoot, kns[i])]
           f == CHOOSE g : IsLoop(g)
<1>1. n \in Nat
  OBVIOUS
<1>2. BucketAddNodesActive(b, isRoot, kns) = f[n]
  BY Zenon DEF BucketAddNodesActive
<1>3. b0 \in X
  BY DEF BucketOK
<1>4. ASSUME NEW i \in 1..n, NEW u \in X
      PROVE  BucketAddNodeActive(u, isRoot, kns[i]) \in X
  <2>1. kns[i] \in KNode
    OBVIOUS
  <2>2. /\ u = [active |-> u.active, cache |-> u.cache]
        /\ Append(u.active, kns[i]) \in Seq(KNode) /\ Append(u.cache, kns[i]) \in Seq(KNode)
    BY <2>1 DEF KBucket
  <2> QED BY <2>2 DEF KBucket, BucketAddNodeActive
<1>5. \E g : IsLoop(g)
  <2> DEFINE step == [i \in 1..n |-> [u \in X |-> BucketAddNodeActive(u, isRoot, kns[i])]]
  <2>1. b0 = b
    OBVIOUS
  <2> HIDE DEF n, X, b0
  <2>2. step \in Steps(n, X)
    BY <1>4 DEF Steps
  <2>3. \A i \in 1..n : \A u \in X : step[i][u] = BucketAddNodeActive(u, isRoot, kns[i])
    OBVIOUS
  <2> HIDE DEF step
  <2>4. PICK g : g \in Iterations(n, X, b0, step)
    BY <1>1, <1>3, <2>2, Iterates, Zenon
  <2>5. /\ g \in [0..n -> X] /\ g[0] = b0
        /\ \A i \in 1..n : g[i] = step[i][g[i - 1]]
    BY <2>4 DEF Iterations
  <2>6. \A i \in 1..n : g[i] = BucketAddNodeActive(g[i - 1], isRoot, kns[i])
    <3>1. \A i \in 1..n : g[i - 1] \in X
      BY <1>1, <2>5
    <3> QED BY <2>3, <2>5, <3>1
  <2>7. \A i \in 0..n : g[i] = IF i = 0 THEN b ELSE BucketAddNodeActive(g[i - 1], isRoot, kns[i])
    <3>1. \A i \in 0..n : i = 0 \/ i \in 1..n
      BY <1>1
    <3> QED BY <2>1, <2>5, <2>6, <3>1, Zenon
  <2>8. g = [i \in 0..n |-> g[i]]
    BY <2>5
  <2>9. IsLoop(g)
    BY <2>7, <2>8, Zenon
  <2> QED BY <2>9, Zenon
<1>6. IsLoop(f)
  BY <1>5, Zenon
<1> HIDE DEF n, f
<1>7. /\ f[0] = b0
      /\ \A i \in 1..n : f[i] = BucketAddNodeActive(f[i - 1], isRoot, kns[i])
  <2>1. 0 \in 0..n /\ \A i \in 1..n : i \in 0..n /\ i # 0
    BY <1>1
  <2>2. \A i \in 0..n : f[i] = IF i = 0 THEN b ELSE BucketAddNodeActive(f[i - 1], isRoot, kns[i])
    BY <1>6, Zenon
  <2> QED BY <2>1, <2>2, Zenon
<1> HIDE DEF b0
<1>8. b0 = b /\ DOMAIN kns = 1..n /\ \A i \in 1..n : kns[i] \in KNode
  BY DEF b0, n
<1> DEFINE Pre(i) == {kns[j] : j \in 1..i}
           Good(i) == Added(b, f[i], isRoot, Pre(i), {})
           P == {i \in 0..n : Good(i)}
<1>9. 0 \in P
  <2>1. Pre(0) = {} /\ 0 \in 0..n
    BY <1>1
  <2> HIDE DEF Pre
  <2> QED BY <1>7, <1>8, <2>1, NothingAdded
<1>10. ASSUME NEW i \in 1..n, Good(i - 1) PROVE Good(i)
  <2>1. Pre(i) = Pre(i - 1) \cup {kns[i]}
    BY <1>1
  <2>2. BucketOK(f[i - 1])
    BY <1>10 DEF Added
  <2>3. kns[i].id \notin InBucket(f[i - 1])
    <3>1. InBucket(f[i - 1]) \subseteq InBucket(b) \cup {kn.id : kn \in Pre(i - 1)}
      <4> HIDE DEF Pre
      <4>1. InBucket(f[i - 1]) \subseteq InBucket(b) \cup {kn.id : kn \in Pre(i - 1) \cup {}}
        BY <1>10, AddedIDs
      <4> QED BY <4>1
    <3>2. \A j \in 1..(i - 1) : kns[j].id # kns[i].id
      BY <1>1, <1>8 DEF Distinct
    <3>3. kns[i].id \notin {kn.id : kn \in Pre(i - 1)}
      BY <3>2
    <3>4. kns[i].id \in IDs(kns)
      BY <1>8 DEF IDs
    <3> QED BY <3>1, <3>3, <3>4
  <2>4. Added(f[i - 1], f[i], isRoot, {kns[i]}, {})
    BY <1>7, <1>8, <2>2, <2>3, AddNodeActiveAdds
  <2> HIDE DEF Pre
  <2>5. Added(b, f[i], isRoot, Pre(i - 1) \cup {kns[i]}, {} \cup {})
    BY <1>10, <2>4, AddedTwice
  <2>6. {} \cup {} = {}
    OBVIOUS
  <2> QED BY <2>1, <2>5, <2>6
<1>11. \A i \in 1..n : i - 1 \in P => i \in P
  <2> HIDE DEF Good
  <2> QED BY <1>1, <1>10
<1>12. 0..n \subseteq P
  <2> HIDE DEF P
  <2> QED BY <1>1, <1>9, <1>11, IntervalInduction
<1>13. Good(n)
  <2>1. n \in 0..n
    BY <1>1
  <2> HIDE DEF Good
  <2> QED BY <1>12, <2>1
<1>14. Pre(n) = Range(kns)
  BY <1>8 DEF Range
<1> HIDE DEF Pre
<1> QED BY <1>2, <1>13, <1>14

LEMMA AddNodesAdds ==
    ASSUME NEW b, BucketOK(b), NEW kns \in Seq(KNode), Distinct(kns),
           IDs(kns) \cap InBucket(b) = {}, NEW isRoot \in BOOLEAN
    PROVE  Added(b, BucketAddNodes(b, isRoot, kns), isRoot, {}, Range(kns))
<1> DEFINE n == Len(kns)
           b0 == b
           X == KBucket
           IsLoop(g) == g = [i \in 0..n |-> IF i = 0 THEN b ELSE BucketAddNode(g[i - 1], isRoot, kns[i])]
           f == CHOOSE g : IsLoop(g)
<1>1. n \in Nat
  OBVIOUS
<1>2. BucketAddNodes(b, isRoot, kns) = f[n]
  BY Zenon DEF BucketAddNodes
<1>3. b0 \in X
  BY DEF BucketOK
<1>4. ASSUME NEW i \in 1..n, NEW u \in X
      PROVE  BucketAddNode(u, isRoot, kns[i]) \in X
  <2>1. kns[i] \in KNode
    OBVIOUS
  <2>2. /\ u = [active |-> u.active, cache |-> u.cache]
        /\ Append(u.active, kns[i]) \in Seq(KNode) /\ Append(u.cache, kns[i]) \in Seq(KNode)
    BY <2>1 DEF KBucket
  <2> QED BY <2>2 DEF KBucket, BucketAddNode
<1>5. \E g : IsLoop(g)
  <2> DEFINE step == [i \in 1..n |-> [u \in X |-> BucketAddNode(u, isRoot, kns[i])]]
  <2>1. b0 = b
    OBVIOUS
  <2> HIDE DEF n, X, b0
  <2>2. step \in Steps(n, X)
    BY <1>4 DEF Steps
  <2>3. \A i \in 1..n : \A u \in X : step[i][u] = BucketAddNode(u, isRoot, kns[i])
    OBVIOUS
  <2> HIDE DEF step
  <2>4. PICK g : g \in Iterations(n, X, b0, step)
    BY <1>1, <1>3, <2>2, Iterates, Zenon
  <2>5. /\ g \in [0..n -> X] /\ g[0] = b0
        /\ \A i \in 1..n : g[i] = step[i][g[i - 1]]
    BY <2>4 DEF Iterations
  <2>6. \A i \in 1..n : g[i] = BucketAddNode(g[i - 1], isRoot, kns[i])
    <3>1. \A i \in 1..n : g[i - 1] \in X
      BY <1>1, <2>5
    <3> QED BY <2>3, <2>5, <3>1
  <2>7. \A i \in 0..n : g[i] = IF i = 0 THEN b ELSE BucketAddNode(g[i - 1], isRoot, kns[i])
    <3>1. \A i \in 0..n : i = 0 \/ i \in 1..n
      BY <1>1
    <3> QED BY <2>1, <2>5, <2>6, <3>1, Zenon
  <2>8. g = [i \in 0..n |-> g[i]]
    BY <2>5
  <2>9. IsLoop(g)
    BY <2>7, <2>8, Zenon
  <2> QED BY <2>9, Zenon
<1>6. IsLoop(f)
  BY <1>5, Zenon
<1> HIDE DEF n, f
<1>7. /\ f[0] = b0
      /\ \A i \in 1..n : f[i] = BucketAddNode(f[i - 1], isRoot, kns[i])
  <2>1. 0 \in 0..n /\ \A i \in 1..n : i \in 0..n /\ i # 0
    BY <1>1
  <2>2. \A i \in 0..n : f[i] = IF i = 0 THEN b ELSE BucketAddNode(f[i - 1], isRoot, kns[i])
    BY <1>6, Zenon
  <2> QED BY <2>1, <2>2, Zenon
<1> HIDE DEF b0
<1>8. b0 = b /\ DOMAIN kns = 1..n /\ \A i \in 1..n : kns[i] \in KNode
  BY DEF b0, n
<1> DEFINE Pre(i) == {kns[j] : j \in 1..i}
           Good(i) == Added(b, f[i], isRoot, {}, Pre(i))
           P == {i \in 0..n : Good(i)}
<1>9. 0 \in P
  <2>1. Pre(0) = {} /\ 0 \in 0..n
    BY <1>1
  <2> HIDE DEF Pre
  <2> QED BY <1>7, <1>8, <2>1, NothingAdded
<1>10. ASSUME NEW i \in 1..n, Good(i - 1) PROVE Good(i)
  <2>1. Pre(i) = Pre(i - 1) \cup {kns[i]}
    BY <1>1
  <2>2. BucketOK(f[i - 1])
    BY <1>10 DEF Added
  <2>3. kns[i].id \notin InBucket(f[i - 1])
    <3>1. InBucket(f[i - 1]) \subseteq InBucket(b) \cup {kn.id : kn \in Pre(i - 1)}
      <4> HIDE DEF Pre
      <4>1. InBucket(f[i - 1]) \subseteq InBucket(b) \cup {kn.id : kn \in {} \cup Pre(i - 1)}
        BY <1>10, AddedIDs
      <4> QED BY <4>1
    <3>2. \A j \in 1..(i - 1) : kns[j].id # kns[i].id
      BY <1>1, <1>8 DEF Distinct
    <3>3. kns[i].id \notin {kn.id : kn \in Pre(i - 1)}
      BY <3>2
    <3>4. kns[i].id \in IDs(kns)
      BY <1>8 DEF IDs
    <3> QED BY <3>1, <3>3, <3>4
  <2>4. Added(f[i - 1], f[i], isRoot, {}, {kns[i]})
    BY <1>7, <1>8, <2>2, <2>3, AddNodeAdds
  <2> HIDE DEF Pre
  <2>5. Added(b, f[i], isRoot, {} \cup {}, Pre(i - 1) \cup {kns[i]})
    BY <1>10, <2>4, AddedTwice
  <2>6. {} \cup {} = {}
    OBVIOUS
  <2> QED BY <2>1, <2>5, <2>6
<1>11. \A i \in 1..n : i - 1 \in P => i \in P
  <2> HIDE DEF Good
  <2> QED BY <1>1, <1>10
<1>12. 0..n \subseteq P
  <2> HIDE DEF P
  <2> QED BY <1>1, <1>9, <1>11, IntervalInduction
<1>13. Good(n)
  <2>1. n \in 0..n
    BY <1>1
  <2> HIDE DEF Good
  <2> QED BY <1>12, <2>1
<1>14. Pre(n) = Range(kns)
  BY <1>8 DEF Range
<1> HIDE DEF Pre
<1> QED BY <1>2, <1>13, <1>14

LEMMA AddAllAdds ==
    ASSUME NEW b, BucketOK(b), NEW isRoot \in BOOLEAN,
           NEW active \in Seq(KNode), Distinct(active), NEW cache \in Seq(KNode), Distinct(cache),
           IDs(active) \cap IDs(cache) = {},
           IDs(active) \cap InBucket(b) = {}, IDs(cache) \cap InBucket(b) = {}
    PROVE  Added(b, BucketAddAll(b, isRoot, active, cache), isRoot, Range(active), Range(cache))
<1> DEFINE u == BucketAddNodesActive(b, isRoot, active)
           v == BucketAddNodes(u, isRoot, cache)
<1>1. Added(b, u, isRoot, Range(active), {})
  BY AddNodesActiveAdds
<1>2. BucketOK(u)
  BY <1>1 DEF Added
<1> HIDE DEF u
<1>3. IDs(cache) \cap InBucket(u) = {}
  <2>1. InBucket(u) \subseteq InBucket(b) \cup {kn.id : kn \in Range(active) \cup {}}
    BY <1>1, AddedIDs
  <2>2. {kn.id : kn \in Range(active) \cup {}} = IDs(active)
    BY RangeIDs
  <2> QED BY <2>1, <2>2
<1>4. Added(u, v, isRoot, {}, Range(cache))
  BY <1>2, <1>3, AddNodesAdds
<1> HIDE DEF v
<1>5. Added(b, v, isRoot, Range(active) \cup {}, {} \cup Range(cache))
  BY <1>1, <1>4, AddedTwice
<1>6. Range(active) \cup {} = Range(active) /\ {} \cup Range(cache) = Range(cache)
  OBVIOUS
<1> QED BY <1>5, <1>6 DEF BucketAddAll, u, v

----------------------------------------------------------------------------
(***************************************************************************)
(* What the other methods of a bucket do to it.                            *)
(***************************************************************************)
LEMMA BucketParts ==
    ASSUME NEW b, BucketOK(b)
    PROVE  /\ b.active \in Seq(KNode) /\ b.cache \in Seq(KNode)
           /\ Distinct(b.active) /\ Distinct(b.cache)
           /\ b = [active |-> b.active, cache |-> b.cache]
           /\ IDs(b.active) \cap IDs(b.cache) = {}
           /\ Len(b.active) \in Nat /\ Len(b.cache) \in Nat
           /\ IDs(b.active) = {kn.id : kn \in Range(b.active)}
           /\ IDs(b.cache) = {kn.id : kn \in Range(b.cache)}
           /\ Range(b.active) \subseteq KNode /\ Range(b.cache) \subseteq KNode
BY RangeIDs DEF BucketOK, KBucket

LEMMA RemoveIDsKeeps ==
    ASSUME NEW b, BucketOK(b), NEW ids
    PROVE  LET u == BucketRemoveIDs(b, ids)
           IN  /\ BucketOK(u)
               /\ Range(u.active) = {kn \in Range(b.active) : kn.id \notin ids}
               /\ Range(u.cache) = {kn \in Range(b.cache) : kn.id \notin ids}
               /\ IDs(u.active) = IDs(b.active) \ ids
               /\ IDs(u.cache) = IDs(b.cache) \ ids
               /\ InBucket(u) = InBucket(b) \ ids
               /\ Len(u.active) <= Len(b.active) /\ Len(u.cache) <= Len(b.cache)
               /\ WithinLimits(b) => WithinLimits(u)
<1> DEFINE A == {kn \in Range(b.active) : kn.id \notin ids}
           C == {kn \in Range(b.cache) : kn.id \notin ids}
           ua == Only(b.active, A)
           uc == Only(b.cache, C)
<1>1. BucketRemoveIDs(b, ids) = [active |-> ua, cache |-> uc]
  BY DEF BucketRemoveIDs, Without
<1>2. /\ b.active \in Seq(KNode) /\ b.cache \in Seq(KNode)
      /\ Distinct(b.active) /\ Distinct(b.cache)
      /\ IDs(b.active) \cap IDs(b.cache) = {}
      /\ Len(b.active) \in Nat /\ Len(b.cache) \in Nat
  BY BucketParts
<1> HIDE DEF A, C
<1>3. /\ ua \in Seq(KNode) /\ Distinct(ua)
      /\ Range(ua) = Range(b.active) \cap A /\ Len(ua) <= Len(b.active)
  BY <1>2, OnlyIs
<1>4. /\ uc \in Seq(KNode) /\ Distinct(uc)
      /\ Range(uc) = Range(b.cache) \cap C /\ Len(uc) <= Len(b.cache)
  BY <1>2, OnlyIs
<1>5. Range(ua) = A /\ Range(uc) = C
  BY <1>3, <1>4 DEF A, C
<1> HIDE DEF ua, uc
<1>6. IDs(ua) = IDs(b.active) \ ids
  BY <1>5, IDsOfRange DEF A
<1>7. IDs(uc) = IDs(b.cache) \ ids
  BY <1>5, IDsOfRange DEF C
<1>8. BucketOK([active |-> ua, cache |-> uc])
  BY <1>2, <1>3, <1>4, <1>6, <1>7 DEF BucketOK, KBucket
<1>9. Len(ua) \in Nat /\ Len(uc) \in Nat
  BY <1>3, <1>4
<1>10. WithinLimits(b) => WithinLimits([active |-> ua, cache |-> uc])
  BY <1>2, <1>3, <1>4, <1>9, ConstantTypes DEF WithinLimits
<1> QED BY <1>1, <1>3, <1>4, <1>5, <1>6, <1>7, <1>8, <1>10 DEF A, C, InBucket

LEMMA AtDepthIs ==
    ASSUME NEW s \in Seq(KNode), Distinct(s), NEW me, NEW d
    PROVE  /\ AtDepth(me, s, d) \in Seq(KNode)
           /\ Distinct(AtDepth(me, s, d))
           /\ Range(AtDepth(me, s, d)) = {kn \in Range(s) : Depth(me, kn.id) = d}
           /\ IDs(AtDepth(me, s, d)) = {id \in IDs(s) : Depth(me, id) = d}
<1> DEFINE S == {kn \in Range(s) : Depth(me, kn.id) = d}
           u == AtDepth(me, s, d)
<1>1. u = Only(s, S)
  BY DEF AtDepth
<1> HIDE DEF S, u
<1>2. u \in Seq(KNode) /\ Distinct(u) /\ Range(u) = Range(s) \cap S
  BY <1>1, OnlyIs
<1>3. Range(u) = S
  BY <1>2 DEF S
<1>4. IDs(u) = {id \in IDs(s) : Depth(me, id) = d}
  BY <1>3, IDsOfRange DEF S
<1> QED BY <1>2, <1>3, <1>4 DEF S, u

LEMMA NewNodeType ==
    ASSUME NEW id \in NodeID
    PROVE  NewNode(id) \in KNode /\ NewNode(id).id = id /\ NewNode(id).ticks_last = 0
BY ConstantTypes DEF NewNode, KNode

\* A message of the node only makes this node active.
LEMMA NodeActiveKeeps ==
    ASSUME NEW b, BucketOK(b), NEW isRoot \in BOOLEAN, NEW id \in NodeID
    PROVE  LET u == BucketNodeActive(b, isRoot, id)
           IN  /\ BucketOK(u)
               /\ InBucket(u) = InBucket(b)
               /\ Range(u.active) \subseteq
                     {kn \in Range(b.active) : kn.id # id} \cup {NewNode(id)}
               /\ Range(u.cache) \subseteq
                     {kn \in Range(b.cache) : kn.id # id} \cup {NewNode(id)}
               /\ IDs(b.active) \subseteq IDs(u.active)
               /\ ~isRoot /\ WithinLimits(b) => WithinLimits(u)
<1> DEFINE u == BucketNodeActive(b, isRoot, id)
           rest == BucketRemoveIDs(b, {id})
           new == NewNode(id)
<1>1. /\ b.active \in Seq(KNode) /\ b.cache \in Seq(KNode)
      /\ Distinct(b.active) /\ Distinct(b.cache)
      /\ b = [active |-> b.active, cache |-> b.cache]
      /\ IDs(b.active) \cap IDs(b.cache) = {}
      /\ Len(b.active) \in Nat /\ Len(b.cache) \in Nat
      /\ IDs(b.active) = {kn.id : kn \in Range(b.active)}
      /\ IDs(b.cache) = {kn.id : kn \in Range(b.cache)}
  BY BucketParts
<1>2. /\ BucketOK(rest)
      /\ Range(rest.active) = {kn \in Range(b.active) : kn.id \notin {id}}
      /\ Range(rest.cache) = {kn \in Range(b.cache) : kn.id \notin {id}}
      /\ IDs(rest.active) = IDs(b.active) \ {id}
      /\ IDs(rest.cache) = IDs(b.cache) \ {id}
      /\ Len(rest.active) <= Len(b.active) /\ Len(rest.cache) <= Len(b.cache)
  BY RemoveIDsKeeps
<1>3. new \in KNode /\ new.id = id
  BY NewNodeType
<1> HIDE DEF new, rest
<1>4. /\ rest.active \in Seq(KNode) /\ rest.cache \in Seq(KNode)
      /\ Distinct(rest.active) /\ Distinct(rest.cache)
      /\ rest = [active |-> rest.active, cache |-> rest.cache]
      /\ Len(rest.active) \in Nat /\ Len(rest.cache) \in Nat
  BY <1>2, BucketParts
<1>5. CASE id \in IDs(b.active)
  <2> DEFINE a == [i \in DOMAIN b.active |-> IF b.active[i].id = id THEN new ELSE b.active[i]]
  <2>1. u = [active |-> a, cache |-> b.cache]
    BY <1>1, <1>5 DEF BucketNodeActive, new
  <2>2. a \in Seq(KNode) /\ DOMAIN a = DOMAIN b.active /\ Len(a) = Len(b.active)
    BY <1>1, <1>3
  <2>3. \A i \in DOMAIN a : a[i].id = b.active[i].id
    BY <1>3
  <2>4. Range(a) \subseteq {kn \in Range(b.active) : kn.id # id} \cup {new}
    BY DEF Range
  <2> HIDE DEF a
  <2>5. Distinct(a)
    BY <1>1, <2>2, <2>3 DEF Distinct
  <2>6. IDs(a) = IDs(b.active)
    BY <2>2, <2>3 DEF IDs
  <2>7. BucketOK(u)
    <3> HIDE DEF u
    <3>1. u.active = a /\ u.cache = b.cache /\ u \in KBucket
      BY <1>1, <2>1, <2>2 DEF KBucket
    <3> QED BY <1>1, <2>5, <2>6, <3>1 DEF BucketOK
  <2>8. Range(b.cache) \subseteq {kn \in Range(b.cache) : kn.id # id} \cup {new}
    BY <1>1, <1>5
  <2>9. ~isRoot /\ WithinLimits(b) => WithinLimits(u)
    BY <2>1, <2>2 DEF WithinLimits
  <2> HIDE DEF u
  <2> QED BY <2>1, <2>4, <2>6, <2>7, <2>8, <2>9 DEF InBucket, u, new
<1>6. CASE id \notin IDs(b.active) /\ id \notin IDs(b.cache)
  <2>1. u = b
    BY <1>6 DEF BucketNodeActive
  <2>2. /\ Range(b.active) \subseteq {kn \in Range(b.active) : kn.id # id}
        /\ Range(b.cache) \subseteq {kn \in Range(b.cache) : kn.id # id}
    BY <1>1, <1>6
  <2> HIDE DEF u
  <2> QED BY <2>1, <2>2 DEF u, new
<1>7. CASE id \notin IDs(b.active) /\ id \in IDs(b.cache)
  <2>1. id \notin IDs(rest.active) /\ id \notin IDs(rest.cache)
    BY <1>2
  <2>2. Len(rest.cache) < Len(b.cache)
    <3>1. /\ IsFiniteSet(IDs(b.cache)) /\ Len(b.cache) = Cardinality(IDs(b.cache))
          /\ Len(rest.cache) = Cardinality(IDs(rest.cache))
      BY <1>1, <1>4, LenIsCount
    <3>2. Cardinality(IDs(b.cache) \ {id}) = Cardinality(IDs(b.cache)) - 1
      BY <1>7, <3>1, FS_RemoveElement
    <3> QED BY <1>1, <1>2, <3>1, <3>2
  <2>3. CASE isRoot \/ Len(b.active) < K
    <3> DEFINE a == Append(rest.active, new)
    <3>1. u = [active |-> a, cache |-> rest.cache]
      BY <1>4, <1>7, <2>3 DEF BucketNodeActive, rest, new
    <3>2. /\ a \in Seq(KNode) /\ Distinct(a)
          /\ Range(a) = Range(rest.active) \cup {new}
          /\ IDs(a) = IDs(rest.active) \cup {id}
          /\ Len(a) = Len(rest.active) + 1
      BY <1>3, <1>4, <2>1, AppendNode
    <3> HIDE DEF a
    <3>3. BucketOK(u)
      <4> HIDE DEF u
      <4>1. u.active = a /\ u.cache = rest.cache /\ u \in KBucket
        BY <1>4, <3>1, <3>2 DEF KBucket
      <4>2. IDs(a) \cap IDs(rest.cache) = {}
        BY <1>1, <1>2, <3>2
      <4> QED BY <1>4, <3>2, <4>1, <4>2 DEF BucketOK
    <3>4. ~isRoot /\ WithinLimits(b) => WithinLimits(u)
      BY <1>1, <1>2, <1>4, <2>3, <3>1, <3>2, ConstantTypes DEF WithinLimits
    <3>5. InBucket(u) = InBucket(b) /\ IDs(b.active) \subseteq IDs(u.active)
      BY <1>2, <1>7, <3>1, <3>2 DEF InBucket
    <3> HIDE DEF u
    <3> QED BY <1>2, <3>1, <3>2, <3>3, <3>4, <3>5 DEF u, new
  <2>4. CASE ~(isRoot \/ Len(b.active) < K)
    <3> DEFINE c == Append(rest.cache, new)
    <3>1. u = [active |-> rest.active, cache |-> c]
      BY <1>4, <1>7, <2>4 DEF BucketNodeActive, rest, new
    <3>2. /\ c \in Seq(KNode) /\ Distinct(c)
          /\ Range(c) = Range(rest.cache) \cup {new}
          /\ IDs(c) = IDs(rest.cache) \cup {id}
          /\ Len(c) = Len(rest.cache) + 1
      BY <1>3, <1>4, <2>1, AppendNode
    <3> HIDE DEF c
    <3>3. BucketOK(u)
      <4> HIDE DEF u
      <4>1. u.active = rest.active /\ u.cache = c /\ u \in KBucket
        BY <1>4, <3>1, <3>2 DEF KBucket
      <4>2. IDs(rest.active) \cap IDs(c) = {}
        BY <1>1, <1>2, <2>1, <3>2
      <4> QED BY <1>4, <3>2, <4>1, <4>2 DEF BucketOK
    <3>4. ~isRoot /\ WithinLimits(b) => WithinLimits(u)
      BY <1>1, <1>2, <1>4, <2>2, <3>1, <3>2, ConstantTypes DEF WithinLimits
    <3>5. InBucket(u) = InBucket(b) /\ IDs(b.active) \subseteq IDs(u.active)
      BY <1>2, <1>7, <3>1, <3>2 DEF InBucket
    <3> HIDE DEF u
    <3> QED BY <1>2, <3>1, <3>2, <3>3, <3>4, <3>5 DEF u, new
  <2> QED BY <2>3, <2>4
<1> HIDE DEF u
<1> QED BY <1>5, <1>6, <1>7 DEF u

\* A node with one tick more, which may have reached the timeout.
TickedNode == [id : NodeID, ticks_last : 0..PingTimeout]

LEMMA TickedType ==
    ASSUME NEW kn \in KNode
    PROVE  /\ Ticked(kn) \in TickedNode /\ kn \in TickedNode
           /\ Ticked(kn).id = kn.id
           /\ Ticked(kn).ticks_last = kn.ticks_last + 1
           /\ kn.ticks_last \in Nat /\ kn.ticks_last < PingTimeout
           /\ kn.id \in NodeID
<1>1. /\ kn = [id |-> kn.id, ticks_last |-> kn.ticks_last]
      /\ kn.id \in NodeID /\ kn.ticks_last \in 0..(PingTimeout - 1)
  BY DEF KNode
<1>2. Ticked(kn) = [id |-> kn.id, ticks_last |-> kn.ticks_last + 1]
  BY <1>1 DEF Ticked
<1>3. kn.ticks_last + 1 \in 0..PingTimeout /\ kn.ticks_last \in 0..PingTimeout
  BY <1>1, ConstantTypes
<1> QED BY <1>1, <1>2, <1>3, ConstantTypes DEF TickedNode

LEMMA AliveIs ==
    ASSUME NEW s \in Seq(TickedNode), Distinct(s)
    PROVE  /\ Alive(s) \in Seq(KNode) /\ Distinct(Alive(s))
           /\ Range(Alive(s)) = {kn \in Range(s) : kn.ticks_last < PingTimeout}
           /\ IDs(Alive(s)) \subseteq IDs(s)
           /\ Len(Alive(s)) <= Len(s)
<1> DEFINE S == {kn \in Range(s) : kn.ticks_last < PingTimeout}
           u == Alive(s)
<1>1. u = Only(s, S)
  BY DEF Alive
<1> HIDE DEF S, u
<1>2. u \in Seq(TickedNode) /\ Distinct(u) /\ Range(u) = Range(s) \cap S /\ Len(u) <= Len(s)
  BY <1>1, OnlyIs
<1>3. Range(u) = S
  BY <1>2 DEF S
<1>4. IDs(u) \subseteq IDs(s)
  BY <1>3, IDsOfRange DEF S
<1>5. \A i \in 1..Len(u) : u[i] \in KNode
  <2> SUFFICES ASSUME NEW i \in 1..Len(u) PROVE u[i] \in KNode
    OBVIOUS
  <2>1. u[i] \in TickedNode /\ u[i] \in Range(u)
    BY <1>2 DEF Range
  <2>2. u[i].ticks_last < PingTimeout
    BY <2>1, <1>3 DEF S
  <2> QED BY <2>1, <2>2, ConstantTypes DEF TickedNode, KNode
<1>6. u \in Seq(KNode)
  <2>1. Len(u) \in Nat /\ u = [i \in 1..Len(u) |-> u[i]]
    BY <1>2
  <2> QED BY <1>5, <2>1, IsASeq
<1> QED BY <1>2, <1>3, <1>4, <1>6 DEF S, u

\* What a tick does to a bucket: only nodes that reach the timeout go, and
\* those that get older without a message are pinged after an interval.
TicksTo(b, c, pinged) ==
    /\ BucketOK(c)
    /\ IDs(c.active) \subseteq IDs(b.active) /\ IDs(c.cache) \subseteq IDs(b.cache)
    /\ \A x \in Range(c.active) : \E kn \in Range(b.active) :
          /\ x = Ticked(kn)
          /\ (kn.ticks_last + 1) % PingInterval = 0 => kn.id \in pinged
    /\ \A x \in Range(c.cache) : \E kn \in Range(b.cache) :
          \/ x = kn
          \/ /\ x = Ticked(kn)
             /\ kn.ticks_last % PingInterval = 0 => kn.id \in pinged
    /\ \A kn \in Range(b.active) \cup Range(b.cache) :
          kn.ticks_last + 1 < PingTimeout => kn.id \in InBucket(c)
    /\ WithinLimits(b) => WithinLimits(c)

LEMMA TickKeeps ==
    ASSUME NEW b, BucketOK(b), NEW isRoot \in BOOLEAN
    PROVE  TicksTo(b, BucketTick(b, isRoot), BucketPings(b, isRoot))
<1> DEFINE u == BucketTick(b, isRoot)
           a == TickedActive(b)
           c == TickedCache(b, isRoot)
           ua == Alive(a)
           uc == Alive(c)
<1>1. /\ b.active \in Seq(KNode) /\ b.cache \in Seq(KNode)
      /\ Distinct(b.active) /\ Distinct(b.cache)
      /\ IDs(b.active) \cap IDs(b.cache) = {}
      /\ Len(b.active) \in Nat /\ Len(b.cache) \in Nat
  BY BucketParts
<1>2. /\ DOMAIN b.active = 1..Len(b.active) /\ DOMAIN b.cache = 1..Len(b.cache)
      /\ \A i \in DOMAIN b.active : b.active[i] \in KNode
      /\ \A i \in DOMAIN b.cache : b.cache[i] \in KNode
  BY <1>1
<1>3. /\ DOMAIN a = DOMAIN b.active
      /\ \A i \in DOMAIN a : a[i] = Ticked(b.active[i])
  BY DEF TickedActive
<1>4. /\ DOMAIN c = DOMAIN b.cache
      /\ \A i \in DOMAIN c : c[i] = IF i <= Fillup(b, isRoot) THEN Ticked(b.cache[i]) ELSE b.cache[i]
  BY DEF TickedCache
<1>5. a \in Seq(TickedNode) /\ Len(a) = Len(b.active)
  <2>1. \A i \in DOMAIN a : a[i] \in TickedNode
    BY <1>2, <1>3, TickedType
  <2>2. a = [i \in 1..Len(b.active) |-> a[i]]
    BY <1>2 DEF TickedActive
  <2> DEFINE n == Len(b.active)
  <2>3. n \in Nat /\ a = [i \in 1..n |-> a[i]] /\ \A i \in 1..n : a[i] \in TickedNode
    BY <1>1, <1>2, <1>3, <2>1, <2>2
  <2> HIDE DEF a, n
  <2>4. a \in Seq(TickedNode) /\ Len(a) = n
    BY <2>3
  <2> QED BY <2>4 DEF n
<1>6. c \in Seq(TickedNode) /\ Len(c) = Len(b.cache)
  <2>1. \A i \in DOMAIN c : c[i] \in TickedNode
    BY <1>2, <1>4, TickedType
  <2>2. c = [i \in 1..Len(b.cache) |-> c[i]]
    BY <1>2 DEF TickedCache
  <2> DEFINE n == Len(b.cache)
  <2>3. n \in Nat /\ c = [i \in 1..n |-> c[i]] /\ \A i \in 1..n : c[i] \in TickedNode
    BY <1>1, <1>2, <1>4, <2>1, <2>2
  <2> HIDE DEF c, n
  <2>4. c \in Seq(TickedNode) /\ Len(c) = n
    BY <2>3
  <2> QED BY <2>4 DEF n
<1>7. u = [active |-> ua, cache |-> uc]
  BY DEF BucketTick
<1> HIDE DEF a, c
<1>8. /\ \A i \in DOMAIN a : a[i].id = b.active[i].id
      /\ \A i \in DOMAIN c : c[i].id = b.cache[i].id
  BY <1>2, <1>3, <1>4, TickedType
<1>9. Distinct(a) /\ IDs(a) = IDs(b.active)
  BY <1>1, <1>3, <1>8 DEF Distinct, IDs
<1>10. Distinct(c) /\ IDs(c) = IDs(b.cache)
  BY <1>1, <1>4, <1>8 DEF Distinct, IDs
<1>11. /\ ua \in Seq(KNode) /\ Distinct(ua)
       /\ Range(ua) = {kn \in Range(a) : kn.ticks_last < PingTimeout}
       /\ IDs(ua) \subseteq IDs(b.active) /\ Len(ua) <= Len(b.active)
  BY <1>5, <1>9, AliveIs
<1>12. /\ uc \in Seq(KNode) /\ Distinct(uc)
       /\ Range(uc) = {kn \in Range(c) : kn.ticks_last < PingTimeout}
       /\ IDs(uc) \subseteq IDs(b.cache) /\ Len(uc) <= Len(b.cache)
  BY <1>6, <1>10, AliveIs
<1> HIDE DEF ua, uc, u
<1>13. BucketOK(u) /\ (WithinLimits(b) => WithinLimits(u))
  <2>1. u \in KBucket /\ u.active = ua /\ u.cache = uc
    BY <1>7, <1>11, <1>12 DEF KBucket
  <2>2. Len(ua) \in Nat /\ Len(uc) \in Nat
    BY <1>11, <1>12
  <2>3. BucketOK(u)
    BY <1>1, <1>11, <1>12, <2>1 DEF BucketOK
  <2> QED BY <1>1, <1>11, <1>12, <2>1, <2>2, <2>3, ConstantTypes DEF WithinLimits
<1>14. ASSUME NEW x \in Range(u.active)
       PROVE  \E kn \in Range(b.active) :
                 /\ x = Ticked(kn)
                 /\ (kn.ticks_last + 1) % PingInterval = 0 => kn.id \in BucketPings(b, isRoot)
  <2>1. x \in Range(a)
    BY <1>7, <1>11, <1>14
  <2>2. PICK i \in DOMAIN a : x = a[i]
    BY <2>1 DEF Range
  <2>3. b.active[i] \in Range(b.active)
    BY <1>3 DEF Range
  <2>4. (b.active[i].ticks_last + 1) % PingInterval = 0 => b.active[i].id \in BucketPings(b, isRoot)
    BY <1>3 DEF BucketPings
  <2> QED BY <1>3, <2>2, <2>3, <2>4
<1>15. ASSUME NEW kn \in Range(b.active), kn.ticks_last + 1 < PingTimeout
       PROVE  kn.id \in InBucket(u)
  <2>1. PICK i \in DOMAIN b.active : kn = b.active[i]
    BY DEF Range
  <2>2. Ticked(kn) \in Range(a)
    BY <1>3, <2>1 DEF Range
  <2>3. Ticked(kn).ticks_last < PingTimeout /\ Ticked(kn).id = kn.id
    BY <1>2, <1>15, <2>1, TickedType
  <2>4. Ticked(kn) \in Range(u.active)
    BY <1>7, <1>11, <2>2, <2>3
  <2> QED BY <2>3, <2>4, IDsOfRange DEF InBucket
<1>16. ASSUME NEW x \in Range(u.cache)
       PROVE  \E kn \in Range(b.cache) :
                 \/ x = kn
                 \/ /\ x = Ticked(kn)
                    /\ kn.ticks_last % PingInterval = 0 => kn.id \in BucketPings(b, isRoot)
  <2>1. PICK i \in DOMAIN b.cache : x = c[i]
    BY <1>4, <1>7, <1>12 DEF Range
  <2>2. b.cache[i] \in Range(b.cache)
    BY DEF Range
  <2>3. CASE i <= Fillup(b, isRoot)
    <3>1. b.cache[i].ticks_last % PingInterval = 0 => b.cache[i].id \in BucketPings(b, isRoot)
      BY <2>3 DEF BucketPings
    <3> QED BY <1>4, <2>1, <2>2, <2>3, <3>1
  <2>4. CASE ~(i <= Fillup(b, isRoot))
    BY <1>4, <2>1, <2>2, <2>4
  <2> QED BY <2>3, <2>4
<1>17. ASSUME NEW kn \in Range(b.cache), kn.ticks_last + 1 < PingTimeout
       PROVE  kn.id \in InBucket(u)
  <2>1. PICK i \in DOMAIN b.cache : kn = b.cache[i]
    BY DEF Range
  <2>2. c[i] \in Range(c) /\ c[i].id = kn.id
    BY <1>4, <1>8, <2>1 DEF Range
  <2>3. c[i].ticks_last < PingTimeout
    BY <1>2, <1>4, <1>17, <2>1, TickedType
  <2>4. c[i] \in Range(u.cache)
    BY <1>7, <1>12, <2>2, <2>3
  <2> QED BY <2>2, <2>4, IDsOfRange DEF InBucket
<1>18. IDs(u.active) \subseteq IDs(b.active) /\ IDs(u.cache) \subseteq IDs(b.cache)
  BY <1>7, <1>11, <1>12
<1> QED BY <1>13, <1>14, <1>15, <1>16, <1>17, <1>18 DEF u, TicksTo

LEMMA TicksToMore ==
    ASSUME NEW b, NEW c, NEW pinged, TicksTo(b, c, pinged), NEW more, pinged \subseteq more
    PROVE  TicksTo(b, c, more)
<1>1. \A x \in Range(c.active) : \E kn \in Range(b.active) :
         /\ x = Ticked(kn)
         /\ (kn.ticks_last + 1) % PingInterval = 0 => kn.id \in more
  BY DEF TicksTo
<1>2. \A x \in Range(c.cache) : \E kn \in Range(b.cache) :
         \/ x = kn
         \/ /\ x = Ticked(kn)
            /\ kn.ticks_last % PingInterval = 0 => kn.id \in more
  BY DEF TicksTo
<1> QED BY <1>1, <1>2 DEF TicksTo

----------------------------------------------------------------------------
(***************************************************************************)
(* Tables.                                                                 *)
(***************************************************************************)
\* The tables me can have between two calls, but for RootBucketSettled.
Tables(me) ==
    {t \in [buckets : Seq(KBucket), root_bucket : KBucket] :
        /\ Len(t.buckets) <= MaxDepth + 1
        /\ \A i \in DOMAIN t.buckets :
              /\ BucketOK(t.buckets[i]) /\ WithinLimits(t.buckets[i])
              /\ \A id \in InBucket(t.buckets[i]) : id # me /\ Depth(me, id) = i - 1
        /\ BucketOK(t.root_bucket)
        /\ \A id \in InBucket(t.root_bucket) : id # me /\ Depth(me, id) >= Len(t.buckets)}

LEMMA TableParts ==
    ASSUME NEW me, NEW t \in Tables(me)
    PROVE  /\ t = [buckets |-> t.buckets, root_bucket |-> t.root_bucket]
           /\ t.buckets \in Seq(KBucket) /\ t.root_bucket \in KBucket
           /\ Len(t.buckets) \in Nat /\ DOMAIN t.buckets = 1..Len(t.buckets)
           /\ Len(t.buckets) <= MaxDepth + 1
           /\ \A i \in 1..Len(t.buckets) :
                 /\ BucketOK(t.buckets[i]) /\ WithinLimits(t.buckets[i])
                 /\ \A id \in InBucket(t.buckets[i]) : id # me /\ Depth(me, id) = i - 1
           /\ BucketOK(t.root_bucket)
           /\ \A id \in InBucket(t.root_bucket) : id # me /\ Depth(me, id) >= Len(t.buckets)
<1>1. t \in [buckets : Seq(KBucket), root_bucket : KBucket]
  BY DEF Tables
<1>2. /\ t = [buckets |-> t.buckets, root_bucket |-> t.root_bucket]
      /\ t.buckets \in Seq(KBucket) /\ t.root_bucket \in KBucket
  BY <1>1
<1>3. Len(t.buckets) \in Nat /\ DOMAIN t.buckets = 1..Len(t.buckets)
  BY <1>2
<1> QED BY <1>2, <1>3 DEF Tables

OtherBuckets(t, d) ==
    IF HasBucket(t, d)
    THEN {t.buckets[i] : i \in DOMAIN t.buckets \ {d + 1}} \cup {t.root_bucket}
    ELSE Range(t.buckets)

\* Every depth has a bucket, and no node is in the other ones too.
LEMMA OneBucket ==
    ASSUME NEW me \in NodeID, NEW t \in Tables(me), NEW d \in Nat
    PROVE  /\ Buckets(t) = OtherBuckets(t, d) \cup {BucketOf(t, d)}
           /\ BucketOK(BucketOf(t, d))
           /\ HasBucket(t, d) => WithinLimits(BucketOf(t, d))
           /\ \A id \in InBucket(BucketOf(t, d)) :
                 /\ id # me
                 /\ HasBucket(t, d) => Depth(me, id) = d
                 /\ ~HasBucket(t, d) => Depth(me, id) >= Len(t.buckets)
           /\ \A b \in OtherBuckets(t, d) :
                 /\ BucketOK(b)
                 /\ \A id \in InBucket(b) :
                       /\ id # me /\ Depth(me, id) # d
                       /\ id \notin InBucket(BucketOf(t, d))
<1> DEFINE n == Len(t.buckets)
<1>1. /\ n \in Nat /\ DOMAIN t.buckets = 1..n
      /\ \A i \in 1..n : /\ BucketOK(t.buckets[i]) /\ WithinLimits(t.buckets[i])
                         /\ \A id \in InBucket(t.buckets[i]) : id # me /\ Depth(me, id) = i - 1
      /\ BucketOK(t.root_bucket)
      /\ \A id \in InBucket(t.root_bucket) : id # me /\ Depth(me, id) >= n
  BY TableParts
<1>2. \A id \in InBucket(t.root_bucket) : Depth(me, id) \in Nat
  <2>1. InBucket(t.root_bucket) \subseteq NodeID
    BY <1>1, KNodesOfBucket
  <2> QED BY <2>1, ConstantTypes
<1>3. HasBucket(t, d) <=> d < n
  BY DEF HasBucket
<1> HIDE DEF n
<1>4. CASE d < n
  <2>1. BucketOf(t, d) = t.buckets[d + 1] /\ d + 1 \in 1..n
    BY <1>1, <1>3, <1>4 DEF BucketOf
  <2>2. OtherBuckets(t, d) = {t.buckets[i] : i \in 1..n \ {d + 1}} \cup {t.root_bucket}
    BY <1>1, <1>3, <1>4 DEF OtherBuckets
  <2>3. Buckets(t) = OtherBuckets(t, d) \cup {BucketOf(t, d)}
    BY <1>1, <2>1, <2>2 DEF Buckets, Range
  <2>4. ASSUME NEW i \in 1..n, i # d + 1, NEW id \in InBucket(t.buckets[i])
        PROVE  Depth(me, id) # d
    <3>1. Depth(me, id) = i - 1
      BY <1>1
    <3> QED BY <1>1, <2>4, <3>1
  <2>5. ASSUME NEW id \in InBucket(t.root_bucket) PROVE Depth(me, id) # d
    BY <1>1, <1>2, <1>4
  <2>6. \A id \in InBucket(t.buckets[d + 1]) : Depth(me, id) = d
    <3>1. (d + 1) - 1 = d
      OBVIOUS
    <3> QED BY <1>1, <2>1, <3>1
  <2>7. ASSUME NEW b \in OtherBuckets(t, d)
        PROVE  BucketOK(b) /\ \A id \in InBucket(b) : id # me /\ Depth(me, id) # d
    <3>1. CASE b = t.root_bucket
      BY <1>1, <2>5, <3>1
    <3>2. CASE b # t.root_bucket
      <4>1. PICK i \in 1..n : i # d + 1 /\ b = t.buckets[i]
        BY <2>2, <3>2
      <4> QED BY <1>1, <2>4, <4>1
    <3> QED BY <3>1, <3>2
  <2> QED BY <1>1, <1>3, <1>4, <2>1, <2>3, <2>6, <2>7
<1>5. CASE ~(d < n)
  <2>1. BucketOf(t, d) = t.root_bucket
    BY <1>3, <1>5 DEF BucketOf
  <2>2. OtherBuckets(t, d) = {t.buckets[i] : i \in 1..n}
    BY <1>1, <1>3, <1>5 DEF OtherBuckets, Range
  <2>3. Buckets(t) = OtherBuckets(t, d) \cup {BucketOf(t, d)}
    BY <1>1, <2>1, <2>2 DEF Buckets, Range
  <2>4. ASSUME NEW b \in OtherBuckets(t, d)
        PROVE  /\ BucketOK(b)
               /\ \A id \in InBucket(b) : /\ id # me /\ Depth(me, id) # d
                                          /\ id \notin InBucket(BucketOf(t, d))
    <3>1. PICK i \in 1..n : b = t.buckets[i]
      BY <2>2
    <3>2. ASSUME NEW id \in InBucket(b)
          PROVE  id # me /\ Depth(me, id) # d /\ id \notin InBucket(t.root_bucket)
      <4>1. id # me /\ Depth(me, id) = i - 1
        BY <1>1, <3>1
      <4>2. i - 1 < n /\ i - 1 # d
        BY <1>1, <1>5
      <4>3. id \notin InBucket(t.root_bucket)
        BY <1>1, <4>1, <4>2
      <4> QED BY <4>1, <4>2, <4>3
    <3> QED BY <1>1, <2>1, <3>1, <3>2
  <2> QED BY <1>1, <1>3, <1>5, <2>1, <2>3, <2>4
<1> QED BY <1>4, <1>5

\* A bucket may be replaced by one for the same depth.
LEMMA Replaced ==
    ASSUME NEW me \in NodeID, NEW t \in Tables(me), NEW d \in Nat,
           NEW b, BucketOK(b), HasBucket(t, d) => WithinLimits(b),
           \A id \in InBucket(b) : \/ id \in InBucket(BucketOf(t, d))
                                   \/ id # me /\ Depth(me, id) = d
    PROVE  LET u == WithBucket(t, d, b)
           IN  /\ u \in Tables(me)
               /\ Buckets(u) = OtherBuckets(t, d) \cup {b}
               /\ Len(u.buckets) = Len(t.buckets)
               /\ HasBucket(t, d) => u.root_bucket = t.root_bucket
               /\ ~HasBucket(t, d) => u.root_bucket = b
<1> DEFINE u == WithBucket(t, d, b)
           n == Len(t.buckets)
           s == [t.buckets EXCEPT ![d + 1] = b]
<1>1. /\ t = [buckets |-> t.buckets, root_bucket |-> t.root_bucket]
      /\ t.buckets \in Seq(KBucket) /\ t.root_bucket \in KBucket
      /\ n \in Nat /\ DOMAIN t.buckets = 1..n /\ n <= MaxDepth + 1
      /\ \A i \in 1..n : /\ BucketOK(t.buckets[i]) /\ WithinLimits(t.buckets[i])
                         /\ \A id \in InBucket(t.buckets[i]) : id # me /\ Depth(me, id) = i - 1
      /\ BucketOK(t.root_bucket)
      /\ \A id \in InBucket(t.root_bucket) : id # me /\ Depth(me, id) >= n
  BY TableParts
<1>2. /\ \A id \in InBucket(BucketOf(t, d)) :
            /\ id # me
            /\ HasBucket(t, d) => Depth(me, id) = d
            /\ ~HasBucket(t, d) => Depth(me, id) >= n
  BY OneBucket
<1>3. b \in KBucket
  BY DEF BucketOK
<1>4. HasBucket(t, d) <=> d < n
  BY DEF HasBucket
<1>5. CASE d < n
  <2>1. u = [buckets |-> s, root_bucket |-> t.root_bucket]
    BY <1>1, <1>4, <1>5 DEF WithBucket
  <2>2. d + 1 \in 1..n
    BY <1>1, <1>5
  <2>3. /\ s \in Seq(KBucket) /\ Len(s) = n /\ DOMAIN s = 1..n
        /\ s[d + 1] = b
        /\ \A i \in 1..n \ {d + 1} : s[i] = t.buckets[i]
    BY <1>1, <1>3, <2>2
  <2> HIDE DEF u, s, n
  <2>4. ASSUME NEW i \in 1..n
        PROVE  /\ BucketOK(s[i]) /\ WithinLimits(s[i])
               /\ \A id \in InBucket(s[i]) : id # me /\ Depth(me, id) = i - 1
    <3>1. CASE i = d + 1
      <4>1. s[i] = b /\ i - 1 = d
        BY <2>3, <3>1
      <4>2. \A id \in InBucket(b) : id # me /\ Depth(me, id) = d
        BY <1>2, <1>4, <1>5
      <4> QED BY <1>4, <1>5, <4>1, <4>2
    <3>2. CASE i # d + 1
      BY <1>1, <2>3, <3>2
    <3> QED BY <3>1, <3>2
  <2>5. u \in Tables(me)
    BY <1>1, <2>1, <2>3, <2>4 DEF Tables
  <2>6. OtherBuckets(t, d) = {t.buckets[i] : i \in 1..n \ {d + 1}} \cup {t.root_bucket}
    BY <1>1, <1>4, <1>5 DEF OtherBuckets
  <2>7. Range(s) = {t.buckets[i] : i \in 1..n \ {d + 1}} \cup {b}
    <3>1. Range(s) = {s[i] : i \in 1..n}
      BY <2>3 DEF Range
    <3> QED BY <2>2, <2>3, <3>1
  <2>8. Buckets(u) = OtherBuckets(t, d) \cup {b}
    BY <2>1, <2>6, <2>7 DEF Buckets
  <2> QED BY <1>4, <1>5, <2>1, <2>3, <2>5, <2>8 DEF u, n
<1>6. CASE ~(d < n)
  <2>1. u = [buckets |-> t.buckets, root_bucket |-> b]
    BY <1>1, <1>4, <1>6 DEF WithBucket
  <2> HIDE DEF u, n
  <2>2. \A id \in InBucket(b) : id # me /\ Depth(me, id) >= n
    BY <1>1, <1>2, <1>4, <1>6
  <2>3. u \in Tables(me)
    <3>1. Len(t.buckets) = n
      BY DEF n
    <3> QED BY <1>1, <1>3, <2>1, <2>2, <3>1 DEF Tables
  <2>4. Buckets(u) = OtherBuckets(t, d) \cup {b}
    BY <1>4, <1>6, <2>1 DEF Buckets, OtherBuckets
  <2> QED BY <1>4, <1>6, <2>1, <2>3, <2>4 DEF u, n
<1> QED BY <1>5, <1>6

\* The nodes of a table, with their ticks.
ActiveOf(t) == UNION {Range(b.active) : b \in Buckets(t)}
CachedOf(t) == UNION {Range(b.cache) : b \in Buckets(t)}
CachedNodes(t) == UNION {IDs(b.cache) : b \in Buckets(t)}

LEMMA NodesOfTable ==
    ASSUME NEW me \in NodeID, NEW t \in Tables(me)
    PROVE  /\ \A b \in Buckets(t) : BucketOK(b)
           /\ ActiveNodes(t) = {kn.id : kn \in ActiveOf(t)}
           /\ CachedNodes(t) = {kn.id : kn \in CachedOf(t)}
           /\ Known(t) = ActiveNodes(t) \cup CachedNodes(t)
           /\ Known(t) = UNION {InBucket(b) : b \in Buckets(t)}
           /\ Known(t) \subseteq NodeID \ {me}
           /\ ActiveOf(t) \subseteq KNode /\ CachedOf(t) \subseteq KNode
<1>1. \A b \in Buckets(t) : BucketOK(b) /\ \A id \in InBucket(b) : id # me
  BY OneBucket, ConstantTypes DEF Buckets
<1>2. ASSUME NEW b \in Buckets(t)
      PROVE  /\ IDs(b.active) = {kn.id : kn \in Range(b.active)}
             /\ IDs(b.cache) = {kn.id : kn \in Range(b.cache)}
             /\ Range(b.active) \subseteq KNode /\ Range(b.cache) \subseteq KNode
             /\ IDs(KNodes(b)) = InBucket(b)
             /\ InBucket(b) \subseteq NodeID
             /\ InBucket(b) = IDs(b.active) \cup IDs(b.cache)
  <2>1. BucketOK(b)
    BY <1>1
  <2> QED BY <2>1, BucketParts, KNodesOfBucket DEF InBucket
<1>3. ActiveNodes(t) = {kn.id : kn \in ActiveOf(t)}
  BY <1>2 DEF ActiveNodes, ActiveOf
<1>4. CachedNodes(t) = {kn.id : kn \in CachedOf(t)}
  BY <1>2 DEF CachedNodes, CachedOf
<1>5. Known(t) = UNION {InBucket(b) : b \in Buckets(t)}
  BY <1>2 DEF Known
<1>6. Known(t) = ActiveNodes(t) \cup CachedNodes(t)
  BY <1>2, <1>5 DEF ActiveNodes, CachedNodes
<1>7. Known(t) \subseteq NodeID \ {me}
  BY <1>1, <1>2, <1>5
<1>8. ActiveOf(t) \subseteq KNode /\ CachedOf(t) \subseteq KNode
  BY <1>2 DEF ActiveOf, CachedOf
<1> QED BY <1>1, <1>3, <1>4, <1>5, <1>6, <1>7, <1>8

LEMMA ActiveNotCached ==
    ASSUME NEW me \in NodeID, NEW t \in Tables(me)
    PROVE  ActiveNodes(t) \cap CachedNodes(t) = {}
<1> SUFFICES ASSUME NEW id \in ActiveNodes(t), id \in CachedNodes(t) PROVE FALSE
  OBVIOUS
<1> DEFINE d == Depth(me, id)
<1>1. PICK b \in Buckets(t) : id \in IDs(b.active)
  BY DEF ActiveNodes
<1>2. PICK c \in Buckets(t) : id \in IDs(c.cache)
  BY DEF CachedNodes
<1>3. id \in NodeID
  BY NodesOfTable
<1>4. d \in Nat
  BY <1>3, ConstantTypes
<1>5. id \in InBucket(b) /\ id \in InBucket(c)
  BY <1>1, <1>2 DEF InBucket
<1>6. b = BucketOf(t, d) /\ c = BucketOf(t, d)
  BY <1>4, <1>5, OneBucket
<1>7. BucketOK(b)
  BY NodesOfTable
<1> QED BY <1>1, <1>2, <1>6, <1>7 DEF BucketOK

\* What splitting and merging do to the nodes of a table: none becomes active
\* by them, and no depth loses all its active nodes.
Moves(me, t, u) ==
    /\ ActiveOf(u) \subseteq ActiveOf(t)
    /\ CachedOf(u) \subseteq CachedOf(t) \cup ActiveOf(t)
    /\ \A kn \in ActiveOf(t) : \E x \in ActiveOf(u) : Depth(me, x.id) = Depth(me, kn.id)

LEMMA MovesTwice ==
    ASSUME NEW me, NEW t, NEW u, NEW v, Moves(me, t, u), Moves(me, u, v)
    PROVE  Moves(me, t, v)
<1>1. \A kn \in ActiveOf(t) : \E x \in ActiveOf(v) : Depth(me, x.id) = Depth(me, kn.id)
  <2> SUFFICES ASSUME NEW kn \in ActiveOf(t)
               PROVE  \E x \in ActiveOf(v) : Depth(me, x.id) = Depth(me, kn.id)
    OBVIOUS
  <2>1. PICK x \in ActiveOf(u) : Depth(me, x.id) = Depth(me, kn.id)
    BY DEF Moves
  <2>2. PICK y \in ActiveOf(v) : Depth(me, y.id) = Depth(me, x.id)
    BY DEF Moves
  <2> QED BY <2>1, <2>2
<1> QED BY <1>1 DEF Moves

\* What is removed from an overflowing bucket, all at its first depth: nothing
\* of that depth has to stay.
LEMMA AllRemoved ==
    ASSUME NEW me \in NodeID, NEW b, BucketOK(b), Overflowing(me, b),
           NEW d \in Nat, \A id \in InBucket(b) : Depth(me, id) >= d
    PROVE  /\ RemovedActive(me, b, d) = AtDepth(me, b.active, d)
           /\ RemovedCache(me, b, d) = AtDepth(me, b.cache, d)
<1> DEFINE ids == InBucket(b)
           at == {id \in ids : Depth(me, id) = d}
           deep == Deeper(me, ids)
           a == AtDepth(me, b.active, d)
           c == AtDepth(me, b.cache, d)
<1>1. /\ b.active \in Seq(KNode) /\ b.cache \in Seq(KNode)
      /\ Distinct(b.active) /\ Distinct(b.cache) /\ IDs(b.active) \cap IDs(b.cache) = {}
  BY BucketParts
<1>2. /\ IsFiniteSet(ids) /\ Len(KNodes(b)) = Cardinality(ids) /\ ids \subseteq NodeID
  BY KNodesOfBucket
<1>3. Cardinality(ids) >= 2 * K /\ Cardinality(deep) >= K
  BY OverflowingIsCrowded DEF Crowded
<1>4. /\ a \in Seq(KNode) /\ Distinct(a) /\ IDs(a) = {id \in IDs(b.active) : Depth(me, id) = d}
      /\ c \in Seq(KNode) /\ Distinct(c) /\ IDs(c) = {id \in IDs(b.cache) : Depth(me, id) = d}
  BY <1>1, AtDepthIs
<1>5. at = IDs(a) \cup IDs(c) /\ IDs(a) \cap IDs(c) = {}
  BY <1>1, <1>4 DEF InBucket
<1>6. at \cap deep = {}
  <2> SUFFICES ASSUME NEW id \in at, id \in deep PROVE FALSE
    OBVIOUS
  <2>1. PICK other \in ids : Depth(me, other) < Depth(me, id)
    BY DEF Deeper
  <2>2. Depth(me, other) >= d /\ Depth(me, id) = d /\ Depth(me, other) \in Nat
    BY <1>2, ConstantTypes
  <2> QED BY <2>1, <2>2
<1>7. deep \subseteq ids /\ at \subseteq ids
  BY DEF Deeper
<1> HIDE DEF ids, at, deep, a, c
<1>8. Cardinality(at) + Cardinality(deep) <= Cardinality(ids)
  <2>1. IsFiniteSet(at) /\ IsFiniteSet(deep) /\ IsFiniteSet(at \cup deep)
    <3>1. at \cup deep \subseteq ids
      BY <1>7
    <3> QED BY <1>2, <1>7, <3>1, FS_Subset
  <2>2. Cardinality(at \cup deep) = Cardinality(at) + Cardinality(deep)
    <3>1. Cardinality(at \cup deep)
            = Cardinality(at) + Cardinality(deep) - Cardinality(at \cap deep)
      BY <2>1, FS_Union
    <3>2. Cardinality(at \cap deep) = 0
      BY <1>6, FS_EmptySet
    <3>3. Cardinality(at) \in Nat /\ Cardinality(deep) \in Nat
      BY <2>1, FS_CardinalityType
    <3> QED BY <3>1, <3>2, <3>3
  <2>3. Cardinality(at \cup deep) <= Cardinality(ids)
    <3>1. at \cup deep \subseteq ids
      BY <1>7
    <3> QED BY <1>2, <3>1, FS_Subset
  <2> QED BY <2>2, <2>3
<1>9. /\ Len(a) = Cardinality(IDs(a)) /\ Len(c) = Cardinality(IDs(c))
      /\ IsFiniteSet(IDs(a)) /\ IsFiniteSet(IDs(c)) /\ Len(a) \in Nat /\ Len(c) \in Nat
  <2>1. IsFiniteSet(IDs(a)) /\ Len(a) = Cardinality(IDs(a))
    BY <1>4, LenIsCount
  <2>2. IsFiniteSet(IDs(c)) /\ Len(c) = Cardinality(IDs(c))
    BY <1>4, LenIsCount
  <2> QED BY <2>1, <2>2, FS_CardinalityType
<1>10. Cardinality(at) = Len(a) + Len(c)
  <2>1. Cardinality(IDs(a) \cup IDs(c))
          = Cardinality(IDs(a)) + Cardinality(IDs(c)) - Cardinality(IDs(a) \cap IDs(c))
    BY <1>9, FS_Union
  <2>2. Cardinality(IDs(a) \cap IDs(c)) = 0
    BY <1>5, FS_EmptySet
  <2> QED BY <1>5, <1>9, <2>1, <2>2
<1> DEFINE l == Len(KNodes(b))
           max == Max({0, l - K})
<1>11. l \in Nat /\ l >= 2 * K /\ Len(a) + Len(c) <= l - K
  <2>1. l = Cardinality(ids)
    BY <1>2
  <2>2. Cardinality(ids) \in Nat /\ Cardinality(deep) \in Nat
    <3>1. IsFiniteSet(deep)
      BY <1>2, <1>7, FS_Subset
    <3> QED BY <1>2, <3>1, FS_CardinalityType
  <2> HIDE DEF l
  <2> QED BY <1>3, <1>8, <1>9, <1>10, <2>1, <2>2, ConstantTypes
<1> HIDE DEF l
<1>12. max = l - K
  <2>1. l - K >= 0 /\ l - K \in Int
    BY <1>11, ConstantTypes
  <2> QED BY <2>1 DEF Max
<1>13. ASSUME NEW x \in Nat, NEW y \in Int, x <= y PROVE Min({x, y}) = x
  BY <1>13 DEF Min
<1>14. RemovedCache(me, b, d) = c
  <2>1. RemovedCache(me, b, d) = SubSeq(c, 1, Min({Len(c), max}))
    BY DEF RemovedCache, c, l
  <2>2. Len(c) <= max /\ max \in Int
    BY <1>9, <1>11, <1>12, ConstantTypes
  <2>3. Min({Len(c), max}) = Len(c)
    BY <1>9, <1>13, <2>2
  <2>4. SubSeq(c, 1, Len(c)) = c
    BY <1>4
  <2> QED BY <2>1, <2>3, <2>4
<1>15. RemovedActive(me, b, d) = a
  <2>1. RemovedActive(me, b, d) = SubSeq(a, 1, Min({Len(a), max - Len(c)}))
    BY <1>14 DEF RemovedActive, a, l
  <2>2. Len(a) <= max - Len(c) /\ max - Len(c) \in Int
    BY <1>9, <1>11, <1>12, ConstantTypes
  <2>3. Min({Len(a), max - Len(c)}) = Len(a)
    BY <1>9, <1>13, <2>2
  <2>4. SubSeq(a, 1, Len(a)) = a
    BY <1>4
  <2> QED BY <2>1, <2>3, <2>4
<1> QED BY <1>14, <1>15 DEF a, c

LEMMA EmptyBucketOK ==
    BucketOK(EmptyBucket) /\ InBucket(EmptyBucket) = {} /\ WithinLimits(EmptyBucket)
       /\ Range(EmptyBucket.active) = {} /\ Range(EmptyBucket.cache) = {}
<1>1. /\ EmptyBucket.active = <<>> /\ EmptyBucket.cache = <<>>
      /\ EmptyBucket \in KBucket
  BY DEF EmptyBucket, KBucket
<1>2. DOMAIN <<>> = {} /\ Len(<<>>) = 0
  OBVIOUS
<1> QED BY <1>1, <1>2, ConstantTypes
        DEF BucketOK, Distinct, IDs, InBucket, WithinLimits, Range

\* A split moves all nodes of the root bucket's first depth, and keeps as many
\* of them as a bucket has room for, active ones among them if there are any.
LEMMA SplitKeeps ==
    ASSUME NEW me \in NodeID, NEW t \in Tables(me), Overflowing(me, t.root_bucket)
    PROVE  LET u == Split(me, t)
           IN  /\ u \in Tables(me)
               /\ Len(u.buckets) = Len(t.buckets) + 1
               /\ Moves(me, t, u)
<1> DEFINE u == Split(me, t)
           n == Len(t.buckets)
           r == t.root_bucket
           ids == InBucket(r)
           a == AtDepth(me, r.active, n)
           c == AtDepth(me, r.cache, n)
           new == BucketAddAll(EmptyBucket, FALSE, a, c)
           rest == BucketRemoveIDs(r, IDs(a) \cup IDs(c))
           s == Append(t.buckets, new)
<1>1. /\ t = [buckets |-> t.buckets, root_bucket |-> r]
      /\ t.buckets \in Seq(KBucket)
      /\ n \in Nat /\ DOMAIN t.buckets = 1..n
      /\ \A i \in 1..n : /\ BucketOK(t.buckets[i]) /\ WithinLimits(t.buckets[i])
                         /\ \A id \in InBucket(t.buckets[i]) : id # me /\ Depth(me, id) = i - 1
      /\ BucketOK(r)
      /\ \A id \in ids : id # me /\ Depth(me, id) >= n
  BY TableParts
<1>2. u = [buckets |-> s, root_bucket |-> rest]
  <2>1. RemovedActive(me, r, n) = a /\ RemovedCache(me, r, n) = c
    <3> HIDE DEF a, c, n, r
    <3>1. \A id \in InBucket(r) : Depth(me, id) >= n
      BY <1>1 DEF ids
    <3>2. Overflowing(me, r)
      BY DEF r
    <3> QED BY <1>1, <3>1, <3>2, AllRemoved DEF a, c
  <2> HIDE DEF a, c
  <2> QED BY <2>1 DEF Split
<1>3. /\ r.active \in Seq(KNode) /\ r.cache \in Seq(KNode)
      /\ Distinct(r.active) /\ Distinct(r.cache) /\ IDs(r.active) \cap IDs(r.cache) = {}
  BY <1>1, BucketParts
<1> HIDE DEF u, r, n
<1>4. /\ a \in Seq(KNode) /\ Distinct(a)
      /\ Range(a) = {kn \in Range(r.active) : Depth(me, kn.id) = n}
      /\ IDs(a) = {id \in IDs(r.active) : Depth(me, id) = n}
      /\ c \in Seq(KNode) /\ Distinct(c)
      /\ Range(c) = {kn \in Range(r.cache) : Depth(me, kn.id) = n}
      /\ IDs(c) = {id \in IDs(r.cache) : Depth(me, id) = n}
  BY <1>3, AtDepthIs
<1> HIDE DEF a, c
<1>5. Added(EmptyBucket, new, FALSE, Range(a), Range(c))
  <2>1. IDs(a) \cap IDs(c) = {} /\ IDs(a) \cap {} = {} /\ IDs(c) \cap {} = {}
    BY <1>3, <1>4
  <2> QED BY <1>4, <2>1, EmptyBucketOK, AddAllAdds
<1> HIDE DEF new
<1>6. /\ BucketOK(new) /\ WithinLimits(new)
      /\ Range(new.active) \subseteq Range(a)
      /\ Range(new.cache) \subseteq Range(a) \cup Range(c)
      /\ Range(a) # {} => Range(new.active) # {}
  BY <1>5, EmptyBucketOK DEF Added
<1>7. \A id \in InBucket(new) : id \in ids /\ Depth(me, id) = n
  <2>1. InBucket(new) \subseteq InBucket(EmptyBucket) \cup {kn.id : kn \in Range(a) \cup Range(c)}
    BY <1>5, EmptyBucketOK, AddedIDs
  <2>2. {kn.id : kn \in Range(a) \cup Range(c)} = IDs(a) \cup IDs(c)
    BY IDsOfRange
  <2>3. IDs(a) \cup IDs(c) \subseteq {id \in ids : Depth(me, id) = n}
    BY <1>4 DEF InBucket
  <2> QED BY <2>1, <2>2, <2>3, EmptyBucketOK
<1>8. /\ BucketOK(rest)
      /\ Range(rest.active) = {kn \in Range(r.active) : kn.id \notin IDs(a) \cup IDs(c)}
      /\ Range(rest.cache) = {kn \in Range(r.cache) : kn.id \notin IDs(a) \cup IDs(c)}
      /\ InBucket(rest) = ids \ (IDs(a) \cup IDs(c))
  BY <1>1, RemoveIDsKeeps
<1> HIDE DEF rest
<1>9. ids \subseteq NodeID /\ \A id \in ids : Depth(me, id) \in 0..MaxDepth
  <2>1. ids \subseteq NodeID
    BY <1>1, KNodesOfBucket
  <2> QED BY <2>1, ConstantTypes
<1>10. \A id \in InBucket(rest) : id # me /\ Depth(me, id) >= n + 1
  <2> SUFFICES ASSUME NEW id \in InBucket(rest) PROVE id # me /\ Depth(me, id) >= n + 1
    OBVIOUS
  <2>1. id \in ids /\ id \notin IDs(a) \cup IDs(c)
    BY <1>8
  <2>2. Depth(me, id) # n
    BY <1>4, <2>1 DEF InBucket
  <2>3. Depth(me, id) \in Nat /\ Depth(me, id) >= n
    BY <1>1, <1>9, <2>1
  <2> QED BY <1>1, <2>1, <2>2, <2>3
<1>11. n + 1 <= MaxDepth + 1
  <2>1. Cardinality(Deeper(me, ids)) >= K
    <3>1. Overflowing(me, r)
      BY DEF r
    <3> QED BY <1>1, <3>1, OverflowingIsCrowded DEF Crowded
  <2>2. Deeper(me, ids) # {}
    BY <2>1, FS_EmptySet, ConstantTypes
  <2>3. PICK id \in ids, other \in ids : Depth(me, other) < Depth(me, id)
    BY <2>2 DEF Deeper
  <2>4. Depth(me, other) >= n /\ Depth(me, other) \in Nat /\ Depth(me, id) \in 0..MaxDepth
    BY <1>1, <1>9
  <2> QED BY <1>1, <2>3, <2>4, ConstantTypes
<1> HIDE DEF ids
<1>12. /\ s \in Seq(KBucket) /\ Len(s) = n + 1 /\ DOMAIN s = 1..(n + 1)
       /\ \A i \in 1..n : s[i] = t.buckets[i]
       /\ s[n + 1] = new
  <2>1. new \in KBucket
    BY <1>6 DEF BucketOK
  <2> QED BY <1>1, <2>1 DEF n
<1> HIDE DEF s
<1>13. u \in Tables(me)
  <2>1. ASSUME NEW i \in 1..(n + 1)
        PROVE  /\ BucketOK(s[i]) /\ WithinLimits(s[i])
               /\ \A id \in InBucket(s[i]) : id # me /\ Depth(me, id) = i - 1
    <3>1. CASE i = n + 1
      <4>1. s[i] = new /\ i - 1 = n
        BY <1>1, <1>12, <3>1
      <4>2. \A id \in InBucket(new) : id # me /\ Depth(me, id) = n
        BY <1>1, <1>7 DEF ids
      <4> QED BY <1>6, <4>1, <4>2
    <3>2. CASE i # n + 1
      <4>1. i \in 1..n
        BY <1>1, <3>2
      <4> QED BY <1>1, <1>12, <4>1
    <3> QED BY <3>1, <3>2
  <2>2. rest \in KBucket
    BY <1>8 DEF BucketOK
  <2> QED BY <1>2, <1>8, <1>10, <1>11, <1>12, <2>1, <2>2 DEF Tables
<1>14. Range(s) = Range(t.buckets) \cup {new}
  <2>1. Range(s) = {s[i] : i \in 1..(n + 1)} /\ Range(t.buckets) = {t.buckets[i] : i \in 1..n}
    BY <1>1, <1>12 DEF Range
  <2>2. \A i \in 1..(n + 1) : i \in 1..n \/ i = n + 1
    BY <1>1
  <2>3. \A i \in 1..n : i \in 1..(n + 1)
    BY <1>1
  <2>4. n + 1 \in 1..(n + 1)
    BY <1>1
  <2> QED BY <1>12, <2>1, <2>2, <2>3, <2>4
<1>15. /\ Buckets(t) = Range(t.buckets) \cup {r}
       /\ Buckets(u) = Range(t.buckets) \cup {new, rest}
  BY <1>2, <1>14 DEF Buckets, r
<1>16. ActiveOf(u) \subseteq ActiveOf(t)
  BY <1>4, <1>6, <1>8, <1>15 DEF ActiveOf
<1>17. CachedOf(u) \subseteq CachedOf(t) \cup ActiveOf(t)
  BY <1>4, <1>6, <1>8, <1>15 DEF ActiveOf, CachedOf
<1>18. ASSUME NEW kn \in ActiveOf(t)
       PROVE  \E x \in ActiveOf(u) : Depth(me, x.id) = Depth(me, kn.id)
  <2>1. PICK b \in Buckets(t) : kn \in Range(b.active)
    BY DEF ActiveOf
  <2>2. CASE b \in Range(t.buckets)
    BY <1>15, <2>1, <2>2 DEF ActiveOf
  <2>3. CASE b = r /\ Depth(me, kn.id) = n
    <3>1. kn \in Range(a)
      BY <1>4, <2>1, <2>3
    <3>2. PICK x : x \in Range(new.active)
      BY <1>6, <3>1
    <3>3. Depth(me, x.id) = n
      BY <1>4, <1>6, <3>2
    <3>4. x \in ActiveOf(u)
      BY <1>15, <3>2 DEF ActiveOf
    <3> QED BY <2>3, <3>3, <3>4
  <2>4. CASE b = r /\ Depth(me, kn.id) # n
    <3>1. kn.id \notin IDs(a) \cup IDs(c)
      BY <1>4, <2>4
    <3>2. kn \in Range(rest.active)
      BY <1>8, <2>1, <2>4, <3>1
    <3>3. kn \in ActiveOf(u)
      BY <1>15, <3>2 DEF ActiveOf
    <3> QED BY <3>3
  <2> QED BY <1>15, <2>1, <2>2, <2>3, <2>4
<1>19. Moves(me, t, u)
  BY <1>16, <1>17, <1>18 DEF Moves
<1>20. Len(u.buckets) = n + 1
  BY <1>2, <1>12
<1> QED BY <1>13, <1>19, <1>20 DEF u, n

\* A merge loses no node, and does not fill the root bucket so that it would
\* have to be split again: the nodes that come are its first depth.
LEMMA MergeKeeps ==
    ASSUME NEW me \in NodeID, NEW t \in Tables(me), Wanting(t.root_bucket), t.buckets # <<>>
    PROVE  LET u == Merge(t)
           IN  /\ u \in Tables(me)
               /\ Len(u.buckets) = Len(t.buckets) - 1
               /\ Moves(me, t, u)
               /\ ~Overflowing(me, u.root_bucket)
<1> DEFINE u == Merge(t)
           n == Len(t.buckets)
           r == t.root_bucket
           ids == InBucket(r)
           last == t.buckets[n]
           new == BucketAddAll(r, TRUE, last.active, last.cache)
           s == SubSeq(t.buckets, 1, n - 1)
<1>1. /\ t = [buckets |-> t.buckets, root_bucket |-> r]
      /\ t.buckets \in Seq(KBucket)
      /\ n \in Nat /\ DOMAIN t.buckets = 1..n /\ n <= MaxDepth + 1
      /\ \A i \in 1..n : /\ BucketOK(t.buckets[i]) /\ WithinLimits(t.buckets[i])
                         /\ \A id \in InBucket(t.buckets[i]) : id # me /\ Depth(me, id) = i - 1
      /\ BucketOK(r)
      /\ \A id \in ids : id # me /\ Depth(me, id) >= n
  BY TableParts
<1>2. n >= 1 /\ n \in 1..n /\ n - 1 \in Nat
  <2>1. n # 0
    BY <1>1
  <2> QED BY <1>1, <2>1
<1>3. u = [buckets |-> s, root_bucket |-> new]
  BY DEF Merge
<1>4. Wanting(r)
  BY DEF r
<1>5. /\ s \in Seq(KBucket) /\ Len(s) = n - 1 /\ DOMAIN s = 1..(n - 1)
      /\ \A i \in 1..(n - 1) : s[i] = t.buckets[i]
  <2> DEFINE q == t.buckets
             m == n - 1
  <2>1. q \in Seq(KBucket) /\ m \in Nat /\ m <= Len(q) /\ 1 \in Int /\ m \in Int
    BY <1>1, <1>2
  <2> HIDE DEF q, m
  <2>2. \A i \in 1..m : q[i] \in KBucket
    BY <2>1
  <2>3. /\ SubSeq(q, 1, m) \in Seq(KBucket)
        /\ Len(SubSeq(q, 1, m)) = IF 1 <= m THEN m - 1 + 1 ELSE 0
        /\ \A i \in 1..(m - 1 + 1) : SubSeq(q, 1, m)[i] = q[1 + i - 1]
    BY <2>1, <2>2, SubSeqProperties
  <2>4. Len(SubSeq(q, 1, m)) = m /\ \A i \in 1..m : SubSeq(q, 1, m)[i] = q[i]
    BY <2>1, <2>3
  <2>5. DOMAIN SubSeq(q, 1, m) = 1..m
    BY <2>3, <2>4
  <2> QED BY <2>3, <2>4, <2>5 DEF q, m
<1>6. /\ BucketOK(last)
      /\ \A id \in InBucket(last) : id # me /\ Depth(me, id) = n - 1
  BY <1>1, <1>2
<1>7. Range(t.buckets) = Range(s) \cup {last}
  <2>1. Range(s) = {t.buckets[i] : i \in 1..(n - 1)} /\ Range(t.buckets) = {t.buckets[i] : i \in 1..n}
    BY <1>1, <1>5 DEF Range
  <2>2. \A i \in 1..n : i \in 1..(n - 1) \/ i = n
    BY <1>1
  <2>3. \A i \in 1..(n - 1) : i \in 1..n
    BY <1>1
  <2> QED BY <1>2, <2>1, <2>2, <2>3
<1> HIDE DEF u, s, r, last
<1>8. ids \subseteq NodeID /\ InBucket(last) \subseteq NodeID
      /\ \A id \in ids \cup InBucket(last) : Depth(me, id) \in Nat
  <2>1. ids \subseteq NodeID /\ InBucket(last) \subseteq NodeID
    BY <1>1, <1>6, KNodesOfBucket
  <2> QED BY <2>1, ConstantTypes
<1>9. ids \cap InBucket(last) = {}
  <2> SUFFICES ASSUME NEW id \in ids, id \in InBucket(last) PROVE FALSE
    OBVIOUS
  <2>1. Depth(me, id) >= n /\ Depth(me, id) = n - 1
    BY <1>1, <1>6
  <2> QED BY <1>1, <2>1
<1>10. /\ last.active \in Seq(KNode) /\ last.cache \in Seq(KNode)
       /\ Distinct(last.active) /\ Distinct(last.cache)
       /\ IDs(last.active) \cap IDs(last.cache) = {}
  BY <1>6, BucketParts
<1>11. Added(r, new, TRUE, Range(last.active), Range(last.cache))
  <2>1. IDs(last.active) \cap InBucket(r) = {} /\ IDs(last.cache) \cap InBucket(r) = {}
    BY <1>9 DEF InBucket
  <2> QED BY <1>1, <1>10, <2>1, AddAllAdds
<1> HIDE DEF new
<1>12. /\ BucketOK(new)
       /\ Range(new.active) = Range(r.active) \cup Range(last.active)
       /\ Range(new.cache) \subseteq Range(r.cache) \cup Range(last.active) \cup Range(last.cache)
  BY <1>11 DEF Added
<1>13. InBucket(new) \subseteq ids \cup InBucket(last)
  <2>1. InBucket(new) \subseteq ids \cup {kn.id : kn \in Range(last.active) \cup Range(last.cache)}
    BY <1>1, <1>11, AddedIDs
  <2>2. {kn.id : kn \in Range(last.active) \cup Range(last.cache)} = IDs(last.active) \cup IDs(last.cache)
    BY IDsOfRange
  <2> QED BY <2>1, <2>2 DEF InBucket
<1>14. \A id \in InBucket(new) : id # me /\ Depth(me, id) >= n - 1
  <2> SUFFICES ASSUME NEW id \in InBucket(new) PROVE id # me /\ Depth(me, id) >= n - 1
    OBVIOUS
  <2>1. CASE id \in InBucket(last)
    <3>1. id # me /\ Depth(me, id) = n - 1
      BY <1>6, <2>1
    <3> QED BY <1>2, <3>1
  <2>2. CASE id \in ids
    <3>1. id # me /\ Depth(me, id) >= n /\ Depth(me, id) \in Nat
      BY <1>1, <1>8, <2>2
    <3> QED BY <1>1, <3>1
  <2> QED BY <1>13, <2>1, <2>2
<1>15. u \in Tables(me)
  <2>1. new \in KBucket
    BY <1>12 DEF BucketOK
  <2>2. \A i \in 1..(n - 1) : i \in 1..n
    BY <1>1
  <2>3. \A i \in 1..(n - 1) :
           /\ BucketOK(s[i]) /\ WithinLimits(s[i])
           /\ \A id \in InBucket(s[i]) : id # me /\ Depth(me, id) = i - 1
    BY <1>1, <1>5, <2>2
  <2>4. n - 1 <= MaxDepth + 1
    BY <1>1, ConstantTypes
  <2> HIDE DEF n
  <2> QED BY <1>3, <1>5, <1>12, <1>14, <2>1, <2>3, <2>4 DEF Tables
<1>16. /\ Buckets(t) = Range(s) \cup {last, r}
       /\ Buckets(u) = Range(s) \cup {new}
  BY <1>3, <1>7 DEF Buckets, r
<1>17. /\ ActiveOf(u) = ActiveOf(t)
       /\ CachedOf(u) \subseteq CachedOf(t) \cup ActiveOf(t)
  BY <1>12, <1>16 DEF ActiveOf, CachedOf
<1>18. Moves(me, t, u)
  BY <1>17 DEF Moves
<1>19. ~Overflowing(me, new)
  <2> SUFFICES ASSUME Overflowing(me, new) PROVE FALSE
    OBVIOUS
  <2> DEFINE deep == Deeper(me, InBucket(new))
  <2>1. Cardinality(deep) >= K
    BY <1>12, OverflowingIsCrowded DEF Crowded
  <2>2. deep \subseteq ids
    <3> SUFFICES ASSUME NEW id \in deep, id \notin ids PROVE FALSE
      OBVIOUS
    <3>1. PICK other \in InBucket(new) : Depth(me, other) < Depth(me, id) /\ id \in InBucket(new)
      BY DEF Deeper
    <3>2. Depth(me, id) = n - 1 /\ Depth(me, other) >= n - 1 /\ Depth(me, other) \in Nat
      BY <1>6, <1>8, <1>13, <1>14, <3>1
    <3> QED BY <1>2, <3>1, <3>2
  <2>3. IsFiniteSet(ids) /\ Cardinality(ids) < K
    BY <1>1, <1>4, KNodesOfBucket DEF Wanting
  <2> HIDE DEF deep, ids
  <2>4. Cardinality(deep) <= Cardinality(ids) /\ IsFiniteSet(deep)
    BY <2>2, <2>3, FS_Subset
  <2>5. Cardinality(deep) \in Nat /\ Cardinality(ids) \in Nat
    BY <2>3, <2>4, FS_CardinalityType
  <2> QED BY <2>1, <2>3, <2>4, <2>5, ConstantTypes
<1>20. u.root_bucket = new /\ u.buckets = s
  BY <1>3
<1> QED BY <1>5, <1>15, <1>18, <1>19, <1>20 DEF u, n

LEMMA MovesNone ==
    ASSUME NEW me, NEW t
    PROVE  Moves(me, t, t)
BY DEF Moves

LEMMA RebalanceOverflowKeeps ==
    ASSUME NEW me \in NodeID, NEW t \in Tables(me)
    PROVE  LET u == RebalanceOverflow(me, t)
           IN  /\ u \in Tables(me)
               /\ Moves(me, t, u)
               /\ ~Overflowing(me, u.root_bucket)
<1> DEFINE n == MaxDepth + 1
           b0 == t
           X == Tables(me)
           IsLoop(g) == g = [i \in 0..n |-> IF i = 0 THEN t ELSE IF Overflowing(me, g[i - 1].root_bucket) THEN Split(me, g[i - 1]) ELSE g[i - 1]]
           f == CHOOSE g : IsLoop(g)
<1>1. n \in Nat
  BY ConstantTypes
<1>2. RebalanceOverflow(me, t) = f[n]
  BY Zenon DEF RebalanceOverflow
<1>3. b0 \in X
  OBVIOUS
<1>4. ASSUME NEW i \in 1..n, NEW u \in X
      PROVE  (IF Overflowing(me, u.root_bucket) THEN Split(me, u) ELSE u) \in X
  <2> HIDE DEF X
  <2>1. CASE Overflowing(me, u.root_bucket)
    BY <2>1, SplitKeeps DEF X
  <2>2. CASE ~Overflowing(me, u.root_bucket)
    BY <2>2
  <2> QED BY <2>1, <2>2
<1>5. \E g : IsLoop(g)
  <2> DEFINE step == [i \in 1..n |-> [u \in X |-> IF Overflowing(me, u.root_bucket) THEN Split(me, u) ELSE u]]
  <2>1. b0 = t
    OBVIOUS
  <2> HIDE DEF n, X, b0
  <2>2. step \in Steps(n, X)
    BY <1>4 DEF Steps
  <2>3. \A i \in 1..n : \A u \in X : step[i][u] = IF Overflowing(me, u.root_bucket) THEN Split(me, u) ELSE u
    OBVIOUS
  <2> HIDE DEF step
  <2>4. PICK g : g \in Iterations(n, X, b0, step)
    BY <1>1, <1>3, <2>2, Iterates, Zenon
  <2>5. /\ g \in [0..n -> X] /\ g[0] = b0
        /\ \A i \in 1..n : g[i] = step[i][g[i - 1]]
    BY <2>4 DEF Iterations
  <2>6. \A i \in 1..n : g[i] = IF Overflowing(me, g[i - 1].root_bucket) THEN Split(me, g[i - 1]) ELSE g[i - 1]
    <3>1. \A i \in 1..n : g[i - 1] \in X
      BY <1>1, <2>5
    <3> QED BY <2>3, <2>5, <3>1
  <2>7. \A i \in 0..n : g[i] = IF i = 0 THEN t ELSE IF Overflowing(me, g[i - 1].root_bucket) THEN Split(me, g[i - 1]) ELSE g[i - 1]
    <3>1. \A i \in 0..n : i = 0 \/ i \in 1..n
      BY <1>1
    <3> QED BY <2>1, <2>5, <2>6, <3>1, Zenon
  <2>8. g = [i \in 0..n |-> g[i]]
    BY <2>5
  <2>9. IsLoop(g)
    BY <2>7, <2>8, Zenon
  <2> QED BY <2>9, Zenon
<1>6. IsLoop(f)
  BY <1>5, Zenon
<1> HIDE DEF n, f
<1>7. /\ f[0] = b0
      /\ \A i \in 1..n : f[i] = IF Overflowing(me, f[i - 1].root_bucket) THEN Split(me, f[i - 1]) ELSE f[i - 1]
  <2>1. 0 \in 0..n /\ \A i \in 1..n : i \in 0..n /\ i # 0
    BY <1>1
  <2>2. \A i \in 0..n : f[i] = IF i = 0 THEN t ELSE IF Overflowing(me, f[i - 1].root_bucket) THEN Split(me, f[i - 1]) ELSE f[i - 1]
    BY <1>6, Zenon
  <2> QED BY <2>1, <2>2, Zenon

<1> HIDE DEF b0
<1>8. b0 = t
  BY DEF b0
<1> DEFINE Good(i) == /\ f[i] \in Tables(me)
                      /\ Moves(me, t, f[i])
                      /\ ~Overflowing(me, f[i].root_bucket) \/ Len(f[i].buckets) >= i
           P == {i \in 0..n : Good(i)}
<1>9. 0 \in P
  <2>1. Len(t.buckets) >= 0 /\ 0 \in 0..n
    BY <1>1, TableParts
  <2> QED BY <1>7, <1>8, <2>1, MovesNone
<1>10. ASSUME NEW i \in 1..n, Good(i - 1) PROVE Good(i)
  <2>1. CASE Overflowing(me, f[i - 1].root_bucket)
    <3>1. f[i] = Split(me, f[i - 1])
      BY <1>7, <2>1
    <3>2. /\ f[i] \in Tables(me) /\ Moves(me, f[i - 1], f[i])
          /\ Len(f[i].buckets) = Len(f[i - 1].buckets) + 1
      BY <1>10, <2>1, <3>1, SplitKeeps
    <3>3. Moves(me, t, f[i])
      BY <1>10, <3>2, MovesTwice
    <3>4. Len(f[i - 1].buckets) >= i - 1 /\ Len(f[i - 1].buckets) \in Nat
      BY <1>10, <2>1, TableParts
    <3>5. Len(f[i].buckets) >= i
      BY <3>2, <3>4
    <3> QED BY <3>2, <3>3, <3>5
  <2>2. CASE ~Overflowing(me, f[i - 1].root_bucket)
    BY <1>7, <1>10, <2>2
  <2> QED BY <2>1, <2>2
<1>11. \A i \in 1..n : i - 1 \in P => i \in P
  <2> HIDE DEF Good
  <2> QED BY <1>1, <1>10
<1>12. 0..n \subseteq P
  <2> HIDE DEF P
  <2> QED BY <1>1, <1>9, <1>11, IntervalInduction
<1>13. Good(n)
  <2>1. n \in 0..n
    BY <1>1
  <2> HIDE DEF Good
  <2> QED BY <1>12, <2>1
<1>14. ~Overflowing(me, f[n].root_bucket)
  <2> SUFFICES ASSUME Overflowing(me, f[n].root_bucket) PROVE FALSE
    OBVIOUS
  <2>1. /\ Split(me, f[n]) \in Tables(me)
        /\ Len(Split(me, f[n]).buckets) = Len(f[n].buckets) + 1
    BY <1>13, SplitKeeps
  <2>2. Len(Split(me, f[n]).buckets) <= MaxDepth + 1
    BY <2>1, TableParts
  <2>3. Len(f[n].buckets) >= n /\ Len(f[n].buckets) \in Nat
    BY <1>13, TableParts
  <2> QED BY <2>1, <2>2, <2>3, ConstantTypes DEF n
<1> QED BY <1>2, <1>13, <1>14

LEMMA RebalanceWantingKeeps ==
    ASSUME NEW me \in NodeID, NEW t \in Tables(me), ~Overflowing(me, t.root_bucket)
    PROVE  LET u == RebalanceWanting(t)
           IN  /\ u \in Tables(me)
               /\ Moves(me, t, u)
               /\ ~Overflowing(me, u.root_bucket)
<1> DEFINE n == Len(t.buckets)
           b0 == t
           X == Tables(me)
           IsLoop(g) == g = [i \in 0..n |-> IF i = 0 THEN t ELSE IF Wanting(g[i - 1].root_bucket) /\ g[i - 1].buckets # <<>> THEN Merge(g[i - 1]) ELSE g[i - 1]]
           f == CHOOSE g : IsLoop(g)
<1>1. n \in Nat
  BY TableParts
<1>2. RebalanceWanting(t) = f[n]
  BY Zenon DEF RebalanceWanting
<1>3. b0 \in X
  OBVIOUS
<1>4. ASSUME NEW i \in 1..n, NEW u \in X
      PROVE  (IF Wanting(u.root_bucket) /\ u.buckets # <<>> THEN Merge(u) ELSE u) \in X
  <2> HIDE DEF X
  <2>1. CASE Wanting(u.root_bucket) /\ u.buckets # <<>>
    BY <2>1, MergeKeeps DEF X
  <2>2. CASE ~(Wanting(u.root_bucket) /\ u.buckets # <<>>)
    BY <2>2
  <2> QED BY <2>1, <2>2
<1>5. \E g : IsLoop(g)
  <2> DEFINE step == [i \in 1..n |-> [u \in X |-> IF Wanting(u.root_bucket) /\ u.buckets # <<>> THEN Merge(u) ELSE u]]
  <2>1. b0 = t
    OBVIOUS
  <2> HIDE DEF n, X, b0
  <2>2. step \in Steps(n, X)
    BY <1>4 DEF Steps
  <2>3. \A i \in 1..n : \A u \in X : step[i][u] = IF Wanting(u.root_bucket) /\ u.buckets # <<>> THEN Merge(u) ELSE u
    OBVIOUS
  <2> HIDE DEF step
  <2>4. PICK g : g \in Iterations(n, X, b0, step)
    BY <1>1, <1>3, <2>2, Iterates, Zenon
  <2>5. /\ g \in [0..n -> X] /\ g[0] = b0
        /\ \A i \in 1..n : g[i] = step[i][g[i - 1]]
    BY <2>4 DEF Iterations
  <2>6. \A i \in 1..n : g[i] = IF Wanting(g[i - 1].root_bucket) /\ g[i - 1].buckets # <<>> THEN Merge(g[i - 1]) ELSE g[i - 1]
    <3>1. \A i \in 1..n : g[i - 1] \in X
      BY <1>1, <2>5
    <3> QED BY <2>3, <2>5, <3>1
  <2>7. \A i \in 0..n : g[i] = IF i = 0 THEN t ELSE IF Wanting(g[i - 1].root_bucket) /\ g[i - 1].buckets # <<>> THEN Merge(g[i - 1]) ELSE g[i - 1]
    <3>1. \A i \in 0..n : i = 0 \/ i \in 1..n
      BY <1>1
    <3> QED BY <2>1, <2>5, <2>6, <3>1, Zenon
  <2>8. g = [i \in 0..n |-> g[i]]
    BY <2>5
  <2>9. IsLoop(g)
    BY <2>7, <2>8, Zenon
  <2> QED BY <2>9, Zenon
<1>6. IsLoop(f)
  BY <1>5, Zenon
<1> HIDE DEF n, f
<1>7. /\ f[0] = b0
      /\ \A i \in 1..n : f[i] = IF Wanting(f[i - 1].root_bucket) /\ f[i - 1].buckets # <<>> THEN Merge(f[i - 1]) ELSE f[i - 1]
  <2>1. 0 \in 0..n /\ \A i \in 1..n : i \in 0..n /\ i # 0
    BY <1>1
  <2>2. \A i \in 0..n : f[i] = IF i = 0 THEN t ELSE IF Wanting(f[i - 1].root_bucket) /\ f[i - 1].buckets # <<>> THEN Merge(f[i - 1]) ELSE f[i - 1]
    BY <1>6, Zenon
  <2> QED BY <2>1, <2>2, Zenon
<1> HIDE DEF b0
<1>8. b0 = t
  BY DEF b0
<1> DEFINE Good(i) == /\ f[i] \in Tables(me)
                      /\ Moves(me, t, f[i])
                      /\ ~Overflowing(me, f[i].root_bucket)
           P == {i \in 0..n : Good(i)}
<1>9. 0 \in P
  <2>1. 0 \in 0..n
    BY <1>1
  <2> QED BY <1>7, <1>8, <2>1, MovesNone
<1>10. ASSUME NEW i \in 1..n, Good(i - 1) PROVE Good(i)
  <2>1. CASE Wanting(f[i - 1].root_bucket) /\ f[i - 1].buckets # <<>>
    <3>1. f[i] = Merge(f[i - 1])
      BY <1>7, <2>1
    <3>2. /\ f[i] \in Tables(me) /\ Moves(me, f[i - 1], f[i])
          /\ ~Overflowing(me, f[i].root_bucket)
      BY <1>10, <2>1, <3>1, MergeKeeps
    <3>3. Moves(me, t, f[i])
      BY <1>10, <3>2, MovesTwice
    <3> QED BY <3>2, <3>3
  <2>2. CASE ~(Wanting(f[i - 1].root_bucket) /\ f[i - 1].buckets # <<>>)
    <3>1. f[i] = f[i - 1]
      BY <1>7, <2>2
    <3> QED BY <1>10, <3>1
  <2> QED BY <2>1, <2>2
<1>11. \A i \in 1..n : i - 1 \in P => i \in P
  <2> HIDE DEF Good
  <2> QED BY <1>1, <1>10
<1>12. 0..n \subseteq P
  <2> HIDE DEF P
  <2> QED BY <1>1, <1>9, <1>11, IntervalInduction
<1>13. Good(n)
  <2>1. n \in 0..n
    BY <1>1
  <2> HIDE DEF Good
  <2> QED BY <1>12, <2>1
<1> QED BY <1>2, <1>13

----------------------------------------------------------------------------
(***************************************************************************)
(* What the methods of Kademlia do to a table.                             *)
(***************************************************************************)
\* The tables me can have between two calls.
Settled(me) == {t \in Tables(me) : ~Overflowing(me, t.root_bucket)}

\* From t to u, nodes in new come, and those with an id in gone go.
Settles(me, t, u, new, gone) ==
    /\ u \in Settled(me)
    /\ ActiveOf(u) \subseteq ActiveOf(t)
    /\ CachedOf(u) \subseteq CachedOf(t) \cup ActiveOf(t) \cup new
    /\ \A kn \in ActiveOf(t) :
          kn.id \notin gone => \E x \in ActiveOf(u) : Depth(me, x.id) = Depth(me, kn.id)
    /\ \A kn \in ActiveOf(u) \cup CachedOf(u) : kn.id \notin gone

LEMMA NewTableSettled ==
    ASSUME NEW me \in NodeID
    PROVE  NewTable \in Settled(me) /\ Known(NewTable) = {}
<1>1. /\ NewTable.buckets = <<>> /\ NewTable.root_bucket = EmptyBucket
      /\ NewTable \in [buckets : Seq(KBucket), root_bucket : KBucket]
  BY EmptyBucketOK DEF NewTable, BucketOK
<1>2. DOMAIN <<>> = {} /\ Len(<<>>) = 0
  OBVIOUS
<1>3. NewTable \in Tables(me)
  BY <1>1, <1>2, EmptyBucketOK, ConstantTypes DEF Tables
<1>4. Buckets(NewTable) = {EmptyBucket}
  BY <1>1, <1>2 DEF Buckets, Range
<1>5. Known(NewTable) = {}
  BY <1>3, <1>4, NodesOfTable, EmptyBucketOK
<1>6. ~Overflowing(me, EmptyBucket)
  <2>1. Len(KNodes(EmptyBucket)) = Cardinality({}) /\ Cardinality({}) = 0
    BY EmptyBucketOK, KNodesOfBucket, FS_EmptySet
  <2> QED BY <2>1, ConstantTypes DEF Overflowing
<1> QED BY <1>1, <1>3, <1>5, <1>6 DEF Settled

LEMMA AddNodeKeeps ==
    ASSUME NEW me \in NodeID, NEW t \in Settled(me), NEW id \in NodeID
    PROVE  Settles(me, t, AddNode(me, t, id), {NewNode(id)}, {})
<1> DEFINE d == Depth(me, id)
           b == BucketOf(t, d)
           new == NewNode(id)
           c == BucketAddNode(b, ~HasBucket(t, d), new)
           w == WithBucket(t, d, c)
           u == AddNode(me, t, id)
<1>1. t \in Tables(me) /\ ~Overflowing(me, t.root_bucket)
  BY DEF Settled
<1>2. CASE id = me \/ id \in Known(t)
  <2>1. u = t
    BY <1>2 DEF AddNode
  <2> HIDE DEF u
  <2> QED BY <2>1 DEF Settles, u
<1>3. CASE ~(id = me \/ id \in Known(t))
  <2>1. d \in Nat
    BY ConstantTypes
  <2>2. u = IF HasBucket(t, d) THEN w ELSE RebalanceOverflow(me, w)
    BY <1>3 DEF AddNode
  <2> HIDE DEF d, u
  <2>3. /\ Buckets(t) = OtherBuckets(t, d) \cup {b}
        /\ BucketOK(b)
        /\ HasBucket(t, d) => WithinLimits(b)
    BY <1>1, <2>1, OneBucket
  <2>4. id \notin InBucket(b)
    <3>1. Known(t) = UNION {InBucket(x) : x \in Buckets(t)}
      BY <1>1, NodesOfTable
    <3> QED BY <1>3, <2>3, <3>1
  <2>5. new \in KNode /\ new.id = id
    BY NewNodeType
  <2> HIDE DEF new, b
  <2>6. Added(b, c, ~HasBucket(t, d), {}, {new}) /\ c.active = b.active
    BY <2>3, <2>4, <2>5, AddNodeAdds
  <2> HIDE DEF c
  <2>7. /\ BucketOK(c)
        /\ HasBucket(t, d) => WithinLimits(c)
        /\ Range(c.cache) \subseteq Range(b.cache) \cup {new}
    BY <2>3, <2>6 DEF Added
  <2>8. \A x \in InBucket(c) : x \in InBucket(b) \/ (x # me /\ Depth(me, x) = d)
    <3>1. InBucket(c) \subseteq InBucket(b) \cup {kn.id : kn \in {} \cup {new}}
      BY <2>3, <2>6, AddedIDs
    <3>2. {kn.id : kn \in {} \cup {new}} = {id}
      BY <2>5
    <3> QED BY <1>3, <3>1, <3>2 DEF d
  <2>9. /\ w \in Tables(me)
        /\ Buckets(w) = OtherBuckets(t, d) \cup {c}
        /\ HasBucket(t, d) => w.root_bucket = t.root_bucket
    BY <1>1, <2>1, <2>7, <2>8, Replaced DEF b
  <2> HIDE DEF w
  <2>10. ActiveOf(w) = ActiveOf(t) /\ CachedOf(w) \subseteq CachedOf(t) \cup {new}
    BY <2>3, <2>6, <2>7, <2>9 DEF ActiveOf, CachedOf
  <2>11. CASE HasBucket(t, d)
    <3>1. u = w /\ w \in Settled(me)
      BY <1>1, <2>2, <2>9, <2>11 DEF Settled
    <3> QED BY <2>10, <3>1 DEF Settles, u, new
  <2>12. CASE ~HasBucket(t, d)
    <3>1. u = RebalanceOverflow(me, w)
      BY <2>2, <2>12
    <3>2. u \in Tables(me) /\ Moves(me, w, u) /\ ~Overflowing(me, u.root_bucket)
      BY <2>9, <3>1, RebalanceOverflowKeeps
    <3>3. /\ ActiveOf(u) \subseteq ActiveOf(t)
          /\ CachedOf(u) \subseteq CachedOf(t) \cup ActiveOf(t) \cup {new}
          /\ \A kn \in ActiveOf(t) : \E x \in ActiveOf(u) : Depth(me, x.id) = Depth(me, kn.id)
      BY <2>10, <3>2 DEF Moves
    <3>4. u \in Settled(me)
      BY <3>2 DEF Settled
    <3> QED BY <3>3, <3>4 DEF Settles, u, new
  <2> QED BY <2>11, <2>12
<1> QED BY <1>2, <1>3

LEMMA WithoutNodeKeeps ==
    ASSUME NEW me \in NodeID, NEW t \in Settled(me), NEW id \in NodeID
    PROVE  LET u == WithoutNode(me, t, id)
           IN  /\ u \in Settled(me)
               /\ ActiveOf(u) = {kn \in ActiveOf(t) : kn.id # id}
               /\ CachedOf(u) = {kn \in CachedOf(t) : kn.id # id}
<1> DEFINE d == Depth(me, id)
           b == BucketOf(t, d)
           c == BucketRemoveIDs(b, {id})
           u == WithBucket(t, d, c)
<1>1. t \in Tables(me) /\ ~Overflowing(me, t.root_bucket)
  BY DEF Settled
<1>2. u = WithoutNode(me, t, id)
  BY DEF WithoutNode
<1>3. d \in Nat
  BY ConstantTypes
<1>4. /\ Buckets(t) = OtherBuckets(t, d) \cup {b}
      /\ BucketOK(b)
      /\ HasBucket(t, d) => WithinLimits(b)
      /\ \A x \in OtherBuckets(t, d) : BucketOK(x) /\ id \notin InBucket(x)
  BY <1>1, <1>3, OneBucket
<1>5. ~HasBucket(t, d) => b = t.root_bucket
  BY DEF BucketOf
<1> HIDE DEF d, b, u
<1>6. /\ BucketOK(c)
      /\ Range(c.active) = {kn \in Range(b.active) : kn.id # id}
      /\ Range(c.cache) = {kn \in Range(b.cache) : kn.id # id}
      /\ InBucket(c) = InBucket(b) \ {id}
      /\ WithinLimits(b) => WithinLimits(c)
  <2>1. /\ BucketOK(c)
        /\ Range(c.active) = {kn \in Range(b.active) : kn.id \notin {id}}
        /\ Range(c.cache) = {kn \in Range(b.cache) : kn.id \notin {id}}
        /\ InBucket(c) = InBucket(b) \ {id}
        /\ WithinLimits(b) => WithinLimits(c)
    BY <1>4, RemoveIDsKeeps
  <2> HIDE DEF c
  <2> QED BY <2>1
<1> HIDE DEF c
<1>7. /\ u \in Tables(me)
      /\ Buckets(u) = OtherBuckets(t, d) \cup {c}
      /\ HasBucket(t, d) => u.root_bucket = t.root_bucket
      /\ ~HasBucket(t, d) => u.root_bucket = c
  BY <1>1, <1>3, <1>4, <1>6, Replaced DEF b, u
<1>8. ~Overflowing(me, u.root_bucket)
  <2>1. CASE HasBucket(t, d)
    BY <1>1, <1>7, <2>1
  <2>2. CASE ~HasBucket(t, d)
    <3> SUFFICES ASSUME Overflowing(me, c) PROVE FALSE
      BY <1>7, <2>2
    <3>1. Crowded(me, InBucket(c))
      BY <1>6, OverflowingIsCrowded
    <3>2. IsFiniteSet(InBucket(b)) /\ InBucket(c) \in SUBSET InBucket(b)
      BY <1>4, <1>6, KNodesOfBucket
    <3>3. Crowded(me, InBucket(b))
      BY <3>1, <3>2, FewerNotCrowded
    <3> QED BY <1>1, <1>4, <1>5, <2>2, <3>3, OverflowingIsCrowded
  <2> QED BY <2>1, <2>2
<1>9. ASSUME NEW x \in OtherBuckets(t, d), NEW kn \in Range(x.active) \cup Range(x.cache)
      PROVE  kn.id # id
  <2>1. kn.id \in IDs(x.active) \cup IDs(x.cache)
    BY IDsOfRange
  <2> QED BY <1>4, <2>1 DEF InBucket
<1>10. ActiveOf(u) = {kn \in ActiveOf(t) : kn.id # id}
  BY <1>4, <1>6, <1>7, <1>9 DEF ActiveOf
<1>11. CachedOf(u) = {kn \in CachedOf(t) : kn.id # id}
  BY <1>4, <1>6, <1>7, <1>9 DEF CachedOf
<1> QED BY <1>2, <1>7, <1>8, <1>10, <1>11 DEF Settled

LEMMA WithoutNodeSettles ==
    ASSUME NEW me \in NodeID, NEW t \in Settled(me), NEW id \in NodeID
    PROVE  /\ Settles(me, t, WithoutNode(me, t, id), {}, {id})
           /\ Settles(me, t, RebalanceWanting(WithoutNode(me, t, id)), {}, {id})
<1> DEFINE w == WithoutNode(me, t, id)
           u == RebalanceWanting(w)
<1>1. /\ w \in Settled(me)
      /\ ActiveOf(w) = {kn \in ActiveOf(t) : kn.id # id}
      /\ CachedOf(w) = {kn \in CachedOf(t) : kn.id # id}
  BY WithoutNodeKeeps
<1>2. w \in Tables(me) /\ ~Overflowing(me, w.root_bucket)
  BY <1>1 DEF Settled
<1> HIDE DEF w
<1>3. u \in Tables(me) /\ Moves(me, w, u) /\ ~Overflowing(me, u.root_bucket)
  BY <1>2, RebalanceWantingKeeps
<1> HIDE DEF u
<1>4. Settles(me, t, w, {}, {id})
  BY <1>1 DEF Settles
<1>5. Settles(me, t, u, {}, {id})
  <2>1. u \in Settled(me)
    BY <1>3 DEF Settled
  <2>2. \A kn \in ActiveOf(u) \cup CachedOf(u) : kn.id # id
    BY <1>1, <1>3 DEF Moves
  <2>3. /\ ActiveOf(u) \subseteq ActiveOf(t)
        /\ CachedOf(u) \subseteq CachedOf(t) \cup ActiveOf(t)
    BY <1>1, <1>3 DEF Moves
  <2>4. \A kn \in ActiveOf(t) :
           kn.id # id => \E x \in ActiveOf(u) : Depth(me, x.id) = Depth(me, kn.id)
    BY <1>1, <1>3 DEF Moves
  <2> QED BY <2>1, <2>2, <2>3, <2>4 DEF Settles
<1> QED BY <1>4, <1>5 DEF w, u

LEMMA RemoveNodeSettles ==
    ASSUME NEW me \in NodeID, NEW t \in Settled(me), NEW id \in NodeID
    PROVE  Settles(me, t, RemoveNode(me, t, id), {}, {id})
<1>1. CASE HasBucket(t, Depth(me, id))
  BY <1>1, WithoutNodeSettles DEF RemoveNode
<1>2. CASE ~HasBucket(t, Depth(me, id))
  BY <1>2, WithoutNodeSettles DEF RemoveNode
<1> QED BY <1>1, <1>2

LEMMA NodeDisconnectedSettles ==
    ASSUME NEW me \in NodeID, NEW t \in Settled(me), NEW id \in NodeID
    PROVE  \E gone : Settles(me, t, NodeDisconnected(me, t, id), {}, gone)
<1>1. CASE HasBucket(t, Depth(me, id))
  <2>1. Settles(me, t, NodeDisconnected(me, t, id), {}, {id})
    BY <1>1, WithoutNodeSettles DEF NodeDisconnected
  <2> QED BY <2>1
<1>2. CASE ~HasBucket(t, Depth(me, id))
  <2>1. NodeDisconnected(me, t, id) = t
    BY <1>2 DEF NodeDisconnected
  <2>2. Settles(me, t, t, {}, {})
    BY DEF Settles
  <2> QED BY <2>1, <2>2
<1> QED BY <1>1, <1>2

LEMMA NodeActiveSettles ==
    ASSUME NEW me \in NodeID, NEW t \in Settled(me), NEW id \in NodeID
    PROVE  LET u == NodeActive(me, t, id)
           IN  /\ u \in Settled(me)
               /\ Known(u) = Known(t)
               /\ ActiveNodes(t) \subseteq ActiveNodes(u)
               /\ ActiveOf(u) \subseteq {kn \in ActiveOf(t) : kn.id # id} \cup {NewNode(id)}
               /\ CachedOf(u) \subseteq {kn \in CachedOf(t) : kn.id # id} \cup {NewNode(id)}
<1> DEFINE d == Depth(me, id)
           b == BucketOf(t, d)
           c == BucketNodeActive(b, ~HasBucket(t, d), id)
           u == WithBucket(t, d, c)
           new == NewNode(id)
<1>1. t \in Tables(me) /\ ~Overflowing(me, t.root_bucket)
  BY DEF Settled
<1>2. u = NodeActive(me, t, id)
  BY DEF NodeActive
<1>3. d \in Nat
  BY ConstantTypes
<1>4. /\ Buckets(t) = OtherBuckets(t, d) \cup {b}
      /\ BucketOK(b)
      /\ HasBucket(t, d) => WithinLimits(b)
      /\ \A x \in OtherBuckets(t, d) :
            BucketOK(x) /\ \A i \in InBucket(x) : Depth(me, i) # d
  BY <1>1, <1>3, OneBucket
<1>5. ~HasBucket(t, d) => b = t.root_bucket
  BY DEF BucketOf
<1>6. \A x \in OtherBuckets(t, d) : id \notin InBucket(x)
  BY <1>4
<1> HIDE DEF d, b, u, new
<1>7. /\ BucketOK(c)
      /\ InBucket(c) = InBucket(b)
      /\ Range(c.active) \subseteq {kn \in Range(b.active) : kn.id # id} \cup {new}
      /\ Range(c.cache) \subseteq {kn \in Range(b.cache) : kn.id # id} \cup {new}
      /\ IDs(b.active) \subseteq IDs(c.active)
      /\ HasBucket(t, d) /\ WithinLimits(b) => WithinLimits(c)
  BY <1>4, NodeActiveKeeps DEF new
<1> HIDE DEF c
<1>8. /\ u \in Tables(me)
      /\ Buckets(u) = OtherBuckets(t, d) \cup {c}
      /\ HasBucket(t, d) => u.root_bucket = t.root_bucket
      /\ ~HasBucket(t, d) => u.root_bucket = c
  BY <1>1, <1>3, <1>4, <1>7, Replaced DEF b, u
<1>9. ~Overflowing(me, u.root_bucket)
  <2>1. CASE HasBucket(t, d)
    BY <1>1, <1>8, <2>1
  <2>2. CASE ~HasBucket(t, d)
    BY <1>1, <1>4, <1>5, <1>7, <1>8, <2>2, OverflowingIsCrowded
  <2> QED BY <2>1, <2>2
<1>10. ASSUME NEW x \in OtherBuckets(t, d), NEW kn \in Range(x.active) \cup Range(x.cache)
       PROVE  kn.id # id
  <2>1. kn.id \in IDs(x.active) \cup IDs(x.cache)
    BY IDsOfRange
  <2> QED BY <1>6, <2>1 DEF InBucket
<1>11. ActiveOf(u) \subseteq {kn \in ActiveOf(t) : kn.id # id} \cup {new}
  BY <1>4, <1>7, <1>8, <1>10 DEF ActiveOf
<1>12. CachedOf(u) \subseteq {kn \in CachedOf(t) : kn.id # id} \cup {new}
  BY <1>4, <1>7, <1>8, <1>10 DEF CachedOf
<1>13. ActiveNodes(t) \subseteq ActiveNodes(u)
  BY <1>4, <1>7, <1>8 DEF ActiveNodes
<1>14. Known(u) = Known(t)
  <2>1. /\ Known(t) = UNION {InBucket(x) : x \in Buckets(t)}
        /\ Known(u) = UNION {InBucket(x) : x \in Buckets(u)}
    BY <1>1, <1>8, NodesOfTable
  <2> QED BY <1>4, <1>7, <1>8, <2>1
<1> QED BY <1>2, <1>8, <1>9, <1>11, <1>12, <1>13, <1>14 DEF Settled, new

LEMMA TickSettles ==
    ASSUME NEW me \in NodeID, NEW t \in Settled(me)
    PROVE  LET u == Tick(t)
           IN  /\ u \in Settled(me)
               /\ ActiveNodes(u) \subseteq ActiveNodes(t)
               /\ CachedNodes(u) \subseteq CachedNodes(t)
               /\ \A x \in ActiveOf(u) : \E kn \in ActiveOf(t) :
                     /\ x = Ticked(kn)
                     /\ (kn.ticks_last + 1) % PingInterval = 0 => kn.id \in Pings(t)
               /\ \A x \in CachedOf(u) : \E kn \in CachedOf(t) :
                     \/ x = kn
                     \/ /\ x = Ticked(kn)
                        /\ kn.ticks_last % PingInterval = 0 => kn.id \in Pings(t)
               /\ \A kn \in ActiveOf(t) \cup CachedOf(t) :
                     kn.ticks_last + 1 < PingTimeout => kn.id \in Known(u)
<1> DEFINE n == Len(t.buckets)
           s == [d \in DOMAIN t.buckets |-> BucketTick(t.buckets[d], FALSE)]
           r == BucketTick(t.root_bucket, TRUE)
           u == Tick(t)
<1>1. t \in Tables(me) /\ ~Overflowing(me, t.root_bucket)
  BY DEF Settled
<1>2. /\ t.buckets \in Seq(KBucket)
      /\ n \in Nat /\ DOMAIN t.buckets = 1..n /\ n <= MaxDepth + 1
      /\ \A i \in 1..n : /\ BucketOK(t.buckets[i]) /\ WithinLimits(t.buckets[i])
                         /\ \A id \in InBucket(t.buckets[i]) : id # me /\ Depth(me, id) = i - 1
      /\ BucketOK(t.root_bucket)
      /\ \A id \in InBucket(t.root_bucket) : id # me /\ Depth(me, id) >= n
  BY <1>1, TableParts
<1>3. u = [buckets |-> s, root_bucket |-> r]
  BY DEF Tick
<1>4. \A i \in 1..n : s[i] = BucketTick(t.buckets[i], FALSE)
  BY <1>2
<1>5. s = [i \in 1..n |-> s[i]]
  BY <1>2
<1> DEFINE Same(b, c) == TicksTo(b, c, Pings(t))
<1> HIDE DEF s, r, u
<1>6. ASSUME NEW b, BucketOK(b), NEW isRoot \in BOOLEAN, BucketPings(b, isRoot) \subseteq Pings(t)
      PROVE  Same(b, BucketTick(b, isRoot))
  BY <1>6, TickKeeps, TicksToMore
<1>7. ASSUME NEW i \in 1..n PROVE Same(t.buckets[i], s[i])
  <2>1. t.buckets[i] \in Range(t.buckets)
    BY <1>2 DEF Range
  <2>2. BucketPings(t.buckets[i], FALSE) \subseteq Pings(t)
    BY <2>1 DEF Pings
  <2> HIDE DEF Same
  <2> QED BY <1>2, <1>4, <1>6, <2>2
<1>8. Same(t.root_bucket, r)
  <2> DEFINE rest == UNION {BucketPings(b, FALSE) : b \in Range(t.buckets)}
             ofRoot == BucketPings(t.root_bucket, TRUE)
  <2>1. Pings(t) = rest \cup ofRoot
    BY DEF Pings
  <2> HIDE DEF rest, ofRoot
  <2>2. ofRoot \subseteq Pings(t)
    BY <2>1
  <2>3. BucketPings(t.root_bucket, TRUE) \subseteq Pings(t)
    BY <2>2 DEF ofRoot
  <2> HIDE DEF Same
  <2> QED BY <1>2, <1>6, <2>3 DEF r
<1>9. u \in Tables(me)
  <2>1. \A i \in 1..n : s[i] \in KBucket
    BY <1>7 DEF BucketOK, TicksTo
  <2>2. s \in Seq(KBucket) /\ Len(s) = n /\ DOMAIN s = 1..n
    <3> HIDE DEF n
    <3> QED BY <1>2, <1>5, <2>1
  <2>3. \A i \in 1..n : /\ BucketOK(s[i]) /\ WithinLimits(s[i])
                        /\ \A id \in InBucket(s[i]) : id # me /\ Depth(me, id) = i - 1
    BY <1>2, <1>7 DEF InBucket, TicksTo
  <2>4. \A id \in InBucket(r) : id # me /\ Depth(me, id) >= n
    BY <1>2, <1>8 DEF InBucket, TicksTo
  <2>5. BucketOK(r) /\ r \in KBucket
    BY <1>8 DEF BucketOK, TicksTo
  <2> HIDE DEF n, Same
  <2> QED BY <1>2, <1>3, <2>2, <2>3, <2>4, <2>5 DEF Tables
<1>10. ~Overflowing(me, r)
  <2> SUFFICES ASSUME Overflowing(me, r) PROVE FALSE
    OBVIOUS
  <2>1. Crowded(me, InBucket(r))
    BY <1>8, OverflowingIsCrowded DEF TicksTo
  <2>2. IsFiniteSet(InBucket(t.root_bucket)) /\ InBucket(r) \in SUBSET InBucket(t.root_bucket)
    BY <1>2, <1>8, KNodesOfBucket DEF InBucket, TicksTo
  <2>3. Crowded(me, InBucket(t.root_bucket))
    BY <2>1, <2>2, FewerNotCrowded
  <2> QED BY <1>1, <1>2, <2>3, OverflowingIsCrowded
<1>11. ASSUME NEW c \in Buckets(u) PROVE \E b \in Buckets(t) : Same(b, c)
  <2> HIDE DEF Same
  <2>1. Buckets(u) = {s[i] : i \in 1..n} \cup {r}
    BY <1>3, <1>5 DEF Buckets, Range
  <2>2. Buckets(t) = {t.buckets[i] : i \in 1..n} \cup {t.root_bucket}
    BY <1>2 DEF Buckets, Range
  <2> QED BY <1>7, <1>8, <2>1, <2>2
<1>12. ASSUME NEW b \in Buckets(t) PROVE \E c \in Buckets(u) : Same(b, c)
  <2> HIDE DEF Same
  <2>1. Buckets(u) = {s[i] : i \in 1..n} \cup {r}
    BY <1>3, <1>5 DEF Buckets, Range
  <2>2. Buckets(t) = {t.buckets[i] : i \in 1..n} \cup {t.root_bucket}
    BY <1>2 DEF Buckets, Range
  <2> QED BY <1>7, <1>8, <2>1, <2>2
<1>13. u \in Settled(me)
  BY <1>3, <1>9, <1>10 DEF Settled
<1>14. ActiveNodes(u) \subseteq ActiveNodes(t)
  <2> SUFFICES ASSUME NEW c \in Buckets(u) PROVE IDs(c.active) \subseteq ActiveNodes(t)
    BY DEF ActiveNodes
  <2> QED BY <1>11 DEF ActiveNodes, TicksTo
<1>15. CachedNodes(u) \subseteq CachedNodes(t)
  <2> SUFFICES ASSUME NEW c \in Buckets(u) PROVE IDs(c.cache) \subseteq CachedNodes(t)
    BY DEF CachedNodes
  <2> QED BY <1>11 DEF CachedNodes, TicksTo
<1>16. ASSUME NEW x \in ActiveOf(u)
       PROVE  \E kn \in ActiveOf(t) :
                 /\ x = Ticked(kn)
                 /\ (kn.ticks_last + 1) % PingInterval = 0 => kn.id \in Pings(t)
  <2>1. PICK c \in Buckets(u) : x \in Range(c.active)
    BY DEF ActiveOf
  <2>2. PICK b \in Buckets(t) : Same(b, c)
    BY <1>11
  <2>3. PICK kn \in Range(b.active) :
           /\ x = Ticked(kn)
           /\ (kn.ticks_last + 1) % PingInterval = 0 => kn.id \in Pings(t)
    BY <2>1, <2>2 DEF TicksTo
  <2> QED BY <2>3 DEF ActiveOf
<1>17. ASSUME NEW x \in CachedOf(u)
       PROVE  \E kn \in CachedOf(t) :
                 \/ x = kn
                 \/ /\ x = Ticked(kn)
                    /\ kn.ticks_last % PingInterval = 0 => kn.id \in Pings(t)
  <2>1. PICK c \in Buckets(u) : x \in Range(c.cache)
    BY DEF CachedOf
  <2>2. PICK b \in Buckets(t) : Same(b, c)
    BY <1>11
  <2>3. PICK kn \in Range(b.cache) :
           \/ x = kn
           \/ /\ x = Ticked(kn)
              /\ kn.ticks_last % PingInterval = 0 => kn.id \in Pings(t)
    BY <2>1, <2>2 DEF TicksTo
  <2> QED BY <2>3 DEF CachedOf
<1>18. ASSUME NEW kn \in ActiveOf(t) \cup CachedOf(t), kn.ticks_last + 1 < PingTimeout
       PROVE  kn.id \in Known(u)
  <2>1. PICK b \in Buckets(t) : kn \in Range(b.active) \cup Range(b.cache)
    BY DEF ActiveOf, CachedOf
  <2>2. PICK c \in Buckets(u) : Same(b, c)
    BY <1>12
  <2>3. kn.id \in InBucket(c)
    BY <1>18, <2>1, <2>2 DEF TicksTo
  <2> QED BY <1>9, <2>3, NodesOfTable
<1> QED BY <1>13, <1>14, <1>15, <1>16, <1>17, <1>18 DEF u

----------------------------------------------------------------------------
(***************************************************************************)
(* One table with every sequence of calls: Kademlia.tla.                   *)
(***************************************************************************)
\* A node that has not been heard of for an interval has been pinged.  A
\* cached node gets its ping a tick before it is due, but a new one at once.
SilentAsked(t, a) ==
    /\ \A kn \in ActiveOf(t) : kn.ticks_last >= PingInterval => kn.id \in a
    /\ \A kn \in CachedOf(t) :
          kn.ticks_last > PingInterval \/ (PingInterval = 1 /\ kn.ticks_last = 1) => kn.id \in a

\* The inductive invariant.
TableInv ==
    /\ table \in Settled(Root)
    /\ heard \subseteq Known(table) /\ asked \subseteq Known(table)
    /\ ActiveNodes(table) \subseteq heard
    /\ SilentAsked(table, asked)

LEMMA ModSelf ==
    ASSUME NEW p \in Nat, p >= 1
    PROVE  p % p = 0 /\ 0 % p = 0
OBVIOUS

LEMMA TableInvHolds ==
    ASSUME TableInv
    PROVE  TableWellFormed /\ ActiveWereHeard
<1>1. table \in Tables(Root) /\ ~Overflowing(Root, table.root_bucket)
  BY DEF TableInv, Settled
<1>2. /\ table.buckets \in Seq(KBucket)
      /\ Len(table.buckets) \in Nat /\ DOMAIN table.buckets = 1..Len(table.buckets)
      /\ \A i \in 1..Len(table.buckets) :
            /\ BucketOK(table.buckets[i]) /\ WithinLimits(table.buckets[i])
            /\ \A id \in InBucket(table.buckets[i]) : Depth(Root, id) = i - 1
      /\ BucketOK(table.root_bucket)
      /\ \A id \in InBucket(table.root_bucket) : Depth(Root, id) >= Len(table.buckets)
  BY <1>1, TableParts
<1>3. TableTypeOK
  BY <1>1 DEF TableTypeOK, TableInv, IsTable, Tables
<1>4. NodesInTheirBucket
  <2>1. Root \notin Known(table)
    BY <1>1, RootAssumption, NodesOfTable
  <2>2. \A d \in DOMAIN table.buckets : \A id \in IDs(KNodes(table.buckets[d])) :
           Depth(Root, id) = d - 1
    <3> SUFFICES ASSUME NEW d \in DOMAIN table.buckets, NEW id \in IDs(KNodes(table.buckets[d]))
                 PROVE  Depth(Root, id) = d - 1
      OBVIOUS
    <3>1. id \in InBucket(table.buckets[d])
      BY <1>2, KNodesOfBucket
    <3> QED BY <1>2, <3>1
  <2>3. \A id \in IDs(KNodes(table.root_bucket)) : Depth(Root, id) >= Len(table.buckets)
    BY <1>2, KNodesOfBucket
  <2>4. \A b \in Buckets(table) : \A i, j \in DOMAIN KNodes(b) :
           KNodes(b)[i].id = KNodes(b)[j].id => i = j
    <3> SUFFICES ASSUME NEW b \in Buckets(table) PROVE Distinct(KNodes(b))
      BY DEF Distinct
    <3>1. BucketOK(b)
      BY <1>1, RootAssumption, NodesOfTable
    <3> QED BY <3>1, KNodesOfBucket
  <2> QED BY <2>1, <2>2, <2>3, <2>4 DEF NodesInTheirBucket
<1>5. BucketsWithinLimits
  BY <1>2 DEF BucketsWithinLimits, WithinLimits, Range
<1> QED BY <1>1, <1>3, <1>4, <1>5 DEF TableWellFormed, RootBucketSettled, ActiveWereHeard, TableInv

LEMMA TableInitInv == TableInit => TableInv
<1> SUFFICES ASSUME TableInit PROVE TableInv
  OBVIOUS
<1>1. table \in Settled(Root) /\ Known(table) = {} /\ heard = {} /\ asked = {}
  BY RootAssumption, NewTableSettled DEF TableInit
<1>2. table \in Tables(Root)
  BY <1>1 DEF Settled
<1>3. /\ ActiveNodes(table) = {kn.id : kn \in ActiveOf(table)}
      /\ CachedNodes(table) = {kn.id : kn \in CachedOf(table)}
      /\ Known(table) = ActiveNodes(table) \cup CachedNodes(table)
  BY <1>2, RootAssumption, NodesOfTable
<1>4. ActiveNodes(table) = {} /\ CachedNodes(table) = {}
  BY <1>1, <1>3
<1>5. ActiveOf(table) = {} /\ CachedOf(table) = {}
  BY <1>3, <1>4
<1> QED BY <1>1, <1>4, <1>5 DEF TableInv, SilentAsked

\* Adding and removing nodes, with all rebalancing.
LEMMA SettlesInv ==
    ASSUME TableInv, NEW new, \A kn \in new : kn.ticks_last = 0, NEW gone,
           Settles(Root, table, table', new, gone), Remember(heard, asked)
    PROVE  TableInv'
<1>1. /\ table' \in Settled(Root)
      /\ ActiveOf(table') \subseteq ActiveOf(table)
      /\ CachedOf(table') \subseteq CachedOf(table) \cup ActiveOf(table) \cup new
  BY DEF Settles
<1>2. table \in Tables(Root) /\ table' \in Tables(Root)
  BY <1>1 DEF TableInv, Settled
<1>3. /\ ActiveNodes(table) = {kn.id : kn \in ActiveOf(table)}
      /\ ActiveOf(table) \subseteq KNode /\ CachedOf(table) \subseteq KNode
  BY <1>2, RootAssumption, NodesOfTable
<1>4. /\ ActiveNodes(table') = {kn.id : kn \in ActiveOf(table')}
      /\ CachedNodes(table') = {kn.id : kn \in CachedOf(table')}
      /\ Known(table') = ActiveNodes(table') \cup CachedNodes(table')
  BY <1>2, RootAssumption, NodesOfTable
<1>5. heard' = heard \cap Known(table') /\ asked' = asked \cap Known(table')
  BY DEF Remember
<1>6. ActiveNodes(table') \subseteq heard'
  BY <1>1, <1>3, <1>4, <1>5 DEF TableInv
<1>7. ASSUME NEW kn \in ActiveOf(table'), kn.ticks_last >= PingInterval PROVE kn.id \in asked'
  BY <1>1, <1>4, <1>5, <1>7 DEF TableInv, SilentAsked
<1>8. ASSUME NEW kn \in CachedOf(table'),
             kn.ticks_last > PingInterval \/ (PingInterval = 1 /\ kn.ticks_last = 1)
      PROVE  kn.id \in asked'
  <2>1. kn.id \in Known(table')
    BY <1>4
  <2>2. kn \notin new
    BY <1>8, ConstantTypes
  <2>3. kn.ticks_last \in Nat
    BY <1>1, <1>3, <2>2, TickedType
  <2>4. kn.ticks_last >= PingInterval
    BY <1>8, <2>3, ConstantTypes
  <2>5. kn.id \in asked
    BY <1>1, <1>8, <2>2, <2>4 DEF TableInv, SilentAsked
  <2> QED BY <1>5, <2>1, <2>5
<1> QED BY <1>1, <1>5, <1>6, <1>7, <1>8 DEF TableInv, SilentAsked

LEMMA HearInv ==
    ASSUME TableInv, NEW id \in NodeID, Hear(id)
    PROVE  TableInv'
<1>1. /\ table' \in Settled(Root)
      /\ ActiveOf(table') \subseteq {kn \in ActiveOf(table) : kn.id # id} \cup {NewNode(id)}
      /\ CachedOf(table') \subseteq {kn \in CachedOf(table) : kn.id # id} \cup {NewNode(id)}
  BY RootAssumption, NodeActiveSettles DEF TableInv, Hear
<1>2. table \in Tables(Root) /\ table' \in Tables(Root)
  BY <1>1 DEF TableInv, Settled
<1>3. /\ ActiveNodes(table) = {kn.id : kn \in ActiveOf(table)}
  BY <1>2, RootAssumption, NodesOfTable
<1>4. /\ ActiveNodes(table') = {kn.id : kn \in ActiveOf(table')}
      /\ CachedNodes(table') = {kn.id : kn \in CachedOf(table')}
      /\ Known(table') = ActiveNodes(table') \cup CachedNodes(table')
  BY <1>2, RootAssumption, NodesOfTable
<1>5. heard' = (heard \cup {id}) \cap Known(table') /\ asked' = (asked \ {id}) \cap Known(table')
  BY DEF Hear, Remember
<1>6. NewNode(id).id = id /\ NewNode(id).ticks_last = 0
  BY NewNodeType
<1>7. ActiveNodes(table') \subseteq heard'
  BY <1>1, <1>3, <1>4, <1>5, <1>6 DEF TableInv
<1>8. ASSUME NEW kn \in ActiveOf(table'), kn.ticks_last >= PingInterval PROVE kn.id \in asked'
  <2>1. kn # NewNode(id)
    BY <1>6, <1>8, ConstantTypes
  <2> QED BY <1>1, <1>4, <1>5, <1>8, <2>1 DEF TableInv, SilentAsked
<1>9. ASSUME NEW kn \in CachedOf(table'),
             kn.ticks_last > PingInterval \/ (PingInterval = 1 /\ kn.ticks_last = 1)
      PROVE  kn.id \in asked'
  <2>1. kn # NewNode(id)
    BY <1>6, <1>9, ConstantTypes
  <2> QED BY <1>1, <1>4, <1>5, <1>9, <2>1 DEF TableInv, SilentAsked
<1> QED BY <1>1, <1>5, <1>7, <1>8, <1>9 DEF TableInv, SilentAsked

LEMMA TableClockInv ==
    ASSUME TableInv, TableClock
    PROVE  TableInv' /\ Known(table) \ Known(table') \subseteq asked
<1>1. /\ table' \in Settled(Root)
      /\ ActiveNodes(table') \subseteq ActiveNodes(table)
      /\ \A x \in ActiveOf(table') : \E kn \in ActiveOf(table) :
            /\ x = Ticked(kn)
            /\ (kn.ticks_last + 1) % PingInterval = 0 => kn.id \in Pings(table)
      /\ \A x \in CachedOf(table') : \E kn \in CachedOf(table) :
            \/ x = kn
            \/ /\ x = Ticked(kn)
               /\ kn.ticks_last % PingInterval = 0 => kn.id \in Pings(table)
      /\ \A kn \in ActiveOf(table) \cup CachedOf(table) :
            kn.ticks_last + 1 < PingTimeout => kn.id \in Known(table')
  BY RootAssumption, TickSettles DEF TableInv, TableClock
<1>2. table \in Tables(Root) /\ table' \in Tables(Root)
  BY <1>1 DEF TableInv, Settled
<1>3. /\ Known(table) = ActiveNodes(table) \cup CachedNodes(table)
      /\ ActiveNodes(table) = {kn.id : kn \in ActiveOf(table)}
      /\ CachedNodes(table) = {kn.id : kn \in CachedOf(table)}
      /\ ActiveOf(table) \subseteq KNode /\ CachedOf(table) \subseteq KNode
  BY <1>2, RootAssumption, NodesOfTable
<1>4. /\ ActiveNodes(table') = {kn.id : kn \in ActiveOf(table')}
      /\ CachedNodes(table') = {kn.id : kn \in CachedOf(table')}
      /\ Known(table') = ActiveNodes(table') \cup CachedNodes(table')
  BY <1>2, RootAssumption, NodesOfTable
<1>5. /\ heard' = heard \cap Known(table')
      /\ asked' = (asked \cup Pings(table)) \cap Known(table')
  BY DEF TableClock, Remember
<1>6. ActiveNodes(table') \subseteq heard'
  BY <1>1, <1>4, <1>5 DEF TableInv
<1>7. PingInterval % PingInterval = 0 /\ 0 % PingInterval = 0
  BY ModSelf, ConstantTypes
<1>8. /\ \A kn \in ActiveOf(table) : kn.ticks_last >= PingInterval => kn.id \in asked
      /\ \A kn \in CachedOf(table) :
            kn.ticks_last > PingInterval \/ (PingInterval = 1 /\ kn.ticks_last = 1)
               => kn.id \in asked
  BY DEF TableInv, SilentAsked
<1>9. ASSUME NEW kn \in ActiveOf(table) \cup CachedOf(table)
      PROVE  /\ kn.ticks_last \in Nat /\ kn.ticks_last < PingTimeout
             /\ Ticked(kn).id = kn.id /\ Ticked(kn).ticks_last = kn.ticks_last + 1
  BY <1>3, TickedType
<1>10. ASSUME NEW x \in ActiveOf(table'), x.ticks_last >= PingInterval PROVE x.id \in asked'
  <2>1. PICK kn \in ActiveOf(table) :
           /\ x = Ticked(kn)
           /\ (kn.ticks_last + 1) % PingInterval = 0 => kn.id \in Pings(table)
    BY <1>1
  <2>2. /\ kn.ticks_last \in Nat /\ x.id = kn.id /\ x.ticks_last = kn.ticks_last + 1
    BY <1>9, <2>1
  <2>3. kn.id \in asked \cup Pings(table)
    <3>1. CASE kn.ticks_last >= PingInterval
      BY <1>8, <3>1
    <3>2. CASE kn.ticks_last + 1 = PingInterval
      BY <1>7, <2>1, <3>2
    <3> QED BY <1>10, <2>2, <3>1, <3>2, ConstantTypes
  <2>4. x.id \in Known(table')
    BY <1>4
  <2> QED BY <1>5, <2>2, <2>3, <2>4
<1>11. ASSUME NEW x \in CachedOf(table'),
              x.ticks_last > PingInterval \/ (PingInterval = 1 /\ x.ticks_last = 1)
       PROVE  x.id \in asked'
  <2>1. PICK kn \in CachedOf(table) :
           \/ x = kn
           \/ /\ x = Ticked(kn)
              /\ kn.ticks_last % PingInterval = 0 => kn.id \in Pings(table)
    BY <1>1
  <2>2. x.id \in Known(table')
    BY <1>4
  <2>3. CASE x = kn
    BY <1>5, <1>8, <1>11, <2>2, <2>3
  <2>4. CASE x # kn
    <3>1. /\ kn.ticks_last \in Nat /\ x.id = kn.id /\ x.ticks_last = kn.ticks_last + 1
          /\ kn.ticks_last % PingInterval = 0 => kn.id \in Pings(table)
      BY <1>9, <2>1, <2>4
    <3>2. CASE kn.ticks_last > PingInterval \/ (PingInterval = 1 /\ kn.ticks_last = 1)
      BY <1>5, <1>8, <2>2, <3>1, <3>2
    <3>3. CASE kn.ticks_last = PingInterval \/ kn.ticks_last = 0
      BY <1>5, <1>7, <2>2, <3>1, <3>3
    <3> QED BY <1>11, <3>1, <3>2, <3>3, ConstantTypes
  <2> QED BY <2>3, <2>4
<1>12. ASSUME NEW id \in Known(table), id \notin Known(table') PROVE id \in asked
  <2>1. PICK kn \in ActiveOf(table) \cup CachedOf(table) : id = kn.id
    BY <1>3
  <2>2. kn.ticks_last \in Nat /\ ~(kn.ticks_last + 1 < PingTimeout)
    BY <1>1, <1>9, <1>12, <2>1
  <2>3. CASE kn \in ActiveOf(table)
    <3>1. kn.ticks_last >= PingInterval
      BY <2>2, ConstantTypes
    <3> QED BY <1>8, <2>1, <2>3, <3>1
  <2>4. CASE kn \in CachedOf(table)
    <3>1. kn.ticks_last > PingInterval \/ (PingInterval = 1 /\ kn.ticks_last >= 1)
      BY <2>2, ConstantTypes
    <3>2. kn.ticks_last > PingInterval \/ (PingInterval = 1 /\ kn.ticks_last = 1)
      BY <2>2, <3>1
    <3> QED BY <1>8, <2>1, <2>4, <3>2
  <2> QED BY <2>1, <2>3, <2>4
<1> QED BY <1>1, <1>5, <1>6, <1>10, <1>11, <1>12 DEF TableInv, SilentAsked

\* A depth keeps a next hop while one of its active nodes is known.
DepthKept(t, u) ==
    \A d \in 0..MaxDepth :
        LET before == {id \in ActiveNodes(t) : Depth(Root, id) = d}
            after  == {id \in ActiveNodes(u) : Depth(Root, id) = d}
        IN  before # {} /\ after = {} => before \cap Known(u) = {}

LEMMA SettlesDepthKept ==
    ASSUME NEW t \in Settled(Root), NEW u, NEW new, NEW gone, Settles(Root, t, u, new, gone)
    PROVE  DepthKept(t, u)
<1>1. t \in Tables(Root) /\ u \in Tables(Root)
  BY DEF Settles, Settled
<1>2. /\ ActiveNodes(t) = {kn.id : kn \in ActiveOf(t)}
      /\ ActiveNodes(u) = {kn.id : kn \in ActiveOf(u)}
      /\ CachedNodes(u) = {kn.id : kn \in CachedOf(u)}
      /\ Known(u) = ActiveNodes(u) \cup CachedNodes(u)
  BY <1>1, RootAssumption, NodesOfTable
<1>3. ASSUME NEW id \in ActiveNodes(t), id \in Known(u)
      PROVE  \E other \in ActiveNodes(u) : Depth(Root, other) = Depth(Root, id)
  <2>1. PICK kn \in ActiveOf(t) : id = kn.id
    BY <1>2
  <2>2. PICK y \in ActiveOf(u) \cup CachedOf(u) : id = y.id
    BY <1>2, <1>3
  <2>3. id \notin gone
    BY <2>2 DEF Settles
  <2>4. PICK x \in ActiveOf(u) : Depth(Root, x.id) = Depth(Root, id)
    BY <2>1, <2>3 DEF Settles
  <2> QED BY <1>2, <2>4
<1> QED BY <1>3 DEF DepthKept

LEMMA TableNextKeeps ==
    ASSUME TableInv, TableNext
    PROVE  TableInv' /\ DepthKept(table, table')
<1>1. table \in Settled(Root)
  BY DEF TableInv
<1>2. ASSUME NEW id \in NodeID, Add(id) PROVE TableInv' /\ DepthKept(table, table')
  <2>1. Settles(Root, table, table', {NewNode(id)}, {})
    BY <1>1, <1>2, RootAssumption, AddNodeKeeps DEF Add
  <2>2. \A kn \in {NewNode(id)} : kn.ticks_last = 0
    BY NewNodeType
  <2>3. Remember(heard, asked)
    BY <1>2 DEF Add
  <2> QED BY <1>1, <2>1, <2>2, <2>3, SettlesInv, SettlesDepthKept
<1>3. ASSUME NEW id \in NodeID, Disconnect(id) PROVE TableInv' /\ DepthKept(table, table')
  <2>1. PICK gone : Settles(Root, table, table', {}, gone)
    BY <1>1, <1>3, RootAssumption, NodeDisconnectedSettles DEF Disconnect
  <2>2. Remember(heard, asked)
    BY <1>3 DEF Disconnect
  <2> QED BY <1>1, <2>1, <2>2, SettlesInv, SettlesDepthKept
<1>4. ASSUME NEW id \in NodeID, Blacklist(id) PROVE TableInv' /\ DepthKept(table, table')
  <2>1. Settles(Root, table, table', {}, {id})
    BY <1>1, <1>4, RootAssumption, RemoveNodeSettles DEF Blacklist
  <2>2. Remember(heard, asked)
    BY <1>4 DEF Blacklist
  <2> QED BY <1>1, <2>1, <2>2, SettlesInv, SettlesDepthKept
<1>5. ASSUME NEW id \in NodeID, Hear(id) PROVE TableInv' /\ DepthKept(table, table')
  <2>1. ActiveNodes(table) \subseteq ActiveNodes(table')
    BY <1>1, <1>5, RootAssumption, NodeActiveSettles DEF Hear
  <2>2. DepthKept(table, table')
    BY <2>1 DEF DepthKept
  <2> QED BY <1>5, <2>2, HearInv
<1>6. ASSUME TableClock PROVE TableInv' /\ DepthKept(table, table')
  <2>1. TableInv'
    BY <1>6, TableClockInv
  <2>2. CachedNodes(table') \subseteq CachedNodes(table)
    BY <1>1, <1>6, RootAssumption, TickSettles DEF TableClock
  <2>3. table \in Tables(Root) /\ table' \in Tables(Root)
    BY <1>1, <2>1 DEF TableInv, Settled
  <2>4. ActiveNodes(table) \cap CachedNodes(table) = {}
    BY <2>3, RootAssumption, ActiveNotCached
  <2>5. Known(table') = ActiveNodes(table') \cup CachedNodes(table')
    BY <2>3, RootAssumption, NodesOfTable
  <2>6. DepthKept(table, table')
    BY <2>2, <2>4, <2>5 DEF DepthKept
  <2> QED BY <2>1, <2>6
<1> QED BY <1>2, <1>3, <1>4, <1>5, <1>6 DEF TableNext

LEMMA TableStepKeeps == TableInv /\ [TableNext]_tableVars => TableInv'
<1>1. ASSUME TableInv, UNCHANGED tableVars PROVE TableInv'
  BY <1>1 DEF TableInv, tableVars, Settled, Tables, SilentAsked
<1> QED BY <1>1, TableNextKeeps

\* Every node is in its bucket and nowhere else, no bucket grows beyond its
\* limits, and none is left to be split: for any number of nodes, any size of
\* the buckets and any sequence of calls (kademlia.rs:195-218, 265-398).
THEOREM TableIsWellFormed == TableSpec => []TableWellFormed
<1>1. TableInv => TableWellFormed
  BY TableInvHolds
<1> QED BY <1>1, TableInitInv, TableStepKeeps, PTL DEF TableSpec

\* Hearsay never makes a next hop: only a node that has sent a message is
\* active, wherever rebalancing puts it (kademlia.rs:150, node_active).
THEOREM OnlyHeardIsActive == TableSpec => []ActiveWereHeard
<1>1. TableInv => ActiveWereHeard
  BY TableInvHolds
<1> QED BY <1>1, TableInitInv, TableStepKeeps, PTL DEF TableSpec

\* No silent node is dropped before it has been pinged and has had the time to
\* answer, as active or cached node (kademlia.rs, tick).
THEOREM DroppedWasPinged == TableSpec => PingedBeforeDropped
<1>1. TableInv /\ [TableNext]_tableVars
         => [TableClock => Known(table) \ Known(table') \subseteq asked]_tableVars
  BY TableClockInv
<1> QED BY <1>1, TableInitInv, TableStepKeeps, PTL DEF TableSpec, PingedBeforeDropped

\* Rebalancing and full buckets never take the last next hop of a depth while
\* one of them is known (kademlia.rs, rebalance_overflow, rebalance_wanting).
THEOREM DepthsKeepNextHop == TableSpec => ReachKept
<1>1. TableInv /\ [TableNext]_tableVars => [DepthKept(table, table')]_tableVars
  BY TableNextKeeps
<1>2. TableInv /\ [TableNext]_tableVars =>
        [\A d \in 0..MaxDepth :
          LET before == {id \in ActiveNodes(table) : Depth(Root, id) = d}
              after  == {id \in ActiveNodes(table') : Depth(Root, id) = d}
          IN  before # {} /\ after = {} => before \cap Known(table') = {}]_tableVars
  BY <1>1 DEF DepthKept
<1> QED BY <1>2, TableInitInv, TableStepKeeps, PTL DEF TableSpec, ReachKept

----------------------------------------------------------------------------
(***************************************************************************)
(* The router: DHTRouter.tla.                                              *)
(***************************************************************************)
LEMMA WarmTableSettled ==
    ASSUME NEW me \in NodeID
    PROVE  WarmTable(me) \in Settled(me)
<1> DEFINE n == Len(Warm(me))
           b0 == NewTable
           X == Settled(me)
           IsLoop(g) == g = [i \in 0..n |-> IF i = 0 THEN NewTable ELSE NodeActive(me, AddNode(me, g[i - 1], Warm(me)[i]), Warm(me)[i])]
           f == CHOOSE g : IsLoop(g)
<1>1. n \in Nat
  BY RouterAssumption
<1>2. WarmTable(me) = f[n]
  BY Zenon DEF WarmTable
<1>3. b0 \in X
  BY NewTableSettled
<1>4. ASSUME NEW i \in 1..n, NEW u \in X
      PROVE  NodeActive(me, AddNode(me, u, Warm(me)[i]), Warm(me)[i]) \in X
  <2>1. Warm(me)[i] \in NodeID
    <3>1. Warm(me) \in Seq(NodeID \ {me})
      BY RouterAssumption
    <3> QED BY <3>1
  <2>2. AddNode(me, u, Warm(me)[i]) \in Settled(me)
    BY <2>1, AddNodeKeeps DEF Settles
  <2> QED BY <2>1, <2>2, NodeActiveSettles
<1>5. \E g : IsLoop(g)
  <2> DEFINE step == [i \in 1..n |-> [u \in X |-> NodeActive(me, AddNode(me, u, Warm(me)[i]), Warm(me)[i])]]
  <2>1. b0 = NewTable
    OBVIOUS
  <2> HIDE DEF n, X, b0
  <2>2. step \in Steps(n, X)
    BY <1>4 DEF Steps
  <2>3. \A i \in 1..n : \A u \in X : step[i][u] = NodeActive(me, AddNode(me, u, Warm(me)[i]), Warm(me)[i])
    OBVIOUS
  <2> HIDE DEF step
  <2>4. PICK g : g \in Iterations(n, X, b0, step)
    BY <1>1, <1>3, <2>2, Iterates, Zenon
  <2>5. /\ g \in [0..n -> X] /\ g[0] = b0
        /\ \A i \in 1..n : g[i] = step[i][g[i - 1]]
    BY <2>4 DEF Iterations
  <2>6. \A i \in 1..n : g[i] = NodeActive(me, AddNode(me, g[i - 1], Warm(me)[i]), Warm(me)[i])
    <3>1. \A i \in 1..n : g[i - 1] \in X
      BY <1>1, <2>5
    <3> QED BY <2>3, <2>5, <3>1
  <2>7. \A i \in 0..n : g[i] = IF i = 0 THEN NewTable ELSE NodeActive(me, AddNode(me, g[i - 1], Warm(me)[i]), Warm(me)[i])
    <3>1. \A i \in 0..n : i = 0 \/ i \in 1..n
      BY <1>1
    <3> QED BY <2>1, <2>5, <2>6, <3>1, Zenon
  <2>8. g = [i \in 0..n |-> g[i]]
    BY <2>5
  <2>9. IsLoop(g)
    BY <2>7, <2>8, Zenon
  <2> QED BY <2>9, Zenon
<1>6. IsLoop(f)
  BY <1>5, Zenon
<1> HIDE DEF n, f
<1>7. /\ f[0] = b0
      /\ \A i \in 1..n : f[i] = NodeActive(me, AddNode(me, f[i - 1], Warm(me)[i]), Warm(me)[i])
  <2>1. 0 \in 0..n /\ \A i \in 1..n : i \in 0..n /\ i # 0
    BY <1>1
  <2>2. \A i \in 0..n : f[i] = IF i = 0 THEN NewTable ELSE NodeActive(me, AddNode(me, f[i - 1], Warm(me)[i]), Warm(me)[i])
    BY <1>6, Zenon
  <2> QED BY <2>1, <2>2, Zenon
<1> HIDE DEF b0, X
<1> DEFINE P == {i \in 0..n : f[i] \in X}
<1>8. 0 \in P
  BY <1>1, <1>3, <1>7
<1>9. \A i \in 1..n : i - 1 \in P => i \in P
  BY <1>1, <1>4, <1>7
<1>10. 0..n \subseteq P
  <2> HIDE DEF P
  <2> QED BY <1>1, <1>8, <1>9, IntervalInduction
<1>11. f[n] \in X
  BY <1>1, <1>10
<1> QED BY <1>2, <1>11 DEF X

LEMMA AddNodesSettled ==
    ASSUME NEW me \in NodeID, NEW t \in Settled(me), NEW ids \in Seq(NodeID)
    PROVE  AddNodes(me, t, ids) \in Settled(me)
<1> DEFINE n == Len(ids)
           b0 == t
           X == Settled(me)
           IsLoop(g) == g = [i \in 0..n |-> IF i = 0 THEN t ELSE AddNode(me, g[i - 1], ids[i])]
           f == CHOOSE g : IsLoop(g)
<1>1. n \in Nat
  OBVIOUS
<1>2. AddNodes(me, t, ids) = f[n]
  BY Zenon DEF AddNodes
<1>3. b0 \in X
  OBVIOUS
<1>4. ASSUME NEW i \in 1..n, NEW u \in X
      PROVE  AddNode(me, u, ids[i]) \in X
  <2>1. ids[i] \in NodeID
    OBVIOUS
  <2> QED BY <2>1, AddNodeKeeps DEF Settles
<1>5. \E g : IsLoop(g)
  <2> DEFINE step == [i \in 1..n |-> [u \in X |-> AddNode(me, u, ids[i])]]
  <2>1. b0 = t
    OBVIOUS
  <2> HIDE DEF n, X, b0
  <2>2. step \in Steps(n, X)
    BY <1>4 DEF Steps
  <2>3. \A i \in 1..n : \A u \in X : step[i][u] = AddNode(me, u, ids[i])
    OBVIOUS
  <2> HIDE DEF step
  <2>4. PICK g : g \in Iterations(n, X, b0, step)
    BY <1>1, <1>3, <2>2, Iterates, Zenon
  <2>5. /\ g \in [0..n -> X] /\ g[0] = b0
        /\ \A i \in 1..n : g[i] = step[i][g[i - 1]]
    BY <2>4 DEF Iterations
  <2>6. \A i \in 1..n : g[i] = AddNode(me, g[i - 1], ids[i])
    <3>1. \A i \in 1..n : g[i - 1] \in X
      BY <1>1, <2>5
    <3> QED BY <2>3, <2>5, <3>1
  <2>7. \A i \in 0..n : g[i] = IF i = 0 THEN t ELSE AddNode(me, g[i - 1], ids[i])
    <3>1. \A i \in 0..n : i = 0 \/ i \in 1..n
      BY <1>1
    <3> QED BY <2>1, <2>5, <2>6, <3>1, Zenon
  <2>8. g = [i \in 0..n |-> g[i]]
    BY <2>5
  <2>9. IsLoop(g)
    BY <2>7, <2>8, Zenon
  <2> QED BY <2>9, Zenon
<1>6. IsLoop(f)
  BY <1>5, Zenon
<1> HIDE DEF n, f
<1>7. /\ f[0] = b0
      /\ \A i \in 1..n : f[i] = AddNode(me, f[i - 1], ids[i])
  <2>1. 0 \in 0..n /\ \A i \in 1..n : i \in 0..n /\ i # 0
    BY <1>1
  <2>2. \A i \in 0..n : f[i] = IF i = 0 THEN t ELSE AddNode(me, f[i - 1], ids[i])
    BY <1>6, Zenon
  <2> QED BY <2>1, <2>2, Zenon
<1> HIDE DEF b0, X
<1> DEFINE P == {i \in 0..n : f[i] \in X}
<1>8. 0 \in P
  BY <1>1, <1>3, <1>7
<1>9. \A i \in 1..n : i - 1 \in P => i \in P
  BY <1>1, <1>4, <1>7
<1>10. 0..n \subseteq P
  <2> HIDE DEF P
  <2> QED BY <1>1, <1>8, <1>9, IntervalInduction
<1>11. f[n] \in X
  BY <1>1, <1>10
<1> QED BY <1>2, <1>11 DEF X

LEMMA RemoveNodesSettled ==
    ASSUME NEW me \in NodeID, NEW t \in Settled(me), NEW ids \in Seq(NodeID)
    PROVE  /\ RemoveNodes(me, t, ids) \in Settled(me)
           /\ ActiveNodes(RemoveNodes(me, t, ids)) \subseteq ActiveNodes(t)
<1> DEFINE n == Len(ids)
           b0 == t
           X == {u \in Settled(me) : ActiveNodes(u) \subseteq ActiveNodes(t)}
           IsLoop(g) == g = [i \in 0..n |-> IF i = 0 THEN t ELSE RemoveNode(me, g[i - 1], ids[i])]
           f == CHOOSE g : IsLoop(g)
<1>1. n \in Nat
  OBVIOUS
<1>2. RemoveNodes(me, t, ids) = f[n]
  BY Zenon DEF RemoveNodes
<1>3. b0 \in X
  OBVIOUS
<1>4. ASSUME NEW i \in 1..n, NEW u \in X
      PROVE  RemoveNode(me, u, ids[i]) \in X
  <2>1. ids[i] \in NodeID
    OBVIOUS
  <2> DEFINE w == RemoveNode(me, u, ids[i])
  <2>2. u \in Settled(me) /\ ActiveNodes(u) \subseteq ActiveNodes(t)
    OBVIOUS
  <2>3. Settles(me, u, w, {}, {ids[i]})
    BY <2>1, <2>2, RemoveNodeSettles
  <2> HIDE DEF w
  <2>4. w \in Settled(me) /\ ActiveOf(w) \subseteq ActiveOf(u)
    BY <2>3 DEF Settles
  <2>5. u \in Tables(me) /\ w \in Tables(me)
    BY <2>2, <2>4 DEF Settled
  <2>6. ActiveNodes(w) \subseteq ActiveNodes(u)
    BY <2>4, <2>5, NodesOfTable
  <2> QED BY <2>2, <2>4, <2>6 DEF w
<1>5. \E g : IsLoop(g)
  <2> DEFINE step == [i \in 1..n |-> [u \in X |-> RemoveNode(me, u, ids[i])]]
  <2>1. b0 = t
    OBVIOUS
  <2> HIDE DEF n, X, b0
  <2>2. step \in Steps(n, X)
    BY <1>4 DEF Steps
  <2>3. \A i \in 1..n : \A u \in X : step[i][u] = RemoveNode(me, u, ids[i])
    OBVIOUS
  <2> HIDE DEF step
  <2>4. PICK g : g \in Iterations(n, X, b0, step)
    BY <1>1, <1>3, <2>2, Iterates, Zenon
  <2>5. /\ g \in [0..n -> X] /\ g[0] = b0
        /\ \A i \in 1..n : g[i] = step[i][g[i - 1]]
    BY <2>4 DEF Iterations
  <2>6. \A i \in 1..n : g[i] = RemoveNode(me, g[i - 1], ids[i])
    <3>1. \A i \in 1..n : g[i - 1] \in X
      BY <1>1, <2>5
    <3> QED BY <2>3, <2>5, <3>1
  <2>7. \A i \in 0..n : g[i] = IF i = 0 THEN t ELSE RemoveNode(me, g[i - 1], ids[i])
    <3>1. \A i \in 0..n : i = 0 \/ i \in 1..n
      BY <1>1
    <3> QED BY <2>1, <2>5, <2>6, <3>1, Zenon
  <2>8. g = [i \in 0..n |-> g[i]]
    BY <2>5
  <2>9. IsLoop(g)
    BY <2>7, <2>8, Zenon
  <2> QED BY <2>9, Zenon
<1>6. IsLoop(f)
  BY <1>5, Zenon
<1> HIDE DEF n, f
<1>7. /\ f[0] = b0
      /\ \A i \in 1..n : f[i] = RemoveNode(me, f[i - 1], ids[i])
  <2>1. 0 \in 0..n /\ \A i \in 1..n : i \in 0..n /\ i # 0
    BY <1>1
  <2>2. \A i \in 0..n : f[i] = IF i = 0 THEN t ELSE RemoveNode(me, f[i - 1], ids[i])
    BY <1>6, Zenon
  <2> QED BY <2>1, <2>2, Zenon
<1> HIDE DEF b0, X
<1> DEFINE P == {i \in 0..n : f[i] \in X}
<1>8. 0 \in P
  BY <1>1, <1>3, <1>7
<1>9. \A i \in 1..n : i - 1 \in P => i \in P
  BY <1>1, <1>4, <1>7
<1>10. 0..n \subseteq P
  <2> HIDE DEF P
  <2> QED BY <1>1, <1>8, <1>9, IntervalInduction
<1>11. f[n] \in X
  BY <1>1, <1>10
<1> QED BY <1>2, <1>11 DEF X

LEMMA MinOfNats ==
    ASSUME NEW S \in SUBSET Nat, S # {}
    PROVE  Min(S) \in S /\ \A y \in S : Min(S) <= y
<1>1. \E x \in S : \A y \in S : x <= y
  <2> SUFFICES ASSUME \A x \in S : \E y \in S : y < x
               PROVE  FALSE
    OBVIOUS
  <2> PICK n \in S : TRUE
    OBVIOUS
  <2> DEFINE P == {i \in 0..n : \A y \in S : y > i}
  <2>1. 0 \in P
    OBVIOUS
  <2>2. \A i \in 1..n : i - 1 \in P => i \in P
    <3> SUFFICES ASSUME NEW i \in 1..n, i - 1 \in P, NEW y \in S
                 PROVE  y > i
      OBVIOUS
    <3>1. \A z \in S : z >= i
      OBVIOUS
    <3>2. y # i
      BY <3>1
    <3> QED BY <3>1, <3>2
  <2>3. 0..n \subseteq P
    <3> HIDE DEF P
    <3> QED BY <2>1, <2>2, IntervalInduction
  <2> QED BY <2>3
<1> QED BY <1>1 DEF Min

LEMMA MaxOfNats ==
    ASSUME NEW N \in Nat, NEW S \in SUBSET (0..N), S # {}
    PROVE  Max(S) \in S /\ \A y \in S : Max(S) >= y
<1> DEFINE T == {N - x : x \in S}
<1>1. T \in SUBSET Nat /\ T # {}
  <2>1. \A x \in S : N - x \in Nat
    OBVIOUS
  <2> QED BY <2>1
<1>2. PICK x \in S : N - x = Min(T)
  <2> HIDE DEF T
  <2>1. Min(T) \in T
    BY <1>1, MinOfNats
  <2> QED BY <2>1 DEF T
<1>3. \A y \in S : N - x <= N - y
  <2>1. \A z \in T : Min(T) <= z
    <3> HIDE DEF T
    <3> QED BY <1>1, MinOfNats
  <2> QED BY <1>2, <2>1
<1>4. \A y \in S : x >= y
  BY <1>3
<1> QED BY <1>4 DEF Max

LEMMA MaxOfTwo ==
    ASSUME NEW a \in Nat, NEW b \in Nat
    PROVE  Max({a, b}) \in Nat /\ Max({a, b}) >= a /\ Max({a, b}) >= b
<1> DEFINE S == {a, b}
<1>1. \E x \in S : \A y \in S : x >= y
  OBVIOUS
<1>2. Max(S) \in S /\ \A y \in S : Max(S) >= y
  BY <1>1 DEF Max
<1> QED BY <1>2

\* The depths that route_closest looks at: that of dst, and for a message that
\* came from last, those beyond both.
LEMMA DepthsOfRoute ==
    ASSUME NEW me \in NodeID, NEW t \in Settled(me), NEW dst \in ID,
           NEW last \in NodeID \cup {NoNode}
    PROVE  LET depths == RouteDepths(me, t, dst, last)
           IN  /\ depths \subseteq Nat
               /\ \A d \in depths :
                     \/ d = Depth(me, dst)
                     \/ /\ last # NoNode
                        /\ d > Depth(me, dst) /\ d > Depth(me, last)
<1> DEFINE depths == RouteDepths(me, t, dst, last)
           depth == Depth(me, dst)
           depthLast == Max({depth, Depth(me, last)})
           active == IDs(t.root_bucket.active)
           seen == {Depth(me, id) : id \in active}
           rootLast == IF active = {} THEN depthLast ELSE Max(seen)
<1>1. depths = {depth} \cup (IF last = NoNode THEN {} ELSE (depthLast + 1)..(rootLast - 1))
  BY DEF RouteDepths
<1>2. depth \in Nat
  BY DepthAssumption
<1>3. CASE last = NoNode
  BY <1>1, <1>2, <1>3
<1>4. CASE last # NoNode
  <2>1. Depth(me, last) \in Nat
    BY <1>4, DepthAssumption
  <2>2. depthLast \in Nat /\ depthLast >= depth /\ depthLast >= Depth(me, last)
    BY <1>2, <2>1, MaxOfTwo
  <2>3. active # {} => Max(seen) \in 0..MaxDepth
    <3>1. active \subseteq NodeID
      <4>1. t \in Tables(me)
        BY DEF Settled
      <4>2. t.root_bucket \in KBucket
        BY <4>1, TableParts
      <4> QED BY <4>2, RangeIDs DEF KBucket
    <3>2. seen \subseteq 0..MaxDepth /\ MaxDepth \in Nat
      BY <3>1, DepthAssumption
    <3> HIDE DEF active
    <3>3. active # {} => seen # {}
      OBVIOUS
    <3> HIDE DEF seen
    <3> QED BY <3>2, <3>3, MaxOfNats
  <2> HIDE DEF depth, depthLast, seen, depths, active
  <2>4. MaxDepth \in Nat
    BY DepthAssumption
  <2>5. rootLast \in Int
    BY <2>2, <2>3, <2>4
  <2> HIDE DEF rootLast
  <2>6. depths = {depth} \cup (depthLast + 1)..(rootLast - 1)
    BY <1>1, <1>4
  <2>7. \A x \in (depthLast + 1)..(rootLast - 1) : x \in Nat /\ x > depth /\ x > Depth(me, last)
    BY <1>2, <2>1, <2>2, <2>5
  <2> QED BY <1>2, <1>4, <2>6, <2>7 DEF depth, depths
<1> QED BY <1>3, <1>4

\* Where route_closest sends to: an active node that shares as many bits with
\* me as dst does, or one of the wrong branch, beyond the last hop.
LEMMA HopsOfRoute ==
    ASSUME NEW me \in NodeID, NEW t \in Settled(me), NEW dst \in ID,
           NEW last \in NodeID \cup {NoNode},
           NEW next \in Range(RouteClosest(me, t, dst, last))
    PROVE  /\ next \in ActiveNodes(t)
           /\ \/ Depth(me, next) = Depth(me, dst)
              \/ /\ last # NoNode
                 /\ Depth(me, next) > Depth(me, dst)
                 /\ Depth(me, next) > Depth(me, last)
<1> DEFINE depths == RouteDepths(me, t, dst, last)
           useful == {d \in depths : GetNodesDepth(me, t, d) # <<>>}
           d == Min(useful)
           found == AtDepth(me, BucketOf(t, d).active, d)
<1>1. useful # {} /\ next \in Range(GetNodesDepth(me, t, d))
  <2>1. CASE useful = {}
    <3>1. RouteClosest(me, t, dst, last) = <<>>
      BY <2>1 DEF RouteClosest
    <3> QED BY <3>1 DEF Range
  <2>2. CASE useful # {}
    <3>1. RouteClosest(me, t, dst, last) = GetNodesDepth(me, t, d)
      BY <2>2 DEF RouteClosest
    <3> QED BY <2>2, <3>1
  <2> QED BY <2>1, <2>2
<1> HIDE DEF useful
<1>2. depths \subseteq Nat /\ \A x \in depths :
         \/ x = Depth(me, dst)
         \/ /\ last # NoNode
            /\ x > Depth(me, dst) /\ x > Depth(me, last)
  BY DepthsOfRoute
<1>3. d \in depths
  <2>1. useful \subseteq depths
    BY DEF useful
  <2> QED BY <1>1, <1>2, <2>1, MinOfNats
<1> HIDE DEF d, depths
<1>4. d \in Nat
  BY <1>2, <1>3
<1>5. next \in ActiveNodes(t) /\ Depth(me, next) = d
  <2> DEFINE b == BucketOf(t, d)
  <2>1. t \in Tables(me)
    BY DEF Settled
  <2>2. b \in Buckets(t) /\ BucketOK(b)
    BY <1>4, <2>1, OneBucket
  <2> HIDE DEF b
  <2>3. b.active \in Seq(KNode) /\ Distinct(b.active)
    BY <2>2, BucketParts
  <2> DEFINE a == AtDepth(me, b.active, d)
  <2>4. IDs(a) = {id \in IDs(b.active) : Depth(me, id) = d}
    BY <2>3, AtDepthIs
  <2>5. GetNodesDepth(me, t, d) = [i \in DOMAIN a |-> a[i].id]
    BY DEF GetNodesDepth, b
  <2> HIDE DEF a
  <2>6. next \in IDs(a)
    BY <1>1, <2>5 DEF Range, IDs
  <2> QED BY <2>2, <2>4, <2>6 DEF ActiveNodes
<1> QED BY <1>2, <1>3, <1>5

LEMMA HopsAreNodes ==
    ASSUME NEW me \in NodeID, NEW t \in Settled(me), NEW dst \in ID,
           NEW last \in NodeID \cup {NoNode}
    PROVE  RouteClosest(me, t, dst, last) \in Seq(NodeID)
<1>1. ASSUME NEW d \in Nat
      PROVE  GetNodesDepth(me, t, d) \in Seq(NodeID)
  <2> DEFINE a == AtDepth(me, BucketOf(t, d).active, d)
  <2>1. BucketOK(BucketOf(t, d))
    BY OneBucket DEF Settled
  <2>2. BucketOf(t, d).active \in Seq(KNode) /\ Distinct(BucketOf(t, d).active)
    BY <2>1, BucketParts
  <2>3. a \in Seq(KNode)
    BY <2>2, AtDepthIs
  <2>4. GetNodesDepth(me, t, d) = [i \in DOMAIN a |-> a[i].id]
    BY DEF GetNodesDepth
  <2> HIDE DEF a
  <2>5. DOMAIN a = 1..Len(a) /\ Len(a) \in Nat /\ \A i \in DOMAIN a : a[i].id \in NodeID
    <3>1. DOMAIN a = 1..Len(a) /\ Len(a) \in Nat /\ \A i \in DOMAIN a : a[i] \in KNode
      BY <2>3
    <3> QED BY <3>1 DEF KNode
  <2>6. [i \in 1..Len(a) |-> a[i].id] \in Seq(NodeID)
    BY <2>5
  <2> QED BY <2>4, <2>5, <2>6
<1> DEFINE depths == RouteDepths(me, t, dst, last)
           useful == {d \in depths : GetNodesDepth(me, t, d) # <<>>}
<1>2. CASE useful = {}
  <2>1. RouteClosest(me, t, dst, last) = <<>>
    BY <1>2 DEF RouteClosest
  <2> QED BY <2>1
<1>3. CASE useful # {}
  <2>1. RouteClosest(me, t, dst, last) = GetNodesDepth(me, t, Min(useful))
    BY <1>3 DEF RouteClosest
  <2>2. useful \in SUBSET Nat
    BY DepthsOfRoute
  <2> HIDE DEF useful
  <2>3. Min(useful) \in Nat
    BY <1>3, <2>2, MinOfNats
  <2> QED BY <1>1, <2>1, <2>3
<1> QED BY <1>2, <1>3

\* A next hop of a message, with the table t that n routes with.
IsHop(n, key, last, next) ==
    \/ Depth(n, next) = Depth(n, key)
    \/ /\ last # NoNode
       /\ Depth(n, next) > Depth(n, key)
       /\ Depth(n, next) > Depth(n, last)

LEMMA HopsOfNode ==
    ASSUME NEW n \in NodeID, NEW t \in Settled(n), NEW key \in ID,
           NEW last \in NodeID \cup {NoNode}, connected[n] \subseteq NodeID \ {n}
    PROVE  LET hops == ClosestOrConnected(n, t, key, last)
           IN  /\ hops = <<>> \/ Head(hops) \in Range(hops)
               /\ \A next \in Range(hops) :
                     /\ next \in ActiveNodes(t) \cup connected[n]
                     /\ next \in NodeID \ {n}
                     /\ IsHop(n, key, last, next)
<1> DEFINE hops == ClosestOrConnected(n, t, key, last)
<1>1. CASE key \in connected[n]
  <2>1. hops = <<key>>
    BY <1>1 DEF ClosestOrConnected
  <2>2. Head(hops) = key /\ Range(hops) = {key}
    BY <2>1 DEF Range
  <2> HIDE DEF hops
  <2>3. IsHop(n, key, last, key)
    BY DEF IsHop
  <2> QED BY <1>1, <2>2, <2>3 DEF hops
<1>2. CASE key \notin connected[n]
  <2>1. hops = RouteClosest(n, t, key, last)
    BY <1>2 DEF ClosestOrConnected
  <2> HIDE DEF hops
  <2>2. hops \in Seq(NodeID)
    BY <2>1, HopsAreNodes
  <2>3. hops = <<>> \/ Head(hops) \in Range(hops)
    <3>1. hops # <<>> => Head(hops) = hops[1] /\ 1 \in DOMAIN hops
      BY <2>2
    <3> QED BY <3>1 DEF Range
  <2>4. ActiveNodes(t) \subseteq NodeID \ {n}
    <3>1. t \in Tables(n)
      BY DEF Settled
    <3>2. ActiveNodes(t) \subseteq Known(t) /\ Known(t) \subseteq NodeID \ {n}
      BY <3>1, NodesOfTable
    <3> QED BY <3>2
  <2>5. \A next \in Range(hops) : next \in ActiveNodes(t) /\ IsHop(n, key, last, next)
    BY <2>1, HopsOfRoute DEF IsHop
  <2> QED BY <2>3, <2>4, <2>5 DEF hops
<1> QED BY <1>1, <1>2

\* The lists that the code makes of a set of nodes, in any order.
LEMMA ListsOfNodes ==
    ASSUME NEW ids \in SUBSET NodeID
    PROVE  /\ SetToSeqs(ids) \subseteq Seq(NodeID)
           /\ SetToSeq(ids) \in Seq(NodeID)
<1> DEFINE c == Cardinality(ids)
<1>1. IsFiniteSet(ids)
  BY RouterAssumption, FS_Subset
<1>2. c \in Nat /\ ExistsBijection(1..c, ids)
  BY <1>1, FS_CardinalityType
<1>3. \A f \in [1..c -> ids] : f \in Seq(NodeID)
  BY <1>2
<1>4. SetToSeqs(ids) \subseteq [1..c -> ids]
  BY DEF SetToSeqs
<1>5. \E f \in [1..c -> ids] : IsInjective(f)
  BY <1>2 DEF ExistsBijection, Bijection, Injection, IsInjective
<1>6. SetToSeq(ids) \in [1..c -> ids]
  BY <1>5 DEF SetToSeq
<1> QED BY <1>3, <1>4, <1>6

LEMMA AddedNodesSettled ==
    ASSUME NEW n \in NodeID, NEW t \in Settled(n), NEW ids \in SUBSET NodeID,
           NEW u \in AddedNodes(n, t, ids)
    PROVE  u \in Settled(n)
<1>1. PICK order \in SetToSeqs(ids) : u = AddNodes(n, t, order)
  BY DEF AddedNodes
<1>2. order \in Seq(NodeID)
  BY ListsOfNodes
<1> QED BY <1>1, <1>2, AddNodesSettled

----------------------------------------------------------------------------
(***************************************************************************)
(* Requests in flight.                                                     *)
(***************************************************************************)
Requests == UNION {[R -> NodeID] : R \in SUBSET ReadFloID}

RequestsTo(f, x) == {r \in DOMAIN f : f[r] = x}

\* No node has more than most requests.
AtMost(f, most) ==
    LocalBlacklists => \A x \in NodeID : Cardinality(RequestsTo(f, x)) <= most

LEMMA RequestParts ==
    ASSUME NEW f \in Requests
    PROVE  /\ DOMAIN f \subseteq ReadFloID
           /\ \A r \in DOMAIN f : f[r] \in NodeID
           /\ Range(f) \subseteq NodeID
           /\ \A x : IsFiniteSet(RequestsTo(f, x)) /\ Cardinality(RequestsTo(f, x)) \in Nat
<1>1. PICK R \in SUBSET ReadFloID : f \in [R -> NodeID]
  BY DEF Requests
<1>2. IsFiniteSet(ReadFloID)
  BY RouterAssumption, FS_Interval DEF ReadFloID
<1>3. DOMAIN f \subseteq ReadFloID /\ \A r \in DOMAIN f : f[r] \in NodeID
  BY <1>1
<1>4. \A x : RequestsTo(f, x) \subseteq ReadFloID
  BY <1>3 DEF RequestsTo
<1>5. \A x : IsFiniteSet(RequestsTo(f, x))
  BY <1>2, <1>4, FS_Subset
<1>6. \A x : Cardinality(RequestsTo(f, x)) \in Nat
  BY <1>5, FS_CardinalityType
<1>7. Range(f) \subseteq NodeID
  BY <1>3 DEF Range
<1> QED BY <1>3, <1>5, <1>6, <1>7

\* A request that is noted adds one to the requests of its next hop, and may
\* take one from another node.
LEMMA NotedKeeps ==
    ASSUME NEW f \in Requests, AtMost(f, MaxInFlight),
           NEW r, NEW reads \in SUBSET ({r} \cap ReadFloID), NEW next \in SUBSET NodeID
    PROVE  /\ Noted(f, reads, next) \in Requests
           /\ AtMost(Noted(f, reads, next), MaxInFlight + 1)
<1> DEFINE g == Noted(f, reads, next)
           hop == CHOOSE x \in next : TRUE
<1>1. MaxInFlight \in Nat
  BY RouterAssumption
<1>2. CASE next = {}
  <2>1. g = f
    BY <1>2 DEF Noted
  <2> HIDE DEF g
  <2>2. \A x : Cardinality(RequestsTo(f, x)) \in Nat
    BY RequestParts
  <2>3. AtMost(g, MaxInFlight + 1)
    BY <1>1, <2>1, <2>2 DEF AtMost
  <2> QED BY <2>1, <2>3 DEF g
<1>3. CASE next # {}
  <2>1. hop \in NodeID
    BY <1>3
  <2> HIDE DEF hop
  <2>2. g = [q \in DOMAIN f \cup reads |-> IF q \in reads THEN hop ELSE f[q]]
    BY <1>3 DEF Noted, hop
  <2> HIDE DEF g
  <2>3. DOMAIN f \subseteq ReadFloID /\ \A q \in DOMAIN f : f[q] \in NodeID
    BY RequestParts
  <2>4. g \in [DOMAIN f \cup reads -> NodeID] /\ DOMAIN f \cup reads \in SUBSET ReadFloID
    BY <2>1, <2>2, <2>3
  <2>5. g \in Requests
    BY <2>4 DEF Requests
  <2>6. ASSUME LocalBlacklists, NEW x \in NodeID
        PROVE  Cardinality(RequestsTo(g, x)) <= MaxInFlight + 1
    <3> DEFINE S == RequestsTo(f, x)
               T == RequestsTo(g, x)
    <3>1. T \subseteq S \cup {r}
      BY <2>2 DEF RequestsTo
    <3>2. IsFiniteSet(S) /\ Cardinality(S) \in Nat
      BY RequestParts
    <3>3. Cardinality(S) <= MaxInFlight
      BY <2>6 DEF AtMost
    <3> HIDE DEF S, T
    <3>4. /\ IsFiniteSet(S \cup {r})
          /\ Cardinality(S \cup {r}) = IF r \in S THEN Cardinality(S) ELSE Cardinality(S) + 1
      BY <3>2, FS_AddElement
    <3>5. Cardinality(S \cup {r}) <= Cardinality(S) + 1
      BY <3>2, <3>4
    <3>6. Cardinality(T) <= Cardinality(S \cup {r}) /\ Cardinality(T) \in Nat
      BY <3>1, <3>4, FS_Subset, FS_CardinalityType
    <3>7. Cardinality(S \cup {r}) \in Nat
      BY <3>2, <3>4
    <3> QED BY <1>1, <3>2, <3>3, <3>5, <3>6, <3>7 DEF T
  <2>7. AtMost(g, MaxInFlight + 1)
    BY <2>6 DEF AtMost
  <2> QED BY <2>5, <2>7 DEF g
<1> QED BY <1>2, <1>3

\* What blacklist_bad_nodes leaves of the table and of the requests.
LEMMA BlacklistKeeps ==
    ASSUME NEW n \in NodeID, tables[n] \in Settled(n), inFlight[n] \in Requests,
           blacklisted[n] \in SUBSET NodeID
    PROVE  LET s == BlacklistBadNodes(n)
           IN  /\ s = [table |-> s.table, inFlight |-> s.inFlight,
                       blacklisted |-> s.blacklisted]
               /\ s.table \in Settled(n)
               /\ ActiveNodes(s.table) \subseteq ActiveNodes(tables[n])
               /\ s.inFlight \in Requests /\ AtMost(s.inFlight, MaxInFlight)
               /\ s.blacklisted \in SUBSET NodeID
<1> DEFINE f == inFlight[n]
           bad == BadNodes(n)
           kept == {r \in DOMAIN f : f[r] \notin bad}
           t == RemoveNodes(n, tables[n], SetToSeq(bad))
           g == Restrict(f, kept)
           s == BlacklistBadNodes(n)
<1>1. s = [table |-> t, inFlight |-> g, blacklisted |-> blacklisted[n] \cup bad]
  BY DEF BlacklistBadNodes
<1>2. /\ DOMAIN f \subseteq ReadFloID /\ \A r \in DOMAIN f : f[r] \in NodeID
      /\ Range(f) \subseteq NodeID
      /\ \A x : IsFiniteSet(RequestsTo(f, x)) /\ Cardinality(RequestsTo(f, x)) \in Nat
  BY RequestParts
<1>3. bad \in SUBSET NodeID
  BY <1>2 DEF BadNodes
<1>4. \A x \in NodeID : LocalBlacklists /\ x \in Range(f) /\ x \notin bad =>
         ~(Cardinality(RequestsTo(f, x)) > MaxInFlight)
  BY DEF BadNodes, RequestsTo
<1> HIDE DEF bad
<1>5. t \in Settled(n) /\ ActiveNodes(t) \subseteq ActiveNodes(tables[n])
  <2>1. SetToSeq(bad) \in Seq(NodeID)
    BY <1>3, ListsOfNodes
  <2> QED BY <2>1, RemoveNodesSettled
<1>6. g = [r \in kept |-> f[r]]
  BY DEF Restrict
<1> HIDE DEF t, g, s
<1>7. g \in [kept -> NodeID] /\ kept \in SUBSET ReadFloID
  BY <1>2, <1>6
<1>8. g \in Requests
  <2> HIDE DEF kept
  <2> QED BY <1>7 DEF Requests
<1>9. ASSUME LocalBlacklists, NEW x \in NodeID
      PROVE  Cardinality(RequestsTo(g, x)) <= MaxInFlight
  <2>1. MaxInFlight \in Nat
    BY RouterAssumption
  <2>2. CASE x \in bad \/ x \notin Range(f)
    <3>1. RequestsTo(g, x) = {}
      BY <1>6, <2>2 DEF RequestsTo, Range
    <3>2. Cardinality(RequestsTo(g, x)) = 0
      BY <3>1, FS_EmptySet
    <3> QED BY <2>1, <3>2
  <2>3. CASE x \notin bad /\ x \in Range(f)
    <3>1. RequestsTo(g, x) \subseteq RequestsTo(f, x)
      BY <1>6 DEF RequestsTo
    <3>2. IsFiniteSet(RequestsTo(f, x)) /\ Cardinality(RequestsTo(f, x)) \in Nat
      BY <1>2
    <3>3. Cardinality(RequestsTo(g, x)) <= Cardinality(RequestsTo(f, x))
          /\ Cardinality(RequestsTo(g, x)) \in Nat
      BY <3>1, <3>2, FS_Subset, FS_CardinalityType
    <3>4. ~(Cardinality(RequestsTo(f, x)) > MaxInFlight)
      BY <1>4, <1>9, <2>3
    <3> QED BY <2>1, <3>2, <3>3, <3>4
  <2> QED BY <2>2, <2>3
<1>10. AtMost(g, MaxInFlight)
  BY <1>9 DEF AtMost
<1> QED BY <1>1, <1>3, <1>5, <1>8, <1>10 DEF s

\* What randomly_whitelist makes of it.
LEMMA WhitelistKeeps ==
    ASSUME NEW n \in NodeID, NEW t \in Settled(n), NEW f, NEW black \in SUBSET NodeID,
           NEW s2 \in RandomlyWhitelist(n,
                         [table |-> t, inFlight |-> f, blacklisted |-> black])
    PROVE  s2.table \in Settled(n) /\ s2.inFlight = f /\ s2.blacklisted \in SUBSET NodeID
<1> DEFINE s == [table |-> t, inFlight |-> f, blacklisted |-> black]
<1>1. s2 = s \/ \E x \in black : s2 = [s EXCEPT !.table = AddNode(n, @, x),
                                                !.blacklisted = @ \ {x}]
  BY DEF RandomlyWhitelist
<1>2. CASE s2 = s
  BY <1>2
<1>3. ASSUME NEW x \in black,
             s2 = [s EXCEPT !.table = AddNode(n, @, x), !.blacklisted = @ \ {x}]
      PROVE  s2.table \in Settled(n) /\ s2.inFlight = f /\ s2.blacklisted \in SUBSET NodeID
  <2>1. AddNode(n, t, x) \in Settled(n)
    BY AddNodeKeeps DEF Settles
  <2>2. s2.table = AddNode(n, t, x) /\ s2.inFlight = f /\ s2.blacklisted = black \ {x}
    BY <1>3
  <2> QED BY <2>1, <2>2
<1> QED BY <1>1, <1>2, <1>3

----------------------------------------------------------------------------
(***************************************************************************)
(* The invariant of the routers.                                           *)
(***************************************************************************)
RouterTables(f) == f = [n \in NodeID |-> f[n]] /\ \A n \in NodeID : f[n] \in Settled(n)

RouterInv ==
    /\ RouterTables(tables)
    /\ connected \in [NodeID -> SUBSET NodeID] /\ \A n \in NodeID : n \notin connected[n]
    /\ inFlight \in [NodeID -> Requests]
    /\ \A n \in NodeID : AtMost(inFlight[n], MaxInFlight + 1)
    /\ blacklisted \in [NodeID -> SUBSET NodeID]
    /\ net \subseteq ModuleMessage
    /\ sends \in 0..MaxSends /\ changes \in 0..MaxChanges /\ ticks \in 0..MaxTicks

LEMMA SettledNodes ==
    ASSUME NEW n \in NodeID, NEW t \in Settled(n)
    PROVE  /\ Known(t) \subseteq NodeID \ {n}
           /\ ActiveNodes(t) \subseteq NodeID \ {n}
           /\ Pings(t) \subseteq NodeID
<1>1. t \in Tables(n)
  BY DEF Settled
<1>2. /\ Known(t) \subseteq NodeID \ {n} /\ ActiveNodes(t) \subseteq Known(t)
      /\ \A b \in Buckets(t) : BucketOK(b)
  BY <1>1, NodesOfTable
<1>3. ASSUME NEW b \in Buckets(t)
      PROVE  BucketPings(b, TRUE) \subseteq NodeID /\ BucketPings(b, FALSE) \subseteq NodeID
  <2>1. b.active \in Seq(KNode) /\ b.cache \in Seq(KNode)
    BY <1>2, BucketParts
  <2>2. IDs(b.active) \subseteq NodeID /\ IDs(b.cache) \subseteq NodeID
    BY <2>1, RangeIDs
  <2> QED BY <2>2 DEF BucketPings, IDs
<1>4. Pings(t) \subseteq NodeID
  BY <1>3 DEF Pings, Buckets
<1> QED BY <1>2, <1>4

LEMMA RouterInvHolds == RouterInv => RoutersWellFormed
<1> SUFFICES ASSUME RouterInv PROVE RoutersWellFormed
  OBVIOUS
<1>1. ASSUME NEW n \in NodeID
      PROVE  IsTable(tables[n]) /\ Known(tables[n]) \subseteq NodeID \ {n}
  <2>1. tables[n] \in Settled(n)
    BY DEF RouterInv, RouterTables
  <2>2. tables[n] \in Tables(n)
    BY <2>1 DEF Settled
  <2>3. IsTable(tables[n])
    BY <2>2 DEF Tables, IsTable
  <2> QED BY <2>1, <2>3, SettledNodes
<1>2. ASSUME NEW n \in NodeID
      PROVE  DOMAIN inFlight[n] \subseteq ReadFloID /\ Range(inFlight[n]) \subseteq NodeID
  BY RequestParts DEF RouterInv
<1>3. TypeOK
  BY <1>1, <1>2 DEF TypeOK, RouterInv
<1>4. InFlightBounded
  BY DEF InFlightBounded, RouterInv, AtMost, RequestsTo
<1> QED BY <1>3, <1>4 DEF RoutersWellFormed

LEMMA RouterInitInv == Init => RouterInv
<1> SUFFICES ASSUME Init PROVE RouterInv
  OBVIOUS
<1>1. RouterTables(tables)
  BY WarmTableSettled DEF Init, RouterTables
<1>2. connected \in [NodeID -> SUBSET NodeID] /\ \A n \in NodeID : n \notin connected[n]
  <2>1. ASSUME NEW n \in NodeID
        PROVE  Range(Warm(n)) \subseteq NodeID \ {n}
    <3>1. Warm(n) \in Seq(NodeID \ {n})
      BY RouterAssumption
    <3> DEFINE w == Warm(n)
    <3> HIDE DEF w
    <3>2. Range(w) \subseteq NodeID \ {n}
      BY <3>1 DEF Range, w
    <3> QED BY <3>2 DEF w
  <2>2. connected = [n \in NodeID |-> Range(Warm(n))]
    BY DEF Init
  <2> QED BY <2>1, <2>2
<1>3. <<>> \in Requests /\ AtMost(<<>>, MaxInFlight + 1)
  <2>1. <<>> \in [{} -> NodeID]
    OBVIOUS
  <2>2. <<>> \in Requests
    BY <2>1 DEF Requests
  <2>3. \A x : RequestsTo(<<>>, x) = {}
    BY DEF RequestsTo
  <2>4. MaxInFlight \in Nat
    BY RouterAssumption
  <2>5. \A x : Cardinality(RequestsTo(<<>>, x)) <= MaxInFlight + 1
    BY <2>3, <2>4, FS_EmptySet
  <2> QED BY <2>2, <2>5 DEF AtMost
<1>4. 0 \in 0..MaxSends /\ 0 \in 0..MaxChanges /\ 0 \in 0..MaxTicks
  BY RouterAssumption
<1>5. inFlight = [n \in NodeID |-> <<>>] /\ blacklisted = [n \in NodeID |-> {}] /\ net = {}
      /\ sends = 0 /\ changes = 0 /\ ticks = 0
  BY DEF Init
<1>6. inFlight \in [NodeID -> Requests] /\ \A n \in NodeID : AtMost(inFlight[n], MaxInFlight + 1)
  BY <1>3, <1>5
<1> QED BY <1>1, <1>2, <1>4, <1>5, <1>6 DEF RouterInv

LEMMA OneTableSet ==
    ASSUME RouterTables(tables), NEW n \in NodeID, NEW t \in Settled(n),
           tables' = [tables EXCEPT ![n] = t]
    PROVE  RouterTables(tables')
BY DEF RouterTables

LEMMA SendingInv ==
    ASSUME RouterInv, NEW out \in SUBSET ModuleMessage, Sending(out)
    PROVE  RouterInv'
<1>1. sends' \in 0..MaxSends
  <2>1. MaxSends \in Nat /\ sends \in 0..MaxSends /\ sends < MaxSends /\ sends' = sends + 1
    BY RouterAssumption DEF RouterInv, Sending
  <2> QED BY <2>1
<1>2. net' \subseteq ModuleMessage
  BY DEF Sending, RouterInv
<1> QED BY <1>1, <1>2 DEF Sending, nodeVars, RouterInv

LEMMA ChangingInv ==
    ASSUME RouterInv, NEW n \in NodeID, NEW t \in Settled(n), Changing,
           tables' = [tables EXCEPT ![n] = t],
           \/ UNCHANGED connected
           \/ \E ids \in SUBSET (NodeID \ {n}) : connected' = [connected EXCEPT ![n] = ids]
    PROVE  RouterInv'
<1>1. changes' \in 0..MaxChanges
  <2>1. /\ MaxChanges \in Nat /\ changes \in 0..MaxChanges
        /\ changes < MaxChanges /\ changes' = changes + 1
    BY RouterAssumption DEF RouterInv, Changing
  <2> QED BY <2>1
<1>2. RouterTables(tables')
  BY OneTableSet DEF RouterInv
<1>3. connected' \in [NodeID -> SUBSET NodeID] /\ \A x \in NodeID : x \notin connected'[x]
  BY DEF RouterInv
<1> QED BY <1>1, <1>2, <1>3 DEF Changing, RouterInv

LEMMA ClockInv ==
    ASSUME RouterInv, NEW n \in NodeID, Clock(n)
    PROVE  RouterInv'
<1>1. ticks' \in 0..MaxTicks
  <2>1. /\ MaxTicks \in Nat /\ ticks \in 0..MaxTicks /\ ticks < MaxTicks /\ ticks' = ticks + 1
    BY RouterAssumption DEF RouterInv, Clock
  <2> QED BY <2>1
<1>2. tables[n] \in Settled(n)
  BY DEF RouterInv, RouterTables
<1>3. Tick(tables[n]) \in Settled(n)
  BY <1>2, TickSettles
<1>4. tables' = [tables EXCEPT ![n] = Tick(tables[n])]
  BY DEF Clock
<1>5. RouterTables(tables')
  BY <1>3, <1>4, OneTableSet DEF RouterInv
<1>6. Pings(tables[n]) \subseteq NodeID /\ ActiveNodes(tables'[n]) \subseteq NodeID
  <2>1. tables'[n] \in Settled(n)
    BY <1>5 DEF RouterTables
  <2> QED BY <1>2, <2>1, SettledNodes
<1>7. net' \subseteq ModuleMessage
  <2> DEFINE pings == {[type |-> "Ping", from |-> n, to |-> m] : m \in Pings(tables[n])}
             asks  == {[type |-> "ConnectedIDsRequest", from |-> n, to |-> m] :
                          m \in ActiveNodes(tables'[n])}
  <2>1. pings \subseteq ModuleMessage /\ asks \subseteq ModuleMessage
    BY <1>6 DEF ModuleMessage
  <2>2. net' = net \cup pings \cup asks
    BY DEF Clock
  <2> HIDE DEF pings, asks
  <2> QED BY <2>1, <2>2 DEF RouterInv
<1> QED BY <1>1, <1>5, <1>7 DEF Clock, RouterInv

LEMMA HeardInv ==
    ASSUME RouterInv, NEW m \in net, NEW n \in NodeID, m.to = n, m.from \in NodeID,
           NEW t \in Settled(n), NEW out \in SUBSET ModuleMessage, Heard(m, t, out),
           inFlight' \in [NodeID -> Requests],
           \A x \in NodeID : AtMost(inFlight'[x], MaxInFlight + 1),
           blacklisted' \in [NodeID -> SUBSET NodeID]
    PROVE  RouterInv'
<1>1. NodeActive(n, t, m.from) \in Settled(n)
  BY NodeActiveSettles
<1>2. tables' = [tables EXCEPT ![n] = NodeActive(n, t, m.from)]
  BY DEF Heard
<1>3. RouterTables(tables')
  BY <1>1, <1>2, OneTableSet DEF RouterInv
<1>4. net' \subseteq ModuleMessage
  BY DEF Heard, RouterInv
<1> QED BY <1>3, <1>4 DEF Heard, RouterInv

LEMMA MessageParts ==
    ASSUME NEW m \in ModuleMessage
    PROVE  /\ m.from \in NodeID /\ m.to \in NodeID
           /\ m.type = "ConnectedIDsReply" => m.ids \in SUBSET NodeID
           /\ IsRouted(m) => m \in Routed
           /\ m \in Routed =>
                 /\ m.key \in ID /\ m.visited \in SUBSET NodeID
                 /\ m.type = "Direct" => m.key \in NodeID
BY DepthAssumption DEF ModuleMessage, Routed, IsRouted

LEMMA HopParts ==
    ASSUME NEW m \in Routed, NEW n \in NodeID, NEW next \in NodeID,
           NEW hop, hop = Hop(m, n, next)
    PROVE  /\ hop \in Routed /\ IsRouted(hop)
           /\ hop.key = m.key /\ hop.from = n /\ hop.to = next
           /\ hop.visited = m.visited \cup {n}
<1>1. CASE m.type = "Closest"
  BY <1>1 DEF Routed, Hop, IsRouted
<1>2. CASE m.type = "Direct"
  BY <1>2 DEF Routed, Hop, IsRouted
<1> QED BY <1>1, <1>2 DEF Routed

\* Every message that is new on its way is one the routers can send.
LEMMA NewMessages ==
    ASSUME RouterInv, NEW n \in NodeID, NEW key \in ID,
           NEW next \in First(ClosestOrConnected(n, tables[n], key, NoNode))
    PROVE  /\ next \in NodeID \ {n}
           /\ next \in ActiveNodes(tables[n]) \cup connected[n]
           /\ Depth(n, next) = Depth(n, key)
<1> DEFINE hops == ClosestOrConnected(n, tables[n], key, NoNode)
<1>1. tables[n] \in Settled(n) /\ connected[n] \subseteq NodeID \ {n}
  BY DEF RouterInv, RouterTables
<1>2. /\ hops = <<>> \/ Head(hops) \in Range(hops)
      /\ \A x \in Range(hops) :
            /\ x \in ActiveNodes(tables[n]) \cup connected[n]
            /\ x \in NodeID \ {n}
            /\ IsHop(n, key, NoNode, x)
  BY <1>1, HopsOfNode
<1> HIDE DEF hops
<1>3. next \in Range(hops)
  BY <1>2 DEF First, hops
<1> QED BY <1>2, <1>3 DEF IsHop

LEMMA AnswerInv ==
    ASSUME RouterInv, NEW m \in net, NEW t \in Settled(m.to),
           NEW out \in SUBSET ModuleMessage, Heard(m, t, out),
           UNCHANGED <<inFlight, blacklisted>>
    PROVE  RouterInv'
<1>1. m.to \in NodeID /\ m.from \in NodeID
  BY MessageParts DEF RouterInv
<1> QED BY <1>1, HeardInv DEF RouterInv

LEMMA ClosestParts ==
    ASSUME RouterInv, NEW m \in net, HandleClosest(m)
    PROVE  \E s2, next :
              /\ m.type = "Closest"
              /\ next \in SUBSET (NodeID \ {m.to})
              /\ next = {} \/ \E x : next = {x}
              /\ \A x \in next : /\ x \in ActiveNodes(tables[m.to]) \cup connected[m.to]
                                 /\ IsHop(m.to, m.key, m.from, x)
              /\ s2.table \in Settled(m.to)
              /\ s2.inFlight \in Requests /\ AtMost(s2.inFlight, MaxInFlight)
              /\ s2.blacklisted \in SUBSET NodeID
              /\ inFlight' = [inFlight EXCEPT ![m.to] =
                     Noted(s2.inFlight, {m.read} \cap ReadFloID, next)]
              /\ blacklisted' = [blacklisted EXCEPT ![m.to] = s2.blacklisted]
              /\ Heard(m, s2.table, {Hop(m, m.to, x) : x \in next})
<1> DEFINE n == m.to
           s == BlacklistBadNodes(n)
           hops == ClosestOrConnected(n, s.table, m.key, m.from)
           next == First(hops)
<1>1. m.type = "Closest"
  BY DEF HandleClosest
<1>2. n \in NodeID /\ m.from \in NodeID /\ m.key \in ID
  BY <1>1, MessageParts DEF RouterInv, IsRouted
<1>3. /\ tables[n] \in Settled(n) /\ connected[n] \subseteq NodeID \ {n}
      /\ inFlight[n] \in Requests /\ blacklisted[n] \in SUBSET NodeID
  BY <1>2 DEF RouterInv, RouterTables
<1>4. /\ s = [table |-> s.table, inFlight |-> s.inFlight, blacklisted |-> s.blacklisted]
      /\ s.table \in Settled(n)
      /\ ActiveNodes(s.table) \subseteq ActiveNodes(tables[n])
      /\ s.inFlight \in Requests /\ AtMost(s.inFlight, MaxInFlight)
      /\ s.blacklisted \in SUBSET NodeID
  BY <1>2, <1>3, BlacklistKeeps
<1>5. PICK s2 \in RandomlyWhitelist(n, s) :
         /\ inFlight' = [inFlight EXCEPT ![n] = Noted(s2.inFlight, {m.read} \cap ReadFloID, next)]
         /\ blacklisted' = [blacklisted EXCEPT ![n] = s2.blacklisted]
         /\ Heard(m, s2.table, {Hop(m, n, x) : x \in next})
  BY DEF HandleClosest
<1> HIDE DEF s
<1>6. s2.table \in Settled(n) /\ s2.inFlight = s.inFlight /\ s2.blacklisted \in SUBSET NodeID
  <2> DEFINE r == [table |-> s.table, inFlight |-> s.inFlight, blacklisted |-> s.blacklisted]
  <2>1. s2 \in RandomlyWhitelist(n, r)
    BY <1>4, <1>5, Zenon
  <2> QED BY <1>2, <1>4, <2>1, WhitelistKeeps
<1>7. /\ hops = <<>> \/ Head(hops) \in Range(hops)
      /\ \A x \in Range(hops) :
            /\ x \in ActiveNodes(s.table) \cup connected[n]
            /\ x \in NodeID \ {n}
            /\ IsHop(n, m.key, m.from, x)
  BY <1>2, <1>3, <1>4, HopsOfNode
<1> HIDE DEF hops
<1>8. /\ next \in SUBSET (NodeID \ {n})
      /\ next = {} \/ \E x : next = {x}
      /\ \A x \in next : /\ x \in ActiveNodes(tables[n]) \cup connected[n]
                         /\ IsHop(n, m.key, m.from, x)
  BY <1>4, <1>7 DEF First
<1> HIDE DEF next
<1> QED BY <1>1, <1>4, <1>5, <1>6, <1>8

LEMMA ClosestInv ==
    ASSUME RouterInv, NEW m \in net, HandleClosest(m)
    PROVE  RouterInv'
<1> DEFINE n == m.to
<1>1. PICK s2, next :
         /\ m.type = "Closest"
         /\ next \in SUBSET (NodeID \ {n})
         /\ s2.table \in Settled(n)
         /\ s2.inFlight \in Requests /\ AtMost(s2.inFlight, MaxInFlight)
         /\ s2.blacklisted \in SUBSET NodeID
         /\ inFlight' = [inFlight EXCEPT ![n] =
                Noted(s2.inFlight, {m.read} \cap ReadFloID, next)]
         /\ blacklisted' = [blacklisted EXCEPT ![n] = s2.blacklisted]
         /\ Heard(m, s2.table, {Hop(m, n, x) : x \in next})
  BY ClosestParts
<1>2. n \in NodeID /\ m.from \in NodeID /\ m \in Routed
  BY <1>1, MessageParts DEF RouterInv, IsRouted
<1> DEFINE f == Noted(s2.inFlight, {m.read} \cap ReadFloID, next)
<1>3. f \in Requests /\ AtMost(f, MaxInFlight + 1)
  <2>1. {m.read} \cap ReadFloID \in SUBSET ({m.read} \cap ReadFloID)
    OBVIOUS
  <2>2. next \in SUBSET NodeID
    BY <1>1
  <2> QED BY <1>1, <2>1, <2>2, NotedKeeps
<1> HIDE DEF f
<1>4. inFlight' = [inFlight EXCEPT ![n] = f]
  BY <1>1 DEF f
<1>5. /\ inFlight' \in [NodeID -> Requests]
      /\ \A x \in NodeID : AtMost(inFlight'[x], MaxInFlight + 1)
  <2>1. /\ inFlight \in [NodeID -> Requests]
        /\ \A x \in NodeID : AtMost(inFlight[x], MaxInFlight + 1)
    BY DEF RouterInv
  <2>2. \A x \in NodeID : inFlight'[x] = IF x = n THEN f ELSE inFlight[x]
    BY <1>4, <2>1
  <2>3. inFlight' \in [NodeID -> Requests]
    BY <1>3, <1>4, <2>1
  <2> QED BY <1>3, <2>1, <2>2, <2>3
<1>6. blacklisted' \in [NodeID -> SUBSET NodeID]
  BY <1>1 DEF RouterInv
<1>7. {Hop(m, n, x) : x \in next} \in SUBSET ModuleMessage
  <2>1. \A x \in next : Hop(m, n, x) \in Routed
    BY <1>1, <1>2, HopParts
  <2> QED BY <2>1 DEF ModuleMessage
<1> DEFINE out == {Hop(m, n, x) : x \in next}
<1>8. Heard(m, s2.table, out)
  BY <1>1
<1> HIDE DEF out
<1>9. out \in SUBSET ModuleMessage
  BY <1>7 DEF out
<1> QED BY <1>1, <1>2, <1>5, <1>6, <1>8, <1>9, HeardInv

LEMMA DirectParts ==
    ASSUME RouterInv, NEW m \in net, HandleDirect(m)
    PROVE  /\ m \in Routed /\ IsRouted(m)
           /\ \/ Answer(m, {})
              \/ \E next \in NodeID \ {m.to} :
                    /\ next \in ActiveNodes(tables[m.to]) \cup connected[m.to]
                    /\ IsHop(m.to, m.key, m.from, next)
                    /\ Answer(m, {Hop(m, m.to, next)})
<1> DEFINE n == m.to
           all == ClosestOrConnected(n, tables[n], m.key, m.from)
           hops == IF m.key = n THEN <<>> ELSE all
<1>1. m.type = "Direct" /\ IsRouted(m) /\ m \in Routed
  BY MessageParts DEF HandleDirect, IsRouted, RouterInv
<1>2. n \in NodeID /\ m.from \in NodeID /\ m.key \in ID
  BY <1>1, MessageParts DEF RouterInv
<1>3. tables[n] \in Settled(n) /\ connected[n] \subseteq NodeID \ {n}
  BY <1>2 DEF RouterInv, RouterTables
<1>4. \A x \in Range(all) :
         /\ x \in ActiveNodes(tables[n]) \cup connected[n]
         /\ x \in NodeID \ {n}
         /\ IsHop(n, m.key, m.from, x)
  BY <1>2, <1>3, HopsOfNode
<1>5. \/ hops = <<>> /\ Answer(m, {})
      \/ \E next \in Range(hops) : Answer(m, {Hop(m, n, next)})
  BY DEF HandleDirect
<1> HIDE DEF all
<1>6. Range(hops) \subseteq Range(all)
  <2>1. Range(<<>>) = {}
    BY DEF Range
  <2> QED BY <2>1
<1> HIDE DEF hops
<1> QED BY <1>1, <1>4, <1>5, <1>6

LEMMA HandleInv ==
    ASSUME RouterInv, NEW m \in net, Handle(m)
    PROVE  RouterInv'
<1>1. m \in ModuleMessage /\ m.from \in NodeID /\ m.to \in NodeID
  BY MessageParts DEF RouterInv
<1>2. tables[m.to] \in Settled(m.to)
  BY <1>1 DEF RouterInv, RouterTables
<1>3. ASSUME NEW out \in SUBSET ModuleMessage, Answer(m, out)
      PROVE  RouterInv'
  BY <1>2, <1>3, AnswerInv DEF Answer
<1>4. CASE HandlePing(m)
  <2>1. {[type |-> "Pong", from |-> m.to, to |-> m.from]} \in SUBSET ModuleMessage
    BY <1>1 DEF ModuleMessage
  <2> QED BY <1>3, <1>4, <2>1 DEF HandlePing
<1>5. CASE HandlePong(m)
  BY <1>3, <1>5 DEF HandlePong
<1>6. CASE HandleConnectedIDsRequest(m)
  <2>1. ActiveNodes(tables[m.to]) \in SUBSET NodeID
    BY <1>1, <1>2, SettledNodes
  <2>2. {[type |-> "ConnectedIDsReply", from |-> m.to, to |-> m.from,
          ids |-> ActiveNodes(tables[m.to])]} \in SUBSET ModuleMessage
    BY <1>1, <2>1 DEF ModuleMessage
  <2> QED BY <1>3, <1>6, <2>2 DEF HandleConnectedIDsRequest
<1>7. CASE HandleConnectedIDsReply(m)
  <2>1. m.ids \in SUBSET NodeID
    BY <1>1, <1>7, MessageParts DEF HandleConnectedIDsReply
  <2>2. PICK t \in AddedNodes(m.to, tables[m.to], m.ids) : Heard(m, t, {})
    BY <1>7 DEF HandleConnectedIDsReply
  <2>3. t \in Settled(m.to)
    BY <1>1, <1>2, <2>1, AddedNodesSettled
  <2>4. UNCHANGED <<inFlight, blacklisted>>
    BY <1>7 DEF HandleConnectedIDsReply
  <2> QED BY <2>2, <2>3, <2>4, AnswerInv
<1>8. CASE HandleDirect(m)
  <2>1. \A next \in NodeID : {Hop(m, m.to, next)} \in SUBSET ModuleMessage
    BY <1>1, <1>8, DirectParts, HopParts DEF ModuleMessage
  <2>2. \/ Answer(m, {})
        \/ \E next \in NodeID : Answer(m, {Hop(m, m.to, next)})
    BY <1>8, DirectParts
  <2> QED BY <1>3, <2>1, <2>2
<1>9. CASE HandleClosest(m)
  BY <1>9, ClosestInv
<1> QED BY <1>4, <1>5, <1>6, <1>7, <1>8, <1>9 DEF Handle

\* What KeyRouting sees of a message, and of the messages in S.
Abstracted(m) == [key |-> m.key, from |-> m.from, to |-> m.to, visited |-> m.visited]

Abstraction(S) == {Abstracted(m) : m \in {m \in S : IsRouted(m)}}

\* New messages of n, to the nodes in next.
Started(n, key, next) == {[key |-> key, from |-> n, to |-> x, visited |-> {n}] : x \in next}

LEMMA ReadsBounded ==
    ASSUME RouterInv, NEW n, NEW key, NEW read, read = NoRead \/ read = sends + 1,
           NewClosest(n, key, read)
    PROVE  read \in ReadFloID \cup {NoRead}
<1>1. sends \in 0..MaxSends /\ sends < MaxSends /\ MaxSends \in Nat
  BY RouterAssumption DEF RouterInv, NewClosest, Sending
<1> QED BY <1>1 DEF ReadFloID

LEMMA NewClosestParts ==
    ASSUME RouterInv, NEW n \in NodeID, NEW key \in ID,
           NEW read \in ReadFloID \cup {NoRead}, NewClosest(n, key, read)
    PROVE  \E next \in SUBSET (NodeID \ {n}), out \in SUBSET Routed :
              /\ next = {} \/ \E x : next = {x}
              /\ \A x \in next : /\ x \in ActiveNodes(tables[n]) \cup connected[n]
                                 /\ Depth(n, x) = Depth(n, key)
              /\ Sending(out)
              /\ Abstraction(out) = Started(n, key, next)
<1> DEFINE next == First(ClosestOrConnected(n, tables[n], key, NoNode))
<1>1. \A x \in next : /\ x \in NodeID \ {n}
                      /\ x \in ActiveNodes(tables[n]) \cup connected[n]
                      /\ Depth(n, x) = Depth(n, key)
  BY NewMessages
<1>2. next = {} \/ \E x : next = {x}
  BY DEF First
<1> DEFINE out == {[type |-> "Closest", from |-> n, to |-> x, orig |-> n, key |-> key, read |-> read,
                       visited |-> {n}] : x \in next}
<1>3. Sending(out)
  BY DEF NewClosest
<1> HIDE DEF next
<1>5. out \in SUBSET Routed
  BY <1>1 DEF Routed
<1>6. Abstraction(out) = Started(n, key, next)
  <2>1. \A x \in next :
           LET m == [type |-> "Closest", from |-> n, to |-> x, orig |-> n, key |-> key, read |-> read,
                     visited |-> {n}]
           IN  /\ IsRouted(m)
               /\ Abstracted(m) = [key |-> key, from |-> n, to |-> x, visited |-> {n}]
    BY DEF Abstracted, IsRouted
  <2> QED BY <2>1, Zenon DEF Abstraction, Started
<1> HIDE DEF out
<1> QED BY <1>1, <1>2, <1>3, <1>5, <1>6

LEMMA NewDirectParts ==
    ASSUME RouterInv, NEW n \in NodeID, NEW dst \in NodeID, NewDirect(n, dst)
    PROVE  \E next \in SUBSET (NodeID \ {n}), out \in SUBSET Routed :
              /\ next = {} \/ \E x : next = {x}
              /\ \A x \in next : /\ x \in ActiveNodes(tables[n]) \cup connected[n]
                                 /\ Depth(n, x) = Depth(n, dst)
              /\ Sending(out)
              /\ Abstraction(out) = Started(n, dst, next)
<1> DEFINE next == First(ClosestOrConnected(n, tables[n], dst, NoNode))
<1>1. \A x \in next : /\ x \in NodeID \ {n}
                      /\ x \in ActiveNodes(tables[n]) \cup connected[n]
                      /\ Depth(n, x) = Depth(n, dst)
  BY NewMessages, DepthAssumption
<1>2. next = {} \/ \E x : next = {x}
  BY DEF First
<1> DEFINE out == {[type |-> "Direct", from |-> n, to |-> x, orig |-> n, key |-> dst,
                       visited |-> {n}] : x \in next}
<1>3. Sending(out)
  BY DEF NewDirect
<1> HIDE DEF next
<1>5. out \in SUBSET Routed
  BY <1>1 DEF Routed
<1>6. Abstraction(out) = Started(n, dst, next)
  <2>1. \A x \in next :
           LET m == [type |-> "Direct", from |-> n, to |-> x, orig |-> n, key |-> dst,
                     visited |-> {n}]
           IN  /\ IsRouted(m)
               /\ Abstracted(m) = [key |-> dst, from |-> n, to |-> x, visited |-> {n}]
    BY DEF Abstracted, IsRouted
  <2> QED BY <2>1, Zenon DEF Abstraction, Started
<1> HIDE DEF out
<1> QED BY <1>1, <1>2, <1>3, <1>5, <1>6

LEMMA NeighbourParts ==
    ASSUME RouterInv, NEW n \in NodeID, NEW nodes \in SUBSET NodeID
    PROVE  {[type |-> "Neighbour", from |-> n, to |-> m] : m \in nodes} \in SUBSET ModuleMessage
BY DEF ModuleMessage

LEMMA RouterNextInv == RouterInv /\ [Next]_vars => RouterInv'
<1> SUFFICES ASSUME RouterInv, [Next]_vars PROVE RouterInv'
  OBVIOUS
<1>1. CASE UNCHANGED vars
  BY <1>1 DEF vars, RouterInv, RouterTables
<1>2. ASSUME NEW n \in NodeID, NEW key \in ID, NEW read \in {NoRead, sends + 1},
             NewClosest(n, key, read)
      PROVE  RouterInv'
  <2>1. PICK out \in SUBSET Routed : Sending(out)
    BY <1>2, ReadsBounded, NewClosestParts
  <2> QED BY <2>1, SendingInv DEF ModuleMessage
<1>3. ASSUME NEW n \in NodeID, NEW dst \in NodeID, NewDirect(n, dst)
      PROVE  RouterInv'
  <2>1. PICK out \in SUBSET Routed : Sending(out)
    BY <1>3, NewDirectParts
  <2> QED BY <2>1, SendingInv DEF ModuleMessage
<1>4. ASSUME NEW n \in NodeID, NEW dst \in NodeID, MessageNeighbour(n, dst)
      PROVE  RouterInv'
  <2>1. {dst} \cap connected[n] \in SUBSET NodeID
    OBVIOUS
  <2> QED BY <1>4, <2>1, NeighbourParts, SendingInv DEF MessageNeighbour
<1>5. ASSUME NEW n \in NodeID, MessageBroadcast(n)
      PROVE  RouterInv'
  <2>1. ActiveNodes(tables[n]) \in SUBSET NodeID
    BY SettledNodes DEF RouterInv, RouterTables
  <2> QED BY <1>5, <2>1, NeighbourParts, SendingInv DEF MessageBroadcast
<1>6. ASSUME NEW n \in NodeID, NEW ids \in SUBSET (NodeID \ {n}), NodeInfoAvailable(n, ids)
      PROVE  RouterInv'
  <2>1. PICK t \in AddedNodes(n, tables[n], ids) : tables' = [tables EXCEPT ![n] = t]
    BY <1>6 DEF NodeInfoAvailable
  <2>2. t \in Settled(n)
    BY AddedNodesSettled DEF RouterInv, RouterTables
  <2> QED BY <1>6, <2>1, <2>2, ChangingInv DEF NodeInfoAvailable
<1>7. ASSUME NEW n \in NodeID, NEW ids \in SUBSET (NodeID \ {n}), NodeIDsConnected(n, ids)
      PROVE  RouterInv'
  <2>1. PICK t \in AddedNodes(n, tables[n], ids) : tables' = [tables EXCEPT ![n] = t]
    BY <1>7 DEF NodeIDsConnected
  <2>2. t \in Settled(n)
    BY AddedNodesSettled DEF RouterInv, RouterTables
  <2> QED BY <1>7, <2>1, <2>2, ChangingInv DEF NodeIDsConnected
<1>8. ASSUME NEW n \in NodeID, NEW id \in NodeID, Disconnected(n, id)
      PROVE  RouterInv'
  <2> DEFINE t == NodeDisconnected(n, tables[n], id)
  <2>1. tables[n] \in Settled(n)
    BY DEF RouterInv, RouterTables
  <2>2. t \in Settled(n)
    BY <2>1, NodeDisconnectedSettles DEF Settles
  <2>3. tables' = [tables EXCEPT ![n] = t]
    BY <1>8 DEF Disconnected
  <2> HIDE DEF t
  <2> QED BY <1>8, <2>2, <2>3, ChangingInv DEF Disconnected
<1>9. ASSUME NEW n \in NodeID, Clock(n)
      PROVE  RouterInv'
  BY <1>9, ClockInv
<1>10. ASSUME NEW m \in net, Handle(m)
       PROVE  RouterInv'
  BY <1>10, HandleInv
<1> QED BY <1>1, <1>2, <1>3, <1>4, <1>5, <1>6, <1>7, <1>8, <1>9, <1>10 DEF Next

\* Whatever comes from the network, in any order: the table of every router is
\* one of Settled and never holds the node itself, what it sends is well formed,
\* and no node gets more requests than MaxInFlight and one.
THEOREM RoutersAreWellFormed == Spec => []RoutersWellFormed
<1>1. Init => RouterInv
  BY RouterInitInv
<1>2. RouterInv /\ [Next]_vars => RouterInv'
  BY RouterNextInv
<1>3. RouterInv => RoutersWellFormed
  BY RouterInvHolds
<1> QED BY <1>1, <1>2, <1>3, PTL DEF Spec

----------------------------------------------------------------------------
(***************************************************************************)
(* Routing: DHTRouter implements KeyRouting.                               *)
(***************************************************************************)
LEMMA AbstractionOfUnion ==
    ASSUME NEW S, NEW T
    PROVE  Abstraction(S \cup T) = Abstraction(S) \cup Abstraction(T)
BY DEF Abstraction

\* Another message may look the same, so that what is handled does not go.
LEMMA AbstractionWithout ==
    ASSUME NEW S, NEW m \in S
    PROVE  /\ ~IsRouted(m) => Abstraction(S \ {m}) = Abstraction(S)
           /\ IsRouted(m) => \E done \in SUBSET {Abstracted(m)} :
                                Abstraction(S \ {m}) = Abstraction(S) \ done
<1>1. CASE ~IsRouted(m)
  BY <1>1 DEF Abstraction
<1>2. CASE Abstracted(m) \in Abstraction(S \ {m})
  <2>1. Abstraction(S \ {m}) = Abstraction(S) \ {}
    BY <1>2 DEF Abstraction
  <2> QED BY <1>1, <2>1
<1>3. CASE IsRouted(m) /\ Abstracted(m) \notin Abstraction(S \ {m})
  <2>1. Abstraction(S \ {m}) = Abstraction(S) \ {Abstracted(m)}
    BY <1>3 DEF Abstraction
  <2> QED BY <1>3, <2>1
<1> QED BY <1>1, <1>2, <1>3

\* What the nodes know, as KeyRouting sees it.
LEMMA KnownAbstracted ==
    ASSUME RouterInv
    PROVE  [n \in NodeID |-> ActiveNodes(tables[n]) \cup connected[n]] \in Routing!KnownSets
<1>1. \A n \in NodeID : ActiveNodes(tables[n]) \subseteq NodeID \ {n}
  BY SettledNodes DEF RouterInv, RouterTables
<1>2. \A n \in NodeID : connected[n] \subseteq NodeID \ {n}
  BY DEF RouterInv
<1> QED BY <1>1, <1>2 DEF Routing!KnownSets

LEMMA InitAbstracted == Init => Routing!Init
<1> SUFFICES ASSUME Init PROVE Routing!Init
  OBVIOUS
<1>1. RouterInv
  BY RouterInitInv
<1> QED BY <1>1, KnownAbstracted DEF Routing!Init, Init

LEMMA KnownStep ==
    ASSUME RouterInv'
    PROVE  [n \in NodeID |-> ActiveNodes(tables'[n]) \cup connected'[n]] \in Routing!KnownSets
<1>1. \A n \in NodeID : tables'[n] \in Settled(n)
  BY DEF RouterInv, RouterTables
<1>2. \A n \in NodeID : ActiveNodes(tables'[n]) \subseteq NodeID \ {n}
  BY <1>1, SettledNodes
<1>3. \A n \in NodeID : connected'[n] \subseteq NodeID \ {n}
  BY DEF RouterInv
<1> QED BY <1>2, <1>3 DEF Routing!KnownSets

\* The steps of KeyRouting, in terms of the messages in net.
LEMMA SilentStep ==
    ASSUME RouterInv', Abstraction(net') = Abstraction(net)
    PROVE  Routing!Next
BY KnownStep DEF Routing!Next, Abstraction, Abstracted

LEMMA StartStep ==
    ASSUME RouterInv', NEW n \in NodeID, NEW key \in ID,
           NEW next \in ActiveNodes(tables[n]) \cup connected[n],
           Depth(n, next) = Depth(n, key),
           Abstraction(net') = Abstraction(net) \cup
               {[key |-> key, from |-> n, to |-> next, visited |-> {n}]}
    PROVE  Routing!Next
<1>1. Routing!Start(n, key)
  BY DEF Routing!Start, Routing!Closer, Abstraction, Abstracted
<1> QED BY <1>1, KnownStep DEF Routing!Next

LEMMA ForwardStep ==
    ASSUME RouterInv', NEW m \in net, IsRouted(m), m.to \in NodeID, m.from # NoNode,
           NEW next \in ActiveNodes(tables[m.to]) \cup connected[m.to],
           IsHop(m.to, m.key, m.from, next),
           NEW done \in SUBSET {Abstracted(m)},
           Abstraction(net') = (Abstraction(net) \ done) \cup
               {[key |-> m.key, from |-> m.to, to |-> next, visited |-> m.visited \cup {m.to}]}
    PROVE  Routing!Next
<1> DEFINE a == Abstracted(m)
<1>1. a \in Abstraction(net)
  BY DEF Abstraction
<1>2. a.key = m.key /\ a.from = m.from /\ a.to = m.to /\ a.visited = m.visited
  BY DEF Abstracted
<1> HIDE DEF a
<1>3. Routing!Closer(a.to, a.key, next) \/ Routing!WrongBranch(a.to, a.key, a.from, next)
  BY <1>2 DEF Routing!Closer, Routing!WrongBranch, IsHop
<1>4. next \in [n \in NodeID |-> ActiveNodes(tables[n]) \cup connected[n]][a.to]
  BY <1>2
<1>5. done \in SUBSET {a}
  BY DEF a
<1>6. Abstraction(net') = (Abstraction(net) \ done) \cup
         {[key |-> a.key, from |-> a.to, to |-> next, visited |-> a.visited \cup {a.to}]}
  BY <1>2
<1>7. Routing!Forward(a)
  BY <1>3, <1>4, <1>5, <1>6 DEF Routing!Forward, Abstraction, Abstracted
<1> QED BY <1>1, <1>7, KnownStep DEF Routing!Next, Abstraction, Abstracted

LEMMA EndStep ==
    ASSUME RouterInv', NEW a \in Abstraction(net),
           Abstraction(net') = Abstraction(net) \ {a}
    PROVE  Routing!Next
<1>1. Routing!End(a)
  BY DEF Routing!End, Abstraction, Abstracted
<1> QED BY <1>1, KnownStep DEF Routing!Next, Abstraction, Abstracted

LEMMA NothingRouted ==
    ASSUME NEW out, \A m \in out : ~IsRouted(m)
    PROVE  Abstraction(out) = {}
BY DEF Abstraction

\* A message that goes out is new.
LEMMA SendingStep ==
    ASSUME RouterInv', NEW out, \A m \in out : ~IsRouted(m), Sending(out)
    PROVE  Routing!Next
<1>1. net' = net \cup out
  BY DEF Sending
<1>2. Abstraction(net') = Abstraction(net)
  BY <1>1, AbstractionOfUnion, NothingRouted
<1> QED BY <1>2, SilentStep

LEMMA SendingRoutedStep ==
    ASSUME RouterInv', NEW n \in NodeID, NEW key \in ID, NEW next,
           next = {} \/ \E x : next = {x},
           \A x \in next : /\ x \in ActiveNodes(tables[n]) \cup connected[n]
                           /\ Depth(n, x) = Depth(n, key),
           NEW out, Sending(out),
           Abstraction(out) = Started(n, key, next)
    PROVE  Routing!Next
<1>1. Abstraction(net') = Abstraction(net) \cup
         {[key |-> key, from |-> n, to |-> x, visited |-> {n}] : x \in next}
  BY AbstractionOfUnion DEF Sending, Started
<1>2. CASE next = {}
  <2>1. Abstraction(net') = Abstraction(net)
    BY <1>1, <1>2
  <2> QED BY <2>1, SilentStep
<1>3. ASSUME NEW x, next = {x}
      PROVE  Routing!Next
  <2>1. Abstraction(net') = Abstraction(net) \cup
           {[key |-> key, from |-> n, to |-> x, visited |-> {n}]}
    BY <1>1, <1>3
  <2> QED BY <1>3, <2>1, StartStep
<1> QED BY <1>2, <1>3

\* What is not routed is handled without KeyRouting seeing it.
LEMMA HeardStep ==
    ASSUME RouterInv', NEW m \in net, ~IsRouted(m), NEW t, NEW out,
           \A x \in out : ~IsRouted(x), Heard(m, t, out)
    PROVE  Routing!Next
<1>1. net' = (net \ {m}) \cup out
  BY DEF Heard
<1>2. Abstraction(net \ {m}) = Abstraction(net)
  BY AbstractionWithout
<1>3. Abstraction(out) = {}
  BY NothingRouted
<1>4. Abstraction(net') = Abstraction(net \ {m}) \cup Abstraction(out)
  BY <1>1, AbstractionOfUnion
<1>5. Abstraction(net') = Abstraction(net)
  BY <1>2, <1>3, <1>4
<1> QED BY <1>5, SilentStep

LEMMA HopAbstracted ==
    ASSUME NEW m \in Routed, NEW n \in NodeID, NEW next \in NodeID
    PROVE  /\ IsRouted(Hop(m, n, next))
           /\ Abstracted(Hop(m, n, next)) =
                [key |-> m.key, from |-> n, to |-> next, visited |-> m.visited \cup {n}]
<1> PICK hop : hop = Hop(m, n, next)
  OBVIOUS
<1>1. /\ IsRouted(hop) /\ hop.key = m.key /\ hop.from = n /\ hop.to = next
      /\ hop.visited = m.visited \cup {n}
  BY HopParts
<1> QED BY <1>1 DEF Abstracted

LEMMA HeardRoutedStep ==
    ASSUME RouterInv, RouterInv', NEW m \in net, IsRouted(m), NEW t,
           NEW next \in SUBSET NodeID, next = {} \/ \E x : next = {x},
           \A x \in next : /\ x \in ActiveNodes(tables[m.to]) \cup connected[m.to]
                           /\ IsHop(m.to, m.key, m.from, x),
           Heard(m, t, {Hop(m, m.to, x) : x \in next})
    PROVE  Routing!Next
<1> DEFINE out == {Hop(m, m.to, x) : x \in next}
<1>1. net' = (net \ {m}) \cup out
  BY DEF Heard
<1>2. m \in Routed /\ m.to \in NodeID /\ m.from \in NodeID
  BY MessageParts DEF RouterInv
<1>3. PICK done \in SUBSET {Abstracted(m)} : Abstraction(net \ {m}) = Abstraction(net) \ done
  BY AbstractionWithout
<1>4. CASE next = {}
  <2>1. out = {}
    BY <1>4
  <2>2. Abstraction(net') = Abstraction(net) \ done
    BY <1>1, <1>3, <2>1
  <2>3. CASE done = {}
    <3>1. Abstraction(net') = Abstraction(net)
      BY <2>2, <2>3
    <3> QED BY <3>1, SilentStep
  <2>4. CASE done = {Abstracted(m)}
    <3>1. Abstracted(m) \in Abstraction(net)
      BY DEF Abstraction
    <3> QED BY <2>2, <2>4, <3>1, EndStep
  <2> QED BY <2>3, <2>4
<1>5. ASSUME NEW x, next = {x}
      PROVE  Routing!Next
  <2> DEFINE hop == Hop(m, m.to, x)
  <2>1. out = {hop}
    BY <1>5
  <2>2. /\ IsRouted(hop)
        /\ Abstracted(hop) =
             [key |-> m.key, from |-> m.to, to |-> x, visited |-> m.visited \cup {m.to}]
    <3>1. x \in NodeID
      BY <1>5
    <3> QED BY <1>2, <3>1, HopAbstracted
  <2> HIDE DEF hop, out
  <2>3. Abstraction({hop}) =
           {[key |-> m.key, from |-> m.to, to |-> x, visited |-> m.visited \cup {m.to}]}
    <3>1. Abstraction({hop}) = {Abstracted(hop)}
      BY <2>2 DEF Abstraction
    <3> QED BY <2>2, <3>1
  <2>4. Abstraction(net') = (Abstraction(net) \ done) \cup
           {[key |-> m.key, from |-> m.to, to |-> x, visited |-> m.visited \cup {m.to}]}
    BY <1>1, <1>3, <2>1, <2>3, AbstractionOfUnion
  <2>5. m.from # NoNode
    BY <1>2, NoNodeAssumption, DepthAssumption
  <2> QED BY <1>2, <1>5, <2>4, <2>5, ForwardStep
<1> QED BY <1>4, <1>5

LEMMA NextAbstracted ==
    ASSUME RouterInv, RouterInv', Next
    PROVE  Routing!Next
<1>1. ASSUME NEW n \in NodeID, NEW key \in ID, NEW read \in {NoRead, sends + 1},
             NewClosest(n, key, read)
      PROVE  Routing!Next
  <2>1. PICK next \in SUBSET (NodeID \ {n}), out \in SUBSET Routed :
           /\ next = {} \/ \E x : next = {x}
           /\ \A x \in next : /\ x \in ActiveNodes(tables[n]) \cup connected[n]
                              /\ Depth(n, x) = Depth(n, key)
           /\ Sending(out)
           /\ Abstraction(out) = Started(n, key, next)
    <3>1. read \in ReadFloID \cup {NoRead}
      BY <1>1, ReadsBounded
    <3> QED BY <1>1, <3>1, NewClosestParts
  <2> QED BY <2>1, SendingRoutedStep
<1>2. ASSUME NEW n \in NodeID, NEW dst \in NodeID, NewDirect(n, dst)
      PROVE  Routing!Next
  <2>1. dst \in ID
    BY DepthAssumption
  <2>2. PICK next \in SUBSET (NodeID \ {n}), out \in SUBSET Routed :
           /\ next = {} \/ \E x : next = {x}
           /\ \A x \in next : /\ x \in ActiveNodes(tables[n]) \cup connected[n]
                              /\ Depth(n, x) = Depth(n, dst)
           /\ Sending(out)
           /\ Abstraction(out) = Started(n, dst, next)
    BY <1>2, NewDirectParts
  <2> QED BY <2>1, <2>2, SendingRoutedStep
<1>3. ASSUME NEW n \in NodeID, NEW dst \in NodeID, MessageNeighbour(n, dst)
      PROVE  Routing!Next
  BY <1>3, SendingStep DEF MessageNeighbour, IsRouted
<1>4. ASSUME NEW n \in NodeID, MessageBroadcast(n)
      PROVE  Routing!Next
  BY <1>4, SendingStep DEF MessageBroadcast, IsRouted
<1>5. ASSUME net' = net
      PROVE  Routing!Next
  BY <1>5, SilentStep
<1>6. ASSUME NEW n \in NodeID, NEW ids \in SUBSET (NodeID \ {n}),
             NodeInfoAvailable(n, ids) \/ NodeIDsConnected(n, ids)
      PROVE  Routing!Next
  BY <1>5, <1>6 DEF NodeInfoAvailable, NodeIDsConnected, Changing
<1>7. ASSUME NEW n \in NodeID, NEW id \in NodeID, Disconnected(n, id)
      PROVE  Routing!Next
  BY <1>5, <1>7 DEF Disconnected, Changing
<1>8. ASSUME NEW n \in NodeID, Clock(n)
      PROVE  Routing!Next
  <2> DEFINE pings == {[type |-> "Ping", from |-> n, to |-> m] : m \in Pings(tables[n])}
             asks  == {[type |-> "ConnectedIDsRequest", from |-> n, to |-> m] :
                          m \in ActiveNodes(tables'[n])}
  <2>1. net' = net \cup pings \cup asks
    BY <1>8 DEF Clock
  <2>2. Abstraction(pings) = {} /\ Abstraction(asks) = {}
    BY NothingRouted DEF IsRouted
  <2> HIDE DEF pings, asks
  <2>3. Abstraction(net') = Abstraction(net)
    <3>1. Abstraction(net') = Abstraction(net \cup pings) \cup Abstraction(asks)
      BY <2>1, AbstractionOfUnion
    <3>2. Abstraction(net \cup pings) = Abstraction(net) \cup Abstraction(pings)
      BY AbstractionOfUnion
    <3> QED BY <2>2, <3>1, <3>2
  <2> QED BY <2>3, SilentStep
<1>9. ASSUME NEW m \in net, Handle(m)
      PROVE  Routing!Next
  <2>1. CASE HandlePing(m)
    BY <2>1, HeardStep DEF HandlePing, Answer, IsRouted
  <2>2. CASE HandlePong(m)
    BY <2>2, HeardStep DEF HandlePong, Answer, IsRouted
  <2>3. CASE HandleConnectedIDsRequest(m)
    BY <2>3, HeardStep DEF HandleConnectedIDsRequest, Answer, IsRouted
  <2>4. CASE HandleConnectedIDsReply(m)
    <3>1. PICK t : Heard(m, t, {})
      BY <2>4 DEF HandleConnectedIDsReply
    <3>2. ~IsRouted(m)
      BY <2>4 DEF HandleConnectedIDsReply, IsRouted
    <3> QED BY <3>1, <3>2, HeardStep
  <2>5. CASE HandleDirect(m)
    <3>1. IsRouted(m)
      BY <2>5, DirectParts
    <3>2. CASE Answer(m, {})
      <4>1. {} = {Hop(m, m.to, x) : x \in {}}
        OBVIOUS
      <4>2. Heard(m, tables[m.to], {Hop(m, m.to, x) : x \in {}})
        BY <3>2, <4>1 DEF Answer
      <4> QED BY <3>1, <4>2, HeardRoutedStep
    <3>3. ASSUME NEW next \in NodeID \ {m.to},
                 next \in ActiveNodes(tables[m.to]) \cup connected[m.to],
                 IsHop(m.to, m.key, m.from, next),
                 Answer(m, {Hop(m, m.to, next)})
          PROVE  Routing!Next
      <4>1. {Hop(m, m.to, next)} = {Hop(m, m.to, x) : x \in {next}}
        OBVIOUS
      <4>2. Heard(m, tables[m.to], {Hop(m, m.to, x) : x \in {next}})
        BY <3>3, <4>1 DEF Answer
      <4>3. {next} \in SUBSET NodeID
        OBVIOUS
      <4> QED BY <3>1, <3>3, <4>2, <4>3, HeardRoutedStep
    <3> QED BY <2>5, <3>2, <3>3, DirectParts
  <2>6. CASE HandleClosest(m)
    <3>1. PICK s2, next :
             /\ m.type = "Closest"
             /\ next \in SUBSET (NodeID \ {m.to})
             /\ next = {} \/ \E x : next = {x}
             /\ \A x \in next : /\ x \in ActiveNodes(tables[m.to]) \cup connected[m.to]
                                /\ IsHop(m.to, m.key, m.from, x)
             /\ Heard(m, s2.table, {Hop(m, m.to, x) : x \in next})
      BY <2>6, ClosestParts
    <3>2. IsRouted(m) /\ next \in SUBSET NodeID
      BY <3>1 DEF IsRouted
    <3> QED BY <3>1, <3>2, HeardRoutedStep
  <2> QED BY <1>9, <2>1, <2>2, <2>3, <2>4, <2>5, <2>6 DEF Handle
<1> QED BY <1>1, <1>2, <1>3, <1>4, <1>6, <1>7, <1>8, <1>9 DEF Next

LEMMA StutterAbstracted == UNCHANGED vars => UNCHANGED Routing!vars
BY DEF vars, Routing!vars

\* Every step of the routers is one that KeyRouting allows, or none to it: a
\* message only goes to a node its router knows, that shares as many bits with
\* the router as the key does, or more than the key and the last hop do.
THEOREM RoutersImplementKeyRouting == Spec => ImplementsKeyRouting
<1>1. Init => RouterInv
  BY RouterInitInv
<1>2. RouterInv /\ [Next]_vars => RouterInv'
  BY RouterNextInv
<1>3. Init => Routing!Init
  BY InitAbstracted
<1>4. RouterInv /\ RouterInv' /\ [Next]_vars => [Routing!Next]_(Routing!vars)
  <2> SUFFICES ASSUME RouterInv, RouterInv', [Next]_vars
               PROVE  [Routing!Next]_(Routing!vars)
    OBVIOUS
  <2>1. CASE Next
    BY <2>1, NextAbstracted
  <2>2. CASE UNCHANGED vars
    BY <2>2, StutterAbstracted
  <2> QED BY <2>1, <2>2
<1> QED BY <1>1, <1>2, <1>3, <1>4, PTL DEF Spec, ImplementsKeyRouting, Routing!Spec

----------------------------------------------------------------------------
(***************************************************************************)
(* Messages never go in circles: KeyRouting.tla, by itself and as          *)
(* implemented by the routers.                                             *)
(***************************************************************************)
VARIABLES known, msgs

Hops == INSTANCE KeyRouting

\* A hop towards the key shares more bits with it than the node it leaves.
LEMMA CloserShares ==
    ASSUME NEW n \in NodeID, NEW key \in ID, NEW next \in NodeID, n # next,
           Hops!Closer(n, key, next)
    PROVE  Depth(next, key) > Depth(n, key)
<1>1. Depth(n, next) < MaxDepth
  BY NodesApartAssumption
<1>2. n \in ID /\ next \in ID
  BY DepthAssumption
<1>3. Depth(n, next) = Depth(n, key)
  BY DEF Hops!Closer
<1>4. Depth(next, key) > Depth(n, next)
  BY <1>1, <1>2, <1>3, PrefixAssumption
<1> QED
  BY <1>3, <1>4

\* When b is deeper in the branch of a than c is, c is as deep seen from b.
LEMMA DeeperSameDepth ==
    ASSUME NEW a \in ID, NEW b \in ID, NEW c \in ID, Depth(a, b) > Depth(a, c)
    PROVE  Depth(b, c) = Depth(a, c)
<1>1. Depth(a, b) \in Nat /\ Depth(a, c) \in Nat /\ Depth(b, c) \in Nat
  BY DepthAssumption
<1>2. Depth(b, a) = Depth(a, b) /\ Depth(c, b) = Depth(b, c) /\ Depth(c, a) = Depth(a, c)
  BY DepthAssumption
<1>3. Depth(a, c) <= Depth(b, c)
  <2>1. Depth(b, a) <= Depth(b, c) \/ Depth(a, c) <= Depth(b, c)
    BY PrefixAssumption
  <2> QED
    BY <1>1, <1>2, <2>1
<1>4. Depth(b, c) <= Depth(a, c)
  <2>1. Depth(a, b) <= Depth(a, c) \/ Depth(b, c) <= Depth(a, c)
    BY PrefixAssumption
  <2> QED
    BY <1>1, <2>1
<1> QED
  BY <1>1, <1>3, <1>4

\* A hop keeps the invariant of its message.
LEMMA HopOrdered ==
    ASSUME NEW m \in Hops!Message, NEW next \in NodeID, m.to # next,
           m.from \in m.visited, Hops!Ordered(m),
           Hops!Closer(m.to, m.key, next) \/ Hops!WrongBranch(m.to, m.key, m.from, next),
           NEW v \in m.visited \cup {m.to}
    PROVE  /\ v # next
           /\ \/ Depth(v, m.key) < Depth(next, m.key)
              \/ /\ Depth(v, m.key) = Depth(next, m.key)
                 /\ Depth(v, next) <= Depth(m.to, next)
<1>1. /\ m.key \in ID /\ m.to \in NodeID /\ m.from \in NodeID /\ v \in NodeID
      /\ m.to \in ID /\ m.from \in ID /\ v \in ID /\ next \in ID
  BY DepthAssumption DEF Hops!Message
<1>2. \A a, b \in ID : Depth(a, b) \in Nat /\ Depth(a, b) = Depth(b, a)
  BY DepthAssumption
<1>3. Depth(v, m.key) <= Depth(m.to, m.key)
  <2>1. CASE v = m.to
    BY <1>1, <1>2, <2>1
  <2>2. CASE v \in m.visited
    BY <1>1, <1>2, <2>2 DEF Hops!Ordered
  <2> QED
    BY <2>1, <2>2
<1>4. CASE Hops!Closer(m.to, m.key, next)
  <2>1. Depth(next, m.key) > Depth(m.to, m.key)
    BY <1>1, <1>4, CloserShares
  <2>2. Depth(v, m.key) < Depth(next, m.key)
    BY <1>1, <1>2, <1>3, <2>1
  <2>3. v # next
    BY <1>1, <1>2, <2>2
  <2> QED
    BY <2>2, <2>3
<1>5. CASE Hops!WrongBranch(m.to, m.key, m.from, next)
  <2>1. Depth(m.to, next) > Depth(m.to, m.key) /\ Depth(m.to, next) > Depth(m.to, m.from)
    BY <1>5 DEF Hops!WrongBranch
  <2>2. Depth(next, m.key) = Depth(m.to, m.key)
    BY <1>1, <2>1, DeeperSameDepth
  <2>3. CASE Depth(v, m.key) < Depth(m.to, m.key)
    <3>1. Depth(v, m.key) < Depth(next, m.key)
      BY <2>2, <2>3
    <3>2. v # next
      BY <1>1, <1>2, <3>1
    <3> QED
      BY <3>1, <3>2
  <2>4. CASE v = m.to
    BY <1>1, <1>2, <2>2, <2>4
  <2>5. CASE v \in m.visited /\ Depth(v, m.key) = Depth(m.to, m.key)
    <3>1. Depth(m.to, v) <= Depth(m.to, m.from)
      <4>1. Depth(v, m.to) <= Depth(m.from, m.to)
        BY <1>1, <1>2, <2>5 DEF Hops!Ordered
      <4> QED
        BY <1>1, <1>2, <4>1
    <3>2. Depth(m.to, v) < Depth(m.to, next)
      BY <1>1, <1>2, <2>1, <3>1
    <3>3. Depth(next, v) = Depth(m.to, v)
      BY <1>1, <3>2, DeeperSameDepth
    <3>4. Depth(v, next) <= Depth(m.to, next)
      BY <1>1, <1>2, <3>2, <3>3
    <3>5. v # next
      BY <1>1, <1>2, <3>2
    <3> QED
      BY <2>2, <2>5, <3>4, <3>5
  <2> QED
    BY <1>1, <1>2, <1>3, <2>3, <2>4, <2>5
<1> QED
  BY <1>4, <1>5

\* What holds for every message on its way.
OnItsWay ==
    {m \in Hops!Message : m.from \in m.visited /\ m.to \notin m.visited /\ Hops!Ordered(m)}

\* A step of KeyRouting, from the messages ms to ms2, where nodes know k.
HopStep(k, ms, ms2) ==
    \/ ms2 = ms
    \/ \E n \in NodeID, key \in ID : \E next \in k[n] :
          /\ Hops!Closer(n, key, next)
          /\ ms2 = ms \cup {[key |-> key, from |-> n, to |-> next, visited |-> {n}]}
    \/ \E m \in ms : \E next \in k[m.to], done \in SUBSET {m} :
          /\ Hops!Closer(m.to, m.key, next) \/ Hops!WrongBranch(m.to, m.key, m.from, next)
          /\ ms2 = (ms \ done) \cup
                {[key |-> m.key, from |-> m.to, to |-> next, visited |-> m.visited \cup {m.to}]}
    \/ \E m \in ms : ms2 = ms \ {m}

LEMMA HopsKeepOnTheWay ==
    ASSUME NEW k \in Hops!KnownSets, NEW ms \in SUBSET OnItsWay, NEW ms2, HopStep(k, ms, ms2)
    PROVE  ms2 \subseteq OnItsWay
<1>1. \A n \in NodeID : k[n] \subseteq NodeID /\ n \notin k[n]
  BY DEF Hops!KnownSets
<1>2. ASSUME NEW n \in NodeID, NEW key \in ID, NEW next \in k[n],
             Hops!Closer(n, key, next)
      PROVE  [key |-> key, from |-> n, to |-> next, visited |-> {n}] \in OnItsWay
  <2> DEFINE new == [key |-> key, from |-> n, to |-> next, visited |-> {n}]
  <2>1. next \in NodeID /\ next # n
    BY <1>1
  <2>2. Depth(n, key) < Depth(next, key)
    <3>1. Depth(next, key) > Depth(n, key)
      BY <1>2, <2>1, CloserShares
    <3>2. Depth(next, key) \in Nat /\ Depth(n, key) \in Nat
      BY <2>1, DepthAssumption
    <3> QED BY <3>1, <3>2
  <2>3. new \in Hops!Message
    BY <2>1 DEF Hops!Message
  <2>4. new.from \in new.visited /\ new.to \notin new.visited /\ Hops!Ordered(new)
    BY <2>1, <2>2 DEF Hops!Ordered
  <2> QED BY <2>3, <2>4 DEF OnItsWay
<1>3. ASSUME NEW m \in ms, NEW next \in k[m.to],
             Hops!Closer(m.to, m.key, next) \/ Hops!WrongBranch(m.to, m.key, m.from, next)
      PROVE  [key |-> m.key, from |-> m.to, to |-> next,
              visited |-> m.visited \cup {m.to}] \in OnItsWay
  <2> DEFINE new == [key |-> m.key, from |-> m.to, to |-> next,
                     visited |-> m.visited \cup {m.to}]
  <2>1. /\ m \in Hops!Message /\ m.to \in NodeID
        /\ m.from \in m.visited /\ Hops!Ordered(m)
    BY DEF OnItsWay, Hops!Message
  <2>2. next \in NodeID /\ m.to # next
    BY <1>1, <2>1
  <2>3. \A v \in m.visited \cup {m.to} :
           /\ v # next
           /\ \/ Depth(v, m.key) < Depth(next, m.key)
              \/ /\ Depth(v, m.key) = Depth(next, m.key)
                 /\ Depth(v, next) <= Depth(m.to, next)
    BY <1>3, <2>1, <2>2, HopOrdered
  <2>4. new \in Hops!Message
    BY <2>1, <2>2 DEF Hops!Message
  <2>5. new.from \in new.visited /\ new.to \notin new.visited /\ Hops!Ordered(new)
    BY <2>3 DEF Hops!Ordered
  <2> QED BY <2>4, <2>5 DEF OnItsWay
<1> QED BY <1>2, <1>3 DEF HopStep

\* route_closest makes no loops: a message that is handed on hop by hop, each
\* node looking only at the key and the last hop, never visits a node twice,
\* whatever the nodes know and come to know.
THEOREM LoopFree == Hops!Spec => []Hops!NoLoop
<1>1. Hops!Init => Hops!IInv
  BY DEF Hops!Init, Hops!IInv, Hops!TypeOK
<1>2. Hops!IInv <=> known \in Hops!KnownSets /\ msgs \subseteq OnItsWay
  BY DEF Hops!IInv, Hops!TypeOK, OnItsWay
<1>3. Hops!IInv /\ [Hops!Next]_(Hops!vars) => Hops!IInv'
  <2> SUFFICES ASSUME Hops!IInv, [Hops!Next]_(Hops!vars) PROVE Hops!IInv'
    OBVIOUS
  <2>1. CASE UNCHANGED Hops!vars
    BY <2>1 DEF Hops!vars, Hops!IInv, Hops!TypeOK, Hops!Ordered
  <2>2. CASE Hops!Next
    <3>1. HopStep(known, msgs, msgs') /\ known' \in Hops!KnownSets
      BY <2>2 DEF Hops!Next, Hops!Start, Hops!Forward, Hops!End, HopStep
    <3>2. msgs' \subseteq OnItsWay
      BY <1>2, <3>1, HopsKeepOnTheWay
    <3> QED BY <3>1, <3>2 DEF Hops!IInv, Hops!TypeOK, OnItsWay, Hops!Ordered
  <2> QED BY <2>1, <2>2
<1>4. Hops!IInv => Hops!NoLoop
  BY DEF Hops!NoLoop, Hops!IInv
<1> QED BY <1>1, <1>3, <1>4, PTL DEF Hops!Spec

LEMMA RoutingKeepsOnTheWay ==
    ASSUME RouterInv, Abstraction(net) \subseteq OnItsWay, Routing!Next
    PROVE  Abstraction(net') \subseteq OnItsWay
<1> DEFINE k == [n \in NodeID |-> ActiveNodes(tables[n]) \cup connected[n]]
<1>1. k \in Hops!KnownSets
  BY KnownAbstracted DEF Routing!KnownSets, Hops!KnownSets
<1>2. HopStep(k, Abstraction(net), Abstraction(net'))
  BY DEF Routing!Next, Routing!Start, Routing!Forward, Routing!End,
         Routing!Closer, Routing!WrongBranch, Hops!Closer, Hops!WrongBranch,
         HopStep, Abstraction, Abstracted
<1> HIDE DEF k
<1> QED BY <1>1, <1>2, HopsKeepOnTheWay

\* So no request and no direct message ever comes back to a router it has been
\* to, with tables that are split, merged, learnt from hearsay and blacklisted
\* while it is on its way.
THEOREM RoutersAreLoopFree == Spec => []Routing!NoLoop
<1> DEFINE I == RouterInv /\ Abstraction(net) \subseteq OnItsWay
<1>1. Init => I
  BY RouterInitInv DEF Init, Abstraction
<1>2. I /\ [Next]_vars => I'
  <2> SUFFICES ASSUME I, [Next]_vars PROVE I'
    OBVIOUS
  <2>1. RouterInv'
    BY RouterNextInv
  <2>2. CASE Next
    BY <2>1, <2>2, NextAbstracted, RoutingKeepsOnTheWay
  <2>3. CASE UNCHANGED vars
    BY <2>1, <2>3 DEF vars, Abstraction
  <2> QED BY <2>2, <2>3
<1>3. I => Routing!NoLoop
  BY DEF Routing!NoLoop, OnItsWay, Abstraction, Abstracted
<1> HIDE DEF I
<1> QED BY <1>1, <1>2, <1>3, PTL DEF Spec
=============================================================================
