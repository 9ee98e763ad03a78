---------------------------- MODULE StorageProofs ----------------------------
(***************************************************************************)
(* The storages of flos, in three parts: what the operators of RealmCore   *)
(* do to a well-formed storage, for every number of flos, depth, size and  *)
(* cuckoo relation; the invariants of one storage (RealmStorage); and      *)
(* those of a network of nodes (DHTStorage), for every number of nodes,    *)
(* every topology, every loss, order and duplication of messages and any   *)
(* number of restarts.                                                     *)
(***************************************************************************)
EXTENDS DHTStorage, RealmStorage, InductionLemmas, SequenceTheorems

----------------------------------------------------------------------------
\* Vectors without repetitions: the entries of the index by depth.
Injective(s) == \A i, j \in DOMAIN s : s[i] = s[j] => i = j

LEMMA AppendElems ==
    ASSUME NEW s \in Seq(FloID), NEW e \in FloID, Injective(s), e \notin Elems(s)
    PROVE  /\ Append(s, e) \in Seq(FloID)
           /\ Injective(Append(s, e))
           /\ Elems(Append(s, e)) = Elems(s) \cup {e}
<1> DEFINE t == Append(s, e)
<1>1. /\ t \in Seq(FloID)
      /\ DOMAIN t = 1..(Len(s) + 1) /\ DOMAIN s = 1..Len(s) /\ Len(s) \in Nat
      /\ \A i \in 1..Len(s) : t[i] = s[i]
      /\ t[Len(s) + 1] = e
  OBVIOUS
<1> HIDE DEF t
<1>2. Injective(t)
  BY <1>1 DEF Injective, Elems
<1>3. Elems(t) = Elems(s) \cup {e}
  BY <1>1 DEF Elems
<1> QED BY <1>1, <1>2, <1>3 DEF t

\* A sequence without its i-th element.
LEMMA DropAt ==
    ASSUME NEW s \in Seq(FloID), NEW i \in 1..Len(s)
    PROVE  LET t == SubSeq(s, 1, i - 1) \o SubSeq(s, i + 1, Len(s))
           IN  /\ t \in Seq(FloID)
               /\ Len(t) = Len(s) - 1
               /\ \A k \in 1..(Len(s) - 1) :
                     t[k] = IF k < i THEN s[k] ELSE s[k + 1]
<1> DEFINE a == SubSeq(s, 1, i - 1)
           b == SubSeq(s, i + 1, Len(s))
           n == Len(s)
<1>0. n \in Nat /\ i \in Int /\ 1 <= i /\ i <= n
  OBVIOUS
<1>1. /\ a \in Seq(FloID) /\ Len(a) = i - 1
      /\ \A k \in 1..(i - 1) : a[k] = s[k]
  <2>1. \A k \in 1..(i - 1) : s[k] \in FloID
    OBVIOUS
  <2> QED BY <2>1, SubSeqProperties
<1>2. /\ b \in Seq(FloID) /\ Len(b) = n - i
      /\ \A k \in 1..(n - i) : b[k] = s[i + k]
  <2>1. \A k \in (i + 1)..n : s[k] \in FloID
    OBVIOUS
  <2>2. /\ b \in Seq(FloID)
        /\ Len(b) = IF i + 1 <= n THEN n - (i + 1) + 1 ELSE 0
        /\ \A k \in 1..(n - (i + 1) + 1) : b[k] = s[(i + 1) + k - 1]
    BY <2>1, SubSeqProperties
  <2> HIDE DEF b, n
  <2>3. Len(b) = n - i /\ n - (i + 1) + 1 = n - i
    BY <1>0, <2>2
  <2>4. ASSUME NEW k \in 1..(n - i) PROVE b[k] = s[i + k]
    <3>1. b[k] = s[(i + 1) + k - 1]
      BY <2>2, <2>3
    <3>2. (i + 1) + k - 1 = i + k
      BY <1>0
    <3> QED BY <3>1, <3>2
  <2> QED BY <2>2, <2>3, <2>4
<1> HIDE DEF a, b, n
<1>3. /\ a \o b \in Seq(FloID)
      /\ Len(a \o b) = n - 1
      /\ \A k \in 1..(n - 1) :
            (a \o b)[k] = IF k <= i - 1 THEN a[k] ELSE b[k - (i - 1)]
  <2>1. Len(a) + Len(b) = n - 1
    BY <1>0, <1>1, <1>2
  <2> QED BY <1>1, <1>2, <2>1, ConcatProperties
<1>4. ASSUME NEW k \in 1..(n - 1)
      PROVE  (a \o b)[k] = IF k < i THEN s[k] ELSE s[k + 1]
  <2>1. CASE k < i
    BY <2>1, <1>0, <1>1, <1>3
  <2>2. CASE ~(k < i)
    <3>1. k - (i - 1) \in 1..(n - i) /\ i + (k - (i - 1)) = k + 1
      BY <2>2, <1>0
    <3>2. b[k - (i - 1)] = s[k + 1]
      BY <3>1, <1>2
    <3>3. ~(k <= i - 1) /\ ~(k < i)
      BY <2>2, <1>0
    <3>4. (a \o b)[k] = b[k - (i - 1)]
      BY <3>3, <1>3
    <3> QED BY <3>2, <3>3, <3>4
  <2> QED BY <2>1, <2>2
<1> QED BY <1>3, <1>4 DEF a, b, n

LEMMA WithoutElems ==
    ASSUME NEW s \in Seq(FloID), NEW e, Injective(s)
    PROVE  /\ Without(s, e) \in Seq(FloID)
           /\ Injective(Without(s, e))
           /\ Elems(Without(s, e)) = Elems(s) \ {e}
<1>1. CASE e \notin Elems(s)
  BY <1>1 DEF Without
<1>2. CASE e \in Elems(s)
  <2>1. DOMAIN s = 1..Len(s) /\ Len(s) \in Nat
    OBVIOUS
  <2>2. PICK i \in 1..Len(s) :
          /\ s[i] = e
          /\ Without(s, e) = SubSeq(s, 1, i - 1) \o SubSeq(s, i + 1, Len(s))
    BY <1>2, <2>1 DEF Without, Elems
  <2> DEFINE t == Without(s, e)
             n == Len(s)
  <2>3. /\ t \in Seq(FloID)
        /\ Len(t) = n - 1
        /\ \A k \in 1..(n - 1) : t[k] = IF k < i THEN s[k] ELSE s[k + 1]
    BY <2>2, DropAt
  <2>4. DOMAIN t = 1..(n - 1)
    BY <2>3
  <2>5. \A j, k \in 1..n : s[j] = s[k] => j = k
    BY <2>1 DEF Injective
  <2>6. n \in Nat /\ i \in 1..n
    BY <2>1
  <2> HIDE DEF t, n
  <2>7. Injective(t)
    <3>1. ASSUME NEW j \in 1..(n - 1), NEW k \in 1..(n - 1), t[j] = t[k]
          PROVE  j = k
      <4>1. /\ t[j] = IF j < i THEN s[j] ELSE s[j + 1]
            /\ t[k] = IF k < i THEN s[k] ELSE s[k + 1]
        BY <2>3
      <4>2. j \in 1..n /\ k \in 1..n /\ j + 1 \in 1..n /\ k + 1 \in 1..n
        BY <2>6
      <4>3. CASE j < i /\ k < i
        BY <3>1, <4>1, <4>2, <4>3, <2>5
      <4>4. CASE ~(j < i) /\ ~(k < i)
        <5>1. j + 1 = k + 1
          BY <3>1, <4>1, <4>2, <4>4, <2>5
        <5> QED BY <5>1, <2>6
      <4>5. CASE j < i /\ ~(k < i)
        <5>1. j = k + 1
          BY <3>1, <4>1, <4>2, <4>5, <2>5
        <5> QED BY <5>1, <4>5, <2>6
      <4>6. CASE ~(j < i) /\ k < i
        <5>1. j + 1 = k
          BY <3>1, <4>1, <4>2, <4>6, <2>5
        <5> QED BY <5>1, <4>6, <2>6
      <4> QED BY <4>3, <4>4, <4>5, <4>6
    <3> QED BY <3>1, <2>4 DEF Injective
  <2>8. ASSUME NEW x \in Elems(t) PROVE x \in Elems(s) \ {e}
    <3>1. PICK k \in 1..(n - 1) : x = t[k]
      BY <2>4 DEF Elems
    <3>2. CASE k < i
      <4>1. k \in 1..n /\ k # i /\ x = s[k]
        BY <3>1, <3>2, <2>3, <2>6
      <4> QED BY <4>1, <2>1, <2>2, <2>5 DEF Elems, n
    <3>3. CASE ~(k < i)
      <4>1. k + 1 \in 1..n /\ k + 1 # i /\ x = s[k + 1]
        BY <3>1, <3>3, <2>3, <2>6
      <4> QED BY <4>1, <2>1, <2>2, <2>5 DEF Elems, n
    <3> QED BY <3>2, <3>3
  <2>9. ASSUME NEW x \in Elems(s), x # e PROVE x \in Elems(t)
    <3>1. PICK m \in 1..n : x = s[m]
      BY <2>1 DEF Elems, n
    <3>2. m # i
      BY <3>1, <2>2, <2>9
    <3>3. CASE m < i
      <4>1. m \in 1..(n - 1) /\ t[m] = s[m]
        BY <3>3, <2>3, <2>6
      <4> QED BY <4>1, <3>1, <2>4 DEF Elems
    <3>4. CASE m > i
      <4>1. m - 1 \in 1..(n - 1) /\ ~(m - 1 < i) /\ (m - 1) + 1 = m
        BY <3>4, <2>6
      <4>2. t[m - 1] = s[m]
        BY <4>1, <2>3
      <4> QED BY <4>1, <4>2, <3>1, <2>4 DEF Elems
    <3> QED BY <3>2, <3>3, <3>4, <2>6
  <2> QED BY <2>3, <2>7, <2>8, <2>9 DEF t
<1> QED BY <1>1, <1>2

----------------------------------------------------------------------------
\* The operations on a storage keep it well formed.
Good(s) == IsStorage(s) /\ IndexMatches(s) /\ SizeMatches(s)

LEMMA StoredSizeType ==
    ASSUME NEW id \in FloID, NEW fs \in FloStorage
    PROVE  StoredSize(id, fs) \in Nat
<1>1. IsFiniteSet(fs.cuckoos)
  BY RealmAssumption, FS_Subset DEF FloStorage
<1>2. Cardinality(fs.cuckoos) \in Nat
  BY <1>1, FS_CardinalityType
<1>3. CuckooSize * Cardinality(fs.cuckoos) \in Nat
  BY <1>2, SizeAssumption
<1>4. FloSize(id, fs.version) \in Nat
  BY SizeAssumption DEF FloStorage
<1> QED BY <1>3, <1>4, SizeAssumption DEF StoredSize

LEMMA SizesType ==
    ASSUME NEW s, IsStorage(s)
    PROVE  /\ IsFiniteSet(Stored(s))
           /\ \A id \in Stored(s) : /\ Sizes(s)[id] = StoredSize(id, s.flos[id])
                                    /\ Sizes(s)[id] \in Nat
<1>1. IsFiniteSet(Stored(s))
  BY RealmAssumption, FS_Subset DEF IsStorage
<1>2. \A id \in Stored(s) : s.flos[id] \in FloStorage /\ id \in FloID
  BY DEF IsStorage
<1> QED BY <1>1, <1>2, StoredSizeType DEF Sizes

\* The entries of the index at depth d, as a set: what IndexMatches says.
LEMMA IndexElems ==
    ASSUME NEW s, IsStorage(s), IndexMatches(s), NEW d \in Depths
    PROVE  /\ s.distances[d] \in Seq(FloID)
           /\ Injective(s.distances[d])
           /\ Elems(s.distances[d]) = {id \in Stored(s) : Depth(s.root, id) = d}
BY DEF IsStorage, IndexMatches, Injective, Elems

\* ... and the converse.
LEMMA IndexFromElems ==
    ASSUME NEW s, \A id \in Stored(s) : Depth(s.root, id) \in Depths,
           \A d \in Depths :
             /\ Injective(s.distances[d])
             /\ Elems(s.distances[d]) = {id \in Stored(s) : Depth(s.root, id) = d}
    PROVE  IndexMatches(s)
BY DEF IndexMatches, Injective, Elems

LEMMA RemoveEntryGood ==
    ASSUME NEW s, Good(s), NEW id \in FloID
    PROVE  LET t == RemoveEntry(s, id)
           IN  /\ Good(t)
               /\ t.root = s.root
               /\ Stored(t) = Stored(s) \ {id}
               /\ \A i \in Stored(t) : t.flos[i] = s.flos[i]
<1> DEFINE t == RemoveEntry(s, id)
           d == Depth(s.root, id)
<1>1. CASE id \notin Stored(s)
  <2>1. t = s
    BY <1>1 DEF RemoveEntry
  <2>2. Stored(s) = Stored(s) \ {id}
    BY <1>1
  <2> QED BY <2>1, <2>2
<1>2. CASE id \in Stored(s)
  <2>1. IsStorage(s) /\ IndexMatches(s) /\ SizeMatches(s)
    BY DEF Good
  <2>2. d \in Depths
    BY <2>1, <1>2, DepthAssumption DEF IsStorage, Depths
  <2>3. /\ t.root = s.root
        /\ t.flos = [i \in Stored(s) \ {id} |-> s.flos[i]]
        /\ t.distances = [s.distances EXCEPT ![d] = Without(@, id)]
        /\ t.size = s.size - StoredSize(id, s.flos[id])
        /\ t = [root |-> t.root, flos |-> t.flos,
                distances |-> t.distances, size |-> t.size]
    BY <1>2, <2>1 DEF RemoveEntry, IsStorage
  <2>4. Stored(t) = Stored(s) \ {id}
    BY <2>3 DEF Stored
  <2>5. \A i \in Stored(t) : t.flos[i] = s.flos[i]
    BY <2>3, <2>4
  <2> HIDE DEF t
  <2>6. t.size = SizeOf(t, Stored(t)) /\ t.size \in Nat
    <3>1. IsFiniteSet(Stored(s)) /\ IsFiniteSet(Stored(t))
      BY <2>1, <2>4, SizesType, FS_RemoveElement
    <3>2. s.size = SumFunctionOnSet(Sizes(s), Stored(s))
      BY <2>1 DEF SizeMatches, SizeOf
    <3>3. \A i \in Stored(s) : Sizes(s)[i] \in Nat
      BY <2>1, SizesType
    <3>4. SumFunctionOnSet(Sizes(s), Stored(s))
            = Sizes(s)[id] + SumFunctionOnSet(Sizes(s), Stored(t))
      BY <1>2, <2>4, <3>1, <3>3, SumRemove
    <3>5. \A i \in Stored(t) : Sizes(s)[i] = Sizes(t)[i]
      BY <2>4, <2>5 DEF Sizes
    <3>6. SumFunctionOnSet(Sizes(s), Stored(t)) = SumFunctionOnSet(Sizes(t), Stored(t))
      BY <3>1, <3>5, SumSameWeights
    <3>7. SumFunctionOnSet(Sizes(s), Stored(t)) \in Nat
      BY <2>4, <3>1, <3>3, SumType
    <3>8. Sizes(s)[id] = StoredSize(id, s.flos[id]) /\ Sizes(s)[id] \in Nat
      BY <1>2, <2>1, SizesType
    <3>9. t.size = SumFunctionOnSet(Sizes(t), Stored(t)) /\ t.size \in Nat
      BY <2>3, <3>2, <3>4, <3>6, <3>7, <3>8
    <3> QED BY <3>9 DEF SizeOf
  <2>7. \A e \in Depths :
          /\ t.distances[e] \in Seq(FloID)
          /\ Injective(t.distances[e])
          /\ Elems(t.distances[e]) = {i \in Stored(t) : Depth(t.root, i) = e}
    <3> SUFFICES ASSUME NEW e \in Depths
                 PROVE  /\ t.distances[e] \in Seq(FloID)
                        /\ Injective(t.distances[e])
                        /\ Elems(t.distances[e])
                              = {i \in Stored(t) : Depth(t.root, i) = e}
      OBVIOUS
    <3>1. /\ s.distances[e] \in Seq(FloID)
          /\ Injective(s.distances[e])
          /\ Elems(s.distances[e]) = {i \in Stored(s) : Depth(s.root, i) = e}
      BY <2>1, IndexElems
    <3>2. CASE e = d
      <4>1. t.distances[e] = Without(s.distances[e], id)
        BY <2>1, <2>3, <3>2 DEF IsStorage
      <4>2. /\ t.distances[e] \in Seq(FloID)
            /\ Injective(t.distances[e])
            /\ Elems(t.distances[e]) = Elems(s.distances[e]) \ {id}
        BY <3>1, <4>1, WithoutElems
      <4> QED BY <4>2, <3>1, <2>4, <2>3
    <3>3. CASE e # d
      <4>1. t.distances[e] = s.distances[e]
        BY <2>1, <2>3, <3>3 DEF IsStorage
      <4> QED BY <4>1, <3>1, <2>4, <2>3, <3>3
    <3> QED BY <3>2, <3>3
  <2>8. IsStorage(t)
    <3>1. t.distances \in [Depths -> Seq(FloID)]
      BY <2>1, <2>3, <2>7 DEF IsStorage
    <3>2. t.flos \in [Stored(t) -> FloStorage]
      BY <2>1, <2>3, <2>4 DEF IsStorage
    <3> QED BY <3>1, <3>2, <2>1, <2>3, <2>4, <2>6 DEF IsStorage
  <2>9. IndexMatches(t)
    <3>1. \A i \in Stored(t) : Depth(t.root, i) \in Depths
      BY <2>8, DepthAssumption DEF IsStorage, Depths
    <3> QED BY <2>7, <3>1, IndexFromElems
  <2> QED BY <2>3, <2>4, <2>5, <2>6, <2>8, <2>9 DEF Good, SizeMatches, t
<1> QED BY <1>1, <1>2

LEMMA PutGood ==
    ASSUME NEW s, Good(s), NEW f \in Flo
    PROVE  LET t == Put(s, f)
           IN  /\ Good(t)
               /\ t.root = s.root
               /\ Stored(t) = Stored(s) \cup {f.id}
               /\ t.flos[f.id] = [version |-> f.version, cuckoos |-> {}]
               /\ \A i \in Stored(s) \ {f.id} : t.flos[i] = s.flos[i]
<1> DEFINE r == RemoveEntry(s, f.id)
           t == Put(s, f)
           d == Depth(s.root, f.id)
           new == [version |-> f.version, cuckoos |-> {}]
<1>0. f.id \in FloID /\ f.version \in Version /\ new \in FloStorage
  BY DEF Flo, FloStorage
<1>1. /\ IsStorage(r) /\ IndexMatches(r) /\ SizeMatches(r)
      /\ r.root = s.root
      /\ Stored(r) = Stored(s) \ {f.id}
      /\ \A i \in Stored(r) : r.flos[i] = s.flos[i]
  BY <1>0, RemoveEntryGood DEF Good
<1>2. d \in Depths
  BY <1>0, <1>1, DepthAssumption DEF IsStorage, Depths
<1>2a. t = [r EXCEPT
              !.flos = [i \in Stored(r) \cup {f.id} |->
                          IF i = f.id THEN new ELSE r.flos[i]],
              !.distances[d] = Append(@, f.id),
              !.size = @ + StoredSize(f.id, new)]
  BY Zenon DEF Put
<1> HIDE DEF r, new, d, t
<1>3. /\ t.root = s.root
      /\ t.flos = [i \in Stored(r) \cup {f.id} |->
                    IF i = f.id THEN new ELSE r.flos[i]]
      /\ t.distances = [r.distances EXCEPT ![d] = Append(@, f.id)]
      /\ t.size = r.size + StoredSize(f.id, new)
      /\ t = [root |-> t.root, flos |-> t.flos,
              distances |-> t.distances, size |-> t.size]
  <2> DEFINE fl == [i \in Stored(r) \cup {f.id} |->
                      IF i = f.id THEN new ELSE r.flos[i]]
  <2>1. t = [r EXCEPT !.flos = fl, !.distances[d] = Append(@, f.id),
                      !.size = @ + StoredSize(f.id, new)]
    BY <1>2a
  <2>2. r = [root |-> r.root, flos |-> r.flos,
             distances |-> r.distances, size |-> r.size]
    BY <1>1 DEF IsStorage
  <2> HIDE DEF fl
  <2>3. /\ t.root = r.root
        /\ t.flos = fl
        /\ t.distances = [r.distances EXCEPT ![d] = Append(@, f.id)]
        /\ t.size = r.size + StoredSize(f.id, new)
        /\ t = [root |-> t.root, flos |-> t.flos,
                distances |-> t.distances, size |-> t.size]
    BY <2>1, <2>2
  <2> QED BY <2>3, <1>1 DEF fl
<1>4. Stored(t) = Stored(r) \cup {f.id} /\ f.id \notin Stored(r)
  BY <1>1, <1>3 DEF Stored
<1>5. /\ t.flos[f.id] = new
      /\ \A i \in Stored(r) : t.flos[i] = r.flos[i]
  BY <1>3, <1>4
<1>6. t.size = SizeOf(t, Stored(t)) /\ t.size \in Nat
  <2>1. IsFiniteSet(Stored(r))
    BY <1>1, SizesType
  <2>2. r.size = SumFunctionOnSet(Sizes(r), Stored(r))
    BY <1>1 DEF SizeMatches, SizeOf
  <2>3. \A i \in Stored(r) : Sizes(r)[i] = Sizes(t)[i] /\ Sizes(r)[i] \in Nat
    BY <1>1, <1>4, <1>5, SizesType DEF Sizes
  <2>4. SumFunctionOnSet(Sizes(r), Stored(r)) = SumFunctionOnSet(Sizes(t), Stored(r))
    BY <2>1, <2>3, SumSameWeights
  <2>5. Sizes(t)[f.id] = StoredSize(f.id, new) /\ StoredSize(f.id, new) \in Nat
    BY <1>0, <1>4, <1>5, StoredSizeType DEF Sizes
  <2>6. \A i \in Stored(r) \cup {f.id} : Sizes(t)[i] \in Nat
    BY <2>3, <2>5
  <2>7. SumFunctionOnSet(Sizes(t), Stored(t))
          = Sizes(t)[f.id] + SumFunctionOnSet(Sizes(t), Stored(r))
    BY <1>4, <2>1, <2>6, SumAdd
  <2>8. SumFunctionOnSet(Sizes(t), Stored(r)) \in Nat
    BY <2>1, <2>6, SumType
  <2>9. t.size = SumFunctionOnSet(Sizes(t), Stored(t)) /\ t.size \in Nat
    BY <1>3, <2>2, <2>4, <2>5, <2>7, <2>8
  <2> QED BY <2>9 DEF SizeOf
<1>7. \A e \in Depths :
        /\ t.distances[e] \in Seq(FloID)
        /\ Injective(t.distances[e])
        /\ Elems(t.distances[e]) = {i \in Stored(t) : Depth(t.root, i) = e}
  <2> SUFFICES ASSUME NEW e \in Depths
               PROVE  /\ t.distances[e] \in Seq(FloID)
                      /\ Injective(t.distances[e])
                      /\ Elems(t.distances[e])
                            = {i \in Stored(t) : Depth(t.root, i) = e}
    OBVIOUS
  <2>1. /\ r.distances[e] \in Seq(FloID)
        /\ Injective(r.distances[e])
        /\ Elems(r.distances[e]) = {i \in Stored(r) : Depth(r.root, i) = e}
    BY <1>1, IndexElems
  <2>2. CASE e = d
    <3>1. t.distances[e] = Append(r.distances[e], f.id)
      BY <1>1, <1>3, <2>2 DEF IsStorage
    <3>2. f.id \notin Elems(r.distances[e])
      BY <1>4, <2>1
    <3>3. /\ t.distances[e] \in Seq(FloID)
          /\ Injective(t.distances[e])
          /\ Elems(t.distances[e]) = Elems(r.distances[e]) \cup {f.id}
      BY <1>0, <2>1, <3>1, <3>2, AppendElems
    <3>4. Depth(t.root, f.id) = e
      BY <2>2, <1>1, <1>3 DEF d
    <3> QED BY <3>3, <3>4, <2>1, <1>1, <1>3, <1>4
  <2>3. CASE e # d
    <3>1. t.distances[e] = r.distances[e]
      BY <1>1, <1>3, <2>3 DEF IsStorage
    <3>2. Depth(t.root, f.id) # e
      BY <2>3, <1>1, <1>3 DEF d
    <3> QED BY <3>1, <3>2, <2>1, <1>1, <1>3, <1>4
  <2> QED BY <2>2, <2>3
<1>8. IsStorage(t)
  <2>1. t.distances \in [Depths -> Seq(FloID)]
    BY <1>1, <1>3, <1>7 DEF IsStorage
  <2>2. t.flos \in [Stored(t) -> FloStorage]
    BY <1>0, <1>1, <1>3, <1>4 DEF IsStorage
  <2> QED BY <2>1, <2>2, <1>0, <1>1, <1>3, <1>4, <1>6 DEF IsStorage
<1>9. IndexMatches(t)
  <2>1. \A i \in Stored(t) : Depth(t.root, i) \in Depths
    BY <1>8, DepthAssumption DEF IsStorage, Depths
  <2> QED BY <1>7, <2>1, IndexFromElems
<1>10. Good(t)
  BY <1>6, <1>8, <1>9 DEF Good, SizeMatches
<1>11. Stored(t) = Stored(s) \cup {f.id}
  BY <1>1, <1>4
<1>12. \A i \in Stored(s) \ {f.id} : t.flos[i] = s.flos[i]
  BY <1>1, <1>5
<1> QED BY <1>3, <1>5, <1>10, <1>11, <1>12 DEF t, new

LEMMA StoreCuckoosGood ==
    ASSUME NEW s, Good(s), NEW p \in FloID, NEW cs \in SUBSET FloID
    PROVE  LET t == StoreCuckooIDs(s, p, cs)
           IN  /\ Good(t)
               /\ t.root = s.root
               /\ Stored(t) = Stored(s)
               /\ \A i \in Stored(s) :
                     /\ t.flos[i].version = s.flos[i].version
                     /\ s.flos[i].cuckoos \subseteq t.flos[i].cuckoos
<1> DEFINE t == StoreCuckooIDs(s, p, cs)
<1>0. IsStorage(s) /\ IndexMatches(s) /\ SizeMatches(s)
  BY DEF Good
<1>1. CASE p \notin Stored(s)
  <2>1. t = s
    BY <1>1 DEF StoreCuckooIDs
  <2> QED BY <2>1
<1>2. CASE p \in Stored(s)
  <2> DEFINE fs == [version |-> s.flos[p].version,
                    cuckoos |-> s.flos[p].cuckoos \cup cs]
  <2>0. s.flos[p] \in FloStorage
    BY <1>0, <1>2 DEF IsStorage
  <2>1. fs \in FloStorage /\ [s.flos[p] EXCEPT !.cuckoos = @ \cup cs] = fs
    <3> DEFINE x == s.flos[p]
    <3> HIDE DEF x
    <3>1. /\ x \in [version : Version, cuckoos : SUBSET FloID]
      BY <2>0 DEF FloStorage, x
    <3>2. x.version \in Version /\ x.cuckoos \subseteq FloID
      BY <3>1
    <3>3. [x EXCEPT !.cuckoos = x.cuckoos \cup cs]
            = [version |-> x.version, cuckoos |-> x.cuckoos \cup cs]
      BY <3>1
    <3>4. x.cuckoos \cup cs \in SUBSET FloID
      BY <3>2
    <3>5. [version |-> x.version, cuckoos |-> x.cuckoos \cup cs]
            \in [version : Version, cuckoos : SUBSET FloID]
      BY <3>2, <3>4
    <3> QED BY <3>3, <3>5 DEF x, FloStorage
  <2> HIDE DEF fs
  <2>2. /\ t.root = s.root
        /\ t.flos = [s.flos EXCEPT ![p] = fs]
        /\ t.distances = s.distances
        /\ t.size = s.size - StoredSize(p, s.flos[p]) + StoredSize(p, fs)
        /\ t = [root |-> t.root, flos |-> t.flos,
                distances |-> t.distances, size |-> t.size]
    BY <1>0, <1>2, <2>1 DEF StoreCuckooIDs, IsStorage
  <2> HIDE DEF t
  <2>3. Stored(t) = Stored(s)
    BY <1>0, <2>2 DEF Stored, IsStorage
  <2>4. t.flos[p] = fs /\ \A i \in Stored(s) \ {p} : t.flos[i] = s.flos[i]
    BY <1>0, <1>2, <2>2 DEF IsStorage
  <2>5. t.size = SizeOf(t, Stored(t)) /\ t.size \in Nat
    <3> DEFINE rest == Stored(s) \ {p}
    <3>1. IsFiniteSet(Stored(s)) /\ IsFiniteSet(rest)
      BY <1>0, SizesType, FS_RemoveElement
    <3>2. s.size = SumFunctionOnSet(Sizes(s), Stored(s))
      BY <1>0 DEF SizeMatches, SizeOf
    <3>3. /\ \A i \in Stored(s) : Sizes(s)[i] \in Nat
          /\ Sizes(s)[p] = StoredSize(p, s.flos[p])
      BY <1>0, <1>2, SizesType
    <3>4. Sizes(t)[p] = StoredSize(p, fs) /\ StoredSize(p, fs) \in Nat
      BY <1>2, <2>1, <2>3, <2>4, StoredSizeType DEF Sizes
    <3>5. \A i \in rest : Sizes(t)[i] = Sizes(s)[i]
      BY <2>3, <2>4 DEF Sizes
    <3>6. \A i \in Stored(s) : Sizes(t)[i] \in Nat
      BY <3>3, <3>4, <3>5
    <3>7. SumFunctionOnSet(Sizes(s), Stored(s))
            = Sizes(s)[p] + SumFunctionOnSet(Sizes(s), rest)
      BY <1>2, <3>1, <3>3, SumRemove
    <3>8. SumFunctionOnSet(Sizes(t), Stored(s))
            = Sizes(t)[p] + SumFunctionOnSet(Sizes(t), rest)
      BY <1>2, <3>1, <3>6, SumRemove
    <3>9. SumFunctionOnSet(Sizes(t), rest) = SumFunctionOnSet(Sizes(s), rest)
      BY <3>1, <3>5, SumSameWeights
    <3>10. SumFunctionOnSet(Sizes(s), rest) \in Nat
      BY <3>1, <3>3, SumType
    <3>11. t.size = SumFunctionOnSet(Sizes(t), Stored(s)) /\ t.size \in Nat
      BY <1>2, <2>2, <3>2, <3>3, <3>4, <3>7, <3>8, <3>9, <3>10
    <3> QED BY <2>3, <3>11 DEF SizeOf
  <2>6. IsStorage(t)
    <3>1. t.flos \in [Stored(t) -> FloStorage]
      BY <1>0, <2>1, <2>2, <2>3 DEF IsStorage
    <3> QED BY <1>0, <2>2, <2>3, <2>5, <3>1 DEF IsStorage
  <2>7. IndexMatches(t)
    BY <1>0, <2>2, <2>3 DEF IndexMatches
  <2>8. \A i \in Stored(s) :
          /\ t.flos[i].version = s.flos[i].version
          /\ s.flos[i].cuckoos \subseteq t.flos[i].cuckoos
    BY <2>4 DEF fs
  <2> QED BY <2>2, <2>3, <2>5, <2>6, <2>7, <2>8 DEF Good, SizeMatches, t
<1> QED BY <1>1, <1>2

LEMMA StoreCuckooGood ==
    ASSUME NEW s, Good(s), NEW p \in FloID, NEW c \in FloID
    PROVE  LET t == StoreCuckooID(s, p, c)
           IN  /\ Good(t)
               /\ t.root = s.root
               /\ Stored(t) = Stored(s)
               /\ \A i \in Stored(s) :
                     /\ t.flos[i].version = s.flos[i].version
                     /\ s.flos[i].cuckoos \subseteq t.flos[i].cuckoos
<1>1. {c} \in SUBSET FloID
  OBVIOUS
<1> QED BY <1>1, StoreCuckoosGood, Zenon DEF StoreCuckooID

----------------------------------------------------------------------------
\* The least and the largest element of a set of naturals.
LEMMA MinIn ==
    ASSUME NEW S \in SUBSET Nat, S # {}
    PROVE  Min(S) \in S /\ \A y \in S : Min(S) <= y
<1>1. IsWellFoundedOn(OpToRel(<, Nat), Nat)
  BY NatLessThanWellFounded
<1>2. PICK x \in S : \A y \in S : ~ (<<y, x>> \in OpToRel(<, Nat))
  BY <1>1, WFMin, Zenon
<1>3. \A y \in S : ~ (y < x)
  BY <1>2 DEF OpToRel
<1>4. \A y \in S : x <= y
  BY <1>3
<1> QED BY <1>4 DEF Min

LEMMA MaxIn ==
    ASSUME NEW n \in Nat, NEW S \in SUBSET (1..n), S # {}
    PROVE  Max(S) \in S /\ \A y \in S : y <= Max(S)
<1> DEFINE T == {n - x : x \in S}
<1>1. T \in SUBSET Nat /\ T # {}
  <2>1. \A x \in S : x \in Int /\ x <= n
    OBVIOUS
  <2>2. \A x \in S : n - x \in Nat
    BY <2>1
  <2> QED BY <2>2
<1>2. Min(T) \in T /\ \A y \in T : Min(T) <= y
  BY <1>1, MinIn
<1>3. PICK x \in S : Min(T) = n - x
  BY <1>2
<1>4. \A y \in S : n - x <= n - y
  BY <1>2, <1>3
<1>5. \A y \in S : y <= x
  BY <1>4
<1> QED BY <1>5 DEF Max

\* remove_furthest drops a flo that is not the realm's, and no other stored
\* flo but the realm's is further from the node.
LEMMA FurthestIDIn ==
    ASSUME NEW s, Good(s), EvictableDepths(s) # {}
    PROVE  /\ FurthestID(s) \in Stored(s) \ {RealmID}
           /\ \A i \in Stored(s) \ {RealmID} :
                 Depth(s.root, FurthestID(s)) <= Depth(s.root, i)
<1> DEFINE d == Min(EvictableDepths(s))
           vec == s.distances[d]
           P == {i \in DOMAIN vec : vec[i] # RealmID}
<1>0. IsStorage(s) /\ IndexMatches(s)
  BY DEF Good
<1>1. EvictableDepths(s) \in SUBSET Nat
  BY DepthAssumption DEF EvictableDepths, Depths
<1>2. d \in EvictableDepths(s) /\ \A e \in EvictableDepths(s) : d <= e
  BY <1>1, MinIn
<1> HIDE DEF d
<1>3. d \in Depths /\ Elems(vec) \ {RealmID} # {}
  BY <1>2 DEF EvictableDepths
<1>4. /\ vec \in Seq(FloID)
      /\ Elems(vec) = {i \in Stored(s) : Depth(s.root, i) = d}
  BY <1>0, <1>3, IndexElems
<1> HIDE DEF vec
<1>5. P # {} /\ P \in SUBSET (1..Len(vec)) /\ Len(vec) \in Nat
  BY <1>3, <1>4 DEF Elems
<1>6. Max(P) \in P
  BY <1>5, MaxIn
<1>7. FurthestID(s) = vec[Max(P)]
  BY Zenon DEF FurthestID, d, vec
<1> HIDE DEF P
<1>8. FurthestID(s) \in Elems(vec) /\ FurthestID(s) # RealmID
  BY <1>6, <1>7 DEF Elems, P
<1>9. FurthestID(s) \in Stored(s) \ {RealmID} /\ Depth(s.root, FurthestID(s)) = d
  BY <1>4, <1>8
<1>10. ASSUME NEW i \in Stored(s) \ {RealmID}
       PROVE  Depth(s.root, i) \in EvictableDepths(s)
  <2>1. Depth(s.root, i) \in Depths
    BY <1>0, DepthAssumption DEF IsStorage, Depths
  <2>2. i \in Elems(s.distances[Depth(s.root, i)])
    BY <1>0, <2>1, IndexElems
  <2> QED BY <2>1, <2>2 DEF EvictableDepths
<1> QED BY <1>2, <1>9, <1>10

LEMMA RemoveFurthestGood ==
    ASSUME NEW s, Good(s)
    PROVE  LET t == RemoveFurthest(s)
           IN  /\ Good(t)
               /\ t.root = s.root
               /\ Stored(t) \subseteq Stored(s)
               /\ RealmID \in Stored(s) => RealmID \in Stored(t)
               /\ \A i \in Stored(t) : t.flos[i] = s.flos[i]
               /\ \A gone \in Stored(s) \ Stored(t), i \in Stored(t) \ {RealmID} :
                     Depth(s.root, gone) <= Depth(s.root, i)
<1>1. CASE EvictableDepths(s) = {}
  BY <1>1 DEF RemoveFurthest
<1>2. CASE EvictableDepths(s) # {}
  <2>1. RemoveFurthest(s) = RemoveEntry(s, FurthestID(s))
    BY <1>2 DEF RemoveFurthest
  <2>2. /\ FurthestID(s) \in Stored(s) \ {RealmID}
        /\ \A i \in Stored(s) \ {RealmID} :
              Depth(s.root, FurthestID(s)) <= Depth(s.root, i)
    BY <1>2, FurthestIDIn
  <2>3. FurthestID(s) \in FloID
    BY <2>2 DEF Good, IsStorage
  <2> DEFINE t == RemoveEntry(s, FurthestID(s))
  <2>4. /\ Good(t)
        /\ t.root = s.root
        /\ Stored(t) = Stored(s) \ {FurthestID(s)}
        /\ \A i \in Stored(t) : t.flos[i] = s.flos[i]
    BY <2>3, RemoveEntryGood
  <2> HIDE DEF t
  <2> QED BY <2>1, <2>2, <2>4 DEF t
<1> QED BY <1>1, <1>2

\* upsert_flo before its loop: nothing is dropped, and a stored flo either
\* becomes newer or keeps its version and its cuckoos.
LEMMA BeforeEvictionGood ==
    ASSUME NEW s, Good(s), NEW f \in Flo
    PROVE  LET t == BeforeEviction(s, f)
           IN  /\ Good(t)
               /\ t.root = s.root
               /\ Stored(s) \subseteq Stored(t)
               /\ \A i \in Stored(s) :
                     \/ s.flos[i].version < t.flos[i].version
                     \/ /\ s.flos[i].version = t.flos[i].version
                        /\ s.flos[i].cuckoos \subseteq t.flos[i].cuckoos
<1> DEFINE w == WithCuckoo(s, f)
           t == BeforeEviction(s, f)
<1>0. f.id \in FloID /\ f.version \in Version
  BY DEF Flo
<1>1. /\ Good(w)
      /\ w.root = s.root
      /\ Stored(w) = Stored(s)
      /\ \A i \in Stored(s) : /\ w.flos[i].version = s.flos[i].version
                              /\ s.flos[i].cuckoos \subseteq w.flos[i].cuckoos
  <2>1. CASE Parent(f.id) = NoFlo
    BY <2>1 DEF WithCuckoo
  <2>2. CASE Parent(f.id) # NoFlo
    <3>1. Parent(f.id) \in FloID
      BY <1>0, <2>2, ParentAssumption
    <3>2. w = StoreCuckooID(s, Parent(f.id), f.id)
      BY <2>2 DEF WithCuckoo
    <3> HIDE DEF w
    <3> QED BY <1>0, <3>1, <3>2, StoreCuckooGood
  <2> QED BY <2>1, <2>2
<1>2. t = IF IsPut(w, f) THEN Put(w, f) ELSE w
  BY DEF BeforeEviction
<1> HIDE DEF w, t
<1>3. CASE ~IsPut(w, f)
  BY <1>1, <1>2, <1>3 DEF t
<1>4. CASE IsPut(w, f)
  <2>1. t = Put(w, f)
    BY <1>2, <1>4
  <2>2. /\ Good(t)
        /\ t.root = w.root
        /\ Stored(t) = Stored(w) \cup {f.id}
        /\ t.flos[f.id].version = f.version
        /\ \A i \in Stored(w) \ {f.id} : t.flos[i] = w.flos[i]
    <3>1. Good(w) /\ f \in Flo
      BY <1>1
    <3>2. /\ Good(Put(w, f))
          /\ Put(w, f).root = w.root
          /\ Stored(Put(w, f)) = Stored(w) \cup {f.id}
          /\ Put(w, f).flos[f.id] = [version |-> f.version, cuckoos |-> {}]
          /\ \A i \in Stored(w) \ {f.id} : Put(w, f).flos[i] = w.flos[i]
      BY <3>1, PutGood, Zenon
    <3> QED BY <2>1, <3>2
  <2>3. f.id \in Stored(w) => w.flos[f.id].version < f.version
    BY <1>4 DEF IsPut
  <2> QED BY <1>1, <2>2, <2>3 DEF t
<1> QED BY <1>3, <1>4

LEMMA NewStorageGood ==
    ASSUME NEW root \in NodeID, NEW v \in Version
    PROVE  LET t == NewStorage(root, v)
           IN  /\ Good(t) /\ t.root = root /\ Stored(t) = {RealmID}
               /\ t.flos[RealmID].version = v
<1> DEFINE e == [root |-> root, flos |-> [i \in {} |-> 0],
                 distances |-> [d \in Depths |-> <<>>], size |-> 0]
<1>1. Stored(e) = {}
  BY DEF Stored
<1>2. IsStorage(e)
  BY <1>1 DEF IsStorage
<1>3. IndexMatches(e)
  BY <1>1 DEF IndexMatches, Elems
<1>4. SizeMatches(e)
  BY <1>1, SumEmpty DEF SizeMatches, SizeOf
<1>5. [id |-> RealmID, version |-> v] \in Flo
  BY RealmAssumption DEF Flo
<1>6. Good(e)
  BY <1>2, <1>3, <1>4 DEF Good
<1>7. NewStorage(root, v) = Put(e, [id |-> RealmID, version |-> v])
  BY DEF NewStorage
<1> HIDE DEF e
<1> DEFINE f == [id |-> RealmID, version |-> v]
<1>8. e.root = root /\ f.id = RealmID
  BY DEF e
<1> HIDE DEF f
<1>9. /\ Good(Put(e, f))
      /\ Put(e, f).root = e.root
      /\ Stored(Put(e, f)) = Stored(e) \cup {f.id}
      /\ Put(e, f).flos[f.id] = [version |-> f.version, cuckoos |-> {}]
  BY <1>5, <1>6, PutGood, Zenon DEF f
<1> QED BY <1>1, <1>7, <1>8, <1>9 DEF f

----------------------------------------------------------------------------
\* The set of records that IsStorage describes.
Storage ==
    [root : NodeID, flos : UNION {[ids -> FloStorage] : ids \in SUBSET FloID},
     distances : [Depths -> Seq(FloID)], size : Nat]

LEMMA StorageIn == ASSUME NEW s, Good(s) PROVE s \in Storage
<1>1. IsStorage(s)
  BY DEF Good
<1>2. s.flos \in UNION {[ids -> FloStorage] : ids \in SUBSET FloID}
  BY <1>1 DEF IsStorage
<1>3. [root |-> s.root, flos |-> s.flos, distances |-> s.distances,
       size |-> s.size] \in Storage
  BY <1>1, <1>2 DEF IsStorage, Storage
<1> QED BY <1>1, <1>3 DEF IsStorage

\* The loop of upsert_flo only drops flos.
LEMMA EvictGood ==
    ASSUME NEW s, Good(s)
    PROVE  LET t == Evict(s)
           IN  /\ Good(t)
               /\ Stored(t) \subseteq Stored(s)
               /\ \A i \in Stored(t) : t.flos[i] = s.flos[i]
<1> DEFINE n == Cardinality(Stored(s))
           Rest(t) == /\ Good(t)
                      /\ Stored(t) \subseteq Stored(s)
                      /\ \A i \in Stored(t) : t.flos[i] = s.flos[i]
           X == {t \in Storage : Rest(t)}
           Round(t) == IF t.size > MaxSpace THEN RemoveFurthest(t) ELSE t
           IsLoop(g) == g = [i \in 0..n |-> IF i = 0 THEN s
                                            ELSE IF g[i - 1].size > MaxSpace
                                                 THEN RemoveFurthest(g[i - 1])
                                                 ELSE g[i - 1]]
           loop == CHOOSE g : IsLoop(g)
<1>1. n \in Nat
  <2>1. IsStorage(s)
    BY DEF Good
  <2>2. IsFiniteSet(Stored(s))
    BY <2>1, SizesType
  <2> QED BY <2>2, FS_CardinalityType
<1>2. Evict(s) = loop[n]
  BY Zenon DEF Evict
<1>3. s \in X
  BY StorageIn
<1>4. ASSUME NEW t \in X PROVE Round(t) \in X
  <2>1. Rest(t)
    OBVIOUS
  <2>2. Rest(RemoveFurthest(t))
    <3>1. /\ Good(RemoveFurthest(t))
          /\ Stored(RemoveFurthest(t)) \subseteq Stored(t)
          /\ \A i \in Stored(RemoveFurthest(t)) : RemoveFurthest(t).flos[i] = t.flos[i]
      BY <2>1, RemoveFurthestGood, Zenon
    <3> QED BY <2>1, <3>1
  <2>3. RemoveFurthest(t) \in X
    BY <2>2, StorageIn
  <2> QED BY <2>3
<1>5. \E g : IsLoop(g)
  <2> DEFINE step == [i \in 1..n |-> [t \in X |-> Round(t)]]
  <2>1. step \in [1..n -> [X -> X]]
    <3> HIDE DEF X, Round
    <3> QED BY <1>4
  <2>2. \A i \in 1..n : \A t \in X : step[i][t] = Round(t)
    <3> HIDE DEF X, Round
    <3> QED OBVIOUS
  <2>3. PICK g \in [0..n -> X] :
           g[0] = s /\ \A i \in 1..n : g[i] = step[i][g[i - 1]]
    <3> HIDE DEF n, X, step
    <3>1. step \in Steps(n, X)
      BY <2>1 DEF Steps
    <3>2. \E g : g \in Iterations(n, X, s, step)
      BY <1>1, <1>3, <3>1, Iterates, Zenon
    <3> QED BY <3>2 DEF Iterations
  <2>4. ASSUME NEW i \in 1..n PROVE g[i] = Round(g[i - 1])
    <3> HIDE DEF X, Round, step
    <3>1. i - 1 \in 0..n
      BY <1>1
    <3>2. g[i - 1] \in X
      BY <3>1, <2>3
    <3> QED BY <2>2, <2>3, <3>2
  <2>5. \A i \in 0..n : g[i] = IF i = 0 THEN s
                               ELSE IF g[i - 1].size > MaxSpace
                                    THEN RemoveFurthest(g[i - 1])
                                    ELSE g[i - 1]
    <3> HIDE DEF n, X, step
    <3> QED BY <1>1, <2>3, <2>4
  <2>6. IsLoop(g)
    <3> HIDE DEF n, X, step
    <3> QED BY <2>3, <2>5
  <2> QED BY <2>6
<1>6. IsLoop(loop)
  BY <1>5, Zenon
<1>7. loop[0] = s /\ \A i \in 1..n : loop[i] = Round(loop[i - 1])
  <2> HIDE DEF n, loop
  <2> QED BY <1>1, <1>6
<1>8. loop[n] \in X
  <2> DEFINE P == {i \in 0..n : loop[i] \in X}
  <2> HIDE DEF n, loop, X, Round
  <2>1. 0 \in P
    BY <1>1, <1>3, <1>7
  <2>2. \A i \in 1..n : i - 1 \in P => i \in P
    BY <1>1, <1>4, <1>7
  <2>3. 0..n \subseteq P
    <3> HIDE DEF P
    <3> QED BY <1>1, <2>1, <2>2, IntervalInduction
  <2> QED BY <1>1, <2>3
<1> QED BY <1>2, <1>8

\* upsert_flo as a whole.  When it reports no new flo, nothing was put.
LEMMA UpsertGood ==
    ASSUME NEW s, Good(s), NEW f \in Flo
    PROVE  LET t == UpsertFlo(s, f)
           IN  /\ Good(t)
               /\ ~IsNewFlo(s, f) =>
                     /\ Stored(t) \subseteq Stored(s)
                     /\ \A i \in Stored(t) : t.flos[i].version = s.flos[i].version
<1> DEFINE w == WithCuckoo(s, f)
           b == BeforeEviction(s, f)
           t == UpsertFlo(s, f)
<1>1. CASE TooLarge(f)
  BY <1>1 DEF UpsertFlo
<1>2. CASE ~TooLarge(f)
  <2>1. t = Evict(b)
    BY <1>2 DEF UpsertFlo
  <2>2. Good(b)
    BY BeforeEvictionGood, Zenon
  <2>3. /\ Good(t)
        /\ Stored(t) \subseteq Stored(b)
        /\ \A i \in Stored(t) : t.flos[i] = b.flos[i]
    <3> HIDE DEF b, t
    <3> QED BY <2>1, <2>2, EvictGood, Zenon
  <2>4. ASSUME ~IsNewFlo(s, f)
        PROVE  Stored(b) = Stored(s)
               /\ \A i \in Stored(s) : b.flos[i].version = s.flos[i].version
    <3>1. f.id \in Stored(s) /\ ~(s.flos[f.id].version < f.version)
      BY <1>2, <2>4, Zenon DEF IsNewFlo
    <3>2. /\ Stored(w) = Stored(s)
          /\ \A i \in Stored(s) : w.flos[i].version = s.flos[i].version
      <4>1. CASE Parent(f.id) = NoFlo
        BY <4>1, Zenon DEF WithCuckoo
      <4>2. CASE Parent(f.id) # NoFlo
        <5>1. f.id \in FloID /\ Parent(f.id) \in FloID
          BY <4>2, ParentAssumption DEF Flo
        <5>2. w = StoreCuckooID(s, Parent(f.id), f.id)
          BY <4>2, Zenon DEF WithCuckoo
        <5> HIDE DEF w
        <5> QED BY <5>1, <5>2, StoreCuckooGood, Zenon
      <4> QED BY <4>1, <4>2
    <3>3. ~IsPut(w, f)
      <4> HIDE DEF w
      <4> QED BY <3>1, <3>2, Zenon DEF IsPut
    <3>4. b = w
      BY <3>3, Zenon DEF BeforeEviction
    <3> HIDE DEF b, w
    <3> QED BY <3>2, <3>4
  <2> HIDE DEF b, t
  <2> QED BY <2>3, <2>4 DEF t
<1> QED BY <1>1, <1>2

----------------------------------------------------------------------------
\* A storage within its limit loses nothing in the loop of upsert_flo.
LEMMA EvictNothing ==
    ASSUME NEW s, Good(s), s.size <= MaxSpace
    PROVE  Evict(s) = s
<1> DEFINE n == Cardinality(Stored(s))
           IsLoop(g) == g = [i \in 0..n |-> IF i = 0 THEN s
                                            ELSE IF g[i - 1].size > MaxSpace
                                                 THEN RemoveFurthest(g[i - 1])
                                                 ELSE g[i - 1]]
           loop == CHOOSE g : IsLoop(g)
           g0 == [i \in 0..n |-> s]
<1>1. n \in Nat
  BY SizesType, FS_CardinalityType DEF Good
<1>2. s.size \in Nat /\ MaxSpace \in Nat
  BY SizeAssumption DEF Good, IsStorage
<1>3. ~(s.size > MaxSpace)
  BY <1>2
<1>4. Evict(s) = loop[n]
  BY Zenon DEF Evict
<1> HIDE DEF n
<1>5. IsLoop(g0)
  <2>1. \A i \in 0..n : i # 0 => i - 1 \in 0..n
    BY <1>1
  <2> QED BY <1>3, <2>1
<1>6. IsLoop(loop)
  <2> HIDE DEF g0
  <2> QED BY <1>5, Zenon
<1> HIDE DEF loop, g0
<1> DEFINE P == {i \in 0..n : loop[i] = s}
<1>7. 0 \in P
  BY <1>1, <1>6
<1>8. \A i \in 1..n : i - 1 \in P => i \in P
  BY <1>1, <1>3, <1>6
<1>9. 0..n \subseteq P
  <2> HIDE DEF P
  <2> QED BY <1>1, <1>7, <1>8, IntervalInduction
<1> QED BY <1>1, <1>4, <1>9

\* What upsert_flo puts: the flo, in place of an older version or of none.
LEMMA UpsertPuts ==
    ASSUME NEW s, Good(s), NEW f \in Flo,
           \A t : Good(t) => t.size <= MaxSpace
    PROVE  LET t == UpsertFlo(s, f)
           IN  /\ Stored(s) \subseteq Stored(t)
               /\ \A i \in Stored(t) :
                     \/ i \in Stored(s) /\ t.flos[i].version = s.flos[i].version
                     \/ /\ i = f.id /\ t.flos[i].version = f.version
                        /\ i \in Stored(s) => s.flos[i].version < f.version
<1> DEFINE w == WithCuckoo(s, f)
           b == BeforeEviction(s, f)
           t == UpsertFlo(s, f)
<1>1. CASE TooLarge(f)
  BY <1>1 DEF UpsertFlo
<1>2. CASE ~TooLarge(f)
  <2>1. t = b
    <3>1. Good(b)
      BY BeforeEvictionGood, Zenon
    <3>2. Evict(b) = b
      <4> HIDE DEF b
      <4> QED BY <3>1, EvictNothing, Zenon
    <3> QED BY <1>2, <3>2, Zenon DEF UpsertFlo
  <2>2. /\ Good(w)
        /\ Stored(w) = Stored(s)
        /\ \A i \in Stored(s) : w.flos[i].version = s.flos[i].version
    <3>1. CASE Parent(f.id) = NoFlo
      BY <3>1, Zenon DEF WithCuckoo
    <3>2. CASE Parent(f.id) # NoFlo
      <4>1. f.id \in FloID /\ Parent(f.id) \in FloID
        BY <3>2, ParentAssumption DEF Flo
      <4>2. w = StoreCuckooID(s, Parent(f.id), f.id)
        BY <3>2, Zenon DEF WithCuckoo
      <4> HIDE DEF w
      <4> QED BY <4>1, <4>2, StoreCuckooGood, Zenon
    <3> QED BY <3>1, <3>2
  <2>3. b = IF IsPut(w, f) THEN Put(w, f) ELSE w
    BY Zenon DEF BeforeEviction
  <2> HIDE DEF w, b, t
  <2>4. CASE ~IsPut(w, f)
    BY <2>1, <2>2, <2>3, <2>4 DEF t
  <2>5. CASE IsPut(w, f)
    <3>1. t = Put(w, f)
      BY <2>1, <2>3, <2>5
    <3>2. /\ Stored(Put(w, f)) = Stored(w) \cup {f.id}
          /\ Put(w, f).flos[f.id] = [version |-> f.version, cuckoos |-> {}]
          /\ \A i \in Stored(w) \ {f.id} : Put(w, f).flos[i] = w.flos[i]
      BY <2>2, PutGood, Zenon
    <3>3. f.id \in Stored(w) => w.flos[f.id].version < f.version
      BY <2>5 DEF IsPut
    <3>4. t.flos[f.id].version = f.version
      BY <3>1, <3>2
    <3> QED BY <2>2, <3>1, <3>2, <3>3, <3>4 DEF t
  <2> QED BY <2>4, <2>5
<1> QED BY <1>1, <1>2

----------------------------------------------------------------------------
(***************************************************************************)
(* The inductive invariant: between any two steps, also inside the loop of *)
(* upsert_flo, the storage is well formed and holds the realm's flo.       *)
(***************************************************************************)
StorageIInv ==
    /\ Good(st)
    /\ st.root = Root
    /\ RealmID \in Stored(st)
    /\ pc \in {"idle", "evicting"}
    /\ flo \in Flo \cup {NoCall}
    /\ result \in BOOLEAN

LEMMA StorageInitIInv == StorageInit => StorageIInv
<1> SUFFICES ASSUME StorageInit PROVE StorageIInv
  OBVIOUS
<1>1. PICK v \in Version : st = NewStorage(Root, v)
  BY DEF StorageInit
<1>2. Good(st) /\ st.root = Root /\ Stored(st) = {RealmID}
  BY <1>1, RootAssumption, NewStorageGood
<1> QED BY <1>2 DEF StorageInit, StorageIInv

LEMMA ResultType == ASSUME NEW s, NEW f PROVE IsNewFlo(s, f) \in BOOLEAN
BY Zenon DEF IsNewFlo

LEMMA StorageNextIInv == StorageIInv /\ [StorageNext]_storageVars => StorageIInv'
<1> SUFFICES ASSUME StorageIInv, [StorageNext]_storageVars PROVE StorageIInv'
  OBVIOUS
<1> USE DEF StorageIInv
<1>1. ASSUME NEW f \in Flo, UpsertTooLarge(f) PROVE StorageIInv'
  BY <1>1 DEF UpsertTooLarge
<1>2. ASSUME NEW f \in Flo, Upsert(f) PROVE StorageIInv'
  <2>1. /\ Good(st') /\ st'.root = st.root
        /\ Stored(st) \subseteq Stored(st')
    BY <1>2, BeforeEvictionGood DEF Upsert
  <2>2. result' \in BOOLEAN
    BY <1>2, ResultType DEF Upsert
  <2>3. pc' = "evicting" /\ flo' = f
    BY <1>2 DEF Upsert
  <2> QED BY <2>1, <2>2, <2>3
<1>3. ASSUME EvictOne PROVE StorageIInv'
  <2>1. st' = RemoveFurthest(st) /\ UNCHANGED <<pc, flo, result>>
    BY <1>3 DEF EvictOne
  <2>2. Good(st') /\ st'.root = st.root /\ RealmID \in Stored(st')
    BY <2>1, RemoveFurthestGood
  <2> QED BY <2>1, <2>2
<1>4. ASSUME UpsertDone PROVE StorageIInv'
  BY <1>4 DEF UpsertDone
<1>5. ASSUME NEW c \in FloID, Parent(c) # NoFlo, StoreCuckoo(Parent(c), c)
      PROVE  StorageIInv'
  <2>1. Parent(c) \in FloID
    BY <1>5, ParentAssumption
  <2>2. st' = StoreCuckooID(st, Parent(c), c)
        /\ UNCHANGED <<pc, flo, result>>
    BY <1>5 DEF StoreCuckoo
  <2>3. Good(st') /\ st'.root = st.root /\ Stored(st') = Stored(st)
    BY <2>1, <2>2, StoreCuckooGood
  <2> QED BY <2>2, <2>3
<1>6. ASSUME UNCHANGED storageVars PROVE StorageIInv'
  BY <1>6 DEF storageVars
<1> QED BY <1>1, <1>2, <1>3, <1>4, <1>5, <1>6 DEF StorageNext

\* StorageIInv holds of every reachable state.
LEMMA StorageSpecIInv == StorageSpec => []StorageIInv
BY StorageInitIInv, StorageNextIInv, PTL DEF StorageSpec

\* Type correctness: in particular `size`, an unsigned 64-bit total, never
\* becomes negative in put, remove_entry or store_cuckoo_id.
THEOREM StorageTypeCorrect == StorageSpec => []StorageTypeOK
<1>1. StorageIInv => StorageTypeOK
  BY DEF StorageIInv, Good, StorageTypeOK
<1> QED BY <1>1, StorageSpecIInv, PTL

\* The index by depth and the map of flos always agree.
THEOREM IndexCorrect == StorageSpec => []IndexMatchesFlos
<1>1. StorageIInv => IndexMatchesFlos
  BY DEF StorageIInv, Good, IndexMatchesFlos
<1> QED BY <1>1, StorageSpecIInv, PTL

\* The running total is always the sum of the sizes of what is stored.
THEOREM SizeCorrect == StorageSpec => []SizeMatchesFlos
<1>1. StorageIInv => SizeMatchesFlos
  BY DEF StorageIInv, Good, SizeMatchesFlos
<1> QED BY <1>1, StorageSpecIInv, PTL

\* The flo of the realm itself is never evicted.
THEOREM RealmFloKept == StorageSpec => []RealmKept
<1>1. StorageIInv => RealmKept
  BY DEF StorageIInv, RealmKept
<1> QED BY <1>1, StorageSpecIInv, PTL

----------------------------------------------------------------------------
\* What one step may do to what is stored: the two action properties.
DropsFurthest ==
    \A gone \in Stored(st) \ Stored(st)', kept \in Stored(st)' \ {RealmID} :
        Depth(Root, gone) <= Depth(Root, kept)

KeepsVersions ==
    \A id \in Stored(st) \cap Stored(st)' :
        \/ st.flos[id].version < st.flos'[id].version
        \/ /\ st.flos[id].version = st.flos'[id].version
           /\ st.flos[id].cuckoos \subseteq st.flos'[id].cuckoos

LEMMA StepKeeps == StorageIInv /\ [StorageNext]_storageVars => DropsFurthest /\ KeepsVersions
<1> SUFFICES ASSUME StorageIInv, [StorageNext]_storageVars PROVE DropsFurthest /\ KeepsVersions
  OBVIOUS
<1> USE DEF DropsFurthest, KeepsVersions
<1>0. Good(st) /\ st.root = Root
  BY DEF StorageIInv
<1>1. ASSUME st' = st PROVE DropsFurthest /\ KeepsVersions
  BY <1>1 DEF Stored
<1>2. ASSUME NEW f \in Flo, Upsert(f) PROVE DropsFurthest /\ KeepsVersions
  BY <1>0, <1>2, BeforeEvictionGood DEF Upsert, Stored
<1>3. ASSUME EvictOne PROVE DropsFurthest /\ KeepsVersions
  <2>1. st' = RemoveFurthest(st)
    BY <1>3 DEF EvictOne
  <2>2. /\ Stored(st') \subseteq Stored(st)
        /\ \A i \in Stored(st') : st'.flos[i] = st.flos[i]
        /\ \A gone \in Stored(st) \ Stored(st'), i \in Stored(st') \ {RealmID} :
              Depth(Root, gone) <= Depth(Root, i)
    BY <1>0, <2>1, RemoveFurthestGood
  <2> QED BY <2>2 DEF Stored
<1>4. ASSUME NEW c \in FloID, Parent(c) # NoFlo, StoreCuckoo(Parent(c), c)
      PROVE  DropsFurthest /\ KeepsVersions
  <2>1. Parent(c) \in FloID /\ st' = StoreCuckooID(st, Parent(c), c)
    BY <1>4, ParentAssumption DEF StoreCuckoo
  <2>2. /\ Stored(st') = Stored(st)
        /\ \A i \in Stored(st) :
              /\ st'.flos[i].version = st.flos[i].version
              /\ st.flos[i].cuckoos \subseteq st'.flos[i].cuckoos
    BY <1>0, <2>1, StoreCuckooGood
  <2> QED BY <2>2 DEF Stored
<1> QED BY <1>1, <1>2, <1>3, <1>4
        DEF StorageNext, storageVars, UpsertTooLarge, UpsertDone

\* What remove_furthest drops is never nearer to the node than what stays.
THEOREM EvictsFurthestFirst == StorageSpec => FurthestFirst
<1>1. StorageIInv /\ [StorageNext]_storageVars => [DropsFurthest]_storageVars
  BY StepKeeps
<1> QED BY <1>1, StorageSpecIInv, PTL DEF StorageSpec, FurthestFirst, DropsFurthest

\* No step takes a stored flo back to an older version, or takes cuckoos from
\* one whose version stays.
THEOREM NeverDowngrades == StorageSpec => NoDowngrade
<1>1. StorageIInv /\ [StorageNext]_storageVars => [KeepsVersions]_storageVars
  BY StepKeeps
<1> QED BY <1>1, StorageSpecIInv, PTL DEF StorageSpec, NoDowngrade, KeepsVersions

----------------------------------------------------------------------------
(***************************************************************************)
(* The flos of an idle storage fit, if the realm's own flo does.           *)
(***************************************************************************)
FlosFit == pc = "idle" => FlosSize(st) <= MaxSpace

FloBytes(s) == [id \in Stored(s) |-> Overhead + FloSize(id, s.flos[id].version)]

LEMMA FloBytesType ==
    ASSUME NEW s, IsStorage(s)
    PROVE  /\ FlosSize(s) = SumFunctionOnSet(FloBytes(s), Stored(s))
           /\ \A id \in Stored(s) :
                /\ FloBytes(s)[id] \in Nat
                /\ Sizes(s)[id] \in Nat /\ FloBytes(s)[id] <= Sizes(s)[id]
<1>1. FlosSize(s) = SumFunctionOnSet(FloBytes(s), Stored(s))
  BY DEF FlosSize, FloBytes
<1>2. ASSUME NEW id \in Stored(s)
      PROVE  /\ FloBytes(s)[id] \in Nat
             /\ Sizes(s)[id] \in Nat /\ FloBytes(s)[id] <= Sizes(s)[id]
  <2> DEFINE fs == s.flos[id]
  <2>1. id \in FloID /\ fs \in FloStorage
    BY DEF IsStorage
  <2>2. fs.version \in Version /\ IsFiniteSet(fs.cuckoos)
    BY <2>1, RealmAssumption, FS_Subset DEF FloStorage
  <2>3. Cardinality(fs.cuckoos) \in Nat
    BY <2>2, FS_CardinalityType
  <2>4. CuckooSize * Cardinality(fs.cuckoos) \in Nat
    BY <2>3, SizeAssumption
  <2>5. Overhead \in Nat /\ FloSize(id, fs.version) \in Nat
    BY <2>1, <2>2, SizeAssumption
  <2>6. /\ FloBytes(s)[id] = Overhead + FloSize(id, fs.version)
        /\ Sizes(s)[id] = Overhead + FloSize(id, fs.version)
                              + CuckooSize * Cardinality(fs.cuckoos)
    BY DEF FloBytes, Sizes, StoredSize
  <2> HIDE DEF fs
  <2> QED BY <2>4, <2>5, <2>6
<1> QED BY <1>1, <1>2

\* Cuckoo ids only add to the size of a storage.
LEMMA FlosWithinSize ==
    ASSUME NEW s, Good(s), s.size <= MaxSpace
    PROVE  FlosSize(s) <= MaxSpace
<1>1. IsStorage(s) /\ SizeMatches(s)
  BY DEF Good
<1>2. IsFiniteSet(Stored(s))
  BY <1>1, SizesType
<1>3. SumFunctionOnSet(FloBytes(s), Stored(s)) <= SumFunctionOnSet(Sizes(s), Stored(s))
  BY <1>1, <1>2, FloBytesType, SumMonotone
<1>4. s.size = SumFunctionOnSet(Sizes(s), Stored(s)) /\ s.size \in Nat
  BY <1>1 DEF SizeMatches, SizeOf, IsStorage
<1>5. SumFunctionOnSet(FloBytes(s), Stored(s)) \in Nat
  BY <1>1, <1>2, FloBytesType, SumType
<1> QED BY <1>1, <1>3, <1>4, <1>5, FloBytesType, SizeAssumption

LEMMA InitFits ==
    ASSUME \A v \in Version : Overhead + FloSize(RealmID, v) <= MaxSpace, StorageInit
    PROVE  FlosFit
<1>1. Good(st) /\ Stored(st) = {RealmID}
  BY RootAssumption, NewStorageGood DEF StorageInit
<1>2. IsStorage(st)
  BY <1>1 DEF Good
<1> DEFINE w == FloBytes(st)
<1>3. st.flos[RealmID].version \in Version
  BY <1>1, <1>2 DEF IsStorage, FloStorage
<1>4. w[RealmID] = Overhead + FloSize(RealmID, st.flos[RealmID].version)
  BY <1>1 DEF FloBytes
<1>5. w[RealmID] \in Nat /\ FlosSize(st) = SumFunctionOnSet(w, {RealmID})
  BY <1>1, <1>2, FloBytesType
<1> HIDE DEF w
<1>6. SumFunctionOnSet(w, {RealmID}) = w[RealmID] + SumFunctionOnSet(w, {})
  BY <1>5, FS_EmptySet, SumAdd
<1>7. FlosSize(st) = w[RealmID]
  BY <1>5, <1>6, SumEmpty
<1> QED BY <1>3, <1>4, <1>7 DEF FlosFit

LEMMA NextFits == StorageIInv /\ FlosFit /\ [StorageNext]_storageVars => FlosFit'
<1> SUFFICES ASSUME StorageIInv, FlosFit, [StorageNext]_storageVars PROVE FlosFit'
  OBVIOUS
<1>1. ASSUME UNCHANGED <<st, pc>> PROVE FlosFit'
  BY <1>1 DEF FlosFit
<1>2. ASSUME NEW f \in Flo, Upsert(f) PROVE FlosFit'
  BY <1>2 DEF Upsert, FlosFit
<1>3. ASSUME EvictOne PROVE FlosFit'
  BY <1>3 DEF EvictOne, FlosFit
<1>4. ASSUME UpsertDone PROVE FlosFit'
  <2>1. st' = st /\ FlosSize(st) <= MaxSpace
    BY <1>4, FlosWithinSize DEF UpsertDone, StorageIInv
  <2> QED BY <2>1 DEF FlosFit
<1>5. ASSUME NEW c \in FloID, Parent(c) # NoFlo, StoreCuckoo(Parent(c), c)
      PROVE  FlosFit'
  <2>1. /\ Parent(c) \in FloID /\ st' = StoreCuckooID(st, Parent(c), c)
        /\ pc = "idle" /\ Good(st)
    BY <1>5, ParentAssumption DEF StoreCuckoo, StorageIInv
  <2>2. /\ Stored(st') = Stored(st)
        /\ \A i \in Stored(st) : st'.flos[i].version = st.flos[i].version
    BY <2>1, StoreCuckooGood
  <2>3. FlosSize(st') = FlosSize(st)
    BY <2>2 DEF FlosSize
  <2> QED BY <2>1, <2>3 DEF FlosFit
<1> QED BY <1>1, <1>2, <1>3, <1>4, <1>5 DEF StorageNext, storageVars, UpsertTooLarge

\* Between two calls of upsert_flo the flos themselves fit into max_space, if only the realm's
\* own flo, which is never evicted, does: what is over it are cuckoo ids.
THEOREM OnlyCuckoosOverrun ==
    ASSUME \A v \in Version : Overhead + FloSize(RealmID, v) <= MaxSpace
    PROVE  StorageSpec => []OverrunOnlyByCuckoos
<1>1. FlosFit => OverrunOnlyByCuckoos
  BY DEF FlosFit, OverrunOnlyByCuckoos
<1>2. StorageInit => FlosFit
  BY InitFits
<1> QED BY <1>1, <1>2, NextFits, StorageSpecIInv, PTL DEF StorageSpec

----------------------------------------------------------------------------
(***************************************************************************)
(* One node.                                                               *)
(***************************************************************************)
\* What StoredIsDurable says of one node's storage s and file k.
Durable(s, k) ==
    s # NoRealm =>
        /\ k # NoRealm
        /\ \A id \in Stored(s) :
              id \in Stored(k) /\ k.flos[id].version = s.flos[id].version

NodeGood(node) ==
    /\ IsRealm(node.realm) /\ IsRealm(node.disk)
    /\ Durable(node.realm, node.disk)

GoodNodes == {node \in [realm : Storage \cup {NoRealm}, disk : Storage \cup {NoRealm}] :
                 NodeGood(node)}

LEMMA RealmIsGood == ASSUME NEW s PROVE IsRealm(s) <=> s = NoRealm \/ Good(s)
BY DEF IsRealm, Good

LEMMA GoodNodeIn ==
    ASSUME NEW s, NEW k, IsRealm(s), IsRealm(k), Durable(s, k)
    PROVE  [realm |-> s, disk |-> k] \in GoodNodes
<1>1. s \in Storage \cup {NoRealm} /\ k \in Storage \cup {NoRealm}
  BY RealmIsGood, StorageIn
<1> QED BY <1>1 DEF GoodNodes, NodeGood

\* A flo that is stored is written, unless nothing was put.
LEMMA StoreFloGood ==
    ASSUME NEW n \in NodeID, NEW node \in GoodNodes, NEW f \in Flo
    PROVE  StoreFlo(n, node, f) \in GoodNodes
<1> DEFINE s == node.realm
           k == node.disk
           t == UpsertAt(n, s, f)
           mod == Modification(n, s, f)
<1>0. f.id \in FloID /\ f.version \in Version
  BY DEF Flo
<1>1. IsRealm(s) /\ IsRealm(k) /\ Durable(s, k)
  BY DEF GoodNodes, NodeGood
<1>2. StoreFlo(n, node, f) = [realm |-> t, disk |-> IF mod THEN t ELSE k]
  BY Zenon DEF StoreFlo
<1>3. IsRealm(t)
  <2>1. CASE s # NoRealm
    <3>1. t = UpsertFlo(s, f)
      BY <2>1 DEF UpsertAt
    <3>2. Good(s)
      BY <1>1, <2>1, RealmIsGood
    <3>3. Good(UpsertFlo(s, f))
      BY <3>2, UpsertGood, Zenon
    <3> QED BY <3>1, <3>3, RealmIsGood
  <2>2. CASE s = NoRealm /\ CreatesRealm(n, f)
    <3>1. t = NewStorage(n, f.version)
      BY <2>2 DEF UpsertAt
    <3>2. Good(NewStorage(n, f.version))
      BY <1>0, NewStorageGood, Zenon
    <3> QED BY <3>1, <3>2, RealmIsGood
  <2>3. CASE s = NoRealm /\ ~CreatesRealm(n, f)
    <3>1. t = NoRealm
      BY <2>3 DEF UpsertAt
    <3> QED BY <3>1, RealmIsGood
  <2> QED BY <2>1, <2>2, <2>3
<1>4. CASE mod
  <2>1. Durable(t, t)
    BY DEF Durable
  <2>2. StoreFlo(n, node, f) = [realm |-> t, disk |-> t]
    BY <1>2, <1>4
  <2> HIDE DEF t
  <2> QED BY <1>3, <2>1, <2>2, GoodNodeIn
<1>5. CASE ~mod
  <2>1. StoreFlo(n, node, f) = [realm |-> t, disk |-> k]
    BY <1>2, <1>5
  <2>2. CASE s # NoRealm
    <3>1. t = UpsertFlo(s, f) /\ ~IsNewFlo(s, f)
      BY <1>5, <2>2 DEF UpsertAt, Modification
    <3>2. Good(s)
      BY <1>1, <2>2, RealmIsGood
    <3>3. /\ Stored(t) \subseteq Stored(s)
          /\ \A i \in Stored(t) : t.flos[i].version = s.flos[i].version
      <4> HIDE DEF s, t
      <4> QED BY <3>1, <3>2, UpsertGood, Zenon
    <3>4. Durable(t, k)
      <4> HIDE DEF s, k, t
      <4> QED BY <1>1, <2>2, <3>3 DEF Durable
    <3> HIDE DEF s, k, t
    <3> QED BY <1>1, <1>3, <2>1, <3>4, GoodNodeIn
  <2>3. CASE s = NoRealm
    <3>1. t = NoRealm
      BY <1>5, <2>3 DEF UpsertAt, Modification
    <3>2. Durable(t, k)
      BY <3>1 DEF Durable
    <3> HIDE DEF s, k, t
    <3> QED BY <1>1, <1>3, <2>1, <3>2, GoodNodeIn
  <2> QED BY <2>2, <2>3
<1> QED BY <1>4, <1>5

\* Cuckoo ids change no version.
LEMMA CuckoosGood ==
    ASSUME NEW s, NEW k, Good(s), s # NoRealm, IsRealm(k), Durable(s, k),
           NEW p \in FloID, NEW cs \in SUBSET FloID
    PROVE  LET t == StoreCuckooIDs(s, p, cs) IN IsRealm(t) /\ Durable(t, k)
<1> DEFINE t == StoreCuckooIDs(s, p, cs)
<1>1. /\ Good(t)
      /\ Stored(t) = Stored(s)
      /\ \A i \in Stored(s) : t.flos[i].version = s.flos[i].version
  BY StoreCuckoosGood, Zenon
<1> HIDE DEF t
<1>2. IsRealm(t)
  BY <1>1, RealmIsGood
<1>3. Durable(t, k)
  BY <1>1 DEF Durable
<1> QED BY <1>2, <1>3 DEF t

LEMMA StoreFloCuckooGood ==
    ASSUME NEW n \in NodeID, NEW node \in GoodNodes, NEW fc \in FloCuckoo
    PROVE  StoreFloCuckoo(n, node, fc) \in GoodNodes
<1> DEFINE f == [id |-> fc.id, version |-> fc.version]
           x == StoreFlo(n, node, f)
<1>1. f \in Flo /\ fc.id \in FloID /\ fc.cuckoos \in SUBSET FloID
  BY DEF FloCuckoo, Flo
<1>2. x \in GoodNodes
  BY <1>1, StoreFloGood
<1>3. StoreFloCuckoo(n, node, fc) =
         IF x.realm = NoRealm THEN x
         ELSE [x EXCEPT !.realm = StoreCuckooIDs(x.realm, fc.id, fc.cuckoos)]
  BY Zenon DEF StoreFloCuckoo
<1> HIDE DEF x, f
<1>4. CASE x.realm = NoRealm
  BY <1>2, <1>3, <1>4
<1>5. CASE x.realm # NoRealm
  <2>1. /\ x = [realm |-> x.realm, disk |-> x.disk]
        /\ IsRealm(x.realm) /\ IsRealm(x.disk) /\ Durable(x.realm, x.disk)
    BY <1>2 DEF GoodNodes, NodeGood
  <2>2. StoreFloCuckoo(n, node, fc) =
           [realm |-> StoreCuckooIDs(x.realm, fc.id, fc.cuckoos), disk |-> x.disk]
    BY <1>3, <1>5, <2>1
  <2>3. Good(x.realm)
    BY <1>5, <2>1, RealmIsGood
  <2>4. /\ IsRealm(StoreCuckooIDs(x.realm, fc.id, fc.cuckoos))
        /\ Durable(StoreCuckooIDs(x.realm, fc.id, fc.cuckoos), x.disk)
    BY <1>1, <1>5, <2>1, <2>3, CuckoosGood, Zenon
  <2> QED BY <2>1, <2>2, <2>4, GoodNodeIn
<1> QED BY <1>4, <1>5

\* A list of flos is handled one after the other: run[i] is the node after i.
IsRunOf(run, n, node, list) ==
    /\ run[0] = node
    /\ \A i \in 1..Len(list) : run[i] = StoreFloCuckoo(n, run[i - 1], list[i])

LEMMA StoreFloCuckoosRun ==
    ASSUME NEW n \in NodeID, NEW node \in GoodNodes, NEW list \in Seq(FloCuckoo)
    PROVE  \E run : /\ IsRunOf(run, n, node, list)
                    /\ \A i \in 0..Len(list) : run[i] \in GoodNodes
                    /\ StoreFloCuckoos(n, node, list) = run[Len(list)]
<1> DEFINE len == Len(list)
           IsLoop(g) == g = [i \in 0..len |->
                               IF i = 0 THEN node
                               ELSE StoreFloCuckoo(n, g[i - 1], list[i])]
           loop == CHOOSE g : IsLoop(g)
<1>1. len \in Nat /\ \A i \in 1..len : list[i] \in FloCuckoo
  OBVIOUS
<1>2. StoreFloCuckoos(n, node, list) = loop[len]
  BY Zenon DEF StoreFloCuckoos
<1>3. \E g : IsLoop(g)
  <2> DEFINE step == [i \in 1..len |->
                        [x \in GoodNodes |-> StoreFloCuckoo(n, x, list[i])]]
  <2> HIDE DEF len
  <2>1. step \in [1..len -> [GoodNodes -> GoodNodes]]
    BY <1>1, StoreFloCuckooGood
  <2>2. \A i \in 1..len : \A x \in GoodNodes :
           step[i][x] = StoreFloCuckoo(n, x, list[i])
    OBVIOUS
  <2> HIDE DEF step
  <2>3. PICK g : g \in Iterations(len, GoodNodes, node, step)
    <3>1. step \in Steps(len, GoodNodes)
      BY <2>1 DEF Steps
    <3> QED BY <1>1, <3>1, Iterates, Zenon
  <2>4. /\ g \in [0..len -> GoodNodes] /\ g[0] = node
        /\ \A i \in 1..len : g[i] = step[i][g[i - 1]]
    BY <2>3 DEF Iterations
  <2>5. ASSUME NEW i \in 1..len
        PROVE  g[i] = StoreFloCuckoo(n, g[i - 1], list[i])
    <3>1. g[i - 1] \in GoodNodes
      BY <1>1, <2>4
    <3> QED BY <2>2, <2>4, <3>1
  <2>6. IsLoop(g)
    BY <1>1, <2>4, <2>5
  <2> QED BY <2>6
<1>4. IsLoop(loop)
  BY <1>3, Zenon
<1> HIDE DEF len, loop
<1>5. loop[0] = node
      /\ \A i \in 1..len : loop[i] = StoreFloCuckoo(n, loop[i - 1], list[i])
  BY <1>1, <1>4
<1> DEFINE P == {i \in 0..len : loop[i] \in GoodNodes}
<1>6. 0 \in P
  BY <1>1, <1>5
<1>7. \A i \in 1..len : i - 1 \in P => i \in P
  BY <1>1, <1>5, StoreFloCuckooGood
<1>8. 0..len \subseteq P
  <2> HIDE DEF P
  <2> QED BY <1>1, <1>6, <1>7, IntervalInduction
<1> QED BY <1>2, <1>5, <1>8 DEF IsRunOf, len

LEMMA StoreFloCuckoosGood ==
    ASSUME NEW n \in NodeID, NEW node \in GoodNodes, NEW list \in Seq(FloCuckoo)
    PROVE  StoreFloCuckoos(n, node, list) \in GoodNodes
<1>1. Len(list) \in 0..Len(list)
  OBVIOUS
<1> QED BY <1>1, StoreFloCuckoosRun

----------------------------------------------------------------------------
(***************************************************************************)
(* Messages.                                                               *)
(***************************************************************************)
Message == MessageClosest \cup MessageDest \cup MessageNeighbour

\* What the type of a message says of its fields.
LEMMA MessageFields ==
    ASSUME NEW m \in Message
    PROVE  /\ m.from \in NodeID /\ m.to \in NodeID
           /\ m.type = "StoreFlo" => m.flo \in Flo
           /\ m.type = "ReadFlo" => m.id \in FloID
           /\ m.type = "StoreCuckooID" => m.parent \in FloID /\ m.cuckoo \in FloID
           /\ m.type = "FloValue" => m.flo \in FloCuckoo
           /\ m.type = "AvailableFlos" => m.metas \in SUBSET FloMeta
           /\ m.type = "RequestFlos" => m.ids \in SUBSET FloID
           /\ m.type = "Flos" => m.flos \in SUBSET FloCuckoo
<1> USE DEF Message, MessageClosest, MessageDest, MessageNeighbour
<1>1. CASE m \in [type : {"StoreFlo"}, from : NodeID, to : NodeID, flo : Flo]
  BY <1>1
<1>2. CASE m \in [type : {"ReadFlo"}, from : NodeID, to : NodeID, id : FloID]
  BY <1>2
<1>3. CASE m \in [type : {"StoreCuckooID"}, from : NodeID, to : NodeID,
                  parent : FloID, cuckoo : FloID]
  BY <1>3
<1>4. CASE m \in [type : {"FloValue"}, from : NodeID, to : NodeID, flo : FloCuckoo]
  BY <1>4
<1>5. CASE m \in [type : {"RequestRealmIDs", "AvailableRealmIDs", "RequestFloMetas"},
                  from : NodeID, to : NodeID]
  BY <1>5
<1>6. CASE m \in [type : {"AvailableFlos"}, from : NodeID, to : NodeID,
                  metas : SUBSET FloMeta]
  BY <1>6
<1>7. CASE m \in [type : {"RequestFlos"}, from : NodeID, to : NodeID,
                  ids : SUBSET FloID]
  BY <1>7
<1>8. CASE m \in [type : {"Flos"}, from : NodeID, to : NodeID,
                  flos : SUBSET FloCuckoo]
  BY <1>8
<1> QED BY <1>1, <1>2, <1>3, <1>4, <1>5, <1>6, <1>7, <1>8

\* The messages the handlers make.
LEMMA MessageMade ==
    ASSUME NEW n \in NodeID, NEW m \in NodeID
    PROVE  /\ [type |-> "RequestRealmIDs", from |-> n, to |-> m] \in Message
           /\ [type |-> "AvailableRealmIDs", from |-> n, to |-> m] \in Message
           /\ [type |-> "RequestFloMetas", from |-> n, to |-> m] \in Message
           /\ \A f \in Flo :
                 [type |-> "StoreFlo", from |-> n, to |-> m, flo |-> f] \in Message
           /\ \A id \in FloID :
                 [type |-> "ReadFlo", from |-> n, to |-> m, id |-> id] \in Message
           /\ \A p, c \in FloID :
                 [type |-> "StoreCuckooID", from |-> n, to |-> m,
                  parent |-> p, cuckoo |-> c] \in Message
           /\ \A fc \in FloCuckoo :
                 [type |-> "FloValue", from |-> n, to |-> m, flo |-> fc] \in Message
           /\ \A metas \in SUBSET FloMeta :
                 [type |-> "AvailableFlos", from |-> n, to |-> m,
                  metas |-> metas] \in Message
           /\ \A ids \in SUBSET FloID :
                 [type |-> "RequestFlos", from |-> n, to |-> m, ids |-> ids] \in Message
           /\ \A flos \in SUBSET FloCuckoo :
                 [type |-> "Flos", from |-> n, to |-> m, flos |-> flos] \in Message
BY DEF Message, MessageClosest, MessageDest, MessageNeighbour

LEMMA StoreFloOutType ==
    ASSUME NEW n \in NodeID, NEW node, NEW f \in Flo
    PROVE  StoreFloOut(n, node, f) \subseteq Message
<1>1. f.id \in FloID /\ [id |-> f.id, version |-> f.version] \in Flo
  BY DEF Flo
<1>2. Parent(f.id) # NoFlo => Parent(f.id) \in FloID
  BY <1>1, ParentAssumption
<1>3. ASSUME NEW m \in NodeID
      PROVE  [type |-> "StoreFlo", from |-> n, to |-> m,
              flo |-> [id |-> f.id, version |-> f.version]] \in Message
  BY <1>1, MessageMade
<1>4. ASSUME NEW m \in NodeID, Parent(f.id) # NoFlo
      PROVE  [type |-> "StoreCuckooID", from |-> n, to |-> m,
              parent |-> Parent(f.id), cuckoo |-> f.id] \in Message
  BY <1>1, <1>2, <1>4, MessageMade
<1> HIDE DEF Message
<1> QED BY <1>3, <1>4, Zenon DEF StoreFloOut

\* A storage's flos and versions, as they are sent.
LEMMA FloMetasType ==
    ASSUME NEW s, Good(s)
    PROVE  FloMetas(s) \subseteq FloMeta
<1>1. ASSUME NEW id \in Stored(s)
      PROVE  [id |-> id, version |-> s.flos[id].version,
              cuckoos |-> Cardinality(s.flos[id].cuckoos)] \in FloMeta
  <2>1. id \in FloID /\ s.flos[id] \in FloStorage
    BY DEF Good, IsStorage
  <2>2. s.flos[id].version \in Version /\ s.flos[id].cuckoos \in SUBSET FloID
    BY <2>1 DEF FloStorage
  <2>3. Cardinality(s.flos[id].cuckoos) \in Nat
    BY <2>2, RealmAssumption, FS_Subset, FS_CardinalityType
  <2> QED BY <2>1, <2>2, <2>3 DEF FloMeta
<1> QED BY <1>1 DEF FloMetas

LEMMA SyncAvailableType ==
    ASSUME NEW s, NEW metas \in SUBSET FloMeta
    PROVE  SyncAvailable(s, metas) \subseteq FloID
BY DEF SyncAvailable, FloMeta

\* SetToSeqs of a set that may be sent: sequences.
LEMMA OrderType ==
    ASSUME NEW flos \in SUBSET FloCuckoo, IsFiniteSet(flos), NEW order \in SetToSeqs(flos)
    PROVE  order \in Seq(FloCuckoo)
<1>1. Cardinality(flos) \in Nat
  BY FS_CardinalityType
<1>2. order \in [1..Cardinality(flos) -> flos]
  BY DEF SetToSeqs
<1> QED BY <1>1, <1>2

----------------------------------------------------------------------------
(***************************************************************************)
(* The inductive invariant.                                                *)
(***************************************************************************)
NodesOK ==
    /\ DOMAIN realm = NodeID /\ DOMAIN disk = NodeID
    /\ \A n \in NodeID : NodeState(n) \in GoodNodes

\* A list of flos is finite, so that it has an order.
MessagesOK ==
    /\ net \subseteq Message
    /\ \A m \in net : m.type = "Flos" => IsFiniteSet(m.flos)

ConfigOK ==
    /\ DOMAIN config = NodeID
    /\ \A n \in NodeID : Config(n) \subseteq config[n]

CountersOK ==
    /\ published \subseteq Flo
    /\ stores \in 0..MaxStores /\ crashes \in 0..MaxCrashes

IInv == NodesOK /\ MessagesOK /\ ConfigOK /\ CountersOK

\* A handler that sets one node.
LEMMA SetNodeOK ==
    ASSUME NodesOK, NEW n \in NodeID, NEW node \in GoodNodes, SetNode(n, node)
    PROVE  NodesOK'
<1>1. node = [realm |-> node.realm, disk |-> node.disk]
  BY DEF GoodNodes
<1>2. /\ DOMAIN realm' = NodeID /\ DOMAIN disk' = NodeID
      /\ realm'[n] = node.realm /\ disk'[n] = node.disk
      /\ \A x \in NodeID \ {n} : realm'[x] = realm[x] /\ disk'[x] = disk[x]
  BY DEF NodesOK, SetNode
<1>3. ASSUME NEW x \in NodeID PROVE [realm |-> realm'[x], disk |-> disk'[x]] \in GoodNodes
  <2>1. CASE x = n
    BY <1>1, <1>2, <2>1
  <2>2. CASE x # n
    BY <1>2, <2>2 DEF NodesOK, NodeState
  <2> QED BY <2>1, <2>2
<1> QED BY <1>2, <1>3 DEF NodesOK, NodeState

LEMMA NodesUnchanged ==
    ASSUME NodesOK, UNCHANGED <<realm, disk>> PROVE NodesOK'
BY DEF NodesOK, NodeState

LEMMA NodeParts ==
    ASSUME NodesOK, NEW n \in NodeID
    PROVE  /\ IsRealm(realm[n]) /\ IsRealm(disk[n])
           /\ Durable(realm[n], disk[n])
           /\ realm[n] # NoRealm => Good(realm[n])
           /\ disk[n] # NoRealm => Good(disk[n])
BY RealmIsGood DEF NodesOK, NodeState, GoodNodes, NodeGood

\* What is sent, as it may be.
Sendable(out) ==
    /\ out \subseteq Message
    /\ \A m \in out : m.type = "Flos" => IsFiniteSet(m.flos)

LEMMA SentOK ==
    ASSUME MessagesOK, NEW out, Sendable(out), NEW sent \in SUBSET out,
           net' \subseteq net \cup sent
    PROVE  MessagesOK'
BY DEF MessagesOK, Sendable

LEMMA ReplyOK ==
    ASSUME MessagesOK, NEW m, NEW out, Sendable(out), Reply(m, out)
    PROVE  MessagesOK'
<1>1. PICK sent \in SUBSET out : net' = (net \ {m}) \cup sent
  BY Zenon DEF Reply
<1> QED BY <1>1, SentOK

LEMMA OthersUnchanged ==
    ASSUME ConfigOK, CountersOK, Unchanged PROVE ConfigOK' /\ CountersOK'
BY DEF ConfigOK, CountersOK, Unchanged

\* What GetFloCuckoos reads can be sent.
LEMMA GetFloCuckoosType ==
    ASSUME NodesOK, NEW n \in NodeID, NEW ids
    PROVE  GetFloCuckoos(n, ids) \in SUBSET FloCuckoo /\ IsFiniteSet(GetFloCuckoos(n, ids))
<1> DEFINE s == realm[n]
           S == IF s = NoRealm THEN {} ELSE ids \cap Stored(s)
           fc(id) == [id |-> id, version |-> s.flos[id].version,
                      cuckoos |-> s.flos[id].cuckoos]
<1>1. s # NoRealm => Good(s)
  BY NodeParts
<1>2. GetFloCuckoos(n, ids) = {fc(id) : id \in S}
  BY Zenon DEF GetFloCuckoos
<1>3. IsFiniteSet(S)
  <2>1. CASE s = NoRealm
    BY <2>1, FS_EmptySet
  <2>2. CASE s # NoRealm
    <3>1. IsFiniteSet(Stored(s))
      BY <1>1, <2>2, SizesType DEF Good
    <3>2. S \subseteq Stored(s)
      BY <2>2
    <3> QED BY <3>1, <3>2, FS_Subset
  <2> QED BY <2>1, <2>2
<1>4. ASSUME NEW id \in S PROVE fc(id) \in FloCuckoo
  <2>1. s # NoRealm /\ id \in Stored(s)
    BY <1>4
  <2>2. id \in FloID /\ s.flos[id] \in FloStorage
    BY <1>1, <2>1 DEF Good, IsStorage
  <2> QED BY <2>2 DEF FloStorage, FloCuckoo
<1>5. IsFiniteSet({fc(id) : id \in S})
  <2> DEFINE F == [id \in S |-> fc(id)]
             T == {fc(id) : id \in S}
  <2>1. F \in Surjection(S, T)
    BY DEF Surjection
  <2> HIDE DEF F, S, T
  <2>2. IsFiniteSet(T)
    BY <1>3, <2>1, FS_Surjection
  <2> QED BY <2>2 DEF T
<1> HIDE DEF S, fc
<1> QED BY <1>2, <1>4, <1>5

----------------------------------------------------------------------------
(***************************************************************************)
(* The actions, one lemma each for those that do more than send.           *)
(***************************************************************************)
\* Messages of another kind than Flos need their type only.
LEMMA OtherKinds ==
    ASSUME NEW out, out \subseteq Message, \A m \in out : m.type # "Flos"
    PROVE  Sendable(out)
BY DEF Sendable

LEMMA StoreFloOutOK ==
    ASSUME NEW n \in NodeID, NEW node, NEW f \in Flo
    PROVE  Sendable(StoreFloOut(n, node, f))
<1>1. \A m \in StoreFloOut(n, node, f) : m.type # "Flos"
  BY DEF StoreFloOut
<1> QED BY <1>1, StoreFloOutType, OtherKinds

LEMMA InitOK == Init => IInv
<1> SUFFICES ASSUME Init PROVE IInv
  OBVIOUS
<1>1. [realm |-> NoRealm, disk |-> NoRealm] \in GoodNodes
  BY GoodNodeIn DEF IsRealm, Durable
<1>2. NodesOK
  BY <1>1 DEF Init, NodesOK, NodeState
<1>3. MessagesOK /\ ConfigOK
  BY DEF Init, MessagesOK, ConfigOK
<1>4. CountersOK
  BY NetworkAssumption DEF Init, CountersOK
<1> QED BY <1>2, <1>3, <1>4 DEF IInv

LEMMA UserStoreOK ==
    ASSUME IInv, NEW n \in NodeID, NEW f \in Flo, UserStore(n, f)
    PROVE  IInv'
<1> USE DEF IInv
<1>1. NodesOK'
  <2>1. NodeState(n) \in GoodNodes
    BY DEF NodesOK
  <2>2. StoreFlo(n, NodeState(n), f) \in GoodNodes
    BY <2>1, StoreFloGood
  <2> QED BY <2>2, SetNodeOK DEF UserStore
<1>2. MessagesOK'
  <2>1. PICK sent \in SUBSET StoreFloOut(n, NodeState(n), f) : net' = net \cup sent
    BY Zenon DEF UserStore
  <2> QED BY <2>1, StoreFloOutOK, SentOK
<1>3. ConfigOK'
  BY DEF UserStore, ConfigOK
<1>4. CountersOK'
  BY NetworkAssumption DEF UserStore, CountersOK
<1> QED BY <1>1, <1>2, <1>3, <1>4

LEMMA UserReadOK ==
    ASSUME IInv, NEW n \in NodeID, NEW id \in FloID, UserRead(n, id)
    PROVE  IInv'
<1> USE DEF IInv
<1> DEFINE out == {[type |-> "ReadFlo", from |-> n, to |-> m, id |-> id] :
                     m \in NodeID \ {n}}
<1>1. Sendable(out)
  <2>1. \A m \in NodeID :
           [type |-> "ReadFlo", from |-> n, to |-> m, id |-> id] \in Message
    BY MessageMade
  <2>2. \A m \in out : m.type # "Flos"
    OBVIOUS
  <2> QED BY <2>1, <2>2, OtherKinds
<1>2. PICK sent \in SUBSET out : net' = net \cup sent
  BY Zenon DEF UserRead
<1>3. MessagesOK'
  BY <1>1, <1>2, SentOK
<1>4. NodesOK' /\ ConfigOK' /\ CountersOK'
  BY DEF UserRead, NodesOK, NodeState, ConfigOK, CountersOK
<1> QED BY <1>3, <1>4

LEMMA SyncOK ==
    ASSUME IInv, NEW n \in NodeID, SyncFromNeighbors(n) \/ PropagateFlos(n)
    PROVE  IInv'
<1> USE DEF IInv
<1> DEFINE Ask == {[type |-> "RequestRealmIDs", from |-> n, to |-> m] :
                     m \in NeighboursOf(n)}
           Offer == {[type |-> "AvailableRealmIDs", from |-> n, to |-> m] :
                       m \in NeighboursOf(n)}
<1>1. Sendable(Ask) /\ Sendable(Offer)
  <2>1. \A m \in NeighboursOf(n) : m \in NodeID
    BY DEF NeighboursOf
  <2>2. \A m \in NeighboursOf(n) :
           /\ [type |-> "RequestRealmIDs", from |-> n, to |-> m] \in Message
           /\ [type |-> "AvailableRealmIDs", from |-> n, to |-> m] \in Message
    BY <2>1, MessageMade
  <2>3. \A m \in Ask \cup Offer : m.type # "Flos"
    OBVIOUS
  <2>4. Ask \subseteq Message /\ Offer \subseteq Message
    BY <2>2
  <2> QED BY <2>3, <2>4, OtherKinds
<1>2. \E out : Sendable(out) /\ \E sent \in SUBSET out : net' = net \cup sent
  <2> HIDE DEF Ask, Offer
  <2>1. CASE SyncFromNeighbors(n)
    BY <1>1, <2>1, Zenon DEF SyncFromNeighbors, Ask
  <2>2. CASE PropagateFlos(n)
    BY <1>1, <2>2, Zenon DEF PropagateFlos, Offer
  <2> QED BY <2>1, <2>2
<1>3. MessagesOK'
  BY <1>2, SentOK
<1>4. NodesOK' /\ ConfigOK' /\ CountersOK'
  BY DEF SyncFromNeighbors, PropagateFlos, NodesOK, NodeState, ConfigOK, CountersOK
<1> QED BY <1>3, <1>4

LEMMA SystemRealmOK ==
    ASSUME IInv, NEW n \in NodeID, SystemRealm(n)
    PROVE  IInv'
BY DEF IInv, SystemRealm, NodesOK, NodeState, MessagesOK, ConfigOK, CountersOK

\* A restarted node has what its file holds, or nothing.
LEMMA RestartOK ==
    ASSUME IInv, NEW n \in NodeID, Restart(n) \/ RestartTorn(n)
    PROVE  IInv'
<1> USE DEF IInv
<1>1. Stop(n)
  BY DEF Restart, RestartTorn
<1>2. MessagesOK' /\ ConfigOK'
  BY <1>1 DEF Stop, MessagesOK, ConfigOK
<1>3. CountersOK'
  BY <1>1, NetworkAssumption DEF Stop, CountersOK
<1>4. NodesOK'
  <2>1. CASE Restart(n)
    <3>1. [realm |-> disk[n], disk |-> disk[n]] \in GoodNodes
      BY NodeParts, GoodNodeIn DEF Durable
    <3>2. /\ disk' = disk /\ DOMAIN realm' = NodeID /\ realm'[n] = disk[n]
          /\ \A x \in NodeID \ {n} : realm'[x] = realm[x]
      BY <2>1 DEF Restart, NodesOK
    <3> QED BY <3>1, <3>2 DEF NodesOK, NodeState
  <2>2. CASE RestartTorn(n)
    <3>1. SetNode(n, [realm |-> NoRealm, disk |-> NoRealm])
      BY <2>2 DEF RestartTorn, SetNode
    <3>2. [realm |-> NoRealm, disk |-> NoRealm] \in GoodNodes
      BY GoodNodeIn DEF IsRealm, Durable
    <3> QED BY <3>1, <3>2, SetNodeOK
  <2> QED BY <2>1, <2>2
<1> QED BY <1>2, <1>3, <1>4

----------------------------------------------------------------------------
(***************************************************************************)
(* The handlers of messages.                                               *)
(***************************************************************************)
\* Those that only answer.
LEMMA AnswerOK ==
    ASSUME IInv, NEW m, NEW out, Sendable(out), Reply(m, out),
           UNCHANGED <<realm, disk>>, Unchanged
    PROVE  IInv'
BY ReplyOK, NodesUnchanged, OthersUnchanged DEF IInv

\* Those that change a node.
LEMMA ChangeOK ==
    ASSUME IInv, NEW m, NEW out, Sendable(out), Reply(m, out), Unchanged,
           NEW n \in NodeID, NEW node \in GoodNodes, SetNode(n, node)
    PROVE  IInv'
BY ReplyOK, SetNodeOK, OthersUnchanged DEF IInv

LEMMA NothingSendable == Sendable({})
BY DEF Sendable

LEMMA RequestRealmIDsOK ==
    ASSUME IInv, NEW m \in Message, HandleRequestRealmIDs(m)
    PROVE  IInv'
<1> DEFINE out == {[type |-> "AvailableRealmIDs", from |-> m.to, to |-> m.from] :
                     x \in {realm[m.to]} \ {NoRealm}}
<1>1. [type |-> "AvailableRealmIDs", from |-> m.to, to |-> m.from] \in Message
  BY MessageFields, MessageMade
<1>2. Sendable(out)
  BY <1>1, OtherKinds
<1>3. Reply(m, out) /\ UNCHANGED <<realm, disk>> /\ Unchanged
  BY Zenon DEF HandleRequestRealmIDs
<1> HIDE DEF out
<1> QED BY <1>2, <1>3, AnswerOK

LEMMA AvailableRealmIDsOK ==
    ASSUME IInv, NEW m \in Message, HandleAvailableRealmIDs(m)
    PROVE  IInv'
<1> DEFINE metas == [type |-> "RequestFloMetas", from |-> m.to, to |-> m.from]
           flos  == [type |-> "RequestFlos", from |-> m.to, to |-> m.from,
                     ids |-> {RealmID}]
           out == {r \in {metas, flos} : /\ AcceptsRealm(m.to)
                                         /\ r = flos => realm[m.to] = NoRealm}
<1>1. metas \in Message /\ flos \in Message
  <2>1. m.from \in NodeID /\ m.to \in NodeID /\ {RealmID} \in SUBSET FloID
    BY MessageFields, RealmAssumption
  <2> QED BY <2>1, MessageMade
<1>2. metas.type # "Flos" /\ flos.type # "Flos"
  OBVIOUS
<1>3. Reply(m, out) /\ UNCHANGED <<realm, disk>> /\ Unchanged
  BY Zenon DEF HandleAvailableRealmIDs
<1> HIDE DEF metas, flos
<1>4. Sendable(out)
  BY <1>1, <1>2, OtherKinds
<1> HIDE DEF out
<1> QED BY <1>3, <1>4, AnswerOK

LEMMA RequestFloMetasOK ==
    ASSUME IInv, NEW m \in Message, HandleRequestFloMetas(m)
    PROVE  IInv'
<1> DEFINE S == {realm[n] : n \in {m.to} \ Evil} \ {NoRealm}
           Answer(s) == [type |-> "AvailableFlos", from |-> m.to, to |-> m.from,
                         metas |-> FloMetas(s)]
           out == {Answer(s) : s \in S}
<1>1. m.from \in NodeID /\ m.to \in NodeID
  BY MessageFields
<1>2. ASSUME NEW s \in S PROVE Answer(s) \in Message
  <2>1. Good(s)
    BY <1>1, NodeParts DEF IInv
  <2>2. FloMetas(s) \in SUBSET FloMeta
    BY <2>1, FloMetasType
  <2> QED BY <1>1, <2>2, MessageMade
<1>3. \A s \in S : Answer(s).type # "Flos"
  OBVIOUS
<1>4. Reply(m, out) /\ UNCHANGED <<realm, disk>> /\ Unchanged
  BY Zenon DEF HandleRequestFloMetas
<1> HIDE DEF S, Answer
<1>5. Sendable(out)
  BY <1>2, <1>3, OtherKinds
<1> HIDE DEF out
<1> QED BY <1>4, <1>5, AnswerOK

LEMMA AvailableFlosOK ==
    ASSUME IInv, NEW m \in Message, HandleAvailableFlos(m)
    PROVE  IInv'
<1> DEFINE needed == IF realm[m.to] = NoRealm THEN {}
                     ELSE SyncAvailable(realm[m.to], m.metas)
           Request(ids) == [type |-> "RequestFlos", from |-> m.to, to |-> m.from,
                            ids |-> ids]
           out == {Request(ids) : ids \in {needed} \ {{}}}
<1>1. m.from \in NodeID /\ m.to \in NodeID /\ m.metas \in SUBSET FloMeta
  BY MessageFields DEF HandleAvailableFlos
<1>2. needed \in SUBSET FloID
  BY <1>1, SyncAvailableType
<1>3. Reply(m, out) /\ UNCHANGED <<realm, disk>> /\ Unchanged
  BY Zenon DEF HandleAvailableFlos
<1> HIDE DEF needed
<1>4. Request(needed) \in Message
  BY <1>1, <1>2, MessageMade
<1>5. Request(needed).type # "Flos"
  OBVIOUS
<1> HIDE DEF Request
<1>6. Sendable(out)
  BY <1>4, <1>5, OtherKinds
<1> HIDE DEF out
<1> QED BY <1>3, <1>6, AnswerOK

LEMMA RequestFlosOK ==
    ASSUME IInv, NEW m \in Message, HandleRequestFlos(m)
    PROVE  IInv'
<1> DEFINE found == IF m.to \in Evil THEN {} ELSE GetFloCuckoos(m.to, m.ids)
           Answer(flos) == [type |-> "Flos", from |-> m.to, to |-> m.from,
                            flos |-> flos]
           out == {Answer(flos) : flos \in {found} \ {{}}}
<1>1. m.from \in NodeID /\ m.to \in NodeID
  BY MessageFields
<1>2. found \in SUBSET FloCuckoo /\ IsFiniteSet(found)
  BY <1>1, GetFloCuckoosType, FS_EmptySet DEF IInv
<1>3. Reply(m, out) /\ UNCHANGED <<realm, disk>> /\ Unchanged
  BY Zenon DEF HandleRequestFlos
<1> HIDE DEF found
<1>4. Answer(found) \in Message
  BY <1>1, <1>2, MessageMade
<1>5. Answer(found).flos = found
  OBVIOUS
<1> HIDE DEF Answer
<1>6. Sendable(out)
  BY <1>2, <1>4, <1>5 DEF Sendable
<1> HIDE DEF out
<1> QED BY <1>3, <1>6, AnswerOK

LEMMA FlosOK ==
    ASSUME IInv, NEW m \in net, HandleFlos(m)
    PROVE  IInv'
<1>1. m \in Message /\ m.type = "Flos" /\ IsFiniteSet(m.flos)
  BY DEF IInv, MessagesOK, HandleFlos
<1>2. m.to \in NodeID /\ m.flos \in SUBSET FloCuckoo
  BY <1>1, MessageFields
<1>3. PICK order \in SetToSeqs(m.flos) :
         SetNode(m.to, StoreFloCuckoos(m.to, NodeState(m.to), order))
  BY Zenon DEF HandleFlos
<1>4. order \in Seq(FloCuckoo)
  BY <1>1, <1>2, OrderType
<1>5. StoreFloCuckoos(m.to, NodeState(m.to), order) \in GoodNodes
  BY <1>2, <1>4, StoreFloCuckoosGood DEF IInv, NodesOK
<1>6. Reply(m, {}) /\ Unchanged
  BY DEF HandleFlos
<1> QED BY <1>2, <1>3, <1>5, <1>6, NothingSendable, ChangeOK

LEMMA StoreFloOK ==
    ASSUME IInv, NEW m \in Message, HandleStoreFlo(m)
    PROVE  IInv'
<1>1. m.to \in NodeID /\ m.flo \in Flo
  BY MessageFields DEF HandleStoreFlo
<1>2. NodeState(m.to) \in GoodNodes
  BY <1>1 DEF IInv, NodesOK
<1>3. StoreFlo(m.to, NodeState(m.to), m.flo) \in GoodNodes
  BY <1>1, <1>2, StoreFloGood
<1>4. Sendable(StoreFloOut(m.to, NodeState(m.to), m.flo))
  BY <1>1, StoreFloOutOK
<1>5. /\ SetNode(m.to, StoreFlo(m.to, NodeState(m.to), m.flo))
      /\ Reply(m, StoreFloOut(m.to, NodeState(m.to), m.flo)) /\ Unchanged
  BY DEF HandleStoreFlo
<1> QED BY <1>1, <1>3, <1>4, <1>5, ChangeOK

LEMMA ReadFloOK ==
    ASSUME IInv, NEW m \in Message, HandleReadFlo(m)
    PROVE  IInv'
<1> DEFINE found == {fc \in GetFloCuckoos(m.to, {m.id}) : m.to \notin Evil}
           Answer(fc) == [type |-> "FloValue", from |-> m.to, to |-> m.from, flo |-> fc]
           out == {Answer(fc) : fc \in found}
<1>1. m.from \in NodeID /\ m.to \in NodeID
  BY MessageFields
<1>2. found \subseteq FloCuckoo
  BY <1>1, GetFloCuckoosType DEF IInv
<1>3. Reply(m, out) /\ UNCHANGED <<realm, disk>> /\ Unchanged
  BY Zenon DEF HandleReadFlo
<1> HIDE DEF found
<1>4. \A fc \in found : Answer(fc) \in Message
  BY <1>1, <1>2, MessageMade
<1>5. \A fc \in found : Answer(fc).type # "Flos"
  OBVIOUS
<1> HIDE DEF Answer
<1>6. Sendable(out)
  BY <1>4, <1>5, OtherKinds
<1> HIDE DEF out
<1> QED BY <1>3, <1>6, AnswerOK

LEMMA StoreCuckooIDOK ==
    ASSUME IInv, NEW m \in Message, HandleStoreCuckooID(m)
    PROVE  IInv'
<1>1. m.to \in NodeID /\ m.parent \in FloID /\ m.cuckoo \in FloID
  BY MessageFields DEF HandleStoreCuckooID
<1> DEFINE s == realm[m.to]
           t == IF s = NoRealm THEN NoRealm ELSE StoreCuckooID(s, m.parent, m.cuckoo)
<1>2. /\ IsRealm(s) /\ IsRealm(disk[m.to]) /\ Durable(s, disk[m.to])
      /\ s # NoRealm => Good(s)
  BY <1>1, NodeParts DEF IInv
<1>3. IsRealm(t) /\ Durable(t, disk[m.to])
  <2>1. CASE s = NoRealm
    BY <2>1 DEF IsRealm, Durable
  <2>2. CASE s # NoRealm
    <3>1. t = StoreCuckooIDs(s, m.parent, {m.cuckoo})
      BY <2>2 DEF StoreCuckooID
    <3>2. {m.cuckoo} \in SUBSET FloID
      BY <1>1
    <3> HIDE DEF s, t
    <3> QED BY <1>1, <1>2, <2>2, <3>1, <3>2, CuckoosGood, Zenon
  <2> QED BY <2>1, <2>2
<1>4. /\ realm' = [realm EXCEPT ![m.to] = t] /\ disk' = disk
      /\ Reply(m, {}) /\ Unchanged
  BY DEF HandleStoreCuckooID
<1> HIDE DEF t
<1>5. [realm |-> t, disk |-> disk[m.to]] \in GoodNodes
  BY <1>2, <1>3, GoodNodeIn
<1>6. NodesOK'
  <2>1. NodesOK
    BY DEF IInv
  <2>2. /\ DOMAIN realm' = NodeID /\ DOMAIN disk' = NodeID
        /\ realm'[m.to] = t
        /\ \A x \in NodeID \ {m.to} : realm'[x] = realm[x]
    BY <1>1, <1>4, <2>1 DEF NodesOK
  <2> QED BY <1>4, <1>5, <2>1, <2>2 DEF NodesOK, NodeState
<1> QED BY <1>4, <1>6, NothingSendable, ReplyOK, OthersUnchanged DEF IInv

LEMMA FloValueOK ==
    ASSUME IInv, NEW m \in Message, HandleFloValue(m)
    PROVE  IInv'
<1>1. m.to \in NodeID /\ m.flo \in FloCuckoo
  BY MessageFields DEF HandleFloValue
<1>2. StoreFloCuckoo(m.to, NodeState(m.to), m.flo) \in GoodNodes
  BY <1>1, StoreFloCuckooGood DEF IInv, NodesOK
<1>3. /\ SetNode(m.to, StoreFloCuckoo(m.to, NodeState(m.to), m.flo))
      /\ Reply(m, {}) /\ Unchanged
  BY DEF HandleFloValue
<1> QED BY <1>1, <1>2, <1>3, NothingSendable, ChangeOK

----------------------------------------------------------------------------
LEMMA StutterOK == IInv /\ UNCHANGED vars => IInv'
BY DEF IInv, vars, NodesOK, NodeState, MessagesOK, ConfigOK, CountersOK

LEMMA NextOK == IInv /\ [Next]_vars => IInv'
<1> SUFFICES ASSUME IInv, [Next]_vars PROVE IInv'
  OBVIOUS
<1>1. ASSUME NEW n \in NodeID,
             \/ \E f \in Flo : UserStore(n, f)
             \/ \E id \in FloID : UserRead(n, id)
             \/ SyncFromNeighbors(n) \/ PropagateFlos(n) \/ SystemRealm(n)
             \/ Restart(n) \/ RestartTorn(n)
      PROVE  IInv'
  BY <1>1, UserStoreOK, UserReadOK, SyncOK, SystemRealmOK, RestartOK
<1>2. ASSUME NEW m \in net, Handle(m) PROVE IInv'
  <2>1. m \in Message
    BY DEF IInv, MessagesOK
  <2> QED BY <1>2, <2>1, RequestRealmIDsOK, AvailableRealmIDsOK,
             RequestFloMetasOK, AvailableFlosOK, RequestFlosOK, FlosOK,
             StoreFloOK, ReadFloOK, StoreCuckooIDOK, FloValueOK DEF Handle
<1> QED BY <1>1, <1>2, StutterOK DEF Next

LEMMA SpecIInv == Spec => []IInv
BY InitOK, NextOK, PTL DEF Spec

\* Type correctness: on every node, whatever messages are lost, late or in
\* whatever order the flos of a list come, the index, the running size and the
\* flos of its storage and of its file agree (upsert_flo, store_cuckoo_ids and
\* the handlers of messages.rs), and only messages of the protocol are sent.
THEOREM TypeCorrect == Spec => []TypeOK
<1>1. IInv => TypeOK
  <2> SUFFICES ASSUME IInv PROVE TypeOK
    OBVIOUS
  <2>1. \A n \in NodeID : IsRealm(realm[n]) /\ IsRealm(disk[n])
    BY NodeParts DEF IInv
  <2> QED BY <2>1 DEF IInv, TypeOK, NodesOK, MessagesOK, Message, ConfigOK, CountersOK
<1> QED BY <1>1, SpecIInv, PTL

\* Durability: a flo that any node has stored is in the node's file in the
\* same version (the save in upsert_flo of messages.rs), so that a restart
\* with a file that can be read loses nothing but cuckoo ids.
THEOREM FlosAreDurable == Spec => []StoredIsDurable
<1>1. IInv => StoredIsDurable
  <2> SUFFICES ASSUME IInv PROVE StoredIsDurable
    OBVIOUS
  <2>1. \A n \in NodeID : Durable(realm[n], disk[n])
    BY NodeParts DEF IInv
  <2> QED BY <2>1 DEF StoredIsDurable, Durable
<1> QED BY <1>1, SpecIInv, PTL

----------------------------------------------------------------------------
(***************************************************************************)
(* With room for everything, the storages implement FloReplicas.           *)
(*                                                                         *)
(* What has to be carried along besides IInv: every version on its way, in *)
(* a storage or in a file was published, and no storage is without the     *)
(* realm's own flo.                                                        *)
(***************************************************************************)
\* No storage can be larger than max_space, and NoRealm is none of them.
RoomForAll ==
    /\ NoRealm \notin Version \cup Storage
    /\ \A s \in Storage : Good(s) => s.size <= MaxSpace

CopyOf(s) ==
    [id \in FloID |-> IF s # NoRealm /\ id \in Stored(s)
                      THEN s.flos[id].version ELSE NoRealm]

\* Every version s holds is in pub, and s holds the realm's flo.
PublishedIn(s, pub) ==
    s # NoRealm =>
        /\ RealmID \in Stored(s)
        /\ \A id \in Stored(s) : [id |-> id, version |-> s.flos[id].version] \in pub

\* t holds what s does, or newer versions from pub.
Grows(s, t, pub) ==
    \A id \in FloID :
        \/ CopyOf(t)[id] = CopyOf(s)[id]
        \/ /\ [id |-> id, version |-> CopyOf(t)[id]] \in pub
           /\ CopyOf(t)[id] \in Version
           /\ CopyOf(s)[id] # NoRealm => CopyOf(s)[id] < CopyOf(t)[id]

NodePublished(node, pub) == PublishedIn(node.realm, pub) /\ PublishedIn(node.disk, pub)

LEMMA RoomFits == RoomForAll => \A t : Good(t) => t.size <= MaxSpace /\ t # NoRealm
BY StorageIn DEF RoomForAll

LEMMA CopyType ==
    ASSUME NEW s, IsRealm(s)
    PROVE  \A id \in FloID : CopyOf(s)[id] \in Version \cup {NoRealm}
<1>1. ASSUME s # NoRealm, NEW id \in Stored(s) PROVE s.flos[id].version \in Version
  <2>1. s.flos[id] \in FloStorage
    BY <1>1 DEF IsRealm, IsStorage
  <2> QED BY <2>1 DEF FloStorage
<1> QED BY <1>1 DEF CopyOf

LEMMA GrowsItself == ASSUME NEW s, NEW pub PROVE Grows(s, s, pub)
BY DEF Grows

LEMMA GrowsFurther ==
    ASSUME RoomForAll, NEW s, NEW t, NEW u, NEW pub,
           IsRealm(s), IsRealm(t), IsRealm(u),
           Grows(s, t, pub), Grows(t, u, pub)
    PROVE  Grows(s, u, pub)
<1> SUFFICES ASSUME NEW id \in FloID
             PROVE  \/ CopyOf(u)[id] = CopyOf(s)[id]
                    \/ /\ [id |-> id, version |-> CopyOf(u)[id]] \in pub
                       /\ CopyOf(u)[id] \in Version
                       /\ CopyOf(s)[id] # NoRealm => CopyOf(s)[id] < CopyOf(u)[id]
  BY DEF Grows
<1> DEFINE a == CopyOf(s)[id]
           b == CopyOf(t)[id]
           c == CopyOf(u)[id]
<1>1. /\ a \in Version \cup {NoRealm}
      /\ b \in Version \cup {NoRealm}
      /\ c \in Version \cup {NoRealm}
  BY CopyType
<1>2. Version \subseteq Nat /\ NoRealm \notin Version
  BY VersionAssumption DEF RoomForAll
<1>3. \/ b = a
      \/ /\ [id |-> id, version |-> b] \in pub /\ b \in Version
         /\ a # NoRealm => a < b
  BY DEF Grows
<1>4. \/ c = b
      \/ /\ [id |-> id, version |-> c] \in pub /\ c \in Version
         /\ b # NoRealm => b < c
  BY DEF Grows
<1> HIDE DEF a, b, c
<1>5. CASE b = a
  BY <1>4, <1>5 DEF a, b, c
<1>6. CASE c = b
  BY <1>3, <1>6 DEF a, b, c
<1>7. CASE b # a /\ c # b
  <2>1. b \in Version /\ c \in Version /\ [id |-> id, version |-> c] \in pub
    BY <1>3, <1>4, <1>7
  <2>2. b # NoRealm /\ b < c
    BY <1>2, <1>4, <1>7, <2>1
  <2>3. a # NoRealm => a < c
    BY <1>1, <1>2, <1>3, <1>7, <2>1, <2>2
  <2> QED BY <2>1, <2>3 DEF a, c
<1> QED BY <1>5, <1>6, <1>7

\* store_flo on one node.
LEMMA StoreFloGrows ==
    ASSUME RoomForAll, NEW n \in NodeID, NEW node \in GoodNodes, NEW f \in Flo,
           NEW pub, f \in pub, NodePublished(node, pub)
    PROVE  LET x == StoreFlo(n, node, f)
           IN  NodePublished(x, pub) /\ Grows(node.realm, x.realm, pub)
<1> DEFINE s == node.realm
           t == UpsertAt(n, s, f)
           x == StoreFlo(n, node, f)
<1>0. /\ f = [id |-> f.id, version |-> f.version]
      /\ f.id \in FloID /\ f.version \in Version
  BY DEF Flo
<1>1. x.realm = t /\ x.disk \in {t, node.disk}
  BY DEF StoreFlo
<1>2. IsRealm(s) /\ PublishedIn(s, pub)
  BY DEF GoodNodes, NodeGood, NodePublished
<1>3. PublishedIn(t, pub) /\ Grows(s, t, pub)
  <2>1. CASE s # NoRealm
    <3>1. t = UpsertFlo(s, f) /\ Good(s)
      BY <1>2, <2>1, RealmIsGood DEF UpsertAt
    <3>2. \A r : Good(r) => r.size <= MaxSpace
      BY RoomFits
    <3>3. /\ Stored(s) \subseteq Stored(t)
          /\ \A i \in Stored(t) :
                \/ i \in Stored(s) /\ t.flos[i].version = s.flos[i].version
                \/ /\ i = f.id /\ t.flos[i].version = f.version
                   /\ i \in Stored(s) => s.flos[i].version < f.version
      <4> DEFINE u == UpsertFlo(s, f)
      <4> HIDE DEF s
      <4>1. /\ Stored(s) \subseteq Stored(u)
            /\ \A i \in Stored(u) :
                  \/ i \in Stored(s) /\ u.flos[i].version = s.flos[i].version
                  \/ /\ i = f.id /\ u.flos[i].version = f.version
                     /\ i \in Stored(s) => s.flos[i].version < f.version
        BY <3>1, <3>2, UpsertPuts
      <4> HIDE DEF u, t
      <4>2. t = u
        BY <3>1 DEF u
      <4> QED BY <4>1, <4>2
    <3>4. Good(t) /\ t # NoRealm
      <4>1. Good(t)
        <5> HIDE DEF s, t
        <5> QED BY <3>1, UpsertGood, Zenon
      <4> QED BY <4>1, RoomFits
    <3> HIDE DEF s, t
    <3>5. PublishedIn(t, pub)
      BY <1>0, <1>2, <2>1, <3>3 DEF PublishedIn
    <3>6. Grows(s, t, pub)
      <4> SUFFICES ASSUME NEW id \in FloID, CopyOf(t)[id] # CopyOf(s)[id]
                   PROVE  /\ [id |-> id, version |-> CopyOf(t)[id]] \in pub
                          /\ CopyOf(t)[id] \in Version
                          /\ CopyOf(s)[id] # NoRealm => CopyOf(s)[id] < CopyOf(t)[id]
        BY DEF Grows
      <4>1. id \in Stored(t) /\ CopyOf(t)[id] = t.flos[id].version
        BY <2>1, <3>3, <3>4 DEF CopyOf
      <4>2. CopyOf(s)[id] = IF id \in Stored(s) THEN s.flos[id].version ELSE NoRealm
        BY <2>1 DEF CopyOf
      <4>3. /\ id = f.id /\ t.flos[id].version = f.version
            /\ id \in Stored(s) => s.flos[id].version < f.version
        BY <3>3, <4>1, <4>2
      <4> QED BY <1>0, <4>1, <4>2, <4>3
    <3> QED BY <3>5, <3>6
  <2>2. CASE s = NoRealm /\ CreatesRealm(n, f)
    <3>1. t = NewStorage(n, f.version) /\ f.id = RealmID
      BY <2>2 DEF UpsertAt, CreatesRealm
    <3>2. Stored(t) = {RealmID} /\ t.flos[RealmID].version = f.version
      <4> HIDE DEF t
      <4> QED BY <1>0, <3>1, NewStorageGood, Zenon
    <3> HIDE DEF s, t
    <3>3. PublishedIn(t, pub)
      BY <1>0, <3>1, <3>2 DEF PublishedIn
    <3>4. Grows(s, t, pub)
      <4>1. \A id \in FloID : CopyOf(s)[id] = NoRealm
        BY <2>2 DEF CopyOf
      <4>2. \A id \in FloID : id # RealmID => CopyOf(t)[id] = NoRealm
        BY <3>2 DEF CopyOf
      <4>3. CopyOf(t)[RealmID] \in {f.version, NoRealm}
        BY <3>2, RealmAssumption DEF CopyOf
      <4> QED BY <1>0, <3>1, <4>1, <4>2, <4>3 DEF Grows
    <3> QED BY <3>3, <3>4
  <2>3. CASE s = NoRealm /\ ~CreatesRealm(n, f)
    <3>1. t = s
      BY <2>3 DEF UpsertAt
    <3> HIDE DEF s, t
    <3> QED BY <1>2, <3>1, GrowsItself
  <2> QED BY <2>1, <2>2, <2>3
<1>4. PublishedIn(node.disk, pub)
  BY DEF NodePublished
<1> HIDE DEF s, t, x
<1>5. NodePublished(x, pub)
  BY <1>1, <1>3, <1>4 DEF NodePublished
<1> QED BY <1>1, <1>3, <1>5 DEF s, x

\* Cuckoo ids change no copy.
LEMMA CuckoosCopy ==
    ASSUME RoomForAll, NEW s, Good(s), s # NoRealm, NEW pub, PublishedIn(s, pub),
           NEW p \in FloID, NEW cs \in SUBSET FloID
    PROVE  LET t == StoreCuckooIDs(s, p, cs)
           IN  PublishedIn(t, pub) /\ CopyOf(t) = CopyOf(s)
<1> DEFINE t == StoreCuckooIDs(s, p, cs)
<1>1. /\ Good(t)
      /\ Stored(t) = Stored(s)
      /\ \A i \in Stored(s) : t.flos[i].version = s.flos[i].version
  BY StoreCuckoosGood, Zenon
<1>2. t # NoRealm
  BY <1>1, RoomFits
<1> HIDE DEF t
<1> QED BY <1>1, <1>2 DEF PublishedIn, CopyOf, t

LEMMA StoreFloCuckooGrows ==
    ASSUME RoomForAll, NEW n \in NodeID, NEW node \in GoodNodes,
           NEW fc \in FloCuckoo, NEW pub,
           [id |-> fc.id, version |-> fc.version] \in pub, NodePublished(node, pub)
    PROVE  LET x == StoreFloCuckoo(n, node, fc)
           IN  NodePublished(x, pub) /\ Grows(node.realm, x.realm, pub)
<1> DEFINE f == [id |-> fc.id, version |-> fc.version]
           x == StoreFlo(n, node, f)
           y == StoreFloCuckoo(n, node, fc)
<1>1. f \in Flo /\ fc.id \in FloID /\ fc.cuckoos \in SUBSET FloID
  BY DEF FloCuckoo, Flo
<1>2. x \in GoodNodes /\ NodePublished(x, pub) /\ Grows(node.realm, x.realm, pub)
  <2>1. x \in GoodNodes
    BY <1>1, StoreFloGood
  <2>2. NodePublished(x, pub) /\ Grows(node.realm, x.realm, pub)
    <3> HIDE DEF f
    <3>1. f \in pub
      BY DEF f
    <3> QED BY <1>1, <3>1, StoreFloGrows, Zenon
  <2> QED BY <2>1, <2>2
<1>3. y = IF x.realm = NoRealm THEN x
          ELSE [x EXCEPT !.realm = StoreCuckooIDs(x.realm, fc.id, fc.cuckoos)]
  BY Zenon DEF StoreFloCuckoo
<1> HIDE DEF x, f, y
<1>4. CASE x.realm = NoRealm
  BY <1>2, <1>3, <1>4 DEF y
<1>5. CASE x.realm # NoRealm
  <2>1. /\ x = [realm |-> x.realm, disk |-> x.disk]
        /\ IsRealm(x.realm)
    BY <1>2 DEF GoodNodes, NodeGood
  <2> DEFINE t == StoreCuckooIDs(x.realm, fc.id, fc.cuckoos)
  <2>2. y.realm = t /\ y.disk = x.disk
    BY <1>3, <1>5, <2>1
  <2>3. Good(x.realm)
    BY <1>5, <2>1, RealmIsGood
  <2>4. PublishedIn(t, pub) /\ CopyOf(t) = CopyOf(x.realm)
    BY <1>1, <1>2, <1>5, <2>3, CuckoosCopy, Zenon DEF NodePublished
  <2> HIDE DEF t
  <2>5. NodePublished(y, pub)
    BY <1>2, <2>2, <2>4 DEF NodePublished
  <2>6. Grows(node.realm, y.realm, pub)
    BY <1>2, <2>2, <2>4 DEF Grows
  <2> QED BY <2>5, <2>6 DEF y
<1> QED BY <1>4, <1>5

LEMMA StoreFloCuckoosGrows ==
    ASSUME RoomForAll, NEW n \in NodeID, NEW node \in GoodNodes,
           NEW list \in Seq(FloCuckoo), NEW pub, NodePublished(node, pub),
           \A i \in 1..Len(list) :
              [id |-> list[i].id, version |-> list[i].version] \in pub
    PROVE  LET x == StoreFloCuckoos(n, node, list)
           IN  NodePublished(x, pub) /\ Grows(node.realm, x.realm, pub)
<1>1. PICK run : /\ IsRunOf(run, n, node, list)
                 /\ \A i \in 0..Len(list) : run[i] \in GoodNodes
                 /\ StoreFloCuckoos(n, node, list) = run[Len(list)]
  BY StoreFloCuckoosRun
<1> DEFINE len == Len(list)
           Fine(x) == NodePublished(x, pub) /\ Grows(node.realm, x.realm, pub)
           P == {i \in 0..len : Fine(run[i])}
<1>2. len \in Nat /\ \A i \in 1..len : list[i] \in FloCuckoo
  OBVIOUS
<1>3. /\ run[0] = node
      /\ \A i \in 1..len : run[i] = StoreFloCuckoo(n, run[i - 1], list[i])
      /\ \A i \in 0..len : run[i] \in GoodNodes
  BY <1>1 DEF IsRunOf
<1>4. \A i \in 1..len : [id |-> list[i].id, version |-> list[i].version] \in pub
  OBVIOUS
<1> HIDE DEF len
<1>5. 0 \in P
  BY <1>2, <1>3, GrowsItself
<1>6. ASSUME NEW i \in 1..len, i - 1 \in P PROVE i \in P
  <2> DEFINE x == run[i - 1]
             y == StoreFloCuckoo(n, x, list[i])
  <2>1. x \in GoodNodes /\ run[i] = y /\ y \in GoodNodes
    <3>1. i - 1 \in 0..len /\ i \in 0..len
      BY <1>2
    <3> QED BY <1>3, <3>1
  <2>2. NodePublished(x, pub) /\ Grows(node.realm, x.realm, pub)
    BY <1>6
  <2>3. list[i] \in FloCuckoo /\ [id |-> list[i].id, version |-> list[i].version] \in pub
    BY <1>2, <1>4
  <2> HIDE DEF x
  <2>4. NodePublished(y, pub) /\ Grows(x.realm, y.realm, pub)
    BY <2>1, <2>2, <2>3, StoreFloCuckooGrows
  <2> HIDE DEF y
  <2>5. IsRealm(node.realm) /\ IsRealm(x.realm) /\ IsRealm(y.realm)
    BY <2>1 DEF GoodNodes, NodeGood
  <2>6. Grows(node.realm, y.realm, pub)
    BY <2>2, <2>4, <2>5, GrowsFurther
  <2> QED BY <1>2, <2>1, <2>4, <2>6
<1>7. 0..len \subseteq P
  <2> HIDE DEF P
  <2> QED BY <1>2, <1>5, <1>6, IntervalInduction
<1>8. Fine(run[len])
  BY <1>2, <1>7
<1>9. StoreFloCuckoos(n, node, list) = run[len]
  BY <1>1 DEF len
<1> QED BY <1>8, <1>9

----------------------------------------------------------------------------
MessagePublished(m, pub) ==
    /\ m.type = "StoreFlo" => m.flo \in pub
    /\ m.type = "FloValue" => [id |-> m.flo.id, version |-> m.flo.version] \in pub
    /\ m.type = "Flos" =>
          \A fc \in m.flos : [id |-> fc.id, version |-> fc.version] \in pub

NetPublished == \A m \in net : MessagePublished(m, published)

NodesPublished == \A n \in NodeID : NodePublished(NodeState(n), published)

JInv == RoomForAll /\ IInv /\ NodesPublished /\ NetPublished

AbstractStep == Replicas!Next \/ UNCHANGED <<published, Copies>>

LEMMA PublishedMore ==
    ASSUME NEW pub, NEW more, pub \subseteq more
    PROVE  /\ \A m : MessagePublished(m, pub) => MessagePublished(m, more)
           /\ \A node : NodePublished(node, pub) => NodePublished(node, more)
BY DEF MessagePublished, NodePublished, PublishedIn

LEMMA CopiesAre == Copies = [n \in NodeID |-> CopyOf(realm[n])]
BY DEF Copies, CopyOf

\* What one node does is a step of FloReplicas.
LEMMA NodeStep ==
    ASSUME JInv, IInv', NEW n \in NodeID,
           \A x \in NodeID \ {n} : realm'[x] = realm[x] /\ disk'[x] = disk[x],
           NodePublished([realm |-> realm'[n], disk |-> disk'[n]], published'),
           Grows(realm[n], realm'[n], published') \/ realm'[n] = NoRealm,
           \/ published' = published
           \/ \E f \in Flo : published' = published \cup {f}
    PROVE  NodesPublished' /\ AbstractStep
<1> DEFINE next == CopyOf(realm'[n])
<1>1. NodesPublished'
  <2>1. \A x \in NodeID : NodePublished(NodeState(x), published')
    BY PublishedMore DEF JInv, NodesPublished
  <2> QED BY <2>1 DEF NodesPublished, NodeState, NodePublished
<1>2. IsRealm(realm'[n])
  BY DEF IInv, NodesOK, NodeState, GoodNodes, NodeGood
<1>3. next \in [FloID -> Version \cup {NoRealm}]
  <2>1. \A id \in FloID : next[id] \in Version \cup {NoRealm}
    BY <1>2, CopyType
  <2> QED BY <2>1 DEF CopyOf
<1>4. Copies[n] = CopyOf(realm[n]) /\ Copies' = [Copies EXCEPT ![n] = next]
  <2>1. Copies' = [x \in NodeID |-> CopyOf(realm'[x])]
    BY DEF Copies, CopyOf
  <2>2. Copies = [x \in NodeID |-> CopyOf(realm[x])]
    BY CopiesAre
  <2> HIDE DEF next
  <2>3. \A x \in NodeID : CopyOf(realm'[x]) = IF x = n THEN next ELSE CopyOf(realm[x])
    BY DEF next
  <2> QED BY <2>1, <2>2, <2>3
<1>5. Replicas!MayHold(Copies[n], published', next)
  <2>1. \A id \in FloID :
           \/ next[id] \in {NoRealm, CopyOf(realm[n])[id]}
           \/ /\ [id |-> id, version |-> next[id]] \in published'
              /\ CopyOf(realm[n])[id] # NoRealm => CopyOf(realm[n])[id] < next[id]
    <3>1. CASE Grows(realm[n], realm'[n], published')
      BY <3>1 DEF Grows
    <3>2. CASE realm'[n] = NoRealm
      BY <3>2 DEF CopyOf
    <3> QED BY <3>1, <3>2
  <2>2. next[RealmID] = NoRealm => \A id \in FloID : next[id] = NoRealm
    <3>1. CASE realm'[n] = NoRealm
      BY <3>1 DEF CopyOf
    <3>2. CASE realm'[n] # NoRealm
      <4>1. RealmID \in Stored(realm'[n])
        BY <3>2 DEF NodePublished, PublishedIn
      <4>2. realm'[n].flos[RealmID] \in FloStorage
        BY <1>2, <3>2, <4>1 DEF IsRealm, IsStorage
      <4>3. realm'[n].flos[RealmID].version \in Version
        BY <4>2 DEF FloStorage
      <4>4. next[RealmID] # NoRealm
        BY <3>2, <4>1, <4>3, RealmAssumption DEF CopyOf, JInv, RoomForAll
      <4> QED BY <4>4
    <3> QED BY <3>1, <3>2
  <2> HIDE DEF next
  <2> QED BY <1>4, <2>1, <2>2 DEF Replicas!MayHold
<1> HIDE DEF next
<1>6. CASE published' = published
  <2>1. Replicas!Replicate(n)
    BY <1>3, <1>4, <1>5, <1>6 DEF Replicas!Replicate
  <2> QED BY <1>1, <2>1 DEF AbstractStep, Replicas!Next
<1>7. ASSUME NEW f \in Flo, published' = published \cup {f}
      PROVE  NodesPublished' /\ AbstractStep
  <2>1. Replicas!Publish(n, f)
    BY <1>3, <1>4, <1>5, <1>7 DEF Replicas!Publish
  <2> QED BY <1>1, <2>1 DEF AbstractStep, Replicas!Next, Flo
<1> QED BY <1>6, <1>7

\* A handler that sets one node and publishes nothing.
LEMMA SetNodeStep ==
    ASSUME JInv, IInv', NEW n \in NodeID, NEW node, SetNode(n, node),
           NodePublished(node, published), Grows(realm[n], node.realm, published),
           published' = published
    PROVE  NodesPublished' /\ AbstractStep
<1>1. /\ realm'[n] = node.realm /\ disk'[n] = node.disk
      /\ \A x \in NodeID \ {n} : realm'[x] = realm[x] /\ disk'[x] = disk[x]
  BY DEF SetNode, JInv, IInv, NodesOK
<1>2. NodePublished([realm |-> realm'[n], disk |-> disk'[n]], published')
  BY <1>1 DEF NodePublished
<1>3. Grows(realm[n], realm'[n], published')
  BY <1>1
<1> QED BY <1>1, <1>2, <1>3, NodeStep

LEMMA NoStep ==
    ASSUME JInv, UNCHANGED <<realm, disk, published>>
    PROVE  NodesPublished' /\ AbstractStep
<1>1. NodesPublished'
  BY DEF JInv, NodesPublished, NodeState
<1>2. UNCHANGED <<published, Copies>>
  BY DEF Copies
<1> QED BY <1>1, <1>2 DEF AbstractStep

\* What is sent was published.
AllPublished(out, pub) == \A m \in out : MessagePublished(m, pub)

LEMMA NetStep ==
    ASSUME NetPublished, published \subseteq published', NEW out,
           AllPublished(out, published'), net' \subseteq net \cup out
    PROVE  NetPublished'
<1>1. \A m \in net : MessagePublished(m, published')
  BY PublishedMore DEF NetPublished
<1>2. \A m \in net' : MessagePublished(m, published')
  BY <1>1 DEF AllPublished
<1> QED BY <1>2 DEF NetPublished, MessagePublished

LEMMA ReplyPublished ==
    ASSUME NetPublished, published' = published, NEW m, NEW out,
           AllPublished(out, published), Reply(m, out)
    PROVE  NetPublished'
<1>1. PICK sent \in SUBSET out : net' = (net \ {m}) \cup sent
  BY Zenon DEF Reply
<1> QED BY <1>1, NetStep

LEMMA StoreFloOutPublished ==
    ASSUME NEW n, NEW node, NEW f \in Flo, NEW pub, f \in pub
    PROVE  AllPublished(StoreFloOut(n, node, f), pub)
<1>1. f = [id |-> f.id, version |-> f.version]
  BY DEF Flo
<1>2. \A m \in StoreFloOut(n, node, f) :
         \/ m.type = "StoreFlo" /\ m.flo = f
         \/ m.type = "StoreCuckooID"
  BY <1>1 DEF StoreFloOut
<1> QED BY <1>2 DEF AllPublished, MessagePublished

LEMMA GetFloCuckoosPublished ==
    ASSUME JInv, NEW n \in NodeID, NEW ids
    PROVE  \A fc \in GetFloCuckoos(n, ids) :
              [id |-> fc.id, version |-> fc.version] \in published
<1>1. PublishedIn(realm[n], published)
  BY DEF JInv, NodesPublished, NodePublished, NodeState
<1> QED BY <1>1 DEF GetFloCuckoos, PublishedIn

----------------------------------------------------------------------------
LEMMA UserStoreSim ==
    ASSUME JInv, IInv', NEW n \in NodeID, NEW f \in Flo, UserStore(n, f)
    PROVE  NodesPublished' /\ NetPublished' /\ AbstractStep
<1> DEFINE node == NodeState(n)
           x == StoreFlo(n, node, f)
<1>1. /\ published' = published \cup {f} /\ SetNode(n, x)
      /\ \E sent \in SUBSET StoreFloOut(n, node, f) : net' = net \cup sent
  BY Zenon DEF UserStore
<1>2. /\ node \in GoodNodes /\ node.realm = realm[n]
      /\ NodePublished(node, published')
  BY <1>1, PublishedMore DEF JInv, IInv, NodesOK, NodesPublished, NodeState
<1> HIDE DEF node
<1>3. NodePublished(x, published') /\ Grows(realm[n], x.realm, published')
  <2>1. f \in published' /\ RoomForAll
    BY <1>1 DEF JInv
  <2> DEFINE pub == published'
  <2>2. NodePublished(x, pub) /\ Grows(node.realm, x.realm, pub)
    <3> HIDE DEF pub
    <3>1. f \in pub /\ NodePublished(node, pub)
      BY <1>2, <2>1 DEF pub
    <3> QED BY <1>2, <2>1, <3>1, StoreFloGrows
  <2> QED BY <1>2, <2>2
<1> HIDE DEF x
<1>4. /\ realm'[n] = x.realm /\ disk'[n] = x.disk
      /\ \A y \in NodeID \ {n} : realm'[y] = realm[y] /\ disk'[y] = disk[y]
  BY <1>1 DEF SetNode, JInv, IInv, NodesOK
<1>5. /\ NodePublished([realm |-> realm'[n], disk |-> disk'[n]], published')
      /\ Grows(realm[n], realm'[n], published')
  BY <1>3, <1>4 DEF NodePublished
<1>6. NodesPublished' /\ AbstractStep
  BY <1>1, <1>4, <1>5, NodeStep
<1>7. NetPublished'
  <2>1. AllPublished(StoreFloOut(n, node, f), published')
    BY <1>1, StoreFloOutPublished
  <2> QED BY <1>1, <2>1, NetStep DEF JInv
<1> QED BY <1>6, <1>7

\* A node that restarts has its file, or nothing.
LEMMA RestartSim ==
    ASSUME JInv, IInv', NEW n \in NodeID, Restart(n) \/ RestartTorn(n)
    PROVE  NodesPublished' /\ NetPublished' /\ AbstractStep
<1>1. /\ published' = published /\ net' \subseteq net
      /\ DOMAIN realm = NodeID /\ DOMAIN disk = NodeID
  BY DEF Restart, RestartTorn, Stop, JInv, IInv, NodesOK
<1>2. NetPublished'
  <2>1. AllPublished({}, published')
    BY DEF AllPublished
  <2> QED BY <1>1, <2>1, NetStep DEF JInv
<1>3. NodePublished(NodeState(n), published)
  BY DEF JInv, NodesPublished
<1>4. CASE Restart(n)
  <2>1. /\ realm'[n] = disk[n] /\ disk' = disk
        /\ \A x \in NodeID \ {n} : realm'[x] = realm[x]
    BY <1>1, <1>4 DEF Restart
  <2>2. PublishedIn(disk[n], published) /\ Durable(realm[n], disk[n])
        /\ IsRealm(disk[n])
    BY <1>3, NodeParts DEF NodePublished, NodeState, JInv, IInv
  <2>3. Grows(realm[n], disk[n], published)
    <3> SUFFICES ASSUME NEW id \in FloID, CopyOf(disk[n])[id] # CopyOf(realm[n])[id]
                 PROVE  /\ [id |-> id, version |-> CopyOf(disk[n])[id]] \in published
                        /\ CopyOf(disk[n])[id] \in Version
                        /\ CopyOf(realm[n])[id] = NoRealm
      BY DEF Grows
    <3>1. ~(realm[n] # NoRealm /\ id \in Stored(realm[n]))
      BY <2>2 DEF Durable, CopyOf
    <3>2. CopyOf(realm[n])[id] = NoRealm
      BY <3>1 DEF CopyOf
    <3>3. disk[n] # NoRealm /\ id \in Stored(disk[n])
          /\ CopyOf(disk[n])[id] = disk[n].flos[id].version
      BY <3>2 DEF CopyOf
    <3>4. CopyOf(disk[n])[id] \in Version
      BY <2>2, <3>2, CopyType
    <3> QED BY <2>2, <3>2, <3>3, <3>4 DEF PublishedIn
  <2>4. NodePublished([realm |-> realm'[n], disk |-> disk'[n]], published')
    BY <1>1, <2>1, <2>2 DEF NodePublished
  <2> QED BY <1>1, <1>2, <2>1, <2>3, <2>4, NodeStep
<1>5. CASE RestartTorn(n)
  <2>1. /\ realm'[n] = NoRealm /\ disk'[n] = NoRealm
        /\ \A x \in NodeID \ {n} : realm'[x] = realm[x] /\ disk'[x] = disk[x]
    BY <1>1, <1>5 DEF RestartTorn
  <2>2. NodePublished([realm |-> realm'[n], disk |-> disk'[n]], published')
    BY <2>1 DEF NodePublished, PublishedIn
  <2> QED BY <1>1, <1>2, <2>1, <2>2, NodeStep
<1> QED BY <1>4, <1>5

\* Handlers that answer without flos, and users and timers that only ask.
LEMMA AskSim ==
    ASSUME JInv, UNCHANGED <<realm, disk, published>>, NEW out,
           \A m \in out : m.type \notin {"StoreFlo", "FloValue", "Flos"},
           net' \subseteq net \cup out
    PROVE  NodesPublished' /\ NetPublished' /\ AbstractStep
<1>1. AllPublished(out, published')
  BY DEF AllPublished, MessagePublished
<1> QED BY <1>1, NetStep, NoStep DEF JInv

LEMMA ReplyWithin == ASSUME NEW m, NEW out, Reply(m, out) PROVE net' \subseteq net \cup out
BY DEF Reply

LEMMA AskingSim ==
    ASSUME JInv, NEW m,
           \/ HandleRequestRealmIDs(m) \/ HandleAvailableRealmIDs(m)
           \/ HandleRequestFloMetas(m) \/ HandleAvailableFlos(m)
    PROVE  NodesPublished' /\ NetPublished' /\ AbstractStep
<1>0. UNCHANGED <<realm, disk, published>>
  BY DEF HandleRequestRealmIDs, HandleAvailableRealmIDs,
         HandleRequestFloMetas, HandleAvailableFlos, Unchanged
<1> DEFINE Kinds == {"StoreFlo", "FloValue", "Flos"}
           Asking(out) == \A r \in out : r.type \notin Kinds
<1> SUFFICES \E out : Reply(m, out) /\ Asking(out)
  BY <1>0, AskSim, ReplyWithin
<1>2. CASE HandleRequestRealmIDs(m)
  <2> DEFINE out == {[type |-> "AvailableRealmIDs", from |-> m.to, to |-> m.from] :
                       x \in {realm[m.to]} \ {NoRealm}}
  <2>1. Reply(m, out)
    BY <1>2, Zenon DEF HandleRequestRealmIDs
  <2>2. Asking(out)
    OBVIOUS
  <2> HIDE DEF out, Asking
  <2> QED BY <2>1, <2>2
<1>3. CASE HandleAvailableRealmIDs(m)
  <2> DEFINE metas == [type |-> "RequestFloMetas", from |-> m.to, to |-> m.from]
             flos  == [type |-> "RequestFlos", from |-> m.to, to |-> m.from,
                       ids |-> {RealmID}]
             out == {r \in {metas, flos} : /\ AcceptsRealm(m.to)
                                           /\ r = flos => realm[m.to] = NoRealm}
  <2>1. Reply(m, out)
    BY <1>3, Zenon DEF HandleAvailableRealmIDs
  <2>2. Asking(out)
    <3>1. metas.type \notin Kinds /\ flos.type \notin Kinds
      OBVIOUS
    <3> HIDE DEF metas, flos, Kinds
    <3> QED BY <3>1
  <2> HIDE DEF out, Asking
  <2> QED BY <2>1, <2>2
<1>4. CASE HandleRequestFloMetas(m)
  <2> DEFINE out == {[type |-> "AvailableFlos", from |-> m.to, to |-> m.from,
                      metas |-> FloMetas(s)] :
                       s \in {realm[n] : n \in {m.to} \ Evil} \ {NoRealm}}
  <2>1. Reply(m, out)
    BY <1>4, Zenon DEF HandleRequestFloMetas
  <2>2. Asking(out)
    OBVIOUS
  <2> HIDE DEF out, Asking
  <2> QED BY <2>1, <2>2
<1>5. CASE HandleAvailableFlos(m)
  <2> DEFINE needed == IF realm[m.to] = NoRealm THEN {}
                       ELSE SyncAvailable(realm[m.to], m.metas)
             out == {[type |-> "RequestFlos", from |-> m.to, to |-> m.from,
                      ids |-> ids] : ids \in {needed} \ {{}}}
  <2>1. Reply(m, out)
    BY <1>5, Zenon DEF HandleAvailableFlos
  <2> HIDE DEF needed
  <2>2. Asking(out)
    OBVIOUS
  <2> HIDE DEF out, Asking
  <2> QED BY <2>1, <2>2
<1> QED BY <1>2, <1>3, <1>4, <1>5

LEMMA ReadingSim ==
    ASSUME JInv, NEW m \in net, HandleRequestFlos(m) \/ HandleReadFlo(m)
    PROVE  NodesPublished' /\ NetPublished' /\ AbstractStep
<1>1. m.to \in NodeID
  BY MessageFields DEF JInv, IInv, MessagesOK
<1>2. \A ids : \A fc \in GetFloCuckoos(m.to, ids) :
         [id |-> fc.id, version |-> fc.version] \in published
  BY <1>1, GetFloCuckoosPublished
<1>3. UNCHANGED <<realm, disk, published>>
  BY DEF HandleRequestFlos, HandleReadFlo, Unchanged
<1>4. \E out : Reply(m, out) /\ AllPublished(out, published)
  <2>1. CASE HandleRequestFlos(m)
    <3> DEFINE found == IF m.to \in Evil THEN {} ELSE GetFloCuckoos(m.to, m.ids)
               Answer(flos) == [type |-> "Flos", from |-> m.to, to |-> m.from,
                                flos |-> flos]
               out == {Answer(flos) : flos \in {found} \ {{}}}
    <3>1. Reply(m, out)
      BY <2>1, Zenon DEF HandleRequestFlos
    <3>2. \A fc \in found : [id |-> fc.id, version |-> fc.version] \in published
      BY <1>2
    <3> HIDE DEF found
    <3>3. Answer(found).flos = found /\ Answer(found).type = "Flos"
      OBVIOUS
    <3> HIDE DEF Answer
    <3>4. MessagePublished(Answer(found), published)
      BY <3>2, <3>3 DEF MessagePublished
    <3>5. AllPublished(out, published)
      BY <3>4 DEF AllPublished
    <3> HIDE DEF out
    <3> QED BY <3>1, <3>5
  <2>2. CASE HandleReadFlo(m)
    <3> DEFINE found == {fc \in GetFloCuckoos(m.to, {m.id}) : m.to \notin Evil}
               Answer(fc) == [type |-> "FloValue", from |-> m.to, to |-> m.from, flo |-> fc]
               out == {Answer(fc) : fc \in found}
    <3>1. Reply(m, out)
      BY <2>2, Zenon DEF HandleReadFlo
    <3>2. \A fc \in found : [id |-> fc.id, version |-> fc.version] \in published
      BY <1>2
    <3> HIDE DEF found
    <3>3. \A fc \in found : Answer(fc).flo = fc /\ Answer(fc).type = "FloValue"
      OBVIOUS
    <3> HIDE DEF Answer
    <3>4. \A fc \in found : MessagePublished(Answer(fc), published)
      BY <3>2, <3>3 DEF MessagePublished
    <3>5. AllPublished(out, published)
      BY <3>4 DEF AllPublished
    <3> HIDE DEF out
    <3> QED BY <3>1, <3>5
  <2> QED BY <2>1, <2>2
<1>5. NetPublished'
  BY <1>3, <1>4, ReplyPublished DEF JInv
<1> QED BY <1>3, <1>5, NoStep

LEMMA StoringSim ==
    ASSUME JInv, IInv', NEW m \in net,
           HandleFlos(m) \/ HandleStoreFlo(m) \/ HandleFloValue(m)
    PROVE  NodesPublished' /\ NetPublished' /\ AbstractStep
<1>1. m \in Message /\ m.to \in NodeID /\ MessagePublished(m, published)
  BY MessageFields DEF JInv, IInv, MessagesOK, NetPublished
<1> DEFINE node == NodeState(m.to)
<1>2. /\ node \in GoodNodes /\ node.realm = realm[m.to]
      /\ NodePublished(node, published) /\ RoomForAll
  BY <1>1 DEF JInv, IInv, NodesOK, NodesPublished, NodeState
<1>3. published' = published
  BY DEF HandleFlos, HandleStoreFlo, HandleFloValue, Unchanged
<1> HIDE DEF node
<1>4. \E x, out : /\ SetNode(m.to, x) /\ NodePublished(x, published)
                  /\ Grows(realm[m.to], x.realm, published)
                  /\ Reply(m, out) /\ AllPublished(out, published)
  <2>0. AllPublished({}, published)
    BY DEF AllPublished
  <2>1. CASE HandleFlos(m)
    <3>1. m.flos \in SUBSET FloCuckoo /\ IsFiniteSet(m.flos)
      BY <1>1, <2>1, MessageFields DEF JInv, IInv, MessagesOK, HandleFlos
    <3>2. PICK order \in SetToSeqs(m.flos) : SetNode(m.to, StoreFloCuckoos(m.to, node, order))
      BY <2>1, Zenon DEF HandleFlos, node
    <3>3. order \in Seq(FloCuckoo)
      BY <3>1, OrderType
    <3>4. \A i \in 1..Len(order) : order[i] \in m.flos
      <4>1. order \in [1..Cardinality(m.flos) -> m.flos]
        BY DEF SetToSeqs
      <4>2. Cardinality(m.flos) \in Nat
        BY <3>1, FS_CardinalityType
      <4> QED BY <4>1, <4>2
    <3>5. \A i \in 1..Len(order) :
             [id |-> order[i].id, version |-> order[i].version] \in published
      BY <1>1, <2>1, <3>4 DEF MessagePublished, HandleFlos
    <3> DEFINE x == StoreFloCuckoos(m.to, node, order)
    <3>6. NodePublished(x, published) /\ Grows(node.realm, x.realm, published)
      BY <1>1, <1>2, <3>3, <3>5, StoreFloCuckoosGrows
    <3>7. SetNode(m.to, x) /\ Reply(m, {})
      BY <2>1, <3>2 DEF HandleFlos
    <3> HIDE DEF x
    <3> QED BY <1>2, <2>0, <3>6, <3>7
  <2>2. CASE HandleStoreFlo(m)
    <3> DEFINE x == StoreFlo(m.to, node, m.flo)
               out == StoreFloOut(m.to, node, m.flo)
    <3>1. m.flo \in Flo /\ m.flo \in published
      BY <1>1, <2>2, MessageFields DEF HandleStoreFlo, MessagePublished
    <3>2. NodePublished(x, published) /\ Grows(node.realm, x.realm, published)
      BY <1>1, <1>2, <3>1, StoreFloGrows
    <3>3. AllPublished(out, published)
      BY <3>1, StoreFloOutPublished
    <3>4. SetNode(m.to, x) /\ Reply(m, out)
      BY <2>2 DEF HandleStoreFlo, node
    <3> HIDE DEF x, out
    <3> QED BY <1>2, <3>2, <3>3, <3>4
  <2>3. CASE HandleFloValue(m)
    <3> DEFINE x == StoreFloCuckoo(m.to, node, m.flo)
    <3>1. /\ m.flo \in FloCuckoo
          /\ [id |-> m.flo.id, version |-> m.flo.version] \in published
      BY <1>1, <2>3, MessageFields DEF HandleFloValue, MessagePublished
    <3>2. NodePublished(x, published) /\ Grows(node.realm, x.realm, published)
      BY <1>1, <1>2, <3>1, StoreFloCuckooGrows
    <3>3. SetNode(m.to, x) /\ Reply(m, {})
      BY <2>3 DEF HandleFloValue, node
    <3> HIDE DEF x
    <3> QED BY <1>2, <2>0, <3>2, <3>3
  <2> QED BY <2>1, <2>2, <2>3
<1>5. NodesPublished' /\ AbstractStep
  BY <1>1, <1>3, <1>4, SetNodeStep
<1>6. NetPublished'
  BY <1>3, <1>4, ReplyPublished DEF JInv
<1> QED BY <1>5, <1>6

\* The only handler that changes a storage and no copy.
LEMMA StoreCuckooIDSim ==
    ASSUME JInv, IInv', NEW m \in net, HandleStoreCuckooID(m)
    PROVE  NodesPublished' /\ NetPublished' /\ AbstractStep
<1>1. m.to \in NodeID /\ m.parent \in FloID /\ m.cuckoo \in FloID
  BY MessageFields DEF JInv, IInv, MessagesOK, HandleStoreCuckooID
<1> DEFINE s == realm[m.to]
           t == IF s = NoRealm THEN NoRealm ELSE StoreCuckooID(s, m.parent, m.cuckoo)
<1>2. /\ realm' = [realm EXCEPT ![m.to] = t] /\ disk' = disk
      /\ Reply(m, {}) /\ published' = published
  BY DEF HandleStoreCuckooID, Unchanged
<1>3. /\ s # NoRealm => Good(s)
      /\ PublishedIn(s, published) /\ PublishedIn(disk[m.to], published)
  BY <1>1, NodeParts DEF JInv, IInv, NodesPublished, NodePublished, NodeState
<1>4. PublishedIn(t, published) /\ CopyOf(t) = CopyOf(s)
  <2>1. CASE s = NoRealm
    BY <2>1 DEF PublishedIn
  <2>2. CASE s # NoRealm
    <3>1. t = StoreCuckooIDs(s, m.parent, {m.cuckoo}) /\ {m.cuckoo} \in SUBSET FloID
      BY <1>1, <2>2 DEF StoreCuckooID
    <3>2. RoomForAll
      BY DEF JInv
    <3> HIDE DEF s, t
    <3> QED BY <1>1, <1>3, <2>2, <3>1, <3>2, CuckoosCopy, Zenon
  <2> QED BY <2>1, <2>2
<1> HIDE DEF t
<1>5. Grows(s, t, published)
  BY <1>4 DEF Grows
<1>6. /\ realm'[m.to] = t /\ disk'[m.to] = disk[m.to]
      /\ \A x \in NodeID \ {m.to} : realm'[x] = realm[x] /\ disk'[x] = disk[x]
  BY <1>1, <1>2 DEF JInv, IInv, NodesOK
<1>7. NodePublished([realm |-> realm'[m.to], disk |-> disk'[m.to]], published')
  BY <1>2, <1>3, <1>4, <1>6 DEF NodePublished
<1>8. Grows(realm[m.to], realm'[m.to], published')
  BY <1>2, <1>5, <1>6
<1>9. NodesPublished' /\ AbstractStep
  BY <1>1, <1>2, <1>6, <1>7, <1>8, NodeStep
<1>10. NetPublished'
  <2>1. AllPublished({}, published)
    BY DEF AllPublished
  <2> QED BY <1>2, <2>1, ReplyPublished DEF JInv
<1> QED BY <1>9, <1>10

LEMMA UserReadSim ==
    ASSUME JInv, NEW n \in NodeID, NEW id \in FloID, UserRead(n, id)
    PROVE  NodesPublished' /\ NetPublished' /\ AbstractStep
<1> DEFINE out == {[type |-> "ReadFlo", from |-> n, to |-> m, id |-> id] :
                     m \in NodeID \ {n}}
<1>1. UNCHANGED <<realm, disk, published>> /\ net' \subseteq net \cup out
  <2>1. PICK sent \in SUBSET out : net' = net \cup sent
    BY Zenon DEF UserRead
  <2> HIDE DEF out
  <2> QED BY <2>1 DEF UserRead
<1>2. \A m \in out : m.type \notin {"StoreFlo", "FloValue", "Flos"}
  OBVIOUS
<1> HIDE DEF out
<1> QED BY <1>1, <1>2, AskSim

LEMMA SyncSim ==
    ASSUME JInv, NEW n \in NodeID, SyncFromNeighbors(n) \/ PropagateFlos(n)
    PROVE  NodesPublished' /\ NetPublished' /\ AbstractStep
<1> DEFINE Ask(type) == {[type |-> type, from |-> n, to |-> m] : m \in NeighboursOf(n)}
           out == Ask("RequestRealmIDs") \cup Ask("AvailableRealmIDs")
<1>1. UNCHANGED <<realm, disk, published>>
  BY DEF SyncFromNeighbors, PropagateFlos
<1>2. net' \subseteq net \cup out
  <2>1. CASE SyncFromNeighbors(n)
    <3>1. PICK sent \in SUBSET Ask("RequestRealmIDs") : net' = net \cup sent
      BY <2>1, Zenon DEF SyncFromNeighbors
    <3> HIDE DEF Ask
    <3> QED BY <3>1
  <2>2. CASE PropagateFlos(n)
    <3>1. PICK sent \in SUBSET Ask("AvailableRealmIDs") : net' = net \cup sent
      BY <2>2, Zenon DEF PropagateFlos
    <3> HIDE DEF Ask
    <3> QED BY <3>1
  <2> QED BY <2>1, <2>2
<1>3. \A m \in out : m.type \notin {"StoreFlo", "FloValue", "Flos"}
  OBVIOUS
<1> HIDE DEF out
<1> QED BY <1>1, <1>2, <1>3, AskSim

LEMMA QuietSim ==
    ASSUME JInv, UNCHANGED <<realm, disk, published, net>>
    PROVE  NodesPublished' /\ NetPublished' /\ AbstractStep
<1>1. NetPublished'
  BY DEF JInv, NetPublished
<1> QED BY <1>1, NoStep

LEMMA SystemRealmSim ==
    ASSUME JInv, NEW n \in NodeID, SystemRealm(n)
    PROVE  NodesPublished' /\ NetPublished' /\ AbstractStep
BY QuietSim DEF SystemRealm

\* Every step is a step of FloReplicas, or changes neither copies nor what was
\* published.
LEMMA NextSim == JInv /\ [Next]_vars => JInv' /\ [Replicas!Next]_<<published, Copies>>
<1> SUFFICES ASSUME JInv, [Next]_vars
             PROVE  JInv' /\ AbstractStep
  BY DEF AbstractStep
<1>1. IInv'
  BY NextOK DEF JInv
<1>2. RoomForAll'
  BY DEF JInv, RoomForAll
<1>3. NodesPublished' /\ NetPublished' /\ AbstractStep
  <2>1. ASSUME NEW n \in NodeID, NEW f \in Flo, UserStore(n, f)
        PROVE  NodesPublished' /\ NetPublished' /\ AbstractStep
    BY <1>1, <2>1, UserStoreSim
  <2>2. ASSUME NEW n \in NodeID,
               \/ \E id \in FloID : UserRead(n, id)
               \/ SyncFromNeighbors(n) \/ PropagateFlos(n) \/ SystemRealm(n)
               \/ Restart(n) \/ RestartTorn(n)
        PROVE  NodesPublished' /\ NetPublished' /\ AbstractStep
    BY <1>1, <2>2, UserReadSim, SyncSim, SystemRealmSim, RestartSim
  <2>3. ASSUME NEW m \in net, Handle(m)
        PROVE  NodesPublished' /\ NetPublished' /\ AbstractStep
    BY <1>1, <2>3, AskingSim, ReadingSim, StoringSim, StoreCuckooIDSim DEF Handle
  <2>4. ASSUME UNCHANGED vars
        PROVE  NodesPublished' /\ NetPublished' /\ AbstractStep
    <3>1. UNCHANGED <<realm, disk, published, net>>
      BY <2>4 DEF vars
    <3> QED BY <3>1, QuietSim
  <2> QED BY <2>1, <2>2, <2>3, <2>4 DEF Next
<1> QED BY <1>1, <1>2, <1>3 DEF JInv

LEMMA InitSim == RoomForAll /\ Init => JInv /\ Replicas!Init
<1> SUFFICES ASSUME RoomForAll, Init PROVE JInv /\ Replicas!Init
  OBVIOUS
<1>1. IInv
  BY InitOK
<1>2. NodesPublished /\ NetPublished
  BY DEF Init, NodesPublished, NodeState, NodePublished, PublishedIn, NetPublished
<1>3. Copies = [n \in NodeID |-> [id \in FloID |-> NoRealm]]
  BY DEF Init, Copies
<1>4. published = {}
  BY DEF Init
<1> QED BY <1>1, <1>2, <1>3, <1>4 DEF JInv, Replicas!Init

\* Implementation: where there is room for all flos, the storages of the
\* network hold copies as FloReplicas promises: only what users published
\* (store_flo), never an older version after a newer one, and no flo without
\* its realm, whatever is lost, late or torn.
THEOREM ReplicasImplemented == RoomForAll /\ Spec => ImplementsReplicas
BY InitSim, NextSim, PTL DEF Spec, ImplementsReplicas, Replicas!Spec
=============================================================================
