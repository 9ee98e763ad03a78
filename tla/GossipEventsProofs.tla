-------------------------- MODULE GossipEventsProofs --------------------------
(***************************************************************************)
(* The events of a network of nodes (GossipEvents.tla), for any number of  *)
(* nodes, links, events and categories and any limits, whatever is lost,   *)
(* whichever write fails and whoever restarts.                             *)
(***************************************************************************)
EXTENDS GossipEvents, InductionLemmas, SequenceTheorems

----------------------------------------------------------------------------
(***************************************************************************)
(* Sets of events.                                                         *)
(***************************************************************************)
\* What WithinLimits says of the events of one node.
Fits(s) ==
    \A c \in Category :
        /\ Cardinality(InCategory(s, c)) <= MaxEvents(c)
        /\ Unique(c) => \A e, f \in InCategory(s, c) : e.src = f.src => e = f

\* The sets of events a node may keep.
Kept(s) == s \subseteq Event /\ IsFiniteSet(s) /\ Fits(s)

LEMMA CategoryFinite ==
    ASSUME NEW s, IsFiniteSet(s), NEW c
    PROVE  /\ InCategory(s, c) \subseteq s
           /\ IsFiniteSet(InCategory(s, c))
           /\ Cardinality(InCategory(s, c)) \in Nat
<1>1. InCategory(s, c) \subseteq s
  BY DEF InCategory
<1> HIDE DEF InCategory
<1>2. IsFiniteSet(InCategory(s, c))
  BY <1>1, FS_Subset
<1> QED BY <1>1, <1>2, FS_CardinalityType

\* What limit leaves of s: if it drops anything then the oldest of the
\* category, as many as are over the limit.
LEMMA LimitDropsOldest ==
    ASSUME NEW s, IsFiniteSet(s), NEW c \in Category, NEW t \in Limit(s, c)
    PROVE  /\ t \subseteq s
           /\ \A d : d # c => InCategory(t, d) = InCategory(s, d)
           /\ Cardinality(InCategory(t, c)) <= MaxEvents(c)
           /\ \/ t = s
              \/ /\ Cardinality(InCategory(t, c)) = MaxEvents(c)
                 /\ \E d \in s : d \notin t
                 /\ \A d \in s : d \notin t =>
                       /\ d.category = c
                       /\ \A k \in InCategory(t, c) : k.created >= d.created
<1> DEFINE mine == InCategory(s, c)
<1>1. CASE Cardinality(mine) <= MaxEvents(c)
  <2>1. t = s
    BY <1>1 DEF Limit
  <2> QED BY <1>1, <2>1
<1>2. CASE ~(Cardinality(mine) <= MaxEvents(c))
  <2>1. PICK o \in SUBSET mine :
          /\ t = s \ o
          /\ Cardinality(mine \ o) = MaxEvents(c)
          /\ \A d \in o, k \in mine \ o : k.created >= d.created
    BY <1>2, Zenon DEF Limit
  <2>2. InCategory(t, c) = mine \ o /\ mine \subseteq s /\ \A d \in mine : d.category = c
    BY <2>1 DEF InCategory
  <2>3. MaxEvents(c) \in Nat
    BY GossipAssumption
  <2>4. o # {}
    <3>1. ASSUME o = {} PROVE FALSE
      <4>1. mine \ o = mine
        BY <3>1
      <4>2. Cardinality(mine) = MaxEvents(c)
        BY <2>1, <4>1
      <4> QED BY <1>2, <2>3, <4>2
    <3> QED BY <3>1
  <2>5. \A d : d # c => InCategory(t, d) = InCategory(s, d)
    BY <2>1, <2>2 DEF InCategory
  <2> HIDE DEF mine
  <2>6. \A d \in s : d \notin t => d \in o
    BY <2>1
  <2>7. \E d \in s : d \notin t
    BY <2>1, <2>2, <2>4
  <2>8. ASSUME NEW d \in s, d \notin t
        PROVE  d.category = c /\ \A k \in InCategory(t, c) : k.created >= d.created
    BY <2>1, <2>2, <2>6, <2>8
  <2>9. t \subseteq s
    BY <2>1
  <2>10. Cardinality(InCategory(t, c)) = MaxEvents(c)
    BY <2>1, <2>2
  <2>11. Cardinality(InCategory(t, c)) <= MaxEvents(c)
    BY <2>3, <2>10
  <2> QED BY <2>5, <2>7, <2>8, <2>9, <2>10, <2>11
<1> QED BY <1>1, <1>2

\* What an insertion that was not refused puts before the limit.
Put(s, e) == (s \ Previous(s, e)) \cup {e}

LEMMA PutKept ==
    ASSUME NEW s, Kept(s), NEW e \in Event
    PROVE  /\ Put(s, e) \subseteq s \cup {e}
           /\ IsFiniteSet(Put(s, e))
           /\ \A c : c # e.category => InCategory(Put(s, e), c) = InCategory(s, c)
           /\ \A c \in Category : Unique(c) =>
                 \A x, y \in InCategory(Put(s, e), c) : x.src = y.src => x = y
<1>1. Put(s, e) \subseteq s \cup {e}
  BY DEF Put
<1>2. IsFiniteSet(Put(s, e))
  <2>1. IsFiniteSet(s \cup {e})
    BY FS_AddElement DEF Kept
  <2> QED BY <1>1, <2>1, FS_Subset
<1>3. \A c : c # e.category => InCategory(Put(s, e), c) = InCategory(s, c)
  BY DEF Put, Previous, InCategory
<1>4. ASSUME NEW c \in Category, Unique(c),
             NEW x \in InCategory(Put(s, e), c), NEW y \in InCategory(Put(s, e), c),
             x.src = y.src
      PROVE  x = y
  <2>1. \A a, b \in InCategory(s, c) : a.src = b.src => a = b
    BY <1>4 DEF Kept, Fits
  <2>2. CASE c # e.category
    BY <1>3, <1>4, <2>1, <2>2
  <2>3. CASE c = e.category
    <3>1. \A a \in InCategory(Put(s, e), c) :
             a = e \/ (a \in InCategory(s, c) /\ a.src # e.src)
      BY <1>4, <2>3 DEF Put, Previous, InCategory
    <3> QED BY <1>4, <2>1, <3>1
  <2> QED BY <2>2, <2>3
<1> QED BY <1>1, <1>2, <1>3, <1>4

LEMMA LimitKept ==
    ASSUME NEW s, Kept(s), NEW e \in Event,
           NEW t \in Limit(Put(s, e), e.category)
    PROVE  Kept(t)
<1> DEFINE u == Put(s, e)
<1>1. e.category \in Category
  BY GossipAssumption
<1>2. /\ u \subseteq s \cup {e} /\ IsFiniteSet(u)
      /\ \A c : c # e.category => InCategory(u, c) = InCategory(s, c)
      /\ \A c \in Category : Unique(c) =>
            \A x, y \in InCategory(u, c) : x.src = y.src => x = y
  BY PutKept
<1> HIDE DEF u
<1>3. /\ t \subseteq u
      /\ \A d : d # e.category => InCategory(t, d) = InCategory(u, d)
      /\ Cardinality(InCategory(t, e.category)) <= MaxEvents(e.category)
  BY <1>1, <1>2, LimitDropsOldest DEF u
<1>4. t \subseteq Event /\ IsFiniteSet(t)
  BY <1>2, <1>3, FS_Subset DEF Kept
<1>5. \A c : InCategory(t, c) \subseteq InCategory(u, c)
  BY <1>3 DEF InCategory
<1>6. ASSUME NEW c \in Category
      PROVE  Cardinality(InCategory(t, c)) <= MaxEvents(c)
  <2>1. CASE c = e.category
    BY <1>3, <2>1
  <2>2. CASE c # e.category
    <3>1. InCategory(t, c) = InCategory(s, c)
      BY <1>2, <1>3, <2>2
    <3> QED BY <3>1 DEF Kept, Fits
  <2> QED BY <2>1, <2>2
<1> QED BY <1>2, <1>4, <1>5, <1>6 DEF Kept, Fits

----------------------------------------------------------------------------
(***************************************************************************)
(* What goes is superseded, and stays so.                                  *)
(***************************************************************************)
Remembered(x, s) == x \in s \/ Superseded(x, s)

Newer(x, s) == {f \in InCategory(s, x.category) : f.created >= x.created}

\* A category that is full of events as new as x supersedes x.
LEMMA FullSupersedes ==
    ASSUME NEW x, NEW s,
           Cardinality(InCategory(s, x.category)) = MaxEvents(x.category),
           \A k \in InCategory(s, x.category) : k.created >= x.created
    PROVE  Superseded(x, s)
<1>1. Newer(x, s) = InCategory(s, x.category)
  BY DEF Newer
<1> QED BY <1>1 DEF Newer, Superseded

LEMMA SourceSupersedes ==
    ASSUME NEW x, NEW s, Unique(x.category), NEW f \in InCategory(s, x.category),
           f.src = x.src, f.created >= x.created
    PROVE  Superseded(x, s)
BY DEF Superseded

\* When a category superseded x by its size, it is full of events as new as x.
LEMMA SupersededBy ==
    ASSUME NEW x \in Event, NEW s, Kept(s), Superseded(x, s)
    PROVE  \/ /\ Unique(x.category)
              /\ \E f \in InCategory(s, x.category) :
                    f.src = x.src /\ f.created >= x.created
           \/ /\ Cardinality(InCategory(s, x.category)) = MaxEvents(x.category)
              /\ \A k \in InCategory(s, x.category) : k.created >= x.created
<1> DEFINE mine == InCategory(s, x.category)
           newer == Newer(x, s)
<1>1. CASE Unique(x.category) /\ \E f \in newer : f.src = x.src
  BY <1>1 DEF Newer
<1>2. CASE Cardinality(newer) = MaxEvents(x.category)
  <2>1. IsFiniteSet(mine) /\ Cardinality(mine) \in Nat
    BY CategoryFinite DEF Kept
  <2>2. newer \subseteq mine
    BY DEF Newer
  <2>3. x.category \in Category /\ MaxEvents(x.category) \in Nat
    BY GossipAssumption
  <2>4. Cardinality(mine) <= MaxEvents(x.category)
    BY <2>3 DEF Kept, Fits
  <2> HIDE DEF mine, newer
  <2>5. Cardinality(newer) <= Cardinality(mine)
    BY <2>1, <2>2, FS_Subset
  <2>6. Cardinality(newer) = Cardinality(mine)
    BY <1>2, <2>1, <2>3, <2>4, <2>5
  <2>7. newer = mine
    BY <2>1, <2>2, <2>6, FS_Subset
  <2> QED BY <1>2, <2>6, <2>7 DEF mine, newer, Newer
<1> QED BY <1>1, <1>2 DEF Superseded, Newer

\* A category that e goes into without a drop is as large as before only if e
\* replaces another event.
LEMMA PutIntoFull ==
    ASSUME NEW s, Kept(s), NEW e \in Event, e \notin s,
           Cardinality(InCategory(s, e.category)) = MaxEvents(e.category),
           Cardinality(InCategory(Put(s, e), e.category)) <= MaxEvents(e.category)
    PROVE  /\ Cardinality(InCategory(Put(s, e), e.category)) = MaxEvents(e.category)
           /\ \E p \in InCategory(s, e.category) :
                 p \in Previous(s, e)
<1> DEFINE c == e.category
           mine == InCategory(s, c)
           prev == Previous(s, e)
<1>0. c \in Category /\ MaxEvents(c) \in Nat
  BY GossipAssumption
<1>1. IsFiniteSet(mine) /\ Cardinality(mine) \in Nat /\ e \notin mine
  BY CategoryFinite DEF Kept, InCategory
<1>2. prev \subseteq mine
  BY DEF Previous
<1>3. InCategory(Put(s, e), c) = (mine \ prev) \cup {e}
  BY DEF Put, Previous, InCategory
<1>4. \A a, b \in prev : a = b
  BY <1>0 DEF Previous, Kept, Fits
<1> HIDE DEF mine, prev, c
<1>5. IsFiniteSet(mine \ prev) /\ e \notin mine \ prev
  BY <1>1, FS_Difference
<1>6. Cardinality((mine \ prev) \cup {e}) = Cardinality(mine \ prev) + 1
  BY <1>5, FS_AddElement
<1>7. CASE prev = {}
  <2>1. mine \ prev = mine
    BY <1>7
  <2> QED BY <1>0, <1>1, <1>3, <1>6, <2>1 DEF mine, c
<1>8. CASE prev # {}
  <2>1. PICK p \in prev : mine \ prev = mine \ {p}
    BY <1>4, <1>8
  <2>2. Cardinality(mine \ {p}) = Cardinality(mine) - 1
    BY <1>1, <1>2, <2>1, FS_RemoveElement
  <2>3. Cardinality((mine \ prev) \cup {e}) = Cardinality(mine)
    <3>1. Cardinality(mine \ prev) = Cardinality(mine) - 1
      BY <2>1, <2>2
    <3> QED BY <1>1, <1>6, <3>1
  <2>4. p \in mine /\ p \in prev
    BY <1>2, <2>1
  <2> QED BY <1>3, <2>3, <2>4 DEF mine, prev, c
<1> QED BY <1>7, <1>8

\* Inserting an event loses nothing but what is superseded.
LEMMA InsertRemembers ==
    ASSUME NEW s, Kept(s), NEW e \in Event, e \notin s,
           ~ \E f \in Previous(s, e) : f.created > e.created,
           NEW t \in Limit(Put(s, e), e.category),
           NEW x \in Event, Remembered(x, s)
    PROVE  Remembered(x, t)
<1> DEFINE c == e.category
           u == Put(s, e)
<1>0. c \in Category /\ e.created \in Int /\ x.created \in Int
      /\ \A f \in s : f.created \in Int
  BY GossipAssumption DEF Kept
<1>1. /\ IsFiniteSet(u)
      /\ \A d : d # c => InCategory(u, d) = InCategory(s, d)
  BY PutKept
<1>2. /\ t \subseteq u
      /\ \A d : d # c => InCategory(t, d) = InCategory(u, d)
      /\ Cardinality(InCategory(t, c)) <= MaxEvents(c)
      /\ \/ t = u
         \/ /\ Cardinality(InCategory(t, c)) = MaxEvents(c)
            /\ \E d \in u : d \notin t
            /\ \A d \in u : d \notin t =>
                  /\ d.category = c
                  /\ \A k \in InCategory(t, c) : k.created >= d.created
  BY <1>0, <1>1, LimitDropsOldest
<1>3. \A p \in s : p \in u \/ (/\ Unique(c) /\ p.category = c /\ p.src = e.src
                               /\ e.created >= p.created)
  BY <1>0 DEF Put, Previous, InCategory
<1>4. \A p \in Previous(s, e) :
         Unique(c) /\ p \in s /\ p.category = c /\ e.created >= p.created
  BY <1>0 DEF Previous, InCategory
<1>5. e \in u /\ u \subseteq s \cup {e}
  BY DEF Put
<1>6. CASE x.category # c
  <2>1. InCategory(t, x.category) = InCategory(s, x.category)
    BY <1>1, <1>2, <1>6
  <2>2. x \in t <=> x \in s
    BY <2>1 DEF InCategory
  <2> QED BY <2>1, <2>2 DEF Remembered, Superseded
<1>7. CASE x.category = c
  <2> HIDE DEF c, u
  <2>1. ASSUME NEW f \in s, f.category = c, f.created >= x.created,
               f = x \/ (Unique(c) /\ f.src = x.src)
        PROVE  Remembered(x, t)
    <3>1. CASE f \in t
      BY <1>7, <2>1, <3>1, SourceSupersedes DEF Remembered, InCategory
    <3>2. CASE f \notin t /\ f \in u
      <4>1. /\ Cardinality(InCategory(t, c)) = MaxEvents(c)
            /\ \A k \in InCategory(t, c) : k.created >= f.created
        BY <1>2, <3>2
      <4>2. \A k \in InCategory(t, c) : k.created >= x.created
        <5>1. \A k \in InCategory(t, c) : k.created \in Int
          BY <1>0, <1>2, <1>5 DEF InCategory
        <5>2. f.created \in Int
          BY <1>0
        <5> QED BY <1>0, <2>1, <4>1, <5>1, <5>2
      <4> QED BY <1>7, <4>1, <4>2, FullSupersedes DEF Remembered
    <3>3. CASE f \notin u
      <4>1. Unique(c) /\ f.src = e.src /\ e.created >= f.created
        BY <1>3, <3>3
      <4>2. e.created >= x.created
        <5>1. f.created \in Int
          BY <1>0
        <5> QED BY <1>0, <2>1, <4>1, <5>1
      <4>3. e.src = x.src /\ e.category = c
        BY <2>1, <4>1 DEF c
      <4>4. CASE e \in t
        <5>1. e \in InCategory(t, x.category) /\ Unique(x.category)
          BY <1>7, <4>1, <4>3, <4>4 DEF InCategory
        <5> QED BY <4>2, <4>3, <5>1, SourceSupersedes DEF Remembered
      <4>5. CASE e \notin t
        <5>1. /\ Cardinality(InCategory(t, c)) = MaxEvents(c)
              /\ \A k \in InCategory(t, c) : k.created >= e.created
          BY <1>2, <1>5, <4>5
        <5>2. \A k \in InCategory(t, c) : k.created \in Int
          BY <1>0, <1>2, <1>5 DEF InCategory
        <5>3. \A k \in InCategory(t, c) : k.created >= x.created
          BY <1>0, <4>2, <5>1, <5>2
        <5> QED BY <1>7, <5>1, <5>3, FullSupersedes DEF Remembered
      <4> QED BY <4>4, <4>5
    <3> QED BY <3>1, <3>2, <3>3
  <2>2. CASE x \in s
    <3>1. x.created >= x.created
      BY <1>0
    <3> QED BY <1>7, <2>1, <2>2, <3>1
  <2>3. ASSUME Cardinality(InCategory(s, c)) = MaxEvents(c),
               \A k \in InCategory(s, c) : k.created >= x.created
        PROVE  Remembered(x, t)
    <3>1. /\ Cardinality(InCategory(t, c)) = MaxEvents(c)
          /\ (\E d \in s : d \in Previous(s, e)) \/ (\E d \in u : d \notin t)
      <4>1. CASE t = u
        <5>1. Cardinality(InCategory(u, c)) <= MaxEvents(c)
          BY <1>2, <4>1
        <5>2. /\ Cardinality(InCategory(u, c)) = MaxEvents(c)
              /\ \E p \in InCategory(s, c) : p \in Previous(s, e)
          BY <2>3, <5>1, PutIntoFull DEF c, u
        <5>3. \E d \in s : d \in Previous(s, e)
          BY <5>2, <1>4
        <5> QED BY <4>1, <5>2, <5>3
      <4>2. CASE t # u
        BY <1>2, <4>2
      <4> QED BY <4>1, <4>2
    <3>2. ASSUME NEW k \in InCategory(t, c) PROVE k.created >= x.created
      <4>1. CASE k \in s
        BY <2>3, <3>2, <4>1 DEF InCategory
      <4>2. CASE k \notin s
        <5>1. k = e /\ e \in t
          BY <1>2, <1>5, <3>2, <4>2 DEF InCategory
        <5>2. PICK d \in s : d.category = c /\ e.created >= d.created
          <6>1. CASE \E d \in s : d \in Previous(s, e)
            BY <1>4, <6>1
          <6>2. CASE \E d \in u : d \notin t
            <7>1. PICK d \in u : d \notin t
              BY <6>2
            <7>2. d \in s
              BY <1>5, <5>1, <7>1
            <7>3. t # u
              BY <7>1
            <7>4. d.category = c /\ e.created >= d.created
              BY <1>2, <3>2, <5>1, <7>1, <7>3
            <7> QED BY <7>2, <7>4
          <6> QED BY <3>1, <6>1, <6>2
        <5>3. d.created >= x.created
          BY <2>3, <5>2 DEF InCategory
        <5>4. d.created \in Int
          BY <1>0
        <5> QED BY <1>0, <5>1, <5>2, <5>3, <5>4
      <4> QED BY <4>1, <4>2
    <3> QED BY <1>7, <3>1, <3>2, FullSupersedes DEF Remembered
  <2>4. CASE Superseded(x, s)
    <3>1. CASE /\ Unique(x.category)
               /\ \E f \in InCategory(s, x.category) :
                     f.src = x.src /\ f.created >= x.created
      BY <1>7, <2>1, <3>1 DEF InCategory
    <3>2. CASE /\ Cardinality(InCategory(s, x.category)) = MaxEvents(x.category)
               /\ \A k \in InCategory(s, x.category) : k.created >= x.created
      BY <1>7, <2>3, <3>2
    <3> QED BY <2>4, <3>1, <3>2, SupersededBy
  <2> QED BY <2>2, <2>4 DEF Remembered
<1> QED BY <1>6, <1>7

----------------------------------------------------------------------------

(***************************************************************************)
(* Results of insertions into s, of events in c.                           *)
(***************************************************************************)
GoodResults(s, c) ==
    {r \in [events : SUBSET c, inserted : Seq(c)] :
        /\ Kept(r.events)
        /\ r.inserted = <<>> => r.events = s
        /\ \A x \in s : Remembered(x, r.events)}

LEMMA InsertGood ==
    ASSUME NEW c \in SUBSET Event, NEW s \in SUBSET c, Kept(s), NEW e \in c,
           NEW i \in Insert(s, e)
    PROVE  /\ i \in [events : SUBSET c, inserted : Seq(c)]
           /\ Kept(i.events)
           /\ i.inserted = <<>> => i.events = s
           /\ \A x \in Event : Remembered(x, s) => Remembered(x, i.events)
<1>1. CASE e \in s \/ (\E f \in Previous(s, e) : f.created > e.created)
  <2>1. i = [events |-> s, inserted |-> <<>>]
    BY <1>1, Zenon DEF Insert
  <2> QED BY <2>1
<1>2. CASE ~(e \in s \/ (\E f \in Previous(s, e) : f.created > e.created))
  <2>1. PICK t \in Limit(Put(s, e), e.category) : i = [events |-> t, inserted |-> <<e>>]
    BY <1>2, Zenon DEF Insert, Put
  <2>2. Kept(t)
    BY <2>1, LimitKept
  <2>3. t \subseteq Put(s, e) /\ Put(s, e) \subseteq c
    <3>1. IsFiniteSet(Put(s, e)) /\ Put(s, e) \subseteq s \cup {e}
      BY PutKept
    <3>2. e.category \in Category
      BY GossipAssumption
    <3> QED BY <2>1, <3>1, <3>2, LimitDropsOldest
  <2>4. \A x \in Event : Remembered(x, s) => Remembered(x, t)
    BY <1>2, <2>1, InsertRemembers
  <2>5. <<e>> \in Seq(c) /\ <<e>> # <<>>
    OBVIOUS
  <2> QED BY <2>1, <2>2, <2>3, <2>4, <2>5
<1> QED BY <1>1, <1>2

LEMMA InsertIsGood ==
    ASSUME NEW c \in SUBSET Event, NEW s \in SUBSET c, Kept(s), NEW e \in c
    PROVE  Insert(s, e) \subseteq GoodResults(s, c)
<1>1. \A x \in s : Remembered(x, s) /\ x \in Event
  BY DEF Remembered
<1> QED BY <1>1, InsertGood DEF GoodResults

LEMMA InsertAfterGood ==
    ASSUME NEW c \in SUBSET Event, NEW s \in SUBSET c,
           NEW r \in GoodResults(s, c), NEW e \in c
    PROVE  InsertAfter(r, e) \subseteq GoodResults(s, c)
<1> SUFFICES ASSUME NEW q \in InsertAfter(r, e) PROVE q \in GoodResults(s, c)
  OBVIOUS
<1>1. PICK i \in Insert(r.events, e) :
         q = [events |-> i.events, inserted |-> r.inserted \o i.inserted]
  BY DEF InsertAfter
<1>2. r.events \in SUBSET c /\ r.inserted \in Seq(c) /\ Kept(r.events)
      /\ (r.inserted = <<>> => r.events = s)
      /\ \A x \in s : Remembered(x, r.events)
  BY DEF GoodResults
<1>3. /\ i.events \in SUBSET c /\ i.inserted \in Seq(c)
      /\ Kept(i.events)
      /\ i.inserted = <<>> => i.events = r.events
      /\ \A x \in Event : Remembered(x, r.events) => Remembered(x, i.events)
  BY <1>1, <1>2, InsertGood
<1>4. /\ r.inserted \o i.inserted \in Seq(c)
      /\ r.inserted \o i.inserted = <<>> => r.inserted = <<>> /\ i.inserted = <<>>
  BY <1>2, <1>3, ConcatProperties, ConcatSimplifications
<1>5. \A x \in s : Remembered(x, i.events)
  BY <1>2, <1>3
<1> HIDE DEF Remembered, Kept
<1> QED BY <1>1, <1>2, <1>3, <1>4, <1>5 DEF GoodResults

LEMMA InsertAllGood ==
    ASSUME NEW c \in SUBSET Event, NEW s \in SUBSET c, Kept(s), NEW list \in Seq(c)
    PROVE  InsertAll(s, list) \subseteq GoodResults(s, c)
<1> DEFINE len == Len(list)
           start == {[events |-> s, inserted |-> <<>>]}
           IsLoop(g) == g = [i \in 0..len |->
                               IF i = 0 THEN {[events |-> s, inserted |-> <<>>]}
                               ELSE UNION {InsertAfter(r, list[i]) : r \in g[i - 1]}]
           loop == CHOOSE g : IsLoop(g)
           X == SUBSET GoodResults(s, c)
<1>1. len \in Nat /\ \A i \in 1..len : list[i] \in c
  OBVIOUS
<1>2. InsertAll(s, list) = loop[len]
  BY Zenon DEF InsertAll
<1>3. start \in X
  <2>1. <<>> \in Seq(c)
    OBVIOUS
  <2>2. \A x \in s : Remembered(x, s)
    BY DEF Remembered
  <2> QED BY <2>1, <2>2 DEF GoodResults
<1>4. ASSUME NEW i \in 1..len, NEW rs \in X
      PROVE  UNION {InsertAfter(r, list[i]) : r \in rs} \in X
  BY <1>1, InsertAfterGood
<1>5. \E g : IsLoop(g)
  <2> DEFINE step == [i \in 1..len |->
                        [rs \in X |-> UNION {InsertAfter(r, list[i]) : r \in rs}]]
  <2> HIDE DEF len, X
  <2>1. step \in Steps(len, X)
    BY <1>4 DEF Steps
  <2>2. \A i \in 1..len : \A rs \in X :
           step[i][rs] = UNION {InsertAfter(r, list[i]) : r \in rs}
    OBVIOUS
  <2> HIDE DEF step, start
  <2>3. PICK g : g \in Iterations(len, X, start, step)
    BY <1>1, <1>3, <2>1, Iterates, Zenon
  <2>4. /\ g \in [0..len -> X] /\ g[0] = start
        /\ \A i \in 1..len : g[i] = step[i][g[i - 1]]
    BY <2>3 DEF Iterations
  <2>5. ASSUME NEW i \in 1..len
        PROVE  g[i] = UNION {InsertAfter(r, list[i]) : r \in g[i - 1]}
    <3>1. g[i - 1] \in X
      BY <1>1, <2>4
    <3> QED BY <2>2, <2>4, <3>1
  <2>6. IsLoop(g)
    BY <1>1, <2>4, <2>5 DEF start
  <2> QED BY <2>6
<1>6. IsLoop(loop)
  BY <1>5, Zenon
<1> HIDE DEF len, loop, X
<1>7. /\ loop[0] = start
      /\ \A i \in 1..len : loop[i] = UNION {InsertAfter(r, list[i]) : r \in loop[i - 1]}
  <2>1. 0 \in 0..len /\ \A i \in 1..len : i \in 0..len /\ i # 0
    BY <1>1
  <2>2. \A i \in 0..len :
           loop[i] = IF i = 0 THEN {[events |-> s, inserted |-> <<>>]}
                     ELSE UNION {InsertAfter(r, list[i]) : r \in loop[i - 1]}
    BY <1>6, Zenon
  <2> QED BY <2>1, <2>2, Zenon DEF start
<1> DEFINE P == {i \in 0..len : loop[i] \in X}
<1> HIDE DEF start
<1>8. 0 \in P
  BY <1>1, <1>3, <1>7
<1>9. \A i \in 1..len : i - 1 \in P => i \in P
  BY <1>1, <1>4, <1>7
<1>10. 0..len \subseteq P
  <2> HIDE DEF P
  <2> QED BY <1>1, <1>8, <1>9, IntervalInduction
<1>11. loop[len] \in X
  BY <1>1, <1>10
<1> QED BY <1>2, <1>11 DEF X

----------------------------------------------------------------------------
(***************************************************************************)
(* Messages about the events in c.                                         *)
(***************************************************************************)
MessageAbout(c) ==
    {RequestEventIDs}
        \cup [type : {"KnownEventIDs", "RequestEvents"}, ids : SUBSET c]
        \cup [type : {"Events"}, events : SetToAllKPermutations(c)]

LEMMA AboutFewer ==
    ASSUME NEW c, NEW d, c \subseteq d
    PROVE  MessageAbout(c) \subseteq MessageAbout(d)
<1>1. SetToAllKPermutations(c) \subseteq SetToAllKPermutations(d)
  BY DEF SetToAllKPermutations
<1> QED BY <1>1 DEF MessageAbout

LEMMA OrderedEvents ==
    ASSUME NEW c, IsFiniteSet(c), NEW list \in SetToAllKPermutations(c)
    PROVE  list \in Seq(c)
<1>1. PICK k \in SUBSET c : list \in SetToSeqs(k)
  BY DEF SetToAllKPermutations
<1>2. Cardinality(k) \in Nat
  BY FS_Subset, FS_CardinalityType
<1>3. list \in [1..Cardinality(k) -> c]
  BY <1>1 DEF SetToSeqs
<1> QED BY <1>2, <1>3

\* The fields of a message of each type.
LEMMA MessageFields ==
    ASSUME NEW c, NEW m \in MessageAbout(c)
    PROVE  /\ m.type \in {"KnownEventIDs", "RequestEvents"} => m.ids \subseteq c
           /\ m.type = "Events" => m.events \in SetToAllKPermutations(c)
<1>1. CASE m = RequestEventIDs
  BY <1>1 DEF RequestEventIDs
<1>2. CASE m \in [type : {"KnownEventIDs", "RequestEvents"}, ids : SUBSET c]
  BY <1>2
<1>3. CASE m \in [type : {"Events"}, events : SetToAllKPermutations(c)]
  BY <1>3
<1> QED BY <1>1, <1>2, <1>3 DEF MessageAbout

LEMMA NewMessages ==
    ASSUME NEW c
    PROVE  /\ RequestEventIDs \in MessageAbout(c)
           /\ \A ids \in SUBSET c : /\ KnownEventIDs(ids) \in MessageAbout(c)
                                    /\ RequestEvents(ids) \in MessageAbout(c)
           /\ \A list \in SetToAllKPermutations(c) : Events(list) \in MessageAbout(c)
BY DEF MessageAbout, KnownEventIDs, RequestEvents, Events

Channels(c) == [Link -> Seq(MessageAbout(c))]

LEMMA WithSentType ==
    ASSUME NEW c, NEW ch \in Channels(c), NEW n, NEW out,
           \A d \in DOMAIN out : out[d] \in MessageAbout(c)
    PROVE  WithSent(ch, n, out) \in Channels(c)
<1>1. ASSUME NEW l \in Link
      PROVE  (IF l[1] = n /\ l[2] \in DOMAIN out
              THEN Append(ch[l], out[l[2]]) ELSE ch[l]) \in Seq(MessageAbout(c))
  <2>1. ch[l] \in Seq(MessageAbout(c))
    BY DEF Channels
  <2> QED BY <2>1, AppendProperties
<1> QED BY <1>1 DEF WithSent, Channels

LEMMA AdvertisedType ==
    ASSUME NEW c, NEW n, NEW src, NEW new \in Seq(c)
    PROVE  \A d \in DOMAIN Advertised(n, src, new) :
              Advertised(n, src, new)[d] \in MessageAbout(c)
<1>1. ToSet(new) \subseteq c
  BY DEF ToSet
<1>2. \A m : {e \in ToSet(new) : e.src # m} \in SUBSET c
  BY <1>1
<1> HIDE DEF KnownEventIDs
<1> QED BY <1>2, NewMessages DEF Advertised

LEMMA NoneType ==
    ASSUME NEW c
    PROVE  \A d \in DOMAIN None : None[d] \in MessageAbout(c)
BY DEF None

LEMMA ReplyType ==
    ASSUME NEW c, NEW m, NEW msg \in MessageAbout(c)
    PROVE  \A d \in DOMAIN Reply(m, msg) : Reply(m, msg)[d] \in MessageAbout(c)
BY DEF Reply

----------------------------------------------------------------------------
(***************************************************************************)
(* The inductive invariant: what nodes, files and messages hold was        *)
(* created, the file is what is in memory unless the last write failed,    *)
(* and nothing is beyond the limits, also of what a restart would read.    *)
(***************************************************************************)
EventsOK ==
    /\ created \subseteq Event /\ IsFiniteSet(created)
    /\ events \in [Node -> SUBSET created]
    /\ disk \in [Node -> SUBSET created]
    /\ failed \subseteq Node
    /\ forgotten \subseteq created
    /\ \A n \in Node : Fits(events[n]) /\ Fits(disk[n])
    /\ \A n \in Node \ failed : disk[n] = events[n]

NodesOK ==
    /\ nodes \in [Node -> SUBSET Node]
    /\ ticks \in [Node -> 0..WarmUp]

MessagesOK ==
    /\ outstanding \in [Node -> SUBSET created]
    /\ channel \in Channels(created)

IInv == EventsOK /\ NodesOK /\ MessagesOK

\* What a step may do to the events of a node.
KeepsNewest ==
    \A n \in Node : \A e \in events[n] :
        Remembered(e, events'[n]) \/ (n \in failed /\ events'[n] = disk[n])

\* No events at all fit.
LEMMA NothingFits == Fits({})
<1>1. Cardinality({}) = 0
  BY FS_EmptySet
<1>2. \A c : InCategory({}, c) = {}
  BY DEF InCategory
<1> QED BY <1>1, <1>2, GossipAssumption DEF Fits

LEMMA InitIInv == Init => IInv
<1> SUFFICES ASSUME Init PROVE IInv
  OBVIOUS
<1>1. IsFiniteSet({}) /\ Cardinality({}) = 0
  BY FS_EmptySet
<1>4. EventsOK
  BY <1>1, NothingFits DEF Init, EventsOK
<1>5. NodesOK
  BY GossipAssumption DEF Init, NodesOK
<1>6. MessagesOK
  BY DEF Init, MessagesOK, Channels
<1> QED BY <1>4, <1>5, <1>6 DEF IInv

\* A node keeps a good result: memory, file and limits stay as they should,
\* whether or not the file could be written.
LEMMA KeepGood ==
    ASSUME EventsOK, NEW n \in Node, created' \subseteq Event,
           IsFiniteSet(created'), created \subseteq created', forgotten' = forgotten,
           NEW r \in GoodResults(events[n], created'), Keep(n, r)
    PROVE  EventsOK' /\ KeepsNewest
<1>1. /\ r.events \in SUBSET created' /\ Fits(r.events)
      /\ r.inserted = <<>> => r.events = events[n]
      /\ \A x \in events[n] : Remembered(x, r.events)
  BY DEF GoodResults, Kept
<1>2. /\ events \in [Node -> SUBSET created] /\ disk \in [Node -> SUBSET created]
      /\ failed \subseteq Node /\ forgotten \subseteq created
      /\ \A m \in Node : Fits(events[m]) /\ Fits(disk[m])
      /\ \A m \in Node \ failed : disk[m] = events[m]
  BY DEF EventsOK
<1>3. events' = [events EXCEPT ![n] = r.events]
  BY DEF Keep
<1>4. events'[n] = r.events /\ \A m \in Node : m # n => events'[m] = events[m]
  BY <1>2, <1>3
<1>5. PICK left \in SUBSET created' :
        /\ disk' = [disk EXCEPT ![n] = left] /\ Fits(left)
        /\ failed \ {n} \subseteq failed' /\ failed' \subseteq failed \cup {n}
        /\ n \notin failed' => left = r.events
  <2>1. CASE r.inserted = <<>>
    <3>1. disk' = disk /\ failed' = failed
      BY <2>1 DEF Keep, store
    <3>2. disk' = [disk EXCEPT ![n] = disk[n]] /\ disk[n] \in SUBSET created'
      BY <1>2, <3>1
    <3> QED BY <1>1, <1>2, <1>4, <2>1, <3>1, <3>2
  <2>2. CASE r.inserted # <<>>
    <3>1. Store(n, r.events)
      BY <2>2 DEF Keep
    <3>2. CASE disk' = [disk EXCEPT ![n] = r.events] /\ failed' = failed \ {n}
      BY <1>1, <3>2
    <3>3. CASE /\ \E left \in {disk[n], {}} : disk' = [disk EXCEPT ![n] = left]
               /\ failed' = failed \cup {n}
      <4>1. PICK left \in {disk[n], {}} : disk' = [disk EXCEPT ![n] = left]
        BY <3>3
      <4>2. left \in SUBSET created' /\ Fits(left)
        BY <1>2, <4>1, NothingFits
      <4> QED BY <3>3, <4>1, <4>2
    <3> QED BY <3>1, <3>2, <3>3 DEF Store
  <2> QED BY <2>1, <2>2
<1> HIDE DEF Remembered, Fits
<1>6. disk'[n] = left /\ \A m \in Node : m # n => disk'[m] = disk[m]
  BY <1>2, <1>5
<1>7. /\ events' \in [Node -> SUBSET created'] /\ disk' \in [Node -> SUBSET created']
      /\ failed' \subseteq Node /\ forgotten' \subseteq created'
  BY <1>1, <1>2, <1>3, <1>5
<1>8. \A m \in Node : Fits(events'[m]) /\ Fits(disk'[m])
  BY <1>1, <1>2, <1>4, <1>5, <1>6
<1>9. ASSUME NEW m \in Node \ failed' PROVE disk'[m] = events'[m]
  <2>1. CASE m = n
    BY <1>2, <1>4, <1>5, <1>6, <1>9, <2>1
  <2>2. CASE m # n
    BY <1>2, <1>4, <1>5, <1>6, <1>9, <2>2
  <2> QED BY <2>1, <2>2
<1>10. KeepsNewest
  <2>1. \A m \in Node : \A x \in events[m] : Remembered(x, events[m])
    BY DEF Remembered
  <2> QED BY <1>1, <1>4, <2>1 DEF KeepsNewest
<1>11. EventsOK'
  BY <1>7, <1>8, <1>9 DEF EventsOK, Fits, InCategory
<1> QED BY <1>10, <1>11

\* Nothing was kept.
LEMMA NoneKept ==
    ASSUME EventsOK, UNCHANGED <<events, store, history>>
    PROVE  EventsOK' /\ KeepsNewest
<1>1. EventsOK'
  BY DEF EventsOK, Fits, InCategory, store, history
<1>2. KeepsNewest
  BY DEF KeepsNewest, Remembered
<1> QED BY <1>1, <1>2

\* The message a handler takes, and the channels once it answered.
LEMMA TakeAnswer ==
    ASSUME IInv, NEW n \in Node, NEW src \in Peers(n), NEW type, Take(n, src, type)
    PROVE  /\ Head(channel[<<src, n>>]) \in MessageAbout(created)
           /\ [channel EXCEPT ![<<src, n>>] = Tail(@)] \in Channels(created)
<1>1. <<src, n>> \in Link
  BY GossipAssumption DEF Peers
<1>2. channel[<<src, n>>] \in Seq(MessageAbout(created)) /\ channel[<<src, n>>] # <<>>
  BY <1>1 DEF Take, IInv, MessagesOK, Channels
<1>3. /\ Head(channel[<<src, n>>]) \in MessageAbout(created)
      /\ Tail(channel[<<src, n>>]) \in Seq(MessageAbout(created))
  BY <1>2, HeadTailProperties
<1> QED BY <1>1, <1>3 DEF IInv, MessagesOK, Channels

LEMMA AnswerType ==
    ASSUME IInv, NEW n \in Node, NEW src \in Peers(n), NEW type, Take(n, src, type),
           NEW out, \A d \in DOMAIN out : out[d] \in MessageAbout(created),
           Answer(n, src, out)
    PROVE  channel' \in Channels(created)
<1>1. [channel EXCEPT ![<<src, n>>] = Tail(@)] \in Channels(created)
  BY TakeAnswer
<1> QED BY <1>1, WithSentType DEF Answer

\* Events that are still about fewer events, and nothing but messages changed.
LEMMA OnlyMessages ==
    ASSUME IInv, UNCHANGED <<events, store, nodes, ticks, history>>,
           outstanding' \in [Node -> SUBSET created], channel' \in Channels(created)
    PROVE  IInv' /\ KeepsNewest
<1>1. EventsOK' /\ KeepsNewest
  BY NoneKept DEF IInv
<1>2. NodesOK'
  BY DEF IInv, NodesOK
<1>3. MessagesOK'
  <2> HIDE DEF Channels
  <2>1. Channels(created)' = Channels(created)
    BY DEF history, Channels, MessageAbout, RequestEventIDs, SetToAllKPermutations, SetToSeqs
  <2> QED BY <2>1 DEF MessagesOK, history
<1> QED BY <1>1, <1>2, <1>3 DEF IInv

LEMMA AddEventKeeps ==
    ASSUME IInv, NEW n \in Node, NEW e \in Event, AddEvent(n, e)
    PROVE  IInv' /\ KeepsNewest
<1>1. created' = created \cup {e} /\ UNCHANGED <<nodes, outstanding, ticks, forgotten>>
  BY DEF AddEvent
<1>2. PICK r \in Insert(events[n], e) :
        /\ Keep(n, r)
        /\ IF r.inserted = <<>> THEN UNCHANGED channel
           ELSE Send(n, Advertised(n, n, r.inserted))
  BY DEF AddEvent
<1>3. /\ created' \subseteq Event /\ IsFiniteSet(created') /\ created \subseteq created'
      /\ e \in created'
  BY <1>1, FS_AddElement DEF IInv, EventsOK
<1>4. events[n] \in SUBSET created' /\ Kept(events[n])
  BY <1>3, FS_Subset DEF IInv, EventsOK, Kept
<1>5. r \in GoodResults(events[n], created')
  BY <1>2, <1>3, <1>4, InsertIsGood
<1>6. EventsOK' /\ KeepsNewest
  BY <1>1, <1>2, <1>3, <1>5, KeepGood DEF IInv
<1>7. NodesOK'
  BY <1>1 DEF IInv, NodesOK
<1>8. channel \in Channels(created')
  <2>1. MessageAbout(created) \subseteq MessageAbout(created')
    BY <1>3, AboutFewer
  <2> QED BY <2>1 DEF IInv, MessagesOK, Channels
<1>9. channel' \in Channels(created')
  <2>1. r.inserted \in Seq(created')
    BY <1>5 DEF GoodResults
  <2>2. \A d \in DOMAIN Advertised(n, n, r.inserted) :
           Advertised(n, n, r.inserted)[d] \in MessageAbout(created')
    BY <2>1, AdvertisedType
  <2>3. WithSent(channel, n, Advertised(n, n, r.inserted)) \in Channels(created')
    BY <1>8, <2>2, WithSentType
  <2> QED BY <1>2, <1>8, <2>3 DEF Send
<1>10. MessagesOK'
  <2>1. outstanding' \in [Node -> SUBSET created']
    BY <1>1, <1>3 DEF IInv, MessagesOK
  <2>2. Channels(created)' = Channels(created')
    BY DEF Channels, MessageAbout, RequestEventIDs, SetToAllKPermutations, SetToSeqs
  <2> QED BY <1>9, <2>1, <2>2 DEF MessagesOK
<1> QED BY <1>6, <1>7, <1>10 DEF IInv

LEMMA NodeEventsKeeps ==
    ASSUME IInv, NEW n \in Node, NEW src \in Peers(n), NodeEvents(n, src)
    PROVE  IInv' /\ KeepsNewest
<1> DEFINE m == Head(channel[<<src, n>>])
<1>1. Take(n, src, "Events") /\ UNCHANGED <<nodes, ticks, history>>
  BY DEF NodeEvents
<1>2. PICK r \in InsertAll(events[n], m.events) :
        Keep(n, r) /\ Answer(n, src, Advertised(n, src, r.inserted))
  BY DEF NodeEvents
<1>3. outstanding' = [outstanding EXCEPT ![n] = @ \ ToSet(m.events)]
  BY DEF NodeEvents
<1>4. m.events \in Seq(created)
  <2>1. m \in MessageAbout(created) /\ m.type = "Events"
    BY <1>1, TakeAnswer DEF Take
  <2>2. m.events \in SetToAllKPermutations(created)
    BY <2>1, MessageFields
  <2> QED BY <2>2, OrderedEvents DEF IInv, EventsOK
<1>5. events[n] \in SUBSET created /\ created \in SUBSET Event /\ Kept(events[n])
  BY FS_Subset DEF IInv, EventsOK, Kept
<1>6. r \in GoodResults(events[n], created)
  <2> HIDE DEF m
  <2> QED BY <1>2, <1>4, <1>5, InsertAllGood
<1>7. EventsOK' /\ KeepsNewest
  <2>1. created' = created /\ forgotten' = forgotten
    BY <1>1 DEF history
  <2>2. created' \subseteq Event /\ IsFiniteSet(created') /\ created \subseteq created'
    BY <2>1 DEF IInv, EventsOK
  <2> QED BY <1>2, <1>6, <2>1, <2>2, KeepGood DEF IInv
<1>8. NodesOK'
  BY <1>1 DEF IInv, NodesOK
<1>9. channel' \in Channels(created)
  <2>1. r.inserted \in Seq(created)
    BY <1>6 DEF GoodResults
  <2>2. \A d \in DOMAIN Advertised(n, src, r.inserted) :
           Advertised(n, src, r.inserted)[d] \in MessageAbout(created)
    BY <2>1, AdvertisedType
  <2> QED BY <1>1, <1>2, <2>2, AnswerType
<1>10. MessagesOK'
  <2>1. outstanding' \in [Node -> SUBSET created]
    BY <1>3 DEF IInv, MessagesOK
  <2>2. Channels(created)' = Channels(created)
    BY <1>1 DEF history, Channels, MessageAbout, RequestEventIDs, SetToAllKPermutations, SetToSeqs
  <2> QED BY <1>1, <1>9, <2>1, <2>2 DEF MessagesOK, history
<1> QED BY <1>7, <1>8, <1>10 DEF IInv

LEMMA RestartKeeps ==
    ASSUME IInv, NEW n \in Node, Restart(n)
    PROVE  IInv' /\ KeepsNewest
<1>1. /\ events' = [events EXCEPT ![n] = disk[n]] /\ UNCHANGED <<disk, created>>
      /\ failed' = failed \ {n}
      /\ forgotten' \in {forgotten, created \ UNION {events'[m] : m \in Node}}
  BY DEF Restart
<1>2. EventsOK' /\ KeepsNewest
  <2>1. /\ events \in [Node -> SUBSET created] /\ disk \in [Node -> SUBSET created]
        /\ failed \subseteq Node /\ forgotten \subseteq created
        /\ created \subseteq Event /\ IsFiniteSet(created)
        /\ \A m \in Node : Fits(events[m]) /\ Fits(disk[m])
        /\ \A m \in Node \ failed : disk[m] = events[m]
    BY DEF IInv, EventsOK
  <2>2. events'[n] = disk[n] /\ \A m \in Node : m # n => events'[m] = events[m]
    BY <1>1, <2>1
  <2>3. KeepsNewest
    <3>1. \A m \in Node : \A x \in events[m] : Remembered(x, events[m])
      BY DEF Remembered
    <3> HIDE DEF Remembered
    <3>2. n \notin failed => disk[n] = events[n]
      BY <2>1
    <3>3. ASSUME NEW m \in Node, NEW x \in events[m]
          PROVE  Remembered(x, events'[m]) \/ (m \in failed /\ events'[m] = disk[m])
      BY <2>2, <3>1, <3>2
    <3> QED BY <3>3 DEF KeepsNewest
  <2> HIDE DEF Fits
  <2>4. /\ created' \subseteq Event /\ IsFiniteSet(created')
        /\ events' \in [Node -> SUBSET created'] /\ disk' \in [Node -> SUBSET created']
        /\ failed' \subseteq Node /\ forgotten' \subseteq created'
    BY <1>1, <2>1
  <2>5. /\ \A m \in Node : Fits(events'[m]) /\ Fits(disk'[m])
        /\ \A m \in Node \ failed' : disk'[m] = events'[m]
    BY <1>1, <2>1, <2>2
  <2>6. EventsOK'
    BY <2>4, <2>5 DEF EventsOK, Fits, InCategory
  <2> QED BY <2>3, <2>6
<1>3. NodesOK'
  BY GossipAssumption DEF Restart, IInv, NodesOK
<1>4. channel' \in Channels(created)
  BY DEF Restart, IInv, MessagesOK, Channels
<1>5. MessagesOK'
  <2>1. outstanding' \in [Node -> SUBSET created]
    BY DEF Restart, IInv, MessagesOK
  <2>2. Channels(created)' = Channels(created)
    BY <1>1 DEF Channels, MessageAbout, RequestEventIDs, SetToAllKPermutations, SetToSeqs
  <2> QED BY <1>1, <1>4, <2>1, <2>2 DEF MessagesOK
<1> QED BY <1>2, <1>3, <1>5 DEF IInv

\* What leaves the lists of events alone, but changes the node's own state.
LEMMA NodeStateKeeps ==
    ASSUME IInv, UNCHANGED <<events, store, history>>, NodesOK',
           outstanding' \in [Node -> SUBSET created], channel' \in Channels(created)
    PROVE  IInv' /\ KeepsNewest
<1>1. EventsOK' /\ KeepsNewest
  BY NoneKept DEF IInv
<1>2. Channels(created)' = Channels(created)
  BY DEF history, Channels, MessageAbout, RequestEventIDs, SetToAllKPermutations, SetToSeqs
<1>3. MessagesOK'
  BY <1>2 DEF MessagesOK, history
<1> QED BY <1>1, <1>3 DEF IInv

LEMMA RequestAllType ==
    ASSUME IInv, NEW n, NEW ids
    PROVE  WithSent(channel, n, [m \in ids |-> RequestEventIDs]) \in Channels(created)
<1> DEFINE out == [m \in ids |-> RequestEventIDs]
<1>1. \A d \in DOMAIN out : out[d] \in MessageAbout(created)
  BY NewMessages
<1>2. channel \in Channels(created)
  BY DEF IInv, MessagesOK
<1> HIDE DEF out
<1>3. WithSent(channel, n, out) \in Channels(created)
  BY <1>1, <1>2, WithSentType
<1> QED BY <1>3 DEF out

LEMMA UpdateNodeListKeeps ==
    ASSUME IInv, NEW n \in Node, NEW ids \in SUBSET Peers(n), UpdateNodeList(n, ids)
    PROVE  IInv' /\ KeepsNewest
<1>1. /\ UNCHANGED <<events, store, outstanding, ticks, history>>
      /\ nodes' = [nodes EXCEPT ![n] = ids]
      /\ Send(n, [m \in (ids \ nodes[n]) \ {n} |-> RequestEventIDs])
  BY DEF UpdateNodeList
<1>2. NodesOK'
  BY <1>1 DEF IInv, NodesOK, Peers
<1>3. channel' \in Channels(created)
  BY <1>1, RequestAllType DEF Send
<1>4. outstanding' \in [Node -> SUBSET created]
  BY <1>1 DEF IInv, MessagesOK
<1> QED BY <1>1, <1>2, <1>3, <1>4, NodeStateKeeps

LEMMA TickKeeps ==
    ASSUME IInv, NEW n \in Node, Tick(n)
    PROVE  IInv' /\ KeepsNewest
<1>1. UNCHANGED <<events, store, nodes, history>>
  BY DEF Tick
<1>2. NodesOK'
  BY GossipAssumption DEF Tick, IInv, NodesOK
<1>3. channel' \in Channels(created)
  <2>1. channel \in Channels(created)
    BY DEF IInv, MessagesOK
  <2>2. UNCHANGED channel \/ Send(n, [m \in nodes[n] |-> RequestEventIDs])
    BY DEF Tick
  <2> QED BY <2>1, <2>2, RequestAllType DEF Send
<1>4. outstanding' \in [Node -> SUBSET created]
  BY DEF Tick, IInv, MessagesOK
<1> QED BY <1>1, <1>2, <1>3, <1>4, NodeStateKeeps

LEMMA RequestEventIDsKeeps ==
    ASSUME IInv, NEW n \in Node, NEW src \in Peers(n), NodeRequestEventIDs(n, src)
    PROVE  IInv' /\ KeepsNewest
<1>1. /\ Take(n, src, "RequestEventIDs")
      /\ Answer(n, src, Reply(src, KnownEventIDs(events[n])))
      /\ UNCHANGED <<events, store, nodes, outstanding, ticks, history, faults>>
  BY DEF NodeRequestEventIDs
<1>2. KnownEventIDs(events[n]) \in MessageAbout(created)
  BY NewMessages DEF IInv, EventsOK
<1>3. channel' \in Channels(created)
  BY <1>1, <1>2, ReplyType, AnswerType
<1>4. outstanding' \in [Node -> SUBSET created]
  BY <1>1 DEF IInv, MessagesOK
<1> QED BY <1>1, <1>3, <1>4, OnlyMessages

LEMMA KnownEventIDsKeeps ==
    ASSUME IInv, NEW n \in Node, NEW src \in Peers(n), NodeKnownEventIDs(n, src)
    PROVE  IInv' /\ KeepsNewest
<1> DEFINE m == Head(channel[<<src, n>>])
           unknown == (m.ids \ events[n]) \ outstanding[n]
           out == IF unknown = {} THEN None ELSE Reply(src, RequestEvents(unknown))
<1>1. /\ Take(n, src, "KnownEventIDs")
      /\ outstanding' = [outstanding EXCEPT ![n] = @ \cup unknown]
      /\ Answer(n, src, out)
      /\ UNCHANGED <<events, store, nodes, ticks, history, faults>>
  BY DEF NodeKnownEventIDs
<1>2. m.ids \subseteq created
  <2>1. m \in MessageAbout(created) /\ m.type = "KnownEventIDs"
    BY <1>1, TakeAnswer DEF Take
  <2> QED BY <2>1, MessageFields
<1>3. unknown \in SUBSET created
  BY <1>2
<1>4. \A d \in DOMAIN out : out[d] \in MessageAbout(created)
  <2> HIDE DEF unknown
  <2>1. RequestEvents(unknown) \in MessageAbout(created)
    BY <1>3, NewMessages
  <2> QED BY <2>1, NoneType, ReplyType
<1> HIDE DEF out, unknown
<1>5. channel' \in Channels(created)
  BY <1>1, <1>4, AnswerType
<1>6. outstanding' \in [Node -> SUBSET created]
  BY <1>1, <1>3 DEF IInv, MessagesOK
<1> QED BY <1>1, <1>5, <1>6, OnlyMessages

LEMMA RequestEventsKeeps ==
    ASSUME IInv, NEW n \in Node, NEW src \in Peers(n), NodeRequestEvents(n, src)
    PROVE  IInv' /\ KeepsNewest
<1> DEFINE known == Head(channel[<<src, n>>]).ids \cap events[n]
           out(list) == IF known = {} THEN None ELSE Reply(src, Events(list))
<1>1. /\ Take(n, src, "RequestEvents")
      /\ \E list \in SetToSeqs(known) : Answer(n, src, out(list))
      /\ UNCHANGED <<events, store, nodes, outstanding, ticks, history, faults>>
  BY DEF NodeRequestEvents
<1>2. PICK list \in SetToSeqs(known) : Answer(n, src, out(list))
  BY <1>1
<1>3. known \in SUBSET created
  BY DEF IInv, EventsOK
<1>4. \A d \in DOMAIN out(list) : out(list)[d] \in MessageAbout(created)
  <2> HIDE DEF known
  <2>1. list \in SetToAllKPermutations(created)
    BY <1>3 DEF SetToAllKPermutations
  <2>2. Events(list) \in MessageAbout(created)
    BY <2>1, NewMessages
  <2> QED BY <2>2, NoneType, ReplyType
<1> HIDE DEF out
<1>5. channel' \in Channels(created)
  BY <1>1, <1>2, <1>4, AnswerType
<1>6. outstanding' \in [Node -> SUBSET created]
  BY <1>1 DEF IInv, MessagesOK
<1> QED BY <1>1, <1>5, <1>6, OnlyMessages

LEMMA LoseKeeps ==
    ASSUME IInv, NEW n \in Node, NEW src \in Peers(n), Lose(<<src, n>>)
    PROVE  IInv' /\ KeepsNewest
<1>1. /\ channel[<<src, n>>] # <<>>
      /\ channel' = [channel EXCEPT ![<<src, n>>] = Tail(@)]
      /\ UNCHANGED <<events, store, nodes, outstanding, ticks, history>>
  BY DEF Lose
<1>2. <<src, n>> \in Link
  BY GossipAssumption DEF Peers
<1>3. channel \in Channels(created)
  BY DEF IInv, MessagesOK
<1>4. Tail(channel[<<src, n>>]) \in Seq(MessageAbout(created))
  BY <1>1, <1>2, <1>3, HeadTailProperties DEF Channels
<1>5. channel' \in Channels(created)
  BY <1>1, <1>3, <1>4 DEF Channels
<1>6. outstanding' \in [Node -> SUBSET created]
  BY <1>1 DEF IInv, MessagesOK
<1> QED BY <1>1, <1>5, <1>6, OnlyMessages

LEMMA NextKeeps == IInv /\ [Next]_vars => IInv' /\ KeepsNewest
<1> SUFFICES ASSUME IInv, [Next]_vars PROVE IInv' /\ KeepsNewest
  OBVIOUS
<1>1. CASE UNCHANGED vars
  BY <1>1, OnlyMessages DEF vars, IInv, MessagesOK
<1>2. CASE Next
  <2>1. PICK n \in Node :
          \/ \E e \in Event : AddEvent(n, e)
          \/ \E ids \in SUBSET Peers(n) : UpdateNodeList(n, ids)
          \/ Tick(n)
          \/ \E src \in Peers(n) : NodeRequestEventIDs(n, src)
          \/ \E src \in Peers(n) : NodeKnownEventIDs(n, src)
          \/ \E src \in Peers(n) : NodeRequestEvents(n, src)
          \/ \E src \in Peers(n) : NodeEvents(n, src)
          \/ \E src \in Peers(n) : Lose(<<src, n>>)
          \/ Restart(n)
    BY <1>2 DEF Next
  <2> QED BY <2>1, AddEventKeeps, UpdateNodeListKeeps, TickKeeps, RequestEventIDsKeeps,
             KnownEventIDsKeeps, RequestEventsKeeps, NodeEventsKeeps, LoseKeeps,
             RestartKeeps
<1> QED BY <1>1, <1>2

\* IInv holds of every reachable state.
LEMMA SpecIInv == Spec => []IInv
<1>1. IInv /\ [Next]_vars => IInv'
  BY NextKeeps
<1> QED BY <1>1, InitIInv, PTL DEF Spec

----------------------------------------------------------------------------
\* The events of every node are such that a user created, no category outgrows
\* its limit, and one with unique events has one of each source: in whatever
\* order lists of events arrive (GossipEvents::add_events).
THEOREM EventsStayWellFormed == Spec => []EventsWellFormed
<1>1. IInv => TypeOK
  <2> SUFFICES ASSUME IInv PROVE TypeOK
    OBVIOUS
  <2>1. MessageAbout(created) \subseteq Message
    <3>1. MessageAbout(created) \subseteq MessageAbout(Event)
      BY AboutFewer DEF IInv, EventsOK
    <3> QED BY <3>1 DEF MessageAbout, Message
  <2>2. ASSUME NEW c \in Link PROVE ToSet(channel[c]) \subseteq Message
    BY <2>1 DEF ToSet, IInv, MessagesOK, Channels
  <2> QED BY <2>2 DEF IInv, EventsOK, NodesOK, MessagesOK, Channels, TypeOK
<1>2. IInv => WithinLimits
  BY DEF IInv, EventsOK, Fits, WithinLimits
<1> QED BY <1>1, <1>2, SpecIInv, PTL DEF EventsWellFormed

\* After a write that succeeds the data storage has what is in memory, and keeps
\* up with it until one fails: whatever a node got with or without neighbours,
\* whatever it could not write before and whatever it restarted from.
THEOREM EventsStayDurable == Spec => []EventsAreDurable
<1>1. IInv => EventsAreDurable
  BY DEF IInv, EventsOK, EventsAreDurable
<1> QED BY <1>1, SpecIInv, PTL

\* Only the oldest events go: of a source that sent a newer one, or out of a
\* category that is full of events as new; also when one list of events
\* replaces several, one after the other.  Only a restart after a write that
\* failed can lose others.
THEOREM OldestGo == Spec => OldestGoFirst
<1> DEFINE Step ==
      \A n \in Node : \A e \in events[n] \ events'[n] :
          \/ Superseded(e, events'[n])
          \/ n \in failed /\ events'[n] = disk[n]
<1>1. IInv /\ [Next]_vars => [Step]_vars
  BY NextKeeps DEF KeepsNewest, Remembered
<1> QED BY <1>1, SpecIInv, PTL DEF Spec, OldestGoFirst
=============================================================================
