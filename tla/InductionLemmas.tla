------------------------- MODULE InductionLemmas -------------------------
(***************************************************************************)
(* Induction and recursion for the proofs of the other modules: over the   *)
(* subsets of a finite set, with minimal counterexamples, and over         *)
(* intervals of the naturals; what the sum over a finite set,              *)
(* SumFunctionOnSet of the community module Functions, is when one element *)
(* comes, goes or changes its weight; and that a step can be taken n times *)
(* (Iterates), which is what a recursive function over 0..n needs to have  *)
(* a value.                                                                *)
(***************************************************************************)
EXTENDS Integers, FiniteSets, Functions, Folds, TLAPS, FiniteSetTheorems,
        WellFoundedInduction

----------------------------------------------------------------------------
\* A non-empty collection of subsets of a finite set has a minimal member.
LEMMA MinimalSubset ==
    ASSUME NEW S, IsFiniteSet(S), NEW T \in SUBSET (SUBSET S), T # {}
    PROVE  \E x \in T : \A y \in T : y \subseteq x => y = x
<1>1. IsWellFoundedOn(StrictSubsetOrdering(S), FiniteSubsetsOf(S))
  BY FS_StrictSubsetOrderingWellFounded
<1>2. T \subseteq FiniteSubsetsOf(S)
  BY FS_FiniteSubsetsOfFinite
<1>3. PICK x \in T : \A y \in T : ~ (<<y, x>> \in StrictSubsetOrdering(S))
  BY <1>1, <1>2, WFMin, Zenon
<1>4. ASSUME NEW y \in T, y \subseteq x, y # x
      PROVE  <<y, x>> \in StrictSubsetOrdering(S)
  BY <1>4 DEF StrictSubsetOrdering
<1>5. \A y \in T : y \subseteq x => y = x
  BY <1>3, <1>4, Zenon
<1> QED BY <1>5

\* The element the library's fold takes first.
Chosen(s) == CHOOSE x \in s : TRUE

LEMMA ChosenIn == ASSUME NEW s, s # {} PROVE Chosen(s) \in s
BY DEF Chosen

\* f is the function of partial sums of w over the subsets of S.
IsSumOver(f, w, S) ==
    f = [s \in SUBSET S |->
            IF s = {} THEN 0 ELSE w[Chosen(s)] + f[s \ {Chosen(s)}]]

LEMMA SumUnfold ==
    ASSUME NEW w, NEW S
    PROVE  SumFunctionOnSet(w, S) = (CHOOSE f : IsSumOver(f, w, S))[S]
BY Zenon DEF SumFunctionOnSet, FoldFunctionOnSet, MapThenFoldSet,
             IsSumOver, Chosen

\* Two functions of partial sums agree where both are defined.
LEMMA SumsAgree ==
    ASSUME NEW w, NEW S, IsFiniteSet(S), NEW f, IsSumOver(f, w, S),
           NEW T, NEW g, IsSumOver(g, w, T), NEW s, s \subseteq S, s \subseteq T
    PROVE  f[s] = g[s]
<1> DEFINE Bad == {t \in SUBSET s : f[t] # g[t]}
<1>0. IsFiniteSet(s)
  BY FS_Subset
<1>1. SUFFICES ASSUME Bad # {} PROVE FALSE
  BY <1>1
<1>2. PICK t \in Bad : \A y \in Bad : y \subseteq t => y = t
  <2>1. Bad \in SUBSET (SUBSET s)
    OBVIOUS
  <2> HIDE DEF Bad
  <2> QED BY <1>0, <1>1, <2>1, MinimalSubset
<1>3. t \in SUBSET S /\ t \in SUBSET T /\ f[t] # g[t]
  BY <1>2
<1>4. t # {}
  BY <1>3 DEF IsSumOver
<1> DEFINE u == t \ {Chosen(t)}
<1>5. u \subseteq t /\ u # t
  BY <1>4, ChosenIn
<1>6. f[u] = g[u]
  BY <1>2, <1>5, <1>3
<1>7. f[t] = w[Chosen(t)] + f[u]
  BY <1>3, <1>4 DEF IsSumOver
<1>8. g[t] = w[Chosen(t)] + g[u]
  BY <1>3, <1>4 DEF IsSumOver
<1> QED BY <1>3, <1>6, <1>7, <1>8

\* A finite set has a function of partial sums.
LEMMA SumExists ==
    ASSUME NEW w, NEW S, IsFiniteSet(S)
    PROVE  \E f : IsSumOver(f, w, S)
<1> DEFINE Bad == {t \in SUBSET S : ~ \E f : IsSumOver(f, w, t)}
<1>1. SUFFICES ASSUME Bad # {} PROVE FALSE
  BY <1>1
<1>2. PICK t \in Bad : \A y \in Bad : y \subseteq t => y = t
  <2>1. Bad \in SUBSET (SUBSET S)
    OBVIOUS
  <2> HIDE DEF Bad
  <2> QED BY <1>1, <2>1, MinimalSubset
<1> DEFINE G(u) == CHOOSE f : IsSumOver(f, w, u)
           c    == Chosen(t)
           h    == [s \in SUBSET t |->
                      IF s = {} THEN 0
                      ELSE IF s = t THEN w[c] + G(t \ {c})[t \ {c}]
                      ELSE G(s)[s]]
<1>3. ASSUME NEW u, u \subseteq t, u # t
      PROVE  IsSumOver(G(u), w, u) /\ IsFiniteSet(u)
  <2>1. \E f : IsSumOver(f, w, u)
    BY <1>2, <1>3
  <2> QED BY <2>1, <1>3, FS_Subset
<1>4. ASSUME NEW s \in SUBSET t, s # {}
      PROVE  h[s] = w[Chosen(s)] + h[s \ {Chosen(s)}]
  <2> DEFINE r == s \ {Chosen(s)}
  <2>1. r \subseteq s /\ r # s /\ r \subseteq t /\ r # t
    BY <1>4, ChosenIn
  <2>2. h[r] = G(r)[r]
    <3>1. CASE r = {}
      <4>1. G(r)[r] = 0
        BY <1>3, <2>1, <3>1 DEF IsSumOver
      <4> QED BY <4>1, <3>1
    <3>2. CASE r # {}
      BY <3>2, <2>1
    <3> QED BY <3>1, <3>2
  <2>3. CASE s = t
    BY <2>3, <2>2, <1>4
  <2>4. CASE s # t
    <3>1. h[s] = G(s)[s]
      BY <2>4, <1>4
    <3>2. IsSumOver(G(s), w, s) /\ IsFiniteSet(s)
      BY <1>3, <2>4
    <3>3. IsSumOver(G(r), w, r)
      BY <1>3, <2>1
    <3>4. G(s)[r] = G(r)[r]
      BY <3>2, <3>3, <2>1, SumsAgree
    <3>5. G(s)[s] = w[Chosen(s)] + G(s)[r]
      BY <3>2, <1>4 DEF IsSumOver
    <3> QED BY <3>1, <3>4, <3>5, <2>2
  <2> QED BY <2>3, <2>4
<1>5. h = [s \in SUBSET t |->
             IF s = {} THEN 0 ELSE w[Chosen(s)] + h[s \ {Chosen(s)}]]
  <2>1. h[{}] = 0
    OBVIOUS
  <2> HIDE DEF h
  <2>2. h = [s \in SUBSET t |-> h[s]]
    BY DEF h
  <2> QED BY <2>1, <2>2, <1>4
<1>6. IsSumOver(h, w, t)
  BY <1>5, Zenon DEF IsSumOver
<1> QED BY <1>2, <1>6

\* The sum of a finite set is the first element's weight and the rest's sum.
LEMMA SumStep ==
    ASSUME NEW w, NEW S, IsFiniteSet(S)
    PROVE  SumFunctionOnSet(w, S) =
             IF S = {} THEN 0
             ELSE w[Chosen(S)] + SumFunctionOnSet(w, S \ {Chosen(S)})
<1> DEFINE f == CHOOSE f : IsSumOver(f, w, S)
           R == S \ {Chosen(S)}
           g == CHOOSE g : IsSumOver(g, w, R)
<1>1. IsSumOver(f, w, S)
  BY SumExists
<1>2. IsFiniteSet(R)
  BY FS_RemoveElement
<1>3. IsSumOver(g, w, R)
  BY <1>2, SumExists
<1>4. f[R] = g[R]
  <2>1. R \subseteq S
    OBVIOUS
  <2> HIDE DEF f, g, R
  <2> QED BY <1>1, <1>2, <1>3, <2>1, SumsAgree
<1>5. SumFunctionOnSet(w, S) = f[S] /\ SumFunctionOnSet(w, R) = g[R]
  BY SumUnfold
<1>6. f[S] = IF S = {} THEN 0 ELSE w[Chosen(S)] + f[R]
  BY <1>1 DEF IsSumOver
<1> QED BY <1>4, <1>5, <1>6

LEMMA SumEmpty == ASSUME NEW w PROVE SumFunctionOnSet(w, {}) = 0
BY SumStep, FS_EmptySet

\* A sum of naturals over a finite set is a natural.
LEMMA SumType ==
    ASSUME NEW S, IsFiniteSet(S), NEW w, \A x \in S : w[x] \in Nat
    PROVE  SumFunctionOnSet(w, S) \in Nat
<1> DEFINE Bad == {t \in SUBSET S : SumFunctionOnSet(w, t) \notin Nat}
<1>1. SUFFICES ASSUME Bad # {} PROVE FALSE
  BY <1>1
<1>2. PICK t \in Bad : \A y \in Bad : y \subseteq t => y = t
  <2>1. Bad \in SUBSET (SUBSET S)
    OBVIOUS
  <2> HIDE DEF Bad
  <2> QED BY <1>1, <2>1, MinimalSubset
<1>3. t \in SUBSET S /\ IsFiniteSet(t) /\ SumFunctionOnSet(w, t) \notin Nat
  BY <1>2, FS_Subset
<1>4. t # {}
  BY <1>3, SumEmpty
<1>5. SumFunctionOnSet(w, t \ {Chosen(t)}) \in Nat
  BY <1>2, <1>3, <1>4, ChosenIn
<1>6. w[Chosen(t)] \in Nat
  BY <1>3, <1>4, ChosenIn
<1> QED BY <1>3, <1>4, <1>5, <1>6, SumStep

\* The sum over a set depends on the weights of its elements only.
LEMMA SumSameWeights ==
    ASSUME NEW S, IsFiniteSet(S), NEW w, NEW v, \A x \in S : w[x] = v[x]
    PROVE  SumFunctionOnSet(w, S) = SumFunctionOnSet(v, S)
<1> DEFINE Bad == {t \in SUBSET S :
                     SumFunctionOnSet(w, t) # SumFunctionOnSet(v, t)}
<1>1. SUFFICES ASSUME Bad # {} PROVE FALSE
  BY <1>1
<1>2. PICK t \in Bad : \A y \in Bad : y \subseteq t => y = t
  <2>1. Bad \in SUBSET (SUBSET S)
    OBVIOUS
  <2> HIDE DEF Bad
  <2> QED BY <1>1, <2>1, MinimalSubset
<1>3. /\ t \in SUBSET S /\ IsFiniteSet(t)
      /\ SumFunctionOnSet(w, t) # SumFunctionOnSet(v, t)
  BY <1>2, FS_Subset
<1>4. t # {}
  BY <1>3, SumEmpty
<1>5. SumFunctionOnSet(w, t \ {Chosen(t)}) = SumFunctionOnSet(v, t \ {Chosen(t)})
  BY <1>2, <1>3, <1>4, ChosenIn
<1>6. w[Chosen(t)] = v[Chosen(t)]
  BY <1>3, <1>4, ChosenIn
<1> QED BY <1>3, <1>4, <1>5, <1>6, SumStep

\* Smaller weights have a smaller sum.
LEMMA SumMonotone ==
    ASSUME NEW S, IsFiniteSet(S), NEW w, NEW v,
           \A x \in S : w[x] \in Nat /\ v[x] \in Nat /\ w[x] <= v[x]
    PROVE  SumFunctionOnSet(w, S) <= SumFunctionOnSet(v, S)
<1> DEFINE Bad == {t \in SUBSET S : ~(SumFunctionOnSet(w, t) <= SumFunctionOnSet(v, t))}
<1>1. SUFFICES ASSUME Bad # {} PROVE FALSE
  BY <1>1
<1>2. PICK t \in Bad : \A y \in Bad : y \subseteq t => y = t
  <2>1. Bad \in SUBSET (SUBSET S)
    OBVIOUS
  <2> HIDE DEF Bad
  <2> QED BY <1>1, <2>1, MinimalSubset
<1>3. /\ t \in SUBSET S /\ IsFiniteSet(t)
      /\ ~(SumFunctionOnSet(w, t) <= SumFunctionOnSet(v, t))
  BY <1>2, FS_Subset
<1>4. t # {}
  BY <1>3, SumEmpty
<1> DEFINE r == t \ {Chosen(t)}
<1>5. SumFunctionOnSet(w, r) <= SumFunctionOnSet(v, r)
  BY <1>2, <1>3, <1>4, ChosenIn
<1>6. Chosen(t) \in S /\ r \in SUBSET S
  BY <1>3, <1>4, ChosenIn
<1>7. SumFunctionOnSet(w, r) \in Nat /\ SumFunctionOnSet(v, r) \in Nat
  BY <1>6, FS_Subset, SumType
<1>8. /\ SumFunctionOnSet(w, t) = w[Chosen(t)] + SumFunctionOnSet(w, r)
      /\ SumFunctionOnSet(v, t) = v[Chosen(t)] + SumFunctionOnSet(v, r)
  BY <1>3, <1>4, SumStep
<1> HIDE DEF r
<1> QED BY <1>3, <1>5, <1>6, <1>7, <1>8

\* Any element can be taken out of a sum.
LEMMA SumRemove ==
    ASSUME NEW S, IsFiniteSet(S), NEW w, \A y \in S : w[y] \in Nat,
           NEW x \in S
    PROVE  SumFunctionOnSet(w, S) = w[x] + SumFunctionOnSet(w, S \ {x})
<1> DEFINE Sum(t) == SumFunctionOnSet(w, t)
           Bad == {t \in SUBSET S : \E e \in t : Sum(t) # w[e] + Sum(t \ {e})}
<1>1. SUFFICES ASSUME Bad # {} PROVE FALSE
  BY <1>1
<1>2. PICK t \in Bad : \A y \in Bad : y \subseteq t => y = t
  <2>1. Bad \in SUBSET (SUBSET S)
    OBVIOUS
  <2> HIDE DEF Bad
  <2> QED BY <1>1, <2>1, MinimalSubset
<1>3. PICK e \in t : Sum(t) # w[e] + Sum(t \ {e})
  BY <1>2
<1> DEFINE c == Chosen(t)
<1>4. c \in t /\ t \in SUBSET S
  BY <1>2, <1>3, ChosenIn
<1>5. \A u \in SUBSET S : IsFiniteSet(u) /\ Sum(u) \in Nat
  BY FS_Subset, SumType
<1>6. Sum(t) = w[c] + Sum(t \ {c})
  BY <1>4, <1>5, SumStep
<1>7. c # e
  BY <1>3, <1>6
<1> DEFINE r == (t \ {e}) \ {c}
<1>8. Sum(t \ {c}) = w[e] + Sum(r)
  <2>1. t \ {c} \in SUBSET S /\ t \ {c} \subseteq t /\ t \ {c} # t
    BY <1>4
  <2>2. t \ {c} \notin Bad
    BY <1>2, <2>1, Zenon
  <2>3. e \in t \ {c}
    BY <1>3, <1>7
  <2>4. (t \ {c}) \ {e} = r
    OBVIOUS
  <2> QED BY <2>1, <2>2, <2>3, <2>4
<1>9. Sum(t \ {e}) = w[c] + Sum(r)
  <2>1. t \ {e} \in SUBSET S /\ t \ {e} \subseteq t /\ t \ {e} # t
    BY <1>4
  <2>2. t \ {e} \notin Bad
    BY <1>2, <2>1, Zenon
  <2> QED BY <1>4, <1>7, <2>1, <2>2
<1>10. w[c] \in Nat /\ w[e] \in Nat /\ Sum(r) \in Nat
  BY <1>4, <1>5
<1> HIDE DEF Sum, c, r
<1> QED BY <1>3, <1>6, <1>8, <1>9, <1>10

\* ... and any new element can be added to it.
LEMMA SumAdd ==
    ASSUME NEW S, IsFiniteSet(S), NEW x, x \notin S,
           NEW w, \A y \in S \cup {x} : w[y] \in Nat
    PROVE  SumFunctionOnSet(w, S \cup {x}) = w[x] + SumFunctionOnSet(w, S)
<1>1. IsFiniteSet(S \cup {x})
  BY FS_AddElement
<1>2. (S \cup {x}) \ {x} = S
  OBVIOUS
<1> QED BY <1>1, <1>2, SumRemove

----------------------------------------------------------------------------
\* Induction over an interval, stated with a set.
LEMMA IntervalInduction ==
    ASSUME NEW n \in Nat, NEW P, 0 \in P,
           \A i \in 1..n : i - 1 \in P => i \in P
    PROVE  0..n \subseteq P
<1> DEFINE Bad == {0..i : i \in (0..n) \ P}
<1>1. SUFFICES ASSUME Bad # {} PROVE FALSE
  OBVIOUS
<1>2. IsFiniteSet(0..n)
  BY FS_Interval
<1>3. Bad \in SUBSET (SUBSET (0..n))
  OBVIOUS
<1>4. PICK x \in Bad : \A y \in Bad : y \subseteq x => y = x
  <2> DEFINE S == 0..n
  <2>1. IsFiniteSet(S) /\ Bad \in SUBSET (SUBSET S) /\ Bad # {}
    BY <1>1, <1>2, <1>3
  <2> HIDE DEF Bad, S
  <2> QED BY <2>1, MinimalSubset
<1>5. PICK i \in (0..n) \ P : x = 0..i
  BY <1>4
<1>6. i \in 1..n /\ i - 1 \in (0..n) \ P
  BY <1>5
<1>7. 0..(i - 1) \in Bad /\ 0..(i - 1) \subseteq x
  BY <1>5, <1>6
<1>8. i \in x /\ i \notin 0..(i - 1)
  BY <1>5, <1>6
<1> QED BY <1>4, <1>7, <1>8

\* A step that stays in X can be taken n times from b \in X.
Steps(n, X) == [1..n -> [X -> X]]

Iterations(n, X, b, step) ==
    {g \in [0..n -> X] : g[0] = b /\ \A i \in 1..n : g[i] = step[i][g[i - 1]]}

LEMMA Iterates ==
    ASSUME NEW n \in Nat, NEW X, NEW b \in X, NEW step \in Steps(n, X)
    PROVE  \E g : g \in Iterations(n, X, b, step)
<1> USE DEF Steps
<1> DEFINE Run(g, m) == /\ g \in [0..m -> X]
                        /\ g[0] = b
                        /\ \A i \in 1..m : g[i] = step[i][g[i - 1]]
           P == {m \in 0..n : \E g : Run(g, m)}
<1>1. 0 \in P
  <2> DEFINE g0 == [i \in 0..0 |-> b]
  <2>1. g0 \in [0..0 -> X] /\ g0[0] = b
    OBVIOUS
  <2>2. Run(g0, 0)
    BY <2>1
  <2> HIDE DEF g0, Run
  <2> QED BY <2>2
<1>2. ASSUME NEW m \in 1..n, m - 1 \in P PROVE m \in P
  <2>1. PICK g : Run(g, m - 1)
    BY <1>2
  <2> DEFINE h == [i \in 0..m |-> IF i = m THEN step[m][g[m - 1]] ELSE g[i]]
  <2>2. g[m - 1] \in X
    BY <2>1
  <2>3. step[m][g[m - 1]] \in X
    BY <2>2
  <2>4. \A i \in 0..(m - 1) : i \in 0..m /\ i # m /\ g[i] \in X
    BY <2>1
  <2>5. h \in [0..m -> X]
    BY <2>3, <2>4
  <2>6. h[0] = b
    BY <2>1
  <2>7. ASSUME NEW i \in 1..m PROVE h[i] = step[i][h[i - 1]]
    <3>1. h[i - 1] = g[i - 1]
      BY <2>7
    <3>2. CASE i = m
      BY <3>1, <3>2
    <3>3. CASE i # m
      BY <3>1, <3>3, <2>1
    <3> QED BY <3>2, <3>3
  <2>8. Run(h, m)
    BY <2>5, <2>6, <2>7
  <2> HIDE DEF h
  <2> QED BY <2>8
<1>3. n \in P
  <2> HIDE DEF P
  <2>1. 0..n \subseteq P
    BY <1>1, <1>2, IntervalInduction
  <2> QED BY <2>1
<1> QED BY <1>3 DEF Iterations

=============================================================================
