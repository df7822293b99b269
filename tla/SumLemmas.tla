------------------------------ MODULE SumLemmas -----------------------------
(***************************************************************************)
(* What SumOf computes on a finite set.  It folds the set in an order only *)
(* CHOOSE knows, through a function defined on the set's subsets.  The     *)
(* first lemmas show that such a function exists and is unique, by         *)
(* induction over the subsets ordered by inclusion; the others, that the   *)
(* order does not matter and how a sum moves with its set and its terms.   *)
(***************************************************************************)
EXTENDS Sums, FiniteSetTheorems, WellFoundedInduction, TLAPS

Pick(s) == CHOOSE y \in s : TRUE

IsSum(g, f, S) ==
  g = [s \in SUBSET S |-> IF s = {} THEN 0 ELSE f[Pick(s)] + g[s \ {Pick(s)}]]

Ints(f, S) == \A x \in S : f[x] \in Int
Nats(f, S) == \A x \in S : f[x] \in Nat

\* SumOf is the value, at the whole set, of the function it defines.
LEMMA Unfold ==
  ASSUME NEW f, NEW S
  PROVE  SumOf(f, S) = (CHOOSE g : IsSum(g, f, S))[S]
BY DEF SumOf, IsSum, MapThenSumSet, MapThenFoldSet, Pick

\* Induction over the subsets of a finite set, on a set instead of a predicate.
LEMMA SubsetInduction ==
  ASSUME NEW S, IsFiniteSet(S), NEW X,
         \A T \in SUBSET S : (\A U \in SUBSET T : U # T => U \in X) => T \in X
  PROVE  \A T \in SUBSET S : T \in X
<1> SUFFICES ASSUME (SUBSET S) \ X # {} PROVE FALSE
  OBVIOUS
<1>1. IsWellFoundedOn(StrictSubsetOrdering(S), SUBSET S)
  <2>1. IsWellFoundedOn(StrictSubsetOrdering(S), FiniteSubsetsOf(S))
    BY FS_StrictSubsetOrderingWellFounded
  <2> QED
    BY <2>1, FS_FiniteSubsetsOfFinite, Zenon
<1>2. PICK T \in (SUBSET S) \ X : \A U \in (SUBSET S) \ X : ~ (<<U, T>> \in StrictSubsetOrdering(S))
  <2> DEFINE R == StrictSubsetOrdering(S)
             D == SUBSET S
             M == D \ X
  <2>1. IsWellFoundedOn(R, D) /\ M \subseteq D /\ M # {}
    BY <1>1
  <2> HIDE DEF R, D, M
  <2>2. \E T \in M : \A U \in M : ~ (<<U, T>> \in R)
    BY <2>1, WFMin
  <2> QED
    BY <2>2 DEF R, D, M
<1>3. ASSUME NEW U \in SUBSET T, U # T PROVE U \in X
  <2>1. U \in SUBSET S /\ T \in SUBSET S
    BY <1>2
  <2>2. <<U, T>> \in (SUBSET S) \X (SUBSET S) /\ <<U, T>>[1] = U /\ <<U, T>>[2] = T
    BY <2>1
  <2>3. <<U, T>> \in StrictSubsetOrdering(S)
    BY <1>3, <2>2 DEF StrictSubsetOrdering
  <2> QED
    BY <1>2, <2>1, <2>3
<1> QED
  BY <1>2, <1>3

\* An element picked from a set that is not empty is one of its elements.
LEMMA PickIn == ASSUME NEW s, s # {} PROVE Pick(s) \in s
BY DEF Pick

\* What the function's recursion says at one subset.
LEMMA SumStep ==
  ASSUME NEW f, NEW S, NEW g, IsSum(g, f, S), NEW s \in SUBSET S
  PROVE  g[s] = IF s = {} THEN 0 ELSE f[Pick(s)] + g[s \ {Pick(s)}]
<1> DEFINE G == [t \in SUBSET S |-> IF t = {} THEN 0 ELSE f[Pick(t)] + g[t \ {Pick(t)}]]
<1>1. g = G
  BY DEF IsSum
<1>2. G[s] = IF s = {} THEN 0 ELSE f[Pick(s)] + g[s \ {Pick(s)}]
  OBVIOUS
<1> HIDE DEF G
<1> QED
  BY <1>1, <1>2

\* There is at most one such function.
LEMMA SumUnique ==
  ASSUME NEW f, NEW S, IsFiniteSet(S), NEW g, NEW h, IsSum(g, f, S), IsSum(h, f, S)
  PROVE  g = h
<1> DEFINE X == {s \in SUBSET S : g[s] = h[s]}
<1>1. ASSUME NEW T \in SUBSET S, \A U \in SUBSET T : U # T => U \in X
      PROVE  T \in X
  <2>1. CASE T = {}
    BY <2>1, SumStep
  <2>2. CASE T # {}
    <3>1. T \ {Pick(T)} \in SUBSET T /\ T \ {Pick(T)} # T
      BY <2>2, PickIn
    <3>2. g[T \ {Pick(T)}] = h[T \ {Pick(T)}]
      BY <1>1, <3>1
    <3> QED
      BY <2>2, <3>2, SumStep
  <2> QED
    BY <2>1, <2>2
<1>2. \A T \in SUBSET S : T \in X
  <2> HIDE DEF X
  <2> QED
    BY <1>1, SubsetInduction
<1>3. DOMAIN g = SUBSET S /\ DOMAIN h = SUBSET S
      /\ g = [s \in DOMAIN g |-> g[s]] /\ h = [s \in DOMAIN h |-> h[s]]
  BY DEF IsSum
<1> QED
  BY <1>2, <1>3

\* The function of a set, cut down to a subset, is the subset's.
LEMMA SumCut ==
  ASSUME NEW f, NEW S, NEW g, IsSum(g, f, S), NEW T \in SUBSET S
  PROVE  IsSum([s \in SUBSET T |-> g[s]], f, T)
<1> DEFINE h == [s \in SUBSET T |-> g[s]]
           k == [s \in SUBSET T |-> IF s = {} THEN 0 ELSE f[Pick(s)] + h[s \ {Pick(s)}]]
<1>1. ASSUME NEW s \in SUBSET T PROVE h[s] = k[s]
  <2>1. h[s] = g[s] /\ (s # {} => h[s \ {Pick(s)}] = g[s \ {Pick(s)}])
    OBVIOUS
  <2>2. k[s] = IF s = {} THEN 0 ELSE f[Pick(s)] + h[s \ {Pick(s)}]
    OBVIOUS
  <2>3. s \in SUBSET S
    OBVIOUS
  <2> HIDE DEF h, k
  <2> QED
    BY <2>1, <2>2, <2>3, SumStep
<1>2. h = k
  BY <1>1
<1> QED
  BY <1>2 DEF IsSum

\* There is one.
LEMMA SumExists ==
  ASSUME NEW f, NEW S, IsFiniteSet(S)
  PROVE  \E g : IsSum(g, f, S)
<1> DEFINE X == {T \in SUBSET S : \E g : IsSum(g, f, T)}
           H(T) == CHOOSE g : IsSum(g, f, T)
<1>1. ASSUME NEW T \in SUBSET S, \A U \in SUBSET T : U # T => U \in X
      PROVE  T \in X
  <2> DEFINE G == [s \in SUBSET T |-> IF s = {} THEN 0 ELSE f[Pick(s)] + H(s \ {Pick(s)})[s \ {Pick(s)}]]
  <2>1. ASSUME NEW u \in SUBSET T, u # T PROVE G[u] = H(u)[u]
    <3>1. IsSum(H(u), f, u)
      BY <1>1, <2>1
    <3>2. CASE u = {}
      BY <3>1, <3>2, SumStep
    <3>3. CASE u # {}
      <4> DEFINE v == u \ {Pick(u)}
      <4>1. v \in SUBSET u /\ v \in SUBSET T /\ v # T /\ v \in SUBSET S
        BY <2>1
      <4>2. IsSum(H(v), f, v)
        BY <1>1, <4>1
      <4>3. IsSum([s \in SUBSET v |-> H(u)[s]], f, v)
        BY <3>1, <4>1, SumCut
      <4>4. IsFiniteSet(v)
        BY <4>1, FS_Subset
      <4>5. H(v) = [s \in SUBSET v |-> H(u)[s]]
        <5> HIDE DEF H, v
        <5> QED
        BY <4>2, <4>3, <4>4, SumUnique
      <4>6. H(v)[v] = H(u)[v]
        <5> HIDE DEF H, v
        <5> QED
        BY <4>5
      <4>7. H(u)[u] = f[Pick(u)] + H(u)[v]
        <5> HIDE DEF H
        <5> QED
        BY <3>1, <3>3, SumStep
      <4>8. G[u] = f[Pick(u)] + H(v)[v]
        BY <3>3
      <4> HIDE DEF G, H, v
      <4> QED
        BY <4>6, <4>7, <4>8
    <3> QED
      BY <3>2, <3>3
  <2> DEFINE K == [s \in SUBSET T |-> IF s = {} THEN 0 ELSE f[Pick(s)] + G[s \ {Pick(s)}]]
  <2>2. ASSUME NEW s \in SUBSET T PROVE G[s] = K[s]
    <3>1. CASE s = {}
      BY <3>1
    <3>2. CASE s # {}
      <4>1. s \ {Pick(s)} \in SUBSET T /\ s \ {Pick(s)} # T
        BY <3>2, PickIn
      <4>2. G[s \ {Pick(s)}] = H(s \ {Pick(s)})[s \ {Pick(s)}]
        BY <2>1, <4>1
      <4>3. G[s] = f[Pick(s)] + H(s \ {Pick(s)})[s \ {Pick(s)}]
        BY <3>2
      <4>4. K[s] = f[Pick(s)] + G[s \ {Pick(s)}]
        BY <3>2
      <4> HIDE DEF G, H, K
      <4> QED
        BY <4>2, <4>3, <4>4
    <3> QED
      BY <3>1, <3>2
  <2>3. G = K
    BY <2>2
  <2>4. IsSum(G, f, T)
    BY <2>3 DEF IsSum
  <2> HIDE DEF G
  <2> QED
    BY <2>4
<1>2. \A T \in SUBSET S : T \in X
  <2> HIDE DEF X
  <2> QED
    BY <1>1, SubsetInduction
<1> QED
  BY <1>2

-----------------------------------------------------------------------------
(* The recursion SumOf follows, and that its order does not matter. *)

\* The function of a set also sums every subset.
LEMMA SumAt ==
  ASSUME NEW f, NEW S, IsFiniteSet(S), NEW g, IsSum(g, f, S), NEW T \in SUBSET S
  PROVE  SumOf(f, T) = g[T]
<1> DEFINE h == CHOOSE k : IsSum(k, f, T)
<1>1. IsFiniteSet(T)
  BY FS_Subset
<1>2. IsSum(h, f, T)
  BY <1>1, SumExists
<1>3. IsSum([s \in SUBSET T |-> g[s]], f, T)
  BY SumCut
<1>4. h = [s \in SUBSET T |-> g[s]]
  <2> HIDE DEF h
  <2> QED
    BY <1>1, <1>2, <1>3, SumUnique
<1>5. h[T] = g[T]
  <2> HIDE DEF h
  <2> QED
    BY <1>4
<1> QED
  BY <1>5, Unfold

\* The sum over a set with a first element, as the fold computes it.
LEMMA SumPick ==
  ASSUME NEW f, NEW S, IsFiniteSet(S)
  PROVE  SumOf(f, S) = IF S = {} THEN 0 ELSE f[Pick(S)] + SumOf(f, S \ {Pick(S)})
<1>1. PICK g : IsSum(g, f, S)
  BY SumExists
<1>2. SumOf(f, S) = g[S] /\ SumOf(f, S \ {Pick(S)}) = g[S \ {Pick(S)}]
  BY <1>1, SumAt
<1> QED
  BY <1>1, <1>2, SumStep

\* Nothing sums to nothing.
LEMMA SumEmpty == ASSUME NEW f PROVE SumOf(f, {}) = 0
BY SumPick, FS_EmptySet

\* Terms that are integers sum to an integer.
LEMMA SumInt ==
  ASSUME NEW f, NEW S, IsFiniteSet(S), Ints(f, S)
  PROVE  SumOf(f, S) \in Int
<1> DEFINE X == {T \in SUBSET S : SumOf(f, T) \in Int}
<1>1. ASSUME NEW T \in SUBSET S, \A U \in SUBSET T : U # T => U \in X
      PROVE  T \in X
  <2>1. IsFiniteSet(T)
    BY FS_Subset
  <2>2. CASE T = {}
    BY <2>2, SumEmpty
  <2>3. CASE T # {}
    <3>1. Pick(T) \in S /\ T \ {Pick(T)} \in SUBSET T /\ T \ {Pick(T)} # T
      BY <2>3, PickIn
    <3>2. SumOf(f, T \ {Pick(T)}) \in Int
      BY <1>1, <3>1
    <3>3. f[Pick(T)] \in Int
      BY <3>1 DEF Ints
    <3> QED
      BY <2>1, <2>3, <3>2, <3>3, SumPick
  <2> QED
    BY <2>2, <2>3
<1>2. \A T \in SUBSET S : T \in X
  <2> HIDE DEF X
  <2> QED
    BY <1>1, SubsetInduction
<1> QED
  BY <1>2

\* Any element may be taken out first.
LEMMA SumRemove ==
  ASSUME NEW f, NEW S, IsFiniteSet(S), Ints(f, S), NEW x \in S
  PROVE  SumOf(f, S) = f[x] + SumOf(f, S \ {x})
<1> DEFINE X == {T \in SUBSET S : \A y \in T : SumOf(f, T) = f[y] + SumOf(f, T \ {y})}
<1>1. ASSUME NEW T \in SUBSET S, \A U \in SUBSET T : U # T => U \in X
      PROVE  T \in X
  <2> SUFFICES ASSUME NEW y \in T PROVE SumOf(f, T) = f[y] + SumOf(f, T \ {y})
    OBVIOUS
  <2> DEFINE p == Pick(T)
             V == (T \ {p}) \ {y}
  <2>1. IsFiniteSet(T) /\ IsFiniteSet(T \ {p}) /\ IsFiniteSet(T \ {y}) /\ IsFiniteSet(V)
    BY FS_Subset
  <2>2. p \in T
    BY PickIn
  <2>3. SumOf(f, T) = f[p] + SumOf(f, T \ {p})
    BY <2>1, SumPick
  <2>4. CASE y = p
    BY <2>3, <2>4
  <2>5. CASE y # p
    <3>1. T \ {p} \in X /\ T \ {y} \in X
      BY <1>1, <2>2
    <3>2. SumOf(f, T \ {p}) = f[y] + SumOf(f, V)
      BY <2>5, <3>1
    <3>3. (T \ {y}) \ {p} = V /\ p \in T \ {y}
      BY <2>2, <2>5
    <3>4. SumOf(f, T \ {y}) = f[p] + SumOf(f, V)
      BY <3>1, <3>3
    <3>5. f[p] \in Int /\ f[y] \in Int /\ SumOf(f, V) \in Int
      <4>1. Ints(f, V)
        BY DEF Ints
      <4> QED
        BY <2>1, <2>2, <4>1, SumInt DEF Ints
    <3> HIDE DEF p, V
    <3> QED
      BY <2>3, <3>2, <3>4, <3>5
  <2> QED
    BY <2>4, <2>5
<1>2. \A T \in SUBSET S : T \in X
  <2> HIDE DEF X
  <2> QED
    BY <1>1, SubsetInduction
<1>3. S \in X
  BY <1>2
<1> QED
  BY <1>3

\* One more element adds its term.
LEMMA SumAdd ==
  ASSUME NEW f, NEW S, IsFiniteSet(S), NEW x, x \notin S, Ints(f, S \cup {x})
  PROVE  SumOf(f, S \cup {x}) = f[x] + SumOf(f, S)
<1>1. IsFiniteSet(S \cup {x}) /\ (S \cup {x}) \ {x} = S
  BY FS_AddElement
<1> QED
  BY <1>1, SumRemove

\* Sums over one element.
LEMMA SumSingle ==
  ASSUME NEW f, NEW x, f[x] \in Int
  PROVE  SumOf(f, {x}) = f[x]
<1>1. SumOf(f, {x}) = f[x] + SumOf(f, {x} \ {x})
  BY FS_Singleton, SumRemove DEF Ints
<1>2. {x} \ {x} = {}
  OBVIOUS
<1> QED
  BY <1>1, <1>2, SumEmpty

-----------------------------------------------------------------------------
(* Sums of related functions. *)

\* The sum of two functions' sums: with a zero function, that equal functions
\* have equal sums.
LEMMA SumPlus ==
  ASSUME NEW f, NEW g, NEW h, NEW S, IsFiniteSet(S), Ints(f, S), Ints(g, S),
         \A x \in S : h[x] = f[x] + g[x]
  PROVE  SumOf(h, S) = SumOf(f, S) + SumOf(g, S)
<1> DEFINE X == {T \in SUBSET S : SumOf(h, T) = SumOf(f, T) + SumOf(g, T)}
<1>1. ASSUME NEW T \in SUBSET S, \A U \in SUBSET T : U # T => U \in X
      PROVE  T \in X
  <2>1. CASE T = {}
    BY <2>1, SumEmpty
  <2>2. CASE T # {}
    <3> DEFINE p == Pick(T)
               U == T \ {p}
    <3>1. IsFiniteSet(T) /\ IsFiniteSet(U)
      BY FS_Subset
    <3>2. p \in T /\ p \in S
      BY <2>2, PickIn
    <3>3. SumOf(h, U) = SumOf(f, U) + SumOf(g, U)
      BY <1>1, <3>2
    <3>4. Ints(f, U) /\ Ints(g, U)
      BY DEF Ints
    <3>5. SumOf(f, U) \in Int /\ SumOf(g, U) \in Int
      BY <3>1, <3>4, SumInt
    <3>6. f[p] \in Int /\ g[p] \in Int /\ h[p] = f[p] + g[p]
      BY <3>2 DEF Ints
    <3>7. /\ SumOf(h, T) = h[p] + SumOf(h, U)
          /\ SumOf(f, T) = f[p] + SumOf(f, U)
          /\ SumOf(g, T) = g[p] + SumOf(g, U)
      BY <2>2, <3>1, SumPick
    <3> HIDE DEF p, U
    <3> QED
      BY <3>3, <3>5, <3>6, <3>7
  <2> QED
    BY <2>1, <2>2
<1>2. \A T \in SUBSET S : T \in X
  <2> HIDE DEF X
  <2> QED
    BY <1>1, SubsetInduction
<1>3. S \in X
  BY <1>2
<1> QED
  BY <1>3

\* A function that is zero on the set sums to zero.
LEMMA SumZero ==
  ASSUME NEW f, NEW S, IsFiniteSet(S), \A x \in S : f[x] = 0
  PROVE  SumOf(f, S) = 0
<1>1. Ints(f, S)
  BY DEF Ints
<1>2. SumOf(f, S) = SumOf(f, S) + SumOf(f, S)
  BY <1>1, SumPlus
<1>3. SumOf(f, S) \in Int
  BY <1>1, SumInt
<1>4. \A n \in Int : n = n + n => n = 0
  OBVIOUS
<1> QED
  BY <1>2, <1>3, <1>4, Zenon

\* Only the values on the set count.
LEMMA SumSame ==
  ASSUME NEW f, NEW g, NEW S, IsFiniteSet(S), Ints(f, S), \A x \in S : g[x] = f[x]
  PROVE  SumOf(g, S) = SumOf(f, S)
<1> DEFINE z == [x \in S |-> 0]
<1>1. Ints(z, S) /\ \A x \in S : g[x] = f[x] + z[x]
  BY DEF Ints
<1>2. SumOf(z, S) = 0
  <2>1. \A x \in S : z[x] = 0
    OBVIOUS
  <2> HIDE DEF z
  <2> QED
    BY <2>1, SumZero
<1>3. SumOf(g, S) = SumOf(f, S) + SumOf(z, S)
  <2> HIDE DEF z
  <2> QED
    BY <1>1, SumPlus
<1>4. SumOf(f, S) \in Int
  BY SumInt
<1> HIDE DEF z
<1> QED
  BY <1>2, <1>3, <1>4

\* One term changed moves the sum by the change.
LEMMA SumChange ==
  ASSUME NEW f, NEW g, NEW S, IsFiniteSet(S), Ints(f, S), NEW x \in S, g[x] \in Int,
         \A y \in S \ {x} : g[y] = f[y]
  PROVE  SumOf(g, S) = SumOf(f, S) + g[x] - f[x]
<1>1. Ints(g, S) /\ Ints(f, S \ {x})
  BY DEF Ints
<1>2. IsFiniteSet(S \ {x})
  BY FS_Subset
<1>3. SumOf(g, S) = g[x] + SumOf(g, S \ {x}) /\ SumOf(f, S) = f[x] + SumOf(f, S \ {x})
  BY <1>1, SumRemove
<1>4. SumOf(g, S \ {x}) = SumOf(f, S \ {x}) /\ SumOf(f, S \ {x}) \in Int
  BY <1>1, <1>2, SumSame, SumInt
<1> QED
  BY <1>3, <1>4 DEF Ints

\* Terms that are not negative sum to no negative number.
LEMMA SumNat ==
  ASSUME NEW f, NEW S, IsFiniteSet(S), Nats(f, S)
  PROVE  SumOf(f, S) \in Nat
<1> DEFINE X == {T \in SUBSET S : SumOf(f, T) \in Nat}
<1>1. ASSUME NEW T \in SUBSET S, \A U \in SUBSET T : U # T => U \in X
      PROVE  T \in X
  <2>1. IsFiniteSet(T)
    BY FS_Subset
  <2>2. CASE T = {}
    BY <2>2, SumEmpty
  <2>3. CASE T # {}
    <3>1. Pick(T) \in S /\ T \ {Pick(T)} \in SUBSET T /\ T \ {Pick(T)} # T
      BY <2>3, PickIn
    <3>2. SumOf(f, T \ {Pick(T)}) \in Nat /\ f[Pick(T)] \in Nat
      BY <1>1, <3>1 DEF Nats
    <3> QED
      BY <2>1, <2>3, <3>2, SumPick
  <2> QED
    BY <2>2, <2>3
<1>2. \A T \in SUBSET S : T \in X
  <2> HIDE DEF X
  <2> QED
    BY <1>1, SubsetInduction
<1> QED
  BY <1>2

\* A function that is nowhere larger has no larger sum.
LEMMA SumLeq ==
  ASSUME NEW f, NEW g, NEW S, IsFiniteSet(S), Ints(f, S), Ints(g, S), \A x \in S : f[x] <= g[x]
  PROVE  SumOf(f, S) <= SumOf(g, S)
<1> DEFINE d == [x \in S |-> g[x] - f[x]]
<1>1. Nats(d, S) /\ Ints(d, S) /\ \A x \in S : g[x] = f[x] + d[x]
  BY DEF Ints, Nats
<1> HIDE DEF d
<1>2. SumOf(g, S) = SumOf(f, S) + SumOf(d, S)
  BY <1>1, SumPlus
<1>3. SumOf(d, S) \in Nat /\ SumOf(f, S) \in Int
  BY <1>1, SumNat, SumInt
<1> QED
  BY <1>2, <1>3

\* A part of the set, where no term is negative, sums to no more than the whole.
LEMMA SumPart ==
  ASSUME NEW f, NEW S, IsFiniteSet(S), Nats(f, S), NEW T \in SUBSET S
  PROVE  SumOf(f, T) <= SumOf(f, S)
<1> DEFINE X == {U \in SUBSET S : T \subseteq U => SumOf(f, T) <= SumOf(f, U)}
<1>1. ASSUME NEW U \in SUBSET S, \A V \in SUBSET U : V # U => V \in X
      PROVE  U \in X
  <2> SUFFICES ASSUME T \subseteq U, T # U PROVE SumOf(f, T) <= SumOf(f, U)
    <3>1. IsFiniteSet(T) /\ Nats(f, T)
      BY FS_Subset DEF Nats
    <3>2. SumOf(f, T) \in Nat
      BY <3>1, SumNat
    <3> QED
      BY <3>2
  <2>1. PICK x \in U : x \notin T
    OBVIOUS
  <2>2. SumOf(f, T) <= SumOf(f, U \ {x})
    BY <1>1, <2>1
  <2>3. IsFiniteSet(U) /\ IsFiniteSet(U \ {x}) /\ IsFiniteSet(T)
    BY FS_Subset
  <2>4. Ints(f, U) /\ Nats(f, U \ {x}) /\ Nats(f, T) /\ f[x] \in Nat
    BY <2>1 DEF Ints, Nats
  <2>5. SumOf(f, U \ {x}) \in Nat /\ SumOf(f, T) \in Nat
    BY <2>3, <2>4, SumNat
  <2>6. SumOf(f, U) = f[x] + SumOf(f, U \ {x})
    BY <2>1, <2>3, <2>4, SumRemove
  <2> QED
    BY <2>2, <2>4, <2>5, <2>6
<1>2. \A U \in SUBSET S : U \in X
  <2> HIDE DEF X
  <2> QED
    BY <1>1, SubsetInduction
<1>3. S \in X
  BY <1>2
<1> QED
  BY <1>3

\* Where the other terms are zero, a part sums to as much as the whole.
LEMMA SumWithout ==
  ASSUME NEW f, NEW S, IsFiniteSet(S), Ints(f, S), NEW T \in SUBSET S, \A x \in S \ T : f[x] = 0
  PROVE  SumOf(f, S) = SumOf(f, T)
<1> DEFINE X == {U \in SUBSET S : T \subseteq U => SumOf(f, U) = SumOf(f, T)}
<1>1. ASSUME NEW U \in SUBSET S, \A V \in SUBSET U : V # U => V \in X
      PROVE  U \in X
  <2> SUFFICES ASSUME T \subseteq U, T # U PROVE SumOf(f, U) = SumOf(f, T)
    OBVIOUS
  <2>1. PICK x \in U : x \notin T
    OBVIOUS
  <2>2. SumOf(f, U \ {x}) = SumOf(f, T)
    BY <1>1, <2>1
  <2>3. IsFiniteSet(U) /\ IsFiniteSet(T) /\ Ints(f, U) /\ Ints(f, T) /\ f[x] = 0
    BY <2>1, FS_Subset DEF Ints
  <2>4. SumOf(f, T) \in Int
    BY <2>3, SumInt
  <2>5. SumOf(f, U) = f[x] + SumOf(f, U \ {x})
    BY <2>1, <2>3, SumRemove
  <2> QED
    BY <2>2, <2>3, <2>4, <2>5
<1>2. \A U \in SUBSET S : U \in X
  <2> HIDE DEF X
  <2> QED
    BY <1>1, SubsetInduction
<1>3. S \in X
  BY <1>2
<1> QED
  BY <1>3

\* A term is no more than the sum.
LEMMA SumTerm ==
  ASSUME NEW f, NEW S, IsFiniteSet(S), Nats(f, S), NEW x \in S
  PROVE  f[x] <= SumOf(f, S)
<1>1. SumOf(f, {x}) <= SumOf(f, S)
  BY SumPart
<1>2. f[x] \in Int
  BY DEF Nats
<1> QED
  BY <1>1, <1>2, SumSingle

\* A sum does not depend on the names of its terms.
LEMMA SumMapped ==
  ASSUME NEW S, IsFiniteSet(S), NEW f, Ints(f, S), NEW m, \A x, y \in S : m[x] = m[y] => x = y,
         NEW g, \A x \in S : g[m[x]] = f[x], NEW R, R = {m[x] : x \in S}
  PROVE  SumOf(g, R) = SumOf(f, S) /\ IsFiniteSet(R)
<1> DEFINE I(T) == {m[x] : x \in T}
           X == {T \in SUBSET S : SumOf(g, I(T)) = SumOf(f, T) /\ IsFiniteSet(I(T))}
<1>1. ASSUME NEW T \in SUBSET S, \A U \in SUBSET T : U # T => U \in X
      PROVE  T \in X
  <2>1. CASE T = {}
    <3>1. I(T) = {}
      BY <2>1
    <3> QED
      BY <2>1, <3>1, SumEmpty, FS_EmptySet
  <2>2. CASE T # {}
    <3> DEFINE p == Pick(T)
               U == T \ {p}
    <3>1. IsFiniteSet(T) /\ IsFiniteSet(U)
      BY FS_Subset
    <3>2. p \in T /\ p \in S
      BY <2>2, PickIn
    <3>3. SumOf(g, I(U)) = SumOf(f, U) /\ IsFiniteSet(I(U))
      BY <1>1, <3>2
    <3>4. m[p] \notin I(U) /\ I(T) = I(U) \cup {m[p]} /\ g[m[p]] = f[p]
      BY <3>2
    <3>5. Ints(g, I(U) \cup {m[p]})
      BY <3>2, <3>4 DEF Ints
    <3>6. SumOf(f, T) = f[p] + SumOf(f, U)
      BY <2>2, <3>1, SumPick
    <3> HIDE DEF p, U, I
    <3>7. SumOf(g, I(U) \cup {m[p]}) = g[m[p]] + SumOf(g, I(U)) /\ IsFiniteSet(I(U) \cup {m[p]})
      BY <3>3, <3>4, <3>5, SumAdd, FS_AddElement
    <3> QED
      BY <3>3, <3>4, <3>6, <3>7
  <2> QED
    BY <2>1, <2>2
<1>2. \A T \in SUBSET S : T \in X
  <2> HIDE DEF X
  <2> QED
    BY <1>1, SubsetInduction
<1>3. S \in X /\ R = I(S)
  BY <1>2
<1> QED
  BY <1>3

\* A sum over a sequence with an entry put in at some place.
LEMMA SumInserted ==
  ASSUME NEW n \in Nat, NEW i \in 1..(n + 1), NEW f, Ints(f, 1..n), NEW g, g[i] \in Int,
         \A j \in 1..n : g[IF j < i THEN j ELSE j + 1] = f[j]
  PROVE  SumOf(g, 1..(n + 1)) = SumOf(f, 1..n) + g[i]
<1> DEFINE m == [j \in 1..n |-> IF j < i THEN j ELSE j + 1]
           T == {m[j] : j \in 1..n}
<1>1. IsFiniteSet(1..n)
  BY FS_Interval
<1>2. \A j, k \in 1..n : m[j] = m[k] => j = k
  OBVIOUS
<1>3. \A j \in 1..n : g[m[j]] = f[j]
  OBVIOUS
<1>4. i \notin T /\ T \cup {i} = 1..(n + 1)
  <2>1. ASSUME NEW j \in 1..n PROVE m[j] \in 1..(n + 1) /\ m[j] # i
    OBVIOUS
  <2>2. ASSUME NEW k \in 1..(n + 1), k # i PROVE k \in T
    <3>1. CASE k < i
      <4>1. k \in 1..n /\ m[k] = k
        BY <3>1
      <4> QED
        BY <4>1
    <3>2. CASE k > i
      <4>1. k - 1 \in 1..n /\ m[k - 1] = k
        BY <3>2
      <4> QED
        BY <4>1
    <3> QED
      BY <2>2, <3>1, <3>2
  <2> QED
    BY <2>1, <2>2
<1> HIDE DEF m
<1>5. SumOf(g, T) = SumOf(f, 1..n) /\ IsFiniteSet(T)
  <2> DEFINE S == 1..n
  <2>1. /\ IsFiniteSet(S) /\ Ints(f, S) /\ T = {m[j] : j \in S}
        /\ (\A j, k \in S : m[j] = m[k] => j = k) /\ \A j \in S : g[m[j]] = f[j]
    BY <1>1, <1>2, <1>3
  <2> HIDE DEF S, T
  <2>2. SumOf(g, T) = SumOf(f, S) /\ IsFiniteSet(T)
    BY ONLY <2>1, SumMapped
  <2> QED
    BY <2>2 DEF S
<1>6. Ints(g, T \cup {i})
  <2>1. \A j \in 1..n : g[m[j]] \in Int
    BY <1>3 DEF Ints
  <2>2. ASSUME NEW x \in T \cup {i} PROVE g[x] \in Int
    <3>1. x = i \/ \E j \in 1..n : x = m[j]
      OBVIOUS
    <3> QED
      BY <2>1, <3>1
  <2> QED
    BY ONLY <2>2 DEF Ints
<1> HIDE DEF T
<1>7. SumOf(g, T \cup {i}) = g[i] + SumOf(g, T)
  BY <1>4, <1>5, <1>6, SumAdd
<1>8. SumOf(f, 1..n) \in Int
  BY <1>1, SumInt
<1>9. SumOf(g, 1..(n + 1)) = g[i] + SumOf(f, 1..n)
  BY ONLY <1>4, <1>5, <1>7, Zenon
<1> QED
  BY ONLY g[i] \in Int, <1>8, <1>9

-----------------------------------------------------------------------------
(* Loops over rows in order. *)

\* Induction up to a number, on a set instead of a predicate.
LEMMA CountInduction ==
  ASSUME NEW n \in Nat, NEW X, 0 \in X, \A k \in 0..(n - 1) : k \in X => k + 1 \in X
  PROVE  \A k \in 0..n : k \in X
<1> DEFINE Y == {T \in SUBSET (1..n) : \A k \in 0..n : T = 1..k => k \in X}
<1>1. ASSUME NEW T \in SUBSET (1..n), \A U \in SUBSET T : U # T => U \in Y
      PROVE  T \in Y
  <2> SUFFICES ASSUME NEW k \in 0..n, T = 1..k PROVE k \in X
    OBVIOUS
  <2>1. CASE k = 0
    BY <2>1
  <2>2. CASE k # 0
    <3>1. k - 1 \in 0..(n - 1) /\ k - 1 \in 0..n /\ (k - 1) + 1 = k
      BY <2>2
    <3>2. 1..(k - 1) \in SUBSET T /\ 1..(k - 1) # T
      <4>1. k \in 1..k /\ k \notin 1..(k - 1)
        BY <2>2
      <4> QED
        BY <3>1, <4>1
    <3>3. 1..(k - 1) \in Y
      <4> HIDE DEF Y
      <4> QED
        BY <1>1, <3>2
    <3>4. k - 1 \in X
      BY <3>1, <3>3
    <3> QED
      BY <3>1, <3>4
  <2> QED
    BY <2>1, <2>2
<1>2. \A T \in SUBSET (1..n) : T \in Y
  <2>1. IsFiniteSet(1..n)
    BY FS_Interval
  <2> HIDE DEF Y
  <2> QED
    BY <1>1, <2>1, SubsetInduction
<1>3. ASSUME NEW k \in 0..n PROVE k \in X
  <2>1. 1..k \in SUBSET (1..n)
    OBVIOUS
  <2> QED
    BY <1>2, <2>1
<1> QED
  BY <1>3

\* A sequence without repeats: what the loop takes is never more than a row has, and
\* with what it is left short of it makes up the quantity asked for.
LEMMA InTurnSum ==
  ASSUME NEW order, NEW n \in Nat, DOMAIN order = 1..n,
         \A i, j \in 1..n : order[i] = order[j] => i = j,
         NEW has, Nats(has, Range(order)), NEW q \in Nat
  PROVE  /\ IsFiniteSet(Range(order))
         /\ InTurn(order, has, q) \in [Range(order) -> Nat]
         /\ \A x \in Range(order) : InTurn(order, has, q)[x] <= has[x]
         /\ SumOf(InTurn(order, has, q), Range(order)) =
              IF SumOf(has, Range(order)) < q THEN SumOf(has, Range(order)) ELSE q
<1> DEFINE T == InTurn(order, has, q)
           A(k) == {order[i] : i \in 1..k}
           H(k) == SumOf(has, A(k))
<1>1. ASSUME NEW k \in 0..n
      PROVE  /\ IsFiniteSet(A(k)) /\ A(k) \subseteq Range(order) /\ Nats(has, A(k)) /\ H(k) \in Nat
             /\ k < n => A(k + 1) = A(k) \cup {order[k + 1]} /\ order[k + 1] \notin A(k)
                         /\ Ahead(order, order[k + 1]) = A(k)
  <2>1. A(k) \subseteq Range(order)
    BY DEF Range
  <2>2. Nats(has, A(k))
    BY <2>1 DEF Nats
  <2>3. IsFiniteSet(A(k))
    <3>1. IsFiniteSet(1..k)
      BY FS_Interval
    <3>2. [i \in 1..k |-> order[i]] \in Surjection(1..k, A(k))
      BY DEF Surjection
    <3> QED
      BY <3>1, <3>2, FS_Surjection
  <2>4. H(k) \in Nat
    BY <2>2, <2>3, SumNat
  <2>5. ASSUME k < n
        PROVE  A(k + 1) = A(k) \cup {order[k + 1]} /\ order[k + 1] \notin A(k)
               /\ Ahead(order, order[k + 1]) = A(k)
    <3>1. k + 1 \in 1..n /\ 1..(k + 1) = (1..k) \cup {k + 1} /\ k + 1 \notin 1..k
      BY <2>5
    <3>2. A(k + 1) = A(k) \cup {order[k + 1]}
      BY <3>1
    <3>3. order[k + 1] \notin A(k)
      BY <3>1
    <3>4. {i \in DOMAIN order : \E j \in DOMAIN order : i < j /\ order[j] = order[k + 1]} = 1..k
      BY <3>1
    <3> QED
      BY <3>2, <3>3, <3>4 DEF Ahead
  <2> QED
    BY <2>1, <2>2, <2>3, <2>4, <2>5
<1>2. Range(order) = A(n)
  BY DEF Range
<1>3. ASSUME NEW k \in 0..(n - 1)
      PROVE  LET x == order[k + 1] IN
             /\ x \in Range(order) /\ has[x] \in Nat
             /\ T[x] = IF q - H(k) <= 0 THEN 0 ELSE IF has[x] < q - H(k) THEN has[x] ELSE q - H(k)
  <2>1. k \in 0..n /\ k < n /\ k + 1 \in DOMAIN order
    OBVIOUS
  <2>2. order[k + 1] \in Range(order)
    BY <2>1 DEF Range
  <2>3. Ahead(order, order[k + 1]) = A(k)
    BY <1>1, <2>1
  <2> QED
    BY <2>2, <2>3 DEF InTurn, Nats
<1>4. ASSUME NEW x \in Range(order) PROVE T[x] \in Nat /\ T[x] <= has[x]
  <2>1. PICK i \in 1..n : x = order[i]
    BY DEF Range
  <2>2. i - 1 \in 0..(n - 1) /\ i - 1 \in 0..n /\ (i - 1) + 1 = i
    OBVIOUS
  <2>3. H(i - 1) \in Nat
    BY <1>1, <2>2
  <2> HIDE DEF T, H
  <2> QED
    BY <1>3, <2>1, <2>2, <2>3
<1>5. T \in [Range(order) -> Nat]
  BY <1>4 DEF InTurn
<1> DEFINE X == {k \in 0..n : SumOf(T, A(k)) = IF H(k) < q THEN H(k) ELSE q}
<1>6. 0 \in X
  <2>1. A(0) = {}
    OBVIOUS
  <2>2. SumOf(T, A(0)) = 0 /\ H(0) = 0
    BY <2>1, SumEmpty
  <2> HIDE DEF T, H, A
  <2> QED
    BY <2>2
<1>7. ASSUME NEW k \in 0..(n - 1), k \in X PROVE k + 1 \in X
  <2> DEFINE x == order[k + 1]
  <2>1. k \in 0..n /\ k < n /\ k + 1 \in 0..n
    OBVIOUS
  <2>2. A(k + 1) = A(k) \cup {x} /\ x \notin A(k) /\ IsFiniteSet(A(k)) /\ A(k + 1) \subseteq Range(order)
    BY <1>1, <2>1
  <2>3. Ints(has, A(k + 1)) /\ Ints(T, A(k + 1))
    <3> HIDE DEF T, A
    <3> QED
      BY <1>4, <2>2 DEF Ints, Nats
  <2>4. H(k + 1) = has[x] + H(k) /\ SumOf(T, A(k + 1)) = T[x] + SumOf(T, A(k))
    <3> HIDE DEF T, A
    <3> QED
      BY <2>2, <2>3, SumAdd
  <2>5. H(k) \in Nat
    BY <1>1, <2>1
  <2>6. SumOf(T, A(k)) = IF H(k) < q THEN H(k) ELSE q
    BY <1>7
  <2>7. has[x] \in Nat /\ T[x] = IF q - H(k) <= 0 THEN 0 ELSE IF has[x] < q - H(k) THEN has[x] ELSE q - H(k)
    BY <1>3
  <2> HIDE DEF T, A, H, x
  <2>8. SumOf(T, A(k + 1)) = IF H(k + 1) < q THEN H(k + 1) ELSE q
    BY <2>4, <2>5, <2>6, <2>7
  <2> QED
    BY <2>1, <2>8
<1>8. n \in X
  <2>1. \A k \in 0..n : k \in X
    <3> HIDE DEF X
    <3> QED
      BY <1>6, <1>7, CountInduction
  <2> QED
    BY <2>1
<1>9. IsFiniteSet(Range(order))
  <2>1. n \in 0..n
    OBVIOUS
  <2> HIDE DEF A
  <2> QED
    BY <1>1, <1>2, <2>1
<1> QED
  BY <1>2, <1>4, <1>5, <1>8, <1>9

\* A sum over more elements, with the same terms where there were any, is no less.
LEMMA SumGrows ==
  ASSUME NEW S, IsFiniteSet(S), NEW f, NEW g, NEW T \in SUBSET S, NEW U \in SUBSET S, T \subseteq U,
         Nats(f, T), Nats(g, S), \A x \in T : g[x] = f[x]
  PROVE  SumOf(f, T) <= SumOf(g, U)
<1>1. IsFiniteSet(T) /\ IsFiniteSet(U)
  BY FS_Subset
<1>2. Ints(f, T) /\ Nats(g, U)
  BY DEF Ints, Nats
<1>3. SumOf(g, T) = SumOf(f, T)
  BY ONLY <1>1, <1>2, \A x \in T : g[x] = f[x], SumSame
<1>4. SumOf(g, T) <= SumOf(g, U)
  BY ONLY <1>1, <1>2, T \subseteq U, SumPart
<1> QED
  BY <1>3, <1>4

\* Terms none of which is greater, and one of which is less, sum to less.
LEMMA SumLess ==
  ASSUME NEW f, NEW g, NEW S, IsFiniteSet(S), Ints(f, S), Ints(g, S), \A x \in S : f[x] <= g[x],
         NEW y \in S, f[y] < g[y]
  PROVE  SumOf(f, S) < SumOf(g, S)
<1> DEFINE T == S \ {y}
<1>1. IsFiniteSet(T) /\ Ints(f, T) /\ Ints(g, T) /\ \A x \in T : f[x] <= g[x]
  BY FS_Subset DEF Ints
<1>2. SumOf(f, S) = f[y] + SumOf(f, T) /\ SumOf(g, S) = g[y] + SumOf(g, T)
  BY SumRemove
<1> HIDE DEF T
<1>3. SumOf(f, T) <= SumOf(g, T)
  BY ONLY <1>1, SumLeq
<1>4. SumOf(f, T) \in Int /\ SumOf(g, T) \in Int /\ f[y] \in Int /\ g[y] \in Int
  BY <1>1, SumInt DEF Ints
<1> QED
  BY ONLY <1>2, <1>3, <1>4, f[y] < g[y]

\* Ones sum to how many there are.
LEMMA SumOnes ==
  ASSUME NEW f, NEW S, IsFiniteSet(S), \A x \in S : f[x] = 1
  PROVE  SumOf(f, S) = Cardinality(S)
<1> DEFINE X == {T \in SUBSET S : SumOf(f, T) = Cardinality(T)}
<1>1. ASSUME NEW T \in SUBSET S, \A U \in SUBSET T : U # T => U \in X
      PROVE  T \in X
  <2>1. IsFiniteSet(T) /\ Ints(f, T)
    BY FS_Subset DEF Ints
  <2>2. CASE T = {}
    BY <2>2, SumEmpty, FS_EmptySet
  <2>3. CASE T # {}
    <3>1. PICK x \in T : TRUE
      BY <2>3
    <3>2. SumOf(f, T \ {x}) = Cardinality(T \ {x})
      BY <1>1, <3>1
    <3>3. SumOf(f, T) = 1 + SumOf(f, T \ {x})
      <4>1. f[x] = 1
        OBVIOUS
      <4> QED
        BY <2>1, <4>1, SumRemove
    <3>4. Cardinality(T \ {x}) = Cardinality(T) - 1 /\ Cardinality(T) \in Nat
      BY <2>1, <3>1, FS_RemoveElement, FS_CardinalityType
    <3> QED
      BY <3>2, <3>3, <3>4
  <2> QED
    BY <2>2, <2>3
<1> HIDE DEF X
<1>2. S \in X
  BY <1>1, SubsetInduction
<1> QED
  BY <1>2 DEF X
=============================================================================
