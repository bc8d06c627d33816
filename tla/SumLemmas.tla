------------------------------ MODULE SumLemmas ------------------------------
(***************************************************************************)
(* What the proofs about the queue's bytes, the limiter and the ticket     *)
(* counts need to know of SumFunctionOnSet: the sum over a finite set does *)
(* not depend on the order in which the fold picks the elements.           *)
(*                                                                         *)
(* Induction over a finite set is done by taking a minimal counterexample  *)
(* in the well-founded order of its subsets.                               *)
(***************************************************************************)
EXTENDS Integers, Functions, FiniteSetTheorems, TLAPS

Pick(s) == CHOOSE x \in s : TRUE

\* The equation of the fold, and the function that solves it.
Summing(w, S, g) ==
    g = [s \in SUBSET S |-> IF s = {} THEN 0 ELSE w[Pick(s)] + g[s \ {Pick(s)}]]
Solution(w, S) == CHOOSE g : Summing(w, S, g)

\* SumFunctionOnSet is that solution at the whole set.
LEMMA SumIsSolution ==
  ASSUME NEW w, NEW S
  PROVE  SumFunctionOnSet(w, S) = Solution(w, S)[S]
  BY DEF SumFunctionOnSet, FoldFunctionOnSet, MapThenFoldSet, Solution, Summing, Pick

\* Among sets of subsets of a finite set, a nonempty one has a minimal member.
LEMMA MinimalSubset ==
  ASSUME NEW S, IsFiniteSet(S), NEW bad, bad \subseteq SUBSET S, bad # {}
  PROVE  \E T \in bad : \A U \in bad : ~(U \subseteq T /\ U # T)
<1>1. IsWellFoundedOn(StrictSubsetOrdering(S), SUBSET S)
  BY FS_StrictSubsetOrderingWellFounded, FS_FiniteSubsetsOfFinite, Zenon
<1>2. PICK T \in bad : \A U \in bad : ~(<<U, T>> \in StrictSubsetOrdering(S))
  BY <1>1, WFMin
<1> QED BY <1>2, Zenon DEF StrictSubsetOrdering

\* The pick of a nonempty set leaves a smaller set.
LEMMA PickSmaller ==
  ASSUME NEW s, s # {}
  PROVE  Pick(s) \in s /\ s \ {Pick(s)} \subseteq s /\ s \ {Pick(s)} # s
  BY DEF Pick

\* Two solutions agree where both are defined.
LEMMA SolutionsAgree ==
  ASSUME NEW w, NEW S, IsFiniteSet(S), NEW R, NEW g, NEW h,
         Summing(w, S, g), Summing(w, R, h),
         NEW T \in SUBSET S, T \subseteq R
  PROVE  g[T] = h[T]
<1> SUFFICES ASSUME g[T] # h[T] PROVE FALSE
  OBVIOUS
<1> DEFINE bad == {U \in SUBSET S : U \subseteq R /\ g[U] # h[U]}
<1>1. PICK U \in bad : \A V \in bad : ~(V \subseteq U /\ V # U)
  <2>1. bad \subseteq SUBSET S /\ bad # {} OBVIOUS
  <2> HIDE DEF bad
  <2> QED BY <2>1, MinimalSubset
<1>2. U \in SUBSET S /\ U \in SUBSET R /\ g[U] # h[U]
  OBVIOUS
<1>3. g[U] = IF U = {} THEN 0 ELSE w[Pick(U)] + g[U \ {Pick(U)}]
  BY <1>2, Zenon DEF Summing
<1>4. h[U] = IF U = {} THEN 0 ELSE w[Pick(U)] + h[U \ {Pick(U)}]
  BY <1>2, Zenon DEF Summing
<1>5. U # {}
  BY <1>2, <1>3, <1>4
<1>6. g[U \ {Pick(U)}] = h[U \ {Pick(U)}]
  BY <1>1, <1>2, <1>5, PickSmaller
<1> QED BY <1>2, <1>3, <1>4, <1>6

\* There is a solution over every finite set.
LEMMA SolutionExists ==
  ASSUME NEW w, NEW S, IsFiniteSet(S)
  PROVE  Summing(w, S, Solution(w, S))
<1> SUFFICES ASSUME ~\E g : Summing(w, S, g) PROVE FALSE
  BY DEF Solution
<1> DEFINE bad == {T \in SUBSET S : ~\E g : Summing(w, T, g)}
<1>1. PICK T \in bad : \A V \in bad : ~(V \subseteq T /\ V # T)
  <2>1. bad \subseteq SUBSET S /\ bad # {} OBVIOUS
  <2> HIDE DEF bad
  <2> QED BY <2>1, MinimalSubset
<1>2. T \subseteq S /\ IsFiniteSet(T)
  BY FS_Subset
<1> DEFINE Value(U) == Solution(w, U)[U]
           h == [s \in SUBSET T |-> IF s = {} THEN 0 ELSE w[Pick(s)] + Value(s \ {Pick(s)})]
<1>3. ASSUME NEW U \in SUBSET T, U # T
      PROVE  Summing(w, U, Solution(w, U)) /\ IsFiniteSet(U)
  <2>1. \E g : Summing(w, U, g)
    BY <1>1, <1>3
  <2> QED BY <2>1, <1>2, FS_Subset DEF Solution
<1>4. ASSUME NEW U \in SUBSET T, U # T PROVE Value(U) = h[U]
  <2>1. Value(U) = IF U = {} THEN 0 ELSE w[Pick(U)] + Solution(w, U)[U \ {Pick(U)}]
    BY <1>3, <1>4, Zenon DEF Summing
  <2>2. CASE U = {}
    BY <2>1, <2>2
  <2>3. CASE U # {}
    <3> DEFINE V == U \ {Pick(U)}
    <3>1. V \in SUBSET U /\ V \in SUBSET T /\ V # T
      BY <2>3, PickSmaller
    <3>2. Summing(w, V, Solution(w, V)) /\ IsFiniteSet(V)
      BY <3>1, <1>3
    <3>3. Summing(w, U, Solution(w, U))
      BY <1>3, <1>4
    <3> HIDE DEF V
    <3>4. Solution(w, V)[V] = Solution(w, U)[V]
      BY <3>1, <3>2, <3>3, SolutionsAgree
    <3> QED BY <2>1, <2>3, <3>4 DEF V
  <2> QED BY <2>2, <2>3
<1>5. ASSUME NEW s \in SUBSET T, s # {}
      PROVE  Value(s \ {Pick(s)}) = h[s \ {Pick(s)}]
  BY <1>4, <1>5, PickSmaller, Zenon
<1>6. h = [s \in SUBSET T |-> IF s = {} THEN 0 ELSE w[Pick(s)] + h[s \ {Pick(s)}]]
  BY <1>5, Zenon
<1> HIDE DEF h
<1>7. Summing(w, T, h)
  BY <1>6, Zenon DEF Summing
<1> QED BY <1>1, <1>7
-----------------------------------------------------------------------------
\* The sum over the empty set, and the step of the fold.
LEMMA SumUnfolds ==
  ASSUME NEW w, NEW S, IsFiniteSet(S)
  PROVE  SumFunctionOnSet(w, S) =
            IF S = {} THEN 0 ELSE w[Pick(S)] + SumFunctionOnSet(w, S \ {Pick(S)})
<1>1. Summing(w, S, Solution(w, S))
  BY SolutionExists
<1>2. Solution(w, S)[S] = IF S = {} THEN 0 ELSE w[Pick(S)] + Solution(w, S)[S \ {Pick(S)}]
  BY <1>1, Zenon DEF Summing
<1>3. CASE S = {}
  BY <1>2, <1>3, SumIsSolution
<1>4. CASE S # {}
  <2> DEFINE V == S \ {Pick(S)}
  <2>1. V \subseteq S /\ IsFiniteSet(V)
    BY FS_RemoveElement
  <2>2. Summing(w, V, Solution(w, V))
    BY <2>1, SolutionExists
  <2> HIDE DEF V
  <2>3. Solution(w, V)[V] = Solution(w, S)[V]
    BY <1>1, <2>1, <2>2, SolutionsAgree
  <2> QED BY <1>2, <1>4, <2>3, SumIsSolution DEF V
<1> QED BY <1>3, <1>4

\* A sum of natural numbers is a natural number.
LEMMA SumType ==
  ASSUME NEW w, NEW S, IsFiniteSet(S), \A x \in S : w[x] \in Nat
  PROVE  SumFunctionOnSet(w, S) \in Nat
<1> SUFFICES ASSUME SumFunctionOnSet(w, S) \notin Nat PROVE FALSE
  OBVIOUS
<1> DEFINE bad == {T \in SUBSET S : SumFunctionOnSet(w, T) \notin Nat}
<1>1. PICK T \in bad : \A V \in bad : ~(V \subseteq T /\ V # T)
  <2>1. bad \subseteq SUBSET S /\ bad # {} OBVIOUS
  <2> HIDE DEF bad
  <2> QED BY <2>1, MinimalSubset
<1>2. T \in SUBSET S /\ IsFiniteSet(T) /\ SumFunctionOnSet(w, T) \notin Nat
  BY FS_Subset
<1>3. SumFunctionOnSet(w, T) = IF T = {} THEN 0 ELSE w[Pick(T)] + SumFunctionOnSet(w, T \ {Pick(T)})
  BY <1>2, SumUnfolds
<1>4. T # {}
  BY <1>2, <1>3
<1>5. SumFunctionOnSet(w, T \ {Pick(T)}) \in Nat /\ w[Pick(T)] \in Nat
  BY <1>1, <1>2, <1>4, PickSmaller
<1> QED BY <1>2, <1>3, <1>4, <1>5

\* Any element may be taken out first.
LEMMA SumRemove ==
  ASSUME NEW w, NEW S, IsFiniteSet(S), \A x \in S : w[x] \in Nat, NEW x \in S
  PROVE  SumFunctionOnSet(w, S) = w[x] + SumFunctionOnSet(w, S \ {x})
<1> DEFINE F(T) == SumFunctionOnSet(w, T)
           bad == {T \in SUBSET S : \E y \in T : F(T) # w[y] + F(T \ {y})}
<1> SUFFICES ASSUME F(S) # w[x] + F(S \ {x}) PROVE FALSE
  OBVIOUS
<1>1. PICK T \in bad : \A V \in bad : ~(V \subseteq T /\ V # T)
  <2>1. bad \subseteq SUBSET S /\ bad # {} BY Zenon
  <2> HIDE DEF bad
  <2> QED BY <2>1, MinimalSubset
<1>2. PICK y \in T : F(T) # w[y] + F(T \ {y})
  OBVIOUS
<1> DEFINE z == Pick(T)
<1>3. T \in SUBSET S /\ IsFiniteSet(T) /\ T # {} /\ z \in T
  BY <1>2, FS_Subset, PickSmaller
<1>4. F(T) = w[z] + F(T \ {z})
  BY <1>3, SumUnfolds
<1>5. y # z
  BY <1>2, <1>4
<1> HIDE DEF z
<1>6. F(T \ {z}) = w[y] + F((T \ {z}) \ {y})
  <2>1. T \ {z} \notin bad
    BY <1>1, <1>3, SMTT(30)
  <2> QED BY <2>1, <1>3, <1>5, Zenon
<1>7. F(T \ {y}) = w[z] + F((T \ {y}) \ {z})
  <2>1. T \ {y} \notin bad
    BY <1>1, <1>2
  <2> QED BY <2>1, <1>3, <1>5, Zenon
<1>8. (T \ {z}) \ {y} = (T \ {y}) \ {z}
  OBVIOUS
<1>9. F((T \ {y}) \ {z}) \in Nat
  <2>1. (T \ {y}) \ {z} \in SUBSET S /\ IsFiniteSet((T \ {y}) \ {z})
    BY <1>3, FS_Subset
  <2> QED BY <2>1, SumType
<1>10. w[y] \in Nat /\ w[z] \in Nat
  BY <1>3
<1>11. F(T) = w[z] + (w[y] + F((T \ {y}) \ {z}))
  BY <1>4, <1>6, <1>8
<1>12. w[y] + F(T \ {y}) = w[y] + (w[z] + F((T \ {y}) \ {z}))
  BY <1>7
<1>13. \A a, b, c \in Nat : a + (b + c) = b + (a + c)
  OBVIOUS
<1> HIDE DEF F, bad
<1>14. F(T) = w[y] + F(T \ {y})
  BY <1>9, <1>10, <1>11, <1>12, <1>13
<1> QED BY <1>2, <1>14

\* Nothing sums to zero.
LEMMA SumEmpty == \A w : SumFunctionOnSet(w, {}) = 0
  BY SumUnfolds, FS_EmptySet, Zenon

\* One element more.
LEMMA SumAdd ==
  ASSUME NEW w, NEW S, IsFiniteSet(S), NEW x, x \notin S, \A y \in S \cup {x} : w[y] \in Nat
  PROVE  SumFunctionOnSet(w, S \cup {x}) = w[x] + SumFunctionOnSet(w, S)
<1>1. IsFiniteSet(S \cup {x}) /\ (S \cup {x}) \ {x} = S
  BY FS_AddElement
<1> QED BY <1>1, SumRemove

\* The sum depends only on the values at the elements.
LEMMA SumSame ==
  ASSUME NEW w, NEW v, NEW S, IsFiniteSet(S), \A x \in S : w[x] = v[x]
  PROVE  SumFunctionOnSet(w, S) = SumFunctionOnSet(v, S)
<1> SUFFICES ASSUME SumFunctionOnSet(w, S) # SumFunctionOnSet(v, S) PROVE FALSE
  OBVIOUS
<1> DEFINE bad == {T \in SUBSET S : SumFunctionOnSet(w, T) # SumFunctionOnSet(v, T)}
<1>1. PICK T \in bad : \A V \in bad : ~(V \subseteq T /\ V # T)
  <2>1. bad \subseteq SUBSET S /\ bad # {} OBVIOUS
  <2> HIDE DEF bad
  <2> QED BY <2>1, MinimalSubset
<1>2. T \in SUBSET S /\ IsFiniteSet(T) /\ SumFunctionOnSet(w, T) # SumFunctionOnSet(v, T)
  BY FS_Subset
<1>3. /\ SumFunctionOnSet(w, T) = IF T = {} THEN 0 ELSE w[Pick(T)] + SumFunctionOnSet(w, T \ {Pick(T)})
      /\ SumFunctionOnSet(v, T) = IF T = {} THEN 0 ELSE v[Pick(T)] + SumFunctionOnSet(v, T \ {Pick(T)})
  BY <1>2, SumUnfolds
<1>4. T # {} /\ Pick(T) \in T
  BY <1>2, <1>3, PickSmaller
<1>5. T \ {Pick(T)} \notin bad
  BY <1>1, <1>4
<1>6. SumFunctionOnSet(w, T \ {Pick(T)}) = SumFunctionOnSet(v, T \ {Pick(T)})
  BY <1>2, <1>5
<1> QED BY <1>2, <1>3, <1>4, <1>6

\* A part of a set sums to no more than the whole.
LEMMA SumSubset ==
  ASSUME NEW w, NEW S, IsFiniteSet(S), \A x \in S : w[x] \in Nat, NEW T \in SUBSET S
  PROVE  SumFunctionOnSet(w, T) <= SumFunctionOnSet(w, S)
<1> DEFINE F(U) == SumFunctionOnSet(w, U)
           bad == {U \in SUBSET S : T \subseteq U /\ ~(F(T) <= F(U))}
<1> SUFFICES ASSUME ~(F(T) <= F(S)) PROVE FALSE
  OBVIOUS
<1>1. PICK U \in bad : \A V \in bad : ~(V \subseteq U /\ V # U)
  <2>1. bad \subseteq SUBSET S /\ bad # {} OBVIOUS
  <2> HIDE DEF bad
  <2> QED BY <2>1, MinimalSubset
<1>2. U \in SUBSET S /\ T \subseteq U /\ ~(F(T) <= F(U)) /\ IsFiniteSet(U)
  BY FS_Subset
<1>3. F(T) \in Nat /\ F(U) \in Nat
  BY <1>2, FS_Subset, SumType
<1>4. PICK x \in U : x \notin T
  BY <1>2, <1>3
<1>5. F(U) = w[x] + F(U \ {x}) /\ w[x] \in Nat
  BY <1>2, SumRemove
<1>6. F(U \ {x}) \in Nat /\ F(T) <= F(U \ {x})
  <2>1. IsFiniteSet(U \ {x})
    BY <1>2, FS_RemoveElement
  <2>2. F(U \ {x}) \in Nat
    BY <2>1, <1>2, SumType
  <2>3. U \ {x} \notin bad
    BY <1>1
  <2> QED BY <2>2, <2>3, <1>2, <1>4
<1> HIDE DEF F
<1> QED BY <1>2, <1>3, <1>5, <1>6

\* One value grows by one: the sums it is part of do, and no others.
LEMMA SumBump ==
  ASSUME NEW w, NEW v, NEW S, IsFiniteSet(S), \A y \in S : w[y] \in Nat,
         NEW x, x \in S => v[x] = w[x] + 1, \A y \in S \ {x} : v[y] = w[y]
  PROVE  SumFunctionOnSet(v, S) = SumFunctionOnSet(w, S) + (IF x \in S THEN 1 ELSE 0)
<1>1. CASE x \in S
  <2>1. IsFiniteSet(S \ {x})
    BY FS_RemoveElement
  <2>2. SumFunctionOnSet(w, S \ {x}) = SumFunctionOnSet(v, S \ {x})
    BY <2>1, SumSame
  <2>3. \A y \in S : v[y] \in Nat
    BY <1>1
  <2>4. SumFunctionOnSet(w, S) = w[x] + SumFunctionOnSet(w, S \ {x})
    BY <1>1, SumRemove
  <2>5. SumFunctionOnSet(v, S) = v[x] + SumFunctionOnSet(v, S \ {x})
    BY <1>1, <2>3, SumRemove
  <2>6. SumFunctionOnSet(w, S \ {x}) \in Nat
    BY <2>1, SumType
  <2> QED BY <1>1, <2>2, <2>4, <2>5, <2>6
<1>2. CASE x \notin S
  <2>1. \A y \in S : v[y] = w[y]
    BY <1>2
  <2>2. SumFunctionOnSet(v, S) = SumFunctionOnSet(w, S)
    BY <2>1, SumSame
  <2>3. SumFunctionOnSet(w, S) \in Nat
    BY SumType
  <2> QED BY <1>2, <2>2, <2>3
<1> QED BY <1>1, <1>2

\* Values up to k sum to at most k for each element.
LEMMA SumBounded ==
  ASSUME NEW w, NEW S, IsFiniteSet(S), NEW k \in Nat, \A x \in S : w[x] \in 0 .. k
  PROVE  SumFunctionOnSet(w, S) <= k * Cardinality(S)
<1> DEFINE F(T) == SumFunctionOnSet(w, T)
           bad == {T \in SUBSET S : ~(F(T) <= k * Cardinality(T))}
<1> SUFFICES ASSUME ~(F(S) <= k * Cardinality(S)) PROVE FALSE
  OBVIOUS
<1>1. PICK T \in bad : \A V \in bad : ~(V \subseteq T /\ V # T)
  <2>1. bad \subseteq SUBSET S /\ bad # {} OBVIOUS
  <2> HIDE DEF bad
  <2> QED BY <2>1, MinimalSubset
<1>2. T \in SUBSET S /\ IsFiniteSet(T) /\ ~(F(T) <= k * Cardinality(T))
  BY FS_Subset
<1>3. PICK x : x \in T
  <2>1. F({}) = 0 /\ Cardinality({}) = 0
    BY SumEmpty, FS_EmptySet
  <2>2. k * Cardinality({}) = 0
    BY <2>1
  <2>3. F({}) <= k * Cardinality({})
    BY <2>1, <2>2
  <2> HIDE DEF F
  <2> QED BY <1>2, <2>3, Zenon
<1>4. F(T) = w[x] + F(T \ {x}) /\ w[x] \in 0 .. k
  BY <1>2, <1>3, SumRemove
<1>5. /\ IsFiniteSet(T \ {x}) /\ Cardinality(T \ {x}) \in Nat
      /\ Cardinality(T) = Cardinality(T \ {x}) + 1
  <2>1. IsFiniteSet(T \ {x}) /\ Cardinality(T \ {x}) = Cardinality(T) - 1
    BY <1>2, <1>3, FS_RemoveElement
  <2>2. Cardinality(T \ {x}) \in Nat /\ Cardinality(T) \in Nat
    BY <1>2, <2>1, FS_CardinalityType
  <2> QED BY <2>1, <2>2
<1>6. F(T \ {x}) \in Nat /\ F(T \ {x}) <= k * Cardinality(T \ {x})
  <2>1. F(T \ {x}) \in Nat
    BY <1>2, <1>5, SumType
  <2>2. T \ {x} \notin bad
    BY <1>1, <1>3
  <2> QED BY <2>1, <2>2, <1>2
<1>7. \A n \in Nat : k * (n + 1) = k * n + k /\ k * n \in Nat
  OBVIOUS
<1> DEFINE n == Cardinality(T \ {x})
<1>8. k * Cardinality(T) = k * n + k /\ k * n \in Nat
  BY <1>5, <1>7
<1> HIDE DEF F, bad, n
<1>9. F(T \ {x}) <= k * n
  BY <1>6 DEF n
<1> QED BY <1>2, <1>4, <1>6, <1>8, <1>9

\* Zeros sum to zero.
LEMMA SumZeros ==
  ASSUME NEW w, NEW S, IsFiniteSet(S), \A x \in S : w[x] = 0
  PROVE  SumFunctionOnSet(w, S) = 0
<1>1. SumFunctionOnSet(w, S) <= 0 * Cardinality(S)
  BY SumBounded
<1>2. SumFunctionOnSet(w, S) \in Nat /\ Cardinality(S) \in Nat
  BY SumType, FS_CardinalityType
<1> QED BY <1>1, <1>2
=============================================================================
