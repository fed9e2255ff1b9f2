-------------------------------- MODULE Sums --------------------------------
(****************************************************************************)
(* What the proofs about balances need of SumFunctionOnSet: the sum over a  *)
(* finite set is an integer, and follows the change of one of its terms.    *)
(* The sum is a CHOOSE of a function that satisfies its recursive equation; *)
(* that there is one, and that any two agree, is shown by taking a smallest *)
(* subset on which it fails.                                                *)
(****************************************************************************)
EXTENDS Integers, FiniteSetsExt, FiniteSetTheorems, WellFoundedInduction, TLAPS

\* the element that a sum over T takes first
Some(T) == CHOOSE x \in T : TRUE

\* g adds the values of w up, on T and what is below it
Adds(w, T, g) ==
  g = [U \in SUBSET T |-> IF U = {} THEN 0
                           ELSE w[Some(U)] + g[U \ {Some(U)}]]

\* The equation, at each subset.
LEMMA AddsAt ==
  ASSUME NEW T, NEW w, NEW g, Adds(w, T, g)
  PROVE  /\ g[{}] = 0
         /\ \A U \in SUBSET T : U # {} => g[U] = w[Some(U)] + g[U \ {Some(U)}]
BY DEF Adds

\* Induction over the subsets of a finite set, as the choice of a smallest one.
LEMMA SmallestSubset ==
  ASSUME NEW S, IsFiniteSet(S), NEW Bad \in SUBSET (SUBSET S), Bad # {}
  PROVE  \E T \in Bad : \A U \in SUBSET T : U # T => U \notin Bad
<1>1. PICK T \in Bad : \A U \in Bad : ~(<<U, T>> \in StrictSubsetOrdering(S))
  <2>1. IsWellFoundedOn(StrictSubsetOrdering(S), SUBSET S)
    BY FS_StrictSubsetOrderingWellFounded, FS_FiniteSubsetsOfFinite
  <2> QED
    BY <2>1, WFMin
<1>2. ASSUME NEW U \in SUBSET T, U # T, U \in Bad
      PROVE  FALSE
  <2>1. <<U, T>> \in StrictSubsetOrdering(S)
    BY <1>2 DEF StrictSubsetOrdering
  <2> QED
    BY <1>1, <1>2, <2>1
<1> QED
  BY <1>1, <1>2

\* It is one of them.
LEMMA SomeIsIn == ASSUME NEW T, T # {} PROVE Some(T) \in T
BY DEF Some

\* Two sums of the same values agree wherever both are defined.
LEMMA AddsAlike ==
  ASSUME NEW S, IsFiniteSet(S), NEW w, NEW T \in SUBSET S, NEW V \in SUBSET S,
         NEW g, Adds(w, T, g), NEW h, Adds(w, V, h)
  PROVE  \A U \in SUBSET T : U \in SUBSET V => g[U] = h[U]
<1> DEFINE Bad == {U \in SUBSET S : U \subseteq T /\ U \subseteq V /\ g[U] # h[U]}
<1>1. /\ g[{}] = 0
      /\ \A U \in SUBSET T : U # {} => g[U] = w[Some(U)] + g[U \ {Some(U)}]
  BY AddsAt
<1>2. /\ h[{}] = 0
      /\ \A U \in SUBSET V : U # {} => h[U] = w[Some(U)] + h[U \ {Some(U)}]
  BY AddsAt
<1>3. SUFFICES ASSUME Bad # {} PROVE FALSE
  OBVIOUS
<1>4. Bad \in SUBSET (SUBSET S)
  OBVIOUS
<1>5. PICK U \in Bad : \A W \in SUBSET U : W # U => W \notin Bad
  <2> HIDE DEF Bad
  <2> QED
    BY <1>3, <1>4, SmallestSubset
<1>6. U \in SUBSET S /\ U \subseteq T /\ U \subseteq V /\ g[U] # h[U]
  BY <1>5
<1>7. U # {}
  BY <1>6, <1>1, <1>2
<1>8. Some(U) \in U
  BY <1>7, SomeIsIn
<1>9. /\ U \ {Some(U)} \in SUBSET U
      /\ U \ {Some(U)} # U
  BY <1>8
<1>10. g[U \ {Some(U)}] = h[U \ {Some(U)}]
  BY <1>5, <1>9
<1> QED
  BY <1>5, <1>7, <1>10, <1>8, <1>1, <1>2

\* The equation has a solution.
LEMMA AddingExists ==
  ASSUME NEW S, IsFiniteSet(S), NEW w, \A x \in S : w[x] \in Int
  PROVE  \E g : Adds(w, S, g)
<1> DEFINE Bad == {T \in SUBSET S : ~ \E g : Adds(w, T, g)}
<1>1. SUFFICES ASSUME Bad # {} PROVE FALSE
  BY S \in SUBSET S
<1>2. Bad \in SUBSET (SUBSET S)
  OBVIOUS
<1>3. PICK T \in Bad : \A U \in SUBSET T : U # T => U \notin Bad
  <2> HIDE DEF Bad
  <2> QED
    BY <1>1, <1>2, SmallestSubset
<1> DEFINE Below(U) == CHOOSE g : Adds(w, U, g)
<1>4. \A U \in SUBSET T : U # T => Adds(w, U, Below(U))
  <2> TAKE U \in SUBSET T
  <2> HAVE U # T
  <2>1. \E g : Adds(w, U, g)
    BY <1>3
  <2> QED
    BY <2>1
<1> HIDE DEF Below
<1> DEFINE G == [U \in SUBSET T |->
                   IF U = {} THEN 0
                   ELSE w[Some(U)] + Below(U \ {Some(U)})[U \ {Some(U)}]]
<1>5. \A U \in SUBSET T : U # {} =>
        /\ Some(U) \in S
        /\ Some(U) \in U
        /\ U \ {Some(U)} \in SUBSET T /\ U \ {Some(U)} # T
  BY SomeIsIn
<1>6. \A U \in SUBSET T : U # T => G[U] = Below(U)[U]
  <2> TAKE U \in SUBSET T
  <2> HAVE U # T
  <2> DEFINE V == U \ {Some(U)}
  <2>1. Adds(w, U, Below(U))
    BY <1>4
  <2>b. /\ Below(U)[{}] = 0
      /\ \A W \in SUBSET U : W # {} => Below(U)[W] = w[Some(W)] + Below(U)[W \ {Some(W)}]
    BY <2>1, AddsAt
  <2>2. CASE U = {}
    BY <2>1, <2>2, <2>b
  <2>3. CASE U # {}
    <3>1. /\ V \in SUBSET U /\ V \in SUBSET V /\ U \in SUBSET S /\ V \in SUBSET S
          /\ Adds(w, V, Below(V))
      BY <1>4, <1>5, <2>3
    <3>2. Below(U)[V] = Below(V)[V]
      <4>1. \A W \in SUBSET U : W \in SUBSET V => Below(U)[W] = Below(V)[W]
        <5> HIDE DEF V
        <5> QED
          BY <2>1, <3>1, AddsAlike
      <4> QED
        BY <3>1, <4>1
    <3>3. Below(U)[U] = w[Some(U)] + Below(U)[V]
      BY <2>3, <2>b
    <3> QED
      BY <2>3, <3>2, <3>3
  <2> QED
    BY <2>2, <2>3
<1>7. Adds(w, T, G)
  <2>1. \A U \in SUBSET T : U # {} =>
           G[U \ {Some(U)}] = Below(U \ {Some(U)})[U \ {Some(U)}]
    BY <1>5, <1>6
  <2> QED
    BY <2>1 DEF Adds
<1> QED
  BY <1>3, <1>7

\* SumFunctionOnSet is one.
LEMMA SumAdds ==
  ASSUME NEW S, IsFiniteSet(S), NEW w, \A x \in S : w[x] \in Int
  PROVE  \E g : Adds(w, S, g) /\ SumFunctionOnSet(w, S) = g[S]
<1> DEFINE Eqn(g) == g = [T \in SUBSET S |->
                     IF T = {} THEN 0
                     ELSE LET x == CHOOSE y \in T : TRUE IN w[x] + g[T \ {x}]]
           sum == CHOOSE g : Eqn(g)
<1>1. SumFunctionOnSet(w, S) = sum[S]
  BY DEF SumFunctionOnSet, FoldFunctionOnSet, MapThenFoldSet
<1>2. PICK g : Adds(w, S, g)
  BY AddingExists
<1>3. g = [T \in SUBSET S |->
                     IF T = {} THEN 0
                     ELSE LET x == CHOOSE y \in T : TRUE IN w[x] + g[T \ {x}]]
  BY <1>2 DEF Adds, Some
<1>4. Eqn(sum)
  BY <1>3
<1>5. Adds(w, S, sum)
  BY <1>4 DEF Adds, Some
<1> QED
  BY <1>1, <1>5

\* A sum of integers is an integer.
LEMMA AddsToInt ==
  ASSUME NEW S, IsFiniteSet(S), NEW w, \A x \in S : w[x] \in Int,
         NEW g, Adds(w, S, g)
  PROVE  \A U \in SUBSET S : g[U] \in Int
<1> DEFINE Bad == {U \in SUBSET S : g[U] \notin Int}
<1>1. /\ g[{}] = 0
      /\ \A U \in SUBSET S : U # {} => g[U] = w[Some(U)] + g[U \ {Some(U)}]
  BY AddsAt
<1>2. SUFFICES ASSUME Bad # {} PROVE FALSE
  OBVIOUS
<1>3. Bad \in SUBSET (SUBSET S)
  OBVIOUS
<1>4. PICK U \in Bad : \A W \in SUBSET U : W # U => W \notin Bad
  <2> HIDE DEF Bad
  <2> QED
    BY <1>2, <1>3, SmallestSubset
<1>5. U \in SUBSET S /\ g[U] \notin Int
  BY <1>4
<1>6. U # {}
  <2>1. CASE U = {}
    <3>1. g[U] = 0
      BY <2>1, <1>1
    <3> QED
      BY <1>5, <3>1
  <2> QED
    BY <2>1
<1>7. Some(U) \in U
  BY <1>6, SomeIsIn
<1>8. g[U \ {Some(U)}] \in Int
  BY <1>4, <1>7
<1>9. g[U] = w[Some(U)] + g[U \ {Some(U)}]
  BY <1>4, <1>6, <1>1
<1> QED
  BY <1>4, <1>7, <1>8, <1>9

\* A change of one value shows in every sum that has it.
LEMMA ChangeAdds ==
  ASSUME NEW S, IsFiniteSet(S), NEW k \in S, NEW d \in Int,
         NEW w, \A x \in S : w[x] \in Int,
         NEW v, \A x \in S \ {k} : v[x] = w[x], v[k] = w[k] + d,
         NEW g, Adds(w, S, g), NEW h, Adds(v, S, h)
  PROVE  \A U \in SUBSET S : h[U] = g[U] + (IF k \in U THEN d ELSE 0)
<1> DEFINE Bad == {U \in SUBSET S : h[U] # g[U] + (IF k \in U THEN d ELSE 0)}
<1>1. /\ g[{}] = 0
      /\ \A U \in SUBSET S : U # {} => g[U] = w[Some(U)] + g[U \ {Some(U)}]
  BY AddsAt
<1>2. /\ h[{}] = 0
      /\ \A U \in SUBSET S : U # {} => h[U] = v[Some(U)] + h[U \ {Some(U)}]
  <2> HIDE DEF Bad
  <2> QED
    BY ZenonT(30) DEF Adds
<1>3. SUFFICES ASSUME Bad # {} PROVE FALSE
  OBVIOUS
<1>4. Bad \in SUBSET (SUBSET S)
  OBVIOUS
<1>5. PICK U \in Bad : \A W \in SUBSET U : W # U => W \notin Bad
  <2> HIDE DEF Bad
  <2> QED
    BY <1>3, <1>4, SmallestSubset
<1>6. U \in SUBSET S /\ h[U] # g[U] + (IF k \in U THEN d ELSE 0)
  BY <1>5
<1>7. U # {}
  <2>1. CASE U = {}
    <3>1. k \notin U /\ g[U] = 0 /\ h[U] = 0
      BY <2>1, <1>1, <1>2
    <3> QED
      BY <1>6, <3>1
  <2> QED
    BY <2>1
<1> DEFINE x == Some(U)
           W == U \ {x}
<1>8. /\ x \in U /\ x \in S /\ W \in SUBSET U /\ W # U /\ W \in SUBSET S
      /\ k \in W <=> k \in U /\ k # x
  BY <1>7, SomeIsIn
<1>9. g[U] = w[x] + g[W] /\ h[U] = v[x] + h[W]
  BY <1>5, <1>7, <1>1, <1>2
<1>10. g[W] \in Int
  BY <1>8, AddsToInt
<1>11. h[W] = g[W] + (IF k \in W THEN d ELSE 0)
  BY <1>5, <1>8
<1> HIDE DEF x, W
<1>12. h[U] = g[U] + (IF k \in U THEN d ELSE 0)
  BY <1>5, <1>8, <1>9, <1>10, <1>11
<1> QED
  BY <1>5, <1>12

\* A sum of integers over a finite set is an integer.
LEMMA SumIsInt ==
  ASSUME NEW S, IsFiniteSet(S), NEW w, \A x \in S : w[x] \in Int
  PROVE  SumFunctionOnSet(w, S) \in Int
<1>1. PICK g : Adds(w, S, g) /\ SumFunctionOnSet(w, S) = g[S]
  BY SumAdds
<1> QED
  BY <1>1, AddsToInt

\* A sum of zeros is zero.
LEMMA SumOfZeros ==
  ASSUME NEW S, IsFiniteSet(S), NEW w, \A x \in S : w[x] = 0
  PROVE  SumFunctionOnSet(w, S) = 0
<1> DEFINE g == [U \in SUBSET S |-> 0]
<1>1. PICK h : Adds(w, S, h) /\ SumFunctionOnSet(w, S) = h[S]
  BY SumAdds
<1>2. Adds(w, S, g)
  <2>1. \A U \in SUBSET S : U # {} => w[Some(U)] = 0 /\ U \ {Some(U)} \in SUBSET S
    BY SomeIsIn
  <2>2. g = [U \in SUBSET S |-> IF U = {} THEN 0
                                ELSE w[Some(U)] + g[U \ {Some(U)}]]
    BY <2>1
  <2> QED
    BY <2>2 DEF Adds
<1>3. h[S] = g[S]
  <2> HIDE DEF g
  <2> QED
    BY <1>1, <1>2, S \in SUBSET S, AddsAlike
<1> QED
  BY <1>1, <1>3

\* A sum over a finite set follows the change of one of its terms.
LEMMA SumChanges ==
  ASSUME NEW S, IsFiniteSet(S), NEW k, NEW d \in Int,
         NEW w, \A x \in S : w[x] \in Int,
         NEW v, \A x \in S \ {k} : v[x] = w[x], k \in S => v[k] = w[k] + d
  PROVE  /\ SumFunctionOnSet(w, S) \in Int
         /\ SumFunctionOnSet(v, S)
              = SumFunctionOnSet(w, S) + (IF k \in S THEN d ELSE 0)
<1>1. \A x \in S : v[x] \in Int
  OBVIOUS
<1>2. PICK g : Adds(w, S, g) /\ SumFunctionOnSet(w, S) = g[S]
  BY SumAdds
<1>3. PICK h : Adds(v, S, h) /\ SumFunctionOnSet(v, S) = h[S]
  BY <1>1, SumAdds
<1>4. S \in SUBSET S /\ g[S] \in Int
  BY <1>2, AddsToInt
<1>5. CASE k \in S
  BY <1>2, <1>3, <1>4, <1>5, ChangeAdds
<1>6. CASE k \notin S
  <2>1. Adds(v, S, g)
    BY <1>2, <1>6, SomeIsIn DEF Adds
  <2>2. h[S] = g[S]
    BY <1>3, <1>4, <2>1, AddsAlike
  <2> QED
    BY <1>2, <1>3, <1>4, <1>6, <2>2
<1> QED
  BY <1>5, <1>6

\* A sum over the first places of a sequence, written out.
Term(w, n, i) == IF i <= n THEN w[i] ELSE 0

LEMMA SumOfSix ==
  ASSUME NEW n \in 0 .. 6, NEW w, \A i \in 1 .. n : w[i] \in Int
  PROVE  SumFunctionOnSet(w, 1 .. n)
           = Term(w, n, 1) + Term(w, n, 2) + Term(w, n, 3)
               + Term(w, n, 4) + Term(w, n, 5) + Term(w, n, 6)
<1> DEFINE S == 1 .. n
           First(j) == [i \in S |-> IF i <= j THEN w[i] ELSE 0]
           sum(j) == SumFunctionOnSet(First(j), S)
<1>1. IsFiniteSet(S)
  BY FS_Interval
<1>2. \A j \in 1 .. 6 : Term(w, n, j) \in Int /\ (j \in S <=> j <= n)
  BY DEF Term
<1>3. sum(0) = 0
  <2>1. \A i \in S : First(0)[i] = 0
    OBVIOUS
  <2> QED
    BY <1>1, <2>1, SumOfZeros
<1>4. ASSUME NEW j \in 1 .. 6
      PROVE  /\ sum(j - 1) \in Int
             /\ sum(j) = sum(j - 1) + Term(w, n, j)
  <2> DEFINE v == First(j - 1)
             u == First(j)
             d == Term(w, n, j)
  <2>0. d \in Int
    BY <1>2
  <2>1. \A i \in S : v[i] \in Int
    OBVIOUS
  <2>2. \A i \in S \ {j} : u[i] = v[i]
    OBVIOUS
  <2>3. j \in S => u[j] = v[j] + d
    BY DEF Term
  <2>4. IF j \in S THEN Term(w, n, j) = Term(w, n, j) ELSE Term(w, n, j) = 0
    BY DEF Term
  <2> HIDE DEF v, u, d, S
  <2>5. /\ SumFunctionOnSet(v, S) \in Int
        /\ SumFunctionOnSet(u, S) = SumFunctionOnSet(v, S)
              + (IF j \in S THEN d ELSE 0)
    BY <1>1, <2>0, <2>1, <2>2, <2>3, SumChanges
  <2> QED
    BY <1>2, <2>4, <2>5 DEF v, u, d
<1>5. SumFunctionOnSet(w, S) = sum(6)
  <2> DEFINE v == First(6)
  <2>1. /\ \A i \in S : v[i] \in Int /\ w[i] = v[i]
        /\ 1 \in S => w[1] = v[1] + 0
    OBVIOUS
  <2> HIDE DEF v, S
  <2>2. /\ SumFunctionOnSet(v, S) \in Int
        /\ SumFunctionOnSet(w, S) = SumFunctionOnSet(v, S) + (IF 1 \in S THEN 0 ELSE 0)
    BY <1>1, <2>1, SumChanges
  <2> QED
    BY <2>2 DEF v
<1> HIDE DEF sum
<1>6. /\ sum(1) = sum(0) + Term(w, n, 1) /\ sum(2) = sum(1) + Term(w, n, 2)
      /\ sum(3) = sum(2) + Term(w, n, 3) /\ sum(4) = sum(3) + Term(w, n, 4)
      /\ sum(5) = sum(4) + Term(w, n, 5) /\ sum(6) = sum(5) + Term(w, n, 6)
  <2>1. /\ sum(1) = sum(1 - 1) + Term(w, n, 1) /\ sum(2) = sum(2 - 1) + Term(w, n, 2)
        /\ sum(3) = sum(3 - 1) + Term(w, n, 3) /\ sum(4) = sum(4 - 1) + Term(w, n, 4)
        /\ sum(5) = sum(5 - 1) + Term(w, n, 5) /\ sum(6) = sum(6 - 1) + Term(w, n, 6)
    BY <1>4
  <2> QED
    BY <2>1
<1> QED
  BY <1>2, <1>3, <1>5, <1>6
=============================================================================
