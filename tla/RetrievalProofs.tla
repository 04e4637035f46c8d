--------------------------- MODULE RetrievalProofs ---------------------------
(***************************************************************************)
(* What the algorithms of retrieval compute, for any data: the windows in  *)
(* which a body is read (BodyWindow), and the search and the expansion of  *)
(* the call graph (Traversal).                                             *)
(***************************************************************************)
EXTENDS Traversal, BodyWindow, Sizing, SubsequencesProofs, SequenceTheorems, WellFoundedInduction, TLAPS

----------------------------------------------------------------------------
(* Induction and recursion over data.  The provers cannot instantiate the   *)
(* theorems of the library that do this, which take a predicate; the same   *)
(* follows for a set of numbers from the least of those outside it, and     *)
(* that a function is what its recursive definition says from the existence *)
(* of one that is.                                                          *)

\* Induction along 0..n, for a set of numbers.
LEMMA ReachesAll ==
    ASSUME NEW n \in Nat, NEW S, 0 \in S, \A i \in 1..n : i - 1 \in S => i \in S
    PROVE  \A i \in 0..n : i \in S
<1> DEFINE Out == {i \in 0..n : i \notin S}
<1> SUFFICES ASSUME Out # {} PROVE FALSE
  OBVIOUS
<1>1. PICK i \in Out : \A j \in Out : i <= j
  <2>1. Out \in SUBSET Nat
    OBVIOUS
  <2> HIDE DEF Out
  <2> QED
    BY <2>1, LeastOf
<1>2. i \in 1..n /\ i \notin S /\ i - 1 \in 0..n /\ ~ (i <= i - 1)
  BY <1>1
<1>3. i - 1 \in S
  BY <1>1, <1>2
<1> QED
  BY <1>2, <1>3

\* Recursion along 1..n: each value is computed from the one before.
Recurses(f, n, base, step) ==
    f[0] = base /\ \A i \in 1..n : f[i] = step[i][f[i - 1]]

LEMMA RecursionAlong ==
    ASSUME NEW n \in Nat, NEW V, NEW base \in V, NEW step \in [1..n -> [V -> V]]
    PROVE  \E f \in [0..n -> V] : Recurses(f, n, base, step)
<1> DEFINE Next(f) == [i \in 0..n |-> IF i = 0 THEN base ELSE step[i][f[i - 1]]]
           Right(f, k) == \A i \in 0..k : f[i] = Next(f)[i]
           Reached == {k \in 0..n : \E f \in [0..n -> V] : Right(f, k)}
<1>1. 0 \in Reached
  <2>1. [i \in 0..n |-> base] \in [0..n -> V]
    OBVIOUS
  <2>2. Right([i \in 0..n |-> base], 0)
    OBVIOUS
  <2>3. 0 \in 0..n
    OBVIOUS
  <2> HIDE DEF Right
  <2> QED
    BY <2>1, <2>2, <2>3, Zenon
<1>2. ASSUME NEW k \in 1..n, k - 1 \in Reached PROVE k \in Reached
  <2>1. PICK f \in [0..n -> V] : Right(f, k - 1)
    BY <1>2
  <2>2. Next(f) \in [0..n -> V]
    OBVIOUS
  <2>3. Right(Next(f), k)
    <3> SUFFICES ASSUME NEW i \in 0..k PROVE Next(f)[i] = Next(Next(f))[i]
      OBVIOUS
    <3>1. CASE i = 0
      BY <3>1
    <3>2. CASE i # 0
      <4>1. i - 1 \in 0..(k - 1) /\ i \in 0..n /\ i - 1 \in 0..n
        BY <3>2
      <4>2. Next(f)[i - 1] = f[i - 1]
        BY <2>1, <4>1
      <4> QED
        BY <3>2, <4>1, <4>2
    <3> QED
      BY <3>1, <3>2
  <2>4. k \in 0..n
    OBVIOUS
  <2> HIDE DEF Right, Next
  <2> QED
    BY <2>2, <2>3, <2>4, Zenon
<1>3. n \in Reached
  <2> HIDE DEF Reached
  <2>1. \A k \in 1..n : k - 1 \in Reached => k \in Reached
    BY <1>2, Zenon
  <2>2. \A k \in 0..n : k \in Reached
    BY <1>1, <2>1, ReachesAll
  <2> QED
    BY <2>2
<1>4. PICK f \in [0..n -> V] : Right(f, n)
  BY <1>3
<1>5. f[0] = base /\ \A i \in 1..n : f[i] = step[i][f[i - 1]]
  BY <1>4
<1>6. Recurses(f, n, base, step)
  BY <1>5 DEF Recurses
<1> QED
  BY <1>6

LEMMA GreatestBounded ==
    ASSUME NEW n \in Nat, NEW I \in SUBSET Nat, I # {}, \A j \in I : j <= n
    PROVE  \E m \in I : \A j \in I : j <= m
<1> DEFINE Bounds == {m \in Nat : \A j \in I : j <= m}
<1>1. n \in Bounds /\ Bounds \in SUBSET Nat
  OBVIOUS
<1>2. PICK m \in Bounds : \A k \in Bounds : m <= k
  <2> HIDE DEF Bounds
  <2> QED
    BY <1>1, LeastOf
<1>3. m \in I
  <2> SUFFICES ASSUME m \notin I PROVE FALSE
    OBVIOUS
  <2>1. PICK j \in I : TRUE
    OBVIOUS
  <2>2. j < m
    BY <1>2
  <2>3. \A k \in I : k <= m - 1
    BY <1>2
  <2>4. m - 1 \in Bounds
    BY <2>1, <2>2, <2>3
  <2> QED
    BY <1>2, <2>4
<1> QED
  BY <1>2, <1>3

LEMMA BoundedAlong ==
    ASSUME NEW n \in Nat, NEW f \in [1..n -> Nat]
    PROVE  \E b \in Nat : \A i \in 1..n : f[i] <= b
<1> DEFINE R == {k \in 0..n : \E b \in Nat : \A i \in 1..k : f[i] <= b}
<1>1. 0 \in R
  OBVIOUS
<1>2. ASSUME NEW k \in 1..n, k - 1 \in R PROVE k \in R
  <2>1. PICK b \in Nat : \A i \in 1..k - 1 : f[i] <= b
    BY <1>2
  <2>2. b + f[k] \in Nat /\ f[k] \in Nat
    BY <2>1
  <2>3. \A i \in 1..k : f[i] <= b + f[k]
    <3> TAKE i \in 1..k
    <3>1. i \in 1..n /\ f[i] \in Nat /\ (i = k \/ i \in 1..k - 1)
      OBVIOUS
    <3> QED
      BY <2>1, <2>2, <3>1
  <2> QED
    BY <2>2, <2>3
<1> HIDE DEF R
<1>3. \A k \in 0..n : k \in R
  BY <1>1, <1>2, ReachesAll
<1>4. n \in R
  BY <1>3
<1> QED
  BY <1>4 DEF R

LEMMA BoundedOn ==
    ASSUME NEW S, IsFiniteSet(S), NEW f \in [S -> Nat]
    PROVE  \E b \in Nat : \A x \in S : f[x] <= b
<1> DEFINE n == Cardinality(S)
<1>1. n \in Nat /\ ExistsBijection(1..n, S)
  BY FS_CardinalityType
<1> HIDE DEF n
<1>2. PICK at \in [1..n -> S] : \A x \in S : \E i \in 1..n : at[i] = x
  BY <1>1 DEF ExistsBijection, Bijection, Injection, Surjection
<1> DEFINE g == [i \in 1..n |-> f[at[i]]]
<1>3. g \in [1..n -> Nat] /\ \A i \in 1..n : g[i] = f[at[i]]
  BY <1>2
<1> HIDE DEF g
<1>4. PICK b \in Nat : \A i \in 1..n : g[i] <= b
  BY <1>1, <1>3, BoundedAlong
<1> QED
  BY <1>2, <1>3, <1>4

\* What FoldLeft computes over the indices of a sequence, in whichever order the
\* function it is defined by takes them.
FoldsBy(g, n, base, step) ==
    \A I \in SUBSET (1..n) :
        g[I] = IF I = {} THEN base ELSE step[Max(I)][g[I \ {Max(I)}]]

LEMMA GreatestOf ==
    ASSUME NEW n \in Nat, NEW I \in SUBSET (1..n), I # {}
    PROVE  Max(I) \in I /\ \A j \in I : j <= Max(I)
<1>1. I \in SUBSET Nat /\ \A j \in I : j <= n
  OBVIOUS
<1>2. PICK m \in I : \A j \in I : j <= m
  BY <1>1, GreatestBounded
<1>3. Max(I) \in I /\ \A j \in I : Max(I) >= j
  BY <1>2 DEF Max
<1> QED
  BY <1>3

LEMMA FoldsAlong ==
    ASSUME NEW n \in Nat, NEW V, NEW base \in V, NEW step \in [1..n -> [V -> V]]
    PROVE  \E g \in [SUBSET (1..n) -> V] : FoldsBy(g, n, base, step)
<1> DEFINE P == SUBSET (1..n)
           Next(g, I) == IF I = {} THEN base ELSE step[Max(I)][g[I \ {Max(I)}]]
           Step(g) == [I \in P |-> Next(g, I)]
           Right(g, k) == \A I \in P : Cardinality(I) <= k => g[I] = Next(g, I)
           Reached == {k \in 0..n : \E g \in [P -> V] : Right(g, k)}
<1>1. \A I \in P : /\ IsFiniteSet(I) /\ Cardinality(I) \in 0..n
                   /\ Cardinality(I) = 0 <=> I = {}
  <2> TAKE I \in P
  <2>1. IsFiniteSet(1..n) /\ Cardinality(1..n) = n
    BY FS_Interval
  <2>2. I \in SUBSET (1..n)
    OBVIOUS
  <2> HIDE DEF P
  <2>3. IsFiniteSet(I) /\ Cardinality(I) <= n
    <3>1. IsFiniteSet(I) /\ Cardinality(I) <= Cardinality(1..n)
      BY <2>1, <2>2, FS_Subset
    <3> QED
      BY <2>1, <3>1
  <2>4. Cardinality(I) \in Nat
    BY <2>3, FS_CardinalityType
  <2>5. Cardinality(I) = 0 <=> I = {}
    BY <2>3, FS_EmptySet
  <2> QED
    BY <2>3, <2>4, <2>5
<1>2. \A I \in P : I # {} => /\ Max(I) \in 1..n /\ I \ {Max(I)} \in P
                             /\ Cardinality(I \ {Max(I)}) = Cardinality(I) - 1
  <2> SUFFICES ASSUME NEW I \in P, I # {}
               PROVE  /\ Max(I) \in 1..n /\ I \ {Max(I)} \in P
                      /\ Cardinality(I \ {Max(I)}) = Cardinality(I) - 1
    OBVIOUS
  <2>1. Max(I) \in I
    BY GreatestOf
  <2> QED
    BY <1>1, <2>1, FS_RemoveElement
<1>3. \A g \in [P -> V] : Step(g) \in [P -> V]
  <2> SUFFICES ASSUME NEW g \in [P -> V], NEW I \in P PROVE Next(g, I) \in V
    OBVIOUS
  <2>1. CASE I = {}
    BY <2>1
  <2>2. CASE I # {}
    <3>1. step[Max(I)] \in [V -> V] /\ g[I \ {Max(I)}] \in V
      BY <1>2, <2>2
    <3> QED
      BY <2>2, <3>1
  <2> QED
    BY <2>1, <2>2
<1>4. 0 \in Reached
  <2>1. [I \in P |-> base] \in [P -> V]
    OBVIOUS
  <2>2. Right([I \in P |-> base], 0)
    BY <1>1
  <2>3. 0 \in 0..n
    OBVIOUS
  <2> HIDE DEF Right, P
  <2> QED
    BY <2>1, <2>2, <2>3, Zenon
<1>5. ASSUME NEW k \in 1..n, k - 1 \in Reached PROVE k \in Reached
  <2>1. PICK g \in [P -> V] : Right(g, k - 1)
    BY <1>5
  <2>2. Step(g) \in [P -> V]
    BY <1>3
  <2>3. ASSUME NEW I \in P, Cardinality(I) <= k - 1 PROVE Step(g)[I] = g[I]
    BY <2>1, <2>3
  <2>4. Right(Step(g), k)
    <3> SUFFICES ASSUME NEW I \in P, Cardinality(I) <= k
                 PROVE  Step(g)[I] = Next(Step(g), I)
      OBVIOUS
    <3>1. CASE I = {}
      BY <3>1
    <3>2. CASE I # {}
      <4>1. I \ {Max(I)} \in P /\ Cardinality(I \ {Max(I)}) <= k - 1
        <5>1. I \ {Max(I)} \in P /\ Cardinality(I \ {Max(I)}) = Cardinality(I) - 1
          BY <1>2, <3>2
        <5>2. Cardinality(I) \in Int
          BY <1>1
        <5> QED
          BY <5>1, <5>2
      <4>2. Step(g)[I \ {Max(I)}] = g[I \ {Max(I)}]
        BY <2>3, <4>1
      <4> QED
        BY <3>2, <4>2
    <3> QED
      BY <3>1, <3>2
  <2>5. k \in 0..n
    OBVIOUS
  <2> HIDE DEF Right, Step, P
  <2> QED
    BY <2>2, <2>4, <2>5, Zenon
<1>6. n \in Reached
  <2> HIDE DEF Reached
  <2>1. \A k \in 1..n : k - 1 \in Reached => k \in Reached
    BY <1>5, Zenon
  <2>2. \A k \in 0..n : k \in Reached
    BY <1>4, <2>1, ReachesAll
  <2> QED
    BY <2>2
<1>7. PICK g \in [P -> V] : Right(g, n)
  BY <1>6
<1>8. FoldsBy(g, n, base, step)
  <2>1. \A I \in P : g[I] = Next(g, I)
    <3> HIDE DEF Next, P
    <3> QED
      BY <1>1, <1>7
  <2> QED
    BY <2>1 DEF FoldsBy
<1> QED
  BY <1>8

LEMMA LastGreatest ==
    ASSUME NEW n \in Nat, NEW k \in 1..n
    PROVE  Max(1..k) = k
<1>1. 1..k \in SUBSET (1..n) /\ 1..k # {} /\ k \in 1..k
  OBVIOUS
<1>2. Max(1..k) \in 1..k /\ \A j \in 1..k : j <= Max(1..k)
  BY <1>1, GreatestOf
<1>3. k <= Max(1..k) /\ Max(1..k) <= k /\ Max(1..k) \in Int
  BY <1>1, <1>2
<1> QED
  BY <1>3

\* A fold by a function for each index is reached index by index.
FoldsIn(fold, n, V, base, step) ==
    /\ fold[{}] = base
    /\ \A I \in SUBSET (1..n) : I # {} /\ fold[I \ {Max(I)}] \in V =>
           fold[I] = step[Max(I)][fold[I \ {Max(I)}]]
ReadsFold(h, fold, n, V, base, step) ==
    /\ h[0] = base /\ h[n] = fold[1..n]
    /\ \A k \in 0..n : h[k] \in V
    /\ \A k \in 1..n : h[k] = step[k][h[k - 1]]

LEMMA FoldReads ==
    ASSUME NEW n \in Nat, NEW V, NEW base \in V, NEW step \in [1..n -> [V -> V]], NEW fold,
           FoldsIn(fold, n, V, base, step)
    PROVE  \E h : ReadsFold(h, fold, n, V, base, step)
<1> DEFINE h == [k \in 0..n |-> fold[1..k]]
           R == {k \in 0..n : h[k] \in V}
<1>1. h[0] = base /\ h[n] = fold[1..n]
  <2>1. 1..0 = {} /\ 0 \in 0..n /\ n \in 0..n
    OBVIOUS
  <2> QED
    BY <2>1 DEF FoldsIn
<1>2. ASSUME NEW k \in 1..n, k - 1 \in R PROVE k \in R /\ h[k] = step[k][h[k - 1]]
  <2>1. 1..k \in SUBSET (1..n) /\ 1..k # {} /\ (1..k) \ {k} = 1..k - 1
        /\ k \in 0..n /\ k - 1 \in 0..n
    <3>1. k \in Int /\ 1 <= k /\ k <= n /\ n \in Int /\ k \in 1..k
      OBVIOUS
    <3>2. 1..k \subseteq 1..n /\ k \in 0..n /\ k - 1 \in 0..n
      BY <3>1
    <3>3. (1..k) \ {k} = 1..k - 1
      BY <3>1
    <3> QED
      BY <3>1, <3>2, <3>3
  <2>2. Max(1..k) = k
    BY LastGreatest
  <2>3. fold[1..k - 1] \in V
    BY <1>2, <2>1
  <2>4. fold[1..k] = step[k][fold[1..k - 1]]
    BY <2>1, <2>2, <2>3 DEF FoldsIn
  <2>5. step[k] \in [V -> V]
    OBVIOUS
  <2> QED
    BY <2>1, <2>3, <2>4, <2>5
<1>3. 0 \in R
  BY <1>1
<1> HIDE DEF h
<1>4. \A k \in 0..n : k \in R
  <2> HIDE DEF R
  <2>1. \A k \in 1..n : k - 1 \in R => k \in R
    BY <1>2, Zenon
  <2> QED
    BY <1>3, <2>1, ReachesAll
<1>5. \A k \in 1..n : h[k] = step[k][h[k - 1]]
  <2> TAKE k \in 1..n
  <2>1. k - 1 \in 0..n
    OBVIOUS
  <2> HIDE DEF R
  <2> QED
    BY <1>2, <1>4, <2>1
<1> QED
  BY <1>1, <1>4, <1>5 DEF ReadsFold

----------------------------------------------------------------------------
(* Sizing: sums, and the bisection.                                         *)

\* A sum of costs grows along them.
LEMMA SumAlong ==
    ASSUME NEW costs \in Seq(Nat)
    PROVE  \E f \in [0..Len(costs) -> Nat] :
              /\ f[0] = 0
              /\ \A i \in 1..Len(costs) : f[i] = f[i - 1] + costs[i]
              /\ \A k \in Nat : SumFirst(costs, k) = f[Lesser(k, Len(costs))]
<1> DEFINE n == Len(costs)
           step == [i \in 1..n |-> [v \in Nat |-> v + costs[i]]]
           sum == CHOOSE f : f = [i \in 0..n |-> IF i = 0 THEN 0 ELSE f[i - 1] + costs[i]]
<1>1. n \in Nat /\ 0 \in Nat /\ \A i \in 1..n : costs[i] \in Nat
  BY LenProperties
<1>2. step \in [1..n -> [Nat -> Nat]]
  BY <1>1
<1>3. \A v \in Nat, i \in 1..n : step[i][v] = v + costs[i]
  OBVIOUS
<1>4. \A k \in Nat : SumFirst(costs, k) = sum[Lesser(k, n)]
  BY Zenon DEF SumFirst, n
<1> HIDE DEF n, step
<1>r. PICK f \in [0..n -> Nat] : Recurses(f, n, 0, step)
  BY <1>1, <1>2, RecursionAlong
<1>5. f[0] = 0 /\ \A i \in 1..n : f[i] = step[i][f[i - 1]]
  BY <1>r DEF Recurses
<1>7. \A i \in 1..n : step[i][f[i - 1]] = f[i - 1] + costs[i]
  <2> TAKE i \in 1..n
  <2>1. i - 1 \in 0..n
    BY <1>1
  <2>2. f[i - 1] \in Nat
    BY <2>1
  <2> QED
    BY <1>3, <2>2
<1>8. f = [i \in 0..n |-> IF i = 0 THEN 0 ELSE f[i - 1] + costs[i]]
  <2>1. f = [i \in 0..n |-> f[i]]
    OBVIOUS
  <2>2. \A i \in 0..n : f[i] = IF i = 0 THEN 0 ELSE f[i - 1] + costs[i]
    BY <1>1, <1>5, <1>7
  <2> QED
    BY <2>1, <2>2
<1>9. sum = [i \in 0..n |-> IF i = 0 THEN 0 ELSE sum[i - 1] + costs[i]]
  BY <1>8, Zenon
<1> HIDE DEF sum
<1>10. sum[0] = 0 /\ \A i \in 1..n : sum[i] = sum[i - 1] + costs[i]
  BY <1>1, <1>9
<1>11. \A i \in 0..n : sum[i] \in Nat
  <2> DEFINE S == {i \in 0..n : sum[i] \in Nat}
  <2>1. 0 \in S
    BY <1>1, <1>10
  <2>2. ASSUME NEW i \in 1..n, i - 1 \in S PROVE i \in S
    <3>1. sum[i] = sum[i - 1] + costs[i] /\ sum[i - 1] \in Nat /\ costs[i] \in Nat
      BY <1>1, <1>10, <2>2
    <3>2. i \in 0..n
      BY <1>1
    <3> QED
      BY <3>1, <3>2
  <2> HIDE DEF S
  <2>3. \A i \in 0..n : i \in S
    BY <1>1, <2>1, <2>2, ReachesAll
  <2> QED
    BY <2>3 DEF S
<1>12. sum \in [0..n -> Nat]
  <2>1. sum = [i \in 0..n |-> sum[i]]
    BY <1>9
  <2> QED
    BY <1>11, <2>1
<1> QED
  BY <1>4, <1>10, <1>12 DEF n

LEMMA TotalOfCosts ==
    ASSUME NEW costs \in Seq(Nat)
    PROVE  /\ Total(costs) \in Nat
           /\ Len(costs) = 1 => Total(costs) = costs[1]
<1>1. PICK f \in [0..Len(costs) -> Nat] :
          /\ f[0] = 0
          /\ \A i \in 1..Len(costs) : f[i] = f[i - 1] + costs[i]
          /\ \A k \in Nat : SumFirst(costs, k) = f[Lesser(k, Len(costs))]
  BY SumAlong
<1>2. Len(costs) \in Nat /\ \A i \in 1..Len(costs) : costs[i] \in Nat
  BY LenProperties
<1>3. Len(costs) \in 0..Len(costs)
  BY <1>2
<1>t. Total(costs) = f[Len(costs)]
  BY <1>1, <1>2 DEF Total, Lesser
<1>4. Total(costs) \in Nat
  BY <1>1, <1>3, <1>t
<1>5. ASSUME Len(costs) = 1 PROVE Total(costs) = costs[1]
  <2>1. f[1] = f[1 - 1] + costs[1] /\ costs[1] \in Nat
    BY <1>1, <1>2, <1>5
  <2> QED
    BY <1>1, <1>5, <1>t, <2>1
<1> QED
  BY <1>4, <1>5

\* The bisection ends within its range, at the first number or at one that is
\* good.
LEMMA BisectionEnds ==
    ASSUME NEW Good, NEW first \in Int, NEW last \in Int, first <= last + 1
    PROVE  /\ Bisected(Good, first, last) \in first..last + 1
           /\ Bisected(Good, first, last) \in Good \cup {first}
<1> DEFINE R == last - first + 1
           Found == {m \in first..last + 1 : m \in Good \cup {first}}
           Bounds == [low : first..last + 1, high : first - 1..last, found : first..last + 1]
           Mid(w) == (w.low + w.high) \div 2
           Up(w) == [w EXCEPT !.low = Mid(w) + 1, !.found = Mid(w)]
           Down(w) == [w EXCEPT !.high = Mid(w) - 1]
           Next(f, w) == IF w.low > w.high THEN w.found
                         ELSE IF Mid(w) \in Good THEN f[Up(w)] ELSE f[Down(w)]
           Width(w) == w.high - w.low + 1
           bisect == CHOOSE f : f = [w \in Bounds |-> Next(f, w)]
           begin == [low |-> first, high |-> last, found |-> first]
           Numbers == first..last + 1
<1>1. Bisected(Good, first, last) = bisect[begin]
  BY Zenon DEF Bisected
<1>r. R \in Nat /\ first \in Int /\ last \in Int
  OBVIOUS
<1>2. ASSUME NEW w \in Bounds
      PROVE  /\ Width(w) \in Int /\ Width(w) <= R /\ w.found \in Numbers
             /\ Width(w) <= 0 => w.low > w.high
             /\ ~ (w.low > w.high) =>
                    /\ Up(w) \in Bounds /\ Width(Up(w)) < Width(w) /\ Up(w).found = Mid(w)
                    /\ Down(w) \in Bounds /\ Width(Down(w)) < Width(w)
                    /\ Down(w).found = w.found
  <2>1. /\ w.low \in first..last + 1 /\ w.high \in first - 1..last
        /\ w.found \in first..last + 1
        /\ w = [low |-> w.low, high |-> w.high, found |-> w.found]
    OBVIOUS
  <2>m. ASSUME NEW m \in first..last PROVE [w EXCEPT !.low = m + 1, !.found = m] \in Bounds
    <3>1. m \in first..last + 1 /\ m + 1 \in first..last + 1
      BY <1>r
    <3> QED
      BY <2>1, <3>1
  <2>2. ASSUME ~ (w.low > w.high)
        PROVE  Mid(w) \in Int /\ w.low <= Mid(w) /\ Mid(w) <= w.high
    BY <2>1, <2>2, <1>r
  <2> HIDE DEF Mid
  <2>3. ASSUME ~ (w.low > w.high)
        PROVE  /\ Up(w) \in Bounds /\ Up(w).low = Mid(w) + 1 /\ Up(w).high = w.high
               /\ Up(w).found = Mid(w)
    <3>1. Mid(w) \in first..last
      BY <2>1, <2>2, <2>3, <1>r
    <3> QED
      BY <2>1, <2>m, <3>1
  <2>4. ASSUME ~ (w.low > w.high)
        PROVE  /\ Down(w) \in Bounds /\ Down(w).low = w.low /\ Down(w).high = Mid(w) - 1
               /\ Down(w).found = w.found
    <3>1. Mid(w) - 1 \in first - 1..last
      BY <2>1, <2>2, <2>4, <1>r
    <3> QED
      BY <2>1, <3>1
  <2> HIDE DEF Bounds, Up, Down
  <2> QED
    BY <2>1, <2>2, <2>3, <2>4, <1>r
<1>3. begin \in Bounds /\ begin.found = first
  BY <1>r
<1>4. \A w \in Bounds : Width(w) <= R
  BY <1>2
<1> HIDE DEF Bounds, Up, Down, Width, begin, R, Numbers
<1> DEFINE Right(f, k) == \A w \in Bounds : Width(w) <= k => f[w] = Next(f, w)
           Step(f) == [w \in Bounds |-> Next(f, w)]
           Reached == {k \in 0..R : \E f \in [Bounds -> Numbers] : Right(f, k)}
<1>5. \A f \in [Bounds -> Numbers] : Step(f) \in [Bounds -> Numbers]
  BY <1>2
<1>6. 0 \in Reached
  <2>1. [w \in Bounds |-> w.found] \in [Bounds -> Numbers]
    BY <1>2
  <2>2. Right([w \in Bounds |-> w.found], 0)
    BY <1>2
  <2>3. 0 \in 0..R
    BY <1>r
  <2> HIDE DEF Right
  <2> QED
    BY <2>1, <2>2, <2>3, Zenon
<1>7. ASSUME NEW k \in 1..R, k - 1 \in Reached PROVE k \in Reached
  <2>1. PICK f \in [Bounds -> Numbers] : Right(f, k - 1)
    BY <1>7
  <2>2. Step(f) \in [Bounds -> Numbers]
    BY <1>5
  <2>3. ASSUME NEW v \in Bounds, Width(v) <= k - 1 PROVE Step(f)[v] = f[v]
    BY <2>1, <2>3
  <2>4. Right(Step(f), k)
    <3> SUFFICES ASSUME NEW w \in Bounds, Width(w) <= k
                 PROVE  Step(f)[w] = Next(Step(f), w)
      OBVIOUS
    <3>1. CASE w.low > w.high
      BY <3>1
    <3>2. CASE ~ (w.low > w.high)
      <4>1. /\ Up(w) \in Bounds /\ Width(Up(w)) <= k - 1
            /\ Down(w) \in Bounds /\ Width(Down(w)) <= k - 1
        BY <1>2, <1>r, <3>2
      <4>2. Step(f)[Up(w)] = f[Up(w)] /\ Step(f)[Down(w)] = f[Down(w)]
        BY <2>3, <4>1
      <4> QED
        BY <3>2, <4>2
    <3> QED
      BY <3>1, <3>2
  <2>5. k \in 0..R
    BY <1>r
  <2> HIDE DEF Right, Step
  <2> QED
    BY <2>2, <2>4, <2>5, Zenon
<1>8. R \in Reached
  <2> HIDE DEF Reached
  <2>1. \A k \in 1..R : k - 1 \in Reached => k \in Reached
    BY <1>7, Zenon
  <2>2. \A k \in 0..R : k \in Reached
    BY <1>6, <1>r, <2>1, ReachesAll
  <2> QED
    BY <1>r, <2>2
<1>9. PICK f \in [Bounds -> Numbers] : Right(f, R)
  BY <1>8
<1>10. f = [w \in Bounds |-> Next(f, w)]
  <2>1. f = [w \in Bounds |-> f[w]]
    OBVIOUS
  <2>2. \A w \in Bounds : f[w] = Next(f, w)
    BY <1>4, <1>9
  <2> HIDE DEF Next
  <2> QED
    BY <2>1, <2>2
<1>11. bisect = [w \in Bounds |-> Next(bisect, w)]
  BY <1>10, Zenon
<1> HIDE DEF bisect
<1>12. \A w \in Bounds : bisect[w] = Next(bisect, w)
  <2> HIDE DEF Next
  <2> QED
    BY <1>11
<1> DEFINE Sound(w) == w.found \in Good \cup {first}
           Ends(w) == bisect[w] \in Numbers /\ (Sound(w) => bisect[w] \in Good \cup {first})
           S == {k \in 0..R : \A w \in Bounds : Width(w) <= k => Ends(w)}
<1>13. \A k \in 0..R : k \in S
  <2>1. 0 \in S
    BY <1>2, <1>12, <1>r
  <2>2. ASSUME NEW k \in 1..R, k - 1 \in S PROVE k \in S
    <3>1. ASSUME NEW w \in Bounds, Width(w) <= k PROVE Ends(w)
      <4>1. CASE w.low > w.high
        BY <1>2, <1>12, <4>1
      <4>2. CASE ~ (w.low > w.high)
        <5>1. /\ Up(w) \in Bounds /\ Width(Up(w)) <= k - 1 /\ Up(w).found = Mid(w)
              /\ Down(w) \in Bounds /\ Width(Down(w)) <= k - 1 /\ Down(w).found = w.found
          BY <1>2, <1>r, <3>1, <4>2
        <5>2. Ends(Up(w)) /\ Ends(Down(w))
          BY <2>2, <5>1
        <5> HIDE DEF Mid
        <5> QED
          BY <1>12, <4>2, <5>1, <5>2
      <4> QED
        BY <4>1, <4>2
    <3>2. k \in 0..R
      BY <1>r
    <3> HIDE DEF Ends
    <3> QED
      BY <3>1, <3>2
  <2> HIDE DEF S
  <2>3. \A k \in 1..R : k - 1 \in S => k \in S
    BY <2>2
  <2> QED
    BY <1>r, <2>1, <2>3, ReachesAll
<1>14. Ends(begin) /\ Sound(begin)
  <2>1. R \in 0..R /\ Width(begin) <= R
    BY <1>3, <1>4, <1>r
  <2>2. Ends(begin)
    BY <1>3, <1>13, <2>1
  <2> QED
    BY <1>3, <2>2
<1> QED
  BY <1>1, <1>14 DEF Numbers

----------------------------------------------------------------------------
(* BodyWindow.  The argument: the bisection ends within the lines that      *)
(* remain, and a window that fits is shown, alone or among neighbours, or   *)
(* the client is told of a budget in which it does; so what it has read     *)
(* ends where the next window begins.                                       *)

\* A window has as many lines as the code finds, and at most those that remain.
LEMMA ChosenRemain ==
    ASSUME Remaining \in Nat \ {0}, NEW warned
    PROVE  ChosenCount(warned) \in 1..Remaining
<1> DEFINE Good == {m \in 1..Remaining : Alone(Window(offset, m), TRUE)}
<1>1. ChosenCount(warned) = IF Alone(Window(offset, Remaining), warned) THEN Remaining
                            ELSE Bisected(Good, 1, Remaining - 1)
  BY Zenon DEF ChosenCount
<1> HIDE DEF Good
<1>2. 1 \in Int /\ Remaining - 1 \in Int /\ 1 <= (Remaining - 1) + 1
  OBVIOUS
<1>3. Bisected(Good, 1, Remaining - 1) \in 1..(Remaining - 1) + 1
  BY <1>2, BisectionEnds
<1> QED
  BY <1>1, <1>3

\* A root without neighbours is packed when it fits.
LEMMA PackedAlone ==
    ASSUME NEW sole \in Nat, NEW fixed \in Nat, budget \in Nat, fixed + sole <= budget
    PROVE  1 \in Packed(<<sole>>, fixed)
<1> DEFINE E == <<sole>>
           Take(f, i) == IF i = 0 THEN [set |-> {}, used |-> 0]
                         ELSE LET was == f[i - 1] IN
                              IF was.used + E[i] <= budget \/ i = 1
                              THEN [set |-> was.set \cup {i}, used |-> was.used + E[i]]
                              ELSE was
           taken == CHOOSE f : f = [i \in 0..Len(E) |-> Take(f, i)]
           Price(S) == fixed + Total([i \in 1..Len(E) |-> IF i \in S THEN E[i] ELSE 0])
                       + OmittedId * (Len(E) - (IF S = {} THEN 0 ELSE
                            Total([i \in 1..Len(E) |-> IF i \in S THEN 1 ELSE 0])))
           Upto(k) == {i \in taken[Len(E)].set : i <= k}
           Fit(k) == /\ Price(Upto(k)) <= budget
                     /\ \A j \in k + 1..Len(E) : Price(Upto(j)) > budget
<1>1. Packed(<<sole>>, fixed) =
          IF \E k \in 0..Len(E) : Price(Upto(k)) <= budget
          THEN Upto(CHOOSE k \in 0..Len(E) : Fit(k)) ELSE {}
  BY Zenon DEF Packed
<1>2. Len(E) = 1 /\ E[1] = sole
  OBVIOUS
<1> HIDE DEF E
<1>3. taken[Len(E)].set = {1}
  <2> DEFINE g == [i \in 0..Len(E) |-> IF i = 0 THEN [set |-> {}, used |-> 0]
                                       ELSE [set |-> {1}, used |-> 0 + E[1]]]
  <2>1. g[0] = [set |-> {}, used |-> 0]
    BY <1>2
  <2>2. Take(g, 0) = g[0]
    BY <2>1
  <2>3. Take(g, 1) = g[1]
    BY <1>2, <2>1
  <2>4. g = [i \in 0..Len(E) |-> g[i]]
    OBVIOUS
  <2>5. \A i \in 0..Len(E) : i = 0 \/ i = 1
    BY <1>2
  <2> HIDE DEF Take, g
  <2>6. g = [i \in 0..Len(E) |-> Take(g, i)]
    BY <2>2, <2>3, <2>4, <2>5
  <2>7. taken = [i \in 0..Len(E) |-> Take(taken, i)]
    BY <2>6, Zenon
  <2> HIDE DEF taken
  <2>8. taken[0] = Take(taken, 0) /\ taken[1] = Take(taken, 1)
    BY <1>2, <2>7
  <2>9. taken[0] = [set |-> {}, used |-> 0]
    BY <2>8 DEF Take
  <2>10. taken[1].set = {} \cup {1}
    BY <2>8, <2>9 DEF Take
  <2> QED
    BY <1>2, <2>10
<1> HIDE DEF taken
<1>4. Upto(1) = {1}
  BY <1>3
<1>5. Price({1}) = fixed + sole
  <2> DEFINE costs == [i \in 1..Len(E) |-> IF i \in {1} THEN E[i] ELSE 0]
             ones == [i \in 1..Len(E) |-> IF i \in {1} THEN 1 ELSE 0]
  <2>1. costs \in Seq(Nat) /\ Len(costs) = 1 /\ costs[1] = sole
    <3>1. costs = <<sole>>
      BY <1>2
    <3> QED
      BY <3>1
  <2>2. ones \in Seq(Nat) /\ Len(ones) = 1 /\ ones[1] = 1
    <3>1. ones = <<1>>
      BY <1>2
    <3> QED
      BY <3>1
  <2> HIDE DEF costs, ones
  <2>3. Total(costs) = sole /\ Total(ones) = 1
    BY <2>1, <2>2, TotalOfCosts
  <2>4. Price({1}) = fixed + Total(costs) + OmittedId * (Len(E) - Total(ones))
    BY DEF costs, ones
  <2>5. Len(E) - Total(ones) = 0 /\ OmittedId * 0 = 0
    BY <1>2, <2>3, BodyAssumption DEF BodyAssumption
  <2>6. OmittedId * (Len(E) - Total(ones)) = 0
    BY <2>5, Zenon
  <2>7. PICK x : x = OmittedId * (Len(E) - Total(ones))
    OBVIOUS
  <2>8. Price({1}) = fixed + sole + x /\ x = 0
    BY <2>3, <2>4, <2>6, <2>7, Zenon
  <2> HIDE DEF Price
  <2> QED
    BY <2>8
<1> HIDE DEF Upto, Price
<1>6. Fit(1) /\ 1 \in 0..Len(E)
  BY <1>2, <1>4, <1>5
<1>7. \A k \in 0..Len(E) : Fit(k) => k = 1
  BY <1>2, <1>4, <1>5
<1> HIDE DEF Fit
<1>8. (CHOOSE k \in 0..Len(E) : Fit(k)) = 1
  BY <1>6, <1>7
<1>9. \E k \in 0..Len(E) : Price(Upto(k)) <= budget
  BY <1>6 DEF Fit
<1> QED
  BY <1>1, <1>4, <1>8, <1>9

\* The client knows how far it has read, and what it was told; a body is asked
\* for whole from its first line.
Answers == [root : BOOLEAN, from : Nat, count : Nat, min : Nat]

BodyShape ==
    /\ lines \in Bodies /\ near \in Seq(Nat) /\ budget \in Nat
    /\ ask \in {"whole", "window", "raise", "done"}
    /\ offset \in 1..Len(lines) /\ answer \in Answers /\ answer.count \in 0..Len(lines)

BodyInv ==
    /\ BodyShape
    /\ ask = "whole" => offset = 1
    /\ ask = "raise" => readLines = [i \in 1..offset - 1 |-> i]
    /\ WindowsReadBody

LEMMA BodyConstants ==
    /\ Frame \in Nat /\ Root \in Nat /\ Warning \in Nat /\ OmittedId \in Nat
    /\ \A b \in Bodies : b \in Seq(Nat) /\ Len(b) \in Nat \ {0} /\ 1 \in 1..Len(b)
    /\ Neighbours \subseteq Seq(Nat) /\ Budgets \subseteq Nat /\ <<>> \in Seq(Nat)
<1>1. ASSUME NEW b \in Bodies PROVE b \in Seq(Nat) /\ Len(b) \in Nat \ {0}
  <2>1. b \in Seq(Nat) /\ b # <<>>
    BY BodyAssumption DEF BodyAssumption
  <2> QED
    BY <2>1, EmptySeq, LenProperties
<1> QED
  BY <1>1, BodyAssumption DEF BodyAssumption

\* What is told of a window of the body.
LEMMA ToldOf ==
    ASSUME BodyShape, NEW first \in 1..Len(lines), NEW count \in 0..Len(lines),
           first + count - 1 <= Len(lines), NEW warned \in BOOLEAN, NEW min \in Nat
    PROVE  /\ Window(first, count) \in Seq(Nat)
           /\ Answer(first, count, warned, min) \in Answers
           /\ Answer(first, count, warned, min).count = count
           /\ Answer(first, count, warned, min).min =
                  IF Alone(Window(first, count), warned) THEN 0 ELSE min
           /\ near = <<>> /\ Alone(Window(first, count), warned)
                  => Answer(first, count, warned, min).root
<1> DEFINE part == Window(first, count)
           sole == RootCost(part, FALSE)
           fixed == Frame + (IF warned THEN Warning ELSE 0)
           kept == IF Alone(part, warned) THEN Packed(<<sole>> \o near, fixed) ELSE {}
           a == Answer(first, count, warned, min)
<1>0. Len(lines) \in Nat /\ lines \in Seq(Nat) /\ \A i \in 1..Len(lines) : lines[i] \in Nat
  BY BodyConstants, LenProperties DEF BodyShape
<1>1. part \in Seq(Nat)
  <2>1. first + count - 1 \in Int /\ \A i \in first..first + count - 1 : lines[i] \in Nat
    BY <1>0
  <2> QED
    BY <2>1, SubSeqProperties DEF Window
<1>2. a = [root |-> 1 \in kept, from |-> first, count |-> count,
           min |-> IF Alone(part, warned) THEN 0 ELSE min]
  BY DEF Answer
<1> HIDE DEF a, kept
<1>3. a \in Answers /\ a.count = count /\ a.min = (IF Alone(part, warned) THEN 0 ELSE min)
      /\ (a.root <=> 1 \in kept)
  <2>1. PICK b \in BOOLEAN : b <=> 1 \in kept
    OBVIOUS
  <2>2. a = [root |-> b, from |-> first, count |-> count,
             min |-> IF Alone(part, warned) THEN 0 ELSE min]
    BY <1>2, <2>1
  <2>3. PICK x \in Nat : x = IF Alone(part, warned) THEN 0 ELSE min
    OBVIOUS
  <2>4. a = [root |-> b, from |-> first, count |-> count, min |-> x]
    BY <2>2, <2>3, Zenon
  <2>5. a \in Answers /\ a.count = count /\ a.min = x /\ a.root = b
    BY <1>0, <2>4 DEF Answers
  <2> QED
    BY <2>1, <2>3, <2>5, Zenon
<1>4. ASSUME near = <<>>, Alone(part, warned) PROVE 1 \in kept
  <2>1. Total(part) \in Nat
    BY <1>1, TotalOfCosts
  <2>2. sole \in Nat /\ fixed \in Nat /\ fixed + sole <= budget
    BY <1>4, <2>1, BodyConstants DEF RootCost, Alone
  <2>3. <<sole>> \o near = <<sole>>
    BY <1>4, <2>2
  <2> HIDE DEF sole, fixed
  <2>4. 1 \in Packed(<<sole>>, fixed)
    BY <2>2, PackedAlone DEF BodyShape
  <2> QED
    BY <1>4, <2>3, <2>4 DEF kept, sole, fixed
<1> QED
  BY <1>1, <1>3, <1>4 DEF a

\* Windows that follow one another join.
LEMMA WindowsJoin ==
    ASSUME NEW from \in Nat \ {0}, NEW count \in Nat
    PROVE  [i \in 1..from - 1 |-> i] \o [i \in 1..count |-> from + i - 1]
               = [i \in 1..from + count - 1 |-> i]
<1> DEFINE s == [i \in 1..from - 1 |-> i]
           r == [i \in 1..count |-> from + i - 1]
           t == [i \in 1..from + count - 1 |-> i]
<1>1. from - 1 \in Nat /\ from + count - 1 \in Nat
  OBVIOUS
<1>2. s \in Seq(Int) /\ Len(s) = from - 1 /\ \A i \in 1..from - 1 : s[i] = i
  BY <1>1
<1>3. r \in Seq(Int) /\ Len(r) = count /\ \A i \in 1..count : r[i] = from + i - 1
  BY <1>1
<1>4. t \in Seq(Int) /\ Len(t) = from + count - 1 /\ \A i \in 1..from + count - 1 : t[i] = i
  BY <1>1
<1> HIDE DEF s, r, t
<1>5. /\ s \o r \in Seq(Int) /\ Len(s \o r) = from - 1 + count
      /\ \A i \in 1..from - 1 + count :
             (s \o r)[i] = IF i <= from - 1 THEN s[i] ELSE r[i - (from - 1)]
  <2>1. /\ s \o r \in Seq(Int) /\ Len(s \o r) = Len(s) + Len(r)
        /\ \A i \in 1..Len(s) + Len(r) :
               (s \o r)[i] = IF i <= Len(s) THEN s[i] ELSE r[i - Len(s)]
    BY <1>2, <1>3, ConcatProperties
  <2> QED
    BY <1>2, <1>3, <2>1, Zenon
<1>6. \A i \in 1..from + count - 1 : (s \o r)[i] = t[i]
  <2> TAKE i \in 1..from + count - 1
  <2>1. CASE i <= from - 1
    BY <1>1, <1>2, <1>4, <1>5, <2>1
  <2>2. CASE ~ (i <= from - 1)
    <3>1. i - (from - 1) \in 1..count /\ from + (i - (from - 1)) - 1 = i
      BY <1>1, <2>2
    <3> QED
      BY <1>1, <1>3, <1>4, <1>5, <2>2, <3>1
  <2> QED
    BY <2>1, <2>2
<1>7. s \o r = t
  <2>1. Len(s \o r) = Len(t)
    BY <1>4, <1>5
  <2> QED
    BY <1>4, <1>5, <1>6, <2>1, SeqEqual
<1> QED
  BY <1>7 DEF s, r, t

LEMMA BodyInit_Inv == BodyInit => BodyInv
<1> SUFFICES ASSUME BodyInit PROVE BodyInv
  OBVIOUS
<1>1. NoAnswer \in Answers /\ NoAnswer.count = 0
  BY DEF NoAnswer, Answers
<1> QED
  BY <1>1, BodyConstants DEF BodyInit, BodyInv, BodyShape, WindowsReadBody

LEMMA WholeKeeps == ASSUME BodyInv, AskWhole PROVE BodyInv'
<1> DEFINE fits == Alone(lines, FALSE)
           count == IF fits THEN Len(lines) ELSE 0
           cut == ~fits
           least == Frame + RootCost(<<>>, TRUE)
           told == Answer(1, count, cut, least)
<1>1. /\ lines \in Seq(Nat) /\ Len(lines) \in Nat \ {0} /\ 1 \in 1..Len(lines)
      /\ offset = 1 /\ ask = "whole"
  BY BodyConstants DEF BodyInv, BodyShape, AskWhole
<1>2. least \in Nat
  <2>1. Total(<<>>) \in Nat
    BY BodyConstants, TotalOfCosts
  <2> QED
    BY <2>1, BodyConstants DEF RootCost
<1>3. count \in 0..Len(lines) /\ 1 + count - 1 <= Len(lines) /\ cut \in BOOLEAN
  <2>1. cut \in BOOLEAN
    BY Zenon
  <2>2. count = Len(lines) \/ count = 0
    BY Zenon
  <2> HIDE DEF count
  <2> QED
    BY <1>1, <2>1, <2>2
<1>4. /\ told \in Answers /\ told.count = count
      /\ near = <<>> /\ Alone(Window(1, count), cut) => told.root
  <2>1. BodyShape
    BY DEF BodyInv
  <2>2. 1 \in 1..Len(lines) /\ least \in Nat /\ count \in 0..Len(lines)
        /\ 1 + count - 1 <= Len(lines) /\ cut \in BOOLEAN
    BY <1>1, <1>2, <1>3
  <2> HIDE DEF count, cut, least, fits
  <2> QED
    BY <2>1, <2>2, ToldOf
<1>5. fits => Alone(Window(1, count), cut)
  <2>1. SubSeq(lines, 1, Len(lines)) = lines
    BY <1>1, SubSeqFull
  <2>2. fits => Window(1, count) = lines
    BY <1>1, <2>1 DEF Window
  <2> QED
    BY <2>2
<1>6. /\ answer' = told
      /\ readLines' = IF told.root THEN [i \in 1..told.count |-> i] ELSE <<>>
      /\ ask' = IF fits THEN "done" ELSE "window"
      /\ UNCHANGED <<lines, near, budget, offset>>
  BY DEF AskWhole
<1> HIDE DEF told, least
<1>7. BodyShape'
  BY <1>3, <1>4, <1>6 DEF BodyInv, BodyShape
<1>8. CASE fits
  BY <1>4, <1>5, <1>6, <1>7, <1>8 DEF BodyInv, WindowsReadBody
<1>9. CASE ~fits
  <2>1. readLines' = <<>>
    BY <1>4, <1>6, <1>9
  <2>2. [i \in 1..1 - 1 |-> i] = <<>>
    OBVIOUS
  <2> QED
    BY <1>1, <1>6, <1>7, <1>9, <2>1, <2>2 DEF BodyInv, WindowsReadBody
<1> QED
  BY <1>8, <1>9

LEMMA WindowKeeps == ASSUME BodyInv, AskWindow PROVE BodyInv'
<1> DEFINE count == ChosenCount(FALSE)
           cut == ~Alone(Window(offset, Remaining), FALSE)
           least == Frame + RootCost(Window(offset, count), cut)
           told == Answer(offset, count, cut, least)
<1>1. /\ lines \in Seq(Nat) /\ Len(lines) \in Nat \ {0} /\ offset \in 1..Len(lines)
      /\ Remaining \in Nat \ {0} /\ Remaining = Len(lines) - offset + 1
      /\ readLines = [i \in 1..offset - 1 |-> i]
      /\ ask = "window" /\ near \in Seq(Nat) /\ budget \in Nat
  <2>1. lines \in Seq(Nat) /\ Len(lines) \in Nat \ {0} /\ offset \in 1..Len(lines)
    BY BodyConstants DEF BodyInv, BodyShape
  <2> QED
    BY <2>1 DEF BodyInv, BodyShape, AskWindow, Remaining, WindowsReadBody
<1>2. count \in 1..Remaining
  BY <1>1, ChosenRemain
<1> HIDE DEF count
<1>3. /\ count \in Nat \ {0} /\ count \in 0..Len(lines) /\ offset + count - 1 <= Len(lines)
      /\ cut \in BOOLEAN /\ offset \in Nat \ {0}
  BY <1>1, <1>2
<1> HIDE DEF cut
<1>4. Window(offset, count) \in Seq(Nat)
  BY <1>1, <1>3, ToldOf DEF BodyInv
<1>5. least \in Nat
  <2>1. Total(Window(offset, count)) \in Nat
    BY <1>4, TotalOfCosts
  <2> QED
    BY <1>3, <2>1, BodyConstants DEF RootCost
<1>6. /\ told \in Answers /\ told.count = count
      /\ told.min = IF Alone(Window(offset, count), cut) THEN 0 ELSE least
      /\ near = <<>> /\ Alone(Window(offset, count), cut) => told.root
  <2> HIDE DEF least
  <2> QED
    BY <1>1, <1>3, <1>5, ToldOf DEF BodyInv
<1>7. near = <<>> /\ ~told.root => told.min > budget
  BY <1>1, <1>5, <1>6 DEF Alone
<1>8. /\ answer' = told /\ UNCHANGED <<lines, near, budget>>
      /\ ~told.root => ask' = "raise" /\ UNCHANGED <<offset, readLines>>
      /\ told.root =>
            /\ readLines' = readLines \o [i \in 1..count |-> offset + i - 1]
            /\ IF count = Remaining THEN ask' = "done" /\ UNCHANGED offset
               ELSE offset' = offset + count /\ UNCHANGED ask
  BY DEF AskWindow, NextOffset, count, cut
<1> HIDE DEF told, least
<1>9. CASE ~told.root
  <2>1. BodyShape'
    BY <1>3, <1>6, <1>8, <1>9 DEF BodyInv, BodyShape
  <2> QED
    BY <1>1, <1>7, <1>8, <1>9, <2>1 DEF BodyInv, WindowsReadBody
<1>10. CASE told.root
  <2>1. readLines' = [i \in 1..offset + count - 1 |-> i]
    BY <1>1, <1>3, <1>8, <1>10, WindowsJoin
  <2>2. CASE count = Remaining
    <3>1. offset + count - 1 = Len(lines)
      BY <1>1, <2>2
    <3>2. BodyShape' /\ ask' = "done"
      BY <1>3, <1>6, <1>8, <1>10, <2>2 DEF BodyInv, BodyShape
    <3>3. readLines' = [i \in 1..Len(lines') |-> i]
      BY <1>8, <2>1, <3>1
    <3> QED
      BY <1>8, <1>10, <3>2, <3>3 DEF BodyInv, WindowsReadBody
  <2>3. CASE count # Remaining
    <3>1. offset' \in 1..Len(lines) /\ offset' - 1 = offset + count - 1
      <4>1. offset' = offset + count
        BY <1>8, <1>10, <2>3
      <4>2. count \in Nat \ {0} /\ count < Len(lines) - offset + 1
        <5>1. PICK r \in Nat \ {0} : r = Remaining
          BY <1>1
        <5>2. count \in 1..r /\ count # r /\ r = Len(lines) - offset + 1
          BY <1>1, <1>2, <2>3, <5>1, Zenon
        <5> QED
          BY <5>1, <5>2
      <4>3. offset + count \in 1..Len(lines) /\ (offset + count) - 1 = offset + count - 1
        BY <1>1, <4>2
      <4> QED
        BY <4>1, <4>3, Zenon
    <3>2. BodyShape' /\ ask' = "window"
      BY <1>1, <1>3, <1>6, <1>8, <1>10, <2>3, <3>1 DEF BodyInv, BodyShape
    <3>3. readLines' = [i \in 1..offset' - 1 |-> i]
      BY <2>1, <3>1
    <3> QED
      BY <1>8, <1>10, <3>2, <3>3 DEF BodyInv, WindowsReadBody
  <2> QED
    BY <2>2, <2>3
<1> QED
  BY <1>9, <1>10

LEMMA BodyStep == BodyInv /\ [BodyNext]_bodyVars => BodyInv'
<1> SUFFICES ASSUME BodyInv, [BodyNext]_bodyVars PROVE BodyInv'
  OBVIOUS
<1>1. CASE RaiseBudget
  <2>1. answer.min \in Nat
    BY DEF BodyInv, BodyShape, Answers
  <2> QED
    BY <1>1, <2>1 DEF RaiseBudget, BodyInv, BodyShape, WindowsReadBody
<1>2. CASE DropNeighbours
  BY <1>2, BodyConstants DEF DropNeighbours, BodyInv, BodyShape, WindowsReadBody
<1>3. CASE ReadAgain
  <2>1. NoAnswer \in Answers /\ NoAnswer.count = 0
    BY DEF NoAnswer, Answers
  <2> QED
    BY <1>3, <2>1, BodyConstants DEF ReadAgain, BodyInv, BodyShape, WindowsReadBody
<1>4. CASE UNCHANGED bodyVars
  BY <1>4 DEF bodyVars, BodyInv, BodyShape, WindowsReadBody
<1> QED
  BY <1>1, <1>2, <1>3, <1>4, WholeKeeps, WindowKeeps DEF BodyNext

LEMMA BodyAlways == BodySpec => []BodyInv
  BY BodyInit_Inv, BodyStep, PTL DEF BodySpec

\* The variables of a reading have their types.
THEOREM BodyTyped == BodySpec => []BodyTypeOK
<1>1. BodyInv => BodyTypeOK
  BY DEF BodyInv, BodyShape, BodyTypeOK
<1> QED
  BY <1>1, BodyAlways, PTL

\* A client that follows the windows of get_symbol_context, and the budgets it
\* is told of, reads every line of a body once and in order, whatever its
\* lines cost and wherever the bisection cuts.
THEOREM WindowsReadAll == BodySpec => []WindowsReadBody
<1>1. BodyInv => WindowsReadBody
  BY DEF BodyInv
<1> QED
  BY <1>1, BodyAlways, PTL

----------------------------------------------------------------------------
(* Traversal: the search.  The argument: the queue is in the order of the   *)
(* depths, which are distances from the root; so when the head is at some   *)
(* distance everything nearer has been visited, and what has been visited   *)
(* is in the queue or has met its neighbours.                               *)

Edges == [from : Nodes, to : Nodes \cup {NoTarget}, conf : Nat]

Near(x) == {Other(e, x) : e \in ToSet(Incident(x))} \ {NoTarget}

Grow(S) ==
    S \cup {e.to : e \in {x \in ToSet(req.graph) :
                     "callees" \in req.dirs /\ x.from \in S /\ x.to # NoTarget}}
      \cup {e.from : e \in {x \in ToSet(req.graph) :
                     "callers" \in req.dirs /\ x.to \in S}}

LEMMA RequestShape ==
    ASSUME req \in Requests
    PROVE  /\ Nodes \subseteq Nat /\ IsFiniteSet(Nodes) /\ NoTarget \notin Nodes
           /\ req.graph \in Seq(Edges) /\ ToSet(req.graph) \subseteq Edges
           /\ req.root \in Nodes /\ req.depth \in Nat /\ req.max \in Nat \ {0}
           /\ req.anchors \in Seq(Nodes) /\ req.hops \in Nat /\ req.factor \in [Nodes -> Nat]
<1>1. req.graph \in Seq(Edges)
  BY WalkAssumption DEF WalkAssumption, Edges
<1>2. ToSet(req.graph) \subseteq Edges
  <2>1. \A i \in DOMAIN req.graph : req.graph[i] \in Edges
    BY <1>1, ElementOfSeq, LenProperties
  <2> QED
    BY <2>1 DEF ToSet
<1> QED
  BY <1>1, <1>2, WalkAssumption DEF WalkAssumption

\* The members of what is picked are the members at the positions.
LEMMA PickedSet ==
    ASSUME NEW S, NEW s \in Seq(S), NEW I \in SUBSET (1..Len(s))
    PROVE  ToSet(Picked(s, I)) = {s[i] : i \in I}
<1> DEFINE p == Picked(s, I)
<1>1. p \in Seq(S) /\ DOMAIN p = 1..Len(p)
  BY PickedItems, LenProperties
<1>2. ToSet(p) = {p[i] : i \in 1..Len(p)}
  BY <1>1 DEF ToSet
<1>3. \A x : (\E i \in 1..Len(p) : p[i] = x) <=> (\E j \in I : s[j] = x)
  BY PickedContents
<1> HIDE DEF p
<1>4. \A x : x \in {p[i] : i \in 1..Len(p)} <=> x \in {s[i] : i \in I}
  BY <1>3
<1> QED
  BY <1>2, <1>4 DEF p

LEMMA ConcatSet ==
    ASSUME NEW S, NEW s \in Seq(S), NEW t \in Seq(S)
    PROVE  s \o t \in Seq(S) /\ ToSet(s \o t) = ToSet(s) \cup ToSet(t)
<1>1. /\ s \o t \in Seq(S) /\ Len(s \o t) = Len(s) + Len(t)
      /\ \A i \in 1..Len(s) + Len(t) :
             (s \o t)[i] = IF i <= Len(s) THEN s[i] ELSE t[i - Len(s)]
  BY ConcatProperties
<1>2. /\ Len(s) \in Nat /\ Len(t) \in Nat /\ DOMAIN s = 1..Len(s) /\ DOMAIN t = 1..Len(t)
      /\ DOMAIN (s \o t) = 1..Len(s) + Len(t)
  BY <1>1, LenProperties
<1> DEFINE r == s \o t
<1> HIDE DEF r
<1>3. /\ \A i \in 1..Len(s) : i \in 1..Len(s) + Len(t) /\ r[i] = s[i]
      /\ \A i \in 1..Len(t) : Len(s) + i \in 1..Len(s) + Len(t) /\ r[Len(s) + i] = t[i]
  <2>1. ASSUME NEW i \in 1..Len(s) PROVE i \in 1..Len(s) + Len(t) /\ r[i] = s[i]
    BY <1>1, <1>2, <2>1 DEF r
  <2>2. ASSUME NEW i \in 1..Len(t)
        PROVE  Len(s) + i \in 1..Len(s) + Len(t) /\ r[Len(s) + i] = t[i]
    <3>1. Len(s) + i \in 1..Len(s) + Len(t) /\ ~ (Len(s) + i <= Len(s))
          /\ (Len(s) + i) - Len(s) = i
      BY <1>2
    <3> QED
      BY <1>1, <3>1 DEF r
  <2> QED
    BY <2>1, <2>2
<1>4. \A i \in 1..Len(s) + Len(t) :
          (\E j \in 1..Len(s) : r[i] = s[j]) \/ (\E j \in 1..Len(t) : r[i] = t[j])
  <2> TAKE i \in 1..Len(s) + Len(t)
  <2>1. CASE i <= Len(s)
    BY <1>1, <1>2, <2>1 DEF r
  <2>2. CASE ~ (i <= Len(s))
    <3>1. i - Len(s) \in 1..Len(t)
      BY <1>2, <2>2
    <3> QED
      BY <1>1, <2>2, <3>1 DEF r
  <2> QED
    BY <2>1, <2>2
<1>5. ToSet(r) = ToSet(s) \cup ToSet(t)
  <2>1. ToSet(r) = {r[i] : i \in 1..Len(s) + Len(t)}
    BY <1>2 DEF ToSet, r
  <2>2. ToSet(s) = {s[i] : i \in 1..Len(s)} /\ ToSet(t) = {t[i] : i \in 1..Len(t)}
    BY <1>2 DEF ToSet
  <2> QED
    BY <1>3, <1>4, <2>1, <2>2
<1> QED
  BY <1>1, <1>5 DEF r

LEMMA IncidentEdges ==
    ASSUME req \in Requests, NEW x \in Nodes
    PROVE  /\ Incident(x) \in Seq(Edges)
           /\ ToSet(Incident(x)) =
                  {e \in ToSet(req.graph) : \/ "callees" \in req.dirs /\ e.from = x
                                            \/ "callers" \in req.dirs /\ e.to = x}
<1> DEFINE g == req.graph
           out == {i \in DOMAIN g : g[i].from = x}
           inc == {i \in DOMAIN g : g[i].to = x}
           a == IF "callees" \in req.dirs THEN Picked(g, out) ELSE <<>>
           b == IF "callers" \in req.dirs THEN Picked(g, inc) ELSE <<>>
<1>1. g \in Seq(Edges) /\ DOMAIN g = 1..Len(g) /\ ToSet(g) = {g[i] : i \in 1..Len(g)}
  BY RequestShape, LenProperties DEF ToSet
<1>2. out \in SUBSET (1..Len(g)) /\ inc \in SUBSET (1..Len(g))
  BY <1>1
<1>3. Incident(x) = a \o b
  BY DEF Incident
<1>4. <<>> \in Seq(Edges) /\ ToSet(<<>>) = {}
  BY DEF ToSet
<1>5. a \in Seq(Edges) /\ ToSet(a) = {e \in ToSet(g) : "callees" \in req.dirs /\ e.from = x}
  <2>1. Picked(g, out) \in Seq(Edges) /\ ToSet(Picked(g, out)) = {g[i] : i \in out}
    <3> HIDE DEF g, out
    <3>1. Picked(g, out) \in Seq(Edges)
      BY <1>1, <1>2, PickedItems
    <3>2. ToSet(Picked(g, out)) = {g[i] : i \in out}
      BY <1>1, <1>2, PickedSet
    <3> QED
      BY <3>1, <3>2
  <2>2. {g[i] : i \in out} = {e \in ToSet(g) : e.from = x}
    BY <1>1
  <2> QED
    BY <1>4, <2>1, <2>2
<1>6. b \in Seq(Edges) /\ ToSet(b) = {e \in ToSet(g) : "callers" \in req.dirs /\ e.to = x}
  <2>1. Picked(g, inc) \in Seq(Edges) /\ ToSet(Picked(g, inc)) = {g[i] : i \in inc}
    <3> HIDE DEF g, inc
    <3>1. Picked(g, inc) \in Seq(Edges)
      BY <1>1, <1>2, PickedItems
    <3>2. ToSet(Picked(g, inc)) = {g[i] : i \in inc}
      BY <1>1, <1>2, PickedSet
    <3> QED
      BY <3>1, <3>2
  <2>2. {g[i] : i \in inc} = {e \in ToSet(g) : e.to = x}
    BY <1>1
  <2> QED
    BY <1>4, <2>1, <2>2
<1> HIDE DEF a, b
<1>7. a \o b \in Seq(Edges) /\ ToSet(a \o b) = ToSet(a) \cup ToSet(b)
  BY <1>5, <1>6, ConcatSet
<1> QED
  BY <1>3, <1>5, <1>6, <1>7

LEMMA GrowNear ==
    ASSUME req \in Requests, NEW S \in SUBSET Nodes
    PROVE  Grow(S) \in SUBSET Nodes /\ Grow(S) = S \cup UNION {Near(x) : x \in S}
<1>1. ToSet(req.graph) \subseteq Edges /\ NoTarget \notin Nodes
  BY RequestShape
<1>2. \A e \in Edges : e.from \in Nodes /\ e.to \in Nodes \cup {NoTarget}
  BY DEF Edges
<1>3. Grow(S) \in SUBSET Nodes
  BY <1>1, <1>2 DEF Grow
<1>4. ASSUME NEW x \in S
      PROVE  Near(x) = {y \in Nodes : \E e \in ToSet(req.graph) :
                            \/ "callees" \in req.dirs /\ e.from = x /\ y = Other(e, x)
                            \/ "callers" \in req.dirs /\ e.to = x /\ y = Other(e, x)}
  BY <1>1, <1>2, <1>4, IncidentEdges DEF Near, Other
<1>5. ASSUME NEW y \in Grow(S), y \notin S PROVE \E x \in S : y \in Near(x)
  <2>1. PICK e \in ToSet(req.graph) :
            \/ "callees" \in req.dirs /\ e.from \in S /\ e.to = y /\ y # NoTarget
            \/ "callers" \in req.dirs /\ e.to \in S /\ e.from = y
    BY <1>5 DEF Grow
  <2>2. CASE "callees" \in req.dirs /\ e.from \in S /\ e.to = y /\ y # NoTarget
    <3>1. y \in Near(e.from)
      BY <1>3, <1>4, <1>5, <2>2 DEF Other
    <3> QED
      BY <2>2, <3>1
  <2>3. CASE "callers" \in req.dirs /\ e.to \in S /\ e.from = y
    <3>1. e.from # e.to
      BY <1>5, <2>3
    <3>2. y \in Near(e.to)
      BY <1>3, <1>4, <1>5, <2>3, <3>1 DEF Other
    <3> QED
      BY <2>3, <3>2
  <2> QED
    BY <2>1, <2>2, <2>3
<1>6. ASSUME NEW x \in S, NEW y \in Near(x) PROVE y \in Grow(S)
  <2>1. PICK e \in ToSet(req.graph) :
            \/ "callees" \in req.dirs /\ e.from = x /\ y = Other(e, x)
            \/ "callers" \in req.dirs /\ e.to = x /\ y = Other(e, x)
    BY <1>4, <1>6
  <2>2. y # NoTarget
    BY <1>6 DEF Near
  <2>3. CASE "callees" \in req.dirs /\ e.from = x /\ y = Other(e, x)
    <3>1. y = e.to
      BY <2>3 DEF Other
    <3> QED
      BY <2>2, <2>3, <3>1 DEF Grow
  <2>4. CASE "callers" \in req.dirs /\ e.to = x /\ y = Other(e, x)
    <3>1. y = x \/ y = e.from
      BY <2>4 DEF Other
    <3> QED
      BY <2>4, <3>1 DEF Grow
  <2> QED
    BY <2>1, <2>3, <2>4
<1>7. S \subseteq Grow(S)
  BY DEF Grow
<1> QED
  BY <1>3, <1>5, <1>6, <1>7

\* Balls are made of smaller ones.
IsBall(b, d) ==
    /\ b[0] = {req.root} /\ \A i \in 1..d : b[i] = Grow(b[i - 1])
    /\ \A i \in 0..d : b[i] \in SUBSET Nodes

LEMMA BallAlong ==
    ASSUME req \in Requests, NEW d \in Nat
    PROVE  \E b : IsBall(b, d) /\ Ball(d) = b[d]
<1> DEFINE step == [i \in 1..d |-> [S \in SUBSET Nodes |-> Grow(S)]]
           ball == CHOOSE b : b = [i \in 0..d |-> IF i = 0 THEN {req.root} ELSE Grow(b[i - 1])]
<1>1. {req.root} \in SUBSET Nodes /\ \A S \in SUBSET Nodes : Grow(S) \in SUBSET Nodes
  BY RequestShape, GrowNear
<1>2. step \in [1..d -> [SUBSET Nodes -> SUBSET Nodes]]
  BY <1>1
<1>3. \A i \in 1..d, S \in SUBSET Nodes : step[i][S] = Grow(S)
  OBVIOUS
<1>4. Ball(d) = ball[d]
  BY Zenon DEF Ball, Grow
<1> HIDE DEF step
<1>5. PICK b \in [0..d -> SUBSET Nodes] : Recurses(b, d, {req.root}, step)
  BY <1>1, <1>2, RecursionAlong
<1>6. b[0] = {req.root} /\ \A i \in 1..d : b[i] = Grow(b[i - 1])
  <2>1. b[0] = {req.root} /\ \A i \in 1..d : b[i] = step[i][b[i - 1]]
    BY <1>5 DEF Recurses
  <2>2. \A i \in 1..d : b[i - 1] \in SUBSET Nodes
    <3> TAKE i \in 1..d
    <3>1. i - 1 \in 0..d
      OBVIOUS
    <3> QED
      BY <3>1
  <2> QED
    BY <1>3, <2>1, <2>2
<1>7. b = [i \in 0..d |-> IF i = 0 THEN {req.root} ELSE Grow(b[i - 1])]
  <2>1. b = [i \in 0..d |-> b[i]]
    OBVIOUS
  <2>2. \A i \in 0..d : b[i] = IF i = 0 THEN {req.root} ELSE Grow(b[i - 1])
    <3> TAKE i \in 0..d
    <3>1. CASE i = 0
      BY <1>6, <3>1
    <3>2. CASE i # 0
      <4>1. i \in 1..d
        BY <3>2
      <4> QED
        BY <1>6, <3>2, <4>1
    <3> QED
      BY <3>1, <3>2
  <2> QED
    BY <2>1, <2>2
<1>8. ball = [i \in 0..d |-> IF i = 0 THEN {req.root} ELSE Grow(ball[i - 1])]
  BY <1>7, Zenon
<1> HIDE DEF ball
<1>9. ball[0] = {req.root}
  <2>1. 0 \in 0..d
    OBVIOUS
  <2> QED
    BY <1>8, <2>1
<1>10. \A i \in 1..d : ball[i] = Grow(ball[i - 1])
  <2> TAKE i \in 1..d
  <2>1. i \in 0..d /\ i # 0
    OBVIOUS
  <2> QED
    BY <1>8, <2>1
<1>11. \A i \in 0..d : ball[i] \in SUBSET Nodes
  <2> DEFINE R == {i \in 0..d : ball[i] \in SUBSET Nodes}
  <2>1. 0 \in R
    BY <1>1, <1>9
  <2>2. \A i \in 1..d : i - 1 \in R => i \in R
    BY <1>1, <1>10
  <2> HIDE DEF R
  <2>3. \A i \in 0..d : i \in R
    BY <2>1, <2>2, ReachesAll
  <2> QED
    BY <2>3 DEF R
<1> QED
  BY <1>4, <1>9, <1>10, <1>11 DEF IsBall

LEMMA BallGrows ==
    ASSUME req \in Requests
    PROVE  /\ Ball(0) = {req.root}
           /\ \A d \in Nat : Ball(d) \in SUBSET Nodes /\ Ball(d + 1) = Grow(Ball(d))
<1>1. Ball(0) = {req.root}
  BY BallAlong DEF IsBall
<1>2. ASSUME NEW d \in Nat
      PROVE  Ball(d) \in SUBSET Nodes /\ Ball(d + 1) = Grow(Ball(d))
  <2>1. PICK b : IsBall(b, d) /\ Ball(d) = b[d]
    BY BallAlong
  <2>2. d + 1 \in Nat
    OBVIOUS
  <2>3. PICK c : IsBall(c, d + 1) /\ Ball(d + 1) = c[d + 1]
    BY <2>2, BallAlong
  <2>4. \A i \in 0..d : b[i] = c[i]
    <3> DEFINE R == {i \in 0..d : b[i] = c[i]}
    <3>1. 0 \in R
      <4>1. b[0] = {req.root} /\ c[0] = {req.root} /\ 0 \in 0..d
        BY <2>1, <2>3 DEF IsBall
      <4> QED
        BY <4>1
    <3>2. ASSUME NEW i \in 1..d, i - 1 \in R PROVE i \in R
      <4>1. i \in 1..d + 1 /\ i \in 0..d
        OBVIOUS
      <4>2. b[i] = Grow(b[i - 1]) /\ c[i] = Grow(c[i - 1]) /\ b[i - 1] = c[i - 1]
        BY <2>1, <2>3, <3>2, <4>1 DEF IsBall
      <4> QED
        BY <4>1, <4>2
    <3> HIDE DEF R
    <3>3. \A i \in 0..d : i \in R
      BY <3>1, <3>2, ReachesAll
    <3> QED
      BY <3>3 DEF R
  <2>5. d \in 0..d /\ d + 1 \in 1..d + 1 /\ (d + 1) - 1 = d
    OBVIOUS
  <2>6. c[d + 1] = Grow(c[d])
    BY <2>3, <2>5 DEF IsBall
  <2>7. b[d] = c[d] /\ b[d] \in SUBSET Nodes
    BY <2>1, <2>4, <2>5 DEF IsBall
  <2> QED
    BY <2>1, <2>3, <2>6, <2>7
<1> QED
  BY <1>1, <1>2

LEMMA BallsNest ==
    ASSUME req \in Requests, NEW j \in Nat, NEW k \in Nat, j <= k
    PROVE  Ball(j) \subseteq Ball(k)
<1> DEFINE R == {i \in 0..k - j : Ball(j) \subseteq Ball(j + i)}
<1>1. 0 \in R
  BY j + 0 = j
<1>2. ASSUME NEW i \in 1..k - j, i - 1 \in R PROVE i \in R
  <2>1. j + (i - 1) \in Nat /\ (j + (i - 1)) + 1 = j + i
    OBVIOUS
  <2>2. Ball(j + i) = Grow(Ball(j + (i - 1)))
    BY <2>1, BallGrows
  <2>3. Ball(j + (i - 1)) \subseteq Grow(Ball(j + (i - 1)))
    BY DEF Grow
  <2> QED
    BY <1>2, <2>2, <2>3
<1> HIDE DEF R
<1>3. k - j \in Nat /\ k - j \in 0..k - j /\ j + (k - j) = k
  OBVIOUS
<1>4. \A i \in 0..k - j : i \in R
  BY <1>1, <1>2, <1>3, ReachesAll
<1>5. k - j \in R
  BY <1>3, <1>4
<1> QED
  BY <1>3, <1>5 DEF R

\* What a search has when it meets the ends of a node's edges.
Queued == [node : Nodes, depth : Nat]
MeetStates == [visited : SUBSET Nodes, queue : Seq(Queued), limited : BOOLEAN]

\* A node is known, or not and there is no room for it, or it is queued.
MeetCases(s, m, next, depth) ==
    \/ m = s /\ next \in s.visited \cup {NoTarget}
    \/ /\ next \notin s.visited \cup {NoTarget} /\ Cardinality(s.visited) >= req.max
       /\ m.visited = s.visited /\ m.queue = s.queue /\ m.limited = TRUE
    \/ /\ next \notin s.visited \cup {NoTarget} /\ ~ (Cardinality(s.visited) >= req.max)
       /\ m.visited = s.visited \cup {next}
       /\ m.queue = Append(s.queue, [node |-> next, depth |-> depth + 1])
       /\ m.limited = s.limited

LEMMA MeetTyped ==
    ASSUME NEW s \in MeetStates, NEW next \in Nodes \cup {NoTarget}, NEW depth \in Nat
    PROVE  /\ Meet(s, next, depth) \in MeetStates
           /\ MeetCases(s, Meet(s, next, depth), next, depth)
<1> DEFINE q == Append(s.queue, [node |-> next, depth |-> depth + 1])
<1>1. s.queue \in Seq(Queued) /\ s.visited \in SUBSET Nodes /\ s.limited \in BOOLEAN
      /\ s = [visited |-> s.visited, queue |-> s.queue, limited |-> s.limited]
  BY DEF MeetStates
<1>2. CASE next \in s.visited \cup {NoTarget}
  BY <1>2 DEF Meet, MeetCases
<1>3. CASE next \notin s.visited \cup {NoTarget} /\ Cardinality(s.visited) >= req.max
  <2>1. Meet(s, next, depth) = [s EXCEPT !.limited = TRUE]
    BY <1>3 DEF Meet
  <2> QED
    BY <1>1, <1>3, <2>1 DEF MeetStates, MeetCases
<1>4. CASE next \notin s.visited \cup {NoTarget} /\ ~ (Cardinality(s.visited) >= req.max)
  <2>1. q \in Seq(Queued)
    <3>1. [node |-> next, depth |-> depth + 1] \in Queued
      BY <1>4 DEF Queued
    <3> QED
      BY <1>1, <3>1, AppendProperties
  <2>2. Meet(s, next, depth) = [visited |-> s.visited \cup {next}, queue |-> q,
                                limited |-> s.limited]
    BY <1>1, <1>4 DEF Meet, MeetStates
  <2> HIDE DEF q
  <2>3. Meet(s, next, depth) \in MeetStates
    BY <1>1, <1>4, <2>1, <2>2 DEF MeetStates
  <2>4. /\ Meet(s, next, depth).visited = s.visited \cup {next}
        /\ Meet(s, next, depth).queue = q /\ Meet(s, next, depth).limited = s.limited
    BY <2>2
  <2> QED
    BY <1>4, <2>3, <2>4 DEF q, MeetCases
<1> QED
  BY <1>2, <1>3, <1>4

LEMMA MeetAllAlong ==
    ASSUME NEW s \in MeetStates, NEW found \in Seq(Edges), NEW node \in Nodes,
           NEW depth \in Nat
    PROVE  \E h : /\ h[0] = s /\ MeetAll(s, found, node, depth) = h[Len(found)]
                  /\ \A k \in 0..Len(found) : h[k] \in MeetStates
                  /\ \A k \in 1..Len(found) :
                        h[k] = Meet(h[k - 1], Other(found[k], node), depth)
<1> DEFINE n == Len(found)
           P == SUBSET (1..n)
           Op(k, r) == Meet(r, Other(found[k], node), depth)
           step == [k \in 1..n |-> [r \in MeetStates |-> Op(k, r)]]
           Next(g, I) == IF I = {} THEN s ELSE Op(Max(I), g[I \ {Max(I)}])
           fold == CHOOSE g : g = [I \in SUBSET DOMAIN found |-> Next(g, I)]
<1>1. /\ n \in Nat /\ DOMAIN found = 1..n /\ s \in MeetStates
      /\ \A k \in 1..n, r \in MeetStates : Op(k, r) \in MeetStates
  <2>1. n \in Nat /\ DOMAIN found = 1..n /\ \A k \in 1..n : found[k] \in Edges
    BY LenProperties, ElementOfSeq
  <2>2. \A k \in 1..n : Other(found[k], node) \in Nodes \cup {NoTarget}
    BY <2>1 DEF Other, Edges
  <2> QED
    BY <2>1, <2>2, MeetTyped
<1>2. MeetAll(s, found, node, depth) = fold[DOMAIN found]
  BY Zenon DEF MeetAll, FoldLeft, MapThenFoldSet
<1> HIDE DEF fold
<1>3. step \in [1..n -> [MeetStates -> MeetStates]] /\ \A k \in 1..n, r \in MeetStates : step[k][r] = Op(k, r)
  BY <1>1
<1> HIDE DEF n, Op, step
<1>4. PICK g \in [P -> MeetStates] : FoldsBy(g, n, s, step)
  BY <1>1, <1>3, FoldsAlong
<1>5. \A I \in P : I # {} => Max(I) \in 1..n /\ I \ {Max(I)} \in P
  BY <1>1, GreatestOf
<1>6. \A I \in P : g[I] = Next(g, I)
  BY <1>3, <1>4, <1>5 DEF FoldsBy
<1>7. SUBSET DOMAIN found = P
  BY <1>1 DEF n
<1> HIDE DEF Next, P
<1>8. g = [I \in SUBSET DOMAIN found |-> Next(g, I)]
  <2>1. g = [I \in P |-> g[I]]
    BY <1>4
  <2> QED
    BY <1>6, <1>7, <2>1
<1>9. fold = [I \in SUBSET DOMAIN found |-> Next(fold, I)]
  BY <1>8, Zenon DEF fold
<1>10. \A I \in P : fold[I] = Next(fold, I)
  BY <1>7, <1>9
<1>11. fold[{}] = s
  BY <1>10 DEF Next, P
<1>12. \A I \in SUBSET (1..n) : I # {} /\ fold[I \ {Max(I)}] \in MeetStates =>
          fold[I] = step[Max(I)][fold[I \ {Max(I)}]]
  BY <1>3, <1>5, <1>10 DEF Next, P
<1>13. PICK h : ReadsFold(h, fold, n, MeetStates, s, step)
  <2>1. n \in Nat /\ s \in MeetStates /\ step \in [1..n -> [MeetStates -> MeetStates]]
    BY <1>1, <1>3
  <2>2. FoldsIn(fold, n, MeetStates, s, step)
    BY <1>11, <1>12 DEF FoldsIn
  <2> QED
    BY <2>1, <2>2, FoldReads
<1>14. \A k \in 1..n : h[k] = Op(k, h[k - 1])
  <2> TAKE k \in 1..n
  <2>1. k - 1 \in 0..n
    BY <1>1
  <2> QED
    BY <1>3, <1>13, <2>1 DEF ReadsFold
<1>15. MeetAll(s, found, node, depth) = h[n]
  BY <1>1, <1>2, <1>13 DEF n, ReadsFold
<1> QED
  BY <1>13, <1>14, <1>15 DEF n, Op, ReadsFold

\* What meeting some ends makes of a state of the search.
MetBy(s, r, ends, depth) ==
    /\ s \in MeetStates /\ r \in MeetStates
    /\ s.visited \subseteq r.visited /\ r.visited \subseteq s.visited \cup ends
    /\ Cardinality(r.visited) <= req.max
    /\ Len(s.queue) <= Len(r.queue)
    /\ \A i \in 1..Len(s.queue) : r.queue[i] = s.queue[i]
    /\ \A i \in Len(s.queue) + 1..Len(r.queue) :
          r.queue[i].depth = depth + 1 /\ r.queue[i].node \in r.visited \ s.visited
    /\ \A y \in r.visited \ s.visited : \E i \in 1..Len(r.queue) : r.queue[i].node = y
    /\ s.limited => r.limited
    /\ ~r.limited => ends \subseteq r.visited \cup {NoTarget}
    /\ r.limited /\ ~s.limited => /\ Cardinality(r.visited) = req.max
                                  /\ ~ (ends \subseteq r.visited \cup {NoTarget})
    /\ Cardinality(s.visited) = req.max => r.visited = s.visited

LEMMA MetNone ==
    ASSUME NEW s \in MeetStates, NEW depth, Cardinality(s.visited) <= req.max
    PROVE  MetBy(s, s, {}, depth)
<1>1. s.queue \in Seq(Queued) /\ Len(s.queue) \in Nat
  BY LenProperties DEF MeetStates
<1>2. \A i \in Len(s.queue) + 1..Len(s.queue) : FALSE
  BY <1>1
<1> QED
  BY <1>1, <1>2 DEF MetBy

LEMMA MetNext ==
    ASSUME req \in Requests, NEW s, NEW r, NEW ends, NEW depth \in Nat,
           MetBy(s, r, ends, depth), NEW next \in Nodes \cup {NoTarget}
    PROVE  MetBy(s, Meet(r, next, depth), ends \cup {next}, depth)
<1> DEFINE m == Meet(r, next, depth)
           e == [node |-> next, depth |-> depth + 1]
<1>1. /\ s \in MeetStates /\ r \in MeetStates /\ m \in MeetStates
      /\ \/ m = r /\ next \in r.visited \cup {NoTarget}
         \/ /\ next \notin r.visited \cup {NoTarget} /\ Cardinality(r.visited) >= req.max
            /\ m.visited = r.visited /\ m.queue = r.queue /\ m.limited = TRUE
         \/ /\ next \notin r.visited \cup {NoTarget} /\ ~ (Cardinality(r.visited) >= req.max)
            /\ m.visited = r.visited \cup {next} /\ m.queue = Append(r.queue, e)
            /\ m.limited = r.limited
  <2>1. s \in MeetStates /\ r \in MeetStates
    BY DEF MetBy
  <2>2. m \in MeetStates
    BY <2>1, MeetTyped
  <2>3. \/ m = r /\ next \in r.visited \cup {NoTarget}
        \/ /\ next \notin r.visited \cup {NoTarget} /\ Cardinality(r.visited) >= req.max
           /\ m.visited = r.visited /\ m.queue = r.queue /\ m.limited = TRUE
        \/ /\ next \notin r.visited \cup {NoTarget} /\ ~ (Cardinality(r.visited) >= req.max)
           /\ m.visited = r.visited \cup {next} /\ m.queue = Append(r.queue, e)
           /\ m.limited = r.limited
    <3>1. MeetCases(r, m, next, depth)
      BY <2>1, MeetTyped
    <3> HIDE DEF m
    <3> QED
      BY <3>1 DEF MeetCases
  <2> QED
    BY <2>1, <2>2, <2>3
<1>2. /\ s.queue \in Seq(Queued) /\ Len(s.queue) \in Nat
      /\ r.queue \in Seq(Queued) /\ Len(r.queue) \in Nat
      /\ IsFiniteSet(s.visited) /\ IsFiniteSet(r.visited)
      /\ Cardinality(r.visited) \in Nat /\ Cardinality(s.visited) \in Nat
      /\ req.max \in Nat
      /\ s.visited \subseteq Nodes /\ r.visited \subseteq Nodes
      /\ s.limited \in BOOLEAN /\ r.limited \in BOOLEAN
  <2>1. s.queue \in Seq(Queued) /\ r.queue \in Seq(Queued)
        /\ s.visited \in SUBSET Nodes /\ r.visited \in SUBSET Nodes
        /\ s.limited \in BOOLEAN /\ r.limited \in BOOLEAN
    BY <1>1 DEF MeetStates
  <2>2. IsFiniteSet(Nodes) /\ req.max \in Nat
    BY RequestShape
  <2>3. IsFiniteSet(s.visited) /\ IsFiniteSet(r.visited)
    BY <2>1, <2>2, FS_Subset
  <2>4. Cardinality(r.visited) \in Nat /\ Cardinality(s.visited) \in Nat
    BY <2>3, FS_CardinalityType
  <2>5. Len(s.queue) \in Nat /\ Len(r.queue) \in Nat
    BY <2>1, LenProperties
  <2> QED
    BY <2>1, <2>2, <2>3, <2>4, <2>5
<1> HIDE DEF m
<1>3. CASE m = r /\ next \in r.visited \cup {NoTarget}
  <2>1. r.visited \subseteq s.visited \cup (ends \cup {next})
    BY DEF MetBy
  <2>2. ends \subseteq r.visited \cup {NoTarget}
            <=> ends \cup {next} \subseteq r.visited \cup {NoTarget}
    BY <1>3
  <2> QED
    BY <1>3, <2>1, <2>2 DEF MetBy, m
<1>4. CASE /\ next \notin r.visited \cup {NoTarget} /\ Cardinality(r.visited) >= req.max
           /\ m.visited = r.visited /\ m.queue = r.queue /\ m.limited = TRUE
  <2>1. Cardinality(r.visited) = req.max
    BY <1>2, <1>4 DEF MetBy
  <2>2. ~ (ends \cup {next} \subseteq m.visited \cup {NoTarget})
    BY <1>4
  <2>3. r.visited \subseteq s.visited \cup (ends \cup {next})
    BY DEF MetBy
  <2> QED
    BY <1>1, <1>4, <2>1, <2>2, <2>3 DEF MetBy, m
<1>5. CASE /\ next \notin r.visited \cup {NoTarget} /\ ~ (Cardinality(r.visited) >= req.max)
           /\ m.visited = r.visited \cup {next} /\ m.queue = Append(r.queue, e)
           /\ m.limited = r.limited
  <2>1. next \in Nodes /\ e \in Queued /\ e.node = next /\ e.depth = depth + 1
    BY <1>5 DEF Queued
  <2>2. Cardinality(m.visited) = Cardinality(r.visited) + 1 /\ Cardinality(m.visited) <= req.max
    <3>1. Cardinality(r.visited \cup {next}) = Cardinality(r.visited) + 1
      BY <1>2, <1>5, FS_AddElement
    <3> QED
      BY <1>2, <1>5, <3>1
  <2>3. /\ Len(m.queue) = Len(r.queue) + 1
        /\ \A i \in 1..Len(r.queue) : m.queue[i] = r.queue[i]
        /\ m.queue[Len(r.queue) + 1] = e
    <3> HIDE DEF e
    <3> QED
      BY <1>2, <1>5, <2>1, AppendProperties
  <2> HIDE DEF e
  <2>4. Len(s.queue) <= Len(r.queue)
        /\ \A i \in 1..Len(s.queue) : i \in 1..Len(r.queue) /\ r.queue[i] = s.queue[i]
    <3>1. Len(s.queue) <= Len(r.queue) /\ \A i \in 1..Len(s.queue) : r.queue[i] = s.queue[i]
      BY DEF MetBy
    <3> QED
      BY <1>2, <3>1
  <2>5. Len(s.queue) <= Len(m.queue) /\ \A i \in 1..Len(s.queue) : m.queue[i] = s.queue[i]
    BY <1>2, <2>3, <2>4
  <2>6. next \notin s.visited /\ next \in m.visited
    BY <1>5 DEF MetBy
  <2>7. ASSUME NEW i \in Len(s.queue) + 1..Len(m.queue)
        PROVE  m.queue[i].depth = depth + 1 /\ m.queue[i].node \in m.visited \ s.visited
    <3>1. CASE i <= Len(r.queue)
      <4>1. i \in Len(s.queue) + 1..Len(r.queue) /\ i \in 1..Len(r.queue)
        BY <1>2, <3>1
      <4>2. r.queue[i].depth = depth + 1 /\ r.queue[i].node \in r.visited \ s.visited
        BY <4>1 DEF MetBy
      <4> QED
        BY <1>5, <2>3, <4>1, <4>2
    <3>2. CASE ~ (i <= Len(r.queue))
      <4>1. i = Len(r.queue) + 1
        BY <1>2, <2>3, <3>2
      <4> QED
        BY <2>1, <2>3, <2>6, <4>1
    <3> QED
      BY <3>1, <3>2
  <2>8. ASSUME NEW y \in m.visited \ s.visited
        PROVE  \E i \in 1..Len(m.queue) : m.queue[i].node = y
    <3>1. CASE y = next
      <4>1. Len(r.queue) + 1 \in 1..Len(m.queue)
        BY <1>2, <2>3
      <4> QED
        BY <2>1, <2>3, <3>1, <4>1
    <3>2. CASE y # next
      <4>1. y \in r.visited \ s.visited
        BY <1>5, <3>2
      <4>2. PICK i \in 1..Len(r.queue) : r.queue[i].node = y
        BY <4>1 DEF MetBy
      <4>3. i \in 1..Len(m.queue) /\ m.queue[i] = r.queue[i]
        BY <1>2, <2>3
      <4> QED
        BY <4>2, <4>3
    <3> QED
      BY <3>1, <3>2
  <2>9. Cardinality(s.visited) # req.max
    <3>1. s.visited \subseteq r.visited
      BY DEF MetBy
    <3>2. Cardinality(s.visited) <= Cardinality(r.visited)
      BY <1>2, <3>1, FS_Subset
    <3> QED
      BY <1>2, <1>5, <3>2
  <2>10. r.limited => s.limited
    BY <1>2, <1>5 DEF MetBy
  <2>11. /\ s.visited \subseteq m.visited /\ m.visited \subseteq s.visited \cup (ends \cup {next})
         /\ s.limited => m.limited
         /\ ~m.limited => ends \cup {next} \subseteq m.visited \cup {NoTarget}
    BY <1>5 DEF MetBy
  <2> QED
    BY <1>1, <1>5, <2>2, <2>5, <2>7, <2>8, <2>9, <2>10, <2>11 DEF MetBy, m
<1> QED
  BY <1>1, <1>3, <1>4, <1>5

LEMMA MeetAllMeets ==
    ASSUME req \in Requests, NEW s \in MeetStates, NEW found \in Seq(Edges),
           NEW node \in Nodes, NEW depth \in Nat, Cardinality(s.visited) <= req.max
    PROVE  MetBy(s, MeetAll(s, found, node, depth),
                 {Other(e, node) : e \in ToSet(found)}, depth)
<1>1. PICK h : /\ h[0] = s /\ MeetAll(s, found, node, depth) = h[Len(found)]
               /\ \A k \in 0..Len(found) : h[k] \in MeetStates
               /\ \A k \in 1..Len(found) :
                     h[k] = Meet(h[k - 1], Other(found[k], node), depth)
  BY MeetAllAlong
<1> DEFINE n == Len(found)
           Ends(k) == {Other(found[i], node) : i \in 1..k}
           R == {k \in 0..n : MetBy(s, h[k], Ends(k), depth)}
<1>2. n \in Nat /\ DOMAIN found = 1..n /\ \A k \in 1..n : Other(found[k], node) \in Nodes \cup {NoTarget}
  <2>1. n \in Nat /\ DOMAIN found = 1..n /\ \A k \in 1..n : found[k] \in Edges
    BY LenProperties, ElementOfSeq
  <2> QED
    BY <2>1 DEF Edges, Other
<1>3. 0 \in R
  <2>1. Ends(0) = {}
    OBVIOUS
  <2>2. MetBy(s, s, {}, depth)
    BY MetNone
  <2>3. 0 \in 0..n /\ h[0] = s
    BY <1>1, <1>2
  <2> HIDE DEF Ends, n
  <2> QED
    BY <2>1, <2>2, <2>3
<1>4. ASSUME NEW k \in 1..n, k - 1 \in R PROVE k \in R
  <2>1. Ends(k) = Ends(k - 1) \cup {Other(found[k], node)}
    <3>1. 1..k = 1..(k - 1) \cup {k}
      BY <1>2
    <3> QED
      BY <3>1
  <2>2. MetBy(s, h[k - 1], Ends(k - 1), depth)
    BY <1>4
  <2> HIDE DEF Ends
  <2>3. MetBy(s, Meet(h[k - 1], Other(found[k], node), depth),
              Ends(k - 1) \cup {Other(found[k], node)}, depth)
    BY <1>2, <2>2, MetNext
  <2>4. h[k] = Meet(h[k - 1], Other(found[k], node), depth) /\ k \in 0..n
    BY <1>1, <1>2
  <2> QED
    BY <2>1, <2>3, <2>4
<1> HIDE DEF R
<1>5. \A k \in 0..n : k \in R
  BY <1>2, <1>3, <1>4, ReachesAll
<1>6. n \in R
  BY <1>2, <1>5
<1>7. Ends(n) = {Other(e, node) : e \in ToSet(found)}
  BY <1>2 DEF ToSet
<1> QED
  BY <1>1, <1>6, <1>7 DEF R

LEMMA SameGraph ==
    ASSUME req' = req
    PROVE  /\ \A d \in Nat : Ball(d)' = Ball(d)
           /\ \A x \in Nodes : Incident(x)' = Incident(x) /\ Near(x)' = Near(x)
<1>1. ASSUME NEW d \in Nat PROVE Ball(d)' = Ball(d)
  BY SMT DEF Ball
<1>2. ASSUME NEW x \in Nodes PROVE Incident(x)' = Incident(x)
  BY Zenon DEF Incident
<1>3. ASSUME NEW x \in Nodes PROVE Near(x)' = Near(x)
  BY <1>2 DEF Near, Other
<1> QED
  BY <1>1, <1>2, <1>3

\* Nothing is visited, queued or found that the search should not return: v, q,
\* es and l are what is visited, queued and found, and whether any is left out.
SearchSound(v, q, es, l) ==
    /\ v \subseteq Ball(req.depth) /\ Cardinality(v) <= req.max
    /\ \A i \in 1..Len(q) : /\ q[i].node \in v
                            /\ q[i].depth <= req.depth
                            /\ q[i].node \in Ball(q[i].depth)
    /\ \A e \in es : /\ req.depth > 0
                     /\ \E x \in Ball(req.depth - 1) : e \in ToSet(Incident(x))
    /\ l => Cardinality(v) = req.max /\ \E y \in Ball(req.depth) : y \notin v

\* The queue is in the order of distance, and two distances are in it at most.
QueueOrdered(q) ==
    \A i \in 1..Len(q) :
        /\ \A j \in 1..i : q[j].depth <= q[i].depth
        /\ q[i].depth <= q[1].depth + 1

\* A node is queued at its distance.
QueuedNearest(q) ==
    \A i \in 1..Len(q) : \A j \in 0..req.depth : q[i].node \in Ball(j) => q[i].depth <= j

\* A node that is near enough is in the queue or has met its neighbours.
MetOrQueued(v, q, es) ==
    \A x \in v : \A j \in 0..req.depth - 1 : x \in Ball(j) =>
        \/ \E i \in 1..Len(q) : q[i].node = x
        \/ Near(x) \subseteq v /\ ToSet(Incident(x)) \subseteq es

SearchComplete(v, q, es) ==
    req.root \in v /\ QueueOrdered(q) /\ QueuedNearest(q) /\ MetOrQueued(v, q, es)

SearchFrom(v, q, es, l) ==
    /\ v \in SUBSET Nodes /\ q \in Seq(Queued) /\ l \in BOOLEAN
    /\ SearchSound(v, q, es, l)
    /\ ~l => SearchComplete(v, q, es)

SearchInv == req \in Requests /\ SearchFrom(visited, queue, edges, limited)

LEMMA SearchStays ==
    ASSUME req \in Requests, req' = req, SearchFrom(visited', queue', edges', limited')
    PROVE  SearchInv'
<1>1. /\ \A d \in Nat : Ball(d)' = Ball(d)
      /\ \A x \in Nodes : Incident(x)' = Incident(x) /\ Near(x)' = Near(x)
  BY SameGraph
<1>2. /\ req.depth \in Nat /\ \A d \in Nat : Ball(d) \in SUBSET Nodes
      /\ queue' \in Seq(Queued) /\ visited' \subseteq Nodes /\ limited' \in BOOLEAN
  BY RequestShape, BallGrows DEF SearchFrom
<1>3. \A i \in 1..Len(queue') : queue'[i].depth \in Nat
  <2>1. \A i \in 1..Len(queue') : queue'[i] \in Queued
    BY <1>2, ElementOfSeq
  <2> QED
    BY <2>1 DEF Queued
<1>4. SearchSound(visited, queue, edges, limited)'
  <2>1. SearchSound(visited', queue', edges', limited')
    BY DEF SearchFrom
  <2>2. Ball(req.depth)' = Ball(req.depth)
        /\ (req.depth > 0 => Ball(req.depth - 1)' = Ball(req.depth - 1))
    BY <1>1, <1>2
  <2>3. \A i \in 1..Len(queue') : Ball(queue[i].depth)' = Ball(queue'[i].depth)
    BY <1>1, <1>2, <1>3
  <2>4. req.depth > 0 => Ball(req.depth - 1) \subseteq Nodes
    <3>1. req.depth > 0 => req.depth - 1 \in Nat
      BY <1>2
    <3> QED
      BY <1>2, <3>1
  <2>5. (visited \subseteq Ball(req.depth) /\ Cardinality(visited) <= req.max)'
        /\ (limited => /\ Cardinality(visited) = req.max
                       /\ \E y \in Ball(req.depth) : y \notin visited)'
    BY <2>1, <2>2 DEF SearchSound
  <2>6. (\A i \in 1..Len(queue) : /\ queue[i].node \in visited
                                  /\ queue[i].depth <= req.depth
                                  /\ queue[i].node \in Ball(queue[i].depth))'
    BY <2>1, <2>3 DEF SearchSound
  <2>7. (\A e \in edges : /\ req.depth > 0
                          /\ \E x \in Ball(req.depth - 1) : e \in ToSet(Incident(x)))'
    BY <1>1, <2>1, <2>2, <2>4 DEF SearchSound
  <2> QED
    BY <2>5, <2>6, <2>7 DEF SearchSound
<1>5. ~limited' => SearchComplete(visited, queue, edges)'
  <2> SUFFICES ASSUME ~limited' PROVE SearchComplete(visited, queue, edges)'
    OBVIOUS
  <2>1. SearchComplete(visited', queue', edges')
    BY DEF SearchFrom
  <2>2. QueueOrdered(queue)'
    BY <2>1 DEF QueueOrdered, SearchComplete
  <2>3. QueuedNearest(queue)'
    BY <1>1, <1>2, <2>1 DEF QueuedNearest, SearchComplete
  <2>4. MetOrQueued(visited, queue, edges)'
    BY <1>1, <1>2, <2>1 DEF MetOrQueued, SearchComplete
  <2> QED
    BY <2>1, <2>2, <2>3, <2>4 DEF SearchComplete
<1> QED
  BY <1>2, <1>4, <1>5 DEF SearchInv, SearchFrom

\* When the queue holds nothing nearer than k, all that is nearer is visited.
LEMMA LevelSeen ==
    ASSUME SearchInv, ~limited, NEW k \in 0..req.depth,
           \A i \in 1..Len(queue) : queue[i].depth >= k
    PROVE  /\ Ball(k) \subseteq visited
           /\ \A x \in Ball(k) : \A j \in 0..k - 1 : x \in Ball(j) =>
                  Near(x) \subseteq visited /\ ToSet(Incident(x)) \subseteq edges
<1>1. req \in Requests /\ req.depth \in Nat /\ k \in Nat /\ Len(queue) \in Nat
      /\ \A i \in 1..Len(queue) : queue[i].depth \in Nat
  <2>1. queue \in Seq(Queued) /\ req \in Requests
    BY DEF SearchInv, SearchFrom
  <2>2. \A i \in 1..Len(queue) : queue[i] \in Queued
    BY <2>1, ElementOfSeq
  <2>3. Len(queue) \in Nat /\ req.depth \in Nat
    BY <2>1, LenProperties, RequestShape
  <2> QED
    BY <2>1, <2>2, <2>3 DEF Queued
<1>2. req.root \in visited /\ QueuedNearest(queue) /\ MetOrQueued(visited, queue, edges)
  BY DEF SearchInv, SearchFrom, SearchComplete
<1>3. ASSUME NEW x \in visited, NEW j \in 0..k - 1, x \in Ball(j)
      PROVE  Near(x) \subseteq visited /\ ToSet(Incident(x)) \subseteq edges
  <2>1. j \in 0..req.depth - 1 /\ j \in 0..req.depth /\ j < k
    BY <1>1
  <2>2. ASSUME NEW i \in 1..Len(queue), queue[i].node = x PROVE FALSE
    <3>1. queue[i].depth <= j
      BY <1>2, <1>3, <2>1, <2>2 DEF QueuedNearest
    <3>2. queue[i].depth >= k
      OBVIOUS
    <3> QED
      BY <1>1, <2>1, <3>1, <3>2
  <2> QED
    BY <1>2, <1>3, <2>1, <2>2 DEF MetOrQueued
<1> DEFINE R == {i \in 0..k : Ball(i) \subseteq visited}
<1>4. 0 \in R
  BY <1>1, <1>2, BallGrows
<1>5. ASSUME NEW i \in 1..k, i - 1 \in R PROVE i \in R
  <2>1. i - 1 \in Nat /\ (i - 1) + 1 = i /\ i - 1 \in 0..k - 1 /\ i \in 0..k
    BY <1>1
  <2>2. Ball(i - 1) \in SUBSET Nodes /\ Ball(i) = Grow(Ball(i - 1))
    BY <1>1, <2>1, BallGrows
  <2>3. Grow(Ball(i - 1)) = Ball(i - 1) \cup UNION {Near(x) : x \in Ball(i - 1)}
    BY <1>1, <2>2, GrowNear
  <2>4. Ball(i - 1) \subseteq visited
    BY <1>5
  <2>5. \A x \in Ball(i - 1) : Near(x) \subseteq visited
    BY <1>3, <2>1, <2>4
  <2> QED
    BY <2>1, <2>2, <2>3, <2>4, <2>5
<1> HIDE DEF R
<1>6. \A i \in 0..k : i \in R
  BY <1>1, <1>4, <1>5, ReachesAll
<1>7. Ball(k) \subseteq visited
  BY <1>1, <1>6 DEF R
<1> QED
  BY <1>3, <1>7

LEMMA SearchAnswers == SearchInv /\ queue = <<>> =>
    /\ visited \subseteq Ball(req.depth)
    /\ limited = (Cardinality(Ball(req.depth)) > req.max)
    /\ limited => Cardinality(visited) = req.max
    /\ ~limited =>
          /\ visited = Ball(req.depth)
          /\ req.depth > 0 => edges = UNION {ToSet(Incident(x)) : x \in Ball(req.depth - 1)}
<1> SUFFICES ASSUME SearchInv, queue = <<>>
             PROVE  /\ visited \subseteq Ball(req.depth)
                    /\ limited = (Cardinality(Ball(req.depth)) > req.max)
                    /\ limited => Cardinality(visited) = req.max
                    /\ ~limited =>
                          /\ visited = Ball(req.depth)
                          /\ req.depth > 0 =>
                                edges = UNION {ToSet(Incident(x)) : x \in Ball(req.depth - 1)}
  OBVIOUS
<1> DEFINE d == req.depth
<1>1. req \in Requests /\ d \in Nat /\ req.max \in Nat /\ IsFiniteSet(Nodes)
      /\ limited \in BOOLEAN /\ Len(queue) = 0
  BY RequestShape DEF SearchInv, SearchFrom
<1>2. Ball(d) \in SUBSET Nodes
  BY <1>1, BallGrows
<1>3. visited \subseteq Ball(d) /\ Cardinality(visited) <= req.max
      /\ (limited => Cardinality(visited) = req.max /\ \E y \in Ball(d) : y \notin visited)
  BY DEF SearchInv, SearchFrom, SearchSound
<1>4. IsFiniteSet(Ball(d)) /\ Cardinality(Ball(d)) \in Nat
      /\ IsFiniteSet(visited) /\ Cardinality(visited) \in Nat
  <2>1. IsFiniteSet(Ball(d))
    BY <1>1, <1>2, FS_Subset
  <2>2. IsFiniteSet(visited)
    BY <1>3, <2>1, FS_Subset
  <2> QED
    BY <2>1, <2>2, FS_CardinalityType
<1>5. CASE limited
  <2>1. Cardinality(visited) < Cardinality(Ball(d))
    BY <1>3, <1>4, <1>5, FS_Subset
  <2> QED
    BY <1>1, <1>3, <1>4, <1>5, <2>1
<1>6. CASE ~limited
  <2>1. \A i \in 1..Len(queue) : FALSE
    BY <1>1
  <2>2. d \in 0..d
    BY <1>1
  <2>3. /\ Ball(d) \subseteq visited
        /\ \A x \in Ball(d) : \A j \in 0..d - 1 : x \in Ball(j) =>
               Near(x) \subseteq visited /\ ToSet(Incident(x)) \subseteq edges
    BY <1>6, <2>1, <2>2, LevelSeen
  <2>4. ASSUME d > 0
        PROVE  edges = UNION {ToSet(Incident(x)) : x \in Ball(d - 1)}
    <3>1. d - 1 \in Nat /\ d - 1 \in 0..d - 1 /\ d - 1 <= d
      BY <1>1, <2>4
    <3>2. Ball(d - 1) \subseteq Ball(d)
      BY <1>1, <3>1, BallsNest
    <3>3. \A x \in Ball(d - 1) : ToSet(Incident(x)) \subseteq edges
      BY <2>3, <3>1, <3>2
    <3>4. \A e \in edges : \E x \in Ball(d - 1) : e \in ToSet(Incident(x))
      BY DEF SearchInv, SearchFrom, SearchSound
    <3> QED
      BY <3>3, <3>4
  <2>5. visited = Ball(d)
    BY <1>3, <2>3
  <2> QED
    BY <1>1, <1>3, <1>4, <1>6, <2>4, <2>5
<1> QED
  BY <1>1, <1>5, <1>6

SearchStarts ==
    /\ req \in Requests
    /\ visited = {req.root} /\ queue = <<[node |-> req.root, depth |-> 0]>>
    /\ edges = {} /\ limited = FALSE

LEMMA SearchBegins == SearchStarts => SearchInv
<1> SUFFICES ASSUME SearchStarts PROVE SearchInv
  OBVIOUS
<1>1. /\ req \in Requests /\ visited = {req.root} /\ edges = {} /\ limited = FALSE
      /\ queue = <<[node |-> req.root, depth |-> 0]>>
  BY DEF SearchStarts
<1>2. req.root \in Nodes /\ req.depth \in Nat /\ req.max \in Nat \ {0} /\ Nodes \subseteq Nat
  BY <1>1, RequestShape
<1>3. [node |-> req.root, depth |-> 0] \in Queued
  BY <1>2 DEF Queued
<1>4. /\ queue \in Seq(Queued) /\ Len(queue) = 1
      /\ queue[1].node = req.root /\ queue[1].depth = 0
  BY <1>1, <1>3
<1>5. Ball(0) = {req.root} /\ Ball(0) \subseteq Ball(req.depth)
  <2>1. 0 \in Nat /\ 0 <= req.depth
    BY <1>2
  <2> QED
    BY <1>1, <1>2, <2>1, BallGrows, BallsNest
<1>6. Cardinality(visited) = 1
  BY <1>1, FS_Singleton
<1>7. SearchSound(visited, queue, edges, limited)
  BY <1>1, <1>2, <1>4, <1>5, <1>6 DEF SearchSound
<1>8. QueueOrdered(queue) /\ QueuedNearest(queue)
  <2>1. \A i \in 1..Len(queue) : i = 1
    BY <1>4
  <2> QED
    BY <1>2, <1>4, <2>1 DEF QueueOrdered, QueuedNearest
<1>9. MetOrQueued(visited, queue, edges)
  <2>1. 1 \in 1..Len(queue)
    BY <1>4
  <2> QED
    BY <1>1, <1>4, <2>1 DEF MetOrQueued
<1> QED
  BY <1>1, <1>2, <1>4, <1>7, <1>8, <1>9 DEF SearchInv, SearchFrom, SearchComplete

LEMMA SearchRests ==
    ASSUME SearchInv, req' = req, UNCHANGED searchVars PROVE SearchInv'
<1>1. SearchFrom(visited', queue', edges', limited') /\ req \in Requests
  BY DEF SearchInv, searchVars
<1> QED
  BY <1>1, SearchStays

LEMMA VisitKeeps == ASSUME SearchInv, Visit PROVE SearchInv'
<1> DEFINE d == req.depth
           n == Head(queue).node
           at == Head(queue).depth
           found == Incident(n)
           rest == Tail(queue)
           start == [visited |-> visited, queue |-> rest, limited |-> limited]
           end == MeetAll(start, found, n, at)
<1>1. /\ queue # <<>> /\ UNCHANGED req
      /\ IF at >= d THEN queue' = rest /\ UNCHANGED <<visited, edges, limited>>
         ELSE /\ visited' = end.visited /\ queue' = end.queue /\ limited' = end.limited
              /\ edges' = edges \cup ToSet(found)
  BY DEF Visit
<1> HIDE DEF start, end
<1>2. /\ req \in Requests /\ visited \in SUBSET Nodes /\ queue \in Seq(Queued)
      /\ limited \in BOOLEAN /\ Cardinality(visited) <= req.max
      /\ d \in Nat /\ req.max \in Nat /\ NoTarget \notin Nodes
  BY RequestShape DEF SearchInv, SearchFrom, SearchSound
<1>3. /\ rest \in Seq(Queued) /\ Len(queue) \in Nat /\ Len(rest) = Len(queue) - 1
      /\ Len(queue) > 0
      /\ \A i \in 1..Len(rest) : rest[i] = queue[i + 1] /\ i + 1 \in 1..Len(queue)
      /\ \A i \in 1..Len(queue) : queue[i].depth \in Nat /\ queue[i].node \in Nodes
      /\ Head(queue) = queue[1] /\ 1 \in 1..Len(queue)
  <2>1. Len(queue) \in Nat /\ Len(queue) > 0 /\ 1 \in 1..Len(queue)
    BY <1>1, <1>2, EmptySeq, LenProperties
  <2>2. rest \in Seq(Queued) /\ Len(rest) = Len(queue) - 1
        /\ \A i \in 1..Len(rest) : rest[i] = queue[i + 1]
    BY <1>1, <1>2, HeadTailProperties
  <2>3. \A i \in 1..Len(queue) : queue[i] \in Queued
    BY <1>2, ElementOfSeq
  <2>4. Head(queue) = queue[1]
    BY <1>1, <1>2
  <2> HIDE DEF rest
  <2> QED
    BY <2>1, <2>2, <2>3, <2>4 DEF Queued
<1> HIDE DEF rest
<1>4. /\ n \in visited /\ n \in Nodes /\ at \in Nat /\ at <= d /\ n \in Ball(at)
  BY <1>3 DEF SearchInv, SearchFrom, SearchSound
<1>5. ~limited => SearchComplete(visited, queue, edges)
  BY DEF SearchInv, SearchFrom
<1>6. /\ \A i \in 1..Len(queue) : /\ queue[i].node \in visited
                                  /\ queue[i].depth <= d
                                  /\ queue[i].node \in Ball(queue[i].depth)
      /\ visited \subseteq Ball(d)
      /\ \A e \in edges : d > 0 /\ \E x \in Ball(d - 1) : e \in ToSet(Incident(x))
      /\ limited => Cardinality(visited) = req.max /\ \E y \in Ball(d) : y \notin visited
  BY DEF SearchInv, SearchFrom, SearchSound
<1>7. ASSUME ~limited
      PROVE  /\ QueueOrdered(rest) /\ QueuedNearest(rest)
             /\ \A i \in 1..Len(rest) : at <= rest[i].depth /\ rest[i].depth <= at + 1
  <2>1. /\ \A i \in 1..Len(queue) : \A j \in 1..i : queue[j].depth <= queue[i].depth
        /\ \A i \in 1..Len(queue) : queue[i].depth <= at + 1
    BY <1>3, <1>5, <1>7 DEF SearchComplete, QueueOrdered
  <2>2. \A i \in 1..Len(rest) : /\ i + 1 \in 1..Len(queue) /\ rest[i] = queue[i + 1]
                                /\ 1 \in 1..i + 1
    BY <1>3
  <2>3. \A i \in 1..Len(rest) : at <= rest[i].depth /\ rest[i].depth <= at + 1
    BY <1>3, <2>1, <2>2
  <2>4. QueueOrdered(rest)
    <3>1. ASSUME NEW i \in 1..Len(rest), NEW j \in 1..i
          PROVE  rest[j].depth <= rest[i].depth
      <4>1. j \in 1..Len(rest) /\ j + 1 \in 1..i + 1
        BY <1>3
      <4> QED
        BY <2>1, <2>2, <4>1
    <3>2. ASSUME NEW i \in 1..Len(rest) PROVE rest[i].depth <= rest[1].depth + 1
      <4>1. Len(rest) \in Nat /\ 1 \in 1..Len(rest)
        BY <1>3
      <4>2. \A k \in 1..Len(rest) : rest[k].depth \in Nat
        BY <1>3, <2>2
      <4>3. at <= rest[1].depth /\ rest[i].depth <= at + 1
        BY <2>3, <4>1
      <4> QED
        BY <1>4, <4>1, <4>2, <4>3
    <3> QED
      BY <3>1, <3>2 DEF QueueOrdered
  <2>5. QueuedNearest(rest)
    BY <1>5, <1>7, <2>2 DEF SearchComplete, QueuedNearest
  <2> QED
    BY <2>3, <2>4, <2>5
<1>8. \A i \in 1..Len(queue) : i = 1 \/ \E j \in 1..Len(rest) : rest[j] = queue[i]
  <2> SUFFICES ASSUME NEW i \in 1..Len(queue), i # 1
               PROVE  \E j \in 1..Len(rest) : rest[j] = queue[i]
    OBVIOUS
  <2>1. i - 1 \in 1..Len(rest) /\ (i - 1) + 1 = i
    BY <1>3
  <2> QED
    BY <1>3, <2>1
<1>9. CASE at >= d
  <2>1. SearchSound(visited, rest, edges, limited)
    BY <1>2, <1>3, <1>6 DEF SearchSound
  <2>2. ASSUME ~limited PROVE MetOrQueued(visited, rest, edges)
    <3> SUFFICES ASSUME NEW x \in visited, NEW j \in 0..d - 1, x \in Ball(j)
                 PROVE  \/ \E i \in 1..Len(rest) : rest[i].node = x
                        \/ Near(x) \subseteq visited /\ ToSet(Incident(x)) \subseteq edges
      BY DEF MetOrQueued
    <3>1. \/ \E i \in 1..Len(queue) : queue[i].node = x
          \/ Near(x) \subseteq visited /\ ToSet(Incident(x)) \subseteq edges
      BY <1>5, <2>2 DEF SearchComplete, MetOrQueued
    <3>2. ASSUME n = x PROVE FALSE
      <4>1. j \in 0..d /\ j < d
        BY <1>2
      <4>2. at <= j
        BY <1>3, <1>5, <2>2, <3>2, <4>1 DEF SearchComplete, QueuedNearest
      <4> QED
        BY <1>2, <1>4, <1>9, <4>1, <4>2
    <3> QED
      BY <1>3, <1>8, <3>1, <3>2
  <2>3. SearchFrom(visited, rest, edges, limited)
    BY <1>2, <1>3, <1>5, <1>7, <2>1, <2>2 DEF SearchFrom, SearchComplete
  <2> QED
    BY <1>1, <1>2, <1>9, <2>3, SearchStays
<1>10. CASE at < d
  <2> DEFINE v == end.visited
             q == end.queue
             l == end.limited
             es == edges \cup ToSet(found)
             ends == {Other(e, n) : e \in ToSet(found)}
  <2>1. /\ start \in MeetStates /\ start.visited = visited /\ start.queue = rest
        /\ start.limited = limited
    BY <1>2, <1>3 DEF start, MeetStates
  <2>2. MetBy(start, end, ends, at)
    <3>1. found \in Seq(Edges)
      BY <1>2, <1>4, IncidentEdges
    <3> HIDE DEF found
    <3> QED
      BY <1>2, <1>4, <2>1, <3>1, MeetAllMeets DEF end
  <2>3. Near(n) = ends \ {NoTarget}
    BY DEF Near
  <2> HIDE DEF ends, found
  <2>4. /\ v \in SUBSET Nodes /\ q \in Seq(Queued) /\ l \in BOOLEAN
        /\ visited \subseteq v /\ v \subseteq visited \cup Near(n) /\ Cardinality(v) <= req.max
        /\ Len(rest) <= Len(q) /\ Len(q) \in Nat
        /\ \A i \in 1..Len(rest) : q[i] = rest[i]
        /\ \A i \in Len(rest) + 1..Len(q) : q[i].depth = at + 1 /\ q[i].node \in v \ visited
        /\ \A y \in v \ visited : \E i \in 1..Len(q) : q[i].node = y
        /\ limited => l
        /\ ~l => Near(n) \subseteq v
        /\ l /\ ~limited => Cardinality(v) = req.max /\ ~ (Near(n) \subseteq v)
        /\ Cardinality(visited) = req.max => v = visited
    <3>1. v \in SUBSET Nodes /\ q \in Seq(Queued) /\ l \in BOOLEAN
      BY <2>2 DEF MetBy, MeetStates
    <3>2. Len(q) \in Nat
      BY <3>1, LenProperties
    <3>3. ends \subseteq v \cup {NoTarget} <=> Near(n) \subseteq v
      BY <1>2, <2>3
    <3>4. v \subseteq visited \cup Near(n)
      BY <1>2, <2>1, <2>2, <2>3, <3>1 DEF MetBy
    <3> QED
      BY <2>1, <2>2, <3>1, <3>2, <3>3, <3>4 DEF MetBy
  <2> HIDE DEF v, q, l
  <2>5. /\ at + 1 \in Nat /\ at + 1 <= d /\ d - 1 \in Nat /\ at <= d - 1 /\ at \in 0..d
    BY <1>2, <1>4, <1>10
  <2>6. Near(n) \subseteq Ball(at + 1) /\ Near(n) \subseteq Ball(d) /\ n \in Ball(d - 1)
    <3>1. Ball(at) \in SUBSET Nodes /\ Ball(at + 1) = Grow(Ball(at))
      BY <1>2, <1>4, BallGrows
    <3>2. Near(n) \subseteq Ball(at + 1)
      BY <1>2, <1>4, <3>1, GrowNear
    <3>3. Ball(at + 1) \subseteq Ball(d)
      BY <1>2, <2>5, BallsNest
    <3>4. Ball(at) \subseteq Ball(d - 1)
      BY <1>2, <1>4, <2>5, BallsNest
    <3> QED
      BY <1>4, <3>2, <3>3, <3>4
  <2>7. \A i \in 1..Len(q) :
            \/ i \in 1..Len(rest) /\ q[i] = rest[i]
            \/ ~ (i <= Len(rest)) /\ q[i].depth = at + 1 /\ q[i].node \in v \ visited
    BY <1>3, <2>4
  <2>8. \A i \in 1..Len(rest) : /\ rest[i].node \in visited /\ rest[i].depth <= d
                                /\ rest[i].node \in Ball(rest[i].depth)
                                /\ rest[i].depth \in Nat
    BY <1>3, <1>6
  <2>9. SearchSound(v, q, es, l)
    <3>1. v \subseteq Ball(d)
      BY <1>6, <2>4, <2>6
    <3>2. ASSUME NEW i \in 1..Len(q)
          PROVE  q[i].node \in v /\ q[i].depth <= d /\ q[i].node \in Ball(q[i].depth)
      <4>1. CASE i \in 1..Len(rest) /\ q[i] = rest[i]
        BY <2>4, <2>8, <4>1
      <4>2. CASE q[i].depth = at + 1 /\ q[i].node \in v \ visited
        BY <2>4, <2>5, <2>6, <4>2
      <4> QED
        BY <2>7, <4>1, <4>2
    <3>3. \A e \in es : d > 0 /\ \E x \in Ball(d - 1) : e \in ToSet(Incident(x))
      <4>1. d > 0
        BY <1>2, <2>5
      <4> QED
        BY <1>6, <2>6, <4>1 DEF found
    <3>4. l => Cardinality(v) = req.max /\ \E y \in Ball(d) : y \notin v
      <4>1. CASE limited
        BY <1>6, <2>4, <4>1
      <4>2. CASE ~limited
        BY <2>4, <2>6, <4>2
      <4> QED
        BY <4>1, <4>2
    <3> QED
      BY <2>4, <3>1, <3>2, <3>3, <3>4 DEF SearchSound
  <2>10. ASSUME ~l PROVE SearchComplete(v, q, es)
    <3>1. ~limited /\ Near(n) \subseteq v /\ SearchComplete(visited, queue, edges)
      BY <1>5, <2>4, <2>10
    <3>2. /\ QueueOrdered(rest) /\ QueuedNearest(rest)
          /\ \A i \in 1..Len(rest) : at <= rest[i].depth /\ rest[i].depth <= at + 1
      BY <1>7, <3>1
    <3>3. Ball(at) \subseteq visited
      <4>1. ASSUME NEW i \in 1..Len(queue) PROVE queue[i].depth >= at
        <5>1. CASE i = 1
          BY <1>3, <5>1
        <5>2. CASE \E j \in 1..Len(rest) : rest[j] = queue[i]
          BY <1>3, <1>4, <3>2, <5>2
        <5> QED
          BY <1>8, <5>1, <5>2
      <4> HIDE DEF at
      <4> QED
        BY <2>5, <3>1, <4>1, LevelSeen
    <3>4. \A i \in 1..Len(q) : q[i].depth \in Nat /\ at <= q[i].depth /\ q[i].depth <= at + 1
      BY <1>4, <2>7, <2>8, <3>2
    <3>5. QueueOrdered(q)
      <4>1. ASSUME NEW i \in 1..Len(q), NEW j \in 1..i PROVE q[j].depth <= q[i].depth
        <5>1. j \in 1..Len(q)
          BY <2>4
        <5>2. CASE i \in 1..Len(rest) /\ q[i] = rest[i]
          <6>1. j \in 1..Len(rest) /\ q[j] = rest[j]
            BY <1>3, <2>4, <5>2
          <6> QED
            BY <3>2, <5>2, <6>1 DEF QueueOrdered
        <5>3. CASE q[i].depth = at + 1
          BY <3>4, <5>1, <5>3
        <5> QED
          BY <2>7, <5>2, <5>3
      <4>2. ASSUME NEW i \in 1..Len(q) PROVE q[i].depth <= q[1].depth + 1
        <5>1. 1 \in 1..Len(q)
          BY <2>4
        <5> QED
          BY <1>4, <3>4, <5>1
      <4> QED
        BY <4>1, <4>2 DEF QueueOrdered
    <3>6. QueuedNearest(q)
      <4> SUFFICES ASSUME NEW i \in 1..Len(q), NEW j \in 0..d, q[i].node \in Ball(j)
                   PROVE  q[i].depth <= j
        BY DEF QueuedNearest
      <4>1. CASE i \in 1..Len(rest) /\ q[i] = rest[i]
        BY <3>2, <4>1 DEF QueuedNearest
      <4>2. CASE q[i].depth = at + 1 /\ q[i].node \in v \ visited
        <5>1. ASSUME j <= at PROVE FALSE
          <6>1. Ball(j) \subseteq Ball(at)
            BY <1>2, <1>4, <5>1, BallsNest
          <6> QED
            BY <3>3, <4>2, <6>1
        <5> QED
          BY <1>4, <4>2, <5>1
      <4> QED
        BY <2>7, <4>1, <4>2
    <3>7. MetOrQueued(v, q, es)
      <4> SUFFICES ASSUME NEW x \in v, NEW j \in 0..d - 1, x \in Ball(j)
                   PROVE  \/ \E i \in 1..Len(q) : q[i].node = x
                          \/ Near(x) \subseteq v /\ ToSet(Incident(x)) \subseteq es
        BY DEF MetOrQueued
      <4>1. CASE x \notin visited
        BY <2>4, <4>1
      <4>2. CASE x = n
        BY <3>1, <4>2 DEF found
      <4>3. CASE x \in visited /\ x # n
        <5>1. \/ \E i \in 1..Len(queue) : queue[i].node = x
              \/ Near(x) \subseteq visited /\ ToSet(Incident(x)) \subseteq edges
          BY <3>1, <4>3 DEF SearchComplete, MetOrQueued
        <5>2. ASSUME NEW i \in 1..Len(queue), queue[i].node = x
              PROVE  \E k \in 1..Len(q) : q[k].node = x
          <6>1. PICK k \in 1..Len(rest) : rest[k] = queue[i]
            BY <1>3, <1>8, <4>3, <5>2
          <6>2. k \in 1..Len(q) /\ q[k] = rest[k]
            BY <1>3, <2>4
          <6> QED
            BY <5>2, <6>1, <6>2
        <5> QED
          BY <2>4, <5>1, <5>2
      <4> QED
        BY <4>1, <4>2, <4>3
    <3> QED
      BY <2>4, <3>1, <3>5, <3>6, <3>7 DEF SearchComplete
  <2>11. SearchFrom(v, q, es, l)
    BY <2>4, <2>9, <2>10 DEF SearchFrom
  <2>12. visited' = v /\ queue' = q /\ limited' = l /\ edges' = es
    BY <1>1, <1>2, <1>4, <1>10 DEF v, q, l, found
  <2> HIDE DEF es
  <2> QED
    BY <1>1, <1>2, <2>11, <2>12, SearchStays
<1> QED
  BY <1>2, <1>4, <1>9, <1>10

LEMMA SearchKeeps == SearchInv /\ [WalkNext]_walkVars => SearchInv'
<1> SUFFICES ASSUME SearchInv, [WalkNext]_walkVars PROVE SearchInv'
  OBVIOUS
<1>1. CASE Visit
  BY <1>1, VisitKeeps
<1>2. CASE SearchEnds
  BY <1>2, SearchRests DEF SearchEnds
<1>3. CASE BeginAnchor
  BY <1>3, SearchRests DEF BeginAnchor, searchVars
<1>4. CASE Hop
  BY <1>4, SearchRests DEF Hop
<1>5. CASE EndAnchor
  BY <1>5, SearchRests DEF EndAnchor
<1>6. CASE AskAgain
  <2>1. SearchStarts'
    BY <1>6 DEF AskAgain, SearchInv, SearchStarts
  <2>2. (SearchStarts => SearchInv)'
    BY SearchBegins, PTL
  <2> QED
    BY <2>1, <2>2
<1>7. CASE UNCHANGED walkVars
  BY <1>7, SearchRests DEF walkVars, searchVars
<1> QED
  BY <1>1, <1>2, <1>3, <1>4, <1>5, <1>6, <1>7 DEF WalkNext

----------------------------------------------------------------------------
(* Traversal: the expansion.  The argument: after some hops what is reached  *)
(* is the best product of paths of as many steps, because a node has either *)
(* its best weight in the frontier or has offered all it can with it; a     *)
(* worse entry of the frontier offers nothing that the best does not exceed. *)

LEMMA ProductsGrow ==
    ASSUME NEW w \in Nat, NEW c \in Nat, NEW x \in Nat, NEW d \in Nat, w <= x, c <= d
    PROVE  w * c <= x * d /\ w * c \in Nat /\ x * d \in Nat
<1>1. PICK i \in Nat : x = w + i
  <2>1. x - w \in Nat /\ x = w + (x - w)
    OBVIOUS
  <2> QED
    BY <2>1
<1>2. PICK j \in Nat : d = c + j
  <2>1. d - c \in Nat /\ d = c + (d - c)
    OBVIOUS
  <2> QED
    BY <2>1
<1>3. x * d = w * c + w * j + i * d
  BY <1>1, <1>2
<1>4. w * c \in Nat /\ x * d \in Nat /\ w * j \in Nat /\ i * d \in Nat
  OBVIOUS
<1> QED
  BY <1>3, <1>4

\* A share of a weight: what TakeStep and BestProduct make of a confidence.
Times(w, c) == (w * c) \div 10

LEMMA TimesGrows ==
    ASSUME NEW w \in Nat, NEW c \in Nat, NEW x \in Nat, NEW d \in Nat, w <= x, c <= d
    PROVE  Times(w, c) \in Nat /\ Times(w, c) <= Times(x, d)
<1> DEFINE p == w * c
           q == x * d
<1>1. p \in Nat /\ q \in Nat
  OBVIOUS
<1>2. p <= q
  BY ProductsGrow
<1>3. Times(w, c) = p \div 10 /\ Times(x, d) = q \div 10
  BY DEF Times
<1> HIDE DEF p, q
<1>4. p \div 10 \in Nat /\ p \div 10 <= q \div 10
  BY <1>1, <1>2
<1> QED
  BY <1>3, <1>4

Rels == {"none", "callee", "caller"}
Steps == [to : Nodes, conf : Nat, rel : Rels]

\* The edges along which an expansion goes, and the steps from a node.
Passed == {e \in ToSet(req.graph) : Traversable(e)}
StepsAt(z) ==
    {[to |-> e.to, conf |-> e.conf, rel |-> "callee"] : e \in {x \in Passed : x.from = z}}
    \cup {[to |-> e.from, conf |-> e.conf, rel |-> "caller"] : e \in {x \in Passed : x.to = z}}
StepBefore(a, b) ==
    \/ a.to < b.to
    \/ a.to = b.to /\ a.conf < b.conf
    \/ a.to = b.to /\ a.conf = b.conf /\ a.rel = "callee" /\ b.rel = "caller"

LEMMA PassedEdges ==
    ASSUME req \in Requests
    PROVE  /\ IsFiniteSet(Passed)
           /\ \A e \in Passed : e.from \in Nodes /\ e.to \in Nodes /\ e.conf \in Nat
<1>1. req.graph \in Seq(Edges) /\ ToSet(req.graph) \subseteq Edges
  BY RequestShape
<1>2. IsFiniteSet(ToSet(req.graph))
  <2>1. Len(req.graph) \in Nat /\ DOMAIN req.graph = 1..Len(req.graph)
    BY <1>1, LenProperties
  <2>2. IsFiniteSet(1..Len(req.graph))
    BY <2>1, FS_Interval
  <2> DEFINE f == [i \in 1..Len(req.graph) |-> req.graph[i]]
  <2>3. f \in Surjection(1..Len(req.graph), ToSet(req.graph))
    BY <2>1 DEF Surjection, ToSet
  <2> HIDE DEF f
  <2> QED
    BY <2>2, <2>3, FS_Surjection
<1>3. Passed \in SUBSET ToSet(req.graph)
  BY DEF Passed
<1>4. IsFiniteSet(Passed)
  BY <1>2, <1>3, FS_Subset
<1> QED
  BY <1>1, <1>4 DEF Passed, Traversable, Edges

LEMMA StepsShape ==
    ASSUME req \in Requests, NEW z \in Nodes
    PROVE  /\ IsFiniteSet(StepsAt(z)) /\ StepsAt(z) \subseteq Steps
           /\ \A s \in StepsAt(z) : s.rel \in {"callee", "caller"}
<1>1. /\ IsFiniteSet(Passed)
      /\ \A e \in Passed : e.from \in Nodes /\ e.to \in Nodes /\ e.conf \in Nat
  BY PassedEdges
<1> DEFINE Out == {x \in Passed : x.from = z}
           In == {x \in Passed : x.to = z}
           A == {[to |-> e.to, conf |-> e.conf, rel |-> "callee"] : e \in Out}
           B == {[to |-> e.from, conf |-> e.conf, rel |-> "caller"] : e \in In}
           f == [e \in Out |-> [to |-> e.to, conf |-> e.conf, rel |-> "callee"]]
           g == [e \in In |-> [to |-> e.from, conf |-> e.conf, rel |-> "caller"]]
<1>2. IsFiniteSet(Out) /\ IsFiniteSet(In)
  <2>1. Out \in SUBSET Passed /\ In \in SUBSET Passed
    OBVIOUS
  <2> QED
    BY <1>1, <2>1, FS_Subset
<1>3. f \in Surjection(Out, A) /\ g \in Surjection(In, B)
  BY DEF Surjection
<1> HIDE DEF f, g, Out, In
<1>4. IsFiniteSet(A)
  BY <1>2, <1>3, FS_Surjection
<1>5. IsFiniteSet(B)
  BY <1>2, <1>3, FS_Surjection
<1>6. StepsAt(z) = A \cup B
  BY DEF StepsAt, Out, In
<1> HIDE DEF A, B
<1>7. IsFiniteSet(StepsAt(z))
  BY <1>4, <1>5, <1>6, FS_Union
<1> QED
  BY <1>1, <1>7 DEF StepsAt, Steps, Rels

LEMMA StepsOf ==
    ASSUME req \in Requests, NEW z \in Nodes
    PROVE  StepsFrom(z) \in Seq(Steps) /\ ToSet(StepsFrom(z)) = StepsAt(z)
<1> DEFINE S == StepsAt(z)
           n == Cardinality(S)
           down == [x \in S |-> {y \in S : StepBefore(y, x)}]
           at == [i \in 1..n |-> CHOOSE x \in S : Cardinality({y \in S : StepBefore(y, x)}) = i - 1]
           graph == ToSet(req.graph)
           all == {[to |-> e.to, conf |-> e.conf, rel |-> "callee"] :
                      e \in {x \in graph : x.from = z /\ Traversable(x)}}
                  \cup {[to |-> e.from, conf |-> e.conf, rel |-> "caller"] :
                      e \in {x \in graph : x.to = z /\ Traversable(x)}}
<1>1. /\ IsFiniteSet(S) /\ S \subseteq Steps
      /\ \A s \in S : /\ s.to \in Nat /\ s.conf \in Nat /\ s.rel \in {"callee", "caller"}
                      /\ s = [to |-> s.to, conf |-> s.conf, rel |-> s.rel]
  BY StepsShape, RequestShape DEF Steps
<1>2. StepsFrom(z) = at
  <2>1. StepsFrom(z) = [i \in 1..Cardinality(all) |->
            CHOOSE x \in all : Cardinality({y \in all : StepBefore(y, x)}) = i - 1]
    BY Zenon DEF StepsFrom, SortedBy, StepBefore
  <2>2. all = S
    BY DEF StepsAt, Passed
  <2> HIDE DEF all, S
  <2> QED
    BY <2>1, <2>2
<1> HIDE DEF all, S
<1>3. /\ down \in [S -> SUBSET S]
      /\ \A x \in S : down[x] = {y \in S : StepBefore(y, x)}
  OBVIOUS
<1>4. \A x \in S : x \notin down[x]
  BY <1>1, <1>3 DEF StepBefore
<1>5. \A x, y \in S : x # y => x \in down[y] \/ y \in down[x]
  BY <1>1, <1>3 DEF StepBefore
<1>6. \A x, y \in S : y \in down[x] => down[y] \subseteq down[x]
  BY <1>1, <1>3 DEF StepBefore
<1> HIDE DEF down
<1>7. /\ n \in Nat
      /\ \A x \in S : Cardinality(down[x]) \in 0..n - 1
      /\ \A x, y \in S : Cardinality(down[x]) = Cardinality(down[y]) => x = y
      /\ \A i \in 1..n : \E x \in S : Cardinality(down[x]) = i - 1
  BY <1>1, <1>3, <1>4, <1>5, <1>6, RankedBy
<1> HIDE DEF n
<1>8. \A i \in 1..n : at[i] \in S /\ Cardinality(down[at[i]]) = i - 1
  BY <1>3, <1>7
<1>9. \A x \in S : \E i \in 1..n : at[i] = x
  <2> TAKE x \in S
  <2> DEFINE i == Cardinality(down[x]) + 1
  <2>1. i \in 1..n /\ i - 1 = Cardinality(down[x])
    <3>1. Cardinality(down[x]) \in 0..n - 1
      BY <1>7
    <3> QED
      BY <1>7, <3>1
  <2> HIDE DEF i
  <2>2. at[i] \in S /\ Cardinality(down[at[i]]) = i - 1
    BY <1>8, <2>1
  <2>3. at[i] = x
    BY <1>7, <2>1, <2>2
  <2> QED
    BY <2>1, <2>3
<1>10. DOMAIN at = 1..n
  OBVIOUS
<1> HIDE DEF at
<1>11. at \in [1..n -> Steps]
  <2>1. at = [i \in 1..n |-> at[i]]
    BY DEF at
  <2> QED
    BY <1>1, <1>8, <2>1
<1>12. at \in Seq(Steps)
  BY <1>7, <1>11, SeqDef
<1>13. ToSet(at) = S
  BY <1>8, <1>9, <1>10 DEF ToSet
<1> QED
  BY <1>2, <1>12, <1>13 DEF S

Reached == [weight : Nat, rel : Rels]
Fronts == [node : Nodes, weight : Nat, rel : Rels]
Taking == [reach : [Nodes -> Reached], next : Seq(Fronts)]

\* What is offered to a node by a step from a node of the frontier.
Offering(from, step) == [to |-> step.to, weight |-> Times(from.weight, step.conf)]

\* A step changes nothing, or a node is reached with a larger weight.
TakeCases(s, m, step, offer) ==
    \/ m = s /\ (step.to = Anchor \/ offer.weight <= s.reach[step.to].weight)
    \/ /\ step.to # Anchor /\ ~ (offer.weight <= s.reach[step.to].weight)
       /\ \E rel \in Rels :
             /\ m.reach = [s.reach EXCEPT ![step.to] = [weight |-> offer.weight, rel |-> rel]]
             /\ m.next = Append(s.next, [node |-> step.to, weight |-> offer.weight, rel |-> rel])

LEMMA TakeTyped ==
    ASSUME NEW s \in Taking, NEW from \in Fronts, NEW step \in Steps
    PROVE  /\ TakeStep(s, from, step) \in Taking
           /\ Offering(from, step) \in [to : Nodes, weight : Nat]
           /\ TakeCases(s, TakeStep(s, from, step), step, Offering(from, step))
<1> DEFINE w == Times(from.weight, step.conf)
           rel == IF from.rel = "none" THEN step.rel ELSE from.rel
           to == [node |-> step.to, weight |-> w, rel |-> rel]
           at == [weight |-> w, rel |-> rel]
<1>1. /\ s.reach \in [Nodes -> Reached] /\ s.next \in Seq(Fronts)
      /\ step.to \in Nodes /\ step.conf \in Nat /\ from.weight \in Nat /\ rel \in Rels
  BY DEF Taking, Steps, Fronts
<1>2. w \in Nat
  <2>1. step.conf <= step.conf /\ from.weight <= from.weight
    BY <1>1
  <2> QED
    BY <1>1, <2>1, TimesGrows
<1>3. Offering(from, step) = [to |-> step.to, weight |-> w]
  BY DEF Offering
<1>4. TakeStep(s, from, step) =
          IF step.to = Anchor \/ w <= s.reach[step.to].weight THEN s
          ELSE [reach |-> [s.reach EXCEPT ![step.to] = at], next |-> Append(s.next, to)]
  BY DEF TakeStep, Times
<1> HIDE DEF w, rel
<1>5. to \in Fronts /\ at \in Reached
  BY <1>1, <1>2 DEF Fronts, Reached
<1>6. Append(s.next, to) \in Seq(Fronts)
  <2> HIDE DEF to
  <2> QED
    BY <1>1, <1>5, AppendProperties
<1>7. [s.reach EXCEPT ![step.to] = at] \in [Nodes -> Reached]
  <2> HIDE DEF at
  <2> QED
    BY <1>1, <1>5
<1>8. CASE step.to = Anchor \/ w <= s.reach[step.to].weight
  BY <1>1, <1>2, <1>3, <1>4, <1>8 DEF TakeCases
<1>9. CASE ~ (step.to = Anchor \/ w <= s.reach[step.to].weight)
  <2>1. TakeStep(s, from, step) =
            [reach |-> [s.reach EXCEPT ![step.to] = at], next |-> Append(s.next, to)]
    BY <1>4, <1>9
  <2>2. TakeStep(s, from, step) \in Taking
    BY <1>6, <1>7, <2>1 DEF Taking
  <2>3. TakeStep(s, from, step).reach = [s.reach EXCEPT ![step.to] = at]
        /\ TakeStep(s, from, step).next = Append(s.next, to)
    BY <2>1
  <2> QED
    BY <1>1, <1>2, <1>3, <1>9, <2>2, <2>3 DEF TakeCases
<1> QED
  BY <1>8, <1>9

\* What taking some offers makes of the nodes reached and the next frontier: no
\* weight falls, one that rises is an offer and is in the frontier, every offer
\* is heeded, and the frontier has nothing better than what is reached.
NoneFalls(s, r) == \A y \in Nodes : s.reach[y].weight <= r.reach[y].weight
RisesBy(s, r, offers) ==
    \A y \in Nodes : r.reach[y].weight # s.reach[y].weight =>
        /\ y # Anchor /\ \E o \in offers : o.to = y /\ o.weight = r.reach[y].weight
        /\ \E i \in 1..Len(r.next) : r.next[i].node = y /\ r.next[i].weight = r.reach[y].weight
Heeded(r, offers) == \A o \in offers : o.to # Anchor => o.weight <= r.reach[o.to].weight
NextReached(r) ==
    \A i \in 1..Len(r.next) : /\ r.next[i].node # Anchor
                              /\ r.next[i].weight <= r.reach[r.next[i].node].weight
TakenBy(s, r, offers) ==
    /\ s \in Taking /\ r \in Taking
    /\ NoneFalls(s, r) /\ RisesBy(s, r, offers) /\ Heeded(r, offers) /\ NextReached(r)

LEMMA TakenNone ==
    ASSUME NEW s \in Taking, s.next = <<>> PROVE TakenBy(s, s, {})
<1>1. /\ \A y \in Nodes : s.reach[y].weight \in Nat
      /\ \A i \in 1..Len(s.next) : FALSE
  BY DEF Taking, Reached
<1> QED
  BY <1>1 DEF TakenBy, NoneFalls, RisesBy, Heeded, NextReached

LEMMA TakenNext ==
    ASSUME NEW s, NEW r, NEW offers \in SUBSET [to : Nodes, weight : Nat],
           TakenBy(s, r, offers), NEW from \in Fronts, NEW step \in Steps
    PROVE  TakenBy(s, TakeStep(r, from, step), offers \cup {Offering(from, step)})
<1> DEFINE m == TakeStep(r, from, step)
           o == Offering(from, step)
<1>1. s \in Taking /\ r \in Taking
  BY DEF TakenBy
<1>2. m \in Taking /\ o \in [to : Nodes, weight : Nat] /\ TakeCases(r, m, step, o)
  BY <1>1, TakeTyped
<1>3. o.to = step.to /\ o.weight \in Nat /\ step.to \in Nodes
  BY <1>2 DEF Offering, Steps
<1> HIDE DEF m, o
<1>4. /\ \A y \in Nodes : s.reach[y].weight \in Nat /\ r.reach[y].weight \in Nat
      /\ r.reach \in [Nodes -> Reached] /\ r.next \in Seq(Fronts) /\ Len(r.next) \in Nat
      /\ \A i \in 1..Len(r.next) : r.next[i].node \in Nodes /\ r.next[i].weight \in Nat
  <2>1. r.next \in Seq(Fronts) /\ r.reach \in [Nodes -> Reached] /\ s.reach \in [Nodes -> Reached]
    BY <1>1 DEF Taking
  <2>2. Len(r.next) \in Nat
    BY <2>1, LenProperties
  <2>3. \A i \in 1..Len(r.next) : r.next[i] \in Fronts
    BY <2>1, ElementOfSeq
  <2> QED
    BY <2>1, <2>2, <2>3 DEF Reached, Fronts
<1> SUFFICES TakenBy(s, m, offers \cup {o})
  BY DEF m, o
<1>5. CASE m = r /\ (step.to = Anchor \/ o.weight <= r.reach[step.to].weight)
  <2>1. RisesBy(s, r, offers \cup {o}) /\ NoneFalls(s, r) /\ NextReached(r)
    BY DEF TakenBy, RisesBy
  <2>2. Heeded(r, offers \cup {o})
    BY <1>3, <1>5 DEF TakenBy, Heeded
  <2> QED
    BY <1>1, <1>5, <2>1, <2>2 DEF TakenBy
<1>6. CASE /\ step.to # Anchor /\ ~ (o.weight <= r.reach[step.to].weight)
           /\ \E rel \in Rels :
                 /\ m.reach = [r.reach EXCEPT ![step.to] = [weight |-> o.weight, rel |-> rel]]
                 /\ m.next = Append(r.next, [node |-> step.to, weight |-> o.weight, rel |-> rel])
  <2>1. PICK rel \in Rels :
            /\ m.reach = [r.reach EXCEPT ![step.to] = [weight |-> o.weight, rel |-> rel]]
            /\ m.next = Append(r.next, [node |-> step.to, weight |-> o.weight, rel |-> rel])
    BY <1>6
  <2> DEFINE e == [node |-> step.to, weight |-> o.weight, rel |-> rel]
  <2>2. /\ m.reach[step.to].weight = o.weight
        /\ \A y \in Nodes : y # step.to => m.reach[y] = r.reach[y]
        /\ \A y \in Nodes : r.reach[y].weight <= m.reach[y].weight
    BY <1>3, <1>4, <1>6, <2>1
  <2>3. e \in Fronts /\ e.node = step.to /\ e.weight = o.weight
    BY <1>3 DEF Fronts
  <2> HIDE DEF e
  <2>4. /\ Len(m.next) = Len(r.next) + 1 /\ m.next[Len(r.next) + 1] = e
        /\ \A i \in 1..Len(r.next) : m.next[i] = r.next[i]
    BY <1>4, <2>1, <2>3, AppendProperties DEF e
  <2>5. \A i \in 1..Len(m.next) : i \in 1..Len(r.next) \/ i = Len(r.next) + 1
    BY <1>4, <2>4
  <2>6. ASSUME NEW y \in Nodes
        PROVE  s.reach[y].weight <= m.reach[y].weight
    <3>1. s.reach[y].weight <= r.reach[y].weight
      BY DEF TakenBy, NoneFalls
    <3> QED
      BY <1>3, <1>4, <2>2, <3>1
  <2>7. ASSUME NEW y \in Nodes, m.reach[y].weight # s.reach[y].weight
        PROVE  /\ y # Anchor
               /\ \E p \in offers \cup {o} : p.to = y /\ p.weight = m.reach[y].weight
               /\ \E i \in 1..Len(m.next) : /\ m.next[i].node = y
                                            /\ m.next[i].weight = m.reach[y].weight
    <3>1. CASE y = step.to
      <4>1. Len(r.next) + 1 \in 1..Len(m.next)
        BY <1>4, <2>4
      <4> QED
        BY <1>3, <1>6, <2>2, <2>3, <2>4, <3>1, <4>1
    <3>2. CASE y # step.to
      <4>1. m.reach[y] = r.reach[y]
        BY <2>2, <3>2
      <4>2. \A i \in 1..Len(r.next) : i \in 1..Len(m.next) /\ m.next[i] = r.next[i]
        BY <1>4, <2>4
      <4>3. /\ y # Anchor
            /\ \E p \in offers : p.to = y /\ p.weight = r.reach[y].weight
            /\ \E i \in 1..Len(r.next) : /\ r.next[i].node = y
                                         /\ r.next[i].weight = r.reach[y].weight
        BY <2>7, <4>1 DEF TakenBy, RisesBy
      <4> QED
        BY <4>1, <4>2, <4>3
    <3> QED
      BY <3>1, <3>2
  <2>8. ASSUME NEW p \in offers \cup {o}, p.to # Anchor
        PROVE  p.weight <= m.reach[p.to].weight
    <3>1. CASE p = o
      BY <1>3, <2>2, <3>1
    <3>2. CASE p \in offers
      <4>1. p.to \in Nodes /\ p.weight \in Nat
        BY <3>2
      <4>2. p.weight <= r.reach[p.to].weight
        BY <2>8, <3>2 DEF TakenBy, Heeded
      <4>3. r.reach[p.to].weight <= m.reach[p.to].weight /\ m.reach[p.to].weight \in Nat
        BY <1>3, <1>4, <2>2, <4>1
      <4> QED
        BY <1>4, <4>1, <4>2, <4>3
    <3> QED
      BY <3>1, <3>2
  <2>9. ASSUME NEW i \in 1..Len(m.next)
        PROVE  m.next[i].node # Anchor /\ m.next[i].weight <= m.reach[m.next[i].node].weight
    <3>1. CASE i = Len(r.next) + 1
      BY <1>3, <1>6, <2>2, <2>3, <2>4, <3>1
    <3>2. CASE i \in 1..Len(r.next)
      <4> DEFINE y == r.next[i].node
      <4>1. y # Anchor /\ r.next[i].weight <= r.reach[y].weight /\ y \in Nodes
            /\ r.next[i].weight \in Nat
        BY <1>4, <3>2 DEF TakenBy, NextReached
      <4>2. r.reach[y].weight <= m.reach[y].weight /\ m.reach[y].weight \in Nat
        BY <1>3, <1>4, <2>2, <4>1
      <4>3. m.next[i] = r.next[i]
        BY <2>4, <3>2
      <4> QED
        BY <1>4, <4>1, <4>2, <4>3
    <3> QED
      BY <2>5, <3>1, <3>2
  <2> QED
    <3>1. NoneFalls(s, m)
      BY <2>6 DEF NoneFalls
    <3>2. RisesBy(s, m, offers \cup {o})
      BY <2>7 DEF RisesBy
    <3>3. Heeded(m, offers \cup {o})
      BY <2>8 DEF Heeded
    <3>4. NextReached(m)
      BY <2>9 DEF NextReached
    <3> QED
      BY <1>1, <1>2, <3>1, <3>2, <3>3, <3>4 DEF TakenBy
<1> QED
  BY <1>2, <1>5, <1>6 DEF TakeCases

LEMMA TakeStepsAlong ==
    ASSUME req \in Requests, NEW s \in Taking, NEW from \in Fronts
    PROVE  \E h : /\ h[0] = s /\ TakeSteps(s, from) = h[Len(StepsFrom(from.node))]
                  /\ \A k \in 0..Len(StepsFrom(from.node)) : h[k] \in Taking
                  /\ \A k \in 1..Len(StepsFrom(from.node)) :
                        h[k] = TakeStep(h[k - 1], from, StepsFrom(from.node)[k])
<1> DEFINE n == Len(StepsFrom(from.node))
           P == SUBSET (1..n)
           Op(k, r) == TakeStep(r, from, StepsFrom(from.node)[k])
           step == [k \in 1..n |-> [r \in Taking |-> Op(k, r)]]
           Next(g, I) == IF I = {} THEN s ELSE Op(Max(I), g[I \ {Max(I)}])
           fold == CHOOSE g : g = [I \in SUBSET DOMAIN StepsFrom(from.node) |-> Next(g, I)]
<1>1. /\ n \in Nat /\ DOMAIN StepsFrom(from.node) = 1..n /\ s \in Taking
      /\ \A k \in 1..n, r \in Taking : Op(k, r) \in Taking
  <2>1. from.node \in Nodes
    BY DEF Fronts
  <2>2. StepsFrom(from.node) \in Seq(Steps)
    BY <2>1, StepsOf
  <2>3. n \in Nat /\ DOMAIN StepsFrom(from.node) = 1..n
        /\ \A k \in 1..n : StepsFrom(from.node)[k] \in Steps
    BY <2>2, LenProperties, ElementOfSeq
  <2>4. \A k \in 1..n, r \in Taking : Op(k, r) \in Taking
    BY <2>3, TakeTyped
  <2> QED
    BY <2>3, <2>4
<1>2. TakeSteps(s, from) = fold[DOMAIN StepsFrom(from.node)]
  BY Zenon DEF TakeSteps, FoldLeft, MapThenFoldSet
<1> HIDE DEF fold
<1>3. step \in [1..n -> [Taking -> Taking]] /\ \A k \in 1..n, r \in Taking : step[k][r] = Op(k, r)
  BY <1>1
<1> HIDE DEF n, Op, step
<1>4. PICK g \in [P -> Taking] : FoldsBy(g, n, s, step)
  BY <1>1, <1>3, FoldsAlong
<1>5. \A I \in P : I # {} => Max(I) \in 1..n /\ I \ {Max(I)} \in P
  BY <1>1, GreatestOf
<1>6. \A I \in P : g[I] = Next(g, I)
  BY <1>3, <1>4, <1>5 DEF FoldsBy
<1>7. SUBSET DOMAIN StepsFrom(from.node) = P
  BY <1>1 DEF n
<1> HIDE DEF Next, P
<1>8. g = [I \in SUBSET DOMAIN StepsFrom(from.node) |-> Next(g, I)]
  <2>1. g = [I \in P |-> g[I]]
    BY <1>4
  <2> QED
    BY <1>6, <1>7, <2>1
<1>9. fold = [I \in SUBSET DOMAIN StepsFrom(from.node) |-> Next(fold, I)]
  BY <1>8, Zenon DEF fold
<1>10. \A I \in P : fold[I] = Next(fold, I)
  BY <1>7, <1>9
<1>11. fold[{}] = s
  BY <1>10 DEF Next, P
<1>12. \A I \in SUBSET (1..n) : I # {} /\ fold[I \ {Max(I)}] \in Taking =>
          fold[I] = step[Max(I)][fold[I \ {Max(I)}]]
  BY <1>3, <1>5, <1>10 DEF Next, P
<1>13. PICK h : ReadsFold(h, fold, n, Taking, s, step)
  <2>1. n \in Nat /\ s \in Taking /\ step \in [1..n -> [Taking -> Taking]]
    BY <1>1, <1>3
  <2>2. FoldsIn(fold, n, Taking, s, step)
    BY <1>11, <1>12 DEF FoldsIn
  <2> QED
    BY <2>1, <2>2, FoldReads
<1>14. \A k \in 1..n : h[k] = Op(k, h[k - 1])
  <2> TAKE k \in 1..n
  <2>1. k - 1 \in 0..n
    BY <1>1
  <2> QED
    BY <1>3, <1>13, <2>1 DEF ReadsFold
<1>15. TakeSteps(s, from) = h[n]
  BY <1>1, <1>2, <1>13 DEF n, ReadsFold
<1> QED
  BY <1>13, <1>14, <1>15 DEF n, Op, ReadsFold

Offers(from) == {Offering(from, step) : step \in StepsAt(from.node)}

LEMMA TakenSteps ==
    ASSUME req \in Requests, NEW s, NEW r, NEW offers \in SUBSET [to : Nodes, weight : Nat],
           TakenBy(s, r, offers), NEW from \in Fronts
    PROVE  TakenBy(s, TakeSteps(r, from), offers \cup Offers(from))
<1> DEFINE found == StepsFrom(from.node)
           n == Len(found)
           Ends(k) == offers \cup {Offering(from, found[i]) : i \in 1..k}
           G(h) == {k \in 0..n : TakenBy(s, h[k], Ends(k))}
<1>1. /\ from.node \in Nodes /\ r \in Taking
      /\ found \in Seq(Steps) /\ ToSet(found) = StepsAt(from.node)
  <2>1. from.node \in Nodes /\ r \in Taking
    BY DEF Fronts, TakenBy
  <2> QED
    BY <2>1, StepsOf
<1>2. /\ n \in Nat /\ DOMAIN found = 1..n /\ \A k \in 1..n : found[k] \in Steps
      /\ \A k \in 1..n : Offering(from, found[k]) \in [to : Nodes, weight : Nat]
  <2>1. n \in Nat /\ DOMAIN found = 1..n /\ \A k \in 1..n : found[k] \in Steps
    BY <1>1, LenProperties, ElementOfSeq
  <2> QED
    BY <1>1, <2>1, TakeTyped
<1>3. PICK h : /\ h[0] = r /\ TakeSteps(r, from) = h[n]
               /\ \A k \in 0..n : h[k] \in Taking
               /\ \A k \in 1..n : h[k] = TakeStep(h[k - 1], from, found[k])
  BY <1>1, TakeStepsAlong
<1> HIDE DEF found
<1>4. 0 \in G(h)
  <2>1. Ends(0) = offers
    OBVIOUS
  <2>2. 0 \in 0..n /\ h[0] = r
    BY <1>2, <1>3
  <2> HIDE DEF Ends, n
  <2> QED
    BY <2>1, <2>2
<1>5. ASSUME NEW k \in 1..n, k - 1 \in G(h) PROVE k \in G(h)
  <2>1. Ends(k) = Ends(k - 1) \cup {Offering(from, found[k])}
    <3>1. 1..k = 1..(k - 1) \cup {k}
      BY <1>2
    <3> QED
      BY <3>1
  <2>2. Ends(k - 1) \in SUBSET [to : Nodes, weight : Nat]
    <3>1. 1..k - 1 \subseteq 1..n
      BY <1>2
    <3> QED
      BY <1>2, <3>1
  <2>3. TakenBy(s, h[k - 1], Ends(k - 1))
    BY <1>5
  <2> HIDE DEF Ends
  <2>4. TakenBy(s, TakeStep(h[k - 1], from, found[k]), Ends(k - 1) \cup {Offering(from, found[k])})
    BY <1>2, <2>2, <2>3, TakenNext
  <2>5. h[k] = TakeStep(h[k - 1], from, found[k]) /\ k \in 0..n
    BY <1>2, <1>3
  <2> QED
    BY <2>1, <2>4, <2>5
<1> HIDE DEF G
<1>6. \A k \in 0..n : k \in G(h)
  BY <1>2, <1>4, <1>5, ReachesAll
<1>7. n \in G(h)
  BY <1>2, <1>6
<1>8. Ends(n) = offers \cup Offers(from)
  <2>1. StepsAt(from.node) = {found[i] : i \in 1..n}
    BY <1>1, <1>2 DEF ToSet
  <2> QED
    BY <2>1 DEF Offers
<1> QED
  BY <1>3, <1>7, <1>8 DEF G

LEMMA TakeAllAlong ==
    ASSUME req \in Requests, NEW s \in Taking, NEW nodes \in Seq(Fronts)
    PROVE  \E h : /\ h[0] = s /\ TakeAll(s, nodes) = h[Len(nodes)]
                  /\ \A k \in 0..Len(nodes) : h[k] \in Taking
                  /\ \A k \in 1..Len(nodes) : h[k] = TakeSteps(h[k - 1], nodes[k])
<1> DEFINE n == Len(nodes)
           P == SUBSET (1..n)
           Op(k, r) == TakeSteps(r, nodes[k])
           step == [k \in 1..n |-> [r \in Taking |-> Op(k, r)]]
           Next(g, I) == IF I = {} THEN s ELSE Op(Max(I), g[I \ {Max(I)}])
           fold == CHOOSE g : g = [I \in SUBSET DOMAIN nodes |-> Next(g, I)]
<1>1. /\ n \in Nat /\ DOMAIN nodes = 1..n /\ s \in Taking
      /\ \A k \in 1..n, r \in Taking : Op(k, r) \in Taking
  <2>1. n \in Nat /\ DOMAIN nodes = 1..n /\ \A k \in 1..n : nodes[k] \in Fronts
    BY LenProperties, ElementOfSeq
  <2>2. ASSUME NEW k \in 1..n, NEW r \in Taking PROVE Op(k, r) \in Taking
    <3>1. nodes[k] \in Fronts
      BY <2>1
    <3> DEFINE from == nodes[k]
    <3> HIDE DEF from
    <3>2. from \in Fronts
      BY <3>1 DEF from
    <3>3. PICK h : /\ TakeSteps(r, from) = h[Len(StepsFrom(from.node))]
                   /\ \A i \in 0..Len(StepsFrom(from.node)) : h[i] \in Taking
      BY <3>2, TakeStepsAlong
    <3>4. Len(StepsFrom(from.node)) \in Nat
      <4>1. from.node \in Nodes
        BY <3>2 DEF Fronts
      <4>2. StepsFrom(from.node) \in Seq(Steps)
        BY <4>1, StepsOf
      <4> QED
        BY <4>2, LenProperties
    <3> QED
      BY <3>3, <3>4 DEF from
  <2> QED
    BY <2>1, <2>2
<1>2. TakeAll(s, nodes) = fold[DOMAIN nodes]
  BY Zenon DEF TakeAll, FoldLeft, MapThenFoldSet
<1> HIDE DEF fold
<1>3. step \in [1..n -> [Taking -> Taking]] /\ \A k \in 1..n, r \in Taking : step[k][r] = Op(k, r)
  BY <1>1
<1> HIDE DEF n, Op, step
<1>4. PICK g \in [P -> Taking] : FoldsBy(g, n, s, step)
  BY <1>1, <1>3, FoldsAlong
<1>5. \A I \in P : I # {} => Max(I) \in 1..n /\ I \ {Max(I)} \in P
  BY <1>1, GreatestOf
<1>6. \A I \in P : g[I] = Next(g, I)
  BY <1>3, <1>4, <1>5 DEF FoldsBy
<1>7. SUBSET DOMAIN nodes = P
  BY <1>1 DEF n
<1> HIDE DEF Next, P
<1>8. g = [I \in SUBSET DOMAIN nodes |-> Next(g, I)]
  <2>1. g = [I \in P |-> g[I]]
    BY <1>4
  <2> QED
    BY <1>6, <1>7, <2>1
<1>9. fold = [I \in SUBSET DOMAIN nodes |-> Next(fold, I)]
  BY <1>8, Zenon DEF fold
<1>10. \A I \in P : fold[I] = Next(fold, I)
  BY <1>7, <1>9
<1>11. fold[{}] = s
  BY <1>10 DEF Next, P
<1>12. \A I \in SUBSET (1..n) : I # {} /\ fold[I \ {Max(I)}] \in Taking =>
          fold[I] = step[Max(I)][fold[I \ {Max(I)}]]
  BY <1>3, <1>5, <1>10 DEF Next, P
<1>13. PICK h : ReadsFold(h, fold, n, Taking, s, step)
  <2>1. n \in Nat /\ s \in Taking /\ step \in [1..n -> [Taking -> Taking]]
    BY <1>1, <1>3
  <2>2. FoldsIn(fold, n, Taking, s, step)
    BY <1>11, <1>12 DEF FoldsIn
  <2> QED
    BY <2>1, <2>2, FoldReads
<1>14. \A k \in 1..n : h[k] = Op(k, h[k - 1])
  <2> TAKE k \in 1..n
  <2>1. k - 1 \in 0..n
    BY <1>1
  <2> QED
    BY <1>3, <1>13, <2>1 DEF ReadsFold
<1>15. TakeAll(s, nodes) = h[n]
  BY <1>1, <1>2, <1>13 DEF n, ReadsFold
<1> QED
  BY <1>13, <1>14, <1>15 DEF n, Op, ReadsFold

LEMMA TakenAll ==
    ASSUME req \in Requests, NEW s \in Taking, s.next = <<>>, NEW nodes \in Seq(Fronts)
    PROVE  TakenBy(s, TakeAll(s, nodes), UNION {Offers(nodes[i]) : i \in 1..Len(nodes)})
<1> DEFINE n == Len(nodes)
           Ends(k) == UNION {Offers(nodes[i]) : i \in 1..k}
           G(h) == {k \in 0..n : TakenBy(s, h[k], Ends(k))}
<1>1. n \in Nat /\ \A k \in 1..n : nodes[k] \in Fronts
  BY LenProperties, ElementOfSeq
<1>2. \A k \in 1..n : Offers(nodes[k]) \in SUBSET [to : Nodes, weight : Nat]
  <2> SUFFICES ASSUME NEW from \in Fronts
               PROVE  Offers(from) \in SUBSET [to : Nodes, weight : Nat]
    BY <1>1
  <2>1. from.node \in Nodes
    BY DEF Fronts
  <2>2. StepsAt(from.node) \subseteq Steps
    BY <2>1, StepsShape
  <2>3. \A step \in Steps : Offering(from, step) \in [to : Nodes, weight : Nat]
    BY TakeTyped
  <2> QED
    BY <2>2, <2>3 DEF Offers
<1>3. PICK h : /\ h[0] = s /\ TakeAll(s, nodes) = h[n]
               /\ \A k \in 1..n : h[k] = TakeSteps(h[k - 1], nodes[k])
  BY TakeAllAlong
<1>4. 0 \in G(h)
  <2>1. Ends(0) = {}
    OBVIOUS
  <2>2. 0 \in 0..n /\ h[0] = s /\ TakenBy(s, s, {})
    BY <1>1, <1>3, TakenNone
  <2> HIDE DEF Ends, n
  <2> QED
    BY <2>1, <2>2
<1>5. ASSUME NEW k \in 1..n, k - 1 \in G(h) PROVE k \in G(h)
  <2>1. Ends(k) = Ends(k - 1) \cup Offers(nodes[k])
    <3>1. 1..k = 1..(k - 1) \cup {k}
      BY <1>1
    <3> QED
      BY <3>1
  <2>2. Ends(k - 1) \in SUBSET [to : Nodes, weight : Nat]
    <3>1. 1..k - 1 \subseteq 1..n
      BY <1>1
    <3> QED
      BY <1>2, <3>1
  <2>3. TakenBy(s, h[k - 1], Ends(k - 1))
    BY <1>5
  <2> HIDE DEF Ends
  <2>4. TakenBy(s, TakeSteps(h[k - 1], nodes[k]), Ends(k - 1) \cup Offers(nodes[k]))
    BY <1>1, <2>2, <2>3, TakenSteps
  <2>5. h[k] = TakeSteps(h[k - 1], nodes[k]) /\ k \in 0..n
    BY <1>1, <1>3
  <2> QED
    BY <2>1, <2>4, <2>5
<1> HIDE DEF G
<1>6. \A k \in 0..n : k \in G(h)
  BY <1>1, <1>4, <1>5, ReachesAll
<1>7. n \in G(h)
  BY <1>1, <1>6
<1> QED
  BY <1>3, <1>7 DEF G

\* The best products of paths of some length, from those of shorter ones.
Confs(a, b) == {e.conf : e \in {s \in Passed : {s.from, s.to} = {a, b}}}
Largest(S) == CHOOSE m \in S : \A j \in S : j <= m
Products(w, y) == {w[y]} \cup UNION {{Times(w[z], c) : c \in Confs(z, y)} : z \in Nodes}
NoSteps(a) == [y \in Nodes |-> IF y = a THEN Pow(req.hops) ELSE 0]
Better(a, w) == [y \in Nodes |-> IF y = a THEN Pow(req.hops) ELSE Largest(Products(w, y))]
Best(a) == CHOOSE best : best = [d \in 0..req.hops |->
               IF d = 0 THEN NoSteps(a) ELSE Better(a, best[d - 1])]

LEMMA LargestOf ==
    ASSUME NEW S \in SUBSET Nat, NEW m \in S, \A j \in S : j <= m
    PROVE  Largest(S) = m
<1>1. Largest(S) \in S /\ \A j \in S : j <= Largest(S)
  BY DEF Largest
<1>2. Largest(S) <= m /\ m <= Largest(S) /\ Largest(S) \in Nat /\ m \in Nat
  BY <1>1
<1> QED
  BY <1>2

LEMMA ConfsShape ==
    ASSUME req \in Requests, NEW z \in Nodes, NEW y \in Nodes
    PROVE  /\ Confs(z, y) \in SUBSET Nat
           /\ \A c \in Confs(z, y) : \E step \in StepsAt(z) : step.to = y /\ step.conf = c
           /\ \A step \in StepsAt(z) : step.to = y => step.conf \in Confs(z, y)
<1>1. \A e \in Passed : e.from \in Nodes /\ e.to \in Nodes /\ e.conf \in Nat
  BY PassedEdges
<1>2. Confs(z, y) \in SUBSET Nat
  BY <1>1 DEF Confs
<1>3. ASSUME NEW c \in Confs(z, y)
      PROVE  \E step \in StepsAt(z) : step.to = y /\ step.conf = c
  <2>1. PICK e \in Passed : {e.from, e.to} = {z, y} /\ e.conf = c
    BY DEF Confs
  <2>2. (e.from = z /\ e.to = y) \/ (e.from = y /\ e.to = z)
    <3>1. /\ e.from \in {z, y} /\ e.to \in {z, y}
          /\ z \in {e.from, e.to} /\ y \in {e.from, e.to}
      BY <2>1
    <3> QED
      BY <3>1
  <2>3. CASE e.from = z /\ e.to = y
    <3>1. [to |-> e.to, conf |-> e.conf, rel |-> "callee"] \in StepsAt(z)
      BY <2>3 DEF StepsAt
    <3> QED
      BY <2>1, <2>3, <3>1
  <2>4. CASE e.from = y /\ e.to = z
    <3>1. [to |-> e.from, conf |-> e.conf, rel |-> "caller"] \in StepsAt(z)
      BY <2>4 DEF StepsAt
    <3> QED
      BY <2>1, <2>4, <3>1
  <2> QED
    BY <2>2, <2>3, <2>4
<1>4. ASSUME NEW step \in StepsAt(z), step.to = y PROVE step.conf \in Confs(z, y)
  <2>1. PICK e \in Passed : /\ step.conf = e.conf
                            /\ \/ e.from = z /\ step.to = e.to
                               \/ e.to = z /\ step.to = e.from
    BY DEF StepsAt
  <2>2. {e.from, e.to} = {z, y}
    BY <1>4, <2>1
  <2> QED
    BY <2>1, <2>2 DEF Confs
<1> QED
  BY <1>2, <1>3, <1>4

LEMMA PowTyped == \A k : Pow(k) \in Nat
BY DEF Pow

LEMMA BetterTyped ==
    ASSUME req \in Requests, NEW a, NEW w \in [Nodes -> Nat]
    PROVE  /\ \A y \in Nodes : Products(w, y) \in SUBSET Nat
           /\ Better(a, w) \in [Nodes -> Nat]
<1>1. \A y, z \in Nodes : Confs(z, y) \in SUBSET Nat
  BY ConfsShape
<1>2. \A z \in Nodes, c \in Nat : Times(w[z], c) \in Nat
  <2> TAKE z \in Nodes, c \in Nat
  <2>1. w[z] \in Nat /\ w[z] <= w[z] /\ c <= c
    OBVIOUS
  <2> QED
    BY <2>1, TimesGrows
<1>3. \A y \in Nodes : Products(w, y) \in SUBSET Nat
  BY <1>1, <1>2 DEF Products
<1>4. PICK b \in Nat : \A z \in Nodes : w[z] <= b
  BY RequestShape, BoundedOn
<1>5. PICK d \in Nat : \A e \in Passed : e.conf <= d
  <2> DEFINE f == [e \in Passed |-> e.conf]
  <2>1. f \in [Passed -> Nat] /\ \A e \in Passed : f[e] = e.conf
    BY PassedEdges
  <2> HIDE DEF f
  <2>2. \E d \in Nat : \A e \in Passed : f[e] <= d
    BY <2>1, PassedEdges, BoundedOn
  <2> QED
    BY <2>1, <2>2
<1>6. ASSUME NEW y \in Nodes PROVE Largest(Products(w, y)) \in Nat
  <2>1. \A z \in Nodes : \A c \in Confs(z, y) : Times(w[z], c) <= Times(b, d)
    <3> TAKE z \in Nodes
    <3> TAKE c \in Confs(z, y)
    <3>1. c \in Nat /\ c <= d
      BY <1>1, <1>5 DEF Confs
    <3>2. w[z] \in Nat /\ w[z] <= b
      BY <1>4
    <3> QED
      BY <1>4, <1>5, <3>1, <3>2, TimesGrows
  <2>2. Times(b, d) \in Nat
    <3>1. b <= b /\ d <= d
      BY <1>4, <1>5
    <3> QED
      BY <3>1, TimesGrows
  <2> DEFINE n == w[y] + Times(b, d)
  <2>3. n \in Nat /\ w[y] \in Nat
    BY <2>2
  <2>4. ASSUME NEW j \in Products(w, y) PROVE j <= n
    <3>1. CASE j = w[y]
      BY <2>2, <3>1
    <3>2. CASE \E z \in Nodes : \E c \in Confs(z, y) : j = Times(w[z], c)
      <4>1. j <= Times(b, d) /\ j \in Nat
        BY <1>1, <1>2, <2>1, <3>2
      <4> QED
        BY <2>2, <4>1
    <3> QED
      BY <3>1, <3>2 DEF Products
  <2>5. Products(w, y) # {}
    BY DEF Products
  <2> HIDE DEF n
  <2>6. PICK m \in Products(w, y) : \A j \in Products(w, y) : j <= m
    BY <1>3, <2>3, <2>4, <2>5, GreatestBounded
  <2>7. Largest(Products(w, y)) = m
    BY <1>3, <2>6, LargestOf
  <2> QED
    BY <1>3, <2>6, <2>7
<1>7. Better(a, w) \in [Nodes -> Nat]
  BY <1>6, PowTyped DEF Better
<1> QED
  BY <1>3, <1>7

LEMMA BestAlong ==
    ASSUME req \in Requests, NEW a
    PROVE  /\ Best(a)[0] = NoSteps(a)
           /\ \A d \in 1..req.hops : Best(a)[d] = Better(a, Best(a)[d - 1])
           /\ \A d \in 0..req.hops : Best(a)[d] \in [Nodes -> Nat]
           /\ \A x : BestProduct(a, x) = Best(a)[req.hops][x]
<1> DEFINE n == req.hops
           V == [Nodes -> Nat]
           step == [d \in 1..n |-> [w \in V |-> Better(a, w)]]
           best == Best(a)
<1>1. n \in Nat /\ NoSteps(a) \in V /\ \A w \in V : Better(a, w) \in V
  BY RequestShape, PowTyped, BetterTyped DEF NoSteps
<1>2. ASSUME NEW x PROVE BestProduct(a, x) = best[n][x]
  BY Zenon DEF BestProduct, Best, Better, NoSteps, Products, Largest, Confs, Passed, Times
<1>3. step \in [1..n -> [V -> V]]
  BY <1>1
<1>4. \A d \in 1..n, w \in V : step[d][w] = Better(a, w)
  OBVIOUS
<1> HIDE DEF V, n, step
<1>5. PICK b \in [0..n -> V] : Recurses(b, n, NoSteps(a), step)
  BY <1>1, <1>3, RecursionAlong
<1>6. b[0] = NoSteps(a) /\ \A d \in 1..n : b[d] = Better(a, b[d - 1])
  <2>1. b[0] = NoSteps(a) /\ \A d \in 1..n : b[d] = step[d][b[d - 1]]
    BY <1>5 DEF Recurses
  <2>2. \A d \in 1..n : b[d - 1] \in V
    BY <1>1
  <2> QED
    BY <1>4, <2>1, <2>2
<1>7. b = [d \in 0..n |-> IF d = 0 THEN NoSteps(a) ELSE Better(a, b[d - 1])]
  <2>1. b = [d \in 0..n |-> b[d]]
    OBVIOUS
  <2>2. \A d \in 0..n : b[d] = IF d = 0 THEN NoSteps(a) ELSE Better(a, b[d - 1])
    <3> TAKE d \in 0..n
    <3>1. CASE d = 0
      BY <1>6, <3>1
    <3>2. CASE d # 0
      <4>1. d \in 1..n
        BY <1>1, <3>2
      <4> QED
        BY <1>6, <3>2, <4>1
    <3> QED
      BY <3>1, <3>2
  <2> QED
    BY <2>1, <2>2
<1>8. best = [d \in 0..n |-> IF d = 0 THEN NoSteps(a) ELSE Better(a, best[d - 1])]
  BY <1>7, Zenon DEF Best, n
<1> HIDE DEF best
<1>9. best[0] = NoSteps(a)
  <2>1. 0 \in 0..n
    BY <1>1
  <2> QED
    BY <1>8, <2>1
<1>10. \A d \in 1..n : best[d] = Better(a, best[d - 1])
  <2> TAKE d \in 1..n
  <2>1. d \in 0..n /\ d # 0
    BY <1>1
  <2> QED
    BY <1>8, <2>1
<1>11. \A d \in 0..n : best[d] \in V
  <2> DEFINE R == {d \in 0..n : best[d] \in V}
  <2>1. 0 \in R
    BY <1>1, <1>9
  <2>2. \A d \in 1..n : d - 1 \in R => d \in R
    BY <1>1, <1>10
  <2> HIDE DEF R
  <2>3. \A d \in 0..n : d \in R
    BY <1>1, <2>1, <2>2, ReachesAll
  <2> QED
    BY <2>3 DEF R
<1> QED
  BY <1>2, <1>9, <1>10, <1>11 DEF n, V, best

\* Halfway through an expansion from a: what r reaches is the best of h - 1 steps,
\* the frontier f has nothing better, and a node is in it with its weight or has
\* offered all it can.
Weight(a, r, x) == IF x = a THEN Pow(req.hops) ELSE r[x].weight
HasOffered(a, r, z) ==
    \A y \in Nodes \ {a} : \A c \in Confs(z, y) : Times(Weight(a, r, z), c) <= r[y].weight
HopFrom(a, r, f, h) ==
    /\ r \in [Nodes -> Reached] /\ f \in Seq(Fronts)
    /\ \A x \in Nodes : Weight(a, r, x) = Best(a)[h - 1][x]
    /\ \A i \in 1..Len(f) : f[i].weight <= Weight(a, r, f[i].node)
    /\ \A z \in Nodes : \/ \E i \in 1..Len(f) : f[i].node = z /\ f[i].weight = Weight(a, r, z)
                        \/ HasOffered(a, r, z)

LEMMA HopTakes ==
    ASSUME req \in Requests, Anchor \in Nodes, NEW r, NEW f, NEW h \in 1..req.hops,
           HopFrom(Anchor, r, f, h), NEW end,
           TakenBy([reach |-> r, next |-> <<>>], end, UNION {Offers(f[i]) : i \in 1..Len(f)})
    PROVE  HopFrom(Anchor, end.reach, end.next, h + 1)
<1> DEFINE a == Anchor
           offers == UNION {Offers(f[i]) : i \in 1..Len(f)}
           e == end.reach
           w == Best(a)[h - 1]
<1>1. /\ r \in [Nodes -> Reached] /\ e \in [Nodes -> Reached] /\ end.next \in Seq(Fronts)
      /\ \A y \in Nodes : r[y].weight \in Nat /\ e[y].weight \in Nat /\ r[y].weight <= e[y].weight
      /\ \A y \in Nodes : e[y].weight # r[y].weight =>
             /\ y # a /\ \E o \in offers : o.to = y /\ o.weight = e[y].weight
             /\ \E i \in 1..Len(end.next) : /\ end.next[i].node = y
                                            /\ end.next[i].weight = e[y].weight
      /\ \A o \in offers : o.to # a => o.weight <= e[o.to].weight
      /\ \A i \in 1..Len(end.next) : /\ end.next[i].node # a
                                     /\ end.next[i].weight <= e[end.next[i].node].weight
  BY DEF TakenBy, Taking, Reached, NoneFalls, RisesBy, Heeded, NextReached
<1>2. /\ f \in Seq(Fronts)
      /\ \A i \in 1..Len(f) : f[i].node \in Nodes /\ f[i].weight \in Nat
      /\ \A i \in 1..Len(f) : f[i].weight <= Weight(a, r, f[i].node)
      /\ \A x \in Nodes : Weight(a, r, x) = w[x]
  <2>1. f \in Seq(Fronts)
    BY DEF HopFrom
  <2>2. \A i \in 1..Len(f) : f[i] \in Fronts
    BY <2>1, ElementOfSeq
  <2> QED
    BY <2>1, <2>2 DEF HopFrom, Fronts
<1>3. /\ req.hops \in Nat /\ h \in Nat /\ h - 1 \in 0..req.hops /\ h \in 0..req.hops
      /\ (h + 1) - 1 = h
  BY RequestShape
<1>4. w \in [Nodes -> Nat] /\ Best(a)[h] = Better(a, w)
  BY <1>3, BestAlong
<1> HIDE DEF a, offers, e, w
<1>5. \A o : o \in offers <=> \E i \in 1..Len(f) : \E step \in StepsAt(f[i].node) :
                 o = [to |-> step.to, weight |-> Times(f[i].weight, step.conf)]
  BY DEF offers, Offers, Offering
<1>6. \A z \in Nodes : Weight(a, e, z) = w[z] \/ (z # a /\ e[z].weight # r[z].weight)
  BY <1>2 DEF Weight
<1>7. ASSUME NEW z \in Nodes, NEW y \in Nodes \ {a}, NEW c \in Confs(z, y)
      PROVE  Times(w[z], c) <= e[y].weight /\ c \in Nat /\ Times(w[z], c) \in Nat
  <2>1. c \in Nat /\ \E step \in StepsAt(z) : step.to = y /\ step.conf = c
    BY ConfsShape
  <2>2. Times(w[z], c) \in Nat
    <3>1. w[z] \in Nat /\ w[z] <= w[z] /\ c <= c
      BY <1>4, <2>1
    <3> QED
      BY <2>1, <3>1, TimesGrows
  <2>3. CASE \E i \in 1..Len(f) : f[i].node = z /\ f[i].weight = Weight(a, r, z)
    <3>1. PICK i \in 1..Len(f) : f[i].node = z /\ f[i].weight = w[z]
      BY <1>2, <2>3
    <3>2. PICK step \in StepsAt(z) : step.to = y /\ step.conf = c
      BY <2>1
    <3> DEFINE o == [to |-> y, weight |-> Times(w[z], c)]
    <3>3. o \in offers
      BY <1>5, <3>1, <3>2
    <3> QED
      BY <1>1, <2>1, <2>2, <3>3
  <2>4. CASE HasOffered(a, r, z)
    <3>1. Times(w[z], c) <= r[y].weight
      BY <1>2, <2>4 DEF HasOffered
    <3> QED
      BY <1>1, <2>1, <2>2, <3>1
  <2> QED
    BY <2>3, <2>4 DEF HopFrom, a
<1>8. ASSUME NEW y \in Nodes, y # a PROVE e[y].weight = Largest(Products(w, y))
  <2>1. \A j \in Products(w, y) : j <= e[y].weight
    <3>1. w[y] <= e[y].weight
      BY <1>1, <1>2, <1>8 DEF Weight
    <3> QED
      BY <1>7, <1>8, <3>1 DEF Products
  <2>2. e[y].weight \in Products(w, y)
    <3>1. CASE e[y].weight = r[y].weight
      <4>1. e[y].weight = w[y]
        BY <1>2, <1>8, <3>1 DEF Weight
      <4> QED
        BY <4>1 DEF Products
    <3>2. CASE e[y].weight # r[y].weight
      <4>1. PICK o \in offers : o.to = y /\ o.weight = e[y].weight
        BY <1>1, <3>2
      <4>2. PICK i \in 1..Len(f) : \E step \in StepsAt(f[i].node) :
                o = [to |-> step.to, weight |-> Times(f[i].weight, step.conf)]
        BY <1>5, <4>1
      <4> DEFINE z == f[i].node
      <4>3. z \in Nodes /\ f[i].weight \in Nat /\ f[i].weight <= w[z] /\ w[z] \in Nat
        BY <1>2, <1>4
      <4>4. PICK step \in StepsAt(z) :
                o = [to |-> step.to, weight |-> Times(f[i].weight, step.conf)]
        BY <4>2
      <4> DEFINE c == step.conf
      <4>5. c \in Confs(z, y) /\ e[y].weight = Times(f[i].weight, c)
        BY <4>1, <4>3, <4>4, ConfsShape
      <4> HIDE DEF c, z
      <4>6. c \in Nat /\ Times(w[z], c) \in Nat /\ Times(w[z], c) <= e[y].weight
        BY <1>7, <1>8, <4>3, <4>5
      <4>7. Times(f[i].weight, c) <= Times(w[z], c) /\ Times(f[i].weight, c) \in Nat
        <5>1. c <= c
          BY <4>6
        <5> QED
          BY <4>3, <4>6, <5>1, TimesGrows
      <4>8. e[y].weight = Times(w[z], c)
        BY <4>5, <4>6, <4>7
      <4> QED
        BY <4>3, <4>5, <4>8 DEF Products
    <3> QED
      BY <3>1, <3>2
  <2>3. Products(w, y) \in SUBSET Nat
    BY <1>4, BetterTyped
  <2> QED
    BY <2>1, <2>2, <2>3, LargestOf
<1>9. ASSUME NEW x \in Nodes PROVE Weight(a, e, x) = Best(a)[h][x]
  BY <1>4, <1>8 DEF Weight, Better
<1>10. ASSUME NEW i \in 1..Len(end.next)
       PROVE  end.next[i].weight <= Weight(a, e, end.next[i].node)
  BY <1>1 DEF Weight
<1>11. ASSUME NEW z \in Nodes
       PROVE  \/ \E i \in 1..Len(end.next) : /\ end.next[i].node = z
                                             /\ end.next[i].weight = Weight(a, e, z)
              \/ HasOffered(a, e, z)
  <2>1. CASE Weight(a, e, z) = w[z]
    BY <1>7, <2>1 DEF HasOffered
  <2>2. CASE z # a /\ e[z].weight # r[z].weight
    BY <1>1, <2>2 DEF Weight
  <2> QED
    BY <1>6, <2>1, <2>2
<1> QED
  BY <1>1, <1>3, <1>9, <1>10, <1>11 DEF HopFrom, a, e

LEMMA SameOffers ==
    ASSUME req' = req
    PROVE  /\ \A a : Best(a)' = Best(a)
           /\ \A z, y : Confs(z, y)' = Confs(z, y)
<1>1. ASSUME NEW z, NEW y PROVE Confs(z, y)' = Confs(z, y)
  BY SMT DEF Confs, Passed, Traversable
<1>2. ASSUME NEW a PROVE Best(a)' = Best(a)
  BY SMT DEF Best, NoSteps, Better, Products, Largest, Confs, Passed, Traversable
<1> QED
  BY <1>1, <1>2

HopInv ==
    /\ req \in Requests /\ stage \in {"search", "anchor", "hop"}
    /\ rank \in Nat \ {0} /\ hop \in 1..req.hops + 1
    /\ reach \in [Nodes -> Reached] /\ neighbours \in [Nodes -> [score : Nat, rank : Nat]]
    /\ stage = "hop" =>
          rank \in 1..Len(req.anchors) /\ HopFrom(Anchor, reach, frontier, hop)

LEMMA HopStays ==
    ASSUME req \in Requests, req' = req, NEW a \in Nodes, Anchor' = a,
           HopFrom(a, reach', frontier', hop')
    PROVE  HopFrom(Anchor, reach, frontier, hop)'
<1>1. /\ Best(a)' = Best(a)
      /\ \A z, y : Confs(z, y)' = Confs(z, y)
  BY SameOffers
<1>2. \A r, x : Weight(a, r, x)' = Weight(a, r, x)
  BY DEF Weight
<1>3. \A r, z : HasOffered(a, r, z)' = HasOffered(a, r, z)
  BY <1>1, <1>2 DEF HasOffered
<1>4. \A r, f, h : HopFrom(a, r, f, h)' = HopFrom(a, r, f, h)
  BY <1>1, <1>2, <1>3 DEF HopFrom
<1> QED
  BY <1>4

LEMMA HopStarts == WalkInit => HopInv
<1> SUFFICES ASSUME WalkInit PROVE HopInv
  OBVIOUS
<1>1. req \in Requests /\ req.hops \in Nat
  BY RequestShape DEF WalkInit
<1> QED
  BY <1>1 DEF WalkInit, HopInv, Empty, Unreached, NoOffer, Reached, Rels

LEMMA HopKeeps == HopInv /\ [WalkNext]_walkVars => HopInv'
<1> SUFFICES ASSUME HopInv, [WalkNext]_walkVars PROVE HopInv'
  OBVIOUS
<1>1. /\ req \in Requests /\ req.hops \in Nat /\ req.anchors \in Seq(Nodes)
      /\ req.factor \in [Nodes -> Nat] /\ Len(req.anchors) \in Nat
      /\ \A i \in 1..Len(req.anchors) : req.anchors[i] \in Nodes
  <2>1. /\ req \in Requests /\ req.hops \in Nat /\ req.anchors \in Seq(Nodes)
        /\ req.factor \in [Nodes -> Nat]
    BY RequestShape DEF HopInv
  <2> QED
    BY <2>1, LenProperties, ElementOfSeq
<1>2. CASE Visit
  BY <1>2 DEF Visit, HopInv, expandVars
<1>3. CASE SearchEnds
  BY <1>3 DEF SearchEnds, HopInv, expandVars
<1>4. CASE BeginAnchor
  <2> DEFINE a == Anchor
             f == <<[node |-> a, weight |-> Pow(req.hops), rel |-> "none"]>>
  <2>1. /\ req' = req /\ rank' = rank /\ frontier' = f /\ reach' = Empty /\ hop' = 1
        /\ stage' = "hop" /\ neighbours' = neighbours
        /\ rank \in 1..Len(req.anchors) /\ a \in Nodes
    BY <1>1, <1>4 DEF BeginAnchor, HopInv, Anchor
  <2>2. Anchor' = a
    BY <2>1 DEF Anchor
  <2>3. Empty \in [Nodes -> Reached] /\ \A y \in Nodes : Empty[y].weight = 0
    BY DEF Empty, Unreached, Reached, Rels
  <2> HIDE DEF a
  <2>4. /\ f \in Seq(Fronts) /\ Len(f) = 1
        /\ f[1].node = a /\ f[1].weight = Pow(req.hops)
    <3>1. [node |-> a, weight |-> Pow(req.hops), rel |-> "none"] \in Fronts
      BY <2>1, PowTyped DEF Fronts, Rels
    <3> QED
      BY <3>1
  <2> HIDE DEF f
  <2>5. \A x \in Nodes : Weight(a, Empty, x) = Best(a)[1 - 1][x]
    <3>1. Best(a)[0] = NoSteps(a) /\ 1 - 1 = 0
      BY <1>1, BestAlong
    <3> QED
      BY <2>3, <3>1 DEF Weight, NoSteps
  <2>6. \A i \in 1..Len(f) : f[i].weight <= Weight(a, Empty, f[i].node)
    <3>1. \A i \in 1..Len(f) : i = 1
      BY <2>4
    <3>2. f[1].weight <= Weight(a, Empty, f[1].node)
      BY <2>4, PowTyped DEF Weight
    <3> QED
      BY <3>1, <3>2
  <2>7. ASSUME NEW z \in Nodes
        PROVE  \/ \E i \in 1..Len(f) : f[i].node = z /\ f[i].weight = Weight(a, Empty, z)
               \/ HasOffered(a, Empty, z)
    <3>1. CASE z = a
      <4>1. 1 \in 1..Len(f)
        BY <2>4
      <4> QED
        BY <2>4, <3>1, <4>1 DEF Weight
    <3>2. CASE z # a
      <4>1. \A c \in Nat : Times(0, c) = 0
        BY DEF Times
      <4>2. \A y \in Nodes : Confs(z, y) \in SUBSET Nat
        BY <1>1, ConfsShape
      <4> QED
        BY <2>3, <3>2, <4>1, <4>2 DEF HasOffered, Weight
    <3> QED
      BY <3>1, <3>2
  <2>8. HopFrom(a, Empty, f, 1)
    BY <2>3, <2>4, <2>5, <2>6, <2>7 DEF HopFrom
  <2>9. HopFrom(Anchor, reach, frontier, hop)'
    BY <1>1, <2>1, <2>2, <2>8, HopStays
  <2>10. 1 \in 1..req.hops + 1
    BY <1>1
  <2>11. reach' \in [Nodes -> Reached] /\ hop' \in 1..req.hops + 1
    BY <2>1, <2>3, <2>10
  <2> QED
    BY <1>1, <2>1, <2>9, <2>11 DEF HopInv
<1>5. CASE Hop
  <2> DEFINE a == Anchor
             start == [reach |-> reach, next |-> <<>>]
             end == TakeAll(start, frontier)
  <2>1. /\ req' = req /\ rank' = rank /\ frontier' = end.next /\ reach' = end.reach
        /\ hop' = hop + 1 /\ stage = "hop" /\ stage' = "hop" /\ neighbours' = neighbours
        /\ rank \in 1..Len(req.anchors) /\ hop \in 1..req.hops /\ a \in Nodes
        /\ HopFrom(a, reach, frontier, hop)
    BY <1>1, <1>5 DEF Hop, HopInv, Anchor
  <2>2. Anchor' = a
    BY <2>1 DEF Anchor
  <2>3. start \in Taking /\ start.next = <<>> /\ frontier \in Seq(Fronts)
    BY <2>1 DEF Taking, HopFrom
  <2>4. TakenBy(start, end, UNION {Offers(frontier[i]) : i \in 1..Len(frontier)})
    <3> HIDE DEF start
    <3> QED
      BY <1>1, <2>3, TakenAll
  <2> HIDE DEF end
  <2>5. HopFrom(a, end.reach, end.next, hop + 1)
    BY <1>1, <2>1, <2>4, HopTakes
  <2> HIDE DEF a
  <2>6. HopFrom(Anchor, reach, frontier, hop)'
    BY <1>1, <2>1, <2>2, <2>5, HopStays
  <2>7. end.reach \in [Nodes -> Reached]
    BY <2>5 DEF HopFrom
  <2>8. hop + 1 \in 1..req.hops + 1
    BY <1>1, <2>1
  <2>9. /\ req' \in Requests /\ stage' \in {"search", "anchor", "hop"}
        /\ rank' \in Nat \ {0} /\ neighbours' \in [Nodes -> [score : Nat, rank : Nat]]
    BY <1>1, <2>1 DEF HopInv
  <2>10. reach' \in [Nodes -> Reached] /\ hop' \in 1..req'.hops + 1
         /\ rank' \in 1..Len(req'.anchors)
    BY <2>1, <2>7, <2>8
  <2> QED
    BY <2>6, <2>9, <2>10 DEF HopInv
<1>6. CASE EndAnchor
  <2>1. \A x \in Nodes : Score(x) \in Nat
    BY <1>1 DEF HopInv, Score, Reached
  <2>2. neighbours' \in [Nodes -> [score : Nat, rank : Nat]]
    BY <1>6, <2>1 DEF EndAnchor, HopInv
  <2> QED
    BY <1>1, <1>6, <2>2 DEF EndAnchor, HopInv
<1>7. CASE AskAgain
  BY <1>1, <1>7 DEF AskAgain, HopInv, Empty, Unreached, NoOffer, Reached, Rels
<1>8. CASE UNCHANGED walkVars
  <2>1. /\ req' = req /\ rank' = rank /\ hop' = hop /\ reach' = reach /\ frontier' = frontier
        /\ stage' = stage /\ neighbours' = neighbours
    BY <1>8 DEF walkVars, expandVars
  <2>2. ASSUME stage = "hop" PROVE HopFrom(Anchor, reach, frontier, hop)'
    <3>1. /\ rank \in 1..Len(req.anchors) /\ HopFrom(Anchor, reach, frontier, hop)
          /\ Anchor \in Nodes /\ Anchor' = Anchor
      BY <1>1, <2>1, <2>2 DEF HopInv, Anchor
    <3> QED
      BY <1>1, <2>1, <3>1, HopStays
  <2> QED
    BY <2>1, <2>2 DEF HopInv
<1> QED
  BY <1>2, <1>3, <1>4, <1>5, <1>6, <1>7, <1>8 DEF WalkNext

LEMMA ReachAnswers == HopInv => ReachIsBest
<1> SUFFICES ASSUME HopInv, stage = "hop", hop > req.hops, NEW x \in Nodes \ {Anchor}
             PROVE  reach[x].weight = BestProduct(Anchor, x)
  BY DEF ReachIsBest
<1>1. req \in Requests /\ hop - 1 = req.hops /\ HopFrom(Anchor, reach, frontier, hop)
  <2>1. req \in Requests /\ hop \in 1..req.hops + 1 /\ HopFrom(Anchor, reach, frontier, hop)
    BY DEF HopInv
  <2>2. req.hops \in Nat
    BY <2>1, RequestShape
  <2> QED
    BY <2>1, <2>2
<1>2. Weight(Anchor, reach, x) = Best(Anchor)[req.hops][x]
  BY <1>1 DEF HopFrom
<1> QED
  BY <1>1, <1>2, BestAlong DEF Weight

LEMMA SearchTypes == SearchInv /\ HopInv => WalkTypeOK
<1> SUFFICES ASSUME SearchInv, HopInv PROVE WalkTypeOK
  OBVIOUS
<1>1. edges \subseteq ToSet(req.graph)
  <2> SUFFICES ASSUME NEW e \in edges PROVE e \in ToSet(req.graph)
    OBVIOUS
  <2>1. req \in Requests /\ req.depth \in Nat /\ req.depth > 0
        /\ \E x \in Ball(req.depth - 1) : e \in ToSet(Incident(x))
    BY RequestShape DEF SearchInv, SearchFrom, SearchSound
  <2>2. req.depth - 1 \in Nat
    BY <2>1
  <2>3. Ball(req.depth - 1) \in SUBSET Nodes
    BY <2>1, <2>2, BallGrows
  <2> QED
    BY <2>1, <2>3, IncidentEdges
<1>2. /\ stage \in {"search", "anchor", "hop"} /\ visited \subseteq Nodes
      /\ limited \in BOOLEAN /\ hop \in 1..req.hops + 1
  BY DEF SearchInv, SearchFrom, HopInv
<1>3. \A x \in Nodes : reach[x].weight \in Nat /\ neighbours[x].score \in Nat
  BY DEF HopInv, Reached
<1> QED
  BY <1>1, <1>2, <1>3 DEF WalkTypeOK

LEMMA WalkAlways == WalkSpec => [](SearchInv /\ HopInv)
<1>1. WalkInit => SearchInv /\ HopInv
  BY SearchBegins, HopStarts DEF WalkInit, SearchStarts
<1> QED
  BY <1>1, SearchKeeps, HopKeeps, PTL DEF WalkSpec

\* Both walks keep their state in its types.
THEOREM WalkTyped == WalkSpec => []WalkTypeOK
BY WalkAlways, SearchTypes, PTL

\* The search finds the neighbourhood of its root within its limit, or says that
\* it could not, and the expansion the best path to each symbol (RepoGraph.traverse
\* and expand_anchors).
THEOREM WalksAlwaysExact == WalkSpec => []WalksExact
<1>1. SearchInv => TraversalExact
  BY SearchAnswers DEF TraversalExact
<1>2. SearchInv /\ HopInv => WalksExact
  BY <1>1, ReachAnswers DEF WalksExact
<1> QED
  BY <1>2, WalkAlways, PTL

=============================================================================
