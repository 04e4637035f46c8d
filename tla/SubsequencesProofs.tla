------------------------- MODULE SubsequencesProofs -------------------------
(***************************************************************************)
(* Picked keeps exactly the items at the positions given, in their order,  *)
(* and each member of a finite set has a rank of its own in a strict order. *)
(***************************************************************************)
EXTENDS Subsequences, FiniteSetTheorems, SequenceTheorems,
        WellFoundedInduction, TLAPS

\* A set of numbers has a least one.
LEMMA LeastOf ==
    ASSUME NEW S \in SUBSET Nat, S # {}
    PROVE  \E m \in S : \A n \in S : m <= n
<1>1. PICK m \in S : \A n \in S : ~ (<<n, m>> \in OpToRel(<, Nat))
  BY WFMin, NatLessThanWellFounded
<1>2. m \in S /\ \A n \in S : ~ (n < m)
  BY <1>1 DEF OpToRel
<1> QED
  BY <1>2

LEMMA PositionsFinite ==
    ASSUME NEW n \in Nat, NEW I \in SUBSET (1..n)
    PROVE  /\ IsFiniteSet(I) /\ Cardinality(I) \in Nat
           /\ \A j \in Nat : IsFiniteSet(I \cap 1..j) /\ Rank(I, j) \in Nat
                             /\ Rank(I, j) <= Cardinality(I)
<1>1. IsFiniteSet(1..n)
  BY FS_Interval
<1>2. IsFiniteSet(I)
  BY <1>1, FS_Subset
<1>3. \A j \in Nat : I \cap 1..j \in SUBSET I
  OBVIOUS
<1>4. \A j \in Nat : IsFiniteSet(I \cap 1..j)
                     /\ Cardinality(I \cap 1..j) <= Cardinality(I)
  BY <1>2, <1>3, FS_Subset
<1> QED
  BY <1>2, <1>4, FS_CardinalityType DEF Rank

LEMMA RankStep ==
    ASSUME NEW n \in Nat, NEW I \in SUBSET (1..n), NEW j \in Nat
    PROVE  Rank(I, j + 1) = IF j + 1 \in I THEN Rank(I, j) + 1 ELSE Rank(I, j)
<1>1. IsFiniteSet(I \cap 1..j)
  BY PositionsFinite
<1>2. CASE j + 1 \in I
  <2>1. I \cap 1..(j + 1) = (I \cap 1..j) \cup {j + 1}
    BY <1>2
  <2>2. j + 1 \notin I \cap 1..j
    OBVIOUS
  <2>3. Cardinality((I \cap 1..j) \cup {j + 1}) = Cardinality(I \cap 1..j) + 1
    BY <1>1, <2>2, FS_AddElement, Zenon
  <2> QED
    BY <1>2, <2>1, <2>3 DEF Rank
<1>3. CASE j + 1 \notin I
  <2>1. I \cap 1..(j + 1) = I \cap 1..j
    BY <1>3
  <2> QED
    BY <1>3, <2>1 DEF Rank
<1> QED
  BY <1>2, <1>3

\* Ranks grow with the positions.
LEMMA RankGrows ==
    ASSUME NEW n \in Nat, NEW I \in SUBSET (1..n), NEW j \in Nat, NEW k \in I, j < k
    PROVE  Rank(I, j) < Rank(I, k)
<1>1. k \in Nat /\ k - 1 \in Nat /\ (k - 1) + 1 = k
  OBVIOUS
<1>2. Rank(I, k) = Rank(I, k - 1) + 1
  <2> DEFINE p == k - 1
  <2>1. p \in Nat /\ p + 1 = k
    BY <1>1
  <2> HIDE DEF p
  <2>2. Rank(I, p + 1) = IF p + 1 \in I THEN Rank(I, p) + 1 ELSE Rank(I, p)
    BY <2>1, RankStep
  <2>3. Rank(I, k) = Rank(I, p) + 1
    BY <2>1, <2>2
  <2> QED
    BY <2>3 DEF p
<1>3. Rank(I, j) <= Rank(I, k - 1)
  <2>1. IsFiniteSet(I \cap 1..(k - 1))
    BY <1>1, PositionsFinite
  <2>2. I \cap 1..j \in SUBSET (I \cap 1..(k - 1))
    BY <1>1
  <2> QED
    BY <2>1, <2>2, FS_Subset DEF Rank
<1>4. Rank(I, j) \in Nat /\ Rank(I, k - 1) \in Nat
  BY <1>1, PositionsFinite
<1> QED
  BY <1>2, <1>3, <1>4

LEMMA RankOf ==
    ASSUME NEW n \in Nat, NEW I \in SUBSET (1..n), NEW j \in I
    PROVE  Rank(I, j) \in 1..Cardinality(I)
<1>1. 0 \in Nat /\ 0 < j /\ j \in Nat
  OBVIOUS
<1>2. Rank(I, 0) < Rank(I, j)
  BY <1>1, RankGrows
<1>3. /\ Rank(I, 0) \in Nat /\ Rank(I, j) \in Nat
      /\ Rank(I, j) <= Cardinality(I) /\ Cardinality(I) \in Nat
  BY <1>1, PositionsFinite
<1> QED
  BY <1>2, <1>3

\* Every rank is that of one position: the least with so many below it.
LEMMA RankTaken ==
    ASSUME NEW n \in Nat, NEW I \in SUBSET (1..n), NEW i \in 1..Cardinality(I)
    PROVE  \E j \in I : Rank(I, j) = i
<1> DEFINE Enough == {j \in Nat : Rank(I, j) >= i}
<1>1. Rank(I, n) = Cardinality(I)
  <2>1. I \cap 1..n = I
    OBVIOUS
  <2> QED
    BY <2>1 DEF Rank
<1>2. Enough \in SUBSET Nat /\ Enough # {}
  <2>1. n \in Enough
    BY <1>1, PositionsFinite
  <2> QED
    BY <2>1
<1>3. PICK m \in Enough : \A k \in Enough : m <= k
  <2> HIDE DEF Enough
  <2> QED
    BY <1>2, LeastOf
<1>4. m \in Nat /\ Rank(I, m) >= i
  BY <1>3
<1>5. m # 0
  <2>1. Rank(I, 0) = 0
    <3>1. I \cap 1..0 = {}
      OBVIOUS
    <3> QED
      BY <3>1, FS_EmptySet DEF Rank
  <2> QED
    BY <1>4, <2>1, PositionsFinite
<1>6. /\ m - 1 \in Nat /\ (m - 1) + 1 = m
      /\ Rank(I, m - 1) \in Nat /\ Rank(I, m) \in Nat
  <2>1. m - 1 \in Nat /\ (m - 1) + 1 = m
    BY <1>4, <1>5
  <2>2. \A j \in Nat : Rank(I, j) \in Nat
    BY PositionsFinite
  <2> QED
    BY <1>4, <2>1, <2>2
<1>7. Rank(I, m - 1) < i
  <2>1. m - 1 \notin Enough
    BY <1>3, <1>6
  <2> QED
    BY <1>6, <2>1
<1>8. Rank(I, m) = IF m \in I THEN Rank(I, m - 1) + 1 ELSE Rank(I, m - 1)
  <2>1. Rank(I, (m - 1) + 1) = IF (m - 1) + 1 \in I THEN Rank(I, m - 1) + 1
                                                    ELSE Rank(I, m - 1)
    BY <1>6, RankStep, Zenon
  <2> QED
    BY <1>6, <2>1
<1> QED
  BY <1>4, <1>6, <1>7, <1>8

\* What is picked, each item at its rank and nothing else.
LEMMA PickedItems ==
    ASSUME NEW S, NEW s \in Seq(S), NEW I \in SUBSET (1..Len(s))
    PROVE  /\ Picked(s, I) \in Seq(S) /\ Len(Picked(s, I)) = Cardinality(I)
           /\ \A i \in 1..Cardinality(I) :
                 \E j \in I : Rank(I, j) = i /\ Picked(s, I)[i] = s[j]
           /\ \A j \in I : /\ Rank(I, j) \in 1..Cardinality(I)
                           /\ Picked(s, I)[Rank(I, j)] = s[j]
<1> DEFINE N == Cardinality(I)
           At(i) == CHOOSE j \in I : Rank(I, j) = i
<1>0. Len(s) \in Nat /\ N \in Nat
  <2>1. Len(s) \in Nat
    BY LenProperties
  <2> QED
    BY <2>1, PositionsFinite
<1>1. \A i \in 1..N : At(i) \in I /\ Rank(I, At(i)) = i
  BY <1>0, RankTaken
<1>2. Picked(s, I) = [i \in 1..N |-> s[At(i)]]
  BY DEF Picked
<1>3. \A i \in 1..N : s[At(i)] \in S
  BY <1>1, ElementOfSeq
<1>n. \A j \in I : j \in Nat
  BY <1>0
<1> HIDE DEF N, At
<1>4. Picked(s, I) \in Seq(S) /\ Len(Picked(s, I)) = N
  BY <1>0, <1>2, <1>3, IsASeq
<1>5. \A i \in 1..N : \E j \in I : Rank(I, j) = i /\ Picked(s, I)[i] = s[j]
  BY <1>1, <1>2
<1>6. ASSUME NEW j \in I
      PROVE  Rank(I, j) \in 1..N /\ Picked(s, I)[Rank(I, j)] = s[j]
  <2>1. Rank(I, j) \in 1..N
    BY <1>0, RankOf DEF N
  <2>2. At(Rank(I, j)) \in I /\ Rank(I, At(Rank(I, j))) = Rank(I, j)
    BY <1>1, <2>1
  <2>3. At(Rank(I, j)) = j
    <3> DEFINE k == At(Rank(I, j))
    <3>1. k \in I /\ Rank(I, k) = Rank(I, j) /\ k \in Nat /\ j \in Nat
      BY <2>2, <1>n
    <3> HIDE DEF k
    <3>2. k < j => Rank(I, k) < Rank(I, j)
      BY <1>0, <3>1, RankGrows
    <3>3. j < k => Rank(I, j) < Rank(I, k)
      BY <1>0, <3>1, RankGrows
    <3>4. Rank(I, j) \in Nat
      BY <2>1, <1>0
    <3>5. k = j
      BY <3>1, <3>2, <3>3, <3>4
    <3> QED
      BY <3>5 DEF k
  <2> QED
    BY <1>2, <2>1, <2>3
<1> QED
  BY <1>4, <1>5, <1>6 DEF N

\* The same, without ranks: f leads from the places of r to those in I, in order.
InOrderOf(f, r, s, I) ==
    /\ f \in [1..Len(r) -> I]
    /\ \A i \in 1..Len(r) : r[i] = s[f[i]]
    /\ \A i, j \in 1..Len(r) : i < j <=> f[i] < f[j]
    /\ \A k \in I : \E i \in 1..Len(r) : f[i] = k

LEMMA PickedOrder ==
    ASSUME NEW S, NEW s \in Seq(S), NEW I \in SUBSET (1..Len(s))
    PROVE  \E f : InOrderOf(f, Picked(s, I), s, I)
<1> DEFINE N == Cardinality(I)
           f == [i \in 1..N |-> CHOOSE j \in I : Rank(I, j) = i]
<1>0. Len(s) \in Nat /\ N \in Nat /\ Len(Picked(s, I)) = N
  <2>1. Len(s) \in Nat
    BY LenProperties
  <2>2. Len(Picked(s, I)) = N
    BY PickedItems
  <2> QED
    BY <2>1, <2>2, PositionsFinite
<1>n. \A j \in I : j \in Nat
  BY <1>0
<1>1. \A i \in 1..N : f[i] \in I /\ Rank(I, f[i]) = i
  BY <1>0, RankTaken
<1>2. \A i \in 1..N : Picked(s, I)[i] = s[f[i]]
  BY DEF Picked
<1>3. f \in [1..N -> I]
  BY <1>1
<1> HIDE DEF N, f
<1>4. \A j, k \in I : j < k => Rank(I, j) < Rank(I, k)
  <2> TAKE j, k \in I
  <2>1. j \in Nat
    OBVIOUS
  <2> QED
    BY <1>0, <2>1, RankGrows
<1>5. \A i, j \in 1..N : i < j <=> f[i] < f[j]
  <2> TAKE i, j \in 1..N
  <2>1. /\ f[i] \in I /\ f[j] \in I /\ Rank(I, f[i]) = i /\ Rank(I, f[j]) = j
        /\ f[i] \in Nat /\ f[j] \in Nat
    BY <1>1, <1>n
  <2>2. /\ f[i] < f[j] => Rank(I, f[i]) < Rank(I, f[j])
        /\ f[j] < f[i] => Rank(I, f[j]) < Rank(I, f[i])
    BY <1>4, <2>1
  <2>3. f[i] = f[j] => i = j
    BY <2>1
  <2> QED
    BY <1>0, <2>1, <2>2, <2>3
<1>6. \A k \in I : \E i \in 1..N : f[i] = k
  <2> TAKE k \in I
  <2>1. Rank(I, k) \in 1..N
    BY <1>0, RankOf DEF N
  <2>2. f[Rank(I, k)] \in I /\ Rank(I, f[Rank(I, k)]) = Rank(I, k)
    BY <1>1, <2>1
  <2> DEFINE j == f[Rank(I, k)]
  <2>3. j \in I /\ Rank(I, j) = Rank(I, k) /\ j \in Nat /\ k \in Nat
    BY <2>2, <1>n
  <2>3a. Rank(I, k) \in Nat
    BY <2>1, <1>0
  <2> HIDE DEF j
  <2>4. j = k
    BY <2>3, <2>3a, <1>4
  <2> QED
    BY <2>1, <2>4 DEF j
<1> QED
  BY <1>0, <1>2, <1>3, <1>5, <1>6 DEF InOrderOf

\* What is in it is what was at those positions.
LEMMA PickedContents ==
    ASSUME NEW S, NEW s \in Seq(S), NEW I \in SUBSET (1..Len(s)), NEW x
    PROVE  (\E i \in 1..Len(Picked(s, I)) : Picked(s, I)[i] = x)
               <=> (\E j \in I : s[j] = x)
<1>1. PICK f : InOrderOf(f, Picked(s, I), s, I)
  BY PickedOrder
<1>2. /\ \A i \in 1..Len(Picked(s, I)) : f[i] \in I /\ Picked(s, I)[i] = s[f[i]]
      /\ \A k \in I : \E i \in 1..Len(Picked(s, I)) : f[i] = k
  BY <1>1 DEF InOrderOf
<1>3. \A k \in I : \E i \in 1..Len(Picked(s, I)) : Picked(s, I)[i] = s[k]
  BY <1>2
<1>4. ASSUME NEW i \in 1..Len(Picked(s, I)), Picked(s, I)[i] = x
      PROVE  \E j \in I : s[j] = x
  BY <1>2, <1>4
<1>5. ASSUME NEW j \in I, s[j] = x
      PROVE  \E i \in 1..Len(Picked(s, I)) : Picked(s, I)[i] = x
  BY <1>3, <1>5
<1> QED
  BY <1>4, <1>5

\* All of it, and all but one.
LEMMA PickedAll ==
    ASSUME NEW S, NEW s \in Seq(S)
    PROVE  Picked(s, 1..Len(s)) = s
<1> DEFINE I == 1..Len(s)
<1>1. Len(s) \in Nat /\ Cardinality(I) = Len(s)
  BY LenProperties, FS_Interval
<1>2. \A j \in I : Rank(I, j) = j
  <2> TAKE j \in I
  <2>1. I \cap 1..j = 1..j
    BY <1>1
  <2>2. Cardinality(1..j) = j
    BY FS_Interval
  <2> QED
    BY <2>1, <2>2 DEF Rank
<1>3. /\ Picked(s, I) \in Seq(S) /\ Len(Picked(s, I)) = Len(s)
      /\ \A j \in I : Picked(s, I)[Rank(I, j)] = s[j]
  BY <1>1, PickedItems
<1>4. \A j \in 1..Len(s) : Picked(s, I)[j] = s[j]
  BY <1>2, <1>3
<1> QED
  BY <1>3, <1>4, SeqEqual

LEMMA PickedAllButOne ==
    ASSUME NEW S, NEW s \in Seq(S), NEW k \in 1..Len(s)
    PROVE  Len(Picked(s, 1..Len(s) \ {k})) = Len(s) - 1
<1>1. Len(s) \in Nat /\ IsFiniteSet(1..Len(s)) /\ Cardinality(1..Len(s)) = Len(s)
  BY LenProperties, FS_Interval
<1>2. Cardinality(1..Len(s) \ {k}) = Len(s) - 1
  <2> DEFINE I == 1..Len(s)
  <2>1. IsFiniteSet(I) /\ k \in I /\ Cardinality(I) = Len(s)
    BY <1>1
  <2> HIDE DEF I
  <2>2. Cardinality(I \ {k}) = Cardinality(I) - 1
    BY <2>1, FS_RemoveElement
  <2> QED
    BY <2>1, <2>2 DEF I
<1>3. Len(Picked(s, 1..Len(s) \ {k})) = Cardinality(1..Len(s) \ {k})
  BY PickedItems
<1> QED
  BY <1>2, <1>3

\* Each member of a finite set in a strict order has one of the numbers from 0,
\* and each of the numbers a member.
LEMMA RankedBy ==
    ASSUME NEW S, IsFiniteSet(S), NEW down \in [S -> SUBSET S],
           \A x \in S : x \notin down[x],
           \A x, y \in S : x # y => x \in down[y] \/ y \in down[x],
           \A x, y \in S : y \in down[x] => down[y] \subseteq down[x]
    PROVE  /\ Cardinality(S) \in Nat
           /\ \A x \in S : Cardinality(down[x]) \in 0..Cardinality(S) - 1
           /\ \A x, y \in S : Cardinality(down[x]) = Cardinality(down[y]) => x = y
           /\ \A i \in 1..Cardinality(S) : \E x \in S : Cardinality(down[x]) = i - 1
<1> DEFINE n == Cardinality(S)
           r == [x \in S |-> Cardinality(down[x])]
<1>1. n \in Nat
  BY FS_CardinalityType
<1>2. \A x \in S : IsFiniteSet(down[x]) /\ Cardinality(down[x]) \in 0..n - 1
  <2> TAKE x \in S
  <2>1. /\ IsFiniteSet(down[x]) /\ Cardinality(down[x]) <= Cardinality(S)
        /\ Cardinality(S) = Cardinality(down[x]) => S = down[x]
    BY FS_Subset
  <2>2. Cardinality(down[x]) \in Nat /\ Cardinality(down[x]) # n
    BY <2>1, FS_CardinalityType
  <2> QED
    BY <1>1, <2>1, <2>2
<1>3. ASSUME NEW x \in S, NEW y \in S, y \in down[x]
      PROVE  Cardinality(down[y]) < Cardinality(down[x])
  <2>1. /\ down[y] \in SUBSET down[x] /\ down[y] # down[x]
    BY <1>3
  <2>2. /\ Cardinality(down[y]) <= Cardinality(down[x])
        /\ Cardinality(down[x]) # Cardinality(down[y])
    BY <1>2, <2>1, FS_Subset
  <2> QED
    BY <1>2, <2>2
<1>4. \A x, y \in S : Cardinality(down[x]) = Cardinality(down[y]) => x = y
  BY <1>2, <1>3
<1>5. r \in Injection(S, 0..n - 1)
  BY <1>2, <1>4 DEF Injection, IsInjective
<1>6. IsFiniteSet(0..n - 1) /\ Cardinality(0..n - 1) = n
  <2>1. 0 \in Int /\ n - 1 \in Int
    BY <1>1
  <2> HIDE DEF n
  <2>2. IsFiniteSet(0..n - 1)
        /\ Cardinality(0..n - 1) = IF 0 > n - 1 THEN 0 ELSE (n - 1) - 0 + 1
    BY <2>1, FS_Interval
  <2> QED
    BY <1>1, <2>2
<1>7. r \in Surjection(S, 0..n - 1)
  <2> HIDE DEF r
  <2> QED
    BY <1>5, <1>6, FS_Injection
<1>8. \A i \in 0..n - 1 : \E x \in S : r[x] = i
  BY <1>7 DEF Surjection
<1>9. \A i \in 1..n : \E x \in S : Cardinality(down[x]) = i - 1
  <2> TAKE i \in 1..n
  <2>1. i - 1 \in 0..n - 1
    BY <1>1
  <2> QED
    BY <1>8, <2>1
<1> QED
  BY <1>1, <1>2, <1>4, <1>9
=============================================================================
