------------------------------- MODULE Sizing --------------------------------
(***************************************************************************)
(* What the packing of an answer under a budget is built from: the total   *)
(* of the first of some costs, and a bisection for the largest number that *)
(* is good enough.                                                         *)
(***************************************************************************)
EXTENDS Integers, Sequences

Lesser(a, b) == IF a < b THEN a ELSE b

\* The cost of the first k, or of all when there are not so many.
SumFirst(costs, k) ==
    LET sum[i \in 0..Len(costs)] == IF i = 0 THEN 0 ELSE sum[i - 1] + costs[i]
    IN  sum[Lesser(k, Len(costs))]

Total(costs) == SumFirst(costs, Len(costs))

\* A loop that halves first..last: what is good is kept and looked for above,
\* what is not is looked for below.  The result is the first when nothing is.
Bisected(Good, first, last) ==
    LET Bounds == [low : first..last + 1, high : first - 1..last, found : first..last + 1]
        bisect[w \in Bounds] ==
            LET mid == (w.low + w.high) \div 2 IN
            IF w.low > w.high THEN w.found
            ELSE IF mid \in Good THEN bisect[[w EXCEPT !.low = mid + 1, !.found = mid]]
            ELSE bisect[[w EXCEPT !.high = mid - 1]]
    IN  bisect[[low |-> first, high |-> last, found |-> first]]
=============================================================================
