---------------------------- MODULE Subsequences ----------------------------
(***************************************************************************)
(* What is left of a sequence when some of its items are taken out: the    *)
(* rows a DELETE spares, the entries an OrderedDict keeps.  It is SelectSeq *)
(* in terms that can be reasoned about: the items are chosen by position,  *)
(* and each one moves to its rank among those chosen.  Sorting a set is    *)
(* put in the same terms.                                                  *)
(***************************************************************************)
EXTENDS Integers, Sequences, FiniteSets

Rank(I, j) == Cardinality(I \cap 1..j)

\* The items of s at the positions in I, in the order of s.
Picked(s, I) ==
    [i \in 1..Cardinality(I) |-> s[CHOOSE j \in I : Rank(I, j) = i]]

\* The members of a finite set in their order, each at the number of those
\* before it.
SortedBy(S, Before(_, _)) ==
    [i \in 1..Cardinality(S) |->
        CHOOSE x \in S : Cardinality({y \in S : Before(y, x)}) = i - 1]
=============================================================================
