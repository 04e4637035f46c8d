----------------------------- MODULE BodyWindow -----------------------------
(***************************************************************************)
(* Reading a symbol's body with get_symbol_context: whole, and when it     *)
(* does not fit the budget in windows, each beginning where the one before *)
(* says.  The body has line costs, the symbol neighbours with costs; all   *)
(* are in one unit, and the digits of counters are left out.               *)
(***************************************************************************)
EXTENDS Integers, Sequences, Sizing

CONSTANTS
    Bodies, Neighbours,   \* sets of sequences of costs
    Budgets,              \* budgets for packing
    Frame,                \* cost of a response around its symbols
    Root,                 \* cost of the root's packet without a body
    Warning,              \* cost of a warning
    OmittedId             \* cost of an entry of omitted_symbol_ids

\* A body has a line at least.
ASSUME BodyAssumption ==
    /\ Bodies \subseteq Seq(Nat) \ {<<>>} /\ Neighbours \subseteq Seq(Nat)
    /\ Budgets \subseteq Nat
    /\ Frame \in Nat /\ Root \in Nat /\ Warning \in Nat /\ OmittedId \in Nat

\* A budget holds the response around the symbols with its warnings: with a
\* smaller one the code raises an error before it packs anything.
ASSUME EnvelopeFits == \A b \in Budgets : b >= Frame + 2 * Warning

VARIABLES
    lines, near,    \* the body, and the neighbours asked for with depth
    budget,
    ask,            \* what the client asks for next
    offset,         \* body_offset_line
    answer,         \* what it was told last
    readLines       \* history: the lines it has read, in order

bodyVars == <<lines, near, budget, ask, offset, answer, readLines>>

Window(first, count) == SubSeq(lines, first, first + count - 1)
Remaining == Len(lines) - offset + 1

\* The root's packet with some lines of its body, and with a warning.
RootCost(part, warned) == Root + Total(part) + (IF warned THEN Warning ELSE 0)

Alone(part, warned) == Frame + RootCost(part, warned) <= budget

----------------------------------------------------------------------------
(* The largest window that fits: the rest, or by bisection. *)

ChosenCount(warned) ==
    IF Alone(Window(offset, Remaining), warned) THEN Remaining
    ELSE Bisected({m \in 1..Remaining : Alone(Window(offset, m), TRUE)}, 1, Remaining - 1)

\* Mutant of NextOffset: the line after the window is passed over.
NextOffsetPast(count) == offset + count + 1

\* The line the next window begins at.
NextOffset(count) == offset + count

(* pack_by_budget, then _pack_to_budget: entries are taken while they fit,   *)
(* skipping what does not, and given back from the end until the response,   *)
(* with what it says of the omitted ones, fits.                              *)

Packed(entries, fixed) ==
    LET taken[i \in 0..Len(entries)] ==
            IF i = 0 THEN [set |-> {}, used |-> 0]
            ELSE LET was == taken[i - 1] IN
                 IF was.used + entries[i] <= budget \/ i = 1
                 THEN [set |-> was.set \cup {i}, used |-> was.used + entries[i]]
                 ELSE was
        cost(S) == fixed + Total([i \in 1..Len(entries) |-> IF i \in S THEN entries[i] ELSE 0])
                   + OmittedId * (Len(entries) - (IF S = {} THEN 0 ELSE
                        Total([i \in 1..Len(entries) |-> IF i \in S THEN 1 ELSE 0])))
        first(k) == {i \in taken[Len(entries)].set : i <= k}
    IN  IF \E k \in 0..Len(entries) : cost(first(k)) <= budget
        THEN first(CHOOSE k \in 0..Len(entries) :
                /\ cost(first(k)) <= budget
                /\ \A j \in k + 1..Len(entries) : cost(first(j)) > budget)
        ELSE {}

\* What the client is told: the lines of the root's packet, if that is there.
Answer(first, count, warned, min) ==
    LET part == Window(first, count)
        sole == RootCost(part, FALSE)
        fixed == Frame + (IF warned THEN Warning ELSE 0)
        kept == IF Alone(part, warned)
                THEN Packed(<<sole>> \o near, fixed) ELSE {}
    IN  [root |-> 1 \in kept, from |-> first, count |-> count,
         min |-> IF Alone(part, warned) THEN 0 ELSE min]

----------------------------------------------------------------------------
\* include_body: the whole body, or a packet without it and the hint to read
\* it in windows.
AskWhole ==
    /\ ask = "whole"
    /\ LET fits == Alone(lines, FALSE)
           told == Answer(1, IF fits THEN Len(lines) ELSE 0, ~fits,
                          Frame + RootCost(<<>>, TRUE))
       IN
       /\ answer' = told
       /\ readLines' = IF told.root THEN [i \in 1..told.count |-> i] ELSE <<>>
       /\ ask' = IF fits THEN "done" ELSE "window"
    /\ UNCHANGED <<lines, near, budget, offset>>

\* body_offset_line: a window, and the next offset unless it was the last.
AskWindow ==
    /\ ask = "window"
    /\ LET count == ChosenCount(FALSE)
           cut == ~Alone(Window(offset, Remaining), FALSE)
           told == Answer(offset, count, cut,
                          Frame + RootCost(Window(offset, count), cut))
       IN
       /\ answer' = told
       /\ IF ~told.root
          THEN ask' = "raise" /\ UNCHANGED <<offset, readLines>>
          ELSE /\ readLines' = readLines \o [i \in 1..count |-> offset + i - 1]
               /\ IF count = Remaining THEN ask' = "done" /\ UNCHANGED offset
                  ELSE offset' = NextOffset(count) /\ UNCHANGED ask
    /\ UNCHANGED <<lines, near, budget>>

\* root_omitted_budget: the client asks again with min_budget_tokens.
RaiseBudget ==
    /\ ask = "raise" /\ answer.min > 0
    /\ budget' = answer.min
    /\ ask' = "window"
    /\ UNCHANGED <<lines, near, offset, answer, readLines>>

\* With neighbours, the root may be left out and the client not told how much
\* it takes: it can only ask without them.
DropNeighbours ==
    /\ ask = "raise" /\ answer.min = 0
    /\ near' = <<>>
    /\ ask' = "window"
    /\ UNCHANGED <<lines, budget, offset, answer, readLines>>

NoAnswer == [root |-> FALSE, from |-> 1, count |-> 0, min |-> 0]

ReadAgain ==
    /\ ask = "done"
    /\ ask' = "whole" /\ offset' = 1 /\ readLines' = <<>> /\ answer' = NoAnswer
    /\ UNCHANGED <<lines, near, budget>>

BodyInit ==
    /\ lines \in Bodies /\ near \in Neighbours /\ budget \in Budgets
    /\ ask = "whole" /\ offset = 1 /\ answer = NoAnswer /\ readLines = <<>>

BodyNext == AskWhole \/ AskWindow \/ RaiseBudget \/ DropNeighbours \/ ReadAgain

BodySpec == BodyInit /\ [][BodyNext]_bodyVars

----------------------------------------------------------------------------
BodyTypeOK ==
    /\ lines \in Bodies /\ budget \in Nat
    /\ ask \in {"whole", "window", "raise", "done"}
    /\ offset \in 1..Len(lines) /\ answer.count \in 0..Len(lines)

\* A client that follows the windows, and the budgets it is told of, reads
\* every line of the body once and in order; without neighbours it always
\* gets the packet it asks for or a budget for which it does.
WindowsReadBody ==
    /\ ask = "window" => readLines = [i \in 1..offset - 1 |-> i]
    /\ ask = "raise" /\ near = <<>> => answer.min > budget
    /\ ask = "done" /\ answer.root => readLines = [i \in 1..Len(lines) |-> i]
    /\ ask = "done" /\ ~answer.root => near # <<>>
=============================================================================
