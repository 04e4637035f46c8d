------------------------------ MODULE Answers -------------------------------
(***************************************************************************)
(* How the tools of the server answer within a budget: they find what      *)
(* matches, keep as many rows as their limits allow, pack them greedily,   *)
(* give rows back from the end until the serialised response fits, and     *)
(* tell how much they left out.  A question comes with all that matches    *)
(* it, in the order of the ranking: which rows these are, and how a row is *)
(* written, are data.  Sizes are in bytes, four of them make a token.      *)
(***************************************************************************)
EXTENDS Integers, Sequences, SequencesExt, FiniteSets, FiniteSetsExt, Subsequences, Sizing

CONSTANTS
    Asked,              \* the questions: records of the fields used below
    FileCap,            \* the 3 symbols of a file that a search shows
    AndFetch, OrFetch,  \* the 3 and the 5 that a search multiplies its limit by
    Lead,               \* the 20 rows that lead a compact map
    Around,             \* bytes of a response around its rows
    EdgeBytes, StaleBytes, DigestBytes, RefBytes, NoticeBytes,
    KeptBack, KeptFrom,   \* the 96 tokens kept back from budgets of 512
    ServerCap           \* max_result_tokens

(* A budget was validated against the cap of the server, which the          *)
(* configuration limits to 8192; a search asks for more than it shows, so   *)
(* that it can tell whether there is more.                                  *)
ASSUME AnswersAssumption ==
    /\ Asked \subseteq
          [tool : {"search", "map", "symbols", "impact", "context", "skeleton",
                   "module", "dependents", "list"},
           hits : Seq([file : Nat, strong : BOOLEAN, cost : Nat]),
           limit : Nat \ {0}, budget : 1..ServerCap, explicit : BOOLEAN,
           compact : BOOLEAN, refs : BOOLEAN, root : Nat, stale : SUBSET Nat,
           several : BOOLEAN]
    /\ ServerCap \in 1..8192 /\ KeptBack \in Nat /\ FileCap \in Nat /\ Lead \in Nat
    /\ AndFetch \in Nat \ {0, 1} /\ OrFetch \in Nat \ {0, 1}
    /\ Around \in Nat /\ EdgeBytes \in Nat /\ StaleBytes \in Nat /\ DigestBytes \in Nat
    /\ RefBytes \in Nat /\ NoticeBytes \in Nat

VARIABLES
    asked,      \* the question
    step,      \* "find", "pack", "told" or "refused"
    counted,    \* the matches that were counted, or read from the index
    loosened,   \* the search has asked for any of its terms
    chosen, leftOut,    \* the rows in the response, and those packed out of it
    reply       \* what the client is told

tellVars == <<asked, step, counted, loosened, chosen, leftOut, reply>>

Hits == DOMAIN asked.hits
Strong == {i \in Hits : asked.hits[i].strong}
FileOf(i) == asked.hits[i].file
InRank(S) == Picked([i \in Hits |-> i], S)
SymbolRow(i) == [kind |-> "symbol", hit |-> i]
EdgeRow(i) == [kind |-> "edge", hit |-> i]
SymbolRows(is) == [k \in DOMAIN is |-> SymbolRow(is[k])]

----------------------------------------------------------------------------
\* At most FileCap symbols of a file, and at most limit of all.
SelectHit(had, i) ==
    IF \/ Cardinality(had) = asked.limit
       \/ Cardinality({j \in had : FileOf(j) = FileOf(i)}) = FileCap
    THEN had ELSE had \cup {i}

Selected(S) == FoldLeft(SelectHit, {}, InRank(S))

\* How many rows those of the strict query can fill.
Capacity(S) ==
    MapThenSumSet(LAMBDA f : Lesser(FileCap, Cardinality({i \in S : FileOf(i) = f})),
                  {FileOf(i) : i \in S})

\* A compact map shows its best rows, then the other rows of their files.
MapOrder ==
    LET lead == 1..Lesser(Lead, Len(asked.hits))
        opened == {i \in Hits : \E j \in lead : FileOf(i) = FileOf(j)}
    IN  InRank(lead) \o InRank(opened \ lead) \o InRank(Hits \ opened)

\* The search of the graph visits the root and nodes up to the limit, and sees
\* the edges to all.  The root comes first, then the edges, then the nodes.
Visited == 1..Lesser(Len(asked.hits), asked.limit - 1)
Slice == <<SymbolRow(0)>> \o [k \in Hits |-> EdgeRow(k)] \o SymbolRows(InRank(Visited))

\* The rows that are offered to the packing.
Entries ==
    CASE asked.tool = "map" -> SymbolRows(IF asked.compact THEN MapOrder ELSE InRank(Hits))
      [] asked.tool = "symbols" -> SymbolRows(InRank(1..Lesser(Len(asked.hits), asked.limit)))
      [] asked.tool \in {"impact", "context"} -> Slice
      [] OTHER -> SymbolRows(InRank(Hits))

----------------------------------------------------------------------------
TokensOf(bytes) == (bytes + 3) \div 4
DigitsOf(n) == IF n < 10 THEN 1 ELSE IF n < 100 THEN 2 ELSE IF n < 1000 THEN 3
               ELSE IF n < 10000 THEN 4 ELSE 5

RowBytes(row) ==
    IF row.kind = "edge" THEN EdgeBytes
    ELSE IF row.hit = 0 THEN asked.root
    ELSE IF asked.tool = "search" /\ FileOf(row.hit) \in asked.stale THEN StaleBytes
    ELSE asked.hits[row.hit].cost

Bytes(rows) == Total([k \in DOMAIN rows |-> RowBytes(rows[k])])

\* find_symbols keeps nothing back when it is given no budget.
PackingBudget ==
    IF asked.tool = "list" \/ ~asked.explicit THEN ServerCap
    ELSE IF asked.budget >= KeptFrom THEN asked.budget - KeptBack
    ELSE asked.budget

\* A row that does not fit is passed over, except the first.
PackRow(was, row) ==
    LET used == was.used + TokensOf(RowBytes(row))
    IN  IF was.in = <<>> \/ used <= PackingBudget
        THEN [was EXCEPT !.in = Append(@, row), !.used = used]
        ELSE [was EXCEPT !.out = Append(@, row)]

PackByBudget(rows) ==
    FoldLeft(PackRow, [in |-> <<>>, out |-> <<>>, used |-> 0], rows)

SymbolsAmong(rows) == Cardinality({k \in DOMAIN rows : rows[k].kind = "symbol"})

\* A search counts the matches that were not selected as both beyond its limit
\* and unselected.
OmittedCount ==
    CASE asked.tool = "search" ->
            2 * (Cardinality(counted) - Cardinality(Selected(counted))) + Len(leftOut)
      [] asked.tool = "symbols" -> Len(asked.hits) - Len(chosen)
      [] asked.tool = "list" -> 0
      [] OTHER -> SymbolsAmong(leftOut)

\* Bytes of the response when it says that it is of some estimate.
ResponseOf(estimate) ==
    Around + Bytes(chosen) + DigitsOf(estimate) + DigitsOf(OmittedCount)
    + (IF asked.tool = "map" /\ asked.compact
       THEN DigestBytes * Cardinality({FileOf(chosen[k].hit) : k \in DOMAIN chosen}) ELSE 0)
    + (IF asked.refs THEN RefBytes * Lesser(10, SymbolsAmong(leftOut)) ELSE 0)
    + (IF asked.tool = "symbols" /\ leftOut # <<>> THEN NoticeBytes ELSE 0)

Estimate == TokensOf(ResponseOf(TokensOf(ResponseOf(0))))
Fits == Estimate <= PackingBudget

----------------------------------------------------------------------------
\* list_repositories offers all rows without packing them first.
Offer(rows) ==
    /\ chosen' = IF asked.tool = "list" THEN rows ELSE PackByBudget(rows).in
    /\ leftOut' = IF asked.tool = "list" THEN <<>> ELSE PackByBudget(rows).out
    /\ step' = "pack"

Find ==
    /\ step = "find" /\ asked.tool # "search"
    /\ counted' = Hits
    /\ Offer(Entries)
    /\ UNCHANGED <<asked, loosened, reply>>

\* The rows of all terms first, and those of any term when these cannot fill
\* the limit.  Both queries stop at a multiple of the limit.
Search ==
    /\ step = "find" /\ asked.tool = "search"
    /\ \E S \in kSubset(Lesser(Cardinality(Strong), asked.limit * AndFetch), Strong) :
          /\ loosened' = (asked.several /\ Capacity(S) < asked.limit)
          /\ \E T \in IF loosened'
                      THEN kSubset(Lesser(Len(asked.hits), asked.limit * OrFetch), Hits)
                      ELSE {{}} :
                counted' = S \cup T
    /\ Offer(SymbolRows(InRank(Selected(counted'))))
    /\ UNCHANGED <<asked, reply>>

\* Mutant of GivenBack: the row that is given back is forgotten.
GivenBackSilently == leftOut

\* The last row goes to the head of those left out.
GivenBack == <<Last(chosen)>> \o leftOut

GiveBack ==
    /\ step = "pack" /\ ~Fits /\ chosen # <<>>
    /\ leftOut' = GivenBack
    /\ chosen' = Front(chosen)
    /\ UNCHANGED <<asked, step, counted, loosened, reply>>

Refuse ==
    /\ step = "pack" /\ ~Fits /\ chosen = <<>>
    /\ step' = "refused"
    /\ UNCHANGED <<asked, counted, loosened, chosen, leftOut, reply>>

\* impact_slice says that it met the limit of nodes, symbol_context does not,
\* and the packed skeleton of a module is wrapped in a response of its own.
Truncated ==
    CASE asked.tool \in {"search", "symbols"} -> OmittedCount > 0
      [] asked.tool = "impact" -> leftOut # <<>> \/ Len(asked.hits) > asked.limit - 1
      [] asked.tool = "module" -> FALSE
      [] OTHER -> leftOut # <<>>

Warned == asked.tool = "symbols" /\ (leftOut # <<>> \/ Len(asked.hits) > asked.limit)

\* The response is built once more and says how much was measured.
Tell ==
    /\ step = "pack" /\ Fits
    /\ LET tokens == TokensOf(ResponseOf(Estimate)
                              + (IF asked.tool = "module" THEN Around ELSE 0))
       IN  IF asked.tool \in {"map", "search", "dependents", "list"} /\ tokens > ServerCap
           THEN step' = "refused" /\ UNCHANGED reply
           ELSE /\ step' = "told"
                /\ reply' = [tokens |-> tokens, said |-> Estimate, warned |-> Warned,
                             truncated |-> Truncated, omitted |-> OmittedCount]
    /\ UNCHANGED <<asked, counted, loosened, chosen, leftOut>>

NoReply ==
    [tokens |-> 0, said |-> 0, warned |-> FALSE, truncated |-> FALSE, omitted |-> 0]

\* The client asks the same again.
Repeat ==
    /\ step \in {"told", "refused"}
    /\ step' = "find" /\ counted' = {} /\ loosened' = FALSE
    /\ chosen' = <<>> /\ leftOut' = <<>> /\ reply' = NoReply
    /\ UNCHANGED asked

TellInit ==
    /\ asked \in Asked /\ step = "find"
    /\ counted = {} /\ loosened = FALSE
    /\ chosen = <<>> /\ leftOut = <<>> /\ reply = NoReply

TellNext == Find \/ Search \/ GiveBack \/ Refuse \/ Tell \/ Repeat

TellSpec == TellInit /\ [][TellNext]_tellVars

----------------------------------------------------------------------------
\* Every variable is of its type.
TellTypeOK ==
    /\ asked \in Asked /\ step \in {"find", "pack", "told", "refused"}
    /\ counted \subseteq Hits /\ loosened \in BOOLEAN
    /\ \A k \in DOMAIN chosen : chosen[k].hit \in Hits \cup {0}
    /\ reply.truncated \in BOOLEAN /\ reply.tokens \in Nat

\* What the client asked for: with a search that was not loosened, what has all
\* the terms.
Wanted == IF asked.tool = "search" /\ ~loosened THEN Strong ELSE Hits
Given == {chosen[k].hit : k \in {j \in DOMAIN chosen : chosen[j].kind = "symbol"}}

\* A client that is told of no truncation has got everything, except from
\* get_symbol_context; from all tools but the search, whose count is too high,
\* it can add up what it has got and what is missing; and find_symbols says why.
TellsWhatIsMissing ==
    step = "told" =>
        /\ asked.tool \notin {"context", "module"} /\ ~reply.truncated => Wanted \subseteq Given
        /\ asked.tool = "search" =>
               reply.omitted >= Cardinality(counted \ Given)
        /\ asked.tool \in {"map", "symbols", "dependents", "skeleton", "module"} =>
               Cardinality(Given) + reply.omitted = Len(asked.hits)
        /\ asked.tool = "symbols" => reply.truncated = reply.warned

\* A response is as large as it says although it says so itself, and within the
\* budget, except a module's; and none is refused that the packing has let pass.
KeepsItsBudget ==
    /\ step = "told" /\ asked.tool # "module" =>
           reply.tokens = reply.said /\ reply.tokens <= PackingBudget
    /\ step = "refused" => chosen = <<>> /\ ~Fits

\* Answers tell the truth about what they leave out, and keep to the budget
\* (RetrievalService._pack_to_budget and the tools that use it).
AnswersHonest == TellsWhatIsMissing /\ KeepsItsBudget
=============================================================================
