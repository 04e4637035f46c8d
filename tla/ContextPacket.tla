---------------------------- MODULE ContextPacket ----------------------------
(***************************************************************************)
(* The context packet of inspect_symbol(view="full"): how its sections are *)
(* filled under a budget, refitted against the packet's real size, and how *)
(* rows are shed until the whole response fits.  Everything is counted in  *)
(* bytes of JSON; four bytes are a token.  The digits of counters inside   *)
(* the packet are left out of its size.                                    *)
(***************************************************************************)
EXTENDS Integers, Sequences, SequencesExt, Sizing

CONSTANTS
    Inputs,      \* what packets are built from, with the budget of tokens
    Shares,      \* DEFAULT_SHARES, in hundredths
    CallersK,    \* CALLERS_K
    Base,        \* bytes of a packet outside its sections and file entries
    Envelope,    \* bytes of the response around the packet
    HitBytes     \* bytes of a report of suspicious content

(* target: the costs of the target's sizes; callees and callers: rows with   *)
(* their costs as a signature and as a compact reference; context: costs;    *)
(* file: bytes of one entry of files; hits: something looks suspicious.      *)

Order == <<"target", "callees", "callers", "more", "context">>
Sections == {Order[i] : i \in 1..Len(Order)}
RowSections == Sections \ {"target"}
Costly == Nat \ {0}

\* Whatever is written has a size, and the shares are of the whole.
ASSUME PacketAssumption ==
    /\ Inputs \subseteq
          [target : Seq(Costly) \ {<<>>},
           callees : Seq([sig : Costly, more : Costly]),
           callers : Seq([sig : Costly, more : Costly]),
           context : Seq(Costly), file : Nat, hits : BOOLEAN, tokens : Nat]
    /\ Shares \in [Sections -> Nat]
    /\ Shares["target"] + Shares["callees"] + Shares["callers"]
       + Shares["more"] + Shares["context"] <= 100
    /\ CallersK \in Nat /\ Base \in Nat /\ Envelope \in Nat /\ HitBytes \in Nat

VARIABLES
    in,       \* the input
    doing,
    n,        \* _State: target units, and rows of each section
    carry,    \* pass 1: what the sections before have left
    at,       \* the section to fill next
    moved,    \* pass 2: a section has grown in this round
    round,    \* the number of the round of pass 2
    reserve,  \* bytes kept for what is outside the sections
    fits,     \* the number of the build
    best,     \* the largest build that fits, or NoBuild
    kept,    \* the packet of the response: units and rows
    omitted,  \* the packet's own account of the rows it leaves out
    est       \* estimated_tokens of the response

buildVars == <<n, carry, at, moved, round>>
answerVars == <<kept, omitted, est>>
packetVars == <<in, doing, buildVars, reserve, fits, best, answerVars>>

Nothing == [s \in Sections |-> 0]
NoBuild == [s \in Sections |-> -1]

AtLeast0(a) == IF a < 0 THEN 0 ELSE a
Tokens(bytes) == (bytes + 3) \div 4
Digits(k) == IF k < 10 THEN 1 ELSE IF k < 100 THEN 2 ELSE IF k < 1000 THEN 3 ELSE 4

----------------------------------------------------------------------------
(* Sections *)

\* in.target[k + 1] is the cost of a target of k units; the last is complete.
Units == Len(in.target) - 1

MorePool(s) ==
    LET rest(rows, k) == SubSeq(rows, k + 1, Len(rows))
    IN  rest(in.callees, s["callees"]) \o rest(in.callers, s["callers"])

\* The costs of the rows of a section, given how many of the others there are.
Costs(s, section) ==
    CASE section = "callees" -> [i \in 1..Len(in.callees) |-> in.callees[i].sig]
      [] section = "callers" -> [i \in 1..Len(in.callers) |-> in.callers[i].sig]
      [] section = "more" -> LET pool == MorePool(s)
                             IN  [i \in 1..Len(pool) |-> pool[i].more]
      [] section = "context" -> in.context

SectionBytes(s, section) ==
    IF section = "target" THEN in.target[s["target"] + 1]
    ELSE SumFirst(Costs(s, section), s[section])

AllBytes(s) ==
    SectionBytes(s, "target") + SectionBytes(s, "callees") + SectionBytes(s, "callers")
    + SectionBytes(s, "more") + SectionBytes(s, "context")

\* _fit_target: a binary search, as if costs grew with the units, and from
\* what it finds on as far as each next unit fits.
FitTarget(cap) ==
    LET Fitting == {k \in 0..Units : in.target[k + 1] <= cap}
        found == Bisected(Fitting, 0, Units - 1)
    IN  IF Units = 0 \/ Units \in Fitting THEN Units
        ELSE CHOOSE k \in found..Units - 1 :
                /\ found + 1..k \subseteq Fitting
                /\ k + 1 < Units => k + 1 \notin Fitting

\* _prefix_fit
PrefixFit(costs, cap, limit) ==
    CHOOSE k \in 0..Lesser(Len(costs), limit) :
        /\ SumFirst(costs, k) <= cap
        /\ \A j \in k + 1..Lesser(Len(costs), limit) : SumFirst(costs, j) > cap

IsCut(s, section) ==
    s[section] < (CASE section = "target" -> Units
                    [] section = "callers" -> Lesser(CallersK, Len(in.callers))
                    [] OTHER -> Len(Costs(s, section)))

Fill(s, section, cap) ==
    [s EXCEPT ![section] =
        IF section = "target" THEN FitTarget(cap)
        ELSE LET costs == Costs(s, section)
             IN  PrefixFit(costs, cap, IF section = "callers" THEN CallersK
                                       ELSE Len(costs))]

----------------------------------------------------------------------------
(* The packet: with n_more rows of the pool, if it has as many. *)

MoreRows(s) == Lesser(s["more"], Len(MorePool(s)))

\* Every row of code stands in a file of its own.
FilesOf(s) == 1 + s["callees"] + s["callers"] + MoreRows(s)

PacketBytes(s) == AllBytes(s) + Base + in.file * FilesOf(s)

AllFiles == 1 + Len(in.callees) + Len(in.callers)

\* What build_context_packet keeps for the rest at first, with so many bytes
\* for the entry of a file.
EntryBytes == 24
FirstReserve == PacketBytes(Nothing) + EntryBytes * AllFiles

ResponseBytes(bytes, rows, e) ==
    Envelope + Digits(e) + bytes + (IF in.hits /\ rows > 0 THEN HitBytes ELSE 0)

\* _inspect_symbol_full takes the response around an empty packet away from
\* the effective budget.
PacketBudget == AtLeast0(in.tokens - Tokens(ResponseBytes(PacketBytes(Nothing), 0, 0)))

SectionBudget == AtLeast0(4 * PacketBudget - reserve)

----------------------------------------------------------------------------
StartBuild ==
    /\ n' = [Nothing EXCEPT !["target"] = Units]
    /\ carry' = 0 /\ at' = 1 /\ moved' = FALSE /\ round' = 1
    /\ doing' = "first"

Reserve ==
    /\ doing = "reserve"
    /\ reserve' = FirstReserve /\ fits' = 1 /\ best' = NoBuild
    /\ StartBuild
    /\ UNCHANGED <<in, answerVars>>

\* Pass 1: each section has its share and what those before it have left.
FillShare ==
    /\ doing = "first"
    /\ LET cap == (SectionBudget * Shares[Order[at]]) \div 100 + carry IN
       /\ n' = Fill(n, Order[at], cap)
       /\ carry' = AtLeast0(cap - SectionBytes(n', Order[at]))
    /\ IF at < Len(Order) THEN at' = at + 1 /\ UNCHANGED doing
       ELSE at' = 1 /\ doing' = "second"
    /\ UNCHANGED <<in, moved, round, reserve, fits, best, answerVars>>

\* Mutant of Refilled: a refill that overshoots is not undone.
RefilledAnyway(section) ==
    Fill(n, section, SectionBytes(n, section) + SectionBudget - AllBytes(n))

\* Pass 2: a section that was cut takes what is left, unless the rows it
\* moves make the whole too large.
Refilled(section) ==
    LET more == Fill(n, section,
                     SectionBytes(n, section) + SectionBudget - AllBytes(n))
    IN  IF AllBytes(more) > SectionBudget THEN n ELSE more

Refill ==
    /\ doing = "second"
    /\ LET left == SectionBudget - AllBytes(n)
           grows == left > 0 /\ IsCut(n, Order[at])
           ends == left <= 0 \/ at = Len(Order)
       IN
       /\ n' = IF grows THEN Refilled(Order[at]) ELSE n
       /\ IF ~ends THEN /\ at' = at + 1 /\ moved' = (moved \/ n' # n)
                        /\ UNCHANGED <<doing, round>>
          ELSE /\ at' = 1 /\ moved' = FALSE
               /\ IF (moved \/ n' # n) /\ round < 3
                  THEN round' = round + 1 /\ UNCHANGED doing
                  ELSE doing' = "verify" /\ UNCHANGED round
    /\ UNCHANGED <<in, carry, reserve, fits, best, answerVars>>

\* The packet's rows, and what it counts as left out.
Packet(s) ==
    /\ kept' = [s EXCEPT !["more"] = MoreRows(s)]
    /\ omitted' = [r \in RowSections |->
                      CASE r = "more" -> Len(MorePool(s)) - s["more"]
                        [] r = "context" -> Len(in.context) - s["context"]
                        [] OTHER -> 0]
    /\ n' = s
    /\ est' = 0 /\ doing' = "respond"
    /\ UNCHANGED <<carry, at, moved, round>>

\* A build that fits is kept when it is the largest; another one follows, with
\* less or more in reserve, at most eight.
Verify ==
    /\ doing = "verify"
    /\ LET used == Tokens(PacketBytes(n))
           fit == used <= PacketBudget
           slack == PacketBudget - used
           better == fit /\ (best = NoBuild \/ used > Tokens(PacketBytes(best)))
           last == fits = 8 \/ (IF fit THEN slack <= 6 ELSE best # NoBuild)
           largest == IF better THEN n ELSE best
       IN
       /\ best' = largest
       /\ IF last THEN /\ Packet(IF largest = NoBuild THEN n ELSE largest)
                       /\ UNCHANGED <<reserve, fits>>
          ELSE /\ reserve' = IF fit THEN AtLeast0(reserve - (4 * slack - 8))
                             ELSE reserve + 4 * (used - PacketBudget) + 4
               /\ fits' = fits + 1
               /\ StartBuild
               /\ UNCHANGED answerVars
    /\ UNCHANGED in

----------------------------------------------------------------------------
(* The response: its estimate is part of it, and what is too much is shed.  *)

\* The size of the packet that is shown; the rows of more are those of n.
ShownBytes(s) ==
    SectionBytes(s, "target") + SumFirst(Costs(n, "callees"), s["callees"])
    + SumFirst(Costs(n, "callers"), s["callers"])
    + SumFirst(Costs(n, "more"), s["more"])
    + SumFirst(in.context, s["context"])
    + Base + in.file * (1 + s["callees"] + s["callers"] + s["more"])

ShownRows(s) == s["callees"] + s["callers"] + s["more"] + s["context"]

Measured == Tokens(ResponseBytes(ShownBytes(kept), ShownRows(kept), est))

\* trim_packet takes rows off the end of a section while need is left.
Popped(s, section, need) ==
    LET costs == Costs(n, section)
        cost(k) == SumFirst(costs, s[section]) - SumFirst(costs, k)
    IN  CHOOSE k \in 0..s[section] :
            /\ k = 0 \/ cost(k) >= need
            /\ \A j \in k + 1..s[section] : cost(j) < need

\* Rows in the order more, context, callers, callees, then target units.
ShedOrder == <<"more", "context", "callers", "callees">>

ShedSection(was, section, need) ==
    LET k == IF was.freed >= need THEN was.s[section]
             ELSE Popped(was.s, section, need - was.freed)
    IN  [s |-> [was.s EXCEPT ![section] = k],
         freed |-> was.freed + SumFirst(Costs(n, section), was.s[section])
                             - SumFirst(Costs(n, section), k)]

ShedRows(need) ==
    FoldLeft(LAMBDA was, section : ShedSection(was, section, need),
             [s |-> kept, freed |-> 0], ShedOrder)

ShedUnits(s, need) ==
    LET cost(k) == in.target[s["target"] + 1] - in.target[k + 1]
    IN  CHOOSE k \in 0..s["target"] :
            /\ k = 0 \/ cost(k) >= need
            /\ \A j \in k + 1..s["target"] : cost(j) < need

Shed(excess) ==
    LET need == 4 * (IF excess < 1 THEN 1 ELSE excess)
        rows == ShedRows(need)
    IN  IF rows.freed >= need \/ Units = 0 THEN rows.s
        ELSE [rows.s EXCEPT !["target"] = ShedUnits(rows.s, need - rows.freed)]

Account(less) == [r \in RowSections |-> omitted[r] + kept[r] - less[r]]

Answered ==
    /\ doing' = "done"
    /\ UNCHANGED <<in, buildVars, reserve, fits, best, answerVars>>

Respond ==
    /\ doing = "respond"
    /\ \/ Measured <= in.tokens /\ Measured = est /\ Answered
       \/ /\ Measured <= in.tokens /\ Measured # est
          /\ est' = Measured
          /\ UNCHANGED <<in, doing, buildVars, reserve, fits, best, kept, omitted>>
       \/ /\ Measured > in.tokens
          /\ LET less == Shed(Measured - in.tokens) IN
             IF less = kept THEN Answered
             ELSE /\ kept' = less /\ omitted' = Account(less)
                  /\ UNCHANGED <<in, doing, buildVars, reserve, fits, best, est>>

\* The same question is asked again.
Again ==
    /\ doing = "done"
    /\ doing' = "reserve"
    /\ n' = Nothing /\ carry' = 0 /\ at' = 1 /\ moved' = FALSE /\ round' = 1
    /\ reserve' = 0 /\ fits' = 1 /\ best' = NoBuild
    /\ kept' = Nothing /\ omitted' = [r \in RowSections |-> 0] /\ est' = 0
    /\ UNCHANGED in

PacketInit ==
    /\ in \in Inputs /\ doing = "reserve"
    /\ n = Nothing /\ carry = 0 /\ at = 1 /\ moved = FALSE /\ round = 1
    /\ reserve = 0 /\ fits = 1 /\ best = NoBuild
    /\ kept = Nothing /\ omitted = [r \in RowSections |-> 0] /\ est = 0

PacketNext ==
    Reserve \/ FillShare \/ Refill \/ Verify \/ Respond \/ Again

PacketSpec == PacketInit /\ [][PacketNext]_packetVars

----------------------------------------------------------------------------
PacketTypeOK ==
    /\ in \in Inputs
    /\ doing \in {"reserve", "first", "second", "verify", "respond", "done"}
    /\ n \in [Sections -> Nat] /\ n["target"] <= Units
    /\ carry \in Nat /\ at \in 1..Len(Order) /\ round \in 1..3
    /\ reserve \in Nat /\ fits \in 1..8
    /\ kept \in [Sections -> Nat] /\ omitted \in [RowSections -> Int]
    /\ est \in Nat

\* A build keeps to the budget of its sections, whatever the sections leave to
\* one another and take back, if the share of the target has room for its
\* frame.
BuildWithinBudget ==
    doing = "verify"
    /\ in.target[1] <= (SectionBudget * Shares["target"]) \div 100
    => AllBytes(n) <= SectionBudget

\* Empty, the packet fits.
EmptyFits == Tokens(PacketBytes(Nothing)) <= PacketBudget

\* The search for a reserve ends with a packet that fits whenever the empty
\* one does (the docstring of build_context_packet: "whenever that is
\* possible").
PacketFits ==
    doing = "respond" /\ EmptyFits => Tokens(PacketBytes(n)) <= PacketBudget

\* It does if the entries of files are no longer than it counts on, or if it
\* has not made all of its builds.
PacketFitsAsReserved == in.file <= EntryBytes \/ fits < 8 => PacketFits

\* The response fits the budget, and says its own size, whenever the response
\* around an empty packet does.
ResponseFits ==
    doing = "done"
    /\ Tokens(ResponseBytes(PacketBytes(Nothing), 0, 1000)) <= in.tokens
    => Measured <= in.tokens /\ est = Measured

\* Neither a section, nor the packet, nor the response exceeds its budget.
WithinBudget == BuildWithinBudget /\ PacketFitsAsReserved /\ ResponseFits

\* Every relation is shown or counted as left out: what does not fit as a
\* signature is still reachable as a compact reference.
RowsAccounted ==
    doing \in {"respond", "done"} =>
        kept["callees"] + kept["callers"] + kept["more"]
        + omitted["callees"] + omitted["callers"] + omitted["more"]
        = Len(in.callees) + Len(in.callers)
=============================================================================
