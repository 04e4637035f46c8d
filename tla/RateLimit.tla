----------------------------- MODULE RateLimit ------------------------------
(***************************************************************************)
(* The sliding window at the end of check_access.  The window is measured  *)
(* on the wall clock, which the operating system may set forward or back   *)
(* while the server runs.                                                  *)
(***************************************************************************)
EXTENDS Integers, Sequences, FiniteSets, SequencesExt

CONSTANTS
    Callers,      \* agents, and "anonymous" as one more
    Window,       \* the 60 s
    MaxCalls,     \* max_calls_per_minute
    Forward,      \* what the wall clock may be set forward by
    Backward,     \* what it may be set back by
    MaxSeconds,   \* bound of the model: how long it runs
    MaxJumps      \* bound of the model: how often the clock is set

ASSUME RateAssumption ==
    /\ Window \in Nat /\ MaxCalls \in Nat \ {0}
    /\ Forward \subseteq Nat \ {0} /\ Backward \subseteq Nat \ {0}
    /\ MaxSeconds \in Nat /\ MaxJumps \in Nat

VARIABLES
    wall,       \* time.time()
    elapsed,    \* seconds that really passed
    recent,     \* _call_history, a deque of wall times for each caller
    admitted,   \* history: when each caller's calls were really let in
    refused,    \* history: callers refused at this instant
    ahead, back,\* history: by how much the clock was set, in all
    jumps

rateVars == <<wall, elapsed, recent, admitted, refused, ahead, back, jumps>>

\* Mutant of Pruned: a call exactly one window old is dropped as well.
PrunedEarly(a) ==
    LET old == {i \in 0..Len(recent[a]) :
                   \A j \in 1..i : recent[a][j] <= wall - Window}
    IN  SubSeq(recent[a], 1 + (CHOOSE i \in old : \A j \in old : j <= i),
               Len(recent[a]))

\* The entries at the head of the deque that are strictly older than the
\* window go; what stands behind a younger one stays.
Pruned(a) ==
    LET old == {i \in 0..Len(recent[a]) :
                   \A j \in 1..i : recent[a][j] < wall - Window}
    IN  SubSeq(recent[a], 1 + (CHOOSE i \in old : \A j \in old : j <= i),
               Len(recent[a]))

AdmitCall(a) ==
    /\ Len(Pruned(a)) < MaxCalls
    /\ recent' = [recent EXCEPT ![a] = Append(Pruned(a), wall)]
    /\ admitted' = [admitted EXCEPT ![a] = Append(@, elapsed)]
    /\ UNCHANGED <<wall, elapsed, refused, ahead, back, jumps>>

\* A refused call is not recorded.
RefuseCall(a) ==
    /\ Len(Pruned(a)) >= MaxCalls
    /\ recent' = [recent EXCEPT ![a] = Pruned(a)]
    /\ refused' = refused \cup {a}
    /\ UNCHANGED <<wall, elapsed, admitted, ahead, back, jumps>>

SecondPasses ==
    /\ elapsed < MaxSeconds
    /\ elapsed' = elapsed + 1 /\ wall' = wall + 1
    /\ refused' = {}
    /\ UNCHANGED <<recent, admitted, ahead, back, jumps>>

SetForward(by) ==
    /\ jumps < MaxJumps
    /\ jumps' = jumps + 1
    /\ wall' = wall + by /\ ahead' = ahead + by
    /\ refused' = {}
    /\ UNCHANGED <<elapsed, recent, admitted, back>>

SetBack(by) ==
    /\ jumps < MaxJumps
    /\ jumps' = jumps + 1
    /\ wall' = wall - by /\ back' = back + by
    /\ refused' = {}
    /\ UNCHANGED <<elapsed, recent, admitted, ahead>>

RateInit ==
    /\ wall = 0 /\ elapsed = 0
    /\ recent = [a \in Callers |-> <<>>]
    /\ admitted = [a \in Callers |-> <<>>]
    /\ refused = {} /\ ahead = 0 /\ back = 0 /\ jumps = 0

RateNext ==
    \/ \E a \in Callers : AdmitCall(a) \/ RefuseCall(a)
    \/ SecondPasses
    \/ \E by \in Forward : SetForward(by)
    \/ \E by \in Backward : SetBack(by)

RateSpec == RateInit /\ [][RateNext]_rateVars

----------------------------------------------------------------------------
RateTypeOK ==
    /\ wall \in Int /\ elapsed \in 0..MaxSeconds
    /\ \A a \in Callers : /\ recent[a] \in Seq(Int)
                          /\ Len(recent[a]) <= MaxCalls
                          /\ admitted[a] \in Seq(0..elapsed)
    /\ refused \subseteq Callers /\ ahead \in Nat /\ back \in Nat /\ jumps \in 0..MaxJumps

\* Calls of a that were let in within the last n seconds.
LetIn(a, n) == {i \in DOMAIN admitted[a] : elapsed - admitted[a][i] <= n}

\* The limiter neither lets more than MaxCalls into one window nor refuses a
\* caller that has not used up its window, in seconds that really passed,
\* but for the time by which the wall clock was set forward or back.
RateBounded ==
    [][\A a \in Callers :
        /\ AdmitCall(a) => Cardinality(LetIn(a, Window - ahead)) < MaxCalls
        /\ RefuseCall(a) => Cardinality(LetIn(a, Window + back)) >= MaxCalls
      ]_rateVars
=============================================================================
