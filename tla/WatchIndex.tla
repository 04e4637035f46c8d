----------------------------- MODULE WatchIndex -----------------------------
(***************************************************************************)
(* token-context index --watch: one thread that indexes, waits for the     *)
(* tree to change and to settle, and indexes again, while the tree changes *)
(* at any time, also during a run.  A run reads the files one by one and   *)
(* publishes what it read.  Changes are noticed by comparing signatures of *)
(* the tree (the poll) or by events that watchdog delivers later.  A       *)
(* signature is taken in one step here: what changes behind it is noticed  *)
(* by the next one.                                                        *)
(***************************************************************************)
EXTENDS Integers

CONSTANTS
    Files,
    PollTick,    \* poll_seconds
    EventTick,   \* min(poll_seconds, 0.25)
    Debounce,    \* debounce_seconds; times are capped here
    MaxEdits     \* bound of the model: changes and other events

ASSUME WatchAssumption ==
    /\ PollTick \in Nat \ {0} /\ EventTick \in Nat \ {0}
    /\ Debounce \in Nat \ {0} /\ MaxEdits \in Nat

VARIABLES
    tree,        \* version of every file
    indexed,     \* the versions in the published snapshot
    source,      \* "poll" or "watchdog", by what is installed
    pc, first,   \* where the watcher is; whether in its first run
    copy, unread,     \* what a run has read, and the files it has not
    last,        \* _PollSource._last
    dirty,       \* _WatchdogSource._dirty
    pending,     \* an event of watchdog is on its way
    age,         \* clock() - last_change, None if there is none
    left,        \* of the wait for stop
    still,       \* history: how long the tree has been at rest
    owed,        \* history: files whose last change fell into a wait
    edits

treeVars == <<tree, still, owed, edits>>
runVars == <<indexed, first, copy, unread>>
vars == <<treeVars, runVars, source, pc, last, dirty, pending, age, left>>

None == -1

\* Mutant of Period: the events are looked at as seldom as the poll.
PeriodPoll == PollTick

\* The time of stop.wait.
Period == IF source = "poll" THEN PollTick ELSE EventTick
Older(t) == IF t < Debounce THEN t + 1 ELSE t

----------------------------------------------------------------------------
(* The tree, the events and the clock. *)

\* A file the index reads is written, created or removed.
Edit(f) ==
    /\ edits < MaxEdits
    /\ edits' = edits + 1
    /\ tree' = [tree EXCEPT ![f] = @ + 1]
    /\ still' = 0
    /\ owed' = IF pc = "wait" THEN owed \cup {f} ELSE owed \ {f}
    /\ pending' = (pending \/ (source = "watchdog" /\ ~first))
    /\ UNCHANGED <<runVars, source, pc, last, dirty, age, left>>

\* watchdog reports events of files the index does not read as well.
Noise ==
    /\ source = "watchdog" /\ ~first
    /\ edits < MaxEdits
    /\ edits' = edits + 1
    /\ pending' = TRUE
    /\ UNCHANGED <<tree, still, owed, runVars, source, pc, last, dirty, age,
                   left>>

Deliver ==
    /\ pending
    /\ pending' = FALSE
    /\ dirty' = TRUE
    /\ UNCHANGED <<treeVars, runVars, source, pc, last, age, left>>

Elapse ==
    /\ still' = Older(still)
    /\ age' = IF age = None THEN None ELSE Older(age)
    /\ left' = IF left > 0 THEN left - 1 ELSE 0
    /\ UNCHANGED <<tree, owed, edits, runVars, source, pc, last, dirty,
                   pending>>

----------------------------------------------------------------------------
(* An index run. *)

BeginRun ==
    /\ pc' = "run"
    /\ unread' = Files
    /\ UNCHANGED <<indexed, first, copy>>

Read(f) ==
    /\ pc = "run" /\ f \in unread
    /\ copy' = [copy EXCEPT ![f] = tree[f]]
    /\ unread' = unread \ {f}
    /\ UNCHANGED <<treeVars, indexed, first, source, pc, last, dirty, pending,
                   age, left>>

Publish ==
    /\ pc = "run" /\ unread = {}
    /\ indexed' = copy
    /\ pc' = IF first THEN "open" ELSE "discard"
    /\ UNCHANGED <<treeVars, first, copy, unread, source, last, dirty, pending,
                   age, left>>

----------------------------------------------------------------------------
(* The watcher. *)

\* The source's changed(): whether there was a change, which it forgets.
Changed == IF source = "poll" THEN last # tree ELSE dirty

Absorb ==
    /\ last' = IF source = "poll" THEN tree ELSE last
    /\ dirty' = FALSE

\* The constructor of the source.
OpenSource ==
    /\ pc = "open"
    /\ Absorb
    /\ first' = FALSE
    /\ pc' = "wait" /\ left' = Period
    /\ UNCHANGED <<treeVars, indexed, copy, unread, source, pending, age>>

\* Mutant of Notice: only the first change opens the window.
NoticeFirst ==
    /\ pc = "wait" /\ left = 0 /\ Changed
    /\ Absorb
    /\ age' = IF age = None THEN 0 ELSE age
    /\ left' = Period
    /\ UNCHANGED <<treeVars, runVars, source, pc, pending>>

\* Mutant of Notice: the change is reported again and again.
NoticeForever ==
    /\ pc = "wait" /\ left = 0 /\ Changed
    /\ age' = 0
    /\ left' = Period
    /\ UNCHANGED <<treeVars, runVars, source, pc, last, dirty, pending>>

\* Every change restarts the window.
Notice ==
    /\ pc = "wait" /\ left = 0 /\ Changed
    /\ Absorb
    /\ age' = 0
    /\ left' = Period
    /\ UNCHANGED <<treeVars, runVars, source, pc, pending>>

Settled == age # None /\ age >= Debounce

Idle ==
    /\ pc = "wait" /\ left = 0 /\ ~Changed /\ ~Settled
    /\ left' = Period
    /\ UNCHANGED <<treeVars, runVars, source, pc, last, dirty, pending, age>>

StartRun ==
    /\ pc = "wait" /\ left = 0 /\ ~Changed /\ Settled
    /\ age' = None
    /\ BeginRun
    /\ UNCHANGED <<treeVars, source, last, dirty, pending, left>>

\* Mutant of Discard: the call of changed() after the run is left out.
KeepReport ==
    /\ pc = "discard"
    /\ pc' = "wait" /\ left' = Period
    /\ UNCHANGED <<treeVars, runVars, source, last, dirty, pending, age>>

\* What changed during the run is taken for the run's own doing.
Discard ==
    /\ pc = "discard"
    /\ Absorb
    /\ pc' = "wait" /\ left' = Period
    /\ UNCHANGED <<treeVars, runVars, source, pending, age>>

\* The user stops the watcher, or a run or the source raises.
End ==
    /\ pc # "ended"
    /\ pc' = "ended"
    /\ UNCHANGED <<treeVars, runVars, source, last, dirty, pending, age, left>>

----------------------------------------------------------------------------
Init ==
    /\ tree = [f \in Files |-> 0]
    /\ indexed = [f \in Files |-> None]
    /\ copy = [f \in Files |-> None]
    /\ source \in {"poll", "watchdog"}
    /\ pc = "run" /\ first = TRUE /\ unread = Files
    /\ last = tree
    /\ dirty = FALSE /\ pending = FALSE
    /\ age = None /\ left = 0 /\ still = 0
    /\ owed = {} /\ edits = 0

Watcher ==
    \/ \E f \in Files : Read(f)
    \/ Publish \/ OpenSource \/ Notice \/ Idle \/ StartRun \/ Discard

Next ==
    \/ \E f \in Files : Edit(f)
    \/ Noise \/ Deliver \/ Elapse \/ Watcher \/ End

\* The watcher is a thread that goes on until it is stopped, runs end, time
\* passes and events arrive.
Spec ==
    /\ Init /\ [][Next]_vars
    /\ WF_vars(Watcher) /\ WF_vars(Elapse) /\ WF_vars(Deliver)

----------------------------------------------------------------------------
TypeOK ==
    /\ tree \in [Files -> 0..MaxEdits] /\ last \in [Files -> 0..MaxEdits]
    /\ indexed \in [Files -> 0..MaxEdits \cup {None}]
    /\ copy \in [Files -> 0..MaxEdits \cup {None}]
    /\ source \in {"poll", "watchdog"}
    /\ pc \in {"run", "open", "wait", "discard", "ended"}
    /\ first \in BOOLEAN /\ dirty \in BOOLEAN /\ pending \in BOOLEAN
    /\ first \/ source = "poll" => ~pending /\ ~dirty
    /\ unread \subseteq Files /\ owed \subseteq Files
    /\ age \in 0..Debounce \cup {None} /\ still \in 0..Debounce
    /\ left \in 0..(IF source = "poll" THEN PollTick ELSE EventTick)
    /\ edits \in 0..MaxEdits

\* With the poll, a run begins only when the tree has been at rest for the
\* whole window, whenever the changes fell between the polls.
RunsQuiet == [][StartRun /\ source = "poll" => still >= Debounce]_vars

\* With the poll, no run begins for nothing: the published snapshot is behind
\* the tree whenever a run begins, however changes fell into earlier runs.
NoIdleRun == [][StartRun /\ source = "poll" => indexed # tree]_vars

\* A change that comes while the watcher waits is in a published snapshot
\* some day, unless the file changes again later or the watcher ends.
WaitingChangeIndexed ==
    \A f \in Files :
        f \in owed ~> indexed[f] = tree[f] \/ f \notin owed \/ pc = "ended"

\* What the source says of the watcher ("re-index whenever the tree changes
\* and settles"): every change is in a published snapshot some day.
EveryChangeIndexed ==
    \A f \in Files :
        indexed[f] # tree[f] ~> indexed[f] = tree[f] \/ pc = "ended"
=============================================================================
