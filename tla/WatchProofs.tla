----------------------------- MODULE WatchProofs -----------------------------
(***************************************************************************)
(* What works in the background: the watcher of a repository (WatchIndex), *)
(* the worker of the audit log (AuditLog), for any number of files and of  *)
(* entries, any periods, any window and any batches; the index run of the  *)
(* desktop application (IndexJob) and its view of the emergency stop       *)
(* (SecurityView), for any number of orders and failures.                  *)
(***************************************************************************)
EXTENDS MCWatch, SubsequencesProofs

----------------------------------------------------------------------------
(* With the poll, index --watch runs only when the tree has been at rest   *)
(* for the whole window and only when the published snapshot is behind the *)
(* tree, for any number of files, any periods and any window.  The         *)
(* argument: versions only grow, so that a changed tree cannot look like   *)
(* an older one (Behind); while the poll saw no change, the window is no   *)
(* older than the tree's rest (Rested); and a change that the poll has     *)
(* noticed, or is going to, is not in the snapshot (Owing).                *)

\* No file has had more versions than there were edits.
Counted == \A f \in Files : tree[f] <= edits

\* Every earlier look at a file saw no later version.
Behind ==
    \A f \in Files :
        last[f] <= tree[f] /\ copy[f] <= tree[f] /\ indexed[f] <= tree[f]

\* A run, and the calls of changed() around it, leave no window open.
NoWindow == pc \in {"run", "open", "discard"} => age = None

Rested == source = "poll" /\ last = tree /\ age # None => age <= still

Owing ==
    source = "poll" /\ pc = "wait" /\ (last # tree \/ age # None)
        => indexed # tree

WatchIInv == TypeOK /\ Counted /\ Behind /\ NoWindow /\ Rested /\ Owing

LEMMA WatchConstants ==
    /\ PollTick \in Nat /\ EventTick \in Nat /\ Debounce \in Nat
    /\ Debounce > 0 /\ MaxEdits \in Nat
  BY WatchAssumption DEF WatchAssumption

----------------------------------------------------------------------------
(* What the flags are, and the rest of the type invariant. *)

Flags ==
    /\ first \in BOOLEAN /\ dirty \in BOOLEAN /\ pending \in BOOLEAN
    /\ first \/ source = "poll" => ~pending /\ ~dirty

Shape ==
    /\ tree \in [Files -> 0..MaxEdits] /\ last \in [Files -> 0..MaxEdits]
    /\ indexed \in [Files -> 0..MaxEdits \cup {None}]
    /\ copy \in [Files -> 0..MaxEdits \cup {None}]
    /\ source \in {"poll", "watchdog"}
    /\ pc \in {"run", "open", "wait", "discard", "ended"}
    /\ unread \subseteq Files /\ owed \subseteq Files
    /\ age \in 0..Debounce \cup {None} /\ still \in 0..Debounce
    /\ left \in 0..(IF source = "poll" THEN PollTick ELSE EventTick)
    /\ edits \in 0..MaxEdits

LEMMA TypeParts == TypeOK <=> Shape /\ Flags
  BY Zenon DEF TypeOK, Shape, Flags

LEMMA WatchInvInit == Init => WatchIInv
<1> SUFFICES ASSUME Init PROVE WatchIInv
  OBVIOUS
<1>1. Shape
  BY WatchConstants DEF Init, Shape, None
<1>2. Flags
  BY Zenon DEF Init, Flags
<1>3. Counted /\ Behind /\ NoWindow /\ Rested /\ Owing
  BY DEF Init, Counted, Behind, NoWindow, Rested, Owing, None
<1> QED
  BY <1>1, <1>2, <1>3, TypeParts DEF WatchIInv

LEMMA FlagsStep == Flags /\ [Next]_vars => Flags'
<1> SUFFICES ASSUME Flags, [Next]_vars PROVE Flags'
  OBVIOUS
<1> USE DEF Flags, treeVars, runVars
<1>1. ASSUME NEW f \in Files, Edit(f) PROVE Flags'
  <2>1. /\ pending' = (pending \/ (source = "watchdog" /\ ~first))
        /\ UNCHANGED <<first, source, dirty>>
    BY <1>1 DEF Edit
  <2>2. pending' \in BOOLEAN
    BY <2>1
  <2>3. first \/ source = "poll" => pending' = pending
    BY <2>1
  <2> QED
    BY <2>1, <2>2, <2>3, Zenon
<1>2. CASE Noise
  BY <1>2, Zenon DEF Noise
<1>3. CASE Deliver
  BY <1>3, Zenon DEF Deliver
<1>4. CASE OpenSource
  <2>1. first' = FALSE /\ dirty' = FALSE /\ UNCHANGED <<source, pending>>
    BY <1>4, Zenon DEF OpenSource, Absorb
  <2> QED
    BY <2>1, Zenon
<1>5. CASE Notice \/ Discard
  <2>1. dirty' = FALSE /\ UNCHANGED <<first, source, pending>>
    BY <1>5, Zenon DEF Notice, Discard, Absorb
  <2> QED
    BY <2>1, Zenon
<1>6. ASSUME UNCHANGED <<first, source, dirty, pending>> PROVE Flags'
  BY <1>6, Zenon
<1> QED
  BY <1>1, <1>2, <1>3, <1>4, <1>5, <1>6
     DEF Next, Watcher, Elapse, Read, Publish, Idle, StartRun, BeginRun, End, vars

LEMMA ShapeStep == Shape /\ Counted /\ [Next]_vars => Shape' /\ Counted'
<1> SUFFICES ASSUME Shape, Counted, [Next]_vars PROVE Shape' /\ Counted'
  OBVIOUS
<1> USE WatchConstants DEF Shape, Counted, None, treeVars, runVars, Period, Absorb
<1>1. ASSUME NEW f \in Files, Edit(f) PROVE Shape' /\ Counted'
  <2>1. /\ edits < MaxEdits /\ edits' = edits + 1
        /\ tree' = [tree EXCEPT ![f] = @ + 1] /\ still' = 0
        /\ owed' = IF pc = "wait" THEN owed \cup {f} ELSE owed \ {f}
        /\ UNCHANGED <<indexed, copy, unread, source, pc, last, age, left>>
    BY <1>1, Zenon DEF Edit
  <2> QED
    BY <2>1
<1>2. CASE Noise \/ Deliver
  BY <1>2 DEF Noise, Deliver
<1>3. CASE Elapse
  BY <1>3 DEF Elapse, Older
<1>4. ASSUME NEW f \in Files, Read(f) PROVE Shape' /\ Counted'
  BY <1>4 DEF Read
<1>5. CASE Publish
  BY <1>5 DEF Publish
<1>6. CASE OpenSource
  BY <1>6 DEF OpenSource
<1>7. CASE Notice \/ Idle
  BY <1>7 DEF Notice, Idle
<1>8. CASE StartRun
  BY <1>8 DEF StartRun, BeginRun
<1>9. CASE Discard
  BY <1>9 DEF Discard
<1>10. CASE End \/ UNCHANGED vars
  BY <1>10 DEF End, vars
<1> QED
  BY <1>1, <1>2, <1>3, <1>4, <1>5, <1>6, <1>7, <1>8, <1>9, <1>10
     DEF Next, Watcher

----------------------------------------------------------------------------
LEMMA WatchInvStep == WatchIInv /\ [Next]_vars => WatchIInv'
<1> SUFFICES ASSUME WatchIInv, [Next]_vars PROVE WatchIInv'
  OBVIOUS
<1>s. Shape /\ Shape' /\ Counted'
  BY TypeParts, ShapeStep DEF WatchIInv
<1>t. TypeOK'
  <2>1. TypeOK' <=> Shape' /\ Flags'
    BY Zenon DEF TypeOK, Shape, Flags
  <2> QED
    BY <1>s, <2>1, TypeParts, FlagsStep DEF WatchIInv
<1> USE WatchConstants, <1>t, <1>s
    DEF WatchIInv, Shape, Behind, NoWindow, Rested, Owing, None, treeVars, runVars
<1>1. ASSUME NEW f \in Files, Edit(f) PROVE WatchIInv'
  \* The file's new version is later than all that was seen of it.
  <2>1. /\ tree'[f] = tree[f] + 1
        /\ \A g \in Files : tree[g] <= tree'[g]
        /\ UNCHANGED <<last, copy, indexed, source, pc, age>>
    BY <1>1 DEF Edit
  <2>2. last' # tree' /\ indexed' # tree'
    BY <2>1
  <2> QED
    BY <2>1, <2>2
<1>2. CASE Elapse
  <2>1. age' # None => age # None /\ (age <= still => age' <= still')
    BY <1>2 DEF Elapse, Older
  <2> QED
    BY <1>2, <2>1 DEF Elapse
<1>3. ASSUME NEW f \in Files, Read(f) PROVE WatchIInv'
  BY <1>3 DEF Read
<1>4. CASE Publish
  BY <1>4 DEF Publish
<1>5. CASE OpenSource \/ Discard
  BY <1>5 DEF OpenSource, Discard, Absorb
<1>6. CASE Notice
  BY <1>6 DEF Notice, Absorb, Changed
<1>7. CASE StartRun
  BY <1>7 DEF StartRun, BeginRun
<1>8. CASE Noise \/ Deliver \/ Idle \/ End \/ UNCHANGED vars
  BY <1>8 DEF Noise, Deliver, Idle, End, vars
<1> QED
  BY <1>1, <1>2, <1>3, <1>4, <1>5, <1>6, <1>7, <1>8 DEF Next, Watcher

LEMMA WatchInv == Spec => []WatchIInv
  BY WatchInvInit, WatchInvStep, PTL DEF Spec

\* Every state of the watcher is well typed: the poll has no events, and no
\* wait is longer than the source's period.
THEOREM WatchTyped == Spec => []TypeOK
<1>1. WatchIInv => TypeOK
  BY DEF WatchIInv
<1> QED
  BY <1>1, WatchInv, PTL

\* With the poll, a run begins only after a whole window of rest, wherever the
\* changes fell between the polls.
THEOREM WatchRunsQuiet == Spec => RunsQuiet
<1>1. WatchIInv /\ [Next]_vars
          => [StartRun /\ source = "poll" => still >= Debounce]_vars
  BY WatchConstants, TypeParts DEF WatchIInv, Shape, Rested, None, StartRun, Changed, Settled
<1> QED
  BY <1>1, WatchInv, PTL DEF Spec, RunsQuiet

\* With the poll, a run begins only when the snapshot is behind the tree,
\* whatever changed during earlier runs.
THEOREM WatchNoIdleRun == Spec => NoIdleRun
<1>1. WatchIInv /\ [Next]_vars
          => [StartRun /\ source = "poll" => indexed # tree]_vars
  BY DEF WatchIInv, Owing, StartRun, Settled
<1> QED
  BY <1>1, WatchInv, PTL DEF Spec, NoIdleRun

----------------------------------------------------------------------------
(* AuditLog: no entry is lost, doubled or late, for any number of writers,  *)
(* entries and failures and any size of a batch.  The argument: only the    *)
(* holder of the lock has entries in a batch (Locked), so that a flush that *)
(* has the lock finds in the queue whatever is not handled; an entry that a *)
(* close or a query is to see is never behind the sentinel (Unobstructed),  *)
(* so that the flush has taken it when it ends (Underway).                  *)

InQueue == ToSet(queue) \ {Sentinel}
InBatch(t) == ToSet(batch[t])
InRows == ToSet(rows)

AuditSteps == {"idle", "put", "loop", "flush", "take", "insert", "ended", "unlist",
          "sentinel", "join", "done", "select"}

AuditShape ==
    /\ queue \in Seq(Nat) /\ rows \in Seq(Nat)
    /\ batch \in [Flushers -> Seq(Nat)]
    /\ clock \in 0..MaxEntries /\ stamp \in [Writers -> 0..MaxEntries]
    /\ closed \in BOOLEAN /\ listed \in BOOLEAN /\ connected \in BOOLEAN
    /\ holder \in Flushers \cup {Nobody}
    /\ at \in [Writers \cup Flushers -> AuditSteps]
    /\ since \in [{Closer, Querier} -> SUBSET Nat]

\* A stamp that is about to be queued is that of one writer.
Stamped ==
    /\ \A w \in Writers : At(w, "put") => stamp[w] \in 1..clock
    /\ \A w, v \in Writers :
          At(w, "put") /\ At(v, "put") /\ stamp[w] = stamp[v] => w = v

Flushing(t) == at[t] \in {"take", "insert"}
Locked ==
    \A t \in Flushers :
        /\ Flushing(t) => holder = t
        /\ ~ Flushing(t) => batch[t] = <<>>

\* Every entry is in one place, and in it once.
Once ==
    /\ \A i, j \in 1..Len(queue) : queue[i] = queue[j] => i = j \/ queue[i] = Sentinel
    /\ \A i, j \in 1..Len(rows) : rows[i] = rows[j] => i = j
    /\ \A t \in Flushers : \A i, j \in 1..Len(batch[t]) :
          batch[t][i] = batch[t][j] => i = j

Apart ==
    /\ InQueue \cap InRows = {} /\ InQueue \cap dropped = {} /\ InQueue \cap purged = {}
    /\ InRows \cap dropped = {} /\ InRows \cap purged = {} /\ dropped \cap purged = {}
    /\ \A t \in Flushers :
          /\ InBatch(t) \cap InQueue = {} /\ InBatch(t) \cap InRows = {}
          /\ InBatch(t) \cap dropped = {} /\ InBatch(t) \cap purged = {}
          /\ \A u \in Flushers : u # t => InBatch(t) \cap InBatch(u) = {}

Everywhere == InQueue \cup Handled \cup UNION {InBatch(t) : t \in Flushers}
All == Everywhere = Queued

\* The sentinel has what close and queries wait for in front of it.
Unobstructed ==
    /\ listed <=> at[Closer] \in {"idle", "unlist"}
    /\ \A t \in {Closer, Querier} : since[t] \subseteq Queued
    /\ \A i \in 1..Len(queue) : queue[i] = Sentinel =>
          /\ ~ listed
          /\ \A j \in 1..Len(queue), t \in {Closer, Querier} :
                i < j => queue[j] \notin since[t]

Underway ==
    \A t \in {Closer, Querier} :
        /\ At(t, "take") => since[t] \subseteq InQueue \cup InBatch(t) \cup Handled
        /\ At(t, "insert") => since[t] \subseteq InBatch(t) \cup Handled

AuditInv ==
    /\ AuditShape /\ Stamped /\ Locked /\ Once /\ Apart /\ All
    /\ Unobstructed /\ Underway /\ FlushedInTime

LEMMA AuditConstants ==
    /\ MaxEntries \in Nat /\ BatchSize \in Nat /\ BatchSize > 0 /\ Sentinel = 0
    /\ Worker # Closer /\ Worker # Querier /\ Closer # Querier
    /\ Worker \notin Writers /\ Closer \notin Writers /\ Querier \notin Writers
    /\ Nobody \notin Flushers
  BY AuditAssumption DEF AuditAssumption, Nobody, Flushers, Sentinel

----------------------------------------------------------------------------
(* Sequences as the places of entries *)

LEMMA ItemsOf ==
    ASSUME NEW s \in Seq(Nat)
    PROVE  /\ Len(s) \in Nat /\ DOMAIN s = 1..Len(s)
           /\ ToSet(s) = {s[i] : i \in 1..Len(s)} /\ ToSet(s) \subseteq Nat
           /\ \A i \in 1..Len(s) : s[i] \in Nat
           /\ s = <<>> <=> ToSet(s) = {}
  BY LenProperties, ElementOfSeq, EmptySeq DEF ToSet

LEMMA ItemsOfAppend ==
    ASSUME NEW s \in Seq(Nat), NEW x \in Nat
    PROVE  Append(s, x) \in Seq(Nat) /\ ToSet(Append(s, x)) = ToSet(s) \cup {x}
<1>1. /\ Append(s, x) \in Seq(Nat) /\ Len(Append(s, x)) = Len(s) + 1
      /\ \A i \in 1..Len(s) : Append(s, x)[i] = s[i]
      /\ Append(s, x)[Len(s) + 1] = x
  BY AppendProperties
<1>2. /\ ToSet(Append(s, x)) = {Append(s, x)[i] : i \in 1..Len(Append(s, x))}
      /\ ToSet(s) = {s[i] : i \in 1..Len(s)} /\ Len(s) \in Nat
  BY <1>1, ItemsOf
<1>3. 1..Len(Append(s, x)) = 1..Len(s) \cup {Len(s) + 1}
  BY <1>1, <1>2
<1> QED
  BY <1>1, <1>2, <1>3

LEMMA ItemsOfTail ==
    ASSUME NEW s \in Seq(Nat), s # <<>>
    PROVE  /\ Head(s) \in Nat /\ Head(s) = s[1] /\ 1 \in 1..Len(s)
           /\ Tail(s) \in Seq(Nat) /\ Len(Tail(s)) = Len(s) - 1
           /\ \A i \in 1..Len(Tail(s)) : i + 1 \in 1..Len(s) /\ Tail(s)[i] = s[i + 1]
           /\ ToSet(s) = {Head(s)} \cup ToSet(Tail(s))
<1>1. /\ Head(s) \in Nat /\ Tail(s) \in Seq(Nat) /\ Len(Tail(s)) = Len(s) - 1
      /\ \A i \in 1..Len(Tail(s)) : Tail(s)[i] = s[i + 1]
      /\ Head(s) = s[1] /\ Len(s) \in Nat /\ Len(s) # 0
  BY HeadTailProperties, EmptySeq, LenProperties
<1>2. /\ ToSet(Tail(s)) = {Tail(s)[i] : i \in 1..Len(Tail(s))}
      /\ ToSet(s) = {s[i] : i \in 1..Len(s)}
  BY <1>1, ItemsOf
<1>3. \A i \in 1..Len(s) : i = 1 \/ (i - 1 \in 1..Len(Tail(s)) /\ (i - 1) + 1 = i)
  BY <1>1
<1>4. 1 \in 1..Len(s) /\ \A i \in 1..Len(Tail(s)) : i + 1 \in 1..Len(s)
  BY <1>1
<1>5. ASSUME NEW i \in 1..Len(s) PROVE s[i] \in {Head(s)} \cup ToSet(Tail(s))
  <2>1. CASE i = 1
    BY <1>1, <2>1
  <2>2. CASE i - 1 \in 1..Len(Tail(s)) /\ (i - 1) + 1 = i
    <3>1. Tail(s)[i - 1] = s[i]
      BY <1>1, <2>2
    <3> QED
      BY <1>2, <2>2, <3>1
  <2> QED
    BY <1>3, <2>1, <2>2
<1> QED
  BY <1>1, <1>2, <1>4, <1>5

LEMMA ItemsOfConcat ==
    ASSUME NEW s \in Seq(Nat), NEW r \in Seq(Nat)
    PROVE  s \o r \in Seq(Nat) /\ ToSet(s \o r) = ToSet(s) \cup ToSet(r)
<1>1. /\ s \o r \in Seq(Nat) /\ Len(s \o r) = Len(s) + Len(r)
      /\ \A i \in 1..Len(s \o r) :
            (s \o r)[i] = IF i <= Len(s) THEN s[i] ELSE r[i - Len(s)]
  BY ConcatProperties
<1>2. /\ ToSet(s \o r) = {(s \o r)[i] : i \in 1..Len(s \o r)}
      /\ ToSet(s) = {s[i] : i \in 1..Len(s)} /\ Len(s) \in Nat
      /\ ToSet(r) = {r[i] : i \in 1..Len(r)} /\ Len(r) \in Nat
  BY <1>1, ItemsOf
<1>3. ASSUME NEW i \in 1..Len(s \o r) PROVE (s \o r)[i] \in ToSet(s) \cup ToSet(r)
  BY <1>1, <1>2
<1>4. ASSUME NEW i \in 1..Len(s) PROVE s[i] \in ToSet(s \o r)
  <2>1. i \in 1..Len(s \o r) /\ (s \o r)[i] = s[i]
    BY <1>1, <1>2
  <2> QED
    BY <1>2, <2>1
<1>5. ASSUME NEW i \in 1..Len(r) PROVE r[i] \in ToSet(s \o r)
  <2>1. PICK n : n = Len(s) + i
    OBVIOUS
  <2>2. n \in 1..Len(s \o r) /\ ~ (n <= Len(s)) /\ n - Len(s) = i
    BY <1>1, <1>2, <2>1
  <2>3. (s \o r)[n] = r[i]
    BY <1>1, <2>2
  <2> QED
    BY <1>2, <2>2, <2>3
<1>6. ToSet(s \o r) \subseteq ToSet(s) \cup ToSet(r)
  <2>1. \A x \in ToSet(s \o r) : \E i \in 1..Len(s \o r) : x = (s \o r)[i]
    BY <1>2
  <2> QED
    BY <1>3, <2>1, Zenon
<1>7. ToSet(s) \subseteq ToSet(s \o r)
  <2>1. \A x \in ToSet(s) : \E i \in 1..Len(s) : x = s[i]
    BY <1>2
  <2> QED
    BY <1>4, <2>1, Zenon
<1>8. ToSet(r) \subseteq ToSet(s \o r)
  <2>1. \A x \in ToSet(r) : \E i \in 1..Len(r) : x = r[i]
    BY <1>2
  <2> QED
    BY <1>5, <2>1, Zenon
<1> QED
  BY <1>1, <1>6, <1>7, <1>8, Zenon

\* Items that come once still do.
LEMMA OnceAppended ==
    ASSUME NEW s \in Seq(Nat), NEW x \in Nat, x \notin ToSet(s) \/ x = Sentinel,
           \A i, j \in 1..Len(s) : s[i] = s[j] => i = j \/ s[i] = Sentinel
    PROVE  \A i, j \in 1..Len(Append(s, x)) :
               Append(s, x)[i] = Append(s, x)[j] => i = j \/ Append(s, x)[i] = Sentinel
<1>1. /\ Len(Append(s, x)) = Len(s) + 1 /\ Len(s) \in Nat
      /\ \A i \in 1..Len(s) : Append(s, x)[i] = s[i]
      /\ Append(s, x)[Len(s) + 1] = x
  BY AppendProperties, LenProperties
<1>2. \A i \in 1..Len(s) : s[i] = x => x = Sentinel
  BY ItemsOf
<1>3. \A i \in 1..Len(Append(s, x)) : i \in 1..Len(s) \/ i = Len(s) + 1
  BY <1>1
<1> QED
  BY <1>1, <1>2, <1>3

LEMMA OnceConcatenated ==
    ASSUME NEW s \in Seq(Nat), NEW r \in Seq(Nat), ToSet(s) \cap ToSet(r) = {},
           \A i, j \in 1..Len(s) : s[i] = s[j] => i = j,
           \A i, j \in 1..Len(r) : r[i] = r[j] => i = j
    PROVE  \A i, j \in 1..Len(s \o r) : (s \o r)[i] = (s \o r)[j] => i = j
<1>1. /\ Len(s \o r) = Len(s) + Len(r) /\ Len(s) \in Nat /\ Len(r) \in Nat
      /\ \A i \in 1..Len(s \o r) :
            (s \o r)[i] = IF i <= Len(s) THEN s[i] ELSE r[i - Len(s)]
  BY ConcatProperties, LenProperties
<1>2. \A i \in 1..Len(s), j \in 1..Len(r) : s[i] # r[j]
  <2>1. \A i \in 1..Len(s) : s[i] \in ToSet(s)
    BY ItemsOf
  <2>2. \A j \in 1..Len(r) : r[j] \in ToSet(r)
    BY ItemsOf
  <2> QED
    BY <2>1, <2>2
<1>3. \A i \in 1..Len(s \o r) :
          \/ i \in 1..Len(s) /\ (s \o r)[i] = s[i]
          \/ i - Len(s) \in 1..Len(r) /\ (s \o r)[i] = r[i - Len(s)]
  BY <1>1
<1> SUFFICES ASSUME NEW i \in 1..Len(s \o r), NEW j \in 1..Len(s \o r),
                    (s \o r)[i] = (s \o r)[j]
             PROVE  i = j
  OBVIOUS
<1>4. CASE i \in 1..Len(s) /\ (s \o r)[i] = s[i]
  <2>1. j \in 1..Len(s) /\ (s \o r)[j] = s[j]
    BY <1>2, <1>3, <1>4
  <2> QED
    BY <1>4, <2>1
<1>5. CASE i - Len(s) \in 1..Len(r) /\ (s \o r)[i] = r[i - Len(s)]
  <2>1. j - Len(s) \in 1..Len(r) /\ (s \o r)[j] = r[j - Len(s)]
    BY <1>2, <1>3, <1>5
  <2>2. i - Len(s) = j - Len(s)
    BY <1>5, <2>1
  <2> QED
    BY <1>1, <2>2
<1> QED
  BY <1>3, <1>4, <1>5

----------------------------------------------------------------------------
(* The steps *)

LEMMA AuditInit_Inv == AuditInit => AuditInv
<1> SUFFICES ASSUME AuditInit PROVE AuditInv
  OBVIOUS
<1> USE AuditConstants DEF AuditInit
<1>0. ToSet(<<>>) = {} /\ <<>> \in Seq(Nat) /\ Len(<<>>) = 0
  BY ItemsOf, EmptySeq
<1>1. AuditShape
  <2>1. batch \in [Flushers -> Seq(Nat)] /\ queue \in Seq(Nat) /\ rows \in Seq(Nat)
    BY <1>0
  <2>2. clock \in 0..MaxEntries /\ stamp \in [Writers -> 0..MaxEntries]
    OBVIOUS
  <2>3. at \in [Writers \cup Flushers -> AuditSteps]
    BY DEF AuditSteps
  <2>4. since \in [{Closer, Querier} -> SUBSET Nat]
    OBVIOUS
  <2> QED
    BY <2>1, <2>2, <2>3, <2>4 DEF AuditShape
<1>2. Stamped /\ Locked
  BY DEF Stamped, Locked, Flushing, At, Flushers
<1>3. Once /\ Apart
  BY <1>0 DEF Once, Apart, InQueue, InRows, InBatch
<1>4. All
  BY <1>0 DEF All, Everywhere, InQueue, Handled, InBatch, Queued
<1>5. Unobstructed /\ Underway /\ FlushedInTime
  BY <1>0 DEF Unobstructed, Underway, FlushedInTime, At, Flushers
<1> QED
  BY <1>1, <1>2, <1>3, <1>4, <1>5 DEF AuditInv

LEMMA GoingOn ==
    ASSUME AuditShape, NEW t \in Writers \cup Flushers, NEW there \in AuditSteps, Go(t, there)
    PROVE  /\ at' \in [Writers \cup Flushers -> AuditSteps]
           /\ at'[t] = there
           /\ \A u \in Writers \cup Flushers : u # t => at'[u] = at[u]
  BY DEF AuditShape, Go

LEMMA AuditShapeStep ==
    ASSUME AuditShape, AuditNext PROVE AuditShape'
<1> USE AuditConstants
<1>0. /\ Writers \cup Flushers = Writers \cup {Worker, Closer, Querier}
      /\ Flushers = {Worker, Closer, Querier}
  BY DEF Flushers
<1>1. ASSUME NEW w \in Writers, LogCheck(w) PROVE AuditShape'
  <2>1. clock' \in 0..MaxEntries
    BY <1>1 DEF LogCheck, AuditShape
  <2>2. stamp' \in [Writers -> 0..MaxEntries]
    BY <1>1, <2>1 DEF LogCheck, AuditShape
  <2>3. at' \in [Writers \cup Flushers -> AuditSteps]
    BY <1>1, GoingOn DEF LogCheck, AuditSteps
  <2> QED
    BY <1>1, <2>1, <2>2, <2>3 DEF LogCheck, AuditShape
<1>2. ASSUME NEW w \in Writers, LogPut(w) PROVE AuditShape'
  <2>1. queue' \in Seq(Nat)
    <3>1. stamp[w] \in Nat
      BY DEF AuditShape
    <3> QED
      BY <1>2, <3>1, ItemsOfAppend DEF LogPut, AuditShape
  <2>2. at' \in [Writers \cup Flushers -> AuditSteps]
    BY <1>2, GoingOn DEF LogPut, AuditSteps
  <2> QED
    BY <1>2, <2>1, <2>2 DEF LogPut, AuditShape
<1>3. ASSUME NEW t \in Flushers, Acquire(t) PROVE AuditShape'
  <2>1. batch' \in [Flushers -> Seq(Nat)]
    BY <1>3, EmptySeq DEF Acquire, AuditShape
  <2>2. at' \in [Writers \cup Flushers -> AuditSteps]
    BY <1>3, GoingOn DEF Acquire, AuditSteps
  <2> QED
    BY <1>3, <2>1, <2>2 DEF Acquire, AuditShape
<1>4. ASSUME NEW t \in Flushers, Take(t) PROVE AuditShape'
  <2>1. queue \in Seq(Nat) /\ queue # <<>> /\ queue' = Tail(queue)
    BY <1>4 DEF Take, AuditShape
  <2>2. queue' \in Seq(Nat) /\ Head(queue) \in Nat
    BY <2>1, ItemsOfTail
  <2>3. batch' \in [Flushers -> Seq(Nat)]
    <3>1. Append(batch[t], Head(queue)) \in Seq(Nat)
      BY <2>2, ItemsOfAppend DEF AuditShape
    <3> QED
      BY <1>4, <3>1 DEF Take, AuditShape
  <2>4. at' \in [Writers \cup Flushers -> AuditSteps]
    <3>1. "insert" \in AuditSteps
      BY DEF AuditSteps
    <3> QED
      BY <1>4, <3>1, GoingOn DEF Take, AuditShape
  <2> QED
    BY <1>4, <2>2, <2>3, <2>4 DEF Take, AuditShape
<1>5. ASSUME NEW t \in Flushers, TakeEnds(t) PROVE AuditShape'
  <2>2. at' \in [Writers \cup Flushers -> AuditSteps]
    BY <1>5, GoingOn DEF TakeEnds, AuditSteps
  <2> QED
    BY <1>5, <2>2 DEF TakeEnds, AuditShape
<1>6. ASSUME NEW t \in Flushers, Insert(t) PROVE AuditShape'
  <2>1. batch' \in [Flushers -> Seq(Nat)]
    BY <1>6, EmptySeq DEF Insert, AuditShape
  <2>2. rows' \in Seq(Nat)
    <3>1. rows \o batch[t] \in Seq(Nat)
      BY ItemsOfConcat DEF AuditShape
    <3> QED
      BY <1>6, <3>1 DEF Insert, AuditShape
  <2>3. at' \in [Writers \cup Flushers -> AuditSteps]
    <3>1. AfterFlush(t) \in AuditSteps
      BY <1>0 DEF AfterFlush, AuditSteps
    <3> QED
      BY <1>6, <3>1, GoingOn DEF Insert
  <2> QED
    BY <1>6, <2>1, <2>2, <2>3 DEF Insert, AuditShape
<1>7. CASE WorkerLoops
  <2>1. at' \in [Writers \cup Flushers -> AuditSteps]
    <3>1. (IF closed THEN "ended" ELSE "flush") \in AuditSteps
      BY DEF AuditSteps
    <3> QED
      BY <1>0, <1>7, <3>1, GoingOn DEF WorkerLoops
  <2> QED
    BY <1>7, <2>1 DEF WorkerLoops, AuditShape
<1>8. CASE Close
  <2>1. at' \in [Writers \cup Flushers -> AuditSteps]
    <3>1. {"unlist", "sentinel", "flush", "done"} \subseteq AuditSteps
      BY DEF AuditSteps
    <3> QED
      BY <1>0, <1>8, <3>1, GoingOn DEF Close, CloseBegins, Unlist, PutSentinel, Disconnect
  <2>2. queue' \in Seq(Nat)
    <3>1. Append(queue, Sentinel) \in Seq(Nat)
      BY ItemsOfAppend DEF AuditShape
    <3> QED
      BY <1>8, <3>1 DEF Close, CloseBegins, Unlist, PutSentinel, Disconnect, AuditShape
  <2>3. since' \in [{Closer, Querier} -> SUBSET Nat]
    <3>1. Queued \in SUBSET Nat
      BY DEF Queued
    <3> QED
      BY <1>8, <3>1 DEF Close, CloseBegins, Unlist, PutSentinel, Disconnect, AuditShape
  <2> QED
    BY <1>8, <2>1, <2>2, <2>3
       DEF Close, CloseBegins, Unlist, PutSentinel, Disconnect, AuditShape
<1>9. CASE Query
  <2>1. at' \in [Writers \cup Flushers -> AuditSteps]
    <3>1. {"idle", "flush", "select"} \subseteq AuditSteps
      BY DEF AuditSteps
    <3>2. (IF listed THEN "flush" ELSE "select") \in AuditSteps
      BY <3>1
    <3> QED
      BY <1>0, <1>9, <3>1, <3>2, GoingOn DEF Query, QueryBegins, QueryEnds, Purge
  <2>2. rows' \in Seq(Nat)
    <3>1. \A cutoff : Picked(rows, {i \in DOMAIN rows : rows[i] >= cutoff}) \in Seq(Nat)
      <4> TAKE cutoff
      <4> DEFINE I == {i \in DOMAIN rows : rows[i] >= cutoff}
      <4>1. rows \in Seq(Nat) /\ I \in SUBSET (1..Len(rows))
        BY ItemsOf DEF AuditShape
      <4> HIDE DEF I
      <4>2. Picked(rows, I) \in Seq(Nat)
        BY <4>1, PickedItems
      <4> QED
        BY <4>2 DEF I
    <3>2. CASE QueryBegins \/ QueryEnds
      BY <3>2 DEF QueryBegins, QueryEnds, AuditShape
    <3>3. CASE Purge
      <4>1. PICK cutoff : rows' = Picked(rows, {i \in DOMAIN rows : rows[i] >= cutoff})
        BY <3>3 DEF Purge
      <4> QED
        BY <3>1, <4>1, Zenon
    <3> QED
      BY <1>9, <3>2, <3>3 DEF Query
  <2>3. since' \in [{Closer, Querier} -> SUBSET Nat]
    <3>1. Queued \in SUBSET Nat
      BY DEF Queued
    <3> QED
      BY <1>9, <3>1 DEF Query, QueryBegins, QueryEnds, Purge, AuditShape
  <2> QED
    BY <1>9, <2>1, <2>2, <2>3 DEF Query, QueryBegins, QueryEnds, Purge, AuditShape
<1> QED
  BY <1>1, <1>2, <1>3, <1>4, <1>5, <1>6, <1>7, <1>8, <1>9 DEF AuditNext, Flush

\* What log has returned for changes only in the two steps of log.
LEMMA WritersStay ==
    ASSUME Stamped, UNCHANGED <<clock, stamp>>, \A w \in Writers : at'[w] = at[w]
    PROVE  Stamped' /\ Queued' = Queued
  BY DEF Stamped, Queued, At

LEMMA CheckStamps ==
    ASSUME AuditShape, Stamped, NEW w \in Writers, LogCheck(w)
    PROVE  Stamped' /\ Queued' = Queued
<1>1. /\ clock' = clock + 1 /\ clock \in Nat /\ at[w] = "idle" /\ at'[w] = "put"
      /\ stamp'[w] = clock + 1
      /\ \A v \in Writers : v # w => at'[v] = at[v] /\ stamp'[v] = stamp[v]
  BY AuditConstants DEF AuditShape, LogCheck, At, Go
<1>2. \A v \in Writers : at[v] = "put" => stamp[v] \in 1..clock
  BY DEF Stamped, At
<1>3. \A v \in Writers : at'[v] = "put" => stamp'[v] \in 1..clock'
  BY <1>1, <1>2
<1>4. \A u, v \in Writers :
          at'[u] = "put" /\ at'[v] = "put" /\ stamp'[u] = stamp'[v] => u = v
  <2> SUFFICES ASSUME NEW u \in Writers, NEW v \in Writers,
                      at'[u] = "put", at'[v] = "put", stamp'[u] = stamp'[v]
               PROVE  u = v
    OBVIOUS
  <2>1. CASE u = w \/ v = w
    BY <1>1, <1>2, <2>1
  <2>2. CASE u # w /\ v # w
    BY <1>1, <2>2 DEF Stamped, At
  <2> QED
    BY <2>1, <2>2
<1>5. Stamped'
  BY <1>3, <1>4 DEF Stamped, At
<1>6. {stamp'[v] : v \in {u \in Writers : at'[u] = "put"}}
          = {stamp[v] : v \in {u \in Writers : at[u] = "put"}} \cup {clock + 1}
  <2>1. \A v \in Writers : at'[v] = "put" =>
            stamp'[v] = clock + 1 \/ (at[v] = "put" /\ stamp'[v] = stamp[v])
    BY <1>1
  <2>2. \A v \in Writers : at[v] = "put" => at'[v] = "put" /\ stamp'[v] = stamp[v]
    BY <1>1
  <2> QED
    BY <1>1, <2>1, <2>2
<1>7. 1..clock' = 1..clock \cup {clock + 1}
  BY <1>1
<1>8. Queued' = Queued
  BY <1>1, <1>6, <1>7 DEF Queued, At
<1> QED
  BY <1>5, <1>8

LEMMA PutStamps ==
    ASSUME AuditShape, Stamped, NEW w \in Writers, LogPut(w)
    PROVE  /\ Stamped' /\ Queued' = Queued \cup {stamp[w]}
           /\ stamp[w] \notin Queued /\ stamp[w] \in Nat /\ stamp[w] # Sentinel
<1>1. /\ UNCHANGED <<clock, stamp>> /\ clock \in Nat /\ at[w] = "put" /\ at'[w] = "idle"
      /\ \A v \in Writers : v # w => at'[v] = at[v]
  BY AuditConstants DEF AuditShape, LogPut, At, Go
<1>2. /\ \A v \in Writers : at[v] = "put" => stamp[v] \in 1..clock
      /\ \A u, v \in Writers :
            at[u] = "put" /\ at[v] = "put" /\ stamp[u] = stamp[v] => u = v
  BY DEF Stamped, At
<1>3. Stamped'
  BY <1>1, <1>2 DEF Stamped, At
<1>4. stamp[w] \in 1..clock /\ stamp[w] \notin Queued
  BY <1>1, <1>2 DEF Queued, At
<1>5. \A x : x \in {stamp[v] : v \in {u \in Writers : at[u] = "put"}}
          <=> x = stamp[w] \/ x \in {stamp[v] : v \in {u \in Writers : at'[u] = "put"}}
  BY <1>1
<1>6. stamp[w] \notin {stamp[v] : v \in {u \in Writers : at'[u] = "put"}}
  BY <1>1, <1>2
<1>7. Queued' = Queued \cup {stamp[w]}
  BY <1>1, <1>4, <1>5, <1>6 DEF Queued, At
<1> QED
  BY <1>3, <1>4, <1>7, AuditConstants

LEMMA StampedStep ==
    ASSUME AuditShape, Stamped, AuditNext
    PROVE  Stamped'
<1>1. ASSUME NEW w \in Writers, LogCheck(w) \/ LogPut(w) PROVE Stamped'
  BY <1>1, CheckStamps, PutStamps
<1>2. CASE (\E t \in Flushers : Flush(t)) \/ WorkerLoops \/ Close \/ Query
  <2>1. UNCHANGED <<clock, stamp>>
    BY <1>2 DEF Flush, Acquire, Take, TakeEnds, Insert, WorkerLoops, Close, CloseBegins,
       Unlist, PutSentinel, Disconnect, Query, QueryBegins, QueryEnds, Purge
  <2>2. \A w \in Writers : at'[w] = at[w]
    <3>1. \E t \in Flushers : at' = at \/ \E there : Go(t, there)
      BY <1>2 DEF Flushers, Flush, Acquire, Take, TakeEnds, Insert, WorkerLoops, Close,
         CloseBegins, Unlist, PutSentinel, Disconnect, Query, QueryBegins, QueryEnds, Purge
    <3> QED
      BY <3>1, AuditConstants DEF Go, AuditShape, Flushers
  <2> QED
    BY <2>1, <2>2, WritersStay
<1> QED
  BY <1>1, <1>2 DEF AuditNext

\* Only the holder of the lock has a batch.
LEMMA LockedStep ==
    ASSUME AuditShape, Locked, AuditNext
    PROVE  Locked'
<1> USE AuditConstants
<1>0. /\ Flushers = {Worker, Closer, Querier}
      /\ \A t \in Flushers : t \in Writers \cup Flushers /\ t \notin Writers
  BY DEF Flushers
<1>1. ASSUME NEW w \in Writers, LogCheck(w) \/ LogPut(w) PROVE Locked'
  <2>1. UNCHANGED <<holder, batch>> /\ \A t \in Flushers : at'[t] = at[t]
    BY <1>0, <1>1 DEF LogCheck, LogPut, Go, AuditShape
  <2> QED
    BY <2>1 DEF Locked, Flushing
<1>2. ASSUME NEW t \in Flushers, Acquire(t) PROVE Locked'
  <2>1. /\ holder = Nobody /\ holder' = t /\ batch'[t] = <<>> /\ at'[t] = "take"
        /\ \A u \in Flushers : u # t => at'[u] = at[u] /\ batch'[u] = batch[u]
    BY <1>0, <1>2 DEF Acquire, Go, AuditShape
  <2>2. \A u \in Flushers : ~ Flushing(u) /\ batch[u] = <<>>
    BY <2>1 DEF Locked
  <2> QED
    BY <2>1, <2>2 DEF Locked, Flushing
<1>3. ASSUME NEW t \in Flushers, Take(t) \/ TakeEnds(t) PROVE Locked'
  <2>1. /\ holder' = holder /\ Flushing(t) /\ Flushing(t)'
        /\ \A u \in Flushers : u # t => at'[u] = at[u] /\ batch'[u] = batch[u]
    BY <1>0, <1>3 DEF Take, TakeEnds, At, Go, AuditShape, Flushing
  <2> QED
    BY <2>1 DEF Locked, Flushing
<1>4. ASSUME NEW t \in Flushers, Insert(t) PROVE Locked'
  <2>1. /\ at[t] = "insert" /\ holder' = Nobody /\ batch'[t] = <<>> /\ at'[t] = AfterFlush(t)
        /\ \A u \in Flushers : u # t => at'[u] = at[u] /\ batch'[u] = batch[u]
    BY <1>0, <1>4 DEF Insert, At, Go, AuditShape
  <2>2. AfterFlush(t) \notin {"take", "insert"}
    BY <1>0 DEF AfterFlush
  <2>3. \A u \in Flushers : u # t => ~ Flushing(u)
    BY <2>1 DEF Locked, Flushing
  <2> QED
    BY <2>1, <2>2, <2>3 DEF Locked, Flushing
<1>5. CASE WorkerLoops \/ Close \/ Query
  <2>1. UNCHANGED <<holder, batch>>
    BY <1>5 DEF WorkerLoops, Close, CloseBegins, Unlist, PutSentinel, Disconnect,
       Query, QueryBegins, QueryEnds, Purge
  <2>2. \A t \in Flushers : at'[t] = at[t] \/ ~ Flushing(t)'
    BY <1>0, <1>5 DEF WorkerLoops, Close, CloseBegins, Unlist, PutSentinel, Disconnect,
       Query, QueryBegins, QueryEnds, Purge, At, Go, AuditShape, Flushing
  <2>3. \A t \in Flushers : Flushing(t) => at'[t] = at[t]
    BY <1>0, <1>5 DEF WorkerLoops, Close, CloseBegins, Unlist, PutSentinel, Disconnect,
       Query, QueryBegins, QueryEnds, Purge, At, Go, AuditShape, Flushing
  <2> QED
    BY <2>1, <2>2, <2>3 DEF Locked, Flushing
<1> QED
  BY <1>1, <1>2, <1>3, <1>4, <1>5 DEF AuditNext, Flush

----------------------------------------------------------------------------
(* Where the entries go *)

Places == <<queue, rows, batch, dropped, purged>>

LEMMA PlacesStay ==
    ASSUME UNCHANGED Places
    PROVE  /\ InQueue' = InQueue /\ InRows' = InRows /\ Handled' = Handled
           /\ \A t \in Flushers : InBatch(t)' = InBatch(t)
           /\ Everywhere' = Everywhere
           /\ Once => Once'
           /\ Apart => Apart'
  BY DEF Places, InQueue, InRows, Handled, InBatch, Everywhere, Once, Apart

LEMMA QuietStep ==
    ASSUME AuditInv, UNCHANGED Places, Queued' = Queued
    PROVE  Once' /\ Apart' /\ All'
  BY PlacesStay DEF AuditInv, All

LEMMA PutMoves ==
    ASSUME AuditInv, NEW w \in Writers, LogPut(w)
    PROVE  /\ InQueue' = InQueue \cup {stamp[w]} /\ Handled' = Handled
           /\ InRows' = InRows /\ \A t \in Flushers : InBatch(t)' = InBatch(t)
           /\ Once' /\ Apart' /\ All'
<1>1. /\ Queued' = Queued \cup {stamp[w]}
      /\ stamp[w] \notin Queued /\ stamp[w] \in Nat /\ stamp[w] # Sentinel
  BY PutStamps DEF AuditInv
<1>2. queue' = Append(queue, stamp[w]) /\ UNCHANGED <<rows, batch, dropped, purged>>
      /\ queue \in Seq(Nat)
  BY DEF LogPut, AuditInv, AuditShape
<1>3. stamp[w] \notin Everywhere
  BY <1>1 DEF AuditInv, All
<1>4. ToSet(queue') = ToSet(queue) \cup {stamp[w]}
  BY <1>1, <1>2, ItemsOfAppend
<1>5. /\ InQueue' = InQueue \cup {stamp[w]} /\ Handled' = Handled
      /\ InRows' = InRows /\ \A t \in Flushers : InBatch(t)' = InBatch(t)
  BY <1>1, <1>2, <1>4 DEF InQueue, Handled, InRows, InBatch
<1>6. stamp[w] \notin ToSet(queue)
  BY <1>1, <1>3 DEF Everywhere, InQueue
<1>7. Once'
  <2>1. \A i, j \in 1..Len(queue') : queue'[i] = queue'[j] => i = j \/ queue'[i] = Sentinel
    BY <1>1, <1>2, <1>6, OnceAppended DEF AuditInv, Once
  <2> QED
    BY <1>2, <2>1 DEF AuditInv, Once
<1>8. Apart'
  <2>1. /\ stamp[w] \notin InRows /\ stamp[w] \notin dropped /\ stamp[w] \notin purged
        /\ \A t \in Flushers : stamp[w] \notin InBatch(t)
    BY <1>3 DEF Everywhere, Handled, InRows
  <2> QED
    BY <1>2, <1>5, <2>1 DEF AuditInv, Apart
<1>9. All'
  <2>1. Everywhere' = Everywhere \cup {stamp[w]}
    BY <1>5 DEF Everywhere
  <2> QED
    BY <1>1, <2>1 DEF AuditInv, All
<1> QED
  BY <1>5, <1>7, <1>8, <1>9

\* A flush that has just got the lock finds all batches empty.
LEMMA AcquireMoves ==
    ASSUME AuditInv, NEW t \in Flushers, Acquire(t)
    PROVE  UNCHANGED Places /\ Queued = InQueue \cup Handled
<1>1. \A u \in Flushers : batch[u] = <<>>
  BY AuditConstants DEF AuditInv, Locked, Acquire
<1>2. batch' = batch
  BY <1>1 DEF Acquire, AuditInv, AuditShape
<1>3. \A u \in Flushers : InBatch(u) = {}
  BY <1>1, ItemsOf, EmptySeq DEF InBatch
<1>4. Queued = InQueue \cup Handled
  BY <1>3 DEF AuditInv, All, Everywhere
<1> QED
  BY <1>2, <1>4 DEF Acquire, Places

\* The queue without its first item.
LEMMA TailMoves ==
    ASSUME AuditInv, queue # <<>>, queue' = Tail(queue)
    PROVE  /\ Head(queue) \in Nat /\ Head(queue) = queue[1] /\ 1 \in 1..Len(queue)
           /\ queue' \in Seq(Nat) /\ Len(queue') = Len(queue) - 1
           /\ \A i \in 1..Len(queue') : i + 1 \in 1..Len(queue) /\ queue'[i] = queue[i + 1]
           /\ Head(queue) = Sentinel => InQueue' = InQueue
           /\ Head(queue) # Sentinel =>
                 InQueue = InQueue' \cup {Head(queue)} /\ Head(queue) \notin InQueue'
           /\ \A i, j \in 1..Len(queue') :
                 queue'[i] = queue'[j] => i = j \/ queue'[i] = Sentinel
<1>0. queue \in Seq(Nat) /\ Len(queue) \in Nat
  BY ItemsOf DEF AuditInv, AuditShape
<1>1. /\ Head(queue) \in Nat /\ Head(queue) = queue[1] /\ 1 \in 1..Len(queue)
      /\ queue' \in Seq(Nat) /\ Len(queue') = Len(queue) - 1
      /\ \A i \in 1..Len(queue') : i + 1 \in 1..Len(queue) /\ queue'[i] = queue[i + 1]
      /\ ToSet(queue) = {Head(queue)} \cup ToSet(queue')
  BY <1>0, ItemsOfTail
<1>2. \A i, j \in 1..Len(queue) : queue[i] = queue[j] => i = j \/ queue[i] = Sentinel
  BY DEF AuditInv, Once
<1>3. ASSUME Head(queue) # Sentinel PROVE Head(queue) \notin ToSet(queue')
  <2>1. \A i \in 1..Len(queue') : queue'[i] # Head(queue)
    <3> SUFFICES ASSUME NEW i \in 1..Len(queue'), queue'[i] = Head(queue) PROVE FALSE
      OBVIOUS
    <3>1. i + 1 \in 1..Len(queue) /\ queue[1] = queue[i + 1] /\ 1 # i + 1
      BY <1>0, <1>1
    <3> QED
      BY <1>1, <1>2, <1>3, <3>1
  <2>2. ToSet(queue') = {queue'[i] : i \in 1..Len(queue')}
    BY <1>1, ItemsOf
  <2> QED
    BY <2>1, <2>2
<1>4. \A i, j \in 1..Len(queue') :
          queue'[i] = queue'[j] => i = j \/ queue'[i] = Sentinel
  <2> SUFFICES ASSUME NEW i \in 1..Len(queue'), NEW j \in 1..Len(queue'),
                      queue'[i] = queue'[j], queue'[i] # Sentinel
               PROVE  i = j
    OBVIOUS
  <2>1. /\ i + 1 \in 1..Len(queue) /\ j + 1 \in 1..Len(queue)
        /\ queue[i + 1] = queue[j + 1] /\ queue[i + 1] # Sentinel
    BY <1>1
  <2>2. i + 1 = j + 1
    BY <1>2, <2>1
  <2> QED
    BY <1>0, <1>1, <2>2
<1> QED
  BY <1>1, <1>3, <1>4 DEF InQueue

LEMMA TakeMoves ==
    ASSUME AuditInv, NEW t \in Flushers, Take(t)
    PROVE  /\ InRows' = InRows /\ Handled' = Handled
           /\ InQueue \cup InBatch(t) = InQueue' \cup InBatch(t)'
           /\ \A u \in Flushers : u # t => InBatch(u)' = InBatch(u)
           /\ Head(queue) = Sentinel => InQueue' = InQueue /\ InBatch(t)' = InBatch(t)
           /\ Once' /\ Apart' /\ All'
<1>1. /\ queue # <<>> /\ queue' = Tail(queue) /\ UNCHANGED <<rows, dropped, purged>>
      /\ batch \in [Flushers -> Seq(Nat)] /\ Queued' = Queued
  <2>1. UNCHANGED <<clock, stamp>> /\ \A w \in Writers : at'[w] = at[w]
    BY AuditConstants DEF Take, Go, AuditInv, AuditShape, Flushers
  <2> QED
    BY <2>1, WritersStay DEF Take, AuditInv, AuditShape
<1>2. InRows' = InRows /\ Handled' = Handled
  BY <1>1 DEF InRows, Handled
<1>3. CASE Head(queue) = Sentinel
  <2>1. batch' = batch /\ InQueue' = InQueue
    BY <1>1, <1>3, TailMoves DEF Take
  <2>2. \A u \in Flushers : InBatch(u)' = InBatch(u)
    BY <2>1 DEF InBatch
  <2>3. Once'
    BY <1>1, <2>1, TailMoves DEF AuditInv, Once
  <2>4. Apart'
    BY <1>1, <1>2, <2>1, <2>2 DEF AuditInv, Apart
  <2>5. All'
    BY <1>1, <1>2, <2>1, <2>2 DEF AuditInv, All, Everywhere
  <2> QED
    BY <1>2, <2>1, <2>2, <2>3, <2>4, <2>5
<1>4. CASE Head(queue) # Sentinel
  <2> DEFINE h == Head(queue)
  <2>1. /\ batch'[t] = Append(batch[t], h) /\ batch' = [batch EXCEPT ![t] = batch'[t]]
        /\ h \in Nat /\ batch[t] \in Seq(Nat)
    BY <1>1, <1>4, TailMoves DEF Take
  <2>2. InQueue = InQueue' \cup {h} /\ h \notin InQueue'
    BY <1>1, <1>4, TailMoves
  <2>3. InBatch(t)' = InBatch(t) \cup {h} /\ \A u \in Flushers : u # t => InBatch(u)' = InBatch(u)
    BY <1>1, <2>1, ItemsOfAppend DEF InBatch
  <2>4. /\ h \notin InRows /\ h \notin dropped /\ h \notin purged
        /\ \A u \in Flushers : h \notin InBatch(u)
    BY <2>2 DEF AuditInv, Apart
  <2> HIDE DEF h
  <2>5. Once'
    <3>1. \A i, j \in 1..Len(queue') :
              queue'[i] = queue'[j] => i = j \/ queue'[i] = Sentinel
      BY <1>1, TailMoves
    <3>2. \A i, j \in 1..Len(batch'[t]) : batch'[t][i] = batch'[t][j] => i = j
      <4>1. \A i, j \in 1..Len(batch[t]) : batch[t][i] = batch[t][j] => i = j
        BY DEF AuditInv, Once
      <4>2. h \notin ToSet(batch[t])
        BY <2>4 DEF InBatch
      <4>3. /\ Len(Append(batch[t], h)) = Len(batch[t]) + 1 /\ Len(batch[t]) \in Nat
            /\ \A i \in 1..Len(batch[t]) : Append(batch[t], h)[i] = batch[t][i]
            /\ Append(batch[t], h)[Len(batch[t]) + 1] = h
        BY <2>1, AppendProperties, LenProperties
      <4>4. \A i \in 1..Len(batch[t]) : batch[t][i] # h
        BY <2>1, <4>2, ItemsOf
      <4>5. \A i \in 1..Len(Append(batch[t], h)) :
                i \in 1..Len(batch[t]) \/ i = Len(batch[t]) + 1
        BY <4>3
      <4> QED
        BY <2>1, <4>1, <4>3, <4>4, <4>5
    <3>3. \A u \in Flushers : u # t => batch'[u] = batch[u]
      BY <1>1, <2>1
    <3>4. \A u \in Flushers : \A i, j \in 1..Len(batch'[u]) :
              batch'[u][i] = batch'[u][j] => i = j
      BY <3>2, <3>3 DEF AuditInv, Once
    <3> QED
      BY <1>1, <3>1, <3>4 DEF AuditInv, Once
  <2>6. Apart'
    <3>1. /\ InQueue \cap InRows = {} /\ InQueue \cap dropped = {} /\ InQueue \cap purged = {}
          /\ InRows \cap dropped = {} /\ InRows \cap purged = {} /\ dropped \cap purged = {}
          /\ \A u \in Flushers :
                /\ InBatch(u) \cap InQueue = {} /\ InBatch(u) \cap InRows = {}
                /\ InBatch(u) \cap dropped = {} /\ InBatch(u) \cap purged = {}
                /\ \A v \in Flushers : v # u => InBatch(u) \cap InBatch(v) = {}
      BY DEF AuditInv, Apart
    <3>2. /\ InQueue' \cap InRows' = {} /\ InQueue' \cap dropped' = {}
          /\ InQueue' \cap purged' = {} /\ InRows' \cap dropped' = {}
          /\ InRows' \cap purged' = {} /\ dropped' \cap purged' = {}
      BY <1>1, <1>2, <2>2, <3>1
    <3>3. /\ InBatch(t)' \cap InQueue' = {} /\ InBatch(t)' \cap InRows' = {}
          /\ InBatch(t)' \cap dropped' = {} /\ InBatch(t)' \cap purged' = {}
      BY <1>1, <1>2, <2>2, <2>3, <2>4, <3>1
    <3>4. ASSUME NEW u \in Flushers, u # t
          PROVE  /\ InBatch(u)' \cap InQueue' = {} /\ InBatch(u)' \cap InRows' = {}
                 /\ InBatch(u)' \cap dropped' = {} /\ InBatch(u)' \cap purged' = {}
                 /\ InBatch(u)' \cap InBatch(t)' = {} /\ InBatch(t)' \cap InBatch(u)' = {}
                 /\ \A v \in Flushers : v # u /\ v # t => InBatch(u)' \cap InBatch(v)' = {}
      <4>1. InBatch(u)' = InBatch(u) /\ h \notin InBatch(u)
        BY <2>3, <2>4, <3>4
      <4>2. /\ InBatch(u) \cap InQueue = {} /\ InBatch(u) \cap InRows = {}
            /\ InBatch(u) \cap dropped = {} /\ InBatch(u) \cap purged = {}
            /\ InBatch(u) \cap InBatch(t) = {}
        BY <3>1, <3>4
      <4>3. \A v \in Flushers : v # u /\ v # t => InBatch(u)' \cap InBatch(v)' = {}
        BY <2>3, <3>1, <3>4
      <4> QED
        BY <1>1, <1>2, <2>2, <2>3, <4>1, <4>2, <4>3
    <3>5. \A u \in Flushers :
              /\ InBatch(u)' \cap InQueue' = {} /\ InBatch(u)' \cap InRows' = {}
              /\ InBatch(u)' \cap dropped' = {} /\ InBatch(u)' \cap purged' = {}
              /\ \A v \in Flushers : v # u => InBatch(u)' \cap InBatch(v)' = {}
      BY <3>3, <3>4
    <3> QED
      BY <3>2, <3>5 DEF Apart
  <2>7. Everywhere' = Everywhere
    <3>1. \A x : (\E u \in Flushers : x \in InBatch(u)')
                    <=> (x = h \/ \E u \in Flushers : x \in InBatch(u))
      BY <2>3
    <3>2. \A x : x \in Everywhere' <=> x \in InQueue' \/ x \in Handled'
                                       \/ \E u \in Flushers : x \in InBatch(u)'
      BY DEF Everywhere
    <3>3. \A x : x \in Everywhere <=> x \in InQueue \/ x \in Handled
                                      \/ \E u \in Flushers : x \in InBatch(u)
      BY DEF Everywhere
    <3>4. \A x : x \in Everywhere' <=> x \in Everywhere
      BY <1>2, <2>2, <3>1, <3>2, <3>3
    <3> QED
      BY <3>4
  <2>8. All'
    BY <1>1, <2>7 DEF AuditInv, All
  <2> QED
    BY <1>2, <1>4, <2>2, <2>3, <2>5, <2>6, <2>8
<1> QED
  BY <1>3, <1>4

\* A batch that is inserted, or lost by its failure.
LEMMA InsertMoves ==
    ASSUME AuditInv, NEW t \in Flushers, Insert(t)
    PROVE  /\ InQueue' = InQueue /\ Handled' = Handled \cup InBatch(t)
           /\ \A u \in Flushers : u # t => InBatch(u)' = InBatch(u)
           /\ InBatch(t)' = {}
           /\ Once' /\ Apart' /\ All'
<1>1. /\ UNCHANGED <<queue, purged>> /\ batch' = [batch EXCEPT ![t] = <<>>]
      /\ batch \in [Flushers -> Seq(Nat)] /\ rows \in Seq(Nat) /\ Queued' = Queued
  <2>1. UNCHANGED <<clock, stamp>> /\ \A w \in Writers : at'[w] = at[w]
    BY AuditConstants DEF Insert, Go, AuditInv, AuditShape, Flushers
  <2> QED
    BY <2>1, WritersStay DEF Insert, AuditInv, AuditShape
<1>2. /\ InQueue' = InQueue /\ InBatch(t)' = {}
      /\ \A u \in Flushers : u # t => InBatch(u)' = InBatch(u)
  BY <1>1, ItemsOf, EmptySeq DEF InQueue, InBatch
<1>3. \/ /\ InRows' = InRows \cup InBatch(t) /\ dropped' = dropped
         /\ \A i, j \in 1..Len(rows') : rows'[i] = rows'[j] => i = j
      \/ /\ rows' = rows /\ InRows' = InRows /\ dropped' = dropped \cup InBatch(t)
         /\ \A i, j \in 1..Len(rows') : rows'[i] = rows'[j] => i = j
  <2>1. CASE rows' = rows \o batch[t] /\ UNCHANGED dropped
    <3>1. ToSet(rows) \cap ToSet(batch[t]) = {}
      BY DEF AuditInv, Apart, InRows, InBatch
    <3>2. ToSet(rows') = ToSet(rows) \cup ToSet(batch[t])
      BY <1>1, <2>1, ItemsOfConcat
    <3>3. \A i, j \in 1..Len(rows') : rows'[i] = rows'[j] => i = j
      BY <1>1, <2>1, <3>1, OnceConcatenated DEF AuditInv, Once
    <3> QED
      BY <2>1, <3>2, <3>3 DEF InRows, InBatch
  <2>2. CASE dropped' = dropped \cup ToSet(batch[t]) /\ UNCHANGED rows
    BY <2>2 DEF InRows, InBatch, AuditInv, Once
  <2> QED
    BY <2>1, <2>2 DEF Insert
<1>4. Handled' = Handled \cup InBatch(t)
  BY <1>1, <1>3 DEF Handled, InRows
<1>5. Once'
  <2>1. \A u \in Flushers : \A i, j \in 1..Len(batch'[u]) :
            batch'[u][i] = batch'[u][j] => i = j
    <3>1. batch'[t] = <<>> /\ \A u \in Flushers : u # t => batch'[u] = batch[u]
      BY <1>1
    <3>2. 1..Len(<<>>) = {}
      BY EmptySeq
    <3> QED
      BY <3>1, <3>2 DEF AuditInv, Once
  <2> QED
    BY <1>1, <1>3, <2>1 DEF AuditInv, Once
<1>6. Apart'
  <2>1. \A u \in Flushers : InBatch(u)' \subseteq InBatch(u)
    BY <1>2
  <2>2. \A u \in Flushers : InBatch(u)' \cap InBatch(t) = {}
    BY <1>2 DEF AuditInv, Apart
  <2> QED
    BY <1>1, <1>2, <1>3, <2>1, <2>2 DEF AuditInv, Apart
<1>7. Everywhere' = Everywhere
  <2>1. UNION {InBatch(u) : u \in Flushers}
            = InBatch(t) \cup UNION {InBatch(u)' : u \in Flushers}
    BY <1>2
  <2> QED
    BY <1>2, <1>4, <2>1 DEF Everywhere
<1>8. All'
  BY <1>1, <1>7 DEF AuditInv, All
<1> QED
  BY <1>2, <1>4, <1>5, <1>6, <1>8

LEMMA SentinelMoves ==
    ASSUME AuditInv, PutSentinel
    PROVE  /\ InQueue' = InQueue /\ Handled' = Handled
           /\ \A t \in Flushers : InBatch(t)' = InBatch(t)
           /\ Once' /\ Apart' /\ All' /\ Queued' = Queued
<1>1. /\ queue' = Append(queue, Sentinel) /\ queue \in Seq(Nat)
      /\ UNCHANGED <<rows, batch, dropped, purged>> /\ Queued' = Queued
  <2>1. UNCHANGED <<clock, stamp>> /\ \A w \in Writers : at'[w] = at[w]
    BY AuditConstants DEF PutSentinel, Go, AuditInv, AuditShape
  <2> QED
    BY <2>1, WritersStay DEF PutSentinel, AuditInv, AuditShape
<1>2. ToSet(queue') = ToSet(queue) \cup {Sentinel}
  BY <1>1, AuditConstants, ItemsOfAppend
<1>3. /\ InQueue' = InQueue /\ InRows' = InRows /\ Handled' = Handled
      /\ \A t \in Flushers : InBatch(t)' = InBatch(t)
  BY <1>1, <1>2 DEF InQueue, InRows, Handled, InBatch
<1>4. \A i, j \in 1..Len(queue') : queue'[i] = queue'[j] => i = j \/ queue'[i] = Sentinel
  BY <1>1, AuditConstants, OnceAppended DEF AuditInv, Once
<1>5. Once'
  BY <1>1, <1>4 DEF AuditInv, Once
<1>6. Apart'
  BY <1>1, <1>3 DEF AuditInv, Apart
<1>7. All'
  BY <1>1, <1>3 DEF AuditInv, All, Everywhere
<1> QED
  BY <1>1, <1>3, <1>5, <1>6, <1>7

LEMMA PurgeMoves ==
    ASSUME AuditInv, Purge
    PROVE  /\ InQueue' = InQueue /\ Handled' = Handled
           /\ \A t \in Flushers : InBatch(t)' = InBatch(t)
           /\ Once' /\ Apart' /\ All' /\ Queued' = Queued
<1>1. /\ UNCHANGED <<queue, batch, dropped>> /\ rows \in Seq(Nat) /\ Queued' = Queued
  <2>1. UNCHANGED <<clock, stamp>> /\ \A w \in Writers : at'[w] = at[w]
    BY AuditConstants DEF Purge, Go, AuditInv, AuditShape
  <2> QED
    BY <2>1, WritersStay DEF Purge, AuditInv, AuditShape
<1>2. PICK cutoff \in 2..clock + 1 :
          /\ rows' = Picked(rows, {i \in DOMAIN rows : rows[i] >= cutoff})
          /\ purged' = purged \cup {e \in ToSet(rows) : e < cutoff}
  BY DEF Purge
<1> DEFINE I == {i \in DOMAIN rows : rows[i] >= cutoff}
<1>3. /\ DOMAIN rows = 1..Len(rows) /\ ToSet(rows) = {rows[i] : i \in 1..Len(rows)}
      /\ I \in SUBSET (1..Len(rows)) /\ ToSet(rows) \subseteq Nat /\ cutoff \in Nat
  BY <1>1, ItemsOf DEF AuditInv, AuditShape
<1>4. \A k \in 1..Len(rows) : k \in I <=> rows[k] >= cutoff
  BY <1>3
<1>5. rows' = Picked(rows, I) /\ rows' \in Seq(Nat)
  <2>1. rows' = Picked(rows, I)
    BY <1>2
  <2> HIDE DEF I
  <2> QED
    BY <1>1, <1>3, <2>1, PickedItems
<1> HIDE DEF I
<1>6. \A x : x \in InRows' <=> x \in InRows /\ x >= cutoff
  <2>1. \A x : (\E i \in 1..Len(rows') : rows'[i] = x) <=> (\E j \in I : rows[j] = x)
    <3>1. I \in SUBSET (1..Len(rows))
      BY <1>3
    <3>2. \A x : (\E i \in 1..Len(Picked(rows, I)) : Picked(rows, I)[i] = x)
                     <=> (\E j \in I : rows[j] = x)
      BY <1>1, <3>1, PickedContents
    <3> QED
      BY <1>5, <3>2
  <2>2. ToSet(rows') = {rows'[i] : i \in 1..Len(rows')}
    BY <1>5, ItemsOf
  <2> QED
    BY <1>3, <1>4, <2>1, <2>2 DEF InRows
<1>7. \A i, j \in 1..Len(rows') : rows'[i] = rows'[j] => i = j
  <2>1. PICK f : InOrderOf(f, rows', rows, I)
    BY <1>1, <1>3, <1>5, PickedOrder
  <2>2. /\ f \in [1..Len(rows') -> I] /\ Len(rows') \in Nat
        /\ \A i \in 1..Len(rows') : rows'[i] = rows[f[i]]
        /\ \A i, j \in 1..Len(rows') : i < j <=> f[i] < f[j]
    BY <1>5, <2>1, LenProperties DEF InOrderOf
  <2> SUFFICES ASSUME NEW i \in 1..Len(rows'), NEW j \in 1..Len(rows'), rows'[i] = rows'[j]
               PROVE  i = j
    OBVIOUS
  <2>3. f[i] \in 1..Len(rows) /\ f[j] \in 1..Len(rows) /\ rows[f[i]] = rows[f[j]]
    BY <1>3, <2>2
  <2>4. f[i] = f[j] /\ f[i] \in Int
    BY <1>3, <2>3 DEF AuditInv, Once
  <2> QED
    BY <2>2, <2>4
<1>8. /\ InQueue' = InQueue /\ \A t \in Flushers : InBatch(t)' = InBatch(t)
      /\ InRows' \subseteq InRows
      /\ purged' = purged \cup (InRows \ InRows')
  <2>1. InRows \subseteq Nat
    BY <1>3 DEF InRows
  <2>2. \A x \in InRows : x < cutoff <=> ~ (x >= cutoff)
    <3>1. cutoff \in Nat
      BY <1>3
    <3>2. \A x \in Nat : x < cutoff <=> ~ (x >= cutoff)
      BY ONLY <3>1
    <3> QED
      BY <2>1, <3>2
  <2> QED
    BY <1>1, <1>2, <1>6, <2>2 DEF InQueue, InBatch, InRows
<1>9. Handled' = Handled
  BY <1>1, <1>8 DEF Handled, InRows
<1>10. Once'
  BY <1>1, <1>7 DEF AuditInv, Once
<1>11. Apart'
  <2>1. InRows' \cap purged' = {}
    BY <1>8 DEF AuditInv, Apart
  <2> QED
    BY <1>1, <1>8, <2>1 DEF AuditInv, Apart
<1>12. All'
  BY <1>1, <1>8, <1>9 DEF AuditInv, All, Everywhere
<1> QED
  BY <1>1, <1>8, <1>9, <1>10, <1>11, <1>12

LEMMA EntriesStep ==
    ASSUME AuditInv, AuditNext
    PROVE  Once' /\ Apart' /\ All'
<1>1. ASSUME NEW w \in Writers, LogCheck(w) PROVE Once' /\ Apart' /\ All'
  <2>1. UNCHANGED Places /\ Queued' = Queued
    BY <1>1, CheckStamps DEF AuditInv, LogCheck, Places
  <2> QED
    BY <2>1, QuietStep
<1>2. ASSUME NEW w \in Writers, LogPut(w) PROVE Once' /\ Apart' /\ All'
  BY <1>2, PutMoves
<1>3. ASSUME NEW t \in Flushers, Acquire(t) PROVE Once' /\ Apart' /\ All'
  <2>1. UNCHANGED <<clock, stamp>> /\ \A w \in Writers : at'[w] = at[w]
    BY <1>3, AuditConstants DEF Acquire, Go, AuditInv, AuditShape, Flushers
  <2> QED
    BY <1>3, <2>1, AcquireMoves, WritersStay, QuietStep DEF AuditInv
<1>4. ASSUME NEW t \in Flushers, Take(t) PROVE Once' /\ Apart' /\ All'
  BY <1>4, TakeMoves
<1>5. ASSUME NEW t \in Flushers, Insert(t) PROVE Once' /\ Apart' /\ All'
  BY <1>5, InsertMoves
<1>6. CASE PutSentinel
  BY <1>6, SentinelMoves
<1>7. CASE Purge
  BY <1>7, PurgeMoves
<1>8. CASE \/ \E t \in Flushers : TakeEnds(t)
           \/ WorkerLoops \/ CloseBegins \/ Unlist \/ Disconnect \/ QueryBegins \/ QueryEnds
  <2>1. UNCHANGED Places /\ UNCHANGED <<clock, stamp>> /\ \A w \in Writers : at'[w] = at[w]
    BY <1>8, AuditConstants DEF TakeEnds, WorkerLoops, CloseBegins, Unlist, Disconnect,
       QueryBegins, QueryEnds, Places, Go, AuditInv, AuditShape, Flushers
  <2> QED
    BY <2>1, WritersStay, QuietStep DEF AuditInv
<1> QED
  BY <1>1, <1>2, <1>3, <1>4, <1>5, <1>6, <1>7, <1>8 DEF AuditNext, Flush, Close, Query

----------------------------------------------------------------------------
(* What a close or a query is to see *)

\* What was handled stays so, what was queued stays so.
LEMMA EntriesStay ==
    ASSUME AuditInv, AuditNext
    PROVE  Handled \subseteq Handled' /\ Queued \subseteq Queued'
<1>1. ASSUME NEW w \in Writers, LogCheck(w) \/ LogPut(w)
      PROVE  Handled \subseteq Handled' /\ Queued \subseteq Queued'
  <2>1. UNCHANGED <<rows, dropped, purged>>
    BY <1>1 DEF LogCheck, LogPut
  <2> QED
    BY <1>1, <2>1, CheckStamps, PutStamps DEF AuditInv, Handled
<1>2. CASE (\E t \in Flushers : Flush(t)) \/ WorkerLoops \/ Close \/ Query
  <2>1. UNCHANGED <<clock, stamp>> /\ \A w \in Writers : at'[w] = at[w]
    <3>1. \E t \in Flushers : at' = at \/ \E there : Go(t, there)
      BY <1>2 DEF Flushers, Flush, Acquire, Take, TakeEnds, Insert, WorkerLoops, Close,
         CloseBegins, Unlist, PutSentinel, Disconnect, Query, QueryBegins, QueryEnds, Purge
    <3>2. \A w \in Writers : at'[w] = at[w]
      BY <3>1, AuditConstants DEF Go, AuditInv, AuditShape, Flushers
    <3> QED
      BY <1>2, <3>2 DEF Flush, Acquire, Take, TakeEnds, Insert, WorkerLoops, Close,
         CloseBegins, Unlist, PutSentinel, Disconnect, Query, QueryBegins, QueryEnds, Purge
  <2>2. Queued' = Queued
    BY <2>1, WritersStay DEF AuditInv
  <2>3. CASE \/ UNCHANGED <<rows, dropped, purged>>
             \/ \E t \in Flushers : Insert(t)
             \/ Purge
    <3>1. CASE UNCHANGED <<rows, dropped, purged>>
      BY <2>2, <3>1 DEF Handled
    <3>2. CASE \E t \in Flushers : Insert(t)
      BY <2>2, <3>2, InsertMoves
    <3>3. CASE Purge
      BY <2>2, <3>3, PurgeMoves
    <3> QED
      BY <2>3, <3>1, <3>2, <3>3
  <2> QED
    BY <1>2, <2>3 DEF Flush, Acquire, Take, TakeEnds, WorkerLoops, Close,
       CloseBegins, Unlist, PutSentinel, Disconnect, Query, QueryBegins, QueryEnds
<1> QED
  BY <1>1, <1>2 DEF AuditNext

LEMMA UnobstructedStep ==
    ASSUME AuditInv, AuditNext
    PROVE  Unobstructed'
<1> USE AuditConstants
<1>0. /\ Flushers = {Worker, Closer, Querier} /\ queue \in Seq(Nat) /\ Len(queue) \in Nat
      /\ at \in [Writers \cup Flushers -> AuditSteps]
      /\ since \in [{Closer, Querier} -> SUBSET Nat]
  BY LenProperties DEF Flushers, AuditInv, AuditShape
<1>1. /\ listed <=> at[Closer] \in {"idle", "unlist"}
      /\ \A t \in {Closer, Querier} : since[t] \subseteq Queued
      /\ \A i \in 1..Len(queue) : queue[i] = Sentinel =>
            /\ ~ listed
            /\ \A j \in 1..Len(queue), t \in {Closer, Querier} :
                  i < j => queue[j] \notin since[t]
  BY DEF AuditInv, Unobstructed
<1>2. listed' <=> at'[Closer] \in {"idle", "unlist"}
  <2>1. ASSUME NEW w \in Writers, LogCheck(w) \/ LogPut(w)
        PROVE  listed' <=> at'[Closer] \in {"idle", "unlist"}
    BY <1>0, <1>1, <2>1 DEF LogCheck, LogPut, Go
  <2>2. ASSUME NEW t \in Flushers, Flush(t)
        PROVE  listed' <=> at'[Closer] \in {"idle", "unlist"}
    <3>1. AfterFlush(t) \notin {"idle", "unlist"}
      BY <1>0 DEF AfterFlush
    <3> QED
      BY <1>0, <1>1, <2>2, <3>1 DEF Flush, Acquire, Take, TakeEnds, Insert, At, Go
  <2>3. CASE WorkerLoops \/ Query
    BY <1>0, <1>1, <2>3 DEF WorkerLoops, Query, QueryBegins, QueryEnds, Purge, Go
  <2>4. CASE Close
    BY <1>0, <1>1, <2>4
       DEF Close, CloseBegins, Unlist, PutSentinel, Disconnect, At, Go
  <2> QED
    BY <2>1, <2>2, <2>3, <2>4 DEF AuditNext
<1>3. \A t \in {Closer, Querier} : since'[t] \subseteq Queued'
  <2>1. \A t \in {Closer, Querier} : since'[t] \subseteq since[t] \cup Queued
    <3>1. CASE since' = since
      BY <3>1
    <3>2. CASE CloseBegins
      BY <1>0, <3>2 DEF CloseBegins
    <3>3. CASE Query
      BY <1>0, <3>3 DEF Query, QueryBegins, QueryEnds, Purge
    <3> QED
      BY <3>1, <3>2, <3>3 DEF AuditNext, LogCheck, LogPut, Flush, Acquire, Take, TakeEnds,
         Insert, WorkerLoops, Close, Unlist, PutSentinel, Disconnect
  <2> QED
    BY <1>1, <2>1, EntriesStay
<1> DEFINE Clear ==
        \A i \in 1..Len(queue) : queue[i] = Sentinel =>
            /\ ~ listed
            /\ \A j \in 1..Len(queue), t \in {Closer, Querier} :
                  i < j => queue[j] \notin since[t]
<1>4. Clear'
  <2>1. ASSUME NEW w \in Writers, LogPut(w) PROVE Clear'
    <3>1. stamp[w] \notin Queued /\ stamp[w] \in Nat /\ stamp[w] # Sentinel
      BY <2>1, PutStamps DEF AuditInv
    <3>2. queue' = Append(queue, stamp[w]) /\ UNCHANGED <<listed, since>>
      BY <2>1 DEF LogPut
    <3>3. /\ Len(queue') = Len(queue) + 1 /\ queue'[Len(queue) + 1] = stamp[w]
          /\ \A i \in 1..Len(queue) : queue'[i] = queue[i]
      BY <1>0, <3>1, <3>2, AppendProperties
    <3>4. \A i \in 1..Len(queue') : i \in 1..Len(queue) \/ i = Len(queue) + 1
      BY <1>0, <3>3
    <3>5. \A t \in {Closer, Querier} : stamp[w] \notin since[t]
      BY <1>1, <3>1
    <3> QED
      BY <1>0, <1>1, <3>1, <3>2, <3>3, <3>4, <3>5
  <2>2. ASSUME NEW t \in Flushers, Take(t) PROVE Clear'
    <3>1. queue # <<>> /\ queue' = Tail(queue) /\ UNCHANGED <<listed, since>>
      BY <2>2 DEF Take
    <3>2. /\ Len(queue') = Len(queue) - 1
          /\ \A i \in 1..Len(queue') : i + 1 \in 1..Len(queue) /\ queue'[i] = queue[i + 1]
      BY <3>1, TailMoves
    <3>3. \A i, j \in 1..Len(queue') : i < j => i + 1 < j + 1
      BY <1>0, <3>2
    <3> QED
      BY <1>1, <3>1, <3>2, <3>3
  <2>3. CASE PutSentinel
    <3>1. queue' = Append(queue, Sentinel) /\ UNCHANGED <<listed, since>> /\ ~ listed
      BY <1>1, <2>3 DEF PutSentinel, At
    <3>2. /\ Len(queue') = Len(queue) + 1
          /\ \A i \in 1..Len(queue) : queue'[i] = queue[i]
          /\ queue'[Len(queue) + 1] = Sentinel
      BY <1>0, <3>1, AppendProperties
    <3>3. \A i \in 1..Len(queue') : i \in 1..Len(queue) \/ i = Len(queue) + 1
      BY <1>0, <3>2
    <3>4. \A t \in {Closer, Querier} : Sentinel \notin since[t]
      BY <1>1 DEF Queued
    <3> QED
      BY <1>0, <1>1, <3>1, <3>2, <3>3, <3>4
  <2>4. CASE CloseBegins \/ (QueryBegins /\ listed)
    <3>1. listed /\ UNCHANGED queue
      BY <1>1, <2>4 DEF CloseBegins, QueryBegins, At
    <3> QED
      BY <1>1, <3>1
  <2>5. CASE (QueryBegins /\ ~ listed) \/ QueryEnds \/ Purge
    <3>1. /\ UNCHANGED <<queue, listed>>
          /\ \A t \in {Closer, Querier} : since'[t] \subseteq since[t]
      BY <1>0, <2>5 DEF QueryBegins, QueryEnds, Purge
    <3> QED
      BY <1>1, <3>1
  <2>6. CASE Unlist
    BY <1>1, <2>6 DEF Unlist
  <2>7. CASE UNCHANGED <<queue, listed, since>>
    BY <1>1, <2>7
  <2> QED
    BY <2>1, <2>2, <2>3, <2>4, <2>5, <2>6, <2>7
       DEF AuditNext, LogCheck, Flush, Acquire, TakeEnds, Insert, WorkerLoops,
           Close, Disconnect, Query
<1> QED
  BY <1>2, <1>3, <1>4 DEF Unobstructed

\* Where a flush of close or of a query has come, it has not missed anything.
LEMMA ReadingStep ==
    ASSUME AuditInv, AuditNext
    PROVE  Underway' /\ FlushedInTime'
<1> USE AuditConstants
<1> DEFINE Missed(t) ==
        /\ at[t] = "take" => since[t] \subseteq InQueue \cup InBatch(t) \cup Handled
        /\ at[t] = "insert" => since[t] \subseteq InBatch(t) \cup Handled
        /\ t = Querier /\ at[t] = "select" => since[t] \subseteq Handled
        /\ t = Closer /\ at[t] \in {"join", "done"} => since[t] \subseteq Handled
<1>0. /\ Flushers = {Worker, Closer, Querier} /\ {Closer, Querier} \subseteq Flushers
      /\ \A t \in Flushers : t \in Writers \cup Flushers /\ t \notin Writers
      /\ at \in [Writers \cup Flushers -> AuditSteps]
      /\ since \in [{Closer, Querier} -> SUBSET Nat]
  BY DEF Flushers, AuditInv, AuditShape
<1> SUFFICES \A t \in {Closer, Querier} : Missed(t)'
  BY DEF Underway, FlushedInTime, At
<1> SUFFICES ASSUME NEW t \in {Closer, Querier} PROVE Missed(t)'
  OBVIOUS
<1>i. Missed(t)
  BY DEF AuditInv, Underway, FlushedInTime, At
<1>s. Handled \subseteq Handled'
  BY EntriesStay
<1>q. \A j \in 1..Len(queue) : queue[1] = Sentinel /\ 1 < j => queue[j] \notin since[t]
  <2>1. CASE queue = <<>>
    <3>1. 1..Len(queue) = {}
      BY <2>1, EmptySeq
    <3> QED
      BY <3>1
  <2>2. CASE queue # <<>>
    <3>1. 1 \in 1..Len(queue)
      BY <2>2, ItemsOfTail DEF AuditInv, AuditShape
    <3> QED
      BY <3>1 DEF AuditInv, Unobstructed
  <2> QED
    BY <2>1, <2>2
\* Where t does not take part and the places of entries can only grow.
<1>a. ASSUME at'[t] = at[t], since'[t] \subseteq since[t],
             InQueue \subseteq InQueue', InBatch(t) \subseteq InBatch(t)'
      PROVE  Missed(t)'
  BY <1>a, <1>i, <1>s
<1>b. ASSUME at'[t] = at[t], since'[t] \subseteq since[t], at[t] \notin {"take", "insert"}
      PROVE  Missed(t)'
  BY <1>b, <1>i, <1>s
<1>c. ASSUME at'[t] \notin {"take", "insert", "join", "done", "select"} PROVE Missed(t)'
  BY <1>c
<1> HIDE DEF Missed
<1>1. ASSUME NEW w \in Writers, LogCheck(w) \/ LogPut(w) PROVE Missed(t)'
  <2>1. at'[t] = at[t] /\ since' = since
    BY <1>0, <1>1 DEF LogCheck, LogPut, Go
  <2>2. InQueue \subseteq InQueue' /\ InBatch(t) \subseteq InBatch(t)'
    <3>1. CASE LogCheck(w)
      <4>1. UNCHANGED Places
        BY <3>1 DEF LogCheck, Places
      <4> QED
        BY <1>0, <4>1, PlacesStay
    <3>2. CASE LogPut(w)
      BY <1>0, <3>2, PutMoves
    <3> QED
      BY <1>1, <3>1, <3>2
  <2> QED
    BY <1>a, <2>1, <2>2
<1>2. ASSUME NEW u \in Flushers, Flush(u), u # t PROVE Missed(t)'
  <2>1. at'[t] = at[t] /\ since' = since
    BY <1>0, <1>2 DEF Flush, Acquire, Take, TakeEnds, Insert, Go
  <2>2. at[t] \notin {"take", "insert"}
    <3>1. holder = Nobody \/ holder = u
      BY <1>0, <1>2 DEF AuditInv, Locked, Flushing, Flush, Acquire, Take, TakeEnds, Insert, At
    <3> QED
      BY <1>0, <1>2, <3>1 DEF AuditInv, Locked, Flushing
  <2> QED
    BY <1>b, <2>1, <2>2
<1>3. CASE Acquire(t)
  <2>1. at'[t] = "take" /\ since' = since
    BY <1>0, <1>3 DEF Acquire, Go
  <2>2. InQueue' = InQueue /\ Handled' = Handled /\ Queued = InQueue \cup Handled
    BY <1>0, <1>3, AcquireMoves, PlacesStay
  <2>3. since[t] \subseteq Queued
    BY DEF AuditInv, Unobstructed
  <2> QED
    BY <2>1, <2>2, <2>3 DEF Missed
<1>4. CASE Take(t)
  <2>1. /\ InQueue \cup InBatch(t) = InQueue' \cup InBatch(t)'
        /\ Head(queue) = Sentinel => InQueue' = InQueue /\ InBatch(t)' = InBatch(t)
    BY <1>0, <1>4, TakeMoves
  <2>2. at[t] = "take" /\ since' = since /\ queue # <<>>
    BY <1>4 DEF Take, At
  <2>3. CASE Head(queue) = Sentinel
    <3>1. at'[t] = "insert"
      BY <1>0, <1>4, <2>3 DEF Take, Go
    <3>2. since[t] \cap InQueue = {}
      <4>1. /\ queue[1] = Sentinel /\ queue \in Seq(Nat) /\ Len(queue) \in Nat
            /\ ToSet(queue) = {queue[j] : j \in 1..Len(queue)}
        BY <2>2, <2>3, TailMoves, ItemsOf DEF AuditInv, AuditShape
      <4>2. \A j \in 1..Len(queue) : queue[j] = Sentinel \/ queue[j] \notin since[t]
        <5> TAKE j \in 1..Len(queue)
        <5>1. j = 1 \/ 1 < j
          BY <4>1
        <5> QED
          BY <1>q, <4>1, <5>1
      <4> QED
        BY <4>1, <4>2 DEF InQueue
    <3>3. since[t] \subseteq InQueue \cup InBatch(t) \cup Handled
      BY <1>i, <2>2 DEF Missed
    <3> QED
      BY <1>s, <2>1, <2>2, <2>3, <3>1, <3>2, <3>3 DEF Missed
  <2>4. CASE Head(queue) # Sentinel
    <3>1. at'[t] = "take"
      BY <1>4, <2>2, <2>4 DEF Take
    <3> QED
      BY <1>i, <1>s, <2>1, <2>2, <3>1 DEF Missed
  <2> QED
    BY <2>3, <2>4
<1>5. CASE TakeEnds(t)
  <2>1. at[t] = "take" /\ at'[t] = "insert" /\ since' = since /\ UNCHANGED Places
    BY <1>0, <1>5 DEF TakeEnds, At, Go, Places
  <2>2. queue = <<>>
    BY <1>5 DEF TakeEnds, Full
  <2>3. InQueue = {}
    BY <2>2, ItemsOf, EmptySeq DEF InQueue
  <2>4. InBatch(t)' = InBatch(t) /\ Handled' = Handled
    BY <1>0, <2>1, PlacesStay
  <2> QED
    BY <1>i, <2>1, <2>3, <2>4 DEF Missed
<1>6. CASE Insert(t)
  <2>1. at[t] = "insert" /\ at'[t] \notin {"take", "insert"} /\ since' = since
    <3>1. AfterFlush(t) \notin {"take", "insert"}
      BY <1>0 DEF AfterFlush
    <3> QED
      BY <1>0, <1>6, <3>1 DEF Insert, At, Go
  <2>2. Handled' = Handled \cup InBatch(t)
    BY <1>0, <1>6, InsertMoves
  <2> QED
    BY <1>i, <2>1, <2>2 DEF Missed
<1>7. CASE WorkerLoops
  <2>1. at'[t] = at[t] /\ since' = since /\ UNCHANGED Places
    BY <1>0, <1>7 DEF WorkerLoops, Go, Places
  <2> QED
    BY <1>0, <1>a, <2>1, PlacesStay
<1>8. CASE Close
  <2>1. CASE t = Closer
    <3>1. CASE CloseBegins \/ Unlist \/ PutSentinel
      <4>1. at'[t] \in {"unlist", "sentinel", "flush"}
        BY <1>0, <2>1, <3>1 DEF CloseBegins, Unlist, PutSentinel, Go
      <4> QED
        BY <1>c, <4>1
    <3>2. CASE Disconnect
      <4>1. at[t] = "join" /\ at'[t] = "done" /\ since' = since
        BY <1>0, <2>1, <3>2 DEF Disconnect, At, Go
      <4> QED
        BY <1>i, <1>s, <4>1 DEF Missed
    <3> QED
      BY <1>8, <3>1, <3>2 DEF Close
  <2>2. CASE t = Querier
    <3>1. at'[t] = at[t] /\ since'[t] = since[t]
      BY <1>0, <1>8, <2>2 DEF Close, CloseBegins, Unlist, PutSentinel, Disconnect, Go
    <3>2. InQueue' = InQueue /\ InBatch(t)' = InBatch(t)
      <4>1. CASE PutSentinel
        BY <1>0, <4>1, SentinelMoves
      <4>2. CASE UNCHANGED Places
        BY <1>0, <4>2, PlacesStay
      <4> QED
        BY <1>8, <4>1, <4>2 DEF Close, CloseBegins, Unlist, Disconnect, Places
    <3> QED
      BY <1>a, <3>1, <3>2
  <2> QED
    BY <2>1, <2>2
<1>9. CASE Query
  <2>1. CASE t = Querier
    <3>1. \/ at'[t] \in {"flush", "idle"}
          \/ since'[t] = {}
      BY <1>0, <1>9, <2>1 DEF Query, QueryBegins, QueryEnds, Purge, Go
    <3>2. CASE since'[t] = {}
      BY <3>2 DEF Missed
    <3> QED
      BY <1>c, <3>1, <3>2
  <2>2. CASE t = Closer
    <3>1. at'[t] = at[t] /\ since'[t] = since[t]
      BY <1>0, <1>9, <2>2 DEF Query, QueryBegins, QueryEnds, Purge, Go
    <3>2. InQueue' = InQueue /\ InBatch(t)' = InBatch(t)
      <4>1. CASE Purge
        BY <1>0, <4>1, PurgeMoves
      <4>2. CASE UNCHANGED Places
        BY <1>0, <4>2, PlacesStay
      <4> QED
        BY <1>9, <4>1, <4>2 DEF Query, QueryBegins, QueryEnds, Places
    <3> QED
      BY <1>a, <3>1, <3>2
  <2> QED
    BY <2>1, <2>2
<1> QED
  BY <1>1, <1>2, <1>3, <1>4, <1>5, <1>6, <1>7, <1>8, <1>9 DEF AuditNext, Flush

----------------------------------------------------------------------------
LEMMA AuditStep ==
    AuditInv /\ [AuditNext]_auditVars => AuditInv'
<1> SUFFICES ASSUME AuditInv, [AuditNext]_auditVars PROVE AuditInv'
  OBVIOUS
<1>1. CASE AuditNext
  <2>1. AuditShape' /\ Stamped' /\ Locked'
    BY <1>1, AuditShapeStep, StampedStep, LockedStep DEF AuditInv
  <2>2. Once' /\ Apart' /\ All'
    BY <1>1, EntriesStep
  <2>3. Unobstructed' /\ Underway' /\ FlushedInTime'
    BY <1>1, UnobstructedStep, ReadingStep
  <2> QED
    BY <2>1, <2>2, <2>3 DEF AuditInv
<1>2. CASE UNCHANGED auditVars
  <2>1. UNCHANGED Places
    BY <1>2 DEF auditVars, Places
  <2>2. Stamped' /\ Queued' = Queued
    BY <1>2, WritersStay DEF auditVars, AuditInv
  <2>3. AuditShape' /\ Locked'
    BY <1>2 DEF auditVars, AuditInv, AuditShape, Locked, Flushing
  <2>4. Once' /\ Apart' /\ All'
    BY <2>1, <2>2, QuietStep
  <2>5. InQueue' = InQueue /\ Handled' = Handled /\ \A t \in Flushers : InBatch(t)' = InBatch(t)
    BY <2>1, PlacesStay
  <2>6. Unobstructed' /\ Underway' /\ FlushedInTime'
    BY <1>2, <2>2, <2>5
       DEF auditVars, AuditInv, Unobstructed, Underway, FlushedInTime, At, Flushers
  <2> QED
    BY <2>2, <2>3, <2>4, <2>6 DEF AuditInv
<1> QED
  BY <1>1, <1>2

LEMMA AuditAlways == AuditSpec => []AuditInv
  BY AuditInit_Inv, AuditStep, PTL DEF AuditSpec

LEMMA AuditTypes == AuditInv => AuditTypeOK
<1> SUFFICES ASSUME AuditInv PROVE AuditTypeOK
  OBVIOUS
<1>1. /\ queue \in Seq(Nat) /\ rows \in Seq(Nat) /\ batch \in [Flushers -> Seq(Nat)]
      /\ clock \in Nat
  BY AuditConstants DEF AuditInv, AuditShape
<1>2. Everywhere \subseteq 1..clock
  BY DEF AuditInv, All, Queued
<1>3. ASSUME NEW s \in Seq(Nat), NEW T, ToSet(s) \subseteq T
      PROVE  s \in Seq(T)
  <2>1. \A i \in 1..Len(s) : s[i] \in T
    BY <1>3, ItemsOf
  <2> QED
    BY <2>1, LenProperties, SeqDef
<1>4. queue \in Seq(0..clock)
  <2>1. ToSet(queue) \subseteq 0..clock
    BY <1>1, <1>2, AuditConstants DEF Everywhere, InQueue
  <2> QED
    BY <1>1, <1>3, <2>1
<1>5. rows \in Seq(1..clock) /\ dropped \subseteq 1..clock /\ purged \subseteq 1..clock
  BY <1>1, <1>2, <1>3 DEF Everywhere, Handled
<1>6. \A t \in Flushers : batch[t] \in Seq(1..clock)
  <2> TAKE t \in Flushers
  <2>1. ToSet(batch[t]) \subseteq 1..clock /\ batch[t] \in Seq(Nat)
    BY <1>1, <1>2 DEF Everywhere, InBatch
  <2> QED
    BY <1>3, <2>1
<1> QED
  BY <1>4, <1>5, <1>6 DEF AuditTypeOK, AuditInv, AuditShape

\* The variables of the audit log have their types: everything that is in
\* the queue, a batch or the table is a time stamp that log has handed out.
THEOREM AuditTyped == AuditSpec => []AuditTypeOK
  BY AuditAlways, AuditTypes, PTL

\* No entry whose log has returned is lost, doubled or late, for any number
\* of writers, of entries and of failures, and any size of the batches: it is
\* in the queue, a batch or the table, in one of them and once, or was taken
\* by a failed insertion or a purge; and what was queued when close or a
\* query began has been taken out of the queue and inserted when the flush ends.
THEOREM EntriesAreKept == AuditSpec => []EntriesKept
<1>1. AuditInv => EntriesKept
  <2> SUFFICES ASSUME AuditInv PROVE EntriesConserved
    BY DEF EntriesKept, AuditInv
  <2> DEFINE places == <<ToSet(queue) \ {Sentinel}, ToSet(rows), dropped, purged,
                         ToSet(batch[Worker]), ToSet(batch[Closer]), ToSet(batch[Querier])>>
  <2>1. /\ queue \in Seq(Nat) /\ rows \in Seq(Nat) /\ \A t \in Flushers : batch[t] \in Seq(Nat)
        /\ Flushers = {Worker, Closer, Querier}
    BY DEF AuditInv, AuditShape, Flushers
  <2>2. \A i, j \in DOMAIN queue : queue[i] = queue[j] => i = j \/ queue[i] = Sentinel
    BY <2>1, ItemsOf DEF AuditInv, Once
  <2>3. IsInjective(rows) /\ \A t \in Flushers : IsInjective(batch[t])
    <3>1. /\ DOMAIN rows = 1..Len(rows)
          /\ \A t \in Flushers : DOMAIN batch[t] = 1..Len(batch[t])
      BY <2>1, ItemsOf
    <3>2. /\ \A i, j \in 1..Len(rows) : rows[i] = rows[j] => i = j
          /\ \A t \in Flushers : \A i, j \in 1..Len(batch[t]) :
                batch[t][i] = batch[t][j] => i = j
      BY DEF AuditInv, Once
    <3>3. IsInjective(rows)
      BY <3>1, <3>2 DEF IsInjective
    <3>4. ASSUME NEW t \in Flushers PROVE IsInjective(batch[t])
      BY <3>1, <3>2 DEF IsInjective
    <3> QED
      BY <3>3, <3>4
  <2>4. DOMAIN places = 1..7
    OBVIOUS
  <2>5. \A i, j \in 1..7 : i # j => places[i] \cap places[j] = {}
    <3> DEFINE Q == ToSet(queue) \ {Sentinel}
               R == ToSet(rows)
               W == ToSet(batch[Worker])
               C == ToSet(batch[Closer])
               D == ToSet(batch[Querier])
    <3>1. /\ Q \cap R = {} /\ Q \cap dropped = {} /\ Q \cap purged = {}
          /\ R \cap dropped = {} /\ R \cap purged = {} /\ dropped \cap purged = {}
          /\ \A t \in Flushers :
                /\ ToSet(batch[t]) \cap Q = {} /\ ToSet(batch[t]) \cap R = {}
                /\ ToSet(batch[t]) \cap dropped = {} /\ ToSet(batch[t]) \cap purged = {}
                /\ \A u \in Flushers : u # t => ToSet(batch[t]) \cap ToSet(batch[u]) = {}
      BY DEF AuditInv, Apart, InQueue, InRows, InBatch
    <3>2. /\ W \cap Q = {} /\ W \cap R = {} /\ W \cap dropped = {} /\ W \cap purged = {}
          /\ C \cap Q = {} /\ C \cap R = {} /\ C \cap dropped = {} /\ C \cap purged = {}
          /\ D \cap Q = {} /\ D \cap R = {} /\ D \cap dropped = {} /\ D \cap purged = {}
          /\ W \cap C = {} /\ W \cap D = {} /\ C \cap D = {}
      BY <2>1, <3>1, AuditConstants
    <3> HIDE DEF Q, R, W, C, D
    <3>3. places = <<Q, R, dropped, purged, W, C, D>>
      BY DEF Q, R, W, C, D
    <3> HIDE DEF places
    <3>4. /\ places[1] = Q /\ places[2] = R /\ places[3] = dropped /\ places[4] = purged
          /\ places[5] = W /\ places[6] = C /\ places[7] = D
      BY <3>3
    <3>5. \A i \in 1..7 : i = 1 \/ i = 2 \/ i = 3 \/ i = 4 \/ i = 5 \/ i = 6 \/ i = 7
      OBVIOUS
    <3> QED
      BY <3>1, <3>2, <3>4, <3>5
  <2>6. UNION {places[i] : i \in 1..7} = Queued
    <3>1. Queued = InQueue \cup Handled \cup InBatch(Worker) \cup InBatch(Closer) \cup InBatch(Querier)
      BY <2>1 DEF AuditInv, All, Everywhere
    <3>2. /\ places[1] = InQueue /\ places[2] = ToSet(rows) /\ places[3] = dropped
          /\ places[4] = purged /\ places[5] = InBatch(Worker)
          /\ places[6] = InBatch(Closer) /\ places[7] = InBatch(Querier)
      BY DEF InQueue, InBatch
    <3>3. 1..7 = {1, 2, 3, 4, 5, 6, 7}
      OBVIOUS
    <3> HIDE DEF places
    <3> QED
      BY <3>1, <3>2, <3>3 DEF Handled
  <2> HIDE DEF places
  <2>7. \A i, j \in DOMAIN places : i # j => places[i] \cap places[j] = {}
    BY <2>4, <2>5
  <2>8. UNION {places[i] : i \in DOMAIN places} = Queued
    BY <2>4, <2>6
  <2> QED
    BY <2>2, <2>3, <2>7, <2>8 DEF EntriesConserved, places
<1> QED
  BY <1>1, AuditAlways, PTL

----------------------------------------------------------------------------
(* IndexJob: an index run of the desktop application is reported once and   *)
(* truly.  The argument: the badge stands for the child; a job that is      *)
(* reported has no child any more (Over); the "done" line comes after the   *)
(* snapshot; and once a job is cancelled, what is alive of it has still to  *)
(* be signalled, unless the family grew after it was listed (Caught).       *)

Over ==
    /\ told # "nothing" => child = "none"
    /\ told = "cancelled" => cancelled
    /\ result => published

Caught ==
    cancelled =>
        /\ child \in {"starting", "running"} => "child" \in family
        /\ parsers = "alive" /\ ~grown => "parsers" \in family

JobInv == JobTypeOK /\ JobTold /\ Over /\ Caught

LEMMA JobStep == JobInv /\ [JobNext]_jobVars => JobInv'
<1> SUFFICES ASSUME JobInv, [JobNext]_jobVars PROVE JobInv'
  OBVIOUS
<1> USE DEF JobInv, JobTypeOK, JobTold, Over, Caught, childVars, reportVars
<1>1. CASE StartIndexing
  BY <1>1 DEF StartIndexing, IsRunning, Responsive
<1>2. CASE ChildStarts
  BY <1>2 DEF ChildStarts
<1>3. CASE ParsersStart
  BY <1>3 DEF ParsersStart
<1>4. CASE ParsersEnd
  BY <1>4 DEF ParsersEnd
<1>5. CASE ChildPublishes
  BY <1>5 DEF ChildPublishes
<1>6. CASE ChildPrintsDone
  BY <1>6 DEF ChildPrintsDone
<1>7. CASE ChildExits
  BY <1>7 DEF ChildExits
<1>8. CASE CancelLists
  BY <1>8 DEF CancelLists, IsRunning, Responsive
<1>9. CASE KillParsers
  BY <1>9 DEF KillParsers
<1>10. CASE KillChild
  BY <1>10 DEF KillChild
<1>11. CASE JobFinished
  BY <1>11 DEF JobFinished, Finishes, Responsive, Outcome
<1>12. CASE UNCHANGED jobVars
  BY <1>12 DEF jobVars
<1> QED
  BY <1>1, <1>2, <1>3, <1>4, <1>5, <1>6, <1>7, <1>8, <1>9, <1>10, <1>11, <1>12
     DEF JobNext, Killing

LEMMA JobInit_Inv == JobInit => JobInv
  BY DEF JobInit, JobInv, JobTypeOK, JobTold, Over, Caught

LEMMA JobAlways == JobSpec => []JobInv
  BY JobInit_Inv, JobStep, PTL DEF JobSpec

\* A job is reported once and truly (IndexProcess._on_finished, _on_index_finished
\* and _on_index_failed): whatever its child and the parsers below do while it is
\* cancelled.
THEOREM JobToldTruly == JobSpec => []JobTold
<1>1. JobInv => JobTold
  BY DEF JobInv
<1> QED
  BY <1>1, JobAlways, PTL

----------------------------------------------------------------------------
(* SecurityView: a thread that does nothing has nothing left of what it     *)
(* did, and results never outgrow the mail.                                 *)

Letters == [job : {"agents", "halt", "snapshot"}, halt : BOOLEAN]

Occupation ==
    [job : {"none", "snapshot", "halt", "agents", "order", "agent"}, looks : 0..2,
     step : {"rest", "look", "assign", "stamp", "ask", "write", "stampOrder"},
     got : BOOLEAN, wanted : BOOLEAN]

ViewShape ==
    /\ stop \in BOOLEAN /\ known \in BOOLEAN /\ young \in BOOLEAN
    /\ label \in BOOLEAN /\ orders \in 0..MaxOrders /\ misses \in 0..MaxMisses
    /\ mail \in Seq(Letters) /\ Len(mail) <= MaxMail
    /\ runs \in [Threads -> Occupation]
    /\ \A t \in Threads : Rests(t) => runs[t] = Resting

LEMMA ViewConstants ==
    MaxOrders \in Nat /\ MaxMisses \in Nat /\ MaxMail \in Nat
  BY SecurityAssumption DEF SecurityAssumption

LEMMA Occupations ==
    /\ Resting \in Occupation /\ Collecting \in Occupation
    /\ Asking("halt", 1) \in Occupation /\ Asking("agents", 1) \in Occupation
    /\ \A w \in BOOLEAN : /\ Ordered("order", w) \in Occupation
                          /\ Ordered("agent", w) \in Occupation
                          /\ Ordered("order", w).step = "write"
                          /\ Ordered("agent", w).step = "write"
    /\ Collecting.step = "look" /\ Asking("halt", 1).step = "look"
    /\ Asking("agents", 1).step = "look"
<1>1. Resting \in Occupation
  BY DEF Resting, Occupation
<1>2. ASSUME NEW r \in Occupation, NEW j \in {"snapshot", "halt", "agents"}, NEW k \in 0..2
      PROVE  /\ [r EXCEPT !.job = j, !.looks = k, !.step = "look"] \in Occupation
             /\ [r EXCEPT !.job = j, !.looks = k, !.step = "look"].step = "look"
  BY DEF Occupation
<1>3. ASSUME NEW r \in Occupation, NEW j \in {"order", "agent"}, NEW w \in BOOLEAN
      PROVE  /\ [r EXCEPT !.job = j, !.step = "write", !.wanted = w] \in Occupation
             /\ [r EXCEPT !.job = j, !.step = "write", !.wanted = w].step = "write"
  BY DEF Occupation
<1>4. \A j \in {"snapshot", "halt", "agents"}, k \in 0..2 :
          Asking(j, k) \in Occupation /\ Asking(j, k).step = "look"
  BY <1>1, <1>2 DEF Asking
<1>5. \A j \in {"order", "agent"}, w \in BOOLEAN :
          Ordered(j, w) \in Occupation /\ Ordered(j, w).step = "write"
  BY <1>1, <1>3 DEF Ordered
<1> QED
  BY <1>1, <1>4, <1>5 DEF Collecting

\* A thread that goes on to some step, or begins something else.
LEMMA RunsStep ==
    ASSUME ViewShape, NEW t \in Threads, NEW r \in Occupation,
           runs' = [runs EXCEPT ![t] = r], r.step = "rest" => r = Resting
    PROVE  /\ runs' \in [Threads -> Occupation]
           /\ \A u \in Threads : Rests(u)' => runs'[u] = Resting
<1>1. runs' \in [Threads -> Occupation]
  BY DEF ViewShape
<1>2. \A u \in Threads : runs'[u] = IF u = t THEN r ELSE runs[u]
  BY DEF ViewShape
<1>3. \A u \in Threads : runs[u].step = "rest" => runs[u] = Resting
  BY DEF ViewShape, Rests
<1> QED
  BY <1>1, <1>2, <1>3 DEF Rests

LEMMA SecurityInit_Shape == SecurityInit => ViewShape
<1> SUFFICES ASSUME SecurityInit PROVE ViewShape
  OBVIOUS
<1>1. \A t \in Threads : runs[t] = Resting
  BY DEF SecurityInit
<1>2. runs \in [Threads -> Occupation]
  BY Occupations DEF SecurityInit
<1>3. mail \in Seq(Letters) /\ Len(mail) <= MaxMail
  BY ViewConstants DEF SecurityInit
<1>4. /\ stop \in BOOLEAN /\ known \in BOOLEAN /\ young \in BOOLEAN
      /\ label \in BOOLEAN /\ orders \in 0..MaxOrders /\ misses \in 0..MaxMisses
  <2>1. stop \in BOOLEAN /\ known \in BOOLEAN /\ young \in BOOLEAN /\ label \in BOOLEAN
    BY Zenon DEF SecurityInit
  <2> QED
    BY <2>1, ViewConstants DEF SecurityInit
<1> QED
  BY <1>1, <1>2, <1>3, <1>4 DEF ViewShape

LEMMA MailStep ==
    ASSUME ViewShape
    PROVE  /\ \A m \in Letters : /\ Append(mail, m) \in Seq(Letters)
                                 /\ Len(Append(mail, m)) = Len(mail) + 1
           /\ \A m1, m2 \in Letters : /\ mail \o <<m1, m2>> \in Seq(Letters)
                                      /\ Len(mail \o <<m1, m2>>) = Len(mail) + 2
           /\ mail # <<>> => /\ Head(mail) \in Letters /\ Tail(mail) \in Seq(Letters)
                             /\ Len(Tail(mail)) = Len(mail) - 1
           /\ Len(mail) \in Nat
<1>0. mail \in Seq(Letters)
  BY DEF ViewShape
<1>1. \A m \in Letters : /\ Append(mail, m) \in Seq(Letters)
                         /\ Len(Append(mail, m)) = Len(mail) + 1
  BY <1>0, AppendProperties
<1>2. ASSUME NEW m1 \in Letters, NEW m2 \in Letters
      PROVE  /\ mail \o <<m1, m2>> \in Seq(Letters)
             /\ Len(mail \o <<m1, m2>>) = Len(mail) + 2
  <2>1. <<m1, m2>> \in Seq(Letters) /\ Len(<<m1, m2>>) = 2
    OBVIOUS
  <2> QED
    BY <1>0, <2>1, ConcatProperties
<1>3. mail # <<>> => /\ Head(mail) \in Letters /\ Tail(mail) \in Seq(Letters)
                     /\ Len(Tail(mail)) = Len(mail) - 1
  BY <1>0, HeadTailProperties
<1> QED
  BY <1>0, <1>1, <1>2, <1>3, LenProperties

LEMMA SecurityStep == ViewShape /\ [SecurityNext]_securityVars => ViewShape'
<1> SUFFICES ASSUME ViewShape, [SecurityNext]_securityVars PROVE ViewShape'
  OBVIOUS
<1> USE ViewConstants DEF governed, cacheOf, shown
<1>t. /\ stop \in BOOLEAN /\ known \in BOOLEAN /\ young \in BOOLEAN
      /\ label \in BOOLEAN /\ orders \in 0..MaxOrders /\ misses \in 0..MaxMisses
      /\ mail \in Seq(Letters) /\ Len(mail) <= MaxMail
      /\ \A t \in Threads : runs[t] \in Occupation
      /\ "ui" \in Threads /\ "pool" \in Threads
  BY DEF ViewShape, Threads
<1> DEFINE Rest == /\ stop' \in BOOLEAN /\ known' \in BOOLEAN /\ young' \in BOOLEAN
                   /\ label' \in BOOLEAN /\ orders' \in 0..MaxOrders
                   /\ misses' \in 0..MaxMisses
                   /\ mail' \in Seq(Letters) /\ Len(mail') <= MaxMail
           Kept == UNCHANGED runs
           Goes(t, r) == /\ r \in Occupation /\ runs' = [runs EXCEPT ![t] = r]
                         /\ r.step = "rest" => r = Resting
<1>k. ASSUME Rest, Kept PROVE ViewShape'
  BY <1>k DEF ViewShape, Rests
<1>g. ASSUME NEW t \in Threads, NEW r, Rest, Goes(t, r) PROVE ViewShape'
  <2>1. /\ runs' \in [Threads -> Occupation]
        /\ \A u \in Threads : Rests(u)' => runs'[u] = Resting
    BY <1>g, RunsStep
  <2> QED
    BY <1>g, <2>1 DEF ViewShape
<1>e. \A t \in Threads : runs[t] = [job |-> runs[t].job, looks |-> runs[t].looks,
                                    step |-> runs[t].step, got |-> runs[t].got,
                                    wanted |-> runs[t].wanted]
  BY <1>t DEF Occupation
<1>1. ASSUME NEW t \in Threads, Look(t) PROVE ViewShape'
  <2> DEFINE r == [runs[t] EXCEPT !.step = IF young THEN "ask" ELSE "assign",
                                  !.got = ~young /\ stop]
  <2>1. Goes(t, r)
    BY <1>1, <1>t, <1>e DEF Look, Occupation
  <2>2. Rest
    BY <1>1, <1>t DEF Look
  <2> QED
    BY <1>g, <2>1, <2>2
<1>2. ASSUME NEW t \in Threads, AssignRow(t) PROVE ViewShape'
  <2> DEFINE r == [runs[t] EXCEPT !.step = "stamp", !.got = FALSE]
  <2>1. Goes(t, r)
    BY <1>2, <1>t, <1>e DEF AssignRow, Occupation
  <2>2. Rest
    BY <1>2, <1>t DEF AssignRow, Occupation
  <2> QED
    BY <1>g, <2>1, <2>2
<1>3. ASSUME NEW t \in Threads, StampCache(t) PROVE ViewShape'
  <2> DEFINE r == [runs[t] EXCEPT !.step = "ask"]
  <2>1. Goes(t, r)
    BY <1>3, <1>t, <1>e DEF StampCache, Steps, Occupation
  <2>2. Rest
    BY <1>3, <1>t DEF StampCache
  <2> QED
    BY <1>g, <2>1, <2>2
<1>4. ASSUME NEW t \in Threads, Ask(t) PROVE ViewShape'
  <2> DEFINE r == [runs[t] EXCEPT !.looks = @ - 1, !.step = "look"]
  <2>1. Goes(t, r)
    <3>1. runs[t].looks \in 0..2 /\ runs[t].looks > 1 /\ runs[t].looks - 1 \in 0..2
      BY <1>4, <1>t DEF Ask, Occupation
    <3>2. r \in Occupation /\ r.step = "look"
      BY <1>t, <1>e, <3>1 DEF Occupation
    <3> QED
      BY <1>4, <3>2 DEF Ask
  <2>2. Rest
    BY <1>4, <1>t DEF Ask
  <2> QED
    BY <1>g, <2>1, <2>2
<1>5. ASSUME NEW t \in Threads, LastAsk(t) PROVE ViewShape'
  <2>1. Goes(t, Resting)
    BY <1>5, Occupations DEF LastAsk, Becomes
  <2>2. Told(t) \in BOOLEAN /\ [job |-> "snapshot", halt |-> Told(t)] \in Letters
    BY <1>t DEF Told, Letters
  <2>3. Rest
    BY <1>5, <1>t, <2>2, MailStep DEF LastAsk
  <2> QED
    BY <1>g, <2>1, <2>3
<1>6. ASSUME NEW t \in Threads, ReadMisses(t) PROVE ViewShape'
  <2>1. Goes(t, Resting)
    BY <1>6, Occupations DEF ReadMisses, Becomes
  <2>2. Rest
    BY <1>6, <1>t DEF ReadMisses
  <2> QED
    BY <1>g, <2>1, <2>2
<1>7. CASE Ages
  BY <1>7, <1>k, <1>t DEF Ages
<1>8. CASE RefreshTab
  <2>1. Goes("pool", Collecting)
    BY <1>8, <1>t, Occupations DEF RefreshTab, Becomes
  <2>2. Rest
    BY <1>8, <1>t DEF RefreshTab
  <2> QED
    BY <1>g, <1>t, <2>1, <2>2
<1>9. CASE PollOnce
  <2>1. /\ [job |-> "agents", halt |-> FALSE] \in Letters
        /\ [job |-> "halt", halt |-> stop] \in Letters
    BY <1>t DEF Letters
  <2>2. Rest /\ Kept
    BY <1>9, <1>t, <2>1, MailStep DEF PollOnce
  <2> QED
    BY <1>k, <2>2
<1>10. CASE PollMisses
  BY <1>10, <1>k, <1>t DEF PollMisses
<1>11. CASE EventLoop
  <2>1. Head(mail) \in Letters /\ Tail(mail) \in Seq(Letters)
        /\ Len(Tail(mail)) = Len(mail) - 1 /\ Len(mail) \in Nat
    BY <1>11, MailStep DEF EventLoop
  <2>2. Rest
    <3>1. Head(mail).halt \in BOOLEAN /\ label' \in BOOLEAN
      BY <1>11, <1>t, <2>1 DEF EventLoop, TellHalt, TellSnapshot, TellAgents, Letters
    <3>2. mail' = Tail(mail) /\ UNCHANGED <<stop, orders, misses, known, young>>
      BY <1>11 DEF EventLoop
    <3> QED
      BY <1>t, <2>1, <3>1, <3>2
  <2>3. \/ Kept \/ Goes("ui", Asking("halt", 1)) \/ Goes("ui", Asking("agents", 1))
    BY <1>11, Occupations DEF EventLoop, TellHalt, TellSnapshot, TellAgents, Becomes
  <2> QED
    BY <1>g, <1>k, <1>t, <2>2, <2>3
<1>12. CASE PressButton
  <2>1. Goes("ui", Ordered("order", ~label))
    BY <1>12, <1>t, Occupations DEF PressButton, Becomes
  <2>2. Rest
    BY <1>12, <1>t DEF PressButton
  <2> QED
    BY <1>g, <1>t, <2>1, <2>2
<1>13. CASE PressAgentButton
  <2>1. Goes("ui", Ordered("agent", FALSE))
    BY <1>13, <1>t, Occupations DEF PressAgentButton, Becomes
  <2>2. Rest
    BY <1>13, <1>t DEF PressAgentButton
  <2> QED
    BY <1>g, <1>t, <2>1, <2>2
<1>14. CASE WriteOrder
  <2> DEFINE r == [runs["ui"] EXCEPT !.step = "stampOrder"]
  <2>1. Goes("ui", r)
    BY <1>14, <1>t, <1>e DEF WriteOrder, Steps, Occupation
  <2>2. Rest
    BY <1>14, <1>t DEF WriteOrder, Occupation
  <2> QED
    BY <1>g, <1>t, <2>1, <2>2
<1>15. CASE WriteMisses
  <2>1. Goes("ui", Resting)
    BY <1>15, Occupations DEF WriteMisses, Becomes
  <2>2. Rest
    BY <1>15, <1>t DEF WriteMisses
  <2> QED
    BY <1>g, <1>t, <2>1, <2>2
<1>16. CASE StampOrder
  <2>1. Goes("ui", Collecting)
    BY <1>16, Occupations DEF StampOrder, Becomes
  <2>2. Rest
    BY <1>16, <1>t DEF StampOrder, Occupation
  <2> QED
    BY <1>g, <1>t, <2>1, <2>2
<1>17. CASE OthersOrder
  BY <1>17, <1>k, <1>t DEF OthersOrder
<1>18. CASE UNCHANGED securityVars
  BY <1>18, <1>k, <1>t DEF securityVars
<1> QED
  BY <1>1, <1>2, <1>3, <1>4, <1>5, <1>6, <1>7, <1>8, <1>9, <1>10, <1>11, <1>12,
     <1>13, <1>14, <1>15, <1>16, <1>17, <1>18 DEF SecurityNext, Thread, Ordering

LEMMA ViewAlways == SecuritySpec => []ViewShape
  BY SecurityInit_Shape, SecurityStep, PTL DEF SecuritySpec

LEMMA ViewTypes == ViewShape => SecurityTypeOK
<1> SUFFICES ASSUME ViewShape PROVE SecurityTypeOK
  OBVIOUS
<1>1. mail \in BoundedSeq(Letters, MaxMail)
  <2>1. mail \in [1..Len(mail) -> Letters] /\ Len(mail) \in 0..MaxMail
    BY ViewConstants, LenProperties DEF ViewShape
  <2> QED
    BY <2>1 DEF BoundedSeq, SeqOf
<1>2. \A t \in Threads : runs[t].looks \in 0..2 /\ (Rests(t) <=> runs[t] = Resting)
  BY DEF ViewShape, Occupation, Rests, Resting
<1> QED
  BY <1>1, <1>2 DEF ViewShape, SecurityTypeOK, Letters

\* Every state of the view is well typed: a thread at rest has nothing left of its
\* last refresh or order, and the results that wait are never more than allowed.
THEOREM SecurityTyped == SecuritySpec => []SecurityTypeOK
  BY ViewAlways, ViewTypes, PTL

----------------------------------------------------------------------------
(* The whole: its parts take turns and share no variable, so that what is  *)
(* proved of each part holds of it.                                        *)

LEMMA WatchParts ==
    WatchSpec => /\ Init /\ [][Next]_vars
                 /\ AuditInit /\ [][AuditNext]_auditVars
                 /\ JobInit /\ [][JobNext]_jobVars
                 /\ SecurityInit /\ [][SecurityNext]_securityVars
<1>1. WatchInit => Init /\ AuditInit /\ JobInit /\ SecurityInit
  BY DEF WatchInit
<1>2. [WatchNext]_watchVars =>
          /\ [Next]_vars /\ [AuditNext]_auditVars
          /\ [JobNext]_jobVars /\ [SecurityNext]_securityVars
  BY DEF WatchNext, Watching, Auditing, Indexing, Viewing, watchVars
<1> QED
  BY <1>1, <1>2, PTL DEF WatchSpec

\* What works in the background is well typed, whichever part of it moves.
THEOREM WatchWholeTyped == WatchSpec => []WatchTypeOK
<1>1. WatchIInv => TypeOK
  BY DEF WatchIInv
<1>2. TypeOK /\ AuditTypeOK /\ JobTypeOK /\ SecurityTypeOK => WatchTypeOK
  BY DEF WatchTypeOK
<1>3. JobInv => JobTypeOK
  BY DEF JobInv
<1> QED
  BY <1>1, <1>2, <1>3, WatchParts, WatchInvInit, WatchInvStep,
     AuditInit_Inv, AuditStep, AuditTypes, JobInit_Inv, JobStep,
     SecurityInit_Shape, SecurityStep, ViewTypes, PTL
=============================================================================
