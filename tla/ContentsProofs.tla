---------------------------- MODULE ContentsProofs ---------------------------
(***************************************************************************)
(* What an index run reads is what the tree holds, for any files, texts    *)
(* and times, what its pool of parsers loses is made up for, a context     *)
(* packet keeps to its budget, whatever is packed, an answer tells the     *)
(* truth about what it leaves out, whatever was found, and a call is bound *)
(* to the nearest override and to no misfit, whatever is declared.  The    *)
(* edges of an incremental snapshot are those of a full build wherever no  *)
(* import renames.                                                         *)
(***************************************************************************)
EXTENDS MCContents, RetrievalProofs

----------------------------------------------------------------------------
(* IncrementalIndex: the files that a run does not read.  The argument: a   *)
(* file whose time lies before the window of a run has not been edited     *)
(* since that run began (Untouched), so that the run has seen the text the *)
(* file still has, and so has the snapshot it published (SnapshotKnows)    *)
(* until an edit moves the time past the window.                           *)

AnyText == UNION {Texts(p) : p \in Paths}

Finding ==
    [how : {"unknown", "skipped", "candidate", "reused", "parsed"},
     text : AnyText, mtime : Int]

IndexShape ==
    /\ now \in Nat /\ started \in Nat /\ started <= now
    /\ tree \in [Paths -> [text : AnyText, mtime : Int]]
    /\ snap.texts \in [Paths -> AnyText] /\ snap.mtimes \in [Paths -> Int]
    /\ snap.started \in Nat /\ snap.started <= now
    /\ pc \in {"idle", "classify"} /\ mode \in {"stat", "hash", "full"}
    /\ seen \in [Paths -> Finding]
    /\ shown \in [Paths -> SUBSET AnyText]

\* A run follows every text a file has had since it began.
Followed == pc = "classify" => \A p \in Paths : tree[p].text \in shown[p]

\* A file with a time before the window of the run has one text since it began.
Untouched ==
    pc = "classify" =>
        \A p \in Paths : tree[p].mtime < started - Racy => shown[p] = {tree[p].text}

\* A snapshot knows the text of a file that still has the time it had.
SnapshotKnows ==
    \A p \in Paths :
        /\ snap.texts[p] # Absent /\ snap.mtimes[p] = tree[p].mtime
        /\ tree[p].mtime < snap.started - Racy
        => snap.texts[p] = tree[p].text

Unseen ==
    pc = "idle" => \A p \in Paths : seen[p].how = "unknown"

IndexInv ==
    IndexShape /\ Followed /\ Untouched /\ SnapshotKnows /\ Unseen /\ ReadsTheTree

LEMMA IndexConstants ==
    /\ Racy \in Nat /\ Granularity \in Nat /\ 0 < Granularity /\ Granularity <= Racy
    /\ Absent \in AnyText \/ Paths = {}
    /\ \A p \in Paths : Texts(p) \subseteq AnyText /\ FirstText[p] \in AnyText
<1>1. \A p \in Paths : Texts(p) \subseteq AnyText
  BY DEF AnyText
<1>2. \A p \in Paths : Absent \in Texts(p) /\ FirstText[p] \in Texts(p)
  BY IncrementalAssumption DEF IncrementalAssumption, Texts
<1>3. /\ Racy \in Nat /\ Granularity \in Nat /\ 0 < Granularity
      /\ Granularity <= Racy
  BY IncrementalAssumption DEF IncrementalAssumption
<1> QED
  BY <1>1, <1>2, <1>3

\* A time of the file system lies less than its granularity before the clock's.
LEMMA StampBounds ==
    ASSUME NEW t \in Nat
    PROVE  Stamp(t) \in Int /\ Stamp(t) <= t /\ t - Granularity < Stamp(t)
<1>1. t % Granularity \in 0..(Granularity - 1)
  BY IndexConstants
<1> QED
  BY <1>1, IndexConstants DEF Stamp

LEMMA IndexInit == Init => IndexInv
<1> SUFFICES ASSUME Init PROVE IndexInv
  OBVIOUS
<1> USE IndexConstants DEF Init
<1>1. IndexShape
  <2>1. tree \in [Paths -> [text : AnyText, mtime : Int]]
    OBVIOUS
  <2>2. /\ snap.texts \in [Paths -> AnyText] /\ snap.mtimes \in [Paths -> Int]
        /\ snap.started \in Nat /\ snap.started <= now
    BY DEF NoSnapshot
  <2>3. seen \in [Paths -> Finding]
    BY DEF Unknown, Finding
  <2> QED
    BY <2>1, <2>2, <2>3 DEF IndexShape
<1>2. Followed /\ Untouched
  BY DEF Followed, Untouched
<1>3. SnapshotKnows
  BY DEF SnapshotKnows, NoSnapshot
<1>4. Unseen /\ ReadsTheTree
  BY DEF Unseen, ReadsTheTree, Unknown
<1> QED
  BY <1>1, <1>2, <1>3, <1>4 DEF IndexInv

LEMMA EditKeeps ==
    ASSUME IndexInv, NEW p \in Paths, NEW text \in Texts(p), Edit(p, text)
    PROVE  IndexInv'
<1> USE IndexConstants DEF IndexInv, IndexShape
<1>1. /\ text \in AnyText
      /\ tree' = [tree EXCEPT ![p] = [text |-> text, mtime |-> Stamp(now)]]
      /\ UNCHANGED <<now, snap, pc, mode, started, seen>>
      /\ shown' = IF pc = "idle" THEN shown
                  ELSE [shown EXCEPT ![p] = @ \cup {text}]
  BY DEF Edit
<1>2. /\ Stamp(now) \in Int /\ Stamp(now) <= now /\ now - Granularity < Stamp(now)
  BY StampBounds
<1>3. tree' \in [Paths -> [text : AnyText, mtime : Int]]
  BY <1>1, <1>2
<1>4. shown' \in [Paths -> SUBSET AnyText] /\ \A q \in Paths : shown[q] \subseteq shown'[q]
  BY <1>1
<1>5. IndexShape'
  BY <1>1, <1>3, <1>4
<1>6. Followed'
  BY <1>1 DEF Followed
<1>7. /\ ~(tree'[p].mtime < started - Racy) /\ ~(tree'[p].mtime < snap.started - Racy)
      /\ \A q \in Paths \ {p} : tree'[q] = tree[q] /\ shown'[q] = shown[q]
  BY <1>1, <1>2
<1>8. Untouched'
  BY <1>1, <1>7 DEF Untouched
<1>9. SnapshotKnows'
  BY <1>1, <1>7 DEF SnapshotKnows
<1>10. Unseen' /\ ReadsTheTree'
  BY <1>1, <1>4 DEF Unseen, ReadsTheTree
<1> QED
  BY <1>5, <1>6, <1>8, <1>9, <1>10

LEMMA BeginKeeps ==
    ASSUME IndexInv, NEW m \in {"stat", "hash", "full"}, Begin(m)
    PROVE  IndexInv'
<1> USE IndexConstants DEF IndexInv, IndexShape
<1>1. /\ pc' = "classify" /\ mode' = m /\ started' = now
      /\ seen' = [p \in Paths |-> Unknown]
      /\ shown' = [p \in Paths |-> {tree[p].text}]
      /\ UNCHANGED <<now, tree, snap>>
  BY DEF Begin, treeVars
<1>2. seen' \in [Paths -> Finding]
  BY <1>1 DEF Unknown, Finding
<1>3. IndexShape'
  BY <1>1, <1>2
<1>4. Followed' /\ Untouched'
  BY <1>1 DEF Followed, Untouched
<1>5. SnapshotKnows'
  BY <1>1 DEF SnapshotKnows
<1>6. Unseen' /\ ReadsTheTree'
  BY <1>1 DEF Unseen, ReadsTheTree, Unknown
<1> QED
  BY <1>3, <1>4, <1>5, <1>6

\* A file that is trusted by its time has the text of the snapshot.
LEMMA TrustedText ==
    ASSUME IndexInv, NEW p \in Paths, Trusted(p)
    PROVE  Previous.texts[p] = tree[p].text
<1>1. /\ mode = "stat" /\ Previous = snap
  BY DEF Trusted, Previous
<1> QED
  BY <1>1 DEF Trusted, IndexInv, SnapshotKnows

LEMMA ClassifyKeeps ==
    ASSUME IndexInv, NEW p \in Paths, Classify(p) \/ ReadFile(p)
    PROVE  IndexInv'
<1> USE IndexConstants DEF IndexInv, IndexShape
<1>1. /\ pc = "classify"
      /\ UNCHANGED <<now, tree, snap, pc, mode, started, shown>>
  BY DEF Classify, ReadFile, treeVars
<1>2. PICK new \in Finding :
         /\ seen' = [seen EXCEPT ![p] = new]
         /\ new.how = "candidate" \/ new.text = tree[p].text
  <2>1. CASE Classify(p)
    <3>1. CASE tree[p].text = Absent
      <4> DEFINE new == [how |-> "skipped", text |-> Absent, mtime |-> 0]
      <4>1. seen' = [seen EXCEPT ![p] = new]
        BY <2>1, <3>1 DEF Classify
      <4>2. new \in Finding /\ new.text = tree[p].text
        BY <3>1 DEF Finding
      <4> QED
        BY <4>1, <4>2
    <3>2. CASE tree[p].text # Absent /\ Trusted(p)
      <4> DEFINE new == [how |-> "reused", text |-> Previous.texts[p],
                         mtime |-> Previous.mtimes[p]]
      <4>1. seen' = [seen EXCEPT ![p] = new]
        BY <2>1, <3>2 DEF Classify
      <4>2. Previous.texts[p] = tree[p].text /\ Previous.mtimes[p] = tree[p].mtime
        BY <3>2, TrustedText DEF Trusted
      <4>3. new \in Finding /\ new.text = tree[p].text
        BY <4>2 DEF Finding
      <4> QED
        BY <4>1, <4>3
    <3>3. CASE tree[p].text # Absent /\ ~Trusted(p)
      <4> DEFINE new == [how |-> "candidate", text |-> Absent, mtime |-> tree[p].mtime]
      <4>1. seen' = [seen EXCEPT ![p] = new]
        BY <2>1, <3>3 DEF Classify
      <4>2. new \in Finding /\ new.how = "candidate"
        BY DEF Finding
      <4> QED
        BY <4>1, <4>2
    <3> QED
      BY <3>1, <3>2, <3>3
  <2>2. CASE ReadFile(p)
    <3> DEFINE how == CASE tree[p].text = Absent -> "skipped"
                        [] tree[p].text = Previous.texts[p] -> "reused"
                        [] OTHER -> "parsed"
               new == [how |-> how, text |-> tree[p].text, mtime |-> seen[p].mtime]
    <3>1. seen' = [seen EXCEPT ![p] = new]
      BY <2>2 DEF ReadFile
    <3>2. new \in Finding /\ new.text = tree[p].text
      <4>1. how \in {"skipped", "reused", "parsed"}
        OBVIOUS
      <4>2. tree[p].text \in AnyText /\ seen[p].mtime \in Int
        BY DEF Finding
      <4> HIDE DEF how
      <4> QED
        BY <4>1, <4>2 DEF Finding
    <3> QED
      BY <3>1, <3>2
  <2> QED
    BY <2>1, <2>2
<1>3. IndexShape'
  BY <1>1, <1>2
<1>4. Followed' /\ Untouched' /\ SnapshotKnows' /\ Unseen'
  BY <1>1 DEF Followed, Untouched, SnapshotKnows, Unseen
<1>5. ReadsTheTree'
  BY <1>1, <1>2 DEF ReadsTheTree, Followed
<1> QED
  BY <1>3, <1>4, <1>5

LEMMA FinishKeeps == ASSUME IndexInv, Finish \/ Fail PROVE IndexInv'
<1> USE IndexConstants DEF IndexInv, IndexShape
<1>1. /\ pc = "classify" /\ pc' = "idle" /\ started' = 0 /\ mode' = "stat"
      /\ seen' = [p \in Paths |-> Unknown] /\ shown' = [p \in Paths |-> {}]
      /\ UNCHANGED <<now, tree>>
  BY DEF Finish, Fail, treeVars
<1>2. \/ snap' = snap
      \/ /\ \A p \in Paths : seen[p].how \in {"skipped", "reused", "parsed"}
         /\ snap'.texts = [p \in Paths |-> seen[p].text]
         /\ snap'.mtimes = [p \in Paths |-> seen[p].mtime]
         /\ snap'.started = started
  BY DEF Finish, Fail, treeVars
<1>3. seen' \in [Paths -> Finding]
  BY <1>1 DEF Unknown, Finding
<1>4. IndexShape'
  <2>1. /\ snap'.texts \in [Paths -> AnyText] /\ snap'.mtimes \in [Paths -> Int]
        /\ snap'.started \in Nat /\ snap'.started <= now
    BY <1>2 DEF Finding
  <2> QED
    BY <1>1, <1>3, <2>1
<1>5. Followed' /\ Untouched' /\ Unseen' /\ ReadsTheTree'
  BY <1>1 DEF Followed, Untouched, Unseen, ReadsTheTree, Unknown
<1>6. SnapshotKnows'
  <2>1. CASE snap' = snap
    BY <1>1, <2>1 DEF SnapshotKnows
  <2>2. CASE snap' # snap
    <3> SUFFICES ASSUME NEW p \in Paths, tree[p].mtime < started - Racy
                 PROVE  seen[p].text = tree[p].text
      BY <1>1, <1>2, <2>2 DEF SnapshotKnows
    <3>1. seen[p].text \in shown[p] /\ shown[p] = {tree[p].text}
      BY <1>1, <1>2, <2>2 DEF ReadsTheTree, Untouched
    <3> QED
      BY <3>1
  <2> QED
    BY <2>1, <2>2
<1> QED
  BY <1>4, <1>5, <1>6

LEMMA IndexStep == IndexInv /\ [Next]_vars => IndexInv'
<1> SUFFICES ASSUME IndexInv, [Next]_vars PROVE IndexInv'
  OBVIOUS
<1>1. CASE Tick \/ UNCHANGED vars
  <2>1. /\ UNCHANGED <<tree, snap, pc, mode, started, seen, shown>>
        /\ now' \in Nat /\ now <= now'
    BY <1>1 DEF Tick, vars, treeVars, IndexInv, IndexShape
  <2>2. IndexShape'
    BY <2>1 DEF IndexInv, IndexShape
  <2> QED
    BY <2>1, <2>2 DEF IndexInv, Followed, Untouched, SnapshotKnows, Unseen, ReadsTheTree
<1> QED
  BY <1>1, EditKeeps, BeginKeeps, ClassifyKeeps, FinishKeeps DEF Next

\* For any files, texts, times and granularity within the window, a run
\* publishes of every file a text that the file has had since the run began.
THEOREM IndexReadsTheTree == Spec => []ReadsTheTree
<1>1. IndexInv => ReadsTheTree
  BY DEF IndexInv
<1> QED
  BY <1>1, IndexInit, IndexStep, PTL DEF Spec
----------------------------------------------------------------------------
(* ParsePool: no file is lost or counted twice.  The argument: what the     *)
(* pool has handed over is the files up to the last chunk collected        *)
(* (Prefix), a chunk adds its files to the count once, and the chunks      *)
(* cover the run.                                                          *)

UpTo(k) == {t \in AllTasks : t <= ChunkSize * k}

SizeFor(files) ==
    LET share == files \div (Cardinality(Processes) * PerProcess)
    IN  CASE share = 0 -> 1 [] share > MaxChunk -> MaxChunk [] OTHER -> share

Prefix == phase \in {"idle", "pool", "terminating"} => outcomes = UpTo(collected - 1)

PoolInv ==
    /\ tasks \in Nat /\ collected \in Nat \ {0} /\ outcomes \subseteq AllTasks
    /\ phase \in {"idle", "pool", "terminating", "alone", "ended", "aborted"}
    /\ phase = "idle" => outcomes = {} /\ collected = 1
    /\ Prefix /\ PoolExact

LEMMA SizesPositive == \A k \in Nat : SizeFor(k) \in Nat /\ SizeFor(k) > 0
<1> SUFFICES ASSUME NEW k \in Nat PROVE SizeFor(k) \in Nat /\ SizeFor(k) > 0
  OBVIOUS
<1>1. Cardinality(Processes) \in Nat /\ Cardinality(Processes) > 0
  BY PoolAssumption, FS_CardinalityType, FS_EmptySet DEF PoolAssumption
<1>2. PerProcess \in Nat /\ PerProcess > 0 /\ MaxChunk \in Nat /\ MaxChunk > 0
  BY PoolAssumption DEF PoolAssumption
<1> DEFINE d == Cardinality(Processes) * PerProcess
<1>3. d \in Nat /\ d > 0
  BY <1>1, <1>2
<1> HIDE DEF d
<1>4. k \div d \in Nat
  BY <1>3
<1>5. SizeFor(k) = CASE k \div d = 0 -> 1 [] k \div d > MaxChunk -> MaxChunk
                     [] OTHER -> k \div d
  BY DEF SizeFor, d
<1> QED
  BY <1>2, <1>4, <1>5

LEMMA ChunkSizes == ASSUME tasks \in Nat PROVE ChunkSize \in Nat /\ ChunkSize > 0
  BY SizesPositive DEF ChunkSize, SizeFor

\* The chunks reach the last file.
LEMMA ChunksCover ==
    ASSUME tasks \in Nat, NEW k \in Nat, k + 1 \notin Chunks
    PROVE  UpTo(k) = AllTasks
<1> DEFINE size == ChunkSize
           last == (tasks + size - 1) \div size
<1>1. size \in Nat /\ size > 0
  BY ChunkSizes
<1>2. Chunks = 1..last
  BY DEF Chunks
<1> HIDE DEF size
<1>3. last \in Int /\ tasks <= size * last
  BY <1>1
<1> HIDE DEF last
<1>4. last <= k
  BY <1>2, <1>3
<1>5. size * last <= size * k
  BY <1>1, <1>3, <1>4
<1>6. size * k \in Int
  BY <1>1
<1>7. tasks <= size * k
  BY <1>1, <1>3, <1>5, <1>6
<1> QED
  BY <1>1, <1>6, <1>7 DEF UpTo, AllTasks, size

\* A chunk holds the files from one bound to the next.
LEMMA ChunkNext ==
    ASSUME tasks \in Nat, NEW k \in Nat \ {0}
    PROVE  /\ UpTo(k) = UpTo(k - 1) \cup Chunk(k)
           /\ UpTo(k - 1) \cap Chunk(k) = {}
<1> DEFINE size == ChunkSize
           low == size * (k - 1)
           high == size * k
<1>1. size \in Nat /\ size > 0
  BY ChunkSizes
<1>2. /\ UpTo(k) = {t \in AllTasks : t <= high}
      /\ UpTo(k - 1) = {t \in AllTasks : t <= low}
      /\ Chunk(k) = {t \in AllTasks : low < t /\ t <= high}
  BY DEF UpTo, Chunk
<1> HIDE DEF size
<1>3. low \in Int /\ high \in Int /\ low < high
  BY <1>1
<1>4. AllTasks \subseteq Int
  BY DEF AllTasks
<1> HIDE DEF low, high
<1>5. \A t \in AllTasks : /\ t <= high <=> t <= low \/ (low < t /\ t <= high)
                         /\ ~ (t <= low /\ low < t)
  BY <1>3, <1>4
<1> QED
  BY <1>2, <1>5, Zenon

LEMMA TasksFinite ==
    ASSUME tasks \in Nat, NEW S \in SUBSET AllTasks
    PROVE  IsFiniteSet(S) /\ Cardinality(S) \in Nat
<1>1. IsFiniteSet(AllTasks)
  BY FS_Interval DEF AllTasks
<1>2. IsFiniteSet(S)
  BY <1>1, FS_Subset
<1> QED
  BY <1>2, FS_CardinalityType

LEMMA PoolInit_Inv == PoolInit => PoolInv
<1> SUFFICES ASSUME PoolInit PROVE PoolInv
  OBVIOUS
<1>1. tasks \in Nat
  BY PoolAssumption DEF PoolInit, PoolAssumption
<1>2. UpTo(0) = {}
  BY <1>1, ChunkSizes DEF UpTo, AllTasks
<1> QED
  BY <1>1, <1>2, FS_EmptySet DEF PoolInit, PoolInv, Prefix, PoolExact

LEMMA CollectKeeps == ASSUME PoolInv, Collect PROVE PoolInv'
<1> DEFINE k == collected
<1>1. /\ phase = "pool" /\ k \in Nat \ {0} /\ tasks \in Nat
      /\ outcomes = UpTo(k - 1) /\ progress = Cardinality(outcomes)
      /\ outcomes' = outcomes \cup Chunk(k)
      /\ progress' = progress + Cardinality(Chunk(k))
      /\ collected' = k + 1 /\ phase' = phase /\ tasks' = tasks /\ alive' = alive
  BY DEF Collect, PoolInv, Prefix, PoolExact
<1>2. outcomes' = UpTo(k) /\ outcomes \cap Chunk(k) = {}
  BY <1>1, ChunkNext
<1>3. /\ IsFiniteSet(outcomes) /\ IsFiniteSet(Chunk(k))
      /\ Cardinality(outcomes) \in Nat /\ Cardinality(Chunk(k)) \in Nat
  BY <1>1, TasksFinite DEF UpTo, Chunk
<1>4. Cardinality(outcomes') = Cardinality(outcomes) + Cardinality(Chunk(k))
  <2>1. Cardinality(outcomes \cap Chunk(k)) = 0
    BY <1>2, FS_EmptySet
  <2>2. Cardinality(outcomes \cup Chunk(k)) =
          Cardinality(outcomes) + Cardinality(Chunk(k)) - Cardinality(outcomes \cap Chunk(k))
    BY <1>3, FS_Union
  <2> QED
    BY <1>1, <1>3, <2>1, <2>2
<1>5. UpTo(collected - 1)' = UpTo(k)
  BY <1>1 DEF UpTo, AllTasks, ChunkSize
<1>6. UpTo(k) \subseteq AllTasks'
  BY <1>1 DEF UpTo, AllTasks
<1> QED
  BY <1>1, <1>2, <1>4, <1>5, <1>6 DEF PoolInv, Prefix, PoolExact

LEMMA AloneKeeps == ASSUME PoolInv, ParseAlone PROVE PoolInv'
<1> DEFINE rest == AllTasks \ outcomes
<1>1. /\ phase = "alone" /\ tasks \in Nat /\ outcomes \subseteq AllTasks
      /\ UNCHANGED <<tasks, alive, collected>> /\ collected \in Nat \ {0}
      /\ progress = Cardinality(outcomes) /\ alive = {} /\ AllTasks' = AllTasks
  BY DEF ParseAlone, PoolInv, PoolExact, AllTasks
<1>2. CASE rest = {}
  BY <1>1, <1>2 DEF ParseAlone, PoolInv, Prefix, PoolExact
<1>3. CASE rest # {}
  <2> DEFINE next == CHOOSE t \in rest : \A u \in rest : t <= u
  <2>1. rest \in SUBSET Nat
    BY <1>1 DEF AllTasks
  <2>2. next \in rest
    BY <1>3, <2>1, LeastOf
  <2>3. outcomes' = outcomes \cup {next} /\ progress' = progress + 1 /\ phase' = phase
    BY <1>3 DEF ParseAlone
  <2>4. Cardinality(outcomes') = Cardinality(outcomes) + 1
    BY <1>1, <2>2, <2>3, TasksFinite, FS_AddElement
  <2> QED
    BY <1>1, <2>2, <2>3, <2>4 DEF PoolInv, Prefix, PoolExact
<1> QED
  BY <1>2, <1>3

LEMMA PoolStep == PoolInv /\ [PoolNext]_poolVars => PoolInv'
<1> SUFFICES ASSUME PoolInv, [PoolNext]_poolVars PROVE PoolInv'
  OBVIOUS
<1> USE DEF PoolInv, PoolExact
\* Steps that hand over nothing.
<1>1. ASSUME UNCHANGED <<tasks, collected, outcomes, progress>>, alive' \subseteq alive,
             phase' = phase \/ (phase = "pool" /\ phase' = "terminating")
      PROVE  PoolInv'
  <2>1. AllTasks' = AllTasks /\ UpTo(collected - 1)' = UpTo(collected - 1)
    BY <1>1 DEF AllTasks, UpTo, ChunkSize
  <2> QED
    BY <1>1, <2>1 DEF Prefix
\* Steps after which no process is left.
<1>2. ASSUME UNCHANGED <<tasks, collected, outcomes, progress>>, alive' = {},
             \/ phase' \in {"alone", "aborted"}
             \/ phase' = "ended" /\ outcomes = AllTasks
      PROVE  PoolInv'
  <2>1. AllTasks' = AllTasks
    BY <1>2 DEF AllTasks
  <2> QED
    BY <1>2, <2>1 DEF Prefix
<1>3. CASE StartAlone
  BY <1>2, <1>3 DEF StartAlone
<1>4. CASE StartPool
  <2>1. AllTasks' = AllTasks /\ UpTo(collected - 1)' = UpTo(collected - 1)
    BY <1>4 DEF StartPool, AllTasks, UpTo, ChunkSize
  <2> QED
    BY <1>4, <2>1 DEF StartPool, Prefix
<1>5. ASSUME NEW w \in Processes, Pick(w) \/ HandBack(w) \/ Die(w) PROVE PoolInv'
  BY <1>1, <1>5 DEF Pick, HandBack, Die
<1>6. CASE PoolBreaks \/ UNCHANGED poolVars
  BY <1>1, <1>6 DEF PoolBreaks, poolVars
<1>7. CASE Fall \/ Interrupt
  BY <1>2, <1>7 DEF Fall, Interrupt, KillAll
<1>8. CASE PoolIsDone
  <2>1. outcomes = UpTo(collected - 1) /\ collected \notin Chunks /\ collected \in Nat \ {0}
    BY <1>8 DEF PoolIsDone, Prefix
  <2>2. outcomes = AllTasks
    BY <2>1, ChunksCover
  <2> QED
    BY <1>2, <1>8, <2>2 DEF PoolIsDone, KillAll
<1>9. CASE NextRun
  <2>1. /\ tasks' \in Nat /\ phase' = "idle" /\ collected' = 1 /\ outcomes' = {}
        /\ progress' = 0 /\ alive' = {}
    BY <1>9, PoolAssumption DEF NextRun, PoolAssumption
  <2>2. ChunkSize' \in Nat
    BY <2>1, SizesPositive DEF ChunkSize, SizeFor
  <2>3. UpTo(collected - 1)' = {}
    BY <2>1, <2>2 DEF UpTo, AllTasks
  <2> QED
    BY <2>1, <2>3, FS_EmptySet DEF Prefix
<1> QED
  BY <1>3, <1>4, <1>5, <1>6, <1>7, <1>8, <1>9, CollectKeeps, AloneKeeps DEF PoolNext

\* For any number of files, processes and chunk sizes, a run that ends has an
\* outcome for every file and has counted each once, wherever processes die,
\* and leaves no process behind.
THEOREM PoolIsExact == PoolSpec => []PoolExact
<1>1. PoolInv => PoolExact
  BY DEF PoolInv
<1> QED
  BY <1>1, PoolInit_Inv, PoolStep, PTL DEF PoolSpec

----------------------------------------------------------------------------
(* ContextPacket: the budget of a packet.  The argument: a section takes no *)
(* more than its share and what those before it have left, but for a frame  *)
(* of the target that alone is larger (FirstPass, Over), so that all of     *)
(* them keep to the budget of the sections plus that frame, which the first *)
(* reserve has room for (Filled, FirstBuildFits); and what is shed shrinks  *)
(* the packet until nothing is left of it (ShedsUnlessEmpty).               *)

\* What a build may be: no more of anything than there is.
Builds ==
    {s \in [Sections -> Nat] :
        /\ s["target"] <= Units
        /\ s["callees"] <= Len(in.callees) /\ s["callers"] <= Len(in.callers)}

LEMMA SectionsAre ==
    /\ Sections = {"target", "callees", "callers", "more", "context"}
    /\ RowSections = {"callees", "callers", "more", "context"}
    /\ Order[1] = "target" /\ Order[2] = "callees" /\ Order[3] = "callers"
    /\ Order[4] = "more" /\ Order[5] = "context" /\ Len(Order) = 5
<1>1. /\ Order[1] = "target" /\ Order[2] = "callees" /\ Order[3] = "callers"
      /\ Order[4] = "more" /\ Order[5] = "context" /\ Len(Order) = 5
  BY DEF Order
<1>2. Sections = {"target", "callees", "callers", "more", "context"}
  <2>1. \A i \in 1..5 : i = 1 \/ i = 2 \/ i = 3 \/ i = 4 \/ i = 5
    OBVIOUS
  <2>2. 1 \in 1..5 /\ 2 \in 1..5 /\ 3 \in 1..5 /\ 4 \in 1..5 /\ 5 \in 1..5
    OBVIOUS
  <2> QED
    BY <1>1, <2>1, <2>2 DEF Sections
<1> QED
  BY <1>1, <1>2 DEF RowSections

LEMMA PacketData ==
    ASSUME in \in Inputs
    PROVE  /\ Units \in Nat /\ in.target \in Seq(Costly) /\ Len(in.target) = Units + 1
           /\ \A k \in 0..Units : in.target[k + 1] \in Costly
           /\ in.callees \in Seq([sig : Costly, more : Costly])
           /\ in.callers \in Seq([sig : Costly, more : Costly])
           /\ Len(in.callees) \in Nat /\ Len(in.callers) \in Nat
           /\ in.context \in Seq(Costly) /\ in.file \in Nat /\ in.tokens \in Nat
           /\ in.hits \in BOOLEAN
           /\ CallersK \in Nat /\ Base \in Nat /\ Envelope \in Nat /\ HitBytes \in Nat
<1>1. /\ in.target \in Seq(Costly) /\ in.target # <<>>
      /\ in.callees \in Seq([sig : Costly, more : Costly])
      /\ in.callers \in Seq([sig : Costly, more : Costly])
      /\ in.context \in Seq(Costly) /\ in.file \in Nat /\ in.tokens \in Nat
      /\ in.hits \in BOOLEAN
  BY PacketAssumption DEF PacketAssumption
<1>2. Len(in.target) \in Nat /\ Len(in.target) # 0
  BY <1>1, EmptySeq, LenProperties
<1>3. \A k \in 1..Len(in.target) : in.target[k] \in Costly
  BY <1>1, LenProperties
<1>4. Units \in Nat /\ Len(in.target) = Units + 1
  BY <1>2 DEF Units
<1>5. \A k \in 0..Units : k + 1 \in 1..Len(in.target)
  BY <1>4
<1>6. Len(in.callees) \in Nat /\ Len(in.callers) \in Nat
  BY <1>1, LenProperties
<1> QED
  BY <1>1, <1>3, <1>4, <1>5, <1>6, PacketAssumption DEF PacketAssumption

\* Sums of costs are positive but for none.
LEMMA SumsTyped ==
    ASSUME NEW costs \in Seq(Costly), NEW k \in Nat
    PROVE  /\ SumFirst(costs, k) \in Nat /\ SumFirst(costs, 0) = 0
           /\ k \in 1..Len(costs) => SumFirst(costs, k) > 0
<1>1. costs \in Seq(Nat) /\ Len(costs) \in Nat /\ \A i \in 1..Len(costs) : costs[i] \in Nat \ {0}
  <2>1. Len(costs) \in Nat /\ \A i \in 1..Len(costs) : costs[i] \in Costly
    BY LenProperties
  <2>2. Costly \subseteq Nat
    BY DEF Costly
  <2>3. costs \in Seq(Nat)
    BY <2>2, SeqMonotonic
  <2> QED
    BY <2>1, <2>3 DEF Costly
<1>2. PICK f \in [0..Len(costs) -> Nat] :
          /\ f[0] = 0
          /\ \A i \in 1..Len(costs) : f[i] = f[i - 1] + costs[i]
          /\ \A j \in Nat : SumFirst(costs, j) = f[Lesser(j, Len(costs))]
  BY <1>1, SumAlong
<1>3. Lesser(k, Len(costs)) \in 0..Len(costs) /\ Lesser(0, Len(costs)) = 0
  BY <1>1 DEF Lesser
<1>4. ASSUME k \in 1..Len(costs) PROVE SumFirst(costs, k) > 0
  <2>1. Lesser(k, Len(costs)) = k /\ k - 1 \in 0..Len(costs)
    BY <1>1, <1>4 DEF Lesser
  <2>2. f[k] = f[k - 1] + costs[k] /\ f[k - 1] \in Nat /\ costs[k] \in Nat \ {0}
    BY <1>1, <1>2, <1>4, <2>1
  <2> QED
    BY <1>2, <2>1, <2>2
<1> QED
  BY <1>2, <1>3, <1>4

\* The rows of the sections, and how many there are.
LEMMA CostsTyped ==
    ASSUME in \in Inputs, NEW s \in Builds
    PROVE  /\ \A x \in RowSections : Costs(s, x) \in Seq(Costly)
           /\ Len(MorePool(s)) = Len(in.callees) - s["callees"] + Len(in.callers) - s["callers"]
           /\ Len(Costs(s, "more")) = Len(MorePool(s))
<1> DEFINE Rows2 == [sig : Costly, more : Costly]
           rest(rows, k) == SubSeq(rows, k + 1, Len(rows))
<1>1. /\ s["callees"] \in Nat /\ s["callers"] \in Nat
      /\ s["callees"] <= Len(in.callees) /\ s["callers"] <= Len(in.callers)
  BY SectionsAre DEF Builds
<1>2. ASSUME NEW rows \in Seq(Rows2), NEW k \in Nat, k <= Len(rows)
      PROVE  rest(rows, k) \in Seq(Rows2) /\ Len(rest(rows, k)) = Len(rows) - k
  <2>1. Len(rows) \in Nat /\ \A i \in 1..Len(rows) : rows[i] \in Rows2
    BY <1>2, LenProperties
  <2>2. k + 1 \in Int /\ Len(rows) \in Int /\ \A i \in k + 1..Len(rows) : rows[i] \in Rows2
    BY <2>1
  <2> HIDE DEF Rows2
  <2>3. /\ SubSeq(rows, k + 1, Len(rows)) \in Seq(Rows2)
        /\ Len(SubSeq(rows, k + 1, Len(rows)))
              = IF k + 1 <= Len(rows) THEN Len(rows) - (k + 1) + 1 ELSE 0
    BY <2>2, SubSeqProperties
  <2>4. (IF k + 1 <= Len(rows) THEN Len(rows) - (k + 1) + 1 ELSE 0) = Len(rows) - k
    BY <1>2, <2>1
  <2> QED
    BY <2>3, <2>4
<1>3. /\ MorePool(s) \in Seq(Rows2)
      /\ Len(MorePool(s)) = Len(in.callees) - s["callees"] + (Len(in.callers) - s["callers"])
  <2>1. MorePool(s) = rest(in.callees, s["callees"]) \o rest(in.callers, s["callers"])
    BY DEF MorePool
  <2>2. /\ rest(in.callees, s["callees"]) \in Seq(Rows2)
        /\ Len(rest(in.callees, s["callees"])) = Len(in.callees) - s["callees"]
        /\ rest(in.callers, s["callers"]) \in Seq(Rows2)
        /\ Len(rest(in.callers, s["callers"])) = Len(in.callers) - s["callers"]
    BY <1>1, <1>2, PacketData
  <2> DEFINE own == rest(in.callees, s["callees"])
             others == rest(in.callers, s["callers"])
  <2>3. MorePool(s) = own \o others
    BY <2>1
  <2>4. /\ own \in Seq(Rows2) /\ Len(own) = Len(in.callees) - s["callees"]
        /\ others \in Seq(Rows2) /\ Len(others) = Len(in.callers) - s["callers"]
    BY <2>2
  <2> HIDE DEF own, others, Rows2
  <2>5. own \o others \in Seq(Rows2) /\ Len(own \o others) = Len(own) + Len(others)
    BY <2>4, ConcatProperties
  <2> QED
    BY <2>3, <2>4, <2>5
<1>4. ASSUME NEW rows \in Seq(Rows2)
      PROVE  /\ [i \in 1..Len(rows) |-> rows[i].sig] \in Seq(Costly)
             /\ [i \in 1..Len(rows) |-> rows[i].more] \in Seq(Costly)
             /\ Len([i \in 1..Len(rows) |-> rows[i].more]) = Len(rows)
  <2>1. Len(rows) \in Nat /\ \A i \in 1..Len(rows) : rows[i] \in Rows2
    BY LenProperties
  <2>2. \A i \in 1..Len(rows) : rows[i].sig \in Costly /\ rows[i].more \in Costly
    BY <2>1
  <2> QED
    BY <2>1, <2>2
<1>5. Costs(s, "callees") \in Seq(Costly) /\ Costs(s, "callers") \in Seq(Costly)
  BY <1>4, PacketData DEF Costs
<1>6. Costs(s, "more") \in Seq(Costly) /\ Len(Costs(s, "more")) = Len(MorePool(s))
  BY <1>3, <1>4 DEF Costs
<1>7. Costs(s, "context") \in Seq(Costly)
  BY PacketData DEF Costs
<1> QED
  BY <1>1, <1>3, <1>5, <1>6, <1>7, SectionsAre, PacketData

LEMMA BytesTyped ==
    ASSUME in \in Inputs, NEW s \in Builds
    PROVE  /\ \A x \in Sections : SectionBytes(s, x) \in Nat
           /\ AllBytes(s) \in Nat /\ MoreRows(s) \in Nat
           /\ FilesOf(s) \in Nat /\ FilesOf(s) <= AllFiles /\ AllFiles \in Nat
<1>1. ASSUME NEW x \in RowSections PROVE SectionBytes(s, x) \in Nat
  <2>1. x # "target" /\ s[x] \in Nat /\ Costs(s, x) \in Seq(Costly)
    BY CostsTyped, SectionsAre DEF Builds
  <2> QED
    BY <2>1, SumsTyped DEF SectionBytes
<1>2. SectionBytes(s, "target") \in Nat
  <2>1. s["target"] \in 0..Units
    BY SectionsAre, PacketData DEF Builds
  <2>2. in.target[s["target"] + 1] \in Costly
    BY <2>1, PacketData
  <2> QED
    BY <2>2 DEF SectionBytes, Costly
<1>3. AllBytes(s) \in Nat
  <2> HIDE DEF SectionBytes
  <2> QED
    BY <1>1, <1>2, SectionsAre DEF AllBytes
<1>4. /\ s["callees"] \in Nat /\ s["callers"] \in Nat /\ s["more"] \in Nat
      /\ s["callees"] <= Len(in.callees) /\ s["callers"] <= Len(in.callers)
  BY SectionsAre DEF Builds
<1>5. MoreRows(s) \in Nat /\ MoreRows(s) <= Len(MorePool(s))
  <2>1. /\ Len(MorePool(s)) = Len(in.callees) - s["callees"] + Len(in.callers) - s["callers"]
        /\ Len(in.callees) \in Nat /\ Len(in.callers) \in Nat
    BY CostsTyped, PacketData
  <2>2. Len(MorePool(s)) \in Nat
    BY <1>4, <2>1
  <2> QED
    BY <1>4, <2>2 DEF MoreRows, Lesser
<1>6. FilesOf(s) \in Nat /\ FilesOf(s) <= AllFiles /\ AllFiles \in Nat
  <2>1. /\ Len(MorePool(s)) = Len(in.callees) - s["callees"] + Len(in.callers) - s["callers"]
        /\ Len(in.callees) \in Nat /\ Len(in.callers) \in Nat
    BY CostsTyped, PacketData
  <2> DEFINE own == s["callees"]
             others == s["callers"]
             left == MoreRows(s)
             pool == Len(MorePool(s))
             first == Len(in.callees)
             second == Len(in.callers)
  <2>2. /\ own \in Nat /\ others \in Nat /\ left \in Nat /\ first \in Nat /\ second \in Nat
        /\ left <= pool /\ pool = first - own + second - others
    BY <1>4, <1>5, <2>1
  <2>3. FilesOf(s) = 1 + own + others + left /\ AllFiles = 1 + first + second
    BY DEF FilesOf, AllFiles
  <2> HIDE DEF own, others, left, pool, first, second
  <2> QED
    BY <2>2, <2>3
<1> QED
  BY <1>1, <1>2, <1>3, <1>5, <1>6, SectionsAre

\* What a section has is its own: filling another leaves it, but for the pool of
\* more that the rows of code leave over.
LEMMA CostsStay ==
    ASSUME NEW s, NEW t, NEW x \in Sections, x # "target",
           x = "more" => t["callees"] = s["callees"] /\ t["callers"] = s["callers"]
    PROVE  Costs(t, x) = Costs(s, x)
  BY SectionsAre DEF Costs, MorePool

LEMMA BytesStay ==
    ASSUME NEW s, NEW t, NEW x \in Sections, t[x] = s[x],
           x = "more" => t["callees"] = s["callees"] /\ t["callers"] = s["callers"]
    PROVE  SectionBytes(t, x) = SectionBytes(s, x)
<1>1. CASE x = "target"
  BY <1>1 DEF SectionBytes
<1>2. CASE x # "target"
  BY <1>2, CostsStay DEF SectionBytes
<1> QED
  BY <1>1, <1>2

\* _fit_target: within the cap, or the frame alone.
LEMMA FitsTarget ==
    ASSUME in \in Inputs, NEW cap \in Nat
    PROVE  /\ FitTarget(cap) \in 0..Units
           /\ in.target[FitTarget(cap) + 1] <= cap \/ FitTarget(cap) = 0
<1> DEFINE Fitting == {k \in 0..Units : in.target[k + 1] <= cap}
           middle == Bisected(Fitting, 0, Units - 1)
           Ends == {k \in middle..Units - 1 : middle + 1..k \subseteq Fitting}
<1>1. Units \in Nat
  BY PacketData
<1>2. CASE Units = 0 \/ Units \in Fitting
  <2>1. FitTarget(cap) = Units
    BY <1>2 DEF FitTarget
  <2> QED
    BY <1>1, <1>2, <2>1
<1>3. CASE ~ (Units = 0 \/ Units \in Fitting)
  <2>1. FitTarget(cap) = CHOOSE k \in middle..Units - 1 :
            /\ middle + 1..k \subseteq Fitting
            /\ k + 1 < Units => k + 1 \notin Fitting
    BY <1>3, Zenon DEF FitTarget
  <2>2. middle \in 0..Units /\ middle \in Fitting \cup {0}
    <3>1. 0 \in Int /\ Units - 1 \in Int /\ 0 <= Units - 1 + 1 /\ Units - 1 + 1 = Units
      BY <1>1
    <3> HIDE DEF Fitting
    <3>2. middle \in 0..Units - 1 + 1 /\ middle \in Fitting \cup {0}
      BY <3>1, BisectionEnds
    <3> QED
      BY <3>1, <3>2
  <2> HIDE DEF middle
  <2>3. middle \in 0..Units - 1
    <3> HIDE DEF Fitting
    <3>1. middle # Units
      BY <1>3, <2>2
    <3> QED
      BY <1>1, <2>2, <3>1
  <2>4. middle \in Ends /\ Ends \in SUBSET Nat /\ \A k \in Ends : k <= Units
    BY <1>1, <2>3
  <2>5. PICK k \in Ends : \A j \in Ends : j <= k
    <3> HIDE DEF Ends
    <3> QED
      BY <1>1, <2>4, GreatestBounded
  <2>6. k \in middle..Units - 1 /\ middle + 1..k \subseteq Fitting
    BY <2>5
  <2>7. ASSUME k + 1 < Units, k + 1 \in Fitting PROVE FALSE
    <3>1. middle + 1..k + 1 = middle + 1..k \cup {k + 1} /\ k + 1 \in middle..Units - 1
      BY <1>1, <2>3, <2>6, <2>7
    <3>2. middle + 1..k + 1 \subseteq Fitting
      BY <2>6, <2>7, <3>1
    <3>3. k + 1 \in Ends /\ k \in Nat
      BY <2>3, <2>6, <3>1, <3>2
    <3> QED
      BY <2>5, <3>3
  <2> DEFINE fit == FitTarget(cap)
  <2>8. fit \in middle..Units - 1 /\ middle + 1..fit \subseteq Fitting
    <3> HIDE DEF Fitting
    <3> QED
      BY <2>1, <2>6, <2>7
  <2> HIDE DEF fit
  <2>9. CASE fit = middle
    BY <2>2, <2>3, <2>8, <2>9 DEF fit
  <2>10. CASE fit # middle
    <3>1. fit \in middle + 1..fit /\ fit \in 0..Units
      BY <1>1, <2>3, <2>8, <2>10
    <3>2. fit \in Fitting
      BY <2>8, <3>1
    <3> QED
      BY <3>1, <3>2 DEF fit
  <2> QED
    BY <2>9, <2>10
<1> QED
  BY <1>2, <1>3

\* _prefix_fit: within the cap and the limit.
LEMMA FitsPrefix ==
    ASSUME NEW costs \in Seq(Costly), NEW cap \in Nat, NEW limit \in Nat
    PROVE  /\ PrefixFit(costs, cap, limit) \in 0..Len(costs)
           /\ SumFirst(costs, PrefixFit(costs, cap, limit)) <= cap
           /\ cap = 0 => PrefixFit(costs, cap, limit) = 0
<1> DEFINE most == Lesser(Len(costs), limit)
           Within == {k \in 0..most : SumFirst(costs, k) <= cap}
<1>1. Len(costs) \in Nat /\ most \in Nat /\ most <= Len(costs)
  BY LenProperties DEF Lesser
<1>2. \A k \in Nat : SumFirst(costs, k) \in Nat
  BY SumsTyped
<1>3. PrefixFit(costs, cap, limit) = CHOOSE k \in 0..most :
          /\ SumFirst(costs, k) <= cap
          /\ \A j \in k + 1..most : SumFirst(costs, j) > cap
  BY Zenon DEF PrefixFit
<1> HIDE DEF most
<1>4. 0 \in Within /\ Within \in SUBSET Nat /\ \A k \in Within : k <= most
  <2>1. SumFirst(costs, 0) = 0
    BY SumsTyped
  <2> QED
    BY <1>1, <2>1
<1>5. PICK k \in Within : \A j \in Within : j <= k
  <2> HIDE DEF Within
  <2> QED
    BY <1>1, <1>4, GreatestBounded
<1>6. \A j \in k + 1..most : SumFirst(costs, j) > cap
  <2> TAKE j \in k + 1..most
  <2>1. k \in 0..most
    BY <1>5
  <2>2. j \in 0..most /\ j \in Nat /\ ~ (j <= k)
    BY <1>1, <2>1
  <2>3. j \notin Within /\ SumFirst(costs, j) \in Nat
    BY <1>2, <1>5, <2>2
  <2> QED
    BY <2>2, <2>3
<1> DEFINE fit == PrefixFit(costs, cap, limit)
<1>7. fit \in 0..most /\ SumFirst(costs, fit) <= cap
  BY <1>3, <1>5, <1>6
<1> HIDE DEF fit
<1>8. fit \in 0..Len(costs) /\ fit \in Nat
  BY <1>1, <1>7
<1>9. ASSUME cap = 0, fit # 0 PROVE FALSE
  <2>1. fit \in 1..Len(costs) /\ SumFirst(costs, fit) \in Nat
    BY <1>2, <1>8, <1>9
  <2>2. SumFirst(costs, fit) > 0
    BY <1>8, <2>1, SumsTyped
  <2> QED
    BY <1>7, <1>9, <2>1, <2>2
<1> QED
  BY <1>7, <1>8, <1>9 DEF fit

\* Filling a section keeps it within its cap, but for a frame that is larger, and
\* leaves the others.
LEMMA FillKeeps ==
    ASSUME in \in Inputs, NEW s \in Builds, NEW x \in Sections, NEW cap \in Nat
    PROVE  /\ Fill(s, x, cap) \in Builds
           /\ \A y \in Sections \ {x} : Fill(s, x, cap)[y] = s[y]
           /\ \/ SectionBytes(Fill(s, x, cap), x) <= cap
              \/ /\ x = "target" /\ in.target[1] > cap
                 /\ SectionBytes(Fill(s, x, cap), x) = in.target[1]
           /\ cap = 0 => Fill(s, x, cap)[x] = 0
<1> DEFINE t == Fill(s, x, cap)
<1>1. s \in [Sections -> Nat] /\ s["target"] <= Units
      /\ s["callees"] <= Len(in.callees) /\ s["callers"] <= Len(in.callers)
  BY DEF Builds
<1>2. CASE x = "target"
  <2>1. t = [s EXCEPT !["target"] = FitTarget(cap)]
    BY <1>2 DEF Fill
  <2> HIDE DEF t
  <2>2. FitTarget(cap) \in 0..Units
        /\ (in.target[FitTarget(cap) + 1] <= cap \/ FitTarget(cap) = 0)
    BY FitsTarget
  <2>3. Units \in Nat /\ FitTarget(cap) \in Nat
        /\ in.target[FitTarget(cap) + 1] \in Costly
    BY <2>2, PacketData
  <2>4. /\ t \in [Sections -> Nat] /\ t["target"] = FitTarget(cap)
        /\ \A y \in Sections \ {"target"} : t[y] = s[y]
    BY <1>1, <2>1, <2>3, SectionsAre
  <2>5. t \in Builds
    BY <1>1, <2>2, <2>3, <2>4, SectionsAre DEF Builds
  <2>6. SectionBytes(t, x) = in.target[FitTarget(cap) + 1]
    BY <1>2, <2>4 DEF SectionBytes
  <2>7. cap = 0 => FitTarget(cap) = 0
    BY <2>2, <2>3 DEF Costly
  <2>8. \/ in.target[FitTarget(cap) + 1] <= cap
        \/ in.target[1] > cap /\ in.target[FitTarget(cap) + 1] = in.target[1]
    BY <2>2, <2>3 DEF Costly
  <2> QED
    BY <1>2, <2>4, <2>5, <2>6, <2>7, <2>8 DEF t
<1>3. CASE x # "target"
  <2> DEFINE costs == Costs(s, x)
             limit == IF x = "callers" THEN CallersK ELSE Len(costs)
             fit == PrefixFit(costs, cap, limit)
  <2>1. t = [s EXCEPT ![x] = fit]
    BY <1>3 DEF Fill
  <2>2. x \in RowSections /\ costs \in Seq(Costly) /\ limit \in Nat
    <3>1. x \in RowSections
      BY <1>3 DEF RowSections
    <3>2. costs \in Seq(Costly)
      BY <3>1, CostsTyped
    <3> HIDE DEF costs
    <3>3. Len(costs) \in Nat /\ CallersK \in Nat
      BY <3>2, LenProperties, PacketData
    <3> QED
      BY <3>1, <3>2, <3>3
  <2>3. /\ x = "callees" => Len(costs) = Len(in.callees)
        /\ x = "callers" => Len(costs) = Len(in.callers)
    BY PacketData DEF Costs
  <2> HIDE DEF costs, limit
  <2>4. /\ fit \in 0..Len(costs) /\ SumFirst(costs, fit) <= cap
        /\ cap = 0 => fit = 0
    BY <2>2, FitsPrefix
  <2>5. Len(costs) \in Nat
    BY <2>2, LenProperties
  <2> HIDE DEF fit, t
  <2>6. /\ t \in [Sections -> Nat] /\ t[x] = fit
        /\ \A y \in Sections \ {x} : t[y] = s[y]
    BY <1>1, <2>1, <2>4, <2>5
  <2>7. t \in Builds
    BY <1>1, <1>3, <2>3, <2>4, <2>5, <2>6, SectionsAre DEF Builds
  <2>8. Costs(t, x) = costs
    BY <1>3, <2>6, CostsStay, SectionsAre DEF costs
  <2>9. SectionBytes(t, x) <= cap
    BY <1>3, <2>4, <2>6, <2>8 DEF SectionBytes
  <2> QED
    BY <2>4, <2>6, <2>7, <2>9 DEF t
<1> QED
  BY <1>2, <1>3

\* The budget of a section, and what the frame of the target takes beyond it.
Alloc(x) == (SectionBudget * Shares[x]) \div 100
Over == IF in.target[1] <= Alloc("target") THEN 0 ELSE in.target[1]

\* The total of the sections before the k-th.
SumBefore(k, f) ==
    (IF k > 1 THEN f["target"] ELSE 0) + (IF k > 2 THEN f["callees"] ELSE 0)
    + (IF k > 3 THEN f["callers"] ELSE 0) + (IF k > 4 THEN f["more"] ELSE 0)
    + (IF k > 5 THEN f["context"] ELSE 0)
BytesOf(s) == [x \in Sections |-> SectionBytes(s, x)]
Allocs == [x \in Sections |-> Alloc(x)]

LEMMA TokensFit ==
    ASSUME NEW k \in Nat, NEW t \in Nat
    PROVE  Tokens(k) \in Nat /\ (Tokens(k) <= t <=> k <= 4 * t)
  BY DEF Tokens

LEMMA PacketBudgets ==
    ASSUME in \in Inputs, reserve \in Nat
    PROVE  /\ Nothing \in Builds /\ SectionBytes(Nothing, "target") = in.target[1]
           /\ AllBytes(Nothing) = in.target[1] /\ in.target[1] \in Nat \ {0}
           /\ PacketBytes(Nothing) = in.target[1] + Base + in.file
           /\ PacketBudget \in Nat /\ SectionBudget \in Nat
           /\ FirstReserve = in.target[1] + Base + in.file + 24 * AllFiles
           /\ \A x \in Sections : Alloc(x) \in Nat
           /\ Over \in Nat
<1>1. Nothing \in Builds /\ \A x \in Sections : Nothing[x] = 0
  BY SectionsAre, PacketData DEF Nothing, Builds
<1>2. in.target[1] \in Nat \ {0} /\ SectionBytes(Nothing, "target") = in.target[1]
  <2>1. 0 \in 0..Units /\ 0 + 1 = 1
    BY PacketData
  <2>2. in.target[1] \in Costly
    BY <2>1, PacketData
  <2> QED
    BY <1>1, <2>1, <2>2, SectionsAre DEF SectionBytes, Costly
<1>3. ASSUME NEW x \in RowSections PROVE SectionBytes(Nothing, x) = 0
  <2>1. x # "target" /\ Nothing[x] = 0 /\ Costs(Nothing, x) \in Seq(Costly)
    BY <1>1, CostsTyped, SectionsAre
  <2> QED
    BY <2>1, SumsTyped DEF SectionBytes
<1>4. AllBytes(Nothing) = in.target[1]
  <2> HIDE DEF SectionBytes
  <2> QED
    BY <1>2, <1>3, SectionsAre DEF AllBytes
<1>5. FilesOf(Nothing) = 1
  <2>1. Len(MorePool(Nothing)) \in Nat
    BY <1>1, CostsTyped, PacketData
  <2>2. Nothing["more"] = 0 /\ Nothing["callees"] = 0 /\ Nothing["callers"] = 0
    BY <1>1, SectionsAre
  <2>3. MoreRows(Nothing) = 0
    BY <2>1, <2>2 DEF MoreRows, Lesser
  <2> QED
    BY <2>2, <2>3 DEF FilesOf
<1>6. PacketBytes(Nothing) = in.target[1] + Base + in.file
  BY <1>2, <1>4, <1>5, PacketData DEF PacketBytes
<1>7. FirstReserve = in.target[1] + Base + in.file + 24 * AllFiles
  BY <1>6 DEF FirstReserve, EntryBytes
<1>8. PacketBudget \in Nat
  <2>1. ResponseBytes(PacketBytes(Nothing), 0, 0) \in Nat
    <3>1. Base \in Nat /\ in.file \in Nat /\ Envelope \in Nat /\ HitBytes \in Nat
      BY PacketData
    <3>2. PacketBytes(Nothing) \in Nat
      BY <1>2, <1>6, <3>1
    <3>3. ResponseBytes(PacketBytes(Nothing), 0, 0) = Envelope + 1 + PacketBytes(Nothing)
      BY <3>1, <3>2 DEF ResponseBytes, Digits
    <3> QED
      BY <3>1, <3>2, <3>3
  <2>2. Tokens(ResponseBytes(PacketBytes(Nothing), 0, 0)) \in Nat
    BY <2>1, TokensFit
  <2> QED
    BY <2>2, PacketData DEF PacketBudget, AtLeast0
<1>9. SectionBudget \in Nat
  BY <1>8 DEF SectionBudget, AtLeast0
<1>10. ASSUME NEW x \in Sections PROVE Alloc(x) \in Nat
  <2>1. Shares[x] \in Nat
    BY PacketAssumption DEF PacketAssumption
  <2>2. SectionBudget * Shares[x] \in Nat
    BY <1>9, <2>1
  <2> DEFINE all == SectionBudget * Shares[x]
  <2> HIDE DEF all
  <2>3. all \div 100 \in Nat
    BY <2>2 DEF all
  <2> QED
    BY <2>3 DEF Alloc, all
<1>11. Over \in Nat
  BY <1>2 DEF Over
<1> QED
  BY <1>1, <1>2, <1>4, <1>6, <1>7, <1>8, <1>9, <1>10, <1>11

\* The sections' budgets are parts of one budget.
LEMMA AllocsShare ==
    ASSUME in \in Inputs, reserve \in Nat
    PROVE  SumBefore(6, Allocs) <= SectionBudget
<1> DEFINE A == SectionBudget * Shares["target"]
           B == SectionBudget * Shares["callees"]
           C == SectionBudget * Shares["callers"]
           D == SectionBudget * Shares["more"]
           E == SectionBudget * Shares["context"]
           whole == Shares["target"] + Shares["callees"] + Shares["callers"]
                    + Shares["more"] + Shares["context"]
<1>1. SectionBudget \in Nat /\ \A x \in Sections : Alloc(x) \in Nat
  BY PacketBudgets
<1>2. /\ Shares["target"] \in Nat /\ Shares["callees"] \in Nat /\ Shares["callers"] \in Nat
      /\ Shares["more"] \in Nat /\ Shares["context"] \in Nat /\ whole <= 100
  BY PacketAssumption, SectionsAre DEF PacketAssumption
<1>3. A + B + C + D + E = SectionBudget * whole
  BY <1>1, <1>2
<1>4. A \in Nat /\ B \in Nat /\ C \in Nat /\ D \in Nat /\ E \in Nat
  BY <1>1, <1>2
<1>5. SectionBudget * whole <= SectionBudget * 100
  <2>1. whole \in Nat /\ SectionBudget <= SectionBudget
    BY <1>1, <1>2
  <2> HIDE DEF whole
  <2> QED
    BY <1>1, <1>2, <2>1, ProductsGrow
<1>6. SumBefore(6, Allocs) = A \div 100 + B \div 100 + C \div 100 + D \div 100 + E \div 100
  <2>1. /\ Allocs["target"] = A \div 100 /\ Allocs["callees"] = B \div 100
        /\ Allocs["callers"] = C \div 100 /\ Allocs["more"] = D \div 100
        /\ Allocs["context"] = E \div 100
    BY SectionsAre DEF Allocs, Alloc
  <2> HIDE DEF A, B, C, D, E
  <2> QED
    BY <2>1 DEF SumBefore
<1> HIDE DEF A, B, C, D, E, whole
<1>7. A + B + C + D + E <= SectionBudget * 100
  BY <1>3, <1>5
<1> QED
  BY <1>1, <1>4, <1>6, <1>7

\* As long as the entries of files are no longer than it counts on, the first
\* build fits if the empty packet does.
LEMMA FirstBuildFits ==
    ASSUME in \in Inputs, reserve \in Nat, NEW s \in Builds, in.file <= EntryBytes, EmptyFits,
           reserve = FirstReserve, AllBytes(s) <= SectionBudget + Over,
           SectionBudget = 0 => s = Nothing
    PROVE  Tokens(PacketBytes(s)) <= PacketBudget
<1>1. CASE SectionBudget = 0
  BY <1>1 DEF EmptyFits
<1>2. CASE SectionBudget # 0
  <2> DEFINE files == in.file * FilesOf(s)
             first == in.target[1]
  <2>1. /\ SectionBudget = 4 * PacketBudget - reserve
        /\ PacketBudget \in Nat
    BY <1>2, PacketBudgets DEF SectionBudget, AtLeast0
  <2>2. reserve = first + Base + in.file + 24 * AllFiles
    BY PacketBudgets
  <2>3. Over <= first /\ first \in Nat
    BY PacketBudgets DEF Over
  <2>4. files <= 24 * AllFiles /\ files \in Nat
    <3>1. /\ in.file \in Nat /\ FilesOf(s) \in Nat /\ AllFiles \in Nat
          /\ in.file <= 24 /\ FilesOf(s) <= AllFiles /\ 24 \in Nat
      BY BytesTyped, PacketData DEF EntryBytes
    <3> QED
      BY <3>1, ProductsGrow
  <2>5. PacketBytes(s) = AllBytes(s) + Base + files
    BY DEF PacketBytes
  <2>6. AllBytes(s) \in Nat /\ Over \in Nat /\ Base \in Nat /\ in.file \in Nat
        /\ AllFiles \in Nat
    BY BytesTyped, PacketBudgets, PacketData
  <2> HIDE DEF files, first
  <2>7. PacketBytes(s) \in Nat /\ PacketBytes(s) <= 4 * PacketBudget
    BY <2>1, <2>2, <2>3, <2>4, <2>5, <2>6
  <2> QED
    BY <2>1, <2>7, TokensFit
<1> QED
  BY <1>1, <1>2

\* A build begun with so much in reserve; the first one is kept if it can be.
Building ==
    /\ fits = 1 => reserve = FirstReserve
    /\ fits > 1 /\ in.file <= EntryBytes /\ EmptyFits => best # NoBuild

\* What the sections so far have taken and left to those after them.
FirstPass ==
    /\ SumBefore(at, BytesOf(n)) + carry
          <= SumBefore(at, Allocs) + (IF at > 1 THEN Over ELSE 0)
    /\ at = 1 => carry = 0
    /\ SectionBudget = 0 => carry = 0
    /\ SectionBudget = 0 =>
          \A i \in 1..5 : n[Order[i]] = 0 \/ (i = 1 /\ at = 1)

Filled ==
    /\ AllBytes(n) <= SectionBudget + Over
    /\ SectionBudget = 0 => n = Nothing

PacketInv ==
    /\ PacketTypeOK /\ n \in Builds /\ kept["target"] <= Units
    /\ best = NoBuild \/ (best \in Builds /\ Tokens(PacketBytes(best)) <= PacketBudget)
    /\ doing \in {"first", "second", "verify"} => Building
    /\ doing = "first" => FirstPass
    /\ doing \in {"second", "verify"} => Filled
    /\ PacketFitsAsReserved
    /\ doing = "done" =>
          \/ Measured <= in.tokens /\ est = Measured
          \/ kept = Nothing /\ Measured > in.tokens

\* What stays with the input and the reserve.
LEMMA SameInput ==
    ASSUME in' = in
    PROVE  /\ Units' = Units /\ Builds' = Builds /\ PacketBudget' = PacketBudget
           /\ FirstReserve' = FirstReserve /\ (EmptyFits <=> EmptyFits')
           /\ \A s : PacketBytes(s)' = PacketBytes(s) /\ AllBytes(s)' = AllBytes(s)
           /\ \A s, x : SectionBytes(s, x)' = SectionBytes(s, x) /\ Costs(s, x)' = Costs(s, x)
<1>1. Units' = Units /\ Builds' = Builds
  BY DEF Units, Builds
<1>2. ASSUME NEW s PROVE MorePool(s)' = MorePool(s)
  BY DEF MorePool
<1>3. ASSUME NEW s, NEW x PROVE Costs(s, x)' = Costs(s, x)
  BY <1>2 DEF Costs
<1>4. ASSUME NEW s, NEW x PROVE SectionBytes(s, x)' = SectionBytes(s, x)
  BY <1>3 DEF SectionBytes
<1>5. ASSUME NEW s PROVE AllBytes(s)' = AllBytes(s)
  BY <1>4 DEF AllBytes
<1>6. ASSUME NEW s PROVE PacketBytes(s)' = PacketBytes(s)
  BY <1>2, <1>5 DEF PacketBytes, FilesOf, MoreRows
<1>7. FirstReserve' = FirstReserve /\ PacketBudget' = PacketBudget
  BY <1>6 DEF FirstReserve, AllFiles, EntryBytes, PacketBudget, ResponseBytes
<1>8. EmptyFits <=> EmptyFits'
  BY <1>6, <1>7 DEF EmptyFits
<1> QED
  BY <1>1, <1>3, <1>4, <1>5, <1>6, <1>7, <1>8

LEMMA SameReserve ==
    ASSUME in' = in, reserve' = reserve
    PROVE  /\ SectionBudget' = SectionBudget /\ Over' = Over
           /\ \A x : Alloc(x)' = Alloc(x)
           /\ Allocs' = Allocs
<1>1. SectionBudget' = SectionBudget
  BY SameInput DEF SectionBudget
<1>2. \A x : Alloc(x)' = Alloc(x)
  BY <1>1 DEF Alloc
<1>3. Over' = Over /\ Allocs' = Allocs
  BY <1>2 DEF Over, Allocs
<1> QED
  BY <1>1, <1>2, <1>3

LEMMA PacketStarts == PacketInit => PacketInv
<1> SUFFICES ASSUME PacketInit PROVE PacketInv
  OBVIOUS
<1>1. in \in Inputs
  BY DEF PacketInit
<1>2. Nothing \in Builds /\ Units \in Nat /\ Nothing["target"] = 0
  BY <1>1, PacketBudgets, PacketData, SectionsAre DEF PacketInit, Nothing
<1>3. Nothing \in [Sections -> Nat] /\ Len(Order) = 5
  BY SectionsAre DEF Nothing
<1>4. PacketTypeOK
  BY <1>2, <1>3 DEF PacketInit, PacketTypeOK
<1>5. doing = "reserve" /\ n = Nothing /\ kept = Nothing /\ best = NoBuild
  BY DEF PacketInit
<1>6. PacketFitsAsReserved
  BY <1>5 DEF PacketFitsAsReserved, PacketFits
<1>7. kept["target"] <= Units
  BY <1>2, <1>5
<1> QED
  BY <1>2, <1>4, <1>5, <1>6, <1>7 DEF PacketInv

LEMMA BuildStarts ==
    ASSUME in \in Inputs, in' = in, StartBuild
    PROVE  /\ n' \in Builds /\ n' \in [Sections -> Nat] /\ n'["target"] <= Units
           /\ doing' = "first" /\ carry' \in Nat /\ at' \in 1..5 /\ round' \in 1..3
           /\ FirstPass'
<1>1. /\ n' = [Nothing EXCEPT !["target"] = Units] /\ carry' = 0 /\ at' = 1 /\ round' = 1
      /\ doing' = "first"
  BY DEF StartBuild
<1>2. /\ n' \in [Sections -> Nat] /\ n'["target"] = Units /\ Units \in Nat
      /\ \A x \in RowSections : n'[x] = 0
  BY <1>1, PacketData, SectionsAre DEF Nothing
<1>3. n' \in Builds
  BY <1>2, PacketData, SectionsAre DEF Builds
<1>4. \A i \in 1..5 : n'[Order[i]] = 0 \/ i = 1
  <2>1. \A i \in 1..5 : i = 1 \/ i = 2 \/ i = 3 \/ i = 4 \/ i = 5
    OBVIOUS
  <2> QED
    BY <1>2, <2>1, SectionsAre
<1>5. FirstPass'
  BY <1>1, <1>4 DEF FirstPass, SumBefore
<1> QED
  BY <1>1, <1>2, <1>3, <1>5

LEMMA ReserveKeeps == ASSUME PacketInv, Reserve PROVE PacketInv'
<1>1. /\ in' = in /\ in \in Inputs /\ reserve' = FirstReserve /\ fits' = 1 /\ best' = NoBuild
      /\ kept' = kept /\ omitted' = omitted /\ est' = est /\ StartBuild
  BY DEF Reserve, answerVars, PacketInv, PacketTypeOK
<1>2. /\ n' \in Builds' /\ n' \in [Sections -> Nat] /\ n'["target"] <= Units' /\ FirstPass'
      /\ doing' = "first" /\ carry' \in Nat /\ at' \in 1..5 /\ round' \in 1..3
      /\ FirstReserve' = FirstReserve /\ Units' = Units
  BY <1>1, BuildStarts, SameInput
<1>3. FirstReserve \in Nat
  <2>1. reserve \in Nat
    BY DEF PacketInv, PacketTypeOK
  <2> QED
    <3>1. /\ FirstReserve = in.target[1] + Base + in.file + 24 * AllFiles
          /\ in.target[1] \in Nat
      BY <1>1, <2>1, PacketBudgets
    <3>2. Base \in Nat /\ in.file \in Nat
      BY <1>1, PacketData
    <3>3. n \in Builds
      BY DEF PacketInv
    <3>4. AllFiles \in Nat
      BY <1>1, <3>3, BytesTyped
    <3> QED
      BY <3>1, <3>2, <3>4
<1>4. PacketTypeOK'
  BY <1>1, <1>2, <1>3, SectionsAre DEF PacketTypeOK, PacketInv
<1>5. Building'
  BY <1>1, <1>2 DEF Building
<1>6. PacketFitsAsReserved'
  BY <1>2 DEF PacketFitsAsReserved, PacketFits
<1>7. kept'["target"] <= Units'
  BY <1>1, <1>2 DEF PacketInv
<1>8. doing' = "first" /\ best' = NoBuild
  BY <1>1, <1>2
<1> QED
  BY <1>2, <1>4, <1>5, <1>6, <1>7, <1>8 DEF PacketInv

LEMMA SumsBefore ==
    ASSUME NEW f \in [Sections -> Nat], NEW k \in 1..5
    PROVE  /\ SumBefore(k, f) \in Nat /\ SumBefore(k + 1, f) = SumBefore(k, f) + f[Order[k]]
           /\ \A g : (\A i \in 1..5 : i < k => g[Order[i]] = f[Order[i]])
                        => SumBefore(k, g) = SumBefore(k, f)
<1>1. \A x \in {"target", "callees", "callers", "more", "context"} : f[x] \in Nat
  BY SectionsAre
<1>2. k = 1 \/ k = 2 \/ k = 3 \/ k = 4 \/ k = 5
  OBVIOUS
<1>3. SumBefore(k, f) \in Nat
  BY <1>1 DEF SumBefore
<1>4. SumBefore(k + 1, f) = SumBefore(k, f) + f[Order[k]]
  BY <1>1, <1>2, SectionsAre DEF SumBefore
<1>5. ASSUME NEW g, \A i \in 1..5 : i < k => g[Order[i]] = f[Order[i]]
      PROVE  SumBefore(k, g) = SumBefore(k, f)
  <2>1. /\ k > 1 => g["target"] = f["target"]
        /\ k > 2 => g["callees"] = f["callees"]
        /\ k > 3 => g["callers"] = f["callers"]
        /\ k > 4 => g["more"] = f["more"]
    BY <1>5, SectionsAre
  <2> QED
    BY <2>1 DEF SumBefore
<1> QED
  BY <1>3, <1>4, <1>5

\* The first pass goes on: the next section takes no more than its share and what
\* is left to it, and leaves the rest.
LEMMA ShareTaken ==
    ASSUME in \in Inputs, reserve \in Nat, n \in Builds, carry \in Nat, at \in 1..5, FirstPass,
           NEW t, NEW left, NEW cap, cap = Alloc(Order[at]) + carry,
           t = Fill(n, Order[at], cap), left = AtLeast0(cap - SectionBytes(t, Order[at]))
    PROVE  /\ t \in Builds /\ left \in Nat
           /\ SumBefore(at + 1, BytesOf(t)) + left <= SumBefore(at + 1, Allocs) + Over
           /\ SectionBudget = 0 => left = 0 /\ \A i \in 1..5 : t[Order[i]] = 0
<1> DEFINE x == Order[at]
           share == Alloc(x)
           taken == SectionBytes(t, x)
<1>1. /\ x \in Sections /\ share \in Nat /\ cap \in Nat /\ Over \in Nat /\ SectionBudget \in Nat
      /\ \A i \in 1..5 : Order[i] \in Sections /\ (Order[i] = x => i = at)
      /\ x = "target" <=> at = 1
  <2>1. at = 1 \/ at = 2 \/ at = 3 \/ at = 4 \/ at = 5
    OBVIOUS
  <2>2. \A i \in 1..5 : i = 1 \/ i = 2 \/ i = 3 \/ i = 4 \/ i = 5
    OBVIOUS
  <2>3. x \in Sections /\ (x = "target" <=> at = 1)
    BY <2>1, SectionsAre
  <2>4. \A i \in 1..5 : Order[i] \in Sections /\ (Order[i] = x => i = at)
    BY <2>1, <2>2, SectionsAre
  <2> HIDE DEF x
  <2> QED
    BY <2>3, <2>4, PacketBudgets DEF x
<1> HIDE DEF x
<1>2. /\ t \in Builds
      /\ \A y \in Sections \ {x} : t[y] = n[y]
      /\ taken <= cap \/ (x = "target" /\ in.target[1] > cap /\ taken = in.target[1])
      /\ cap = 0 => t[x] = 0
  <2>1. t = Fill(n, x, cap)
    BY DEF x
  <2>2. /\ Fill(n, x, cap) \in Builds
        /\ \A y \in Sections \ {x} : Fill(n, x, cap)[y] = n[y]
        /\ \/ SectionBytes(Fill(n, x, cap), x) <= cap
           \/ /\ x = "target" /\ in.target[1] > cap
              /\ SectionBytes(Fill(n, x, cap), x) = in.target[1]
        /\ cap = 0 => Fill(n, x, cap)[x] = 0
    <3>1. x \in Sections /\ cap \in Nat
      BY <1>1
    <3> QED
      BY <3>1, FillKeeps, Zenon
  <2> QED
    BY <2>1, <2>2, Zenon
<1>3. taken \in Nat /\ in.target[1] \in Nat
  BY <1>1, <1>2, BytesTyped, PacketBudgets
<1>4. left = AtLeast0(cap - taken) /\ cap = share + carry
  BY DEF x
<1> HIDE DEF taken
<1>5. left \in Nat
  BY <1>1, <1>3, <1>4 DEF AtLeast0
<1>6. taken + left <= share + carry + (IF at = 1 THEN Over ELSE 0)
  <2>1. CASE taken <= cap
    BY <1>1, <1>3, <1>4, <2>1 DEF AtLeast0
  <2>2. CASE ~ (taken <= cap)
    <3>1. x = "target" /\ at = 1 /\ taken = in.target[1] /\ carry = 0
      BY <1>1, <1>2, <2>2 DEF FirstPass
    <3>2. Over = in.target[1]
      BY <1>1, <1>3, <1>4, <2>2, <3>1 DEF Over
    <3>3. left = 0
      BY <1>1, <1>3, <1>4, <2>2 DEF AtLeast0
    <3> HIDE DEF share
    <3> QED
      BY <1>1, <1>3, <3>1, <3>2, <3>3
  <2> QED
    BY <2>1, <2>2
<1>7. ASSUME NEW i \in 1..5, i < at
      PROVE  SectionBytes(t, Order[i]) = SectionBytes(n, Order[i])
  <2>1. Order[i] \in Sections /\ Order[i] # x /\ t[Order[i]] = n[Order[i]]
    BY <1>1, <1>2, <1>7
  <2>2. ASSUME Order[i] = "more"
        PROVE  t["callees"] = n["callees"] /\ t["callers"] = n["callers"]
    <3>1. i = 4 /\ at = 5
      <4>1. i = 1 \/ i = 2 \/ i = 3 \/ i = 4 \/ i = 5
        OBVIOUS
      <4> QED
        BY <1>7, <2>2, <4>1, SectionsAre
    <3>2. x = "context"
      BY <3>1, SectionsAre DEF x
    <3> QED
      BY <1>2, <3>2, SectionsAre
  <2> QED
    BY <2>1, <2>2, BytesStay
<1>8. /\ BytesOf(n) \in [Sections -> Nat] /\ BytesOf(t) \in [Sections -> Nat]
      /\ Allocs \in [Sections -> Nat] /\ BytesOf(t)[x] = taken /\ Allocs[x] = share
      /\ \A y \in Sections : BytesOf(n)[y] = SectionBytes(n, y)
      /\ \A y \in Sections : BytesOf(t)[y] = SectionBytes(t, y)
  BY <1>1, <1>2, BytesTyped, PacketBudgets DEF BytesOf, Allocs, taken
<1> DEFINE f == BytesOf(t)
           g == BytesOf(n)
<1>9. \A i \in 1..5 : i < at => g[Order[i]] = f[Order[i]]
  BY <1>1, <1>7, <1>8
<1>10. SumBefore(at + 1, f) = SumBefore(at, g) + taken /\ SumBefore(at, g) \in Nat
  <2> HIDE DEF f, g
  <2>1. f \in [Sections -> Nat] /\ f[Order[at]] = taken /\ g \in [Sections -> Nat]
    BY <1>8 DEF f, g, x
  <2> QED
    BY <1>9, <2>1, SumsBefore
<1>11. SumBefore(at + 1, Allocs) = SumBefore(at, Allocs) + share /\ SumBefore(at, Allocs) \in Nat
  <2> DEFINE h == Allocs
  <2>1. h \in [Sections -> Nat] /\ h[Order[at]] = share
    BY <1>8 DEF x
  <2> HIDE DEF h
  <2> QED
    BY <2>1, SumsBefore DEF h
<1>12. SumBefore(at + 1, f) + left <= SumBefore(at + 1, Allocs) + Over
  <2>1. SumBefore(at, g) + carry <= SumBefore(at, Allocs) + (IF at > 1 THEN Over ELSE 0)
    BY DEF FirstPass
  <2> DEFINE one == SumBefore(at, g)
             two == SumBefore(at, Allocs)
  <2> HIDE DEF f, g, share, one, two
  <2>2. one \in Nat /\ two \in Nat /\ one + carry <= two + (IF at > 1 THEN Over ELSE 0)
        /\ SumBefore(at + 1, f) = one + taken /\ SumBefore(at + 1, Allocs) = two + share
    BY <1>10, <1>11, <2>1 DEF one, two
  <2> QED
    BY <1>1, <1>3, <1>5, <1>6, <2>2
<1>13. ASSUME SectionBudget = 0 PROVE left = 0 /\ \A i \in 1..5 : t[Order[i]] = 0
  <2>1. carry = 0 /\ share = 0 /\ cap = 0
    <3>1. Shares[x] \in Nat
      BY <1>1, PacketAssumption DEF PacketAssumption
    <3>2. SectionBudget * Shares[x] = 0
      BY <1>13, <3>1
    <3>3. share = 0
      BY <3>2 DEF Alloc
    <3> QED
      BY <1>4, <1>13, <3>3 DEF FirstPass
  <2>2. left = 0
    BY <1>3, <1>4, <2>1 DEF AtLeast0
  <2>3. \A i \in 1..5 : t[Order[i]] = 0
    <3> TAKE i \in 1..5
    <3>1. CASE i = at
      BY <1>2, <2>1, <3>1 DEF x
    <3>2. CASE i # at
      <4>1. t[Order[i]] = n[Order[i]]
        BY <1>1, <1>2, <3>2
      <4>2. n[Order[i]] = 0
        BY <1>13, <3>2 DEF FirstPass
      <4> QED
        BY <4>1, <4>2
    <3> QED
      BY <3>1, <3>2
  <2> QED
    BY <2>2, <2>3
<1> QED
  BY <1>2, <1>5, <1>12, <1>13

LEMMA SharesKeep == ASSUME PacketInv, FillShare PROVE PacketInv'
<1> DEFINE cap == (SectionBudget * Shares[Order[at]]) \div 100 + carry
<1>1. /\ in' = in /\ reserve' = reserve /\ fits' = fits /\ best' = best /\ kept' = kept
      /\ omitted' = omitted /\ est' = est /\ round' = round /\ doing = "first"
      /\ n' = Fill(n, Order[at], cap)
      /\ carry' = AtLeast0(cap - SectionBytes(n', Order[at]))
      /\ \/ at < 5 /\ at' = at + 1 /\ doing' = doing
         \/ at = 5 /\ at' = 1 /\ doing' = "second"
  BY SectionsAre DEF FillShare, answerVars, PacketInv, PacketTypeOK
<1>2. /\ in \in Inputs /\ reserve \in Nat /\ n \in Builds /\ carry \in Nat /\ at \in 1..5
      /\ FirstPass /\ Building
  BY <1>1, SectionsAre DEF PacketInv, PacketTypeOK
<1>3. cap = Alloc(Order[at]) + carry
  BY DEF Alloc
<1> HIDE DEF cap
<1>4. /\ n' \in Builds /\ carry' \in Nat
      /\ SumBefore(at + 1, BytesOf(n')) + carry' <= SumBefore(at + 1, Allocs) + Over
      /\ SectionBudget = 0 => carry' = 0 /\ \A i \in 1..5 : n'[Order[i]] = 0
  BY <1>1, <1>2, <1>3, ShareTaken
<1>5. /\ Builds' = Builds /\ Units' = Units /\ FirstReserve' = FirstReserve
      /\ PacketBudget' = PacketBudget /\ (EmptyFits <=> EmptyFits')
      /\ \A s : PacketBytes(s)' = PacketBytes(s) /\ AllBytes(s)' = AllBytes(s)
      /\ \A s, x : SectionBytes(s, x)' = SectionBytes(s, x)
      /\ SectionBudget' = SectionBudget /\ Over' = Over /\ Allocs' = Allocs
  BY <1>1, SameInput, SameReserve
<1>6. n' \in [Sections -> Nat] /\ n'["target"] <= Units /\ at' \in 1..5
      /\ doing' \in {"first", "second"}
  BY <1>1, <1>2, <1>4 DEF Builds
<1>7. PacketTypeOK'
  BY <1>1, <1>4, <1>5, <1>6, SectionsAre DEF PacketTypeOK, PacketInv
<1>8. Building'
  BY <1>1, <1>2, <1>5 DEF Building
<1>9. BytesOf(n)' = BytesOf(n')
  BY <1>5 DEF BytesOf
<1>10. ASSUME doing' = "first" PROVE FirstPass'
  <2>1. at' = at + 1 /\ at' > 1
    BY <1>1, <1>2, <1>10
  <2> QED
    BY <1>4, <1>5, <1>9, <2>1 DEF FirstPass
<1>11. ASSUME doing' # "first" PROVE Filled'
  <2>1. at = 5 /\ at + 1 = 6
    BY <1>1, <1>11
  <2>2. SumBefore(6, BytesOf(n')) = AllBytes(n')
    BY SectionsAre DEF SumBefore, BytesOf, AllBytes
  <2>3. SumBefore(6, Allocs) <= SectionBudget
    BY <1>2, AllocsShare
  <2>4. AllBytes(n') <= SectionBudget + Over
    <3>1. /\ SumBefore(6, BytesOf(n')) + carry' <= SumBefore(6, Allocs) + Over
          /\ AllBytes(n') \in Nat /\ SectionBudget \in Nat /\ Over \in Nat
      BY <1>2, <1>4, <2>1, BytesTyped, PacketBudgets
    <3>2. SumBefore(6, Allocs) \in Nat
      <4>1. \A x \in Sections : Allocs[x] \in Nat
        BY <1>2, PacketBudgets DEF Allocs
      <4> DEFINE h == Allocs
      <4> HIDE DEF h
      <4>2. \A x \in Sections : h[x] \in Nat
        BY <4>1 DEF h
      <4>3. SumBefore(6, h) \in Nat
        BY <4>2, SectionsAre DEF SumBefore
      <4> QED
        BY <4>3 DEF h
    <3> QED
      BY <1>4, <2>2, <2>3, <3>1, <3>2
  <2>5. ASSUME SectionBudget = 0 PROVE n' = Nothing
    <3>1. \A x \in Sections : n'[x] = 0
      BY <1>4, <2>5 DEF Sections, Order
    <3> QED
      BY <1>6, <3>1 DEF Nothing
  <2>6. AllBytes(n)' = AllBytes(n')
    BY <1>5
  <2> QED
    BY <1>5, <2>4, <2>5, <2>6 DEF Filled, Nothing
<1>12. PacketFitsAsReserved' /\ doing' # "done" /\ kept'["target"] <= Units'
  BY <1>1, <1>5 DEF PacketFitsAsReserved, PacketFits, PacketInv
<1>13. best' = NoBuild \/ (best' \in Builds /\ Tokens(PacketBytes(best)') <= PacketBudget)
  BY <1>1, <1>5 DEF PacketInv
<1> QED
  BY <1>4, <1>5, <1>6, <1>7, <1>8, <1>10, <1>11, <1>12, <1>13 DEF PacketInv, NoBuild, Tokens

\* The second pass goes on: a section that grows leaves all of them within their
\* budget, and with none nothing is added.
LEMMA RefilledKeeps ==
    ASSUME in \in Inputs, reserve \in Nat, n \in Builds, Filled, NEW x \in Sections,
           NEW left, left = SectionBudget - AllBytes(n),
           NEW t, t = IF left > 0 /\ IsCut(n, x) THEN Refilled(x) ELSE n
    PROVE  /\ t \in Builds /\ AllBytes(t) <= SectionBudget + Over
           /\ SectionBudget = 0 => t = Nothing
<1>1. SectionBudget \in Nat /\ Over \in Nat /\ AllBytes(n) \in Nat /\ SectionBytes(n, x) \in Nat
  BY PacketBudgets, BytesTyped
<1>2. CASE t = n
  BY <1>2 DEF Filled
<1>3. CASE t # n
  <2> DEFINE cap == SectionBytes(n, x) + SectionBudget - AllBytes(n)
             more == Fill(n, x, cap)
  <2>1. left > 0 /\ t = Refilled(x) /\ cap \in Nat
    BY <1>1, <1>3
  <2>2. t = more /\ ~ (AllBytes(more) > SectionBudget)
    BY <1>3, <2>1, Zenon DEF Refilled
  <2> HIDE DEF cap
  <2>3. more \in Builds
    BY <2>1, FillKeeps
  <2> HIDE DEF more
  <2>4. AllBytes(more) \in Nat
    BY <2>3, BytesTyped
  <2> QED
    BY <1>1, <2>1, <2>2, <2>3, <2>4
<1> QED
  BY <1>2, <1>3

LEMMA RefillKeeps == ASSUME PacketInv, Refill PROVE PacketInv'
<1> DEFINE left == SectionBudget - AllBytes(n)
           x == Order[at]
<1>1. /\ in' = in /\ reserve' = reserve /\ fits' = fits /\ best' = best /\ kept' = kept
      /\ omitted' = omitted /\ est' = est /\ carry' = carry /\ doing = "second"
      /\ n' = IF left > 0 /\ IsCut(n, x) THEN Refilled(x) ELSE n
      /\ at' \in {at + 1, 1} /\ (at' = 1 \/ at # 5)
      /\ round' = round \/ (round < 3 /\ round' = round + 1)
      /\ doing' \in {"second", "verify"}
  BY SectionsAre DEF Refill, answerVars
<1>2. /\ in \in Inputs /\ reserve \in Nat /\ n \in Builds /\ at \in 1..5 /\ round \in 1..3
      /\ Filled /\ Building
  BY <1>1, SectionsAre DEF PacketInv, PacketTypeOK
<1>3. x \in Sections
  <2>1. at = 1 \/ at = 2 \/ at = 3 \/ at = 4 \/ at = 5
    BY <1>2
  <2> QED
    BY <2>1, SectionsAre
<1> HIDE DEF x
<1>4. /\ n' \in Builds /\ AllBytes(n') <= SectionBudget + Over
      /\ SectionBudget = 0 => n' = Nothing
  BY <1>1, <1>2, <1>3, RefilledKeeps
<1>5. /\ Builds' = Builds /\ Units' = Units /\ FirstReserve' = FirstReserve
      /\ PacketBudget' = PacketBudget /\ (EmptyFits <=> EmptyFits')
      /\ \A s : PacketBytes(s)' = PacketBytes(s) /\ AllBytes(s)' = AllBytes(s)
      /\ SectionBudget' = SectionBudget /\ Over' = Over
  BY <1>1, SameInput, SameReserve
<1>6. n' \in [Sections -> Nat] /\ n'["target"] <= Units /\ at' \in 1..5 /\ round' \in 1..3
  BY <1>1, <1>2, <1>4 DEF Builds
<1>7. PacketTypeOK'
  BY <1>1, <1>5, <1>6, SectionsAre DEF PacketTypeOK, PacketInv
<1>8. Building'
  BY <1>1, <1>2, <1>5 DEF Building
<1>9. Filled'
  <2>1. AllBytes(n)' = AllBytes(n')
    BY <1>5
  <2> QED
    BY <1>4, <1>5, <2>1 DEF Filled, Nothing
<1>10. PacketFitsAsReserved' /\ doing' # "done" /\ doing' # "first" /\ kept'["target"] <= Units'
  BY <1>1, <1>5 DEF PacketFitsAsReserved, PacketFits, PacketInv
<1>11. best' = NoBuild \/ (best' \in Builds /\ Tokens(PacketBytes(best)') <= PacketBudget)
  BY <1>1, <1>5 DEF PacketInv
<1> QED
  BY <1>4, <1>5, <1>7, <1>8, <1>9, <1>10, <1>11 DEF PacketInv, NoBuild, Tokens

LEMMA VerifyKeeps == ASSUME PacketInv, Verify PROVE PacketInv'
<1> DEFINE used == Tokens(PacketBytes(n))
           fit == used <= PacketBudget
           slack == PacketBudget - used
           better == fit /\ (best = NoBuild \/ used > Tokens(PacketBytes(best)))
           last == fits = 8 \/ (IF fit THEN slack <= 6 ELSE best # NoBuild)
           largest == IF better THEN n ELSE best
           given == IF largest = NoBuild THEN n ELSE largest
<1>1. /\ in \in Inputs /\ reserve \in Nat /\ n \in Builds /\ fits \in 1..8 /\ at \in 1..5
      /\ carry \in Nat /\ round \in 1..3 /\ est \in Nat /\ kept \in [Sections -> Nat]
      /\ omitted \in [RowSections -> Int] /\ kept["target"] <= Units
      /\ best = NoBuild \/ (best \in Builds /\ Tokens(PacketBytes(best)) <= PacketBudget)
      /\ Building /\ Filled /\ doing = "verify"
  BY SectionsAre DEF Verify, PacketInv, PacketTypeOK
<1>2. /\ in' = in /\ best' = largest
      /\ \/ last /\ Packet(given) /\ reserve' = reserve /\ fits' = fits
         \/ /\ ~ last /\ StartBuild /\ fits' = fits + 1
            /\ reserve' = IF fit THEN AtLeast0(reserve - (4 * slack - 8))
                          ELSE reserve + 4 * (used - PacketBudget) + 4
            /\ kept' = kept /\ omitted' = omitted /\ est' = est
  BY Zenon DEF Verify, answerVars
<1>3. used \in Nat /\ PacketBudget \in Nat /\ n # NoBuild
  <2>1. PacketBytes(n) \in Nat
    <3>1. FilesOf(n) \in Nat /\ AllBytes(n) \in Nat /\ Base \in Nat /\ in.file \in Nat
      BY <1>1, BytesTyped, PacketData
    <3>2. in.file * FilesOf(n) \in Nat
      BY <3>1
    <3> DEFINE files == in.file * FilesOf(n)
    <3>3. PacketBytes(n) = AllBytes(n) + Base + files
      BY DEF PacketBytes
    <3> HIDE DEF files
    <3> QED
      BY <3>1, <3>2, <3>3 DEF files
  <2>2. n["target"] \in Nat /\ NoBuild["target"] = -1
    BY <1>1, SectionsAre DEF Builds, NoBuild
  <2> HIDE DEF used
  <2> QED
    BY <1>1, <2>1, <2>2, TokensFit, PacketBudgets DEF used
<1>4. /\ largest = NoBuild \/ (largest \in Builds /\ Tokens(PacketBytes(largest)) <= PacketBudget)
      /\ fit \/ best # NoBuild => largest # NoBuild
  BY <1>1, <1>3
<1>5. /\ Builds' = Builds /\ Units' = Units /\ FirstReserve' = FirstReserve
      /\ PacketBudget' = PacketBudget /\ (EmptyFits <=> EmptyFits')
      /\ \A s : PacketBytes(s)' = PacketBytes(s)
  BY <1>2, SameInput
<1>6. best' = NoBuild \/ (best' \in Builds /\ Tokens(PacketBytes(best)') <= PacketBudget)
  <2> HIDE DEF largest
  <2> QED
    BY <1>2, <1>4, <1>5
<1> HIDE DEF largest
<1>7. CASE ~ last /\ StartBuild
  <2>1. /\ fits' = fits + 1 /\ kept' = kept /\ omitted' = omitted /\ est' = est
        /\ reserve' = IF fit THEN AtLeast0(reserve - (4 * slack - 8))
                      ELSE reserve + 4 * (used - PacketBudget) + 4
    <3>1. ~ last
      BY <1>7
    <3> HIDE DEF last
    <3> QED
      BY <1>2, <3>1
  <2>2. fits' \in 2..8 /\ reserve' \in Nat
    <3>1. fits # 8
      BY <1>7
    <3> HIDE DEF last, used
    <3> QED
      BY <1>1, <1>3, <2>1, <3>1 DEF AtLeast0
  <2>3. /\ n' \in Builds /\ n' \in [Sections -> Nat] /\ n'["target"] <= Units
        /\ doing' = "first" /\ carry' \in Nat /\ at' \in 1..5 /\ round' \in 1..3 /\ FirstPass'
    BY <1>1, <1>2, <1>7, BuildStarts
  <2>4. PacketTypeOK'
    BY <1>1, <1>2, <1>5, <2>1, <2>2, <2>3, SectionsAre DEF PacketTypeOK
  <2>5. ASSUME in.file <= EntryBytes, EmptyFits PROVE best' # NoBuild
    <3>1. fit \/ best # NoBuild
      <4>1. CASE fits = 1
        <5>1. reserve = FirstReserve /\ AllBytes(n) <= SectionBudget + Over
              /\ (SectionBudget = 0 => n = Nothing)
          BY <1>1, <4>1 DEF Building, Filled
        <5> QED
          BY <1>1, <2>5, <5>1, FirstBuildFits
      <4>2. CASE fits # 1
        BY <1>1, <2>5, <4>2 DEF Building
      <4> QED
        BY <4>1, <4>2
    <3> HIDE DEF fit
    <3> QED
      BY <1>2, <1>4, <3>1
  <2>6. Building'
    <3>1. fits' # 1 /\ in' = in /\ EntryBytes' = EntryBytes
      BY <1>2, <2>2 DEF EntryBytes
    <3> QED
      BY <1>5, <2>5, <3>1 DEF Building, NoBuild
  <2>7. PacketFitsAsReserved' /\ kept'["target"] <= Units'
    BY <1>1, <1>5, <2>1, <2>3 DEF PacketFitsAsReserved, PacketFits
  <2> HIDE DEF last, fit, used, slack, better
  <2> QED
    BY <1>5, <1>6, <2>3, <2>4, <2>6, <2>7 DEF PacketInv, NoBuild, Tokens
<1>8. CASE last /\ Packet(given)
  <2>1. /\ reserve' = reserve /\ fits' = fits /\ n' = given /\ est' = 0 /\ doing' = "respond"
        /\ carry' = carry /\ at' = at /\ round' = round
        /\ kept' = [given EXCEPT !["more"] = MoreRows(given)]
        /\ omitted' = [r \in RowSections |->
                          CASE r = "more" -> Len(MorePool(given)) - given["more"]
                            [] r = "context" -> Len(in.context) - given["context"]
                            [] OTHER -> 0]
    <3>1. last
      BY <1>8
    <3> HIDE DEF last, given
    <3> QED
      BY <1>2, <1>8, <3>1, Zenon DEF Packet
  <2>2. given \in Builds
    BY <1>1, <1>4
  <2>3. ASSUME in.file <= EntryBytes \/ fits < 8, EmptyFits
        PROVE  Tokens(PacketBytes(given)) <= PacketBudget
    <3>1. largest # NoBuild
      <4> SUFFICES ASSUME largest = NoBuild PROVE FALSE
        OBVIOUS
      <4>1. ~ fit /\ best = NoBuild
        BY <1>4
      <4>2. fits = 8
        <5> HIDE DEF fit
        <5> QED
          BY <1>8, <4>1
      <4> QED
        BY <1>1, <2>3, <4>1, <4>2 DEF Building
    <3> QED
      BY <1>4, <3>1
  <2> HIDE DEF given, last, fit, used, slack, better
  <2>4. /\ given \in [Sections -> Nat] /\ given["target"] <= Units
        /\ kept' \in [Sections -> Nat] /\ kept'["target"] = given["target"]
    <3>1. MoreRows(given) \in Nat /\ given \in [Sections -> Nat] /\ given["target"] <= Units
      BY <1>1, <2>2, BytesTyped DEF Builds
    <3> QED
      BY <2>1, <3>1, SectionsAre
  <2>5. omitted' \in [RowSections -> Int]
    <3>1. /\ given["more"] \in Nat /\ given["context"] \in Nat
          /\ Len(MorePool(given)) \in Int /\ Len(in.context) \in Int
      <4>1. Len(in.context) \in Nat /\ Len(in.callees) \in Nat /\ Len(in.callers) \in Nat
        BY <1>1, PacketData, LenProperties
      <4>2. Len(MorePool(given)) \in Int
        <5>1. Len(MorePool(given))
                 = Len(in.callees) - given["callees"] + Len(in.callers) - given["callers"]
          BY <1>1, <2>2, CostsTyped
        <5>2. given["callees"] \in Nat /\ given["callers"] \in Nat
          BY <2>4, SectionsAre
        <5> QED
          BY <4>1, <5>1, <5>2
      <4> QED
        BY <2>4, <4>1, <4>2, SectionsAre
    <3> QED
      BY <2>1, <3>1
  <2>6. PacketTypeOK'
    BY <1>1, <1>2, <1>5, <2>1, <2>4, <2>5, SectionsAre DEF PacketTypeOK
  <2>7. PacketFitsAsReserved'
    <3>1. PacketBytes(n)' = PacketBytes(given) /\ EntryBytes' = EntryBytes
      BY <1>5, <2>1 DEF EntryBytes
    <3> QED
      BY <1>2, <1>5, <2>1, <2>3, <3>1 DEF PacketFitsAsReserved, PacketFits, Tokens
  <2>8. kept'["target"] <= Units' /\ n' \in Builds'
    BY <1>5, <2>1, <2>2, <2>4
  <2> QED
    BY <1>5, <1>6, <2>1, <2>6, <2>7, <2>8 DEF PacketInv, NoBuild, Tokens
<1> HIDE DEF last, given, fit, used, slack, better
<1> QED
  BY <1>2, <1>7, <1>8

\* What may be shown of a packet.
Showings == {s \in [Sections -> Nat] : s["target"] <= Units}
Shedding == [s : Showings, freed : Int]

\* The first number, from the last on down, that frees enough: none but 0 when
\* nothing is freed by staying.
LEMMA ShedsFrom ==
    ASSUME NEW last \in Nat, NEW cost \in [0..last -> Int], cost[last] = 0,
           NEW need \in Nat \ {0}, NEW k,
           k = CHOOSE j \in 0..last : /\ j = 0 \/ cost[j] >= need
                                      /\ \A m \in j + 1..last : cost[m] < need
    PROVE  k \in 0..last /\ (k = last => last = 0)
<1> DEFINE Enough == {j \in 0..last : j = 0 \/ cost[j] >= need}
<1>1. 0 \in Enough /\ Enough \in SUBSET Nat /\ \A j \in Enough : j <= last
  OBVIOUS
<1>2. PICK j \in Enough : \A m \in Enough : m <= j
  <2> HIDE DEF Enough
  <2> QED
    BY <1>1, GreatestBounded
<1>3. \A m \in j + 1..last : cost[m] < need
  <2> TAKE m \in j + 1..last
  <2>1. j \in 0..last
    BY <1>2
  <2>2. m \in 0..last /\ ~ (m <= j) /\ cost[m] \in Int
    BY <2>1
  <2>3. m \notin Enough
    BY <1>2, <2>2
  <2> QED
    BY <2>2, <2>3
<1>4. /\ k \in 0..last /\ (k = 0 \/ cost[k] >= need)
  BY <1>2, <1>3
<1>5. ~ (cost[last] >= need)
  OBVIOUS
<1> QED
  BY <1>4, <1>5

\* trim_packet takes rows off each section as long as it needs to, so that a section
\* of which nothing is taken has nothing, unless enough was taken before.
LEMMA SectionSheds ==
    ASSUME in \in Inputs, n \in Builds, NEW was \in Shedding, NEW x \in RowSections,
           NEW need \in Nat \ {0}, NEW after, after = ShedSection(was, x, need)
    PROVE  /\ after \in Shedding
           /\ \A y \in Sections \ {x} : after.s[y] = was.s[y]
           /\ after.s[x] = was.s[x] =>
                 /\ after.freed = was.freed
                 /\ was.freed >= need \/ was.s[x] = 0
<1> DEFINE costs == Costs(n, x)
           last == was.s[x]
           left == need - was.freed
           cost == [j \in 0..last |-> SumFirst(costs, last) - SumFirst(costs, j)]
           k == IF was.freed >= need THEN last ELSE Popped(was.s, x, left)
<1>1. costs \in Seq(Costly) /\ \A j \in Nat : SumFirst(costs, j) \in Nat
  <2>1. costs \in Seq(Costly)
    BY CostsTyped
  <2> HIDE DEF costs
  <2> QED
    BY <2>1, SumsTyped
<1>2. /\ was.s \in [Sections -> Nat] /\ was.s["target"] <= Units /\ was.freed \in Int
      /\ last \in Nat /\ x # "target" /\ x \in Sections
  BY SectionsAre DEF Shedding, Showings
<1>3. after = [s |-> [was.s EXCEPT ![x] = k],
               freed |-> was.freed + SumFirst(costs, last) - SumFirst(costs, k)]
  BY Zenon DEF ShedSection
<1>4. ASSUME ~ (was.freed >= need) PROVE k \in 0..last /\ (k = last => last = 0)
  <2>1. left \in Nat \ {0}
    BY <1>2, <1>4
  <2>2. Popped(was.s, x, left) = CHOOSE j \in 0..last :
            /\ j = 0 \/ SumFirst(costs, last) - SumFirst(costs, j) >= left
            /\ \A m \in j + 1..last : SumFirst(costs, last) - SumFirst(costs, m) < left
    BY Zenon DEF Popped
  <2> HIDE DEF costs, last, left
  <2>3. cost \in [0..last -> Int] /\ cost[last] = 0
        /\ \A j \in 0..last : cost[j] = SumFirst(costs, last) - SumFirst(costs, j)
    <3>1. /\ \A j \in 0..last : j \in Nat /\ SumFirst(costs, j) \in Nat
          /\ last \in 0..last
      <4>1. last \in Nat
        BY <1>2
      <4>2. last \in 0..last /\ \A j \in 0..last : j \in Nat
        BY <4>1
      <4> QED
        BY <1>1, <4>2
    <3>2. \A j \in 0..last : SumFirst(costs, last) - SumFirst(costs, j) \in Int
      BY <3>1
    <3>3. SumFirst(costs, last) - SumFirst(costs, last) = 0
      BY <3>1
    <3> QED
      BY <3>1, <3>2, <3>3
  <2> HIDE DEF cost
  <2>4. Popped(was.s, x, left) = CHOOSE j \in 0..last :
            /\ j = 0 \/ cost[j] >= left
            /\ \A m \in j + 1..last : cost[m] < left
    <3> DEFINE That(j) == /\ j = 0 \/ SumFirst(costs, last) - SumFirst(costs, j) >= left
                          /\ \A m \in j + 1..last :
                                 SumFirst(costs, last) - SumFirst(costs, m) < left
               Same(j) == /\ j = 0 \/ cost[j] >= left
                          /\ \A m \in j + 1..last : cost[m] < left
    <3>1. \A j \in 0..last : That(j) <=> Same(j)
      <4> TAKE j \in 0..last
      <4>1. \A m \in j + 1..last : m \in 0..last
        BY <1>2
      <4> QED
        BY <2>3, <4>1
    <3>2. Popped(was.s, x, left) = CHOOSE j \in 0..last : That(j)
      BY <2>2
    <3> HIDE DEF This, Same
    <3>3. Popped(was.s, x, left) = CHOOSE j \in 0..last : Same(j)
      BY <3>1, <3>2
    <3> QED
      BY <3>3 DEF Same
  <2> QED
    BY <1>2, <1>4, <2>1, <2>3, <2>4, ShedsFrom
<1>5. k \in 0..last
  <2>1. CASE was.freed >= need
    BY <1>2, <2>1
  <2> HIDE DEF k
  <2> QED
    BY <1>4, <2>1
<1>6. k = last => was.freed >= need \/ last = 0
  <2> HIDE DEF k
  <2> QED
    BY <1>4
<1> HIDE DEF costs, k
<1>7. after.s = [was.s EXCEPT ![x] = k]
      /\ after.freed = was.freed + SumFirst(costs, last) - SumFirst(costs, k)
  BY <1>3
<1>8. k \in Nat /\ SumFirst(costs, last) \in Nat /\ SumFirst(costs, k) \in Nat
  <2>1. k \in Nat
    BY <1>2, <1>5
  <2> QED
    BY <1>1, <1>2, <2>1
<1>9. after.s \in Showings /\ after.s[x] = k /\ \A y \in Sections \ {x} : after.s[y] = was.s[y]
  BY <1>2, <1>7, <1>8, SectionsAre DEF Showings
<1>10. after.freed \in Int /\ (k = last => after.freed = was.freed)
  BY <1>2, <1>7, <1>8
<1>11. after \in Shedding
  BY <1>3, <1>9, <1>10 DEF Shedding
<1> QED
  BY <1>6, <1>9, <1>10, <1>11

\* The sections in the order in which rows are shed, as of a sequence.
LEMMA ShedOrderIs ==
    /\ DOMAIN ShedOrder = 1..4
    /\ ShedOrder[1] = "more" /\ ShedOrder[2] = "context" /\ ShedOrder[3] = "callers"
    /\ ShedOrder[4] = "callees"
    /\ \A k \in 1..4 : ShedOrder[k] \in RowSections
<1>1. /\ ShedOrder[1] = "more" /\ ShedOrder[2] = "context" /\ ShedOrder[3] = "callers"
      /\ ShedOrder[4] = "callees"
  BY DEF ShedOrder
<1>2. DOMAIN ShedOrder = 1..4
  BY DEF ShedOrder
<1>3. \A k \in 1..4 : k = 1 \/ k = 2 \/ k = 3 \/ k = 4
  OBVIOUS
<1> QED
  BY <1>1, <1>2, <1>3, SectionsAre

LEMMA ShedRowsAlong ==
    ASSUME in \in Inputs, n \in Builds, kept \in Showings, NEW need \in Nat \ {0}
    PROVE  \E h : /\ h[0] = [s |-> kept, freed |-> 0] /\ ShedRows(need) = h[4]
                  /\ \A k \in 0..4 : h[k] \in Shedding
                  /\ \A k \in 1..4 : h[k] = ShedSection(h[k - 1], ShedOrder[k], need)
<1> DEFINE P == SUBSET (1..4)
           start == [s |-> kept, freed |-> 0]
           Op(k, was) == ShedSection(was, ShedOrder[k], need)
           shed == [k \in 1..4 |-> [was \in Shedding |-> Op(k, was)]]
           Folded(g, I) == IF I = {} THEN start ELSE Op(Max(I), g[I \ {Max(I)}])
           fold == CHOOSE g : g = [I \in SUBSET DOMAIN ShedOrder |-> Folded(g, I)]
<1>1. start \in Shedding /\ \A k \in 1..4, was \in Shedding : Op(k, was) \in Shedding
  <2>1. start \in Shedding
    BY DEF Shedding
  <2>2. ASSUME NEW k \in 1..4, NEW was \in Shedding PROVE Op(k, was) \in Shedding
    BY ShedOrderIs, SectionSheds
  <2> QED
    BY <2>1, <2>2
<1>2. ShedRows(need) = fold[DOMAIN ShedOrder]
  BY Zenon DEF ShedRows, FoldLeft, MapThenFoldSet
<1> HIDE DEF fold, start
<1>3. shed \in [1..4 -> [Shedding -> Shedding]]
      /\ \A k \in 1..4, was \in Shedding : shed[k][was] = Op(k, was)
  BY <1>1
<1> HIDE DEF Op, shed
<1>4. PICK g \in [P -> Shedding] : FoldsBy(g, 4, start, shed)
  BY <1>1, <1>3, FoldsAlong
<1>5. \A I \in P : I # {} => Max(I) \in 1..4 /\ I \ {Max(I)} \in P
  BY GreatestOf
<1>6. \A I \in P : g[I] = Folded(g, I)
  BY <1>3, <1>4, <1>5 DEF FoldsBy
<1>7. SUBSET DOMAIN ShedOrder = P
  BY ShedOrderIs
<1> HIDE DEF Folded, P
<1>8. g = [I \in SUBSET DOMAIN ShedOrder |-> Folded(g, I)]
  <2>1. g = [I \in P |-> g[I]]
    BY <1>4
  <2> QED
    BY <1>6, <1>7, <2>1
<1>9. fold = [I \in SUBSET DOMAIN ShedOrder |-> Folded(fold, I)]
  BY <1>8, Zenon DEF fold
<1>10. \A I \in P : fold[I] = Folded(fold, I)
  BY <1>7, <1>9
<1>11. fold[{}] = start
  BY <1>10 DEF Folded, P
<1>12. \A I \in SUBSET (1..4) : I # {} /\ fold[I \ {Max(I)}] \in Shedding =>
          fold[I] = shed[Max(I)][fold[I \ {Max(I)}]]
  BY <1>3, <1>5, <1>10 DEF Folded, P
<1>13. PICK h : ReadsFold(h, fold, 4, Shedding, start, shed)
  <2>1. FoldsIn(fold, 4, Shedding, start, shed)
    BY <1>11, <1>12 DEF FoldsIn
  <2> QED
    BY <1>1, <1>3, <2>1, FoldReads
<1>14. \A k \in 1..4 : h[k] = Op(k, h[k - 1])
  <2> TAKE k \in 1..4
  <2>1. k - 1 \in 0..4
    OBVIOUS
  <2> QED
    BY <1>3, <1>13, <2>1 DEF ReadsFold
<1>15. ShedRows(need) = h[4]
  BY <1>2, <1>13, ShedOrderIs DEF ReadsFold
<1> QED
  BY <1>13, <1>14, <1>15 DEF Op, ReadsFold, start

\* Nothing is shed only of a packet that has nothing left.
LEMMA ShedsUnlessEmpty ==
    ASSUME in \in Inputs, n \in Builds, kept \in Showings, NEW excess \in Int
    PROVE  Shed(excess) \in Showings /\ (Shed(excess) = kept => kept = Nothing)
<1> DEFINE need == 4 * (IF excess < 1 THEN 1 ELSE excess)
           rows == ShedRows(need)
           units == ShedUnits(rows.s, need - rows.freed)
<1>1. need \in Nat \ {0}
  OBVIOUS
<1>2. Shed(excess) = IF rows.freed >= need \/ Units = 0 THEN rows.s
                     ELSE [rows.s EXCEPT !["target"] = units]
  BY Zenon DEF Shed
<1> HIDE DEF need
<1>3. PICK h : /\ h[0] = [s |-> kept, freed |-> 0] /\ rows = h[4]
               /\ \A k \in 0..4 : h[k] \in Shedding
               /\ \A k \in 1..4 : h[k] = ShedSection(h[k - 1], ShedOrder[k], need)
  BY <1>1, ShedRowsAlong
<1> HIDE DEF rows
<1>4. ASSUME NEW k \in 1..4
      PROVE  /\ \A y \in Sections \ {ShedOrder[k]} : h[k].s[y] = h[k - 1].s[y]
             /\ h[k].s[ShedOrder[k]] = h[k - 1].s[ShedOrder[k]] =>
                   /\ h[k].freed = h[k - 1].freed
                   /\ h[k - 1].freed >= need \/ h[k - 1].s[ShedOrder[k]] = 0
  <2>1. h[k - 1] \in Shedding /\ ShedOrder[k] \in RowSections
        /\ h[k] = ShedSection(h[k - 1], ShedOrder[k], need)
    <3>1. k - 1 \in 0..4
      OBVIOUS
    <3> QED
      BY <1>3, <3>1, ShedOrderIs
  <2> DEFINE was == h[k - 1]
             x == ShedOrder[k]
             after == h[k]
  <2>2. was \in Shedding /\ x \in RowSections /\ after = ShedSection(was, x, need)
    BY <2>1
  <2> HIDE DEF was, x, after
  <2>3. /\ \A y \in Sections \ {x} : after.s[y] = was.s[y]
        /\ after.s[x] = was.s[x] =>
              /\ after.freed = was.freed
              /\ was.freed >= need \/ was.s[x] = 0
    BY <1>1, <2>2, SectionSheds
  <2> QED
    BY <2>3, Zenon DEF was, x, after
<1>5. rows.s \in Showings /\ rows.freed \in Int
  BY <1>3 DEF Shedding
<1>6. rows.s["target"] = kept["target"]
  <2>1. 1 - 1 = 0 /\ 2 - 1 = 1 /\ 3 - 1 = 2 /\ 4 - 1 = 3
        /\ 1 \in 1..4 /\ 2 \in 1..4 /\ 3 \in 1..4 /\ 4 \in 1..4
    OBVIOUS
  <2>2. /\ h[1].s["target"] = kept["target"]
        /\ h[2].s["target"] = h[1].s["target"]
        /\ h[3].s["target"] = h[2].s["target"]
        /\ h[4].s["target"] = h[3].s["target"]
    BY <1>3, <1>4, <2>1, ShedOrderIs, SectionsAre
  <2> QED
    BY <1>3, <2>2
<1>7. ASSUME \A x \in RowSections : rows.s[x] = kept[x]
      PROVE  rows.freed = 0 /\ \A x \in RowSections : kept[x] = 0
  <2>1. 1 - 1 = 0 /\ 2 - 1 = 1 /\ 3 - 1 = 2 /\ 4 - 1 = 3
        /\ 1 \in 1..4 /\ 2 \in 1..4 /\ 3 \in 1..4 /\ 4 \in 1..4
    OBVIOUS
  <2>2. \A x \in Sections \ {"more"} : h[1].s[x] = kept[x]
    BY <1>3, <1>4, <2>1, ShedOrderIs
  <2>3. \A x \in Sections \ {"context"} : h[2].s[x] = h[1].s[x]
    BY <1>4, <2>1, ShedOrderIs
  <2>4. \A x \in Sections \ {"callers"} : h[3].s[x] = h[2].s[x]
    BY <1>4, <2>1, ShedOrderIs
  <2>5. \A x \in Sections \ {"callees"} : rows.s[x] = h[3].s[x]
    BY <1>3, <1>4, <2>1, ShedOrderIs
  <2>6. /\ h[1].s["more"] = kept["more"] /\ h[2].s["context"] = kept["context"]
        /\ h[3].s["callers"] = kept["callers"] /\ rows.s["callees"] = kept["callees"]
    BY <1>7, <2>2, <2>3, <2>4, <2>5, SectionsAre
  <2>7. h[1].freed = 0 /\ kept["more"] = 0
    <3>1. h[0].s = kept /\ h[0].freed = 0
      BY <1>3
    <3> QED
      BY <1>1, <1>4, <2>1, <2>6, <3>1, ShedOrderIs
  <2>8. h[2].freed = 0 /\ kept["context"] = 0
    <3>1. h[1].s["context"] = kept["context"]
      BY <2>2, SectionsAre
    <3> QED
      BY <1>1, <1>4, <2>1, <2>6, <2>7, <3>1, ShedOrderIs
  <2>9. h[3].freed = 0 /\ kept["callers"] = 0
    <3>1. h[2].s["callers"] = kept["callers"]
      BY <2>2, <2>3, SectionsAre
    <3> QED
      BY <1>1, <1>4, <2>1, <2>6, <2>8, <3>1, ShedOrderIs
  <2>10. rows.freed = 0 /\ kept["callees"] = 0
    <3>1. h[3].s["callees"] = kept["callees"]
      BY <2>2, <2>3, <2>4, SectionsAre
    <3> QED
      BY <1>1, <1>3, <1>4, <2>1, <2>6, <2>9, <3>1, ShedOrderIs
  <2> QED
    BY <2>7, <2>8, <2>9, <2>10, SectionsAre
<1>8. ASSUME ~ (rows.freed >= need)
      PROVE  units \in 0..kept["target"] /\ (units = kept["target"] => kept["target"] = 0)
  <2> DEFINE last == rows.s["target"]
             left == need - rows.freed
             cost == [k \in 0..last |-> in.target[last + 1] - in.target[k + 1]]
  <2>1. last \in Nat /\ left \in Nat \ {0} /\ last <= Units
    BY <1>1, <1>5, <1>8, SectionsAre DEF Showings
  <2>2. \A k \in 0..last : in.target[k + 1] \in Nat
    <3>1. \A k \in 0..last : k \in 0..Units
      BY <2>1, PacketData
    <3> QED
      BY <3>1, PacketData DEF Costly
  <2>3. units = CHOOSE k \in 0..last :
            /\ k = 0 \/ in.target[last + 1] - in.target[k + 1] >= left
            /\ \A m \in k + 1..last : in.target[last + 1] - in.target[m + 1] < left
    BY Zenon DEF ShedUnits
  <2>4. last = kept["target"]
    BY <1>6
  <2> HIDE DEF last, left, units
  <2>5. cost \in [0..last -> Int] /\ cost[last] = 0
        /\ \A k \in 0..last : cost[k] = in.target[last + 1] - in.target[k + 1]
    <3>1. last \in 0..last /\ in.target[last + 1] \in Nat
      BY <2>1, <2>2
    <3>2. \A k \in 0..last : in.target[last + 1] - in.target[k + 1] \in Int
      BY <2>2, <3>1
    <3>3. in.target[last + 1] - in.target[last + 1] = 0
      BY <3>1
    <3> QED
      BY <3>1, <3>2, <3>3
  <2> HIDE DEF cost
  <2>6. units = CHOOSE k \in 0..last : /\ k = 0 \/ cost[k] >= left
                                       /\ \A m \in k + 1..last : cost[m] < left
    <3> DEFINE That(k) == /\ k = 0 \/ in.target[last + 1] - in.target[k + 1] >= left
                          /\ \A m \in k + 1..last : in.target[last + 1] - in.target[m + 1] < left
               Same(k) == /\ k = 0 \/ cost[k] >= left
                          /\ \A m \in k + 1..last : cost[m] < left
    <3>1. \A k \in 0..last : That(k) <=> Same(k)
      <4> TAKE k \in 0..last
      <4>1. \A m \in k + 1..last : m \in 0..last
        BY <2>1
      <4> QED
        BY <2>5, <4>1
    <3>2. units = CHOOSE k \in 0..last : That(k)
      BY <2>3
    <3> HIDE DEF This, Same
    <3>3. units = CHOOSE k \in 0..last : Same(k)
      BY <3>1, <3>2
    <3> QED
      BY <3>3 DEF Same
  <2>7. units \in 0..last /\ (units = last => last = 0)
    BY <2>1, <2>5, <2>6, ShedsFrom
  <2> QED
    BY <2>4, <2>7
<1> HIDE DEF units
<1>9. Shed(excess) \in Showings
  <2>1. CASE rows.freed >= need \/ Units = 0
    BY <1>2, <1>5, <2>1
  <2>2. CASE ~ (rows.freed >= need \/ Units = 0)
    <3>1. units \in Nat /\ units <= Units /\ Units \in Nat
      <4>1. kept["target"] \in Nat /\ kept["target"] <= Units /\ Units \in Nat
        BY PacketData, SectionsAre DEF Showings
      <4> QED
        BY <1>8, <2>2, <4>1
    <3> QED
      BY <1>2, <1>5, <2>2, <3>1, SectionsAre DEF Showings
  <2> QED
    BY <2>1, <2>2
<1>10. ASSUME Shed(excess) = kept PROVE kept = Nothing
  <2>1. rows.s \in [Sections -> Nat] /\ kept \in [Sections -> Nat] /\ kept["target"] <= Units
        /\ kept["target"] \in Nat /\ Units \in Nat
    BY <1>5, PacketData, SectionsAre DEF Showings
  <2>2. \A x \in RowSections : rows.s[x] = kept[x]
    BY <1>2, <1>10, <2>1, SectionsAre
  <2>3. rows.freed = 0 /\ \A x \in RowSections : kept[x] = 0
    BY <1>7, <2>2
  <2>4. kept["target"] = 0
    <3>1. CASE Units = 0
      BY <2>1, <3>1
    <3>2. CASE Units # 0
      <4>1. ~ (rows.freed >= need)
        BY <1>1, <2>3
      <4>2. kept["target"] = units
        BY <1>2, <1>10, <2>1, <3>2, <4>1, SectionsAre
      <4> QED
        BY <1>8, <4>1, <4>2
    <3> QED
      BY <3>1, <3>2
  <2>5. \A x \in Sections : kept[x] = 0
    BY <2>3, <2>4, SectionsAre
  <2> QED
    BY <2>1, <2>5 DEF Nothing
<1> QED
  BY <1>9, <1>10

LEMMA MeasuredTyped ==
    ASSUME in \in Inputs, n \in Builds, kept \in Showings, est \in Nat
    PROVE  Measured \in Nat
<1> DEFINE target == SectionBytes(kept, "target")
           files == in.file * (1 + kept["callees"] + kept["callers"] + kept["more"])
           callees == SumFirst(Costs(n, "callees"), kept["callees"])
           callers == SumFirst(Costs(n, "callers"), kept["callers"])
           others == SumFirst(Costs(n, "more"), kept["more"])
           around == SumFirst(in.context, kept["context"])
           bytes == ShownBytes(kept)
<1>1. /\ kept["target"] \in 0..Units /\ kept["callees"] \in Nat /\ kept["callers"] \in Nat
      /\ kept["more"] \in Nat /\ kept["context"] \in Nat
  BY PacketData, SectionsAre DEF Showings
<1>b. /\ in.file \in Nat /\ Base \in Nat /\ Envelope \in Nat /\ HitBytes \in Nat
      /\ in.hits \in BOOLEAN
  BY PacketData
<1>2. target \in Nat
  <2>1. in.target[kept["target"] + 1] \in Costly
    BY <1>1, PacketData
  <2> QED
    BY <2>1 DEF SectionBytes, Costly
<1>3. callees \in Nat /\ callers \in Nat /\ others \in Nat /\ around \in Nat
  <2>1. \A x \in RowSections : Costs(n, x) \in Seq(Costly)
    BY CostsTyped
  <2>2. in.context \in Seq(Costly)
    BY PacketData
  <2> QED
    BY <1>1, <2>1, <2>2, SumsTyped, SectionsAre
<1>4. files \in Nat
  <2> DEFINE entries == 1 + kept["callees"] + kept["callers"] + kept["more"]
  <2>1. entries \in Nat /\ in.file \in Nat
    BY <1>1, <1>b
  <2> HIDE DEF entries
  <2>2. in.file * entries \in Nat
    BY <2>1
  <2> QED
    BY <2>2 DEF entries
<1>5. bytes = target + callees + callers + others + around + Base + files
  BY DEF ShownBytes
<1> HIDE DEF target, files, callees, callers, others, around, bytes
<1>6. bytes \in Nat
  BY <1>b, <1>2, <1>3, <1>4, <1>5
<1>7. ResponseBytes(bytes, ShownRows(kept), est) \in Nat
  BY <1>b, <1>6 DEF ResponseBytes, Digits
<1> QED
  BY <1>7, TokensFit DEF Measured, bytes

LEMMA RespondKeeps == ASSUME PacketInv, Respond PROVE PacketInv'
<1>1. /\ in \in Inputs /\ n \in Builds /\ kept \in Showings /\ est \in Nat
      /\ omitted \in [RowSections -> Int] /\ doing = "respond" /\ PacketFitsAsReserved
      /\ best = NoBuild \/ (best \in Builds /\ Tokens(PacketBytes(best)) <= PacketBudget)
      /\ in.tokens \in Nat
  BY PacketData DEF Respond, PacketInv, PacketTypeOK, Showings
<1>2. /\ in' = in /\ n' = n /\ carry' = carry /\ at' = at /\ round' = round
      /\ reserve' = reserve /\ fits' = fits /\ best' = best
      /\ doing' \in {"respond", "done"}
  BY <1>1 DEF Respond, Answered, buildVars, answerVars
<1>3. Measured \in Nat
  BY <1>1, MeasuredTyped
<1>4. /\ kept' \in Showings /\ omitted' \in [RowSections -> Int] /\ est' \in Nat
      /\ doing' = "done" => /\ kept' = kept /\ est' = est
                            /\ \/ Measured <= in.tokens /\ est = Measured
                               \/ kept = Nothing /\ Measured > in.tokens
  <2>1. CASE Measured <= in.tokens /\ Measured = est /\ Answered
    BY <1>1, <2>1 DEF Answered, answerVars
  <2>2. CASE /\ Measured <= in.tokens /\ Measured # est
             /\ est' = Measured
             /\ UNCHANGED <<in, doing, buildVars, reserve, fits, best, kept, omitted>>
    BY <1>1, <1>3, <2>2
  <2>3. CASE /\ Measured > in.tokens
             /\ Shed(Measured - in.tokens) = kept /\ Answered
    <3>1. Measured - in.tokens \in Int
      BY <1>1, <1>3
    <3>2. kept = Nothing
      BY <1>1, <2>3, <3>1, ShedsUnlessEmpty
    <3> QED
      BY <1>1, <2>3, <3>2 DEF Answered, answerVars
  <2>4. CASE LET less == Shed(Measured - in.tokens) IN
             /\ Measured > in.tokens /\ kept' = less /\ omitted' = Account(less)
             /\ UNCHANGED <<in, doing, buildVars, reserve, fits, best, est>>
    <3> DEFINE less == Shed(Measured - in.tokens)
    <3>1. Measured - in.tokens \in Int
      BY <1>1, <1>3
    <3>2. less \in Showings
      BY <1>1, <3>1, ShedsUnlessEmpty
    <3>3. kept' = less /\ omitted' = Account(less) /\ doing' = doing /\ est' = est
      BY <2>4
    <3> HIDE DEF less
    <3>4. Account(less) \in [RowSections -> Int]
      <4>1. ASSUME NEW r \in RowSections PROVE omitted[r] + kept[r] - less[r] \in Int
        <5>1. r \in Sections
          BY SectionsAre
        <5>2. kept[r] \in Nat /\ less[r] \in Nat /\ omitted[r] \in Int
          BY <1>1, <3>2, <5>1 DEF Showings
        <5> QED
          BY <5>2
      <4> QED
        BY <4>1 DEF Account
    <3> QED
      BY <1>1, <3>2, <3>3, <3>4
  <2> QED
    BY <2>1, <2>2, <2>3, <2>4, Zenon DEF Respond
<1>5. /\ Builds' = Builds /\ Units' = Units /\ PacketBudget' = PacketBudget
      /\ (EmptyFits <=> EmptyFits')
      /\ \A s : PacketBytes(s)' = PacketBytes(s)
      /\ \A s, x : SectionBytes(s, x)' = SectionBytes(s, x) /\ Costs(s, x)' = Costs(s, x)
  BY <1>2, SameInput
<1>6. ASSUME doing' = "done"
      PROVE  \/ Measured' <= in'.tokens /\ est' = Measured'
             \/ kept' = Nothing' /\ Measured' > in'.tokens
  <2>1. /\ kept' = kept /\ est' = est
        /\ \/ Measured <= in.tokens /\ est = Measured
           \/ kept = Nothing /\ Measured > in.tokens
    BY <1>4, <1>6
  <2>2. ShownBytes(kept)' = ShownBytes(kept)
    BY <1>2, <1>5, <2>1 DEF ShownBytes
  <2>3. Measured' = Measured
    BY <1>2, <2>1, <2>2 DEF Measured, ShownRows, ResponseBytes
  <2> QED
    BY <1>2, <2>1, <2>3 DEF Nothing
<1>7. kept' \in [Sections -> Nat] /\ kept'["target"] <= Units'
  BY <1>4, <1>5 DEF Showings
<1>8. PacketTypeOK'
  <2>1. PacketTypeOK
    BY DEF PacketInv
  <2> QED
    BY <1>1, <1>2, <1>4, <1>5, <1>7, <2>1 DEF PacketTypeOK
<1>9. PacketFitsAsReserved'
  <2>1. PacketBytes(n)' = PacketBytes(n) /\ EntryBytes' = EntryBytes
    BY <1>2, <1>5 DEF EntryBytes
  <2> QED
    BY <1>1, <1>2, <1>5, <2>1 DEF PacketFitsAsReserved, PacketFits, Tokens
<1>10. best' = NoBuild \/ (best' \in Builds /\ Tokens(PacketBytes(best)') <= PacketBudget)
  BY <1>1, <1>2, <1>5
<1> QED
  BY <1>1, <1>2, <1>5, <1>6, <1>7, <1>8, <1>9, <1>10 DEF PacketInv, NoBuild, Tokens

LEMMA AgainKeeps == ASSUME PacketInv, Again PROVE PacketInv'
<1>1. /\ in' = in /\ in \in Inputs /\ doing' = "reserve" /\ n' = Nothing /\ carry' = 0
      /\ at' = 1 /\ round' = 1 /\ reserve' = 0 /\ fits' = 1 /\ best' = NoBuild
      /\ kept' = Nothing /\ omitted' = [r \in RowSections |-> 0] /\ est' = 0
  BY DEF Again, PacketInv, PacketTypeOK
<1>2. Nothing \in Builds /\ Nothing \in [Sections -> Nat] /\ Nothing["target"] <= Units
  <2>1. reserve \in Nat
    BY DEF PacketInv, PacketTypeOK
  <2>2. Nothing \in Builds
    BY <1>1, <2>1, PacketBudgets
  <2> QED
    BY <2>2 DEF Builds
<1>3. Builds' = Builds /\ Units' = Units
  BY <1>1, SameInput
<1>4. PacketTypeOK'
  BY <1>1, <1>2, <1>3, SectionsAre DEF PacketTypeOK
<1>5. PacketFitsAsReserved'
  BY <1>1 DEF PacketFitsAsReserved, PacketFits
<1> QED
  BY <1>1, <1>2, <1>3, <1>4, <1>5 DEF PacketInv, NoBuild

LEMMA PacketRests == ASSUME PacketInv, UNCHANGED packetVars PROVE PacketInv'
<1>1. /\ in' = in /\ doing' = doing /\ n' = n /\ carry' = carry /\ at' = at /\ round' = round
      /\ reserve' = reserve /\ fits' = fits /\ best' = best
      /\ kept' = kept /\ omitted' = omitted /\ est' = est
  BY DEF packetVars, buildVars, answerVars
<1>2. /\ Builds' = Builds /\ Units' = Units /\ FirstReserve' = FirstReserve
      /\ PacketBudget' = PacketBudget /\ (EmptyFits <=> EmptyFits')
      /\ \A s : PacketBytes(s)' = PacketBytes(s) /\ AllBytes(s)' = AllBytes(s)
      /\ \A s, x : SectionBytes(s, x)' = SectionBytes(s, x) /\ Costs(s, x)' = Costs(s, x)
      /\ SectionBudget' = SectionBudget /\ Over' = Over /\ Allocs' = Allocs
  BY <1>1, SameInput, SameReserve
<1>3. PacketTypeOK'
  BY <1>1, <1>2 DEF PacketInv, PacketTypeOK
<1>4. Building => Building'
  BY <1>1, <1>2 DEF Building, NoBuild, EntryBytes
<1>5. FirstPass => FirstPass'
  <2>1. BytesOf(n)' = BytesOf(n)
    BY <1>1, <1>2 DEF BytesOf
  <2> QED
    BY <1>1, <1>2, <2>1 DEF FirstPass
<1>6. Filled => Filled'
  <2>1. AllBytes(n)' = AllBytes(n)
    BY <1>1, <1>2
  <2> QED
    BY <1>1, <1>2, <2>1 DEF Filled, Nothing
<1>7. PacketFitsAsReserved => PacketFitsAsReserved'
  <2>1. PacketBytes(n)' = PacketBytes(n) /\ EntryBytes' = EntryBytes
    BY <1>1, <1>2 DEF EntryBytes
  <2> QED
    BY <1>1, <1>2, <2>1 DEF PacketFitsAsReserved, PacketFits, Tokens
<1>8. Measured' = Measured
  <2>1. ShownBytes(kept)' = ShownBytes(kept)
    BY <1>1, <1>2 DEF ShownBytes
  <2> QED
    BY <1>1, <2>1 DEF Measured, ShownRows, ResponseBytes
<1>9. PacketBytes(best)' = PacketBytes(best)
  BY <1>1, <1>2
<1> QED
  BY <1>1, <1>2, <1>3, <1>4, <1>5, <1>6, <1>7, <1>8, <1>9 DEF PacketInv, NoBuild, Nothing, Tokens

LEMMA PacketStep == PacketInv /\ [PacketNext]_packetVars => PacketInv'
  BY ReserveKeeps, SharesKeep, RefillKeeps, VerifyKeeps, RespondKeeps, AgainKeeps, PacketRests
     DEF PacketNext

LEMMA PacketAnswers == PacketInv => PacketTypeOK /\ WithinBudget
<1> SUFFICES ASSUME PacketInv PROVE PacketTypeOK /\ WithinBudget
  OBVIOUS
<1>1. /\ PacketTypeOK /\ PacketFitsAsReserved /\ in \in Inputs /\ reserve \in Nat
      /\ n \in Builds /\ est \in Nat /\ in.tokens \in Nat
  BY PacketData DEF PacketInv, PacketTypeOK
<1>2. BuildWithinBudget
  <2> SUFFICES ASSUME doing = "verify",
                      in.target[1] <= (SectionBudget * Shares["target"]) \div 100
               PROVE  AllBytes(n) <= SectionBudget
    BY DEF BuildWithinBudget
  <2>1. AllBytes(n) <= SectionBudget + Over
    BY DEF PacketInv, Filled
  <2>2. Over = 0
    BY DEF Over, Alloc
  <2> QED
    BY <1>1, <2>1, <2>2, PacketBudgets
<1>3. ResponseFits
  <2> SUFFICES ASSUME doing = "done",
                      Tokens(ResponseBytes(PacketBytes(Nothing), 0, 1000)) <= in.tokens
               PROVE  Measured <= in.tokens /\ est = Measured
    BY DEF ResponseFits
  <2>1. CASE Measured <= in.tokens /\ est = Measured
    BY <2>1
  <2>2. CASE kept = Nothing /\ Measured > in.tokens
    <3> DEFINE bytes == PacketBytes(Nothing)
    <3>1. bytes = in.target[1] + Base + in.file /\ bytes \in Nat
      <4>1. in.file \in Nat /\ Base \in Nat
        BY <1>1, PacketData
      <4> QED
        BY <1>1, <4>1, PacketBudgets
    <3>2. ShownRows(kept) = 0
      BY <2>2, SectionsAre DEF ShownRows, Nothing
    <3>3. ShownBytes(kept) = bytes
      <4>1. \A x \in RowSections : SumFirst(Costs(n, x), 0) = 0
        BY <1>1, CostsTyped, SumsTyped
      <4>2. SumFirst(in.context, 0) = 0
        BY <1>1, PacketData, SumsTyped
      <4>3. \A x \in Sections : kept[x] = 0
        BY <2>2 DEF Nothing
      <4>4. SectionBytes(kept, "target") = in.target[1] /\ in.target[1] \in Nat
        BY <1>1, <2>2, PacketBudgets
      <4>5. in.file * (1 + kept["callees"] + kept["callers"] + kept["more"]) = in.file
        BY <1>1, <4>3, SectionsAre, PacketData
      <4> DEFINE files == in.file * (1 + kept["callees"] + kept["callers"] + kept["more"])
      <4>6. ShownBytes(kept)
               = SectionBytes(kept, "target") + SumFirst(Costs(n, "callees"), kept["callees"])
                 + SumFirst(Costs(n, "callers"), kept["callers"])
                 + SumFirst(Costs(n, "more"), kept["more"])
                 + SumFirst(in.context, kept["context"]) + Base + files
        BY DEF ShownBytes
      <4>7. files = in.file
        BY <4>5
      <4> HIDE DEF files, bytes
      <4> QED
        <5>1. /\ SumFirst(Costs(n, "callees"), kept["callees"]) = 0
              /\ SumFirst(Costs(n, "callers"), kept["callers"]) = 0
              /\ SumFirst(Costs(n, "more"), kept["more"]) = 0
              /\ SumFirst(in.context, kept["context"]) = 0
          BY <4>1, <4>2, <4>3, SectionsAre
        <5>2. in.file \in Nat /\ Base \in Nat
          BY <1>1, PacketData
        <5>3. ShownBytes(kept) = in.target[1] + 0 + 0 + 0 + 0 + Base + in.file
          BY <4>4, <4>6, <4>7, <5>1
        <5> QED
          BY <3>1, <4>4, <5>2, <5>3
    <3>4. Envelope \in Nat /\ Digits(est) \in 1..4 /\ Digits(1000) = 4
      BY <1>1, PacketData DEF Digits
    <3> HIDE DEF bytes
    <3>5. /\ Measured = Tokens(Envelope + Digits(est) + bytes)
          /\ Tokens(Envelope + 4 + bytes) <= in.tokens
      <4>1. ResponseBytes(bytes, 0, est) = Envelope + Digits(est) + bytes
        BY <3>1, <3>4 DEF ResponseBytes
      <4>2. ResponseBytes(bytes, 0, 1000) = Envelope + 4 + bytes
        BY <3>1, <3>4 DEF ResponseBytes
      <4> QED
        BY <3>2, <3>3, <4>1, <4>2 DEF Measured, bytes
    <3>6. Envelope + 4 + bytes <= 4 * in.tokens
      <4>1. Envelope + 4 + bytes \in Nat
        BY <3>1, <3>4
      <4> QED
        BY <1>1, <3>5, <4>1, TokensFit
    <3>7. Tokens(Envelope + Digits(est) + bytes) <= in.tokens
      <4>1. Envelope + Digits(est) + bytes \in Nat
            /\ Envelope + Digits(est) + bytes <= 4 * in.tokens
        BY <1>1, <3>1, <3>4, <3>6
      <4> QED
        BY <1>1, <4>1, TokensFit
    <3>8. Measured \in Nat
      <4>1. kept \in Showings
        BY DEF PacketInv, PacketTypeOK, Showings
      <4> QED
        BY <1>1, <4>1, MeasuredTyped
    <3> QED
      BY <1>1, <2>2, <3>5, <3>7, <3>8
  <2> QED
    BY <2>1, <2>2 DEF PacketInv
<1> QED
  BY <1>1, <1>2, <1>3 DEF WithinBudget

LEMMA PacketAlways == PacketSpec => []PacketInv
  BY PacketStarts, PacketStep, PTL DEF PacketSpec

\* What a packet is made of keeps its types (_State, _fit, build_context_packet).
THEOREM PacketTyped == PacketSpec => []PacketTypeOK
  BY PacketAlways, PacketAnswers, PTL

\* Whatever is packed and whatever it costs, neither the sections, nor the packet,
\* nor the response exceeds its budget (allocate, build_context_packet and
\* _inspect_symbol_full).
THEOREM PacketsWithinBudget == PacketSpec => []WithinBudget
  BY PacketAlways, PacketAnswers, PTL

----------------------------------------------------------------------------
(* Answers: the rows of an answer.  The argument: the rows that are offered *)
(* are distinct, and at any time each of them is either among those of the  *)
(* response or among those left out, once (Parted): packing parts them, and *)
(* giving back moves the last one over.  What is told is therefore a matter *)
(* of counting.                                                             *)

\* No item twice.
Once(s) == \A i, j \in DOMAIN s : s[i] = s[j] => i = j

\* Each of the items is in one of the sequences, once.
Parted(s, t, S) ==
    /\ s \in Seq(S) /\ t \in Seq(S) /\ Once(s) /\ Once(t)
    /\ ToSet(s) \cap ToSet(t) = {} /\ ToSet(s) \cup ToSet(t) = S

\* As many items as places.
LEMMA OnceCounts ==
    ASSUME NEW S, NEW s \in Seq(S), Once(s)
    PROVE  /\ IsFiniteSet(ToSet(s)) /\ Cardinality(ToSet(s)) = Len(s) /\ Len(s) \in Nat
           /\ ToSet(s) \subseteq S
<1>1. /\ Len(s) \in Nat /\ DOMAIN s = 1..Len(s) /\ s \in [1..Len(s) -> S]
      /\ ToSet(s) = {s[i] : i \in 1..Len(s)}
  BY LenProperties DEF ToSet
<1>2. s \in [1..Len(s) -> ToSet(s)]
  BY <1>1
<1>3. s \in Bijection(1..Len(s), ToSet(s))
  <2>1. s \in Injection(1..Len(s), ToSet(s))
    BY <1>1, <1>2 DEF Once, Injection, IsInjective
  <2>2. s \in Surjection(1..Len(s), ToSet(s))
    BY <1>1, <1>2 DEF Surjection
  <2> QED
    BY <2>1, <2>2 DEF Bijection
<1>4. ExistsBijection(1..Len(s), ToSet(s))
  BY <1>3 DEF ExistsBijection
<1>5. IsFiniteSet(1..Len(s)) /\ Cardinality(1..Len(s)) = Len(s)
  BY <1>1, FS_Interval
<1>6. IsFiniteSet(ToSet(s)) /\ Cardinality(ToSet(s)) = Cardinality(1..Len(s))
  BY <1>4, <1>5, FS_Bijection
<1> QED
  BY <1>1, <1>5, <1>6

LEMMA OnceJoined ==
    ASSUME NEW S, NEW s \in Seq(S), NEW t \in Seq(S), Once(s), Once(t),
           ToSet(s) \cap ToSet(t) = {}
    PROVE  s \o t \in Seq(S) /\ Once(s \o t) /\ ToSet(s \o t) = ToSet(s) \cup ToSet(t)
<1>1. /\ s \o t \in Seq(S) /\ Len(s \o t) = Len(s) + Len(t)
      /\ \A i \in 1..Len(s) + Len(t) :
             (s \o t)[i] = IF i <= Len(s) THEN s[i] ELSE t[i - Len(s)]
  BY ConcatProperties
<1>2. /\ Len(s) \in Nat /\ Len(t) \in Nat /\ DOMAIN s = 1..Len(s) /\ DOMAIN t = 1..Len(t)
      /\ DOMAIN (s \o t) = 1..Len(s) + Len(t)
  BY <1>1, LenProperties
<1> DEFINE r == s \o t
<1> HIDE DEF r
<1>3. ASSUME NEW i \in DOMAIN r, NEW j \in DOMAIN r, r[i] = r[j] PROVE i = j
  <2>1. /\ r[i] = IF i <= Len(s) THEN s[i] ELSE t[i - Len(s)]
        /\ r[j] = IF j <= Len(s) THEN s[j] ELSE t[j - Len(s)]
        /\ i \in 1..Len(s) + Len(t) /\ j \in 1..Len(s) + Len(t)
    BY <1>1, <1>2, <1>3 DEF r
  <2>2. \A k \in 1..Len(s) + Len(t) :
           /\ k <= Len(s) => k \in DOMAIN s
           /\ ~ (k <= Len(s)) => k - Len(s) \in DOMAIN t
    BY <1>2
  <2>3. \A k \in DOMAIN s, m \in DOMAIN t : s[k] # t[m]
    BY DEF ToSet
  <2>4. CASE i <= Len(s) /\ j <= Len(s)
    <3>1. i \in DOMAIN s /\ j \in DOMAIN s /\ s[i] = s[j]
      BY <1>3, <2>1, <2>2, <2>4
    <3> QED
      BY <3>1 DEF Once
  <2>5. CASE ~ (i <= Len(s)) /\ ~ (j <= Len(s))
    <3>1. i - Len(s) \in DOMAIN t /\ j - Len(s) \in DOMAIN t /\ t[i - Len(s)] = t[j - Len(s)]
      BY <1>3, <2>1, <2>2, <2>5
    <3>2. i - Len(s) = j - Len(s)
      BY <3>1 DEF Once
    <3> QED
      BY <1>2, <2>1, <3>2
  <2>6. CASE i <= Len(s) /\ ~ (j <= Len(s))
    <3>1. i \in DOMAIN s /\ j - Len(s) \in DOMAIN t
      BY <2>1, <2>2, <2>6
    <3> QED
      BY <1>3, <2>1, <2>3, <2>6, <3>1
  <2>7. CASE ~ (i <= Len(s)) /\ j <= Len(s)
    <3>1. j \in DOMAIN s /\ i - Len(s) \in DOMAIN t
      BY <2>1, <2>2, <2>7
    <3> QED
      BY <1>3, <2>1, <2>3, <2>7, <3>1
  <2> QED
    BY <2>4, <2>5, <2>6, <2>7
<1>4. Once(s \o t)
  BY <1>3 DEF Once, r
<1>5. ToSet(s \o t) = ToSet(s) \cup ToSet(t)
  BY ConcatSet
<1> QED
  BY <1>1, <1>4, <1>5

LEMMA OnceAppended ==
    ASSUME NEW S, NEW s \in Seq(S), NEW x \in S, Once(s), x \notin ToSet(s)
    PROVE  /\ Append(s, x) \in Seq(S) /\ Once(Append(s, x))
           /\ ToSet(Append(s, x)) = ToSet(s) \cup {x}
<1>1. <<x>> \in Seq(S) /\ Once(<<x>>) /\ ToSet(<<x>>) = {x}
  <2>1. DOMAIN <<x>> = {1} /\ <<x>>[1] = x /\ <<x>> \in Seq(S)
    OBVIOUS
  <2> QED
    BY <2>1 DEF Once, ToSet
<1>2. Append(s, x) = s \o <<x>>
  <2>1. /\ Append(s, x) \in Seq(S) /\ Len(Append(s, x)) = Len(s) + 1
        /\ \A i \in 1..Len(s) : Append(s, x)[i] = s[i]
        /\ Append(s, x)[Len(s) + 1] = x
    BY AppendProperties
  <2>2. /\ s \o <<x>> \in Seq(S) /\ Len(s \o <<x>>) = Len(s) + 1
        /\ \A i \in 1..Len(s) : (s \o <<x>>)[i] = s[i]
        /\ (s \o <<x>>)[Len(s) + 1] = x
    <3>1. Len(<<x>>) = 1 /\ <<x>>[1] = x /\ Len(s) \in Nat /\ (Len(s) + 1) - Len(s) = 1
      BY LenProperties
    <3>2. /\ s \o <<x>> \in Seq(S) /\ Len(s \o <<x>>) = Len(s) + 1
          /\ \A i \in 1..Len(s) + 1 :
                (s \o <<x>>)[i] = IF i <= Len(s) THEN s[i] ELSE <<x>>[i - Len(s)]
      BY <1>1, <3>1, ConcatProperties
    <3>3. \A i \in 1..Len(s) : i \in 1..Len(s) + 1 /\ i <= Len(s)
      BY <3>1
    <3>4. Len(s) + 1 \in 1..Len(s) + 1 /\ ~ (Len(s) + 1 <= Len(s))
      BY <3>1
    <3> QED
      BY <3>1, <3>2, <3>3, <3>4
  <2> DEFINE p == Append(s, x)
             q == s \o <<x>>
  <2>3. /\ p \in Seq(S) /\ q \in Seq(S) /\ Len(p) = Len(q)
    BY <2>1, <2>2
  <2>4. \A i \in 1..Len(p) : p[i] = q[i]
    <3>1. Len(s) \in Nat /\ Len(p) = Len(s) + 1
      BY <2>1, LenProperties
    <3>2. \A i \in 1..Len(p) : i \in 1..Len(s) \/ i = Len(s) + 1
      BY <3>1
    <3> HIDE DEF p, q
    <3> QED
      BY <2>1, <2>2, <3>2 DEF p, q
  <2> HIDE DEF p, q
  <2>5. p = q
    BY <2>3, <2>4, SeqEqual
  <2> QED
    BY <2>5 DEF p, q
<1>3. ToSet(s) \cap ToSet(<<x>>) = {}
  BY <1>1
<1> DEFINE one == <<x>>
<1>4. one \in Seq(S) /\ Once(one) /\ ToSet(one) = {x} /\ ToSet(s) \cap ToSet(one) = {}
      /\ Append(s, x) = s \o one
  BY <1>1, <1>2, <1>3
<1> HIDE DEF one
<1>5. s \o one \in Seq(S) /\ Once(s \o one) /\ ToSet(s \o one) = ToSet(s) \cup ToSet(one)
  BY <1>4, OnceJoined
<1> QED
  BY <1>4, <1>5

\* The last item goes over to the head of the others.
LEMMA PartedStill ==
    ASSUME NEW S, NEW s \in Seq(S), NEW t \in Seq(S), Parted(s, t, S), s # <<>>
    PROVE  Parted(Front(s), <<Last(s)>> \o t, S)
<1> DEFINE x == Last(s)
           f == Front(s)
<1>0. \A m \in Nat : m > 0 =>
         /\ m \in 1..m /\ \A i \in 1..m : i = m \/ i \in 1..m - 1
         /\ \A i \in 1..m - 1 : i \in 1..m /\ i # m
         /\ (IF 1 <= m - 1 THEN (m - 1) - 1 + 1 ELSE 0) = m - 1
  OBVIOUS
<1>1. /\ Len(s) \in Nat /\ Len(s) > 0
      /\ DOMAIN s = 1..Len(s) /\ \A i \in 1..Len(s) : s[i] \in S
  BY LenProperties, EmptySeq
<1>2. x = s[Len(s)] /\ x \in S
  BY <1>1 DEF Last
<1>3. f \in Seq(S) /\ Len(f) = Len(s) - 1 /\ \A i \in 1..Len(f) : f[i] = s[i]
  <2>1. \A i \in 1..Len(s) - 1 : s[i] \in S
    BY <1>1
  <2>2. f = SubSeq(s, 1, Len(s) - 1)
    BY DEF Front
  <2> HIDE DEF f
  <2>3. /\ f \in Seq(S) /\ Len(f) = IF 1 <= Len(s) - 1 THEN (Len(s) - 1) - 1 + 1 ELSE 0
        /\ \A i \in 1..(Len(s) - 1) - 1 + 1 : f[i] = s[1 + i - 1]
    BY <1>1, <2>1, <2>2, SubSeqProperties
  <2>4. Len(f) = Len(s) - 1
    BY <1>0, <1>1, <2>3, Zenon
  <2>5. \A i \in 1..Len(f) : f[i] = s[i]
    <3> TAKE i \in 1..Len(f)
    <3>1. i \in 1..(Len(s) - 1) - 1 + 1 /\ 1 + i - 1 = i
      BY <1>1, <2>4
    <3> QED
      BY <2>3, <3>1
  <2> QED
    BY <2>3, <2>4, <2>5
<1>4. DOMAIN f = 1..Len(s) - 1
  BY <1>3, LenProperties
<1>9. Once(s) /\ Once(t) /\ ToSet(s) \cap ToSet(t) = {} /\ ToSet(s) \cup ToSet(t) = S
  BY DEF Parted
<1> HIDE DEF x, f
<1>5. Once(f) /\ x \notin ToSet(f) /\ ToSet(s) = ToSet(f) \cup {x}
  <2>0. \A i \in 1..Len(s) - 1 : i \in 1..Len(s) /\ i # Len(s) /\ f[i] = s[i]
    BY <1>0, <1>1, <1>3, Zenon
  <2>a. Len(s) \in 1..Len(s) /\ \A i \in 1..Len(s) : i = Len(s) \/ i \in 1..Len(s) - 1
    BY <1>0, <1>1, Zenon
  <2>1. \A i, j \in 1..Len(s) : s[i] = s[j] => i = j
    BY <1>1, <1>9 DEF Once
  <2>2. Once(f)
    BY <1>4, <2>0, <2>1 DEF Once
  <2>3. x \notin ToSet(f)
    BY <1>2, <1>4, <2>0, <2>1, <2>a DEF ToSet
  <2>4. ToSet(s) = {s[i] : i \in 1..Len(s)} /\ ToSet(f) = {f[i] : i \in 1..Len(s) - 1}
    BY <1>1, <1>4 DEF ToSet
  <2>5. ToSet(s) = ToSet(f) \cup {x}
    BY <1>2, <2>0, <2>4, <2>a
  <2> QED
    BY <2>2, <2>3, <2>5
<1>6. <<x>> \in Seq(S) /\ Once(<<x>>) /\ ToSet(<<x>>) = {x}
  <2>1. DOMAIN <<x>> = {1} /\ <<x>>[1] = x /\ <<x>> \in Seq(S)
    BY <1>2
  <2> QED
    BY <2>1 DEF Once, ToSet
<1>7. ToSet(<<x>>) \cap ToSet(t) = {}
  BY <1>5, <1>6, <1>9
<1>8. /\ <<x>> \o t \in Seq(S) /\ Once(<<x>> \o t)
      /\ ToSet(<<x>> \o t) = ToSet(<<x>>) \cup ToSet(t)
  <2> DEFINE one == <<x>>
  <2>1. one \in Seq(S) /\ Once(one) /\ ToSet(one) \cap ToSet(t) = {}
    BY <1>6, <1>7
  <2> HIDE DEF one
  <2>2. /\ one \o t \in Seq(S) /\ Once(one \o t) /\ ToSet(one \o t) = ToSet(one) \cup ToSet(t)
    BY <1>9, <2>1, OnceJoined
  <2> QED
    BY <2>2 DEF one
<1>10. ToSet(f) \cap (ToSet(<<x>>) \cup ToSet(t)) = {} /\ ToSet(f) \cup (ToSet(<<x>>) \cup ToSet(t)) = S
  BY <1>5, <1>6, <1>9
<1> QED
  BY <1>3, <1>5, <1>8, <1>10 DEF Parted, x, f

----------------------------------------------------------------------------
(* The question, and the rows that are offered.                             *)

Offerable == [kind : {"symbol", "edge"}, hit : Hits \cup {0}]
Tools == {"search", "map", "symbols", "impact", "context", "skeleton",
          "module", "dependents", "list"}

\* What is in a question.
LEMMA AskedShape ==
    ASSUME asked \in Asked
    PROVE  /\ asked.tool \in Tools
           /\ Len(asked.hits) \in Nat /\ Hits = 1..Len(asked.hits)
           /\ IsFiniteSet(Hits) /\ Cardinality(Hits) = Len(asked.hits)
           /\ \A i \in Hits : /\ asked.hits[i].file \in Nat /\ asked.hits[i].cost \in Nat
                              /\ asked.hits[i].strong \in BOOLEAN
           /\ asked.limit \in Nat \ {0} /\ asked.budget \in 1..ServerCap
           /\ asked.explicit \in BOOLEAN /\ asked.compact \in BOOLEAN
           /\ asked.refs \in BOOLEAN /\ asked.root \in Nat /\ asked.several \in BOOLEAN
           /\ Strong \subseteq Hits /\ IsFiniteSet(Strong) /\ Cardinality(Strong) \in Nat
<1> DEFINE Hit == [file : Nat, strong : BOOLEAN, cost : Nat]
<1>1. asked \in [tool : Tools, hits : Seq(Hit),
                 limit : Nat \ {0}, budget : 1..ServerCap, explicit : BOOLEAN,
                 compact : BOOLEAN, refs : BOOLEAN, root : Nat, stale : SUBSET Nat,
                 several : BOOLEAN]
  BY AnswersAssumption DEF AnswersAssumption, Tools
<1> HIDE DEF Hit
<1>2. /\ asked.tool \in Tools /\ asked.hits \in Seq(Hit)
      /\ asked.limit \in Nat \ {0} /\ asked.budget \in 1..ServerCap
      /\ asked.explicit \in BOOLEAN /\ asked.compact \in BOOLEAN
      /\ asked.refs \in BOOLEAN /\ asked.root \in Nat /\ asked.several \in BOOLEAN
  BY <1>1
<1>3. /\ Len(asked.hits) \in Nat /\ Hits = 1..Len(asked.hits)
      /\ \A i \in Hits : asked.hits[i] \in Hit
  BY <1>2, LenProperties DEF Hits
<1>4. IsFiniteSet(Hits) /\ Cardinality(Hits) = Len(asked.hits)
  BY <1>3, FS_Interval
<1>5. \A i \in Hits : /\ asked.hits[i].file \in Nat /\ asked.hits[i].cost \in Nat
                      /\ asked.hits[i].strong \in BOOLEAN
  BY <1>3 DEF Hit
<1>6. Strong \in SUBSET Hits
  BY DEF Strong
<1>7. IsFiniteSet(Strong) /\ Cardinality(Strong) \in Nat
  BY <1>4, <1>6, FS_Subset, FS_CardinalityType
<1> QED
  BY <1>2, <1>3, <1>4, <1>5, <1>6, <1>7

\* The hits of a set, each once.
LEMMA InRankOnce ==
    ASSUME asked \in Asked, NEW S \in SUBSET Hits
    PROVE  /\ InRank(S) \in Seq(Hits) /\ Once(InRank(S)) /\ ToSet(InRank(S)) = S
           /\ Len(InRank(S)) = Cardinality(S) /\ IsFiniteSet(S) /\ Cardinality(S) \in Nat
<1> DEFINE all == [i \in Hits |-> i]
<1>1. Len(asked.hits) \in Nat /\ Hits = 1..Len(asked.hits) /\ IsFiniteSet(Hits)
  BY AskedShape
<1>2. all \in Seq(Hits) /\ Len(all) = Len(asked.hits) /\ \A j \in S : all[j] = j
  BY <1>1
<1>3. S \in SUBSET (1..Len(all)) /\ InRank(S) = Picked(all, S)
  BY <1>1, <1>2 DEF InRank
<1> HIDE DEF all
<1> DEFINE p == Picked(all, S)
<1>4. /\ p \in Seq(Hits) /\ Len(p) = Cardinality(S)
      /\ \A i \in 1..Cardinality(S) : \E j \in S : Rank(S, j) = i /\ p[i] = all[j]
      /\ ToSet(p) = {all[j] : j \in S}
  BY <1>2, <1>3, PickedItems, PickedSet
<1>5. DOMAIN p = 1..Cardinality(S)
  BY <1>4, LenProperties
<1> HIDE DEF p
<1>6. \A i \in 1..Cardinality(S) : p[i] \in S /\ Rank(S, p[i]) = i
  BY <1>2, <1>4
<1>7. Once(p)
  BY <1>5, <1>6 DEF Once
<1>8. ToSet(p) = S
  BY <1>2, <1>4
<1>9. IsFiniteSet(S) /\ Cardinality(S) \in Nat
  BY <1>1, FS_Subset, FS_CardinalityType
<1> QED
  BY <1>3, <1>4, <1>7, <1>8, <1>9 DEF p

\* Rows of hits, each once.
LEMMA RowsOnce ==
    ASSUME asked \in Asked, NEW s \in Seq(Hits), Once(s)
    PROVE  /\ SymbolRows(s) \in Seq(Offerable) /\ Once(SymbolRows(s))
           /\ ToSet(SymbolRows(s)) = {SymbolRow(i) : i \in ToSet(s)}
<1> DEFINE r == SymbolRows(s)
<1>1. Len(s) \in Nat /\ DOMAIN s = 1..Len(s) /\ \A k \in 1..Len(s) : s[k] \in Hits
  BY LenProperties
<1>2. /\ r \in Seq(Offerable) /\ DOMAIN r = 1..Len(s)
      /\ \A k \in 1..Len(s) : r[k] = SymbolRow(s[k])
  <2>1. r = [k \in 1..Len(s) |-> SymbolRow(s[k])]
    BY <1>1 DEF SymbolRows
  <2>2. \A k \in 1..Len(s) : SymbolRow(s[k]) \in Offerable
    BY <1>1 DEF SymbolRow, Offerable
  <2> QED
    BY <1>1, <2>1, <2>2
<1> HIDE DEF r
<1>3. Once(r)
  <2>1. \A x, y : SymbolRow(x) = SymbolRow(y) => x = y
    BY DEF SymbolRow
  <2> QED
    BY <1>1, <1>2, <2>1 DEF Once
<1>4. ToSet(r) = {SymbolRow(i) : i \in ToSet(s)}
  <2>1. ToSet(r) = {r[k] : k \in 1..Len(s)} /\ ToSet(s) = {s[k] : k \in 1..Len(s)}
    BY <1>1, <1>2 DEF ToSet
  <2> QED
    BY <1>2, <2>1
<1> QED
  BY <1>2, <1>3, <1>4 DEF r

\* What is offered: the hits of a tool, and the root and the edges of a search of
\* the graph.
OfferedHits ==
    IF asked.tool = "symbols" THEN 1..Lesser(Len(asked.hits), asked.limit)
    ELSE IF asked.tool \in {"impact", "context"} THEN Visited
    ELSE Hits
OfferedBeside ==
    IF asked.tool \in {"impact", "context"}
    THEN {SymbolRow(0)} \cup {EdgeRow(k) : k \in Hits} ELSE {}

LEMMA MapOrderOnce ==
    ASSUME asked \in Asked
    PROVE  MapOrder \in Seq(Hits) /\ Once(MapOrder) /\ ToSet(MapOrder) = Hits
<1> DEFINE lead == 1..Lesser(Lead, Len(asked.hits))
           opened == {i \in Hits : \E j \in lead : FileOf(i) = FileOf(j)}
<1>1. lead \subseteq Hits
  BY AskedShape, AnswersAssumption DEF AnswersAssumption, Lesser
<1>2. lead \subseteq opened /\ opened \subseteq Hits
  BY <1>1
<1>3. MapOrder = InRank(lead) \o InRank(opened \ lead) \o InRank(Hits \ opened)
  BY Zenon DEF MapOrder
<1> HIDE DEF lead, opened
<1> DEFINE a1 == InRank(lead)
           a2 == InRank(opened \ lead)
           a3 == InRank(Hits \ opened)
<1>4. /\ a1 \in Seq(Hits) /\ Once(a1) /\ ToSet(a1) = lead
      /\ a2 \in Seq(Hits) /\ Once(a2) /\ ToSet(a2) = opened \ lead
      /\ a3 \in Seq(Hits) /\ Once(a3) /\ ToSet(a3) = Hits \ opened
  <2>1. lead \in SUBSET Hits /\ opened \ lead \in SUBSET Hits /\ Hits \ opened \in SUBSET Hits
    BY <1>1, <1>2
  <2> QED
    BY <2>1, InRankOnce, Zenon
<1> HIDE DEF a1, a2, a3
<1>5. a1 \o a2 \in Seq(Hits) /\ Once(a1 \o a2) /\ ToSet(a1 \o a2) = opened
  <2>1. ToSet(a1) \cap ToSet(a2) = {} /\ ToSet(a1) \cup ToSet(a2) = opened
    BY <1>2, <1>4
  <2>2. /\ a1 \o a2 \in Seq(Hits) /\ Once(a1 \o a2)
        /\ ToSet(a1 \o a2) = ToSet(a1) \cup ToSet(a2)
    BY <1>4, <2>1, OnceJoined, Zenon
  <2> QED
    BY <2>1, <2>2
<1> DEFINE b1 == a1 \o a2
<1>6. b1 \in Seq(Hits) /\ Once(b1) /\ ToSet(b1) = opened
  BY <1>5
<1> HIDE DEF b1
<1>7. b1 \o a3 \in Seq(Hits) /\ Once(b1 \o a3) /\ ToSet(b1 \o a3) = Hits
  <2>1. ToSet(b1) \cap ToSet(a3) = {} /\ ToSet(b1) \cup ToSet(a3) = Hits
    BY <1>2, <1>4, <1>6
  <2>2. /\ b1 \o a3 \in Seq(Hits) /\ Once(b1 \o a3)
        /\ ToSet(b1 \o a3) = ToSet(b1) \cup ToSet(a3)
    <3>1. /\ b1 \in Seq(Hits) /\ a3 \in Seq(Hits) /\ Once(b1) /\ Once(a3)
          /\ ToSet(b1) \cap ToSet(a3) = {}
      BY <1>4, <1>6, <2>1
    <3> QED
      BY <3>1, OnceJoined
  <2> QED
    BY <2>1, <2>2
<1> QED
  BY <1>3, <1>7 DEF a1, a2, a3, b1

LEMMA SliceOnce ==
    ASSUME asked \in Asked
    PROVE  /\ Slice \in Seq(Offerable) /\ Once(Slice) /\ Visited \subseteq Hits
           /\ ToSet(Slice) = {SymbolRow(i) : i \in Visited}
                             \cup ({SymbolRow(0)} \cup {EdgeRow(k) : k \in Hits})
<1> DEFINE root == <<SymbolRow(0)>>
           besides == [k \in Hits |-> EdgeRow(k)]
           nodes == SymbolRows(InRank(Visited))
<1>1. /\ Len(asked.hits) \in Nat /\ Hits = 1..Len(asked.hits) /\ asked.limit \in Nat /\ asked.limit > 0
  BY AskedShape
<1>2. Visited \subseteq Hits /\ 0 \notin Visited
  BY <1>1 DEF Visited, Lesser
<1>3. root \in Seq(Offerable) /\ Once(root) /\ ToSet(root) = {SymbolRow(0)}
  <2>1. SymbolRow(0) \in Offerable
    BY DEF SymbolRow, Offerable
  <2>2. root \in Seq(Offerable) /\ DOMAIN root = {1} /\ root[1] = SymbolRow(0)
    BY <2>1
  <2> QED
    BY <2>2 DEF Once, ToSet
<1>4. besides \in Seq(Offerable) /\ Once(besides) /\ ToSet(besides) = {EdgeRow(k) : k \in Hits}
  <2>1. \A k \in Hits : EdgeRow(k) \in Offerable
    BY DEF EdgeRow, Offerable
  <2>2. besides \in Seq(Offerable) /\ DOMAIN besides = Hits
    BY <1>1, <2>1
  <2>3. \A i, j : EdgeRow(i) = EdgeRow(j) => i = j
    BY DEF EdgeRow
  <2> QED
    BY <2>2, <2>3 DEF Once, ToSet
<1>5. nodes \in Seq(Offerable) /\ Once(nodes) /\ ToSet(nodes) = {SymbolRow(i) : i \in Visited}
  <2>1. InRank(Visited) \in Seq(Hits) /\ Once(InRank(Visited)) /\ ToSet(InRank(Visited)) = Visited
    BY <1>2, InRankOnce, Zenon
  <2> QED
    BY <2>1, RowsOnce
<1>6. /\ ToSet(root) \cap ToSet(besides) = {}
      /\ (ToSet(root) \cup ToSet(besides)) \cap ToSet(nodes) = {}
  <2>1. \A i, k : SymbolRow(i) # EdgeRow(k)
    BY DEF SymbolRow, EdgeRow
  <2>2. \A i \in Visited : SymbolRow(i) # SymbolRow(0)
    BY <1>2 DEF SymbolRow
  <2> QED
    BY <1>3, <1>4, <1>5, <2>1, <2>2
<1>7. Slice = root \o besides \o nodes
  BY Zenon DEF Slice
<1> HIDE DEF root, besides, nodes
<1> DEFINE b1 == root \o besides
<1>8. b1 \in Seq(Offerable) /\ Once(b1) /\ ToSet(b1) = ToSet(root) \cup ToSet(besides)
  BY <1>3, <1>4, <1>6, OnceJoined
<1> HIDE DEF b1
<1>9. b1 \o nodes \in Seq(Offerable) /\ Once(b1 \o nodes)
      /\ ToSet(b1 \o nodes) = ToSet(b1) \cup ToSet(nodes)
  BY <1>5, <1>6, <1>8, OnceJoined
<1>10. ToSet(b1 \o nodes) = {SymbolRow(i) : i \in Visited}
                            \cup ({SymbolRow(0)} \cup {EdgeRow(k) : k \in Hits})
  BY <1>3, <1>4, <1>5, <1>8, <1>9
<1> QED
  BY <1>2, <1>7, <1>9, <1>10 DEF b1

\* Every row is offered once.
LEMMA EntriesOnce ==
    ASSUME asked \in Asked
    PROVE  /\ Entries \in Seq(Offerable) /\ Once(Entries) /\ OfferedHits \subseteq Hits
           /\ ToSet(Entries) = {SymbolRow(i) : i \in OfferedHits} \cup OfferedBeside
<1> DEFINE Is(rows, S) == /\ rows \in Seq(Offerable) /\ Once(rows)
                          /\ ToSet(rows) = {SymbolRow(i) : i \in S}
           first == 1..Lesser(Len(asked.hits), asked.limit)
<1>1. asked.tool \in Tools /\ Hits \subseteq Hits /\ first \subseteq Hits
  BY AskedShape DEF Lesser
<1>2. \A S \in SUBSET Hits : Is(SymbolRows(InRank(S)), S)
  <2> TAKE S \in SUBSET Hits
  <2>1. InRank(S) \in Seq(Hits) /\ Once(InRank(S)) /\ ToSet(InRank(S)) = S
    BY InRankOnce
  <2> QED
    BY <2>1, RowsOnce
<1>3. Is(SymbolRows(MapOrder), Hits)
  BY MapOrderOnce, RowsOnce
<1> DEFINE ranked == SymbolRows(InRank(Hits))
           mapped == SymbolRows(MapOrder)
           cut == SymbolRows(InRank(first))
<1>4. Is(ranked, Hits) /\ Is(mapped, Hits) /\ Is(cut, first)
  BY <1>1, <1>2, <1>3, Zenon
<1>5. /\ Entries = CASE asked.tool = "map" ->
                          SymbolRows(IF asked.compact THEN MapOrder ELSE InRank(Hits))
                     [] asked.tool = "symbols" -> cut
                     [] asked.tool \in {"impact", "context"} -> Slice
                     [] OTHER -> ranked
  BY Zenon DEF Entries
<1>6. /\ asked.tool = "map" => Entries = mapped \/ Entries = ranked
      /\ asked.tool = "symbols" => Entries = cut
      /\ asked.tool \in {"impact", "context"} => Entries = Slice
      /\ asked.tool \in Tools \ {"map", "symbols", "impact", "context"} => Entries = ranked
  <2>1. CASE asked.tool = "map"
    <3>1. Entries = SymbolRows(IF asked.compact THEN MapOrder ELSE InRank(Hits))
      BY <1>5, <2>1
    <3>2. CASE asked.compact
      BY <2>1, <3>1, <3>2
    <3>3. CASE ~asked.compact
      BY <2>1, <3>1, <3>3
    <3> QED
      BY <3>2, <3>3
  <2> HIDE DEF ranked, mapped, cut
  <2>2. CASE asked.tool = "symbols"
    BY <1>5, <2>2
  <2>3. CASE asked.tool \in {"impact", "context"}
    BY <1>5, <2>3
  <2>4. CASE asked.tool \in Tools \ {"map", "symbols", "impact", "context"}
    BY <1>5, <2>4
  <2> QED
    BY <1>1, <2>1, <2>2, <2>3, <2>4
<1> HIDE DEF ranked, mapped, cut
<1>7. OfferedHits \subseteq Hits
  BY <1>1, SliceOnce DEF OfferedHits
<1>8. CASE asked.tool \in {"impact", "context"}
  BY <1>6, <1>7, <1>8, SliceOnce DEF OfferedHits, OfferedBeside
<1>9. CASE asked.tool \notin {"impact", "context"}
  <2>1. Is(Entries, OfferedHits)
    <3>1. CASE asked.tool = "symbols"
      BY <1>4, <1>6, <3>1 DEF OfferedHits
    <3>2. CASE asked.tool # "symbols"
      BY <1>1, <1>4, <1>6, <1>9, <3>2 DEF OfferedHits, Tools
    <3> QED
      BY <3>1, <3>2
  <2>2. OfferedBeside = {}
    BY <1>9 DEF OfferedBeside
  <2> QED
    BY <1>7, <2>1, <2>2
<1> QED
  BY <1>8, <1>9

----------------------------------------------------------------------------
(* Packing, selection and sizes.                                            *)

LEMMA RowBytesTyped ==
    ASSUME asked \in Asked, NEW row \in Offerable
    PROVE  RowBytes(row) \in Nat /\ TokensOf(RowBytes(row)) \in Nat
<1>1. row.hit \in Hits \cup {0}
  BY DEF Offerable
<1>2. /\ asked.root \in Nat /\ EdgeBytes \in Nat /\ StaleBytes \in Nat
      /\ \A i \in Hits : asked.hits[i].cost \in Nat
  BY AskedShape, AnswersAssumption DEF AnswersAssumption
<1>3. RowBytes(row) \in Nat
  <2>1. CASE row.kind = "edge" \/ row.hit = 0
    BY <1>2, <2>1 DEF RowBytes
  <2>2. CASE ~ (row.kind = "edge") /\ row.hit # 0
    <3>1. row.hit \in Hits
      BY <1>1, <2>2
    <3>2. RowBytes(row) = StaleBytes \/ RowBytes(row) = asked.hits[row.hit].cost
      BY <2>2 DEF RowBytes
    <3> QED
      BY <1>2, <3>1, <3>2
  <2> QED
    BY <2>1, <2>2
<1> QED
  BY <1>3 DEF TokensOf

Packing == [in : Seq(Offerable), out : Seq(Offerable), used : Int]
EmptyPacking == [in |-> <<>>, out |-> <<>>, used |-> 0]

\* A row that was not there yet goes to one of the two.
LEMMA RowPacked ==
    ASSUME asked \in Asked, NEW was \in Packing, NEW row \in Offerable
    PROVE  /\ PackRow(was, row) \in Packing
           /\ \A S \in SUBSET Offerable : Parted(was.in, was.out, S) /\ row \notin S =>
                 Parted(PackRow(was, row).in, PackRow(was, row).out, S \cup {row})
<1> DEFINE used == was.used + TokensOf(RowBytes(row))
           after == PackRow(was, row)
<1>1. /\ was.in \in Seq(Offerable) /\ was.out \in Seq(Offerable) /\ was.used \in Int
      /\ used \in Int
  BY RowBytesTyped DEF Packing
<1>2. \/ after = [was EXCEPT !.in = Append(@, row), !.used = used]
      \/ after = [was EXCEPT !.out = Append(@, row)]
  BY DEF PackRow
<1>3. /\ after \in Packing
      /\ \/ after.in = Append(was.in, row) /\ after.out = was.out
         \/ after.in = was.in /\ after.out = Append(was.out, row)
  <2>1. Append(was.in, row) \in Seq(Offerable) /\ Append(was.out, row) \in Seq(Offerable)
    BY <1>1, AppendProperties
  <2> HIDE DEF used, after
  <2>2. CASE after = [was EXCEPT !.in = Append(@, row), !.used = used]
    BY <1>1, <2>1, <2>2 DEF Packing
  <2>3. CASE after = [was EXCEPT !.out = Append(@, row)]
    BY <1>1, <2>1, <2>3 DEF Packing
  <2> QED
    BY <1>2, <2>2, <2>3
<1> HIDE DEF used, after
<1>4. ASSUME NEW S \in SUBSET Offerable, Parted(was.in, was.out, S), row \notin S
      PROVE  Parted(after.in, after.out, S \cup {row})
  <2> DEFINE T == S \cup {row}
             packed == was.in
             passed == was.out
  <2>1. /\ packed \in Seq(S) /\ passed \in Seq(S) /\ Once(packed) /\ Once(passed)
        /\ ToSet(packed) \cap ToSet(passed) = {} /\ ToSet(packed) \cup ToSet(passed) = S
    BY <1>4 DEF Parted
  <2>2. packed \in Seq(T) /\ passed \in Seq(T)
    BY <2>1, SeqMonotonic
  <2> HIDE DEF packed, passed, T
  <2>3. row \in T /\ row \notin ToSet(packed) /\ row \notin ToSet(passed)
        /\ T = S \cup {row}
    BY <1>4, <2>1 DEF T
  <2>4. /\ Append(packed, row) \in Seq(T) /\ Once(Append(packed, row))
        /\ ToSet(Append(packed, row)) = ToSet(packed) \cup {row}
    BY <2>1, <2>2, <2>3, OnceAppended
  <2>5. /\ Append(passed, row) \in Seq(T) /\ Once(Append(passed, row))
        /\ ToSet(Append(passed, row)) = ToSet(passed) \cup {row}
    BY <2>1, <2>2, <2>3, OnceAppended
  <2>6. Parted(Append(packed, row), passed, T) /\ Parted(packed, Append(passed, row), T)
    BY <2>1, <2>2, <2>3, <2>4, <2>5 DEF Parted
  <2> QED
    BY <1>3, <2>6 DEF packed, passed, T
<1> QED
  BY <1>3, <1>4 DEF after

\* Packing parts the rows.
LEMMA PackingParts ==
    ASSUME asked \in Asked, NEW rows \in Seq(Offerable), Once(rows)
    PROVE  Parted(PackByBudget(rows).in, PackByBudget(rows).out, ToSet(rows))
<1> DEFINE m == Len(rows)
           P == SUBSET (1..m)
           start == EmptyPacking
           Op(k, was) == PackRow(was, rows[k])
           packs == [k \in 1..m |-> [was \in Packing |-> Op(k, was)]]
           Folded(g, I) == IF I = {} THEN start ELSE Op(Max(I), g[I \ {Max(I)}])
           fold == CHOOSE g : g = [I \in SUBSET DOMAIN rows |-> Folded(g, I)]
<1>0. m \in Nat /\ DOMAIN rows = 1..m /\ \A k \in 1..m : rows[k] \in Offerable
  BY LenProperties
<1>1. start \in Packing /\ \A k \in 1..m, was \in Packing : Op(k, was) \in Packing
  <2>1. start \in Packing
    BY DEF Packing, EmptyPacking
  <2>2. ASSUME NEW k \in 1..m, NEW was \in Packing PROVE Op(k, was) \in Packing
    BY <1>0, RowPacked
  <2> QED
    BY <2>1, <2>2
<1>2. PackByBudget(rows) = fold[DOMAIN rows]
  BY Zenon DEF PackByBudget, FoldLeft, MapThenFoldSet, EmptyPacking
<1> HIDE DEF fold, start
<1>3. packs \in [1..m -> [Packing -> Packing]]
      /\ \A k \in 1..m, was \in Packing : packs[k][was] = Op(k, was)
  BY <1>1
<1> HIDE DEF Op, packs, m
<1>4. PICK g \in [P -> Packing] : FoldsBy(g, m, start, packs)
  BY <1>0, <1>1, <1>3, FoldsAlong
<1>5. \A I \in P : I # {} => Max(I) \in 1..m /\ I \ {Max(I)} \in P
  BY <1>0, GreatestOf
<1>6. \A I \in P : g[I] = Folded(g, I)
  BY <1>3, <1>4, <1>5 DEF FoldsBy
<1>7. SUBSET DOMAIN rows = P
  BY <1>0
<1> HIDE DEF Folded, P
<1>8. g = [I \in SUBSET DOMAIN rows |-> Folded(g, I)]
  <2>1. g = [I \in P |-> g[I]]
    BY <1>4
  <2> QED
    BY <1>6, <1>7, <2>1
<1>9. fold = [I \in SUBSET DOMAIN rows |-> Folded(fold, I)]
  BY <1>8, Zenon DEF fold
<1>10. \A I \in P : fold[I] = Folded(fold, I)
  BY <1>7, <1>9
<1>11. fold[{}] = start
  BY <1>10 DEF Folded, P
<1>12. \A I \in SUBSET (1..m) : I # {} /\ fold[I \ {Max(I)}] \in Packing =>
          fold[I] = packs[Max(I)][fold[I \ {Max(I)}]]
  BY <1>3, <1>5, <1>10 DEF Folded, P
<1>13. PICK h : ReadsFold(h, fold, m, Packing, start, packs)
  <2>1. FoldsIn(fold, m, Packing, start, packs)
    BY <1>11, <1>12 DEF FoldsIn
  <2> QED
    BY <1>0, <1>1, <1>3, <2>1, FoldReads
<1>14. /\ h[0] = start /\ PackByBudget(rows) = h[m]
       /\ \A k \in 0..m : h[k] \in Packing
       /\ \A k \in 1..m : k - 1 \in 0..m /\ h[k] = PackRow(h[k - 1], rows[k])
  <2>1. \A k \in 1..m : k - 1 \in 0..m
    BY <1>0
  <2>2. \A k \in 1..m : h[k] = Op(k, h[k - 1])
    BY <1>3, <1>13, <2>1 DEF ReadsFold
  <2> QED
    BY <1>0, <1>2, <1>13, <2>1, <2>2 DEF ReadsFold, Op
\* After k rows, these are parted.
<1> DEFINE FirstRows(k) == {rows[j] : j \in 1..k}
           Good == {k \in 0..m : Parted(h[k].in, h[k].out, FirstRows(k))}
<1>15. 0 \in Good
  <2>1. FirstRows(0) = {} /\ h[0].in = <<>> /\ h[0].out = <<>> /\ 0 \in 0..m
    BY <1>0, <1>14 DEF start, EmptyPacking
  <2>2. <<>> \in Seq({}) /\ Once(<<>>) /\ ToSet(<<>>) = {}
    BY DEF Once, ToSet
  <2>3. Parted(<<>>, <<>>, {})
    BY <2>2 DEF Parted
  <2> HIDE DEF FirstRows
  <2> QED
    BY <2>1, <2>3
<1>16. ASSUME NEW k \in 1..m, k - 1 \in Good PROVE k \in Good
  <2>1. FirstRows(k) = FirstRows(k - 1) \cup {rows[k]} /\ FirstRows(k - 1) \in SUBSET Offerable
        /\ rows[k] \notin FirstRows(k - 1) /\ k \in 0..m
    <3>1. \A j \in 1..k : j = k \/ j \in 1..k - 1
      BY <1>0
    <3>2. \A j \in 1..k - 1 : j \in 1..k /\ j \in 1..m /\ j # k
      BY <1>0
    <3>3. k \in 1..k /\ k \in 0..m
      BY <1>0
    <3>4. \A j \in 1..k - 1 : rows[j] # rows[k]
      BY <1>0, <3>2 DEF Once
    <3> QED
      BY <1>0, <3>1, <3>2, <3>3, <3>4
  <2>2. Parted(h[k - 1].in, h[k - 1].out, FirstRows(k - 1))
    BY <1>16
  <2>3. h[k - 1] \in Packing /\ rows[k] \in Offerable /\ h[k] = PackRow(h[k - 1], rows[k])
    BY <1>0, <1>14
  <2> HIDE DEF FirstRows
  <2>4. Parted(h[k].in, h[k].out, FirstRows(k - 1) \cup {rows[k]})
    BY <2>1, <2>2, <2>3, RowPacked
  <2> QED
    BY <2>1, <2>4
<1>17. \A k \in 0..m : k \in Good
  <2> HIDE DEF Good
  <2> QED
    BY <1>0, <1>15, <1>16, ReachesAll
<1>18. Parted(h[m].in, h[m].out, FirstRows(m)) /\ FirstRows(m) = ToSet(rows)
  <2>1. m \in 0..m
    BY <1>0
  <2>2. FirstRows(m) = ToSet(rows)
    BY <1>0 DEF ToSet
  <2> HIDE DEF FirstRows
  <2> QED
    BY <1>17, <2>1, <2>2
<1> QED
  BY <1>14, <1>18

\* What a search selects are matches, at most as many as it was asked for.
LEMMA SelectedFew ==
    ASSUME asked \in Asked, NEW S \in SUBSET Hits
    PROVE  /\ Selected(S) \subseteq S /\ IsFiniteSet(Selected(S))
           /\ Cardinality(Selected(S)) \in Nat /\ Cardinality(Selected(S)) <= asked.limit
<1> DEFINE ranked == InRank(S)
           m == Len(ranked)
           V == SUBSET S
           P == SUBSET (1..m)
           Op(k, had) == SelectHit(had, ranked[k])
           picks == [k \in 1..m |-> [had \in V |-> Op(k, had)]]
           Folded(g, I) == IF I = {} THEN {} ELSE Op(Max(I), g[I \ {Max(I)}])
           fold == CHOOSE g : g = [I \in SUBSET DOMAIN ranked |-> Folded(g, I)]
<1>0. m \in Nat /\ DOMAIN ranked = 1..m /\ \A k \in 1..m : ranked[k] \in S
  <2>1. ranked \in Seq(Hits) /\ ToSet(ranked) = S
    BY InRankOnce
  <2> HIDE DEF ranked
  <2> QED
    BY <2>1, LenProperties DEF ToSet
<1>1. {} \in V /\ \A k \in 1..m, had \in V : Op(k, had) \in V
  <2> HIDE DEF ranked, m
  <2> QED
    BY <1>0 DEF SelectHit
<1>2. Selected(S) = fold[DOMAIN ranked]
  BY Zenon DEF Selected, FoldLeft, MapThenFoldSet
<1> HIDE DEF fold, ranked
<1>3. picks \in [1..m -> [V -> V]]
      /\ \A k \in 1..m, had \in V : picks[k][had] = Op(k, had)
  BY <1>1
<1> HIDE DEF Op, picks, m, V
<1>4. PICK g \in [P -> V] : FoldsBy(g, m, {}, picks)
  BY <1>0, <1>1, <1>3, FoldsAlong
<1>5. \A I \in P : I # {} => Max(I) \in 1..m /\ I \ {Max(I)} \in P
  BY <1>0, GreatestOf
<1>6. \A I \in P : g[I] = Folded(g, I)
  BY <1>3, <1>4, <1>5 DEF FoldsBy
<1>7. SUBSET DOMAIN ranked = P
  BY <1>0
<1> HIDE DEF Folded, P
<1>8. g = [I \in SUBSET DOMAIN ranked |-> Folded(g, I)]
  <2>1. g = [I \in P |-> g[I]]
    BY <1>4
  <2> QED
    BY <1>6, <1>7, <2>1
<1>9. fold = [I \in SUBSET DOMAIN ranked |-> Folded(fold, I)]
  BY <1>8, Zenon DEF fold
<1>10. \A I \in P : fold[I] = Folded(fold, I)
  BY <1>7, <1>9
<1>11. fold[{}] = {}
  BY <1>10 DEF Folded, P
<1>12. \A I \in SUBSET (1..m) : I # {} /\ fold[I \ {Max(I)}] \in V =>
          fold[I] = picks[Max(I)][fold[I \ {Max(I)}]]
  BY <1>3, <1>5, <1>10 DEF Folded, P
<1>13. PICK h : ReadsFold(h, fold, m, V, {}, picks)
  <2>1. FoldsIn(fold, m, V, {}, picks)
    BY <1>11, <1>12 DEF FoldsIn
  <2> QED
    BY <1>0, <1>1, <1>3, <2>1, FoldReads
<1>14. /\ h[0] = {} /\ Selected(S) = h[m]
       /\ \A k \in 0..m : h[k] \in SUBSET S
       /\ \A k \in 1..m : k - 1 \in 0..m /\ h[k] = SelectHit(h[k - 1], ranked[k])
  <2>1. \A k \in 1..m : k - 1 \in 0..m
    BY <1>0
  <2>2. \A k \in 1..m : h[k] = Op(k, h[k - 1])
    BY <1>3, <1>13, <2>1 DEF ReadsFold
  <2> QED
    BY <1>0, <1>2, <1>13, <2>1, <2>2 DEF ReadsFold, Op, V
<1>15. /\ IsFiniteSet(S) /\ asked.limit \in Nat
       /\ \A T \in SUBSET S : IsFiniteSet(T) /\ Cardinality(T) \in Nat
  <2>1. IsFiniteSet(S) /\ asked.limit \in Nat
    BY InRankOnce, AskedShape
  <2>2. ASSUME NEW T \in SUBSET S PROVE IsFiniteSet(T) /\ Cardinality(T) \in Nat
    BY <2>1, FS_Subset, FS_CardinalityType
  <2> QED
    BY <2>1, <2>2
<1> DEFINE Good == {k \in 0..m : Cardinality(h[k]) <= asked.limit}
<1>16. 0 \in Good
  <2>1. Cardinality(h[0]) = 0 /\ 0 \in 0..m
    BY <1>0, <1>14, FS_EmptySet
  <2> QED
    BY <1>15, <2>1
<1>17. ASSUME NEW k \in 1..m, k - 1 \in Good PROVE k \in Good
  <2> DEFINE had == h[k - 1]
  <2>1. had \in SUBSET S /\ h[k] = SelectHit(had, ranked[k]) /\ k \in 0..m
        /\ Cardinality(had) <= asked.limit /\ IsFiniteSet(had) /\ Cardinality(had) \in Nat
    BY <1>0, <1>14, <1>15, <1>17
  <2> HIDE DEF had
  <2>2. CASE h[k] = had
    BY <2>1, <2>2
  <2>3. CASE h[k] # had
    <3>1. h[k] = had \cup {ranked[k]} /\ Cardinality(had) # asked.limit
      BY <2>1, <2>3 DEF SelectHit
    <3>2. \/ Cardinality(had \cup {ranked[k]}) = Cardinality(had)
          \/ Cardinality(had \cup {ranked[k]}) = Cardinality(had) + 1
      BY <2>1, FS_AddElement
    <3>3. Cardinality(h[k]) <= asked.limit
      BY <1>15, <2>1, <3>1, <3>2
    <3> QED
      BY <2>1, <3>3
  <2> QED
    BY <2>2, <2>3
<1>18. \A k \in 0..m : k \in Good
  <2> HIDE DEF Good
  <2> QED
    BY <1>0, <1>16, <1>17, ReachesAll
<1>19. m \in 0..m
  BY <1>0
<1> QED
  BY <1>14, <1>15, <1>18, <1>19

\* What a function makes of finitely many.
LEMMA ImageFinite ==
    ASSUME NEW S, IsFiniteSet(S), NEW f, DOMAIN f = S
    PROVE  IsFiniteSet({f[x] : x \in S}) /\ Cardinality({f[x] : x \in S}) \in Nat
<1> DEFINE g == [x \in S |-> f[x]]
           T == {f[x] : x \in S}
<1>1. g \in Surjection(S, T)
  BY DEF Surjection
<1>2. IsFiniteSet(T)
  BY <1>1, FS_Surjection
<1> QED
  BY <1>2, FS_CardinalityType

\* The sizes of a response: only how it writes its own estimate depends on that.
LEMMA ResponseSized ==
    ASSUME asked \in Asked, counted \in SUBSET Hits,
           chosen \in Seq(Offerable), leftOut \in Seq(Offerable),
           asked.tool = "symbols" => Len(chosen) <= Len(asked.hits)
    PROVE  /\ OmittedCount \in Nat
           /\ \E base \in Nat : \A e \in Nat : ResponseOf(e) = base + DigitsOf(e)
<1>1. /\ Len(asked.hits) \in Nat /\ IsFiniteSet(Hits) /\ asked.tool \in Tools
      /\ Len(chosen) \in Nat /\ Len(leftOut) \in Nat
      /\ DOMAIN chosen = 1..Len(chosen) /\ DOMAIN leftOut = 1..Len(leftOut)
      /\ \A k \in 1..Len(chosen) : chosen[k] \in Offerable
  BY AskedShape, LenProperties
<1>2. /\ Around \in Nat /\ DigestBytes \in Nat /\ RefBytes \in Nat /\ NoticeBytes \in Nat
  BY AnswersAssumption DEF AnswersAssumption
<1>3. /\ Cardinality(counted) \in Nat /\ Cardinality(Selected(counted)) \in Nat
      /\ Cardinality(Selected(counted)) <= Cardinality(counted)
  <2>1. IsFiniteSet(counted)
    BY <1>1, FS_Subset
  <2>2. Selected(counted) \in SUBSET counted /\ Cardinality(Selected(counted)) \in Nat
    BY SelectedFew
  <2> QED
    BY <2>1, <2>2, FS_Subset, FS_CardinalityType
<1>4. SymbolsAmong(leftOut) \in Nat
  <2>1. {k \in DOMAIN leftOut : leftOut[k].kind = "symbol"} \in SUBSET (1..Len(leftOut))
    BY <1>1
  <2>2. IsFiniteSet(1..Len(leftOut))
    BY <1>1, FS_Interval
  <2> QED
    BY <2>1, <2>2, FS_Subset, FS_CardinalityType DEF SymbolsAmong
<1>5. OmittedCount \in Nat
  <2>1. CASE asked.tool = "search"
    <3>1. OmittedCount = 2 * (Cardinality(counted) - Cardinality(Selected(counted))) + Len(leftOut)
      BY <2>1 DEF OmittedCount
    <3> QED
      BY <1>1, <1>3, <3>1
  <2>2. CASE asked.tool = "symbols"
    BY <1>1, <2>2 DEF OmittedCount
  <2>3. CASE asked.tool = "list"
    BY <2>3 DEF OmittedCount
  <2>4. CASE asked.tool \notin {"search", "symbols", "list"}
    <3>1. OmittedCount = SymbolsAmong(leftOut)
      BY <2>4 DEF OmittedCount
    <3> QED
      BY <1>4, <3>1
  <2> QED
    BY <2>1, <2>2, <2>3, <2>4
<1>6. Bytes(chosen) \in Nat
  <2>1. \A k \in 1..Len(chosen) : RowBytes(chosen[k]) \in Nat
    BY <1>1, RowBytesTyped
  <2>2. [k \in DOMAIN chosen |-> RowBytes(chosen[k])] \in Seq(Nat)
    BY <1>1, <2>1
  <2> QED
    BY <2>2, TotalOfCosts DEF Bytes
<1> DEFINE files == {FileOf(chosen[k].hit) : k \in DOMAIN chosen}
           digests == DigestBytes * Cardinality(files)
           refs == RefBytes * Lesser(10, SymbolsAmong(leftOut))
<1>7. digests \in Nat /\ refs \in Nat
  <2> DEFINE f == [k \in 1..Len(chosen) |-> FileOf(chosen[k].hit)]
  <2>1. files = {f[k] : k \in 1..Len(chosen)} /\ DOMAIN f = 1..Len(chosen)
    BY <1>1
  <2>2. IsFiniteSet(1..Len(chosen))
    BY <1>1, FS_Interval
  <2> HIDE DEF f, files
  <2>3. Cardinality(files) \in Nat
    BY <2>1, <2>2, ImageFinite
  <2>4. Lesser(10, SymbolsAmong(leftOut)) \in Nat
    BY <1>4 DEF Lesser
  <2>5. \A x, y \in Nat : x * y \in Nat
    OBVIOUS
  <2> QED
    BY <1>2, <2>3, <2>4, <2>5
<1>8. DigitsOf(OmittedCount) \in Nat
  BY DEF DigitsOf
<1> DEFINE base == Around + Bytes(chosen) + DigitsOf(OmittedCount)
                   + (IF asked.tool = "map" /\ asked.compact THEN digests ELSE 0)
                   + (IF asked.refs THEN refs ELSE 0)
                   + (IF asked.tool = "symbols" /\ leftOut # <<>> THEN NoticeBytes ELSE 0)
<1>9. \A e \in Nat :
         ResponseOf(e) = Around + Bytes(chosen) + DigitsOf(e) + DigitsOf(OmittedCount)
                   + (IF asked.tool = "map" /\ asked.compact THEN digests ELSE 0)
                   + (IF asked.refs THEN refs ELSE 0)
                   + (IF asked.tool = "symbols" /\ leftOut # <<>> THEN NoticeBytes ELSE 0)
  BY DEF ResponseOf
<1>10. \A e \in Nat : DigitsOf(e) \in Nat
  BY DEF DigitsOf
<1> DEFINE counts == IF asked.tool = "map" /\ asked.compact THEN digests ELSE 0
           left == IF asked.refs THEN refs ELSE 0
           notice == IF asked.tool = "symbols" /\ leftOut # <<>> THEN NoticeBytes ELSE 0
<1> HIDE DEF files, digests, refs
<1>b. counts \in Nat /\ left \in Nat /\ notice \in Nat
  BY <1>2, <1>7
<1> HIDE DEF counts, left, notice
<1>d. \A e \in Nat :
         ResponseOf(e) = Around + Bytes(chosen) + DigitsOf(e) + DigitsOf(OmittedCount)
                         + counts + left + notice
  BY <1>9, Zenon DEF counts, left, notice
<1>c. base = Around + Bytes(chosen) + DigitsOf(OmittedCount) + counts + left + notice
  BY Zenon DEF base, counts, left, notice
<1> HIDE DEF base
<1>11. base \in Nat /\ \A e \in Nat : ResponseOf(e) = base + DigitsOf(e)
  <2> DEFINE written == DigitsOf(OmittedCount)
             rows == Bytes(chosen)
  <2>1. rows \in Nat /\ written \in Nat
    BY <1>6, <1>8
  <2>2. base = Around + rows + written + counts + left + notice
    BY <1>c
  <2>3. \A e \in Nat : ResponseOf(e) = Around + rows + DigitsOf(e) + written
                                       + counts + left + notice
    BY <1>d
  <2> HIDE DEF rows, written
  <2>4. base \in Nat
    BY <1>2, <1>b, <2>1, <2>2
  <2>5. \A v \in Nat : Around + rows + v + written + counts + left + notice = base + v
    BY <1>2, <1>b, <2>1, <2>2
  <2> QED
    BY <1>10, <2>3, <2>4, <2>5
<1> QED
  BY <1>5, <1>11

\* An estimate that counts its own digits once more stays the same: a digit more
\* comes with the next power of ten, and the bytes that it adds do not make
\* another token.
LEMMA EstimateSettles ==
    ASSUME NEW base \in Nat, NEW e1, NEW e2,
           e1 = TokensOf(base + 1), e2 = TokensOf(base + DigitsOf(e1)), e2 <= 8192
    PROVE  e2 \in Nat /\ TokensOf(base + DigitsOf(e2)) = e2
<1>1. e1 \in Nat
  BY DEF TokensOf
<1>2. DigitsOf(e1) \in 1..5
  BY DEF DigitsOf
<1>3. e2 \in Nat /\ e1 <= e2
  BY <1>2 DEF TokensOf
<1>4. CASE e1 < 10
  BY <1>1, <1>3, <1>4 DEF TokensOf, DigitsOf
<1>5. CASE 10 <= e1 /\ e1 < 100
  BY <1>1, <1>3, <1>5 DEF TokensOf, DigitsOf
<1>6. CASE 100 <= e1 /\ e1 < 1000
  BY <1>1, <1>3, <1>6 DEF TokensOf, DigitsOf
<1>7. CASE 1000 <= e1 /\ e1 < 10000
  BY <1>1, <1>3, <1>7 DEF TokensOf, DigitsOf
<1> QED
  BY <1>1, <1>3, <1>4, <1>5, <1>6, <1>7

\* The budget of the packing is within the cap of the server.
LEMMA PackingCapped ==
    ASSUME asked \in Asked
    PROVE  /\ PackingBudget \in Int /\ PackingBudget <= ServerCap
           /\ ServerCap \in Nat /\ ServerCap <= 8192
<1>1. asked.budget \in 1..ServerCap /\ ServerCap \in 1..8192 /\ KeptBack \in Nat
  BY AskedShape, AnswersAssumption DEF AnswersAssumption
<1> QED
  BY <1>1 DEF PackingBudget

\* A response that fits is as large as it says.
LEMMA SaysItsSize ==
    ASSUME asked \in Asked, counted \in SUBSET Hits,
           chosen \in Seq(Offerable), leftOut \in Seq(Offerable),
           asked.tool = "symbols" => Len(chosen) <= Len(asked.hits)
    PROVE  /\ Estimate \in Nat /\ ResponseOf(Estimate) \in Nat
           /\ Fits => /\ TokensOf(ResponseOf(Estimate)) = Estimate
                      /\ Estimate <= PackingBudget /\ Estimate <= ServerCap
<1>1. PICK base \in Nat : \A e \in Nat : ResponseOf(e) = base + DigitsOf(e)
  BY ResponseSized
<1> DEFINE e1 == TokensOf(ResponseOf(0))
           e2 == TokensOf(ResponseOf(e1))
<1>2. e1 = TokensOf(base + 1)
  <2>1. 0 \in Nat /\ DigitsOf(0) = 1
    BY DEF DigitsOf
  <2> QED
    BY <1>1, <2>1
<1>3. e1 \in Nat
  BY <1>2 DEF TokensOf
<1> HIDE DEF e1
<1>4. e2 = TokensOf(base + DigitsOf(e1))
  BY <1>1, <1>3
<1>5. \A e \in Nat : DigitsOf(e) \in Nat
  BY DEF DigitsOf
<1>6. e2 \in Nat
  <2>1. DigitsOf(e1) \in Nat
    BY <1>3, <1>5
  <2> HIDE DEF e2
  <2> QED
    BY <1>4, <2>1 DEF TokensOf
<1>7. Estimate = e2
  BY DEF Estimate, e1
<1> HIDE DEF e2
<1>8. ResponseOf(e2) = base + DigitsOf(e2) /\ ResponseOf(e2) \in Nat
  <2>1. ResponseOf(e2) = base + DigitsOf(e2) /\ DigitsOf(e2) \in Nat
    BY <1>1, <1>5, <1>6
  <2> QED
    BY <2>1
<1>9. ASSUME Fits
      PROVE  /\ TokensOf(ResponseOf(Estimate)) = Estimate
             /\ Estimate <= PackingBudget /\ Estimate <= ServerCap
  <2>1. e2 <= PackingBudget
    BY <1>7, <1>9 DEF Fits
  <2>2. e2 <= ServerCap /\ e2 <= 8192
    <3>1. PackingBudget \in Int /\ PackingBudget <= ServerCap /\ ServerCap \in Nat
      BY PackingCapped
    <3>2. \A x, y \in Nat, p \in Int : x <= p /\ p <= y => x <= y
      OBVIOUS
    <3>3. e2 <= ServerCap
      BY <1>6, <2>1, <3>1, <3>2, Zenon
    <3>4. ServerCap <= 8192
      BY PackingCapped
    <3> QED
      BY <1>6, <3>1, <3>3, <3>4
  <2>3. TokensOf(base + DigitsOf(e2)) = e2
    BY <1>2, <1>4, <2>2, EstimateSettles
  <2> QED
    BY <1>7, <1>8, <2>1, <2>2, <2>3
<1> QED
  BY <1>6, <1>7, <1>8, <1>9

----------------------------------------------------------------------------
(* Answers: what is counted, and the invariant.                             *)

LEMMA RowsCount ==
    ASSUME NEW I, IsFiniteSet(I)
    PROVE  /\ IsFiniteSet({SymbolRow(i) : i \in I})
           /\ Cardinality({SymbolRow(i) : i \in I}) = Cardinality(I)
<1> DEFINE f == [i \in I |-> SymbolRow(i)]
           T == {SymbolRow(i) : i \in I}
<1>1. \A i, j \in I : SymbolRow(i) = SymbolRow(j) => i = j
  BY DEF SymbolRow
<1>2. f \in Injection(I, T) /\ f \in Surjection(I, T)
  BY <1>1 DEF Injection, IsInjective, Surjection
<1>3. ExistsBijection(I, T)
  BY <1>2 DEF ExistsBijection, Bijection
<1> QED
  BY <1>3, FS_Bijection

LEMMA PartedCounts ==
    ASSUME NEW S, NEW s, NEW t, Parted(s, t, S)
    PROVE  /\ Len(s) \in Nat /\ Len(t) \in Nat /\ Cardinality(ToSet(s)) = Len(s)
           /\ IsFiniteSet(S) /\ Cardinality(S) = Len(s) + Len(t)
<1>1. /\ s \in Seq(S) /\ t \in Seq(S) /\ Once(s) /\ Once(t)
      /\ ToSet(s) \cap ToSet(t) = {} /\ ToSet(s) \cup ToSet(t) = S
  BY DEF Parted
<1>2. /\ IsFiniteSet(ToSet(s)) /\ Cardinality(ToSet(s)) = Len(s) /\ Len(s) \in Nat
      /\ IsFiniteSet(ToSet(t)) /\ Cardinality(ToSet(t)) = Len(t) /\ Len(t) \in Nat
  BY <1>1, OnceCounts
<1>3. /\ IsFiniteSet(ToSet(s) \cup ToSet(t))
      /\ Cardinality(ToSet(s) \cup ToSet(t))
            = Cardinality(ToSet(s)) + Cardinality(ToSet(t)) - Cardinality(ToSet(s) \cap ToSet(t))
  BY <1>2, FS_Union
<1>4. Cardinality(ToSet(s) \cap ToSet(t)) = 0
  BY <1>1, FS_EmptySet
<1>5. \A x, y \in Nat : x + y - 0 = x + y
  OBVIOUS
<1> QED
  BY <1>1, <1>2, <1>3, <1>4, <1>5, Zenon

\* When the rows of some hits were offered, the client can add up what it has
\* got and what was left out.
LEMMA GivenCounts ==
    ASSUME NEW I, IsFiniteSet(I), Parted(chosen, leftOut, {SymbolRow(i) : i \in I})
    PROVE  /\ Given \subseteq I /\ IsFiniteSet(Given) /\ Cardinality(Given) = Len(chosen)
           /\ Len(chosen) \in Nat /\ Len(leftOut) \in Nat
           /\ Len(chosen) + Len(leftOut) = Cardinality(I)
           /\ SymbolsAmong(leftOut) = Len(leftOut)
<1> DEFINE S == {SymbolRow(i) : i \in I}
<1>1. /\ Len(chosen) \in Nat /\ Len(leftOut) \in Nat /\ Cardinality(ToSet(chosen)) = Len(chosen)
      /\ Cardinality(S) = Len(chosen) + Len(leftOut) /\ Cardinality(S) = Cardinality(I)
  BY PartedCounts, RowsCount
<1>2. /\ chosen \in Seq(S) /\ leftOut \in Seq(S)
  BY DEF Parted
<1>3. /\ DOMAIN chosen = 1..Len(chosen) /\ \A k \in 1..Len(chosen) : chosen[k] \in S
      /\ DOMAIN leftOut = 1..Len(leftOut) /\ \A k \in 1..Len(leftOut) : leftOut[k] \in S
  BY <1>2, LenProperties
<1>4. \A row \in S : row.kind = "symbol" /\ row.hit \in I /\ row = SymbolRow(row.hit)
  BY DEF SymbolRow
<1> HIDE DEF S
<1>5. Given \subseteq I /\ ToSet(chosen) = {SymbolRow(i) : i \in Given}
  <2>1. Given = {chosen[k].hit : k \in 1..Len(chosen)}
    BY <1>3, <1>4 DEF Given
  <2>2. ToSet(chosen) = {chosen[k] : k \in 1..Len(chosen)}
    BY <1>3 DEF ToSet
  <2> QED
    BY <1>3, <1>4, <2>1, <2>2
<1>6. IsFiniteSet(Given) /\ Cardinality(Given) = Len(chosen)
  <2>1. IsFiniteSet(Given)
    BY <1>5, FS_Subset
  <2> QED
    BY <1>1, <1>5, <2>1, RowsCount
<1>7. SymbolsAmong(leftOut) = Len(leftOut)
  <2>1. {k \in DOMAIN leftOut : leftOut[k].kind = "symbol"} = 1..Len(leftOut)
    BY <1>3, <1>4
  <2>2. Cardinality(1..Len(leftOut)) = Len(leftOut)
    <3>1. \A m \in Nat : Cardinality(1..m) = m
      BY FS_Interval
    <3> QED
      BY <1>1, <3>1, Zenon
  <2> QED
    BY <2>1, <2>2 DEF SymbolsAmong
<1> QED
  BY <1>1, <1>5, <1>6, <1>7

\* The rows that the packing was offered.
Offered == IF asked.tool = "search" THEN {SymbolRow(i) : i \in Selected(counted)}
           ELSE ToSet(Entries)
\* As many of the matches as the queries of a search stop at.
Stopped(S, all, count, most) == S \subseteq all /\ Cardinality(S) = Lesser(count, most)
CountedRight ==
    /\ asked.tool # "search" => counted = Hits
    /\ asked.tool = "search" =>
          \E S \in SUBSET Strong : \E T \in SUBSET Hits :
             /\ Stopped(S, Strong, Cardinality(Strong), asked.limit * AndFetch)
             /\ ~loosened => counted = S
             /\ loosened => /\ Stopped(T, Hits, Len(asked.hits), asked.limit * OrFetch)
                            /\ counted = S \cup T

Wrapping == IF asked.tool = "module" THEN Around ELSE 0
ReplyNow == [tokens |-> TokensOf(ResponseOf(Estimate) + Wrapping), said |-> Estimate,
             warned |-> Warned, truncated |-> Truncated, omitted |-> OmittedCount]

\* Strengthens TellTypeOK and AnswersHonest: what is told is what the rows of the
\* response and those left out give, and together these are what was offered.
TellInv ==
    /\ asked \in Asked /\ step \in {"find", "pack", "told", "refused"}
    /\ counted \in SUBSET Hits /\ loosened \in BOOLEAN
    /\ step = "find" => chosen = <<>> /\ leftOut = <<>>
    /\ step # "find" => CountedRight /\ Parted(chosen, leftOut, Offered)
    /\ step = "told" => Fits /\ reply = ReplyNow
    /\ step # "told" => reply = NoReply
    /\ step = "refused" => chosen = <<>> /\ ~Fits

\* The rows in an answer are rows that can be offered.
LEMMA OfferedRows ==
    ASSUME asked \in Asked, counted \in SUBSET Hits, Parted(chosen, leftOut, Offered)
    PROVE  /\ Offered \subseteq Offerable /\ chosen \in Seq(Offerable) /\ leftOut \in Seq(Offerable)
           /\ asked.tool = "symbols" => Len(chosen) <= Len(asked.hits)
           /\ asked.tool \notin {"impact", "context", "search"} =>
                 Offered = {SymbolRow(i) : i \in OfferedHits}
           /\ Selected(counted) \in SUBSET counted /\ IsFiniteSet(counted)
           /\ IsFiniteSet(Selected(counted)) /\ OfferedHits \in SUBSET Hits /\ IsFiniteSet(OfferedHits)
<1>1. /\ Len(asked.hits) \in Nat /\ IsFiniteSet(Hits) /\ Cardinality(Hits) = Len(asked.hits)
  BY AskedShape
<1>2. /\ Selected(counted) \in SUBSET counted /\ IsFiniteSet(Selected(counted))
  BY SelectedFew
<1>3. /\ Entries \in Seq(Offerable) /\ OfferedHits \in SUBSET Hits
      /\ ToSet(Entries) = {SymbolRow(i) : i \in OfferedHits} \cup OfferedBeside
  BY EntriesOnce
<1>4. IsFiniteSet(counted) /\ IsFiniteSet(OfferedHits) /\ Cardinality(OfferedHits) <= Len(asked.hits)
  BY <1>1, <1>3, FS_Subset
<1>5. Offered \subseteq Offerable
  <2>1. \A i \in Hits : SymbolRow(i) \in Offerable
    BY DEF SymbolRow, Offerable
  <2>2. ToSet(Entries) \subseteq Offerable
    BY <1>3, LenProperties DEF ToSet
  <2> QED
    BY <1>2, <2>1, <2>2 DEF Offered
<1>6. chosen \in Seq(Offerable) /\ leftOut \in Seq(Offerable)
  <2>1. chosen \in Seq(Offered) /\ leftOut \in Seq(Offered)
    BY DEF Parted
  <2> QED
    BY <1>5, <2>1, SeqMonotonic
<1>7. ASSUME asked.tool \notin {"impact", "context", "search"}
      PROVE  Offered = {SymbolRow(i) : i \in OfferedHits}
  BY <1>3, <1>7 DEF Offered, OfferedBeside
<1>8. ASSUME asked.tool = "symbols" PROVE Len(chosen) <= Len(asked.hits)
  <2>1. Parted(chosen, leftOut, {SymbolRow(i) : i \in OfferedHits})
    BY <1>7, <1>8
  <2>2. /\ Len(chosen) \in Nat /\ Len(leftOut) \in Nat
        /\ Len(chosen) + Len(leftOut) = Cardinality(OfferedHits)
    BY <1>4, <2>1, GivenCounts
  <2> QED
    BY <1>1, <1>4, <2>2
<1> QED
  BY <1>2, <1>3, <1>4, <1>5, <1>6, <1>7, <1>8

\* The same question is offered the same rows, and the same matches selected.
LEMMA SameEntries == ASSUME asked' = asked PROVE Entries' = Entries
BY SMT DEF Entries, SymbolRows, SymbolRow, MapOrder, Hits, FileOf, Slice, Visited,
           EdgeRow, InRank, Picked, Rank, Lesser

LEMMA SameSelected == ASSUME asked' = asked PROVE Selected(counted') = Selected(counted)'
BY SMT DEF Selected, SelectHit, FoldLeft, MapThenFoldSet, InRank, Picked, Rank, Hits, FileOf

\* What is offered, measured and told depends on the question, on what was
\* counted and on the rows.
LEMMA SameOffer ==
    ASSUME UNCHANGED <<asked, counted>>
    PROVE  Offered' = Offered /\ Hits' = Hits
<1>1. Entries' = Entries /\ Selected(counted)' = Selected(counted)
  BY SameEntries, SameSelected
<1> QED
  BY <1>1 DEF Offered, Hits

LEMMA SameAnswer ==
    ASSUME UNCHANGED <<asked, counted, chosen, leftOut>>
    PROVE  (Fits' <=> Fits) /\ ReplyNow' = ReplyNow
<1>1. Bytes(chosen)' = Bytes(chosen)
  BY SMT DEF Bytes, RowBytes, FileOf, Total, SumFirst, Lesser
<1>2. OmittedCount' = OmittedCount
  <2>1. Selected(counted)' = Selected(counted)
    BY SameSelected
  <2> QED
    BY <2>1, SMT DEF OmittedCount, SymbolsAmong
<1>3. Fits' <=> Fits
  BY <1>1, <1>2, SMT DEF Fits, Estimate, ResponseOf, SymbolsAmong, FileOf, TokensOf, DigitsOf,
                         Lesser, PackingBudget
<1>4. ReplyNow' = ReplyNow
  BY <1>1, <1>2, SMT DEF ReplyNow, Estimate, ResponseOf, SymbolsAmong, FileOf, TokensOf,
                         DigitsOf, Lesser, Wrapping, Truncated, Warned
<1> QED
  BY <1>3, <1>4

LEMMA SameCount ==
    ASSUME UNCHANGED <<asked, counted, loosened>>
    PROVE  CountedRight' <=> CountedRight
BY SMT DEF CountedRight, Stopped, Hits, Strong, Lesser

LEMMA TellStarts == TellInit => TellInv
<1> SUFFICES ASSUME TellInit PROVE TellInv
  OBVIOUS
<1> QED
  BY DEF TellInit, TellInv

LEMMA TellRests == ASSUME TellInv, UNCHANGED tellVars PROVE TellInv'
<1>1. UNCHANGED <<asked, step, counted, loosened, chosen, leftOut, reply>>
  BY DEF tellVars
<1>2. Offered' = Offered /\ Hits' = Hits /\ (Fits' <=> Fits) /\ ReplyNow' = ReplyNow
      /\ (CountedRight' <=> CountedRight)
  BY <1>1, SameOffer, SameAnswer, SameCount
<1>3. NoReply' = NoReply
  BY DEF NoReply
<1> QED
  BY <1>1, <1>2, <1>3 DEF TellInv, Parted, Once

\* The rows that are offered go to the response or are left out.
LEMMA OfferParts ==
    ASSUME TellInv, NEW rows \in Seq(Offerable), Once(rows), Offer(rows)
    PROVE  Parted(chosen', leftOut', ToSet(rows))
<1>1. asked \in Asked
  BY DEF TellInv
<1>2. CASE asked.tool = "list"
  <2>1. chosen' = rows /\ leftOut' = <<>>
    BY <1>2 DEF Offer
  <2>2. rows \in Seq(ToSet(rows))
    BY LenProperties DEF ToSet
  <2>3. <<>> \in Seq(ToSet(rows)) /\ Once(<<>>) /\ ToSet(<<>>) = {}
    BY DEF Once, ToSet
  <2> QED
    BY <2>1, <2>2, <2>3 DEF Parted
<1>3. CASE asked.tool # "list"
  <2>1. chosen' = PackByBudget(rows).in /\ leftOut' = PackByBudget(rows).out
    BY <1>3 DEF Offer
  <2> QED
    BY <1>1, <2>1, PackingParts
<1> QED
  BY <1>2, <1>3

LEMMA FindKeeps == ASSUME TellInv, Find PROVE TellInv'
<1>1. /\ asked \in Asked /\ asked.tool # "search" /\ asked' = asked /\ step' = "pack"
      /\ counted' = Hits /\ loosened' = loosened /\ reply' = reply /\ reply = NoReply
      /\ loosened \in BOOLEAN /\ Offer(Entries)
  BY DEF TellInv, Find, Offer
<1>2. Parted(chosen', leftOut', ToSet(Entries))
  BY <1>1, EntriesOnce, OfferParts
<1>3. Hits' = Hits
  BY <1>1 DEF Hits
<1>4. Offered' = ToSet(Entries)
  <2>1. Entries' = Entries
    BY <1>1, SameEntries
  <2>2. ToSet(Entries)' = ToSet(Entries)
    BY <2>1 DEF ToSet
  <2> QED
    BY <1>1, <2>2 DEF Offered
<1>5. CountedRight'
  BY <1>1, <1>3 DEF CountedRight
<1>6. Parted(chosen, leftOut, Offered)'
  BY <1>2, <1>4 DEF Parted, Once
<1>7. NoReply' = NoReply
  BY DEF NoReply
<1> QED
  BY <1>1, <1>3, <1>5, <1>6, <1>7 DEF TellInv

LEMMA QueryKeeps == ASSUME TellInv, Search PROVE TellInv'
<1>1. /\ asked \in Asked /\ asked.tool = "search" /\ asked' = asked /\ step' = "pack"
      /\ reply' = reply /\ reply = NoReply
      /\ Offer(SymbolRows(InRank(Selected(counted'))))
  BY DEF TellInv, Search, Offer
<1>2. /\ Len(asked.hits) \in Nat /\ Strong \subseteq Hits /\ Cardinality(Hits) = Len(asked.hits)
  BY <1>1, AskedShape
<1>3. PICK S \in kSubset(Lesser(Cardinality(Strong), asked.limit * AndFetch), Strong) :
         /\ loosened' = (asked.several /\ Capacity(S) < asked.limit)
         /\ \E T \in IF loosened'
                     THEN kSubset(Lesser(Len(asked.hits), asked.limit * OrFetch), Hits)
                     ELSE {{}} :
               counted' = S \cup T
  BY DEF Search
<1>4. S \in SUBSET Hits /\ S \in SUBSET Strong
      /\ Stopped(S, Strong, Cardinality(Strong), asked.limit * AndFetch)
  BY <1>2, <1>3 DEF kSubset, Stopped
<1>5. PICK T \in IF loosened'
                 THEN kSubset(Lesser(Len(asked.hits), asked.limit * OrFetch), Hits)
                 ELSE {{}} :
         counted' = S \cup T
  BY <1>3
<1>6. loosened' \in BOOLEAN
  BY <1>3
<1>7. /\ T \in SUBSET Hits
      /\ ~loosened' => T = {}
      /\ loosened' => Stopped(T, Hits, Len(asked.hits), asked.limit * OrFetch)
  BY <1>5, <1>6 DEF kSubset, Stopped
<1>8. counted' \in SUBSET Hits
  BY <1>4, <1>5, <1>7
<1>9. Hits' = Hits /\ Strong' = Strong
  BY <1>1 DEF Hits, Strong
<1>10. CountedRight'
  <2>1. /\ Stopped(S, Strong, Cardinality(Strong), asked.limit * AndFetch)'
        /\ ~loosened' => counted' = S
        /\ loosened' => /\ Stopped(T, Hits, Len(asked.hits), asked.limit * OrFetch)'
                        /\ counted' = S \cup T
    BY <1>1, <1>4, <1>5, <1>7, <1>9 DEF Stopped, Lesser
  <2> QED
    BY <1>1, <1>4, <1>7, <1>9, <2>1 DEF CountedRight
<1> DEFINE rows == SymbolRows(InRank(Selected(counted')))
<1>11. rows \in Seq(Offerable) /\ Once(rows) /\ ToSet(rows) = {SymbolRow(i) : i \in Selected(counted')}
  <2>1. Selected(counted') \in SUBSET Hits
    BY <1>1, <1>8, SelectedFew
  <2> DEFINE chose == Selected(counted')
  <2> HIDE DEF chose
  <2>2. chose \in SUBSET Hits
    BY <2>1 DEF chose
  <2>3. InRank(chose) \in Seq(Hits) /\ Once(InRank(chose)) /\ ToSet(InRank(chose)) = chose
    BY <1>1, <2>2, InRankOnce
  <2>4. /\ SymbolRows(InRank(chose)) \in Seq(Offerable) /\ Once(SymbolRows(InRank(chose)))
        /\ ToSet(SymbolRows(InRank(chose))) = {SymbolRow(i) : i \in chose}
    BY <1>1, <2>3, RowsOnce
  <2> QED
    BY <2>4 DEF chose
<1>12. Parted(chosen', leftOut', ToSet(rows))
  <2> HIDE DEF rows
  <2>1. Offer(rows)
    BY <1>1 DEF rows
  <2> QED
    BY <1>11, <2>1, OfferParts
<1>13. Offered' = ToSet(rows)
  <2>1. Selected(counted)' = Selected(counted')
    BY <1>1, SameSelected
  <2> HIDE DEF rows
  <2> QED
    BY <1>1, <1>11, <2>1 DEF Offered, SymbolRow
<1>14. Parted(chosen, leftOut, Offered)'
  <2> HIDE DEF rows
  <2> QED
    BY <1>12, <1>13 DEF Parted, Once
<1>15. NoReply' = NoReply
  BY DEF NoReply
<1> QED
  BY <1>1, <1>6, <1>8, <1>9, <1>10, <1>14, <1>15 DEF TellInv

LEMMA GiveBackKeeps == ASSUME TellInv, GiveBack PROVE TellInv'
<1>1. /\ UNCHANGED <<asked, step, counted, loosened, reply>> /\ step = "pack" /\ chosen # <<>>
      /\ chosen' = Front(chosen) /\ leftOut' = <<Last(chosen)>> \o leftOut
  BY DEF GiveBack, GivenBack
<1>2. Parted(chosen, leftOut, Offered)
  BY <1>1 DEF TellInv
<1>3. Parted(chosen', leftOut', Offered)
  <2> DEFINE S == Offered
  <2> HIDE DEF S
  <2>1. chosen \in Seq(S) /\ leftOut \in Seq(S) /\ Parted(chosen, leftOut, S)
    BY <1>2 DEF Parted, S
  <2>2. Parted(Front(chosen), <<Last(chosen)>> \o leftOut, S)
    BY <1>1, <2>1, PartedStill
  <2> QED
    BY <1>1, <2>2 DEF S
<1>4. Offered' = Offered /\ Hits' = Hits /\ (CountedRight' <=> CountedRight)
  BY <1>1, SameOffer, SameCount
<1>5. Parted(chosen, leftOut, Offered)'
  BY <1>3, <1>4 DEF Parted, Once
<1>6. NoReply' = NoReply
  BY DEF NoReply
<1> QED
  BY <1>1, <1>4, <1>5, <1>6 DEF TellInv

LEMMA RefuseKeeps == ASSUME TellInv, Refuse PROVE TellInv'
<1>1. /\ UNCHANGED <<asked, counted, loosened, chosen, leftOut, reply>>
      /\ step = "pack" /\ step' = "refused" /\ ~Fits /\ chosen = <<>>
  BY DEF Refuse
<1>2. Offered' = Offered /\ Hits' = Hits /\ (CountedRight' <=> CountedRight) /\ (Fits' <=> Fits)
  BY <1>1, SameOffer, SameCount, SameAnswer
<1>3. NoReply' = NoReply
  BY DEF NoReply
<1>4. Parted(chosen, leftOut, Offered)'
  BY <1>1, <1>2 DEF TellInv, Parted, Once
<1> QED
  BY <1>1, <1>2, <1>3, <1>4 DEF TellInv

\* None is refused that fits: it is as large as it was measured.
LEMMA TellKeeps == ASSUME TellInv, Tell PROVE TellInv'
<1>1. /\ UNCHANGED <<asked, counted, loosened, chosen, leftOut>> /\ step = "pack" /\ Fits
  BY DEF Tell
<1>2. /\ asked \in Asked /\ counted \in SUBSET Hits /\ Parted(chosen, leftOut, Offered)
      /\ CountedRight /\ loosened \in BOOLEAN /\ reply = NoReply
  BY <1>1 DEF TellInv
<1>3. /\ Estimate \in Nat /\ TokensOf(ResponseOf(Estimate)) = Estimate /\ Estimate <= ServerCap
      /\ ResponseOf(Estimate) \in Nat
  BY <1>1, <1>2, OfferedRows, SaysItsSize
<1> DEFINE tokens == TokensOf(ResponseOf(Estimate) + Wrapping)
<1>4. asked.tool # "module" => tokens = Estimate
  <2>1. ASSUME asked.tool # "module" PROVE ResponseOf(Estimate) + Wrapping = ResponseOf(Estimate)
    <3>1. \A x \in Nat : x + 0 = x
      OBVIOUS
    <3> QED
      BY <1>3, <2>1, <3>1 DEF Wrapping
  <2> QED
    BY <1>3, <2>1
<1>5. /\ Tell
      /\ tokens = TokensOf(ResponseOf(Estimate) + (IF asked.tool = "module" THEN Around ELSE 0))
  BY Zenon DEF Wrapping
<1> DEFINE told == [tokens |-> tokens, said |-> Estimate, warned |-> Warned,
                    truncated |-> Truncated, omitted |-> OmittedCount]
<1>6. IF asked.tool \in {"map", "search", "dependents", "list"} /\ tokens > ServerCap
      THEN step' = "refused" /\ UNCHANGED reply
      ELSE step' = "told" /\ reply' = told
  BY <1>5, Zenon DEF Tell, Wrapping
<1>7. told = ReplyNow
  BY Zenon DEF ReplyNow
<1> HIDE DEF tokens, told
<1>8. ~ (asked.tool \in {"map", "search", "dependents", "list"} /\ tokens > ServerCap)
  <2>1. ASSUME asked.tool \in {"map", "search", "dependents", "list"} PROVE ~ (tokens > ServerCap)
    <3>1. tokens = Estimate
      BY <1>4, <2>1
    <3>2. ServerCap \in Nat
      BY <1>2, PackingCapped
    <3>3. \A x, y \in Nat : x <= y => ~ (x > y)
      OBVIOUS
    <3> QED
      BY <1>3, <3>1, <3>2, <3>3, Zenon
  <2> QED
    BY <2>1
<1>9. step' = "told" /\ reply' = ReplyNow
  BY <1>6, <1>7, <1>8
<1>10. /\ Offered' = Offered /\ Hits' = Hits /\ (CountedRight' <=> CountedRight) /\ (Fits' <=> Fits)
       /\ ReplyNow' = ReplyNow
  BY <1>1, SameOffer, SameCount, SameAnswer
<1>11. Parted(chosen, leftOut, Offered)'
  BY <1>1, <1>2, <1>10 DEF Parted, Once
<1> QED
  BY <1>1, <1>2, <1>9, <1>10, <1>11 DEF TellInv

LEMMA RepeatKeeps == ASSUME TellInv, Repeat PROVE TellInv'
<1>1. Hits' = Hits /\ NoReply' = NoReply
  BY DEF Repeat, Hits, NoReply
<1> QED
  BY <1>1 DEF TellInv, Repeat

LEMMA TellStep == TellInv /\ [TellNext]_tellVars => TellInv'
<1> SUFFICES ASSUME TellInv, [TellNext]_tellVars PROVE TellInv'
  OBVIOUS
<1>1. CASE Find
  BY <1>1, FindKeeps
<1>2. CASE Search
  BY <1>2, QueryKeeps
<1>3. CASE GiveBack
  BY <1>3, GiveBackKeeps
<1>4. CASE Refuse
  BY <1>4, RefuseKeeps
<1>5. CASE Tell
  BY <1>5, TellKeeps
<1>6. CASE Repeat
  BY <1>6, RepeatKeeps
<1>7. CASE UNCHANGED tellVars
  BY <1>7, TellRests
<1> QED
  BY <1>1, <1>2, <1>3, <1>4, <1>5, <1>6, <1>7 DEF TellNext

\* A query that has found less than it stops at has found all.
LEMMA StoppedAtAll ==
    ASSUME NEW all, NEW S, IsFiniteSet(all), NEW limit \in Nat \ {0}, NEW times \in Nat \ {0, 1},
           Stopped(S, all, Cardinality(all), limit * times), Cardinality(S) <= limit
    PROVE  S = all
<1>1. S \in SUBSET all /\ Cardinality(S) = Lesser(Cardinality(all), limit * times)
  BY DEF Stopped
<1>2. Cardinality(all) \in Nat
  BY FS_CardinalityType
<1>3. limit < limit * times /\ limit * times \in Nat
  <2>1. PICK j \in Nat : times = j + 2
    <3>1. times - 2 \in Nat /\ times = (times - 2) + 2
      OBVIOUS
    <3> QED
      BY <3>1
  <2>2. limit * times = limit * j + limit + limit
    BY <2>1
  <2>3. limit * j \in Nat
    BY <2>1
  <2> QED
    BY <2>2, <2>3
<1>4. Cardinality(S) = Cardinality(all)
  BY <1>1, <1>2, <1>3 DEF Lesser
<1> QED
  BY <1>1, <1>4, FS_Subset

\* What a search tells.
LEMMA SearchHonest ==
    ASSUME TellInv, step = "told", asked.tool = "search"
    PROVE  /\ ~Truncated => Wanted \subseteq Given
           /\ OmittedCount >= Cardinality(counted \ Given)
<1>1. /\ asked \in Asked /\ counted \in SUBSET Hits /\ CountedRight /\ loosened \in BOOLEAN
      /\ Parted(chosen, leftOut, Offered)
  BY DEF TellInv
<1> DEFINE picks == Selected(counted)
<1>2. /\ picks \in SUBSET counted /\ IsFiniteSet(counted) /\ IsFiniteSet(picks)
  BY <1>1, OfferedRows
<1>3. Cardinality(picks) <= asked.limit /\ asked.limit \in Nat \ {0}
  BY <1>1, SelectedFew, AskedShape
<1>4. /\ Cardinality(picks) \in Nat /\ Cardinality(counted) \in Nat
      /\ Cardinality(picks) <= Cardinality(counted)
      /\ Cardinality(counted) = Cardinality(picks) => counted = picks
  BY <1>2, FS_Subset, FS_CardinalityType
<1>5. Offered = {SymbolRow(i) : i \in picks}
  BY DEF Offered
<1>6. /\ OmittedCount = 2 * (Cardinality(counted) - Cardinality(picks)) + Len(leftOut)
      /\ Truncated <=> OmittedCount > 0
  BY DEF OmittedCount, Truncated
<1> HIDE DEF picks
<1>7. /\ Given \subseteq picks /\ IsFiniteSet(Given) /\ Cardinality(Given) = Len(chosen)
      /\ Len(chosen) \in Nat /\ Len(leftOut) \in Nat
      /\ Len(chosen) + Len(leftOut) = Cardinality(picks)
  BY <1>1, <1>2, <1>5, GivenCounts
<1>8. OmittedCount >= Cardinality(counted \ Given)
  <2>1. /\ Cardinality(counted \ Given) = Cardinality(counted) - Cardinality(counted \cap Given)
        /\ counted \cap Given = Given
    BY <1>2, <1>7, FS_Difference
  <2>2. \A c1, p1, g, l \in Nat : p1 <= c1 /\ g + l = p1 => 2 * (c1 - p1) + l >= c1 - g
    OBVIOUS
  <2>3. 2 * (Cardinality(counted) - Cardinality(picks)) + Len(leftOut)
           >= Cardinality(counted) - Len(chosen)
    BY <1>4, <1>7, <2>2
  <2> QED
    BY <1>6, <1>7, <2>1, <2>3, Zenon
<1>9. ASSUME ~Truncated PROVE Wanted \subseteq Given
  <2>1. Cardinality(counted) = Cardinality(picks) /\ Len(leftOut) = 0
    <3>1. \A c1, p1, l \in Nat : p1 <= c1 /\ ~ (2 * (c1 - p1) + l > 0) => c1 = p1 /\ l = 0
      OBVIOUS
    <3> QED
      BY <1>4, <1>6, <1>7, <1>9, <3>1
  <2>2. counted = picks
    BY <1>4, <2>1
  <2>3. Given = picks
    <3>1. Cardinality(Given) = Cardinality(picks)
      BY <1>7, <2>1
    <3> QED
      BY <1>2, <1>7, <3>1, FS_Subset
  <2>4. Cardinality(counted) <= asked.limit /\ Given = counted
    BY <1>3, <2>1, <2>2, <2>3
  <2>5. PICK S \in SUBSET Strong, T \in SUBSET Hits :
           /\ Stopped(S, Strong, Cardinality(Strong), asked.limit * AndFetch)
           /\ ~loosened => counted = S
           /\ loosened => /\ Stopped(T, Hits, Len(asked.hits), asked.limit * OrFetch)
                          /\ counted = S \cup T
    BY <1>1 DEF CountedRight
  <2>6. /\ IsFiniteSet(Strong) /\ IsFiniteSet(Hits) /\ Cardinality(Hits) = Len(asked.hits)
        /\ AndFetch \in Nat \ {0, 1} /\ OrFetch \in Nat \ {0, 1}
    BY <1>1, AskedShape, AnswersAssumption DEF AnswersAssumption
  <2>7. CASE ~loosened
    <3>1. S = Strong
      BY <1>3, <2>4, <2>5, <2>6, <2>7, StoppedAtAll
    <3> QED
      BY <2>4, <2>5, <2>7, <3>1 DEF Wanted
  <2>8. CASE loosened
    <3>1. T \in SUBSET counted
      BY <2>5, <2>8
    <3>2. IsFiniteSet(T) /\ Cardinality(T) \in Nat /\ Cardinality(T) <= Cardinality(counted)
      BY <1>2, <3>1, FS_Subset, FS_CardinalityType
    <3>3. Cardinality(T) <= asked.limit
      BY <1>3, <1>4, <2>4, <3>2
    <3>4. T = Hits
      BY <1>3, <2>5, <2>6, <2>8, <3>3, StoppedAtAll
    <3> QED
      BY <2>4, <2>8, <3>1, <3>4 DEF Wanted
  <2> QED
    BY <2>7, <2>8
<1> QED
  BY <1>8, <1>9

\* What the tools tell that list rows of hits.
LEMMA ListsHonest ==
    ASSUME TellInv, step = "told", asked.tool \notin {"search", "impact", "context"}
    PROVE  /\ asked.tool # "module" /\ ~Truncated => Wanted \subseteq Given
           /\ asked.tool # "list" => Cardinality(Given) + OmittedCount = Len(asked.hits)
           /\ asked.tool = "symbols" => Truncated = Warned
<1>1. /\ asked \in Asked /\ counted \in SUBSET Hits /\ Parted(chosen, leftOut, Offered)
  BY DEF TellInv
<1>2. /\ Len(asked.hits) \in Nat /\ IsFiniteSet(Hits) /\ Cardinality(Hits) = Len(asked.hits)
      /\ Hits = 1..Len(asked.hits) /\ asked.limit \in Nat \ {0}
  BY <1>1, AskedShape
<1>3. /\ Offered = {SymbolRow(i) : i \in OfferedHits} /\ OfferedHits \in SUBSET Hits
      /\ IsFiniteSet(OfferedHits)
  BY <1>1, OfferedRows
<1>4. /\ Given \subseteq OfferedHits /\ IsFiniteSet(Given) /\ Cardinality(Given) = Len(chosen)
      /\ Len(chosen) \in Nat /\ Len(leftOut) \in Nat
      /\ Len(chosen) + Len(leftOut) = Cardinality(OfferedHits)
      /\ SymbolsAmong(leftOut) = Len(leftOut)
  BY <1>1, <1>3, GivenCounts
<1>5. leftOut = <<>> <=> Len(leftOut) = 0
  <2>1. leftOut \in Seq(Offerable)
    BY <1>1, OfferedRows
  <2> QED
    BY <2>1, EmptySeq
<1>6. Wanted = Hits
  BY DEF Wanted
<1>7. Cardinality(Given) = Len(asked.hits) => Given = Hits
  BY <1>2, <1>3, <1>4, FS_Subset
<1>8. CASE asked.tool = "symbols"
  <2>1. Cardinality(OfferedHits) = Lesser(Len(asked.hits), asked.limit)
    <3>1. \A m \in Nat : Cardinality(1..m) = m
      BY FS_Interval
    <3>2. Lesser(Len(asked.hits), asked.limit) \in Nat
      BY <1>2 DEF Lesser
    <3> QED
      BY <1>8, <3>1, <3>2, Zenon DEF OfferedHits
  <2>2. /\ OmittedCount = Len(asked.hits) - Len(chosen)
        /\ Truncated = (OmittedCount > 0)
        /\ Warned = (leftOut # <<>> \/ Len(asked.hits) > asked.limit)
    BY <1>8 DEF OmittedCount, Truncated, Warned
  <2> DEFINE all == Len(asked.hits)
             got == Len(chosen)
             rest == Len(leftOut)
             most == asked.limit
  <2>3. all \in Nat /\ got \in Nat /\ rest \in Nat /\ most \in Nat /\ got + rest = Lesser(all, most)
    BY <1>2, <1>4, <2>1
  <2>4. /\ got + (all - got) = all
        /\ (all - got > 0) <=> (rest # 0 \/ all > most)
        /\ ~ (all - got > 0) => got = all
    <3> HIDE DEF all, got, rest, most
    <3> QED
      BY <2>3 DEF Lesser
  <2>5. Truncated = Warned
    <3>1. (OmittedCount > 0) = (leftOut # <<>> \/ Len(asked.hits) > asked.limit)
      BY <1>5, <2>2, <2>4
    <3> QED
      BY <2>2, <3>1, Zenon
  <2>6. ~Truncated => Wanted \subseteq Given
    BY <1>4, <1>6, <1>7, <2>2, <2>4
  <2> QED
    BY <1>4, <1>8, <2>2, <2>4, <2>5, <2>6
<1>9. CASE asked.tool # "symbols"
  <2>1. OfferedHits = Hits
    BY <1>9 DEF OfferedHits
  <2>2. Len(chosen) + Len(leftOut) = Len(asked.hits)
    BY <1>2, <1>4, <2>1
  <2>3. asked.tool # "list" => OmittedCount = Len(leftOut)
    BY <1>4, <1>9 DEF OmittedCount
  <2>4. asked.tool # "module" => Truncated = (leftOut # <<>>)
    BY <1>9 DEF Truncated
  <2>5. ASSUME asked.tool # "module", ~Truncated PROVE Wanted \subseteq Given
    <3>1. Len(leftOut) = 0
      BY <1>5, <2>4, <2>5
    <3>2. Len(chosen) = Len(asked.hits)
      BY <1>4, <2>2, <3>1
    <3> QED
      BY <1>4, <1>6, <1>7, <3>2
  <2>6. asked.tool # "list" => Cardinality(Given) + OmittedCount = Len(asked.hits)
    BY <1>4, <2>2, <2>3
  <2> QED
    BY <1>9, <2>5, <2>6
<1> QED
  BY <1>8, <1>9

\* What the search of the graph tells.
LEMMA SliceHonest ==
    ASSUME TellInv, step = "told", asked.tool = "impact", ~Truncated
    PROVE  Wanted \subseteq Given
<1>1. /\ asked \in Asked /\ counted \in SUBSET Hits /\ Parted(chosen, leftOut, Offered)
  BY DEF TellInv
<1>2. /\ leftOut = <<>> /\ ~ (Len(asked.hits) > asked.limit - 1) /\ Wanted = Hits
  BY DEF Truncated, Wanted
<1>3. /\ Hits = 1..Len(asked.hits) /\ Len(asked.hits) \in Nat /\ asked.limit \in Nat \ {0}
  BY <1>1, AskedShape
<1>4. Visited = Hits
  BY <1>2, <1>3 DEF Visited, Lesser
<1>5. Offered = {SymbolRow(i) : i \in Hits} \cup OfferedBeside
  BY <1>1, <1>4, EntriesOnce DEF Offered, OfferedHits
<1>6. ToSet(chosen) = Offered /\ chosen \in Seq(Offered)
  <2>1. ToSet(leftOut) = {}
    BY <1>2 DEF ToSet
  <2> QED
    BY <1>1, <2>1 DEF Parted
<1>7. ASSUME NEW i \in Hits PROVE i \in Given
  <2>1. PICK k \in DOMAIN chosen : chosen[k] = SymbolRow(i)
    BY <1>5, <1>6 DEF ToSet
  <2>2. chosen[k].kind = "symbol" /\ chosen[k].hit = i
    BY <2>1 DEF SymbolRow
  <2> QED
    BY <2>1, <2>2 DEF Given
<1> QED
  BY <1>2, <1>7

LEMMA TellTypes == TellInv => TellTypeOK
<1> SUFFICES ASSUME TellInv PROVE TellTypeOK
  OBVIOUS
<1>1. /\ asked \in Asked /\ step \in {"find", "pack", "told", "refused"}
      /\ counted \subseteq Hits /\ loosened \in BOOLEAN
  BY DEF TellInv
<1>2. \A k \in DOMAIN chosen : chosen[k].hit \in Hits \cup {0}
  <2>1. CASE step = "find"
    BY <2>1 DEF TellInv
  <2>2. CASE step # "find"
    <3>1. chosen \in Seq(Offerable)
      BY <2>2, OfferedRows DEF TellInv
    <3>2. \A k \in DOMAIN chosen : chosen[k] \in Offerable
      BY <3>1, LenProperties
    <3> QED
      BY <3>2 DEF Offerable
  <2> QED
    BY <2>1, <2>2
<1>3. reply.truncated \in BOOLEAN /\ reply.tokens \in Nat
  <2>1. CASE step = "told"
    <3>1. reply = ReplyNow /\ asked \in Asked
      BY <2>1 DEF TellInv
    <3>2. Truncated \in BOOLEAN
      <4>1. OmittedCount \in Nat
        BY <2>1, OfferedRows, ResponseSized DEF TellInv
      <4>2. CASE asked.tool \in {"search", "symbols"}
        <5>1. Truncated = (OmittedCount > 0)
          BY <4>2 DEF Truncated
        <5>2. (OmittedCount > 0) \in BOOLEAN
          BY <4>1
        <5> QED
          BY <5>1, <5>2, Zenon
      <4>3. CASE asked.tool = "impact"
        BY <4>3 DEF Truncated
      <4>4. CASE asked.tool = "module"
        BY <4>4 DEF Truncated
      <4>5. CASE asked.tool \notin {"search", "symbols", "impact", "module"}
        BY <4>5 DEF Truncated
      <4> QED
        BY <4>2, <4>3, <4>4, <4>5
    <3>3. TokensOf(ResponseOf(Estimate) + Wrapping) \in Nat
      <4>1. ResponseOf(Estimate) \in Nat
        BY <2>1, OfferedRows, SaysItsSize DEF TellInv
      <4>2. Wrapping \in Nat
        BY AnswersAssumption DEF AnswersAssumption, Wrapping
      <4> QED
        BY <4>1, <4>2 DEF TokensOf
    <3> QED
      BY <3>1, <3>2, <3>3 DEF ReplyNow
  <2>2. CASE step # "told"
    <3>1. reply = NoReply
      BY <2>2 DEF TellInv
    <3> QED
      BY <3>1 DEF NoReply
  <2> QED
    BY <2>1, <2>2
<1> QED
  BY <1>1, <1>2, <1>3 DEF TellTypeOK

LEMMA TellAnswers == TellInv => AnswersHonest
<1> SUFFICES ASSUME TellInv PROVE AnswersHonest
  OBVIOUS
<1>1. ASSUME step = "told"
      PROVE  /\ asked.tool \in Tools /\ Fits /\ reply.truncated = Truncated
             /\ reply.omitted = OmittedCount /\ reply.warned = Warned /\ reply.said = Estimate
             /\ reply.tokens = TokensOf(ResponseOf(Estimate) + Wrapping)
  <2>1. reply = ReplyNow /\ Fits /\ asked \in Asked
    BY <1>1 DEF TellInv
  <2> QED
    BY <2>1, AskedShape DEF ReplyNow
<1>2. TellsWhatIsMissing
  <2> SUFFICES ASSUME step = "told" PROVE TellsWhatIsMissing
    BY DEF TellsWhatIsMissing
  <2>1. CASE asked.tool = "search"
    BY <1>1, <2>1, SearchHonest DEF TellsWhatIsMissing
  <2>2. CASE asked.tool \in {"impact", "context"}
    BY <1>1, <2>2, SliceHonest DEF TellsWhatIsMissing
  <2>3. CASE asked.tool \notin {"search", "impact", "context"}
    BY <1>1, <2>3, ListsHonest DEF TellsWhatIsMissing
  <2> QED
    BY <2>1, <2>2, <2>3
<1>3. KeepsItsBudget
  <2>1. ASSUME step = "told", asked.tool # "module"
        PROVE  reply.tokens = reply.said /\ reply.tokens <= PackingBudget
    <3>1. /\ ResponseOf(Estimate) \in Nat /\ TokensOf(ResponseOf(Estimate)) = Estimate
          /\ Estimate <= PackingBudget
      BY <1>1, <2>1, OfferedRows, SaysItsSize DEF TellInv
    <3>2. ResponseOf(Estimate) + Wrapping = ResponseOf(Estimate)
      <4>1. \A x \in Nat : x + 0 = x
        OBVIOUS
      <4> QED
        BY <2>1, <3>1, <4>1 DEF Wrapping
    <3> QED
      BY <1>1, <2>1, <3>1, <3>2
  <2>2. step = "refused" => chosen = <<>> /\ ~Fits
    BY DEF TellInv
  <2> QED
    BY <2>1, <2>2 DEF KeepsItsBudget
<1> QED
  BY <1>2, <1>3 DEF AnswersHonest

LEMMA TellAlways == TellSpec => []TellInv
  BY TellStarts, TellStep, PTL DEF TellSpec

\* The question, its matches, the rows and the reply are of their types
\* (token_budget.py, RetrievalService._pack_to_budget).
THEOREM AnswersTyped == TellSpec => []TellTypeOK
  BY TellAlways, TellTypes, PTL

\* An answer tells the truth about what it leaves out and is as large as it says,
\* within its budget (RetrievalService._pack_to_budget and its callers).
THEOREM AnswersAlwaysHonest == TellSpec => []AnswersHonest
  BY TellAlways, TellAnswers, PTL

----------------------------------------------------------------------------
(* JvmMembers: what a call is bound to.  The argument: of the members of a  *)
(* type and of those above it, the ones with the key of an earlier one are  *)
(* dropped, and where one is, the earlier is among the candidates           *)
(* (EarlierLeft) and, accepting and scoring the same, is taken before it    *)
(* (NearestIsBound).  The scores of one or two arguments are too few for a  *)
(* certain misfit to be made up for (NoMisfitBound).  A step of a chain     *)
(* looks at the nearest type as the binding of the same call does, where    *)
(* nothing has been left out for its key that is not like it (StepAgrees).  *)

\* The elements of a sequence are finitely many.
LEMMA ElementsFinite ==
    ASSUME NEW S, NEW s \in Seq(S)
    PROVE  IsFiniteSet(ToSet(s)) /\ ToSet(s) \subseteq S
<1>1. DOMAIN s = 1..Len(s) /\ Len(s) \in Nat /\ \A i \in 1..Len(s) : s[i] \in S
  BY LenProperties
<1>2. IsFiniteSet(DOMAIN s)
  BY <1>1, FS_Interval
<1>3. IsFiniteSet({s[i] : i \in DOMAIN s})
  BY <1>2, ImageFinite
<1> QED
  BY <1>1, <1>3 DEF ToSet

\* The types above one are a sequence of names.
LEMMA AncestorsAreNames ==
    ASSUME IsCall(call), NEW name
    PROVE  AncestorsOf(name) \in Seq(STRING)
<1> DEFINE names == DOMAIN call.parents \cup UNION {ToSet(call.parents[t]) : t \in DOMAIN call.parents}
           size == Cardinality(names)
           V == [queue : Seq(STRING), seen : SUBSET STRING, out : Seq(STRING)]
           base == [queue |-> ParentsOf(name), seen |-> ToSet(ParentsOf(name)), out |-> <<>>]
           More(s) == ParentsOf(Head(s.queue))
           New(s) == Picked(More(s), {i \in DOMAIN More(s) : More(s)[i] \notin s.seen})
           Grown(s) == IF s.queue = <<>> THEN s
                       ELSE [queue |-> Tail(s.queue) \o New(s), seen |-> s.seen \cup ToSet(New(s)),
                             out |-> Append(s.out, Head(s.queue))]
           move == [k \in 1..size |-> [s \in V |-> Grown(s)]]
           up == CHOOSE f : f = [k \in 0..size |-> IF k = 0 THEN base ELSE Grown(f[k - 1])]
<1>0. IsFiniteSet(DOMAIN call.parents)
      /\ \A t \in DOMAIN call.parents : call.parents[t] \in Seq(STRING)
  BY DEF IsCall
<1>1. size \in Nat
  <2> DEFINE above == [t \in DOMAIN call.parents |-> ToSet(call.parents[t])]
             sets == {above[t] : t \in DOMAIN call.parents}
  <2>1. IsFiniteSet(sets)
    BY <1>0, ImageFinite
  <2>2. \A T \in sets : IsFiniteSet(T)
    BY <1>0, ElementsFinite
  <2>3. IsFiniteSet(UNION sets)
    BY <2>1, <2>2, FS_UNION
  <2>4. sets = {ToSet(call.parents[t]) : t \in DOMAIN call.parents}
    OBVIOUS
  <2>5. IsFiniteSet(names)
    BY <1>0, <2>3, <2>4, FS_Union
  <2> QED
    BY <2>5, FS_CardinalityType
<1>2. \A t : ParentsOf(t) \in Seq(STRING)
  <2>1. <<>> \in Seq(STRING)
    OBVIOUS
  <2> TAKE t
  <2>2. CASE t \in DOMAIN call.parents
    BY <1>0, <2>2, Zenon DEF ParentsOf
  <2>3. CASE t \notin DOMAIN call.parents
    BY <2>1, <2>3, Zenon DEF ParentsOf
  <2> QED
    BY <2>2, <2>3, Zenon
<1>3. base \in V
  <2>1. ParentsOf(name) \in Seq(STRING) /\ ToSet(ParentsOf(name)) \subseteq STRING
    BY <1>2, ElementsFinite
  <2> QED
    BY <2>1
<1>4. \A s \in V : Grown(s) \in V
  <2> SUFFICES ASSUME NEW s \in V, s.queue # <<>> PROVE Grown(s) \in V
    BY Zenon
  <2>1. More(s) \in Seq(STRING)
    BY <1>2
  <2>2. New(s) \in Seq(STRING)
    <3> DEFINE I == {i \in DOMAIN More(s) : More(s)[i] \notin s.seen}
    <3>1. I \in SUBSET (1..Len(More(s)))
      BY <2>1
    <3> HIDE DEF I, More
    <3>2. Picked(More(s), I) \in Seq(STRING)
      BY <2>1, <3>1, PickedItems
    <3> QED
      BY <3>2 DEF I
  <2>3. ToSet(New(s)) \subseteq STRING
    BY <2>2, ElementsFinite
  <2>4. Tail(s.queue) \o New(s) \in Seq(STRING) /\ Append(s.out, Head(s.queue)) \in Seq(STRING)
        /\ s.seen \cup ToSet(New(s)) \in SUBSET STRING
    <3> HIDE DEF New
    <3> QED
      BY <2>2, <2>3
  <2> HIDE DEF New
  <2> QED
    BY <2>4
<1>5. AncestorsOf(name) = up[size].out
  BY Zenon DEF AncestorsOf, size, names
<1> HIDE DEF size, names, base, V, Grown
<1>6. move \in [1..size -> [V -> V]]
  BY <1>4
<1>r. PICK f \in [0..size -> V] : Recurses(f, size, base, move)
  <2> HIDE DEF move
  <2> QED
    BY <1>1, <1>3, <1>6, RecursionAlong
<1>7. f = [k \in 0..size |-> IF k = 0 THEN base ELSE Grown(f[k - 1])]
  <2>1. f[0] = base /\ \A i \in 1..size : f[i] = move[i][f[i - 1]]
    BY <1>r DEF Recurses
  <2>2. \A i \in 1..size : f[i] = Grown(f[i - 1])
    <3> TAKE i \in 1..size
    <3>1. i - 1 \in 0..size
      BY <1>1
    <3>2. f[i - 1] \in V
      BY <3>1
    <3> QED
      BY <2>1, <3>2
  <2>3. \A k \in 0..size : f[k] = IF k = 0 THEN base ELSE Grown(f[k - 1])
    BY <1>1, <2>1, <2>2
  <2> QED
    BY <2>3
<1>8. up = [k \in 0..size |-> IF k = 0 THEN base ELSE Grown(up[k - 1])]
  BY <1>7, Zenon
<1> HIDE DEF up
<1>9. \A k \in 0..size : up[k] \in V
  <2> DEFINE S == {k \in 0..size : up[k] \in V}
  <2>1. 0 \in S
    BY <1>1, <1>3, <1>8
  <2>2. ASSUME NEW k \in 1..size, k - 1 \in S PROVE k \in S
    <3>1. k \in 0..size /\ k # 0 /\ up[k - 1] \in V
      BY <1>1, <2>2
    <3>2. up[k] = Grown(up[k - 1])
      BY <1>8, <3>1
    <3> QED
      BY <1>4, <3>1, <3>2
  <2> HIDE DEF S
  <2>3. \A k \in 0..size : k \in S
    BY <1>1, <2>1, <2>2, ReachesAll
  <2> QED
    BY <2>3 DEF S
<1>10. up[size] \in V
  BY <1>1, <1>9
<1> QED
  BY <1>5, <1>10 DEF V

\* A level holds members of a type, at least one.
Level == (SUBSET call.decls) \ {{}}

\* The levels of a type: only those that have members.
LEMMA LevelsWithin ==
    ASSUME IsCall(call), NEW pool \in SUBSET call.decls, NEW owner, NEW above \in BOOLEAN
    PROVE  Levels(pool, owner, above) \in Seq({S \in Level : S \subseteq pool})
<1> DEFINE up == AncestorsOf(Simple(owner))
           above1 == [i \in DOMAIN up |-> <<up[i]>>]
           types == (IF above THEN <<>> ELSE <<owner>>) \o above1
           all == [i \in DOMAIN types |-> MembersOf(pool, types[i])]
           I == {i \in DOMAIN all : all[i] # {}}
<1>1. up \in Seq(STRING)
  BY AncestorsAreNames
<1>2. Levels(pool, owner, above) = Picked(all, I)
  BY DEF Levels, MembersAlong, TypesFrom
<1> HIDE DEF up
<1>3. above1 \in Seq({above1[i] : i \in DOMAIN up})
  <2>1. DOMAIN above1 = 1..Len(up) /\ Len(up) \in Nat
    BY <1>1, LenProperties
  <2> QED
    BY <2>1
<1> HIDE DEF above1
<1>4. \E S : types \in Seq(S)
  <2> DEFINE S == {above1[i] : i \in DOMAIN up} \cup {owner}
  <2>1. above1 \in Seq(S)
    BY <1>3
  <2>2. (IF above THEN <<>> ELSE <<owner>>) \in Seq(S)
    <3>1. owner \in S /\ <<>> \in Seq(S)
      OBVIOUS
    <3> HIDE DEF S
    <3>2. <<owner>> \in Seq(S)
      BY <3>1
    <3> QED
      BY <3>1, <3>2
  <2> HIDE DEF S
  <2>3. types \in Seq(S)
    BY <2>1, <2>2
  <2> QED
    BY <2>3
<1> HIDE DEF types
<1>5. DOMAIN types = 1..Len(types) /\ Len(types) \in Nat
  BY <1>4, LenProperties
<1>6. \A i \in DOMAIN types : MembersOf(pool, types[i]) \in SUBSET pool
  BY DEF MembersOf
<1>7. all \in Seq(SUBSET pool) /\ I \in SUBSET (1..Len(all))
      /\ \A i \in I : all[i] \in Level
  <2>1. all \in Seq(SUBSET pool)
    BY <1>5, <1>6
  <2>2. DOMAIN all = 1..Len(all)
    BY <2>1
  <2>3. \A i \in DOMAIN all : all[i] \in SUBSET call.decls
    BY <1>6
  <2> QED
    BY <2>1, <2>2, <2>3 DEF Level
<1> HIDE DEF all, I
<1>8. /\ Picked(all, I) \in Seq(SUBSET pool) /\ Len(Picked(all, I)) = Cardinality(I)
      /\ \A i \in 1..Cardinality(I) : \E j \in I : Picked(all, I)[i] = all[j]
  BY <1>7, PickedItems
<1>9. \A i \in 1..Len(Picked(all, I)) :
          Picked(all, I)[i] \in {S \in Level : S \subseteq pool}
  <2> TAKE i \in 1..Len(Picked(all, I))
  <2>1. Picked(all, I)[i] \in SUBSET pool /\ Picked(all, I)[i] \in Level
    BY <1>7, <1>8
  <2> QED
    BY <2>1
<1> QED
  BY <1>2, <1>8, <1>9

\* So a type without any member on its way up has no level.
LEMMA LevelsHaveMembers ==
    ASSUME IsCall(call), NEW pool \in SUBSET call.decls, NEW owner, NEW above \in BOOLEAN
    PROVE  Levels(pool, owner, above) \in Seq(Level)
<1>1. Levels(pool, owner, above) \in Seq({S \in Level : S \subseteq pool})
  BY LevelsWithin
<1> QED
  BY <1>1

\* The side of a choice, of which only the tiers have a shape.
IsSide(side) == side.tiers \in Seq({side.tiers[i] : i \in DOMAIN side.tiers})

\* Of the members of a level some are meant.
LEMMA SomeAreMeant ==
    ASSUME NEW members, members # {}, NEW side, IsSide(side)
    PROVE  Meant(members, side) \subseteq members /\ Meant(members, side) # {}
<1>1. ASSUME NEW S, S # {}
      PROVE  Narrow(S, side.tiers) \subseteq S /\ Narrow(S, side.tiers) # {}
  <2> DEFINE tiers == side.tiers
             T == {tiers[i] : i \in DOMAIN tiers}
             I == {i \in DOMAIN tiers : \E d \in S : d.file \in tiers[i]}
             close == Picked(tiers, I)
  <2>1. tiers \in Seq(T) /\ I \in SUBSET (1..Len(tiers))
    BY DEF IsSide
  <2>2. Narrow(S, tiers) = IF close = <<>> THEN S ELSE {d \in S : d.file \in Head(close)}
    BY DEF Narrow
  <2>3. \A i \in I : \E d \in S : d.file \in tiers[i]
    OBVIOUS
  <2> HIDE DEF tiers, T, I
  <2>4. /\ close \in Seq(T) /\ Len(close) = Cardinality(I)
        /\ \A i \in 1..Cardinality(I) : \E j \in I : close[i] = tiers[j]
    BY <2>1, PickedItems
  <2> HIDE DEF close
  <2>5. close # <<>> => \E j \in I : Head(close) = tiers[j]
    BY <2>4
  <2> QED
    BY <1>1, <2>2, <2>3, <2>5 DEF tiers
<1> DEFINE beside == {d \in members : d.file \in side.home}
           close == IF Several(members) /\ beside # {} THEN beside ELSE members
<1>2. close \subseteq members /\ close # {}
  OBVIOUS
<1>3. Meant(members, side) = IF Several(close) THEN Narrow(close, side.tiers) ELSE close
  BY DEF Meant
<1> HIDE DEF close
<1> QED
  BY <1>1, <1>2, <1>3

\* What a choice is made from: every meant member, with the depth of its level.
Ranged(levels, side) ==
    UNION {{[depth |-> k, of |-> d] : d \in Meant(levels[k], side)} : k \in DOMAIN levels}

\* They are finitely many, and each is a member of its level.
LEMMA RangedShape ==
    ASSUME IsCall(call), NEW levels \in Seq(Level), NEW side, IsSide(side)
    PROVE  /\ IsFiniteSet(Ranged(levels, side))
           /\ \A x \in Ranged(levels, side) :
                 /\ x = [depth |-> x.depth, of |-> x.of]
                 /\ x.depth \in 1..Len(levels) /\ x.of \in Meant(levels[x.depth], side)
                 /\ x.of \in levels[x.depth] /\ x.of \in call.decls /\ IsDecl(x.of)
           /\ levels # <<>> => Ranged(levels, side) # {}
<1>1. DOMAIN levels = 1..Len(levels) /\ Len(levels) \in Nat
      /\ \A k \in 1..Len(levels) : levels[k] \subseteq call.decls /\ levels[k] # {}
  <2>1. \A k \in 1..Len(levels) : levels[k] \in Level
    BY LenProperties
  <2> QED
    BY <2>1, LenProperties DEF Level
<1>2. \A k \in 1..Len(levels) :
          Meant(levels[k], side) \subseteq levels[k] /\ Meant(levels[k], side) # {}
  BY <1>1, SomeAreMeant
<1>3. \A d \in call.decls : IsDecl(d)
  BY DEF IsCall
<1>4. ASSUME NEW x \in Ranged(levels, side)
      PROVE  /\ x = [depth |-> x.depth, of |-> x.of]
             /\ x.depth \in 1..Len(levels) /\ x.of \in Meant(levels[x.depth], side)
  <2>1. PICK k \in DOMAIN levels : \E d \in Meant(levels[k], side) : x = [depth |-> k, of |-> d]
    BY <1>4 DEF Ranged
  <2> QED
    BY <1>1, <2>1
<1>5. IsFiniteSet(Ranged(levels, side))
  <2> DEFINE P == (1..Len(levels)) \X call.decls
             f == [p \in P |-> [depth |-> p[1], of |-> p[2]]]
  <2>1. IsFiniteSet(P)
    <3>1. IsFiniteSet(1..Len(levels))
      BY <1>1, FS_Interval
    <3>2. IsFiniteSet(call.decls)
      BY Zenon DEF IsCall
    <3> QED
      BY <3>1, <3>2, FS_Product
  <2>2. IsFiniteSet({f[p] : p \in P})
    <3>1. DOMAIN f = P
      OBVIOUS
    <3> HIDE DEF f, P
    <3> QED
      BY <2>1, <3>1, ImageFinite
  <2>3. Ranged(levels, side) \subseteq {f[p] : p \in P}
    <3> SUFFICES ASSUME NEW x \in Ranged(levels, side) PROVE \E p \in P : x = f[p]
      OBVIOUS
    <3>1. x.depth \in 1..Len(levels) /\ x.of \in call.decls
      BY <1>1, <1>2, <1>4
    <3>2. <<x.depth, x.of>> \in P /\ f[<<x.depth, x.of>>] = [depth |-> x.depth, of |-> x.of]
      BY <3>1
    <3> QED
      BY <1>4, <3>2
  <2> QED
    BY <2>2, <2>3, FS_Subset
<1>6. ASSUME levels # <<>> PROVE Ranged(levels, side) # {}
  <2>1. 1 \in DOMAIN levels
    BY <1>1, <1>6
  <2>2. PICK d \in Meant(levels[1], side) : TRUE
    BY <1>1, <1>2, <2>1
  <2>3. [depth |-> 1, of |-> d] \in Ranged(levels, side)
    BY <2>1, <2>2 DEF Ranged
  <2> QED
    BY <2>3
<1>7. \A x \in Ranged(levels, side) :
          x.of \in levels[x.depth] /\ x.of \in call.decls /\ IsDecl(x.of)
  BY <1>1, <1>2, <1>3, <1>4
<1> QED
  BY <1>4, <1>5, <1>6, <1>7

\* The first of some candidates is one of them, and before the others.
LEMMA FirstIsLeast ==
    ASSUME IsCall(call), NEW levels \in Seq(Level), NEW side, IsSide(side),
           NEW P \in SUBSET Ranged(levels, side), P # {}
    PROVE  /\ First(P) \in P
           /\ \A y \in P : y = First(P) \/ Before(First(P), y)
<1>1. \A x \in P : /\ x = [depth |-> x.depth, of |-> x.of] /\ x.depth \in Nat
                   /\ x.of.line \in Nat /\ x.of.id \in Nat /\ x.of \in call.decls
  <2>1. \A x \in P : /\ x = [depth |-> x.depth, of |-> x.of]
                     /\ x.depth \in 1..Len(levels) /\ x.of \in call.decls /\ IsDecl(x.of)
    BY RangedShape
  <2>2. Len(levels) \in Nat
    BY LenProperties
  <2> QED
    BY <2>1, <2>2 DEF IsDecl
<1>2. \A d, e \in call.decls : d.id = e.id => d = e
  BY DEF IsCall
<1>3. PICK a1 \in P : \A y \in P : a1.depth <= y.depth
  <2> DEFINE S == {x.depth : x \in P}
  <2>1. S \in SUBSET Nat /\ S # {}
    BY <1>1
  <2> HIDE DEF S
  <2>2. \E m \in S : \A k \in S : m <= k
    BY <2>1, LeastOf
  <2> QED
    BY <2>2 DEF S
<1>4. PICK a2 \in P : a2.depth = a1.depth
                      /\ \A y \in P : y.depth = a1.depth => a2.of.line <= y.of.line
  <2> DEFINE S == {x.of.line : x \in {y \in P : y.depth = a1.depth}}
  <2>1. S \in SUBSET Nat /\ S # {}
    BY <1>1
  <2> HIDE DEF S
  <2>2. \E m \in S : \A k \in S : m <= k
    BY <2>1, LeastOf
  <2> QED
    BY <2>2 DEF S
<1>5. PICK a3 \in P : a3.depth = a1.depth /\ a3.of.line = a2.of.line
                      /\ \A y \in P : y.depth = a1.depth /\ y.of.line = a2.of.line
                                      => a3.of.id <= y.of.id
  <2> DEFINE S == {x.of.id : x \in {y \in P : y.depth = a1.depth /\ y.of.line = a2.of.line}}
  <2>1. S \in SUBSET Nat /\ S # {}
    BY <1>1, <1>4
  <2> HIDE DEF S
  <2>2. \E m \in S : \A k \in S : m <= k
    BY <2>1, LeastOf
  <2> QED
    BY <2>2 DEF S
<1>6. \A y \in P : a3 = y \/ Before(a3, y)
  <2> TAKE y \in P
  <2>1. /\ a3.depth \in Nat /\ y.depth \in Nat /\ a3.of.line \in Nat /\ y.of.line \in Nat
        /\ a3.of.id \in Nat /\ y.of.id \in Nat
    BY <1>1
  <2>2. a3.depth = y.depth /\ a3.of.id = y.of.id => a3 = y
    <3>1. a3.of \in call.decls /\ y.of \in call.decls
      BY <1>1
    <3>2. a3.of.id = y.of.id => a3.of = y.of
      BY <1>2, <3>1
    <3>3. a3 = [depth |-> a3.depth, of |-> a3.of] /\ y = [depth |-> y.depth, of |-> y.of]
      BY <1>1
    <3> QED
      BY <3>2, <3>3
  <2>3. a3.depth <= y.depth
    BY <1>3, <1>5
  <2>4. a3.depth = y.depth => a3.of.line <= y.of.line
    BY <1>4, <1>5
  <2>5. a3.depth = y.depth /\ a3.of.line = y.of.line => a3.of.id <= y.of.id
    BY <1>5
  <2> QED
    BY <2>1, <2>2, <2>3, <2>4, <2>5 DEF Before
<1>7. First(P) \in P /\ \A y \in P : First(P) = y \/ Before(First(P), y)
  <2> DEFINE least == CHOOSE x \in P : \A y \in P : x = y \/ Before(x, y)
  <2>1. least \in P /\ \A y \in P : least = y \/ Before(least, y)
    BY <1>6, Zenon
  <2> QED
    BY <2>1, Zenon DEF First
<1> QED
  BY <1>7, Zenon

\* What comes before what is an order.
LEMMA BeforeOrders ==
    ASSUME IsCall(call), NEW levels \in Seq(Level), NEW side, IsSide(side),
           NEW x \in Ranged(levels, side), NEW y \in Ranged(levels, side), Before(x, y)
    PROVE  ~Before(y, x) /\ x # y /\ x.depth <= y.depth
<1>1. \A z \in Ranged(levels, side) : z.depth \in 1..Len(levels) /\ IsDecl(z.of)
  BY RangedShape
<1>2. /\ x.depth \in Int /\ y.depth \in Int /\ x.of.line \in Nat /\ y.of.line \in Nat
      /\ x.of.id \in Nat /\ y.of.id \in Nat
  BY <1>1 DEF IsDecl
<1> QED
  BY <1>2 DEF Before

\* Some candidate is left when those with a key of an earlier one are dropped.
LEMMA PoolShape ==
    ASSUME IsCall(call), NEW levels \in Seq(Level), levels # <<>>, NEW side, IsSide(side)
    PROVE  /\ PoolOf(levels, side) \subseteq Ranged(levels, side)
           /\ PoolOf(levels, side) # {} /\ IsFiniteSet(PoolOf(levels, side))
           /\ \A x \in PoolOf(levels, side), y \in Ranged(levels, side) :
                 Before(y, x) => ~SameKey(y.of, x.of)
           /\ First(Ranged(levels, side)) \in PoolOf(levels, side)
<1> DEFINE all == Ranged(levels, side)
<1>1. PoolOf(levels, side) = {x \in all : \A y \in all : Before(y, x) => ~SameKey(y.of, x.of)}
  BY Zenon DEF PoolOf, Ranged
<1>2. all # {} /\ IsFiniteSet(all)
  BY RangedShape
<1>3. First(all) \in all /\ \A y \in all : y = First(all) \/ Before(First(all), y)
  BY <1>2, FirstIsLeast
<1>4. \A y \in all : ~Before(y, First(all))
  <2> SUFFICES ASSUME NEW y \in all, Before(y, First(all)) PROVE FALSE
    OBVIOUS
  <2>1. y # First(all) /\ ~Before(First(all), y)
    BY <1>3, BeforeOrders
  <2> QED
    BY <1>3, <2>1
<1>5. First(all) \in PoolOf(levels, side)
  BY <1>1, <1>3, <1>4, Zenon
<1>6. PoolOf(levels, side) \subseteq all
  BY <1>1
<1> QED
  BY <1>1, <1>2, <1>5, <1>6, FS_Subset

\* The sets a choice narrows the candidates to, one after the other.
Accepted(levels, count, side) ==
    {x \in PoolOf(levels, side) : Accepts(x.of, count, side.instance)}
Opened(levels, count, side) == OrAll(Accepted(levels, count, side), PoolOf(levels, side))
Scored(levels, count, args, side) ==
    IF args # <<>> /\ count = Len(args)
    THEN {x \in Opened(levels, count, side) : Scorable(x.of, args, side.instance)} ELSE {}
Fittest(levels, count, args, side) ==
    {x \in Scored(levels, count, args, side) :
        /\ Fitness(x.of, args, side.instance) >= 0
        /\ \A y \in Scored(levels, count, args, side) :
              Fitness(y.of, args, side.instance) <= Fitness(x.of, args, side.instance)}
Left(levels, count, args, side) ==
    OrAll(Fittest(levels, count, args, side), Opened(levels, count, side))
Others(levels, count, args, side) ==
    {x \in Left(levels, count, args, side) : x.of.id # side.avoid}

\* What decided, and the candidates of which the first was taken.
Decided(levels, count, args, side, how, P) ==
    \/ how = "single" /\ P = PoolOf(levels, side) /\ \E x : P = {x}
    \/ how = "arity" /\ P = Accepted(levels, count, side) /\ \E x : P = {x}
    \/ how = "types" /\ P = Fittest(levels, count, args, side) /\ \E x : P = {x}
    \/ /\ how = "group"
       /\ P = OrAll(Others(levels, count, args, side), Left(levels, count, args, side))

\* An overload is the first of the candidates that decided (_jvm_pick).
LEMMA OverloadDecides ==
    ASSUME IsCall(call), NEW levels \in Seq(Level), levels # <<>>,
           NEW count, NEW args, NEW side, IsSide(side)
    PROVE  \/ Overload(levels, count, args, side) = Ambiguous
           \/ \E how, P : /\ P \subseteq PoolOf(levels, side) /\ P # {}
                          /\ Decided(levels, count, args, side, how, P)
                          /\ Overload(levels, count, args, side) = Chosen(how, P)
<1> DEFINE pool == PoolOf(levels, side)
           accepted == Accepted(levels, count, side)
           open == Opened(levels, count, side)
           fittest == Fittest(levels, count, args, side)
           left == Left(levels, count, args, side)
           others == Others(levels, count, args, side)
           out == Overload(levels, count, args, side)
<1>1. out = IF \E k \in DOMAIN levels : Several(Meant(levels[k], side)) THEN Ambiguous
            ELSE IF Cardinality(pool) = 1 THEN Chosen("single", pool)
            ELSE IF Cardinality(accepted) = 1 /\ count # NoCount THEN Chosen("arity", accepted)
            ELSE IF Cardinality(fittest) = 1 THEN Chosen("types", fittest)
            ELSE Chosen("group", OrAll(others, left))
  BY Zenon DEF Overload, Accepted, Opened, Scored, Fittest, Left, Others
<1>2. pool # {} /\ IsFiniteSet(pool)
  BY PoolShape
<1>3. accepted \subseteq pool /\ open \subseteq pool /\ open # {}
  BY <1>2 DEF Accepted, Opened, OrAll
<1>4. fittest \subseteq pool /\ left \subseteq pool /\ left # {}
  BY <1>3 DEF Fittest, Scored, Left, OrAll
<1>5. OrAll(others, left) \subseteq pool /\ OrAll(others, left) # {}
  BY <1>4 DEF Others, OrAll
<1>6. IsFiniteSet(accepted) /\ IsFiniteSet(fittest)
  BY <1>2, <1>3, <1>4, FS_Subset
<1> DEFINE Right(how, P) == /\ P \subseteq pool /\ P # {}
                            /\ Decided(levels, count, args, side, how, P)
                            /\ out = Chosen(how, P)
<1> SUFFICES out = Ambiguous \/ \E how, P : Right(how, P)
  OBVIOUS
<1>7. Right("group", OrAll(others, left)) \/ out # Chosen("group", OrAll(others, left))
  BY <1>5 DEF Decided
<1>8. ASSUME Cardinality(pool) = 1, out = Chosen("single", pool) PROVE Right("single", pool)
  BY <1>2, <1>8, FS_Singleton DEF Decided
<1>9. ASSUME Cardinality(accepted) = 1, out = Chosen("arity", accepted)
      PROVE  Right("arity", accepted)
  <2>1. \E x : accepted = {x}
    BY <1>6, <1>9, FS_Singleton
  <2> QED
    BY <1>3, <1>9, <2>1 DEF Decided
<1>10. ASSUME Cardinality(fittest) = 1, out = Chosen("types", fittest) PROVE Right("types", fittest)
  <2>1. \E x : fittest = {x}
    BY <1>6, <1>10, FS_Singleton
  <2> QED
    BY <1>4, <1>10, <2>1 DEF Decided
<1> HIDE DEF Right, pool, accepted, fittest, left, others, out
<1> QED
  BY <1>1, <1>7, <1>8, <1>9, <1>10, Zenon

\* A call is bound to nothing, or to a declaration it can meet.
LEMMA OverloadTyped ==
    ASSUME IsCall(call), NEW levels \in Seq(Level), levels # <<>>,
           NEW count, NEW args, NEW side, IsSide(side)
    PROVE  /\ Overload(levels, count, args, side).target \in {d.id : d \in call.decls} \cup {Unbound}
           /\ Overload(levels, count, args, side).how \in
                 {"single", "arity", "types", "group", "ambiguous"}
<1> DEFINE out == Overload(levels, count, args, side)
<1>1. CASE out = Ambiguous
  BY <1>1 DEF Ambiguous
<1>2. CASE out # Ambiguous
  <2>1. PICK how, P : /\ P \subseteq PoolOf(levels, side) /\ P # {}
                      /\ Decided(levels, count, args, side, how, P)
                      /\ out = Chosen(how, P)
    BY <1>2, OverloadDecides
  <2>2. P \in SUBSET Ranged(levels, side)
    BY <2>1, PoolShape
  <2>3. First(P) \in P
    BY <2>1, <2>2, FirstIsLeast
  <2>4. First(P).of \in call.decls
    BY <2>2, <2>3, RangedShape
  <2>5. how \in {"single", "arity", "types", "group"}
    BY <2>1 DEF Decided
  <2>6. out.how = how /\ out.target = First(P).of.id
    BY <2>1 DEF Chosen
  <2>7. First(P).of.id \in {d.id : d \in call.decls}
    BY <2>4
  <2> QED
    BY <2>5, <2>6, <2>7
<1> QED
  BY <1>1, <1>2

\* The parameters decide what a declaration accepts and how well.
LEMMA ParamsDecide ==
    ASSUME NEW d, NEW e, d.params = e.params, NEW count, NEW args, NEW instance
    PROVE  /\ Accepts(d, count, instance) <=> Accepts(e, count, instance)
           /\ Scorable(d, args, instance) <=> Scorable(e, args, instance)
           /\ Fitness(d, args, instance) = Fitness(e, args, instance)
<1>1. ParamsOf(d, instance) = ParamsOf(e, instance)
  BY Zenon DEF ParamsOf
<1>2. \A i : FitAt(d, args, i, instance) = FitAt(e, args, i, instance)
  BY <1>1, Zenon DEF FitAt
<1>3. [i \in DOMAIN args |-> FitAt(d, args, i, instance)]
        = [i \in DOMAIN args |-> FitAt(e, args, i, instance)]
  BY <1>2, Zenon
<1>4. Fitness(d, args, instance) = Fitness(e, args, instance)
  BY <1>1, <1>3, Zenon DEF Fitness
<1>5. Accepts(d, count, instance) <=> Accepts(e, count, instance)
  BY <1>1, Zenon DEF Accepts
<1>6. Scorable(d, args, instance) <=> Scorable(e, args, instance)
  BY <1>1, Zenon DEF Scorable
<1> QED
  BY <1>4, <1>5, <1>6

\* Of two candidates that take the same, the earlier is left with the later.
LEMMA EarlierLeft ==
    ASSUME IsCall(call), NEW levels \in Seq(Level), levels # <<>>,
           NEW count, NEW args, NEW side, IsSide(side), NEW how, NEW P,
           P \subseteq PoolOf(levels, side), P # {},
           Decided(levels, count, args, side, how, P),
           NEW y \in PoolOf(levels, side), Before(y, First(P)),
           y.of.params = First(P).of.params
    PROVE  y.of.id = side.avoid
<1> DEFINE x == First(P)
           fittest == Fittest(levels, count, args, side)
           open == Opened(levels, count, side)
           left == Left(levels, count, args, side)
           others == Others(levels, count, args, side)
           accepted == Accepted(levels, count, side)
<1>1. P \in SUBSET Ranged(levels, side) /\ y \in Ranged(levels, side)
  BY PoolShape
<1>2. x \in P /\ \A z \in P : z = x \/ Before(x, z)
  BY <1>1, FirstIsLeast
<1>3. x \in Ranged(levels, side) /\ x \in PoolOf(levels, side)
  BY <1>1, <1>2
<1>4. ~Before(x, y) /\ x # y
  BY <1>1, <1>3, BeforeOrders
<1>5. y \notin P
  BY <1>2, <1>4
<1> HIDE DEF x
<1>6. /\ Accepts(x.of, count, side.instance) <=> Accepts(y.of, count, side.instance)
      /\ Scorable(x.of, args, side.instance) <=> Scorable(y.of, args, side.instance)
      /\ Fitness(x.of, args, side.instance) = Fitness(y.of, args, side.instance)
  <2>1. x.of.params = y.of.params
    BY DEF x
  <2>2. \A d, e : d.params = e.params =>
            /\ Accepts(d, count, side.instance) <=> Accepts(e, count, side.instance)
            /\ Scorable(d, args, side.instance) <=> Scorable(e, args, side.instance)
            /\ Fitness(d, args, side.instance) = Fitness(e, args, side.instance)
    BY ParamsDecide
  <2> QED
    BY <2>1, <2>2, Zenon
<1>7. x \in accepted => y \in accepted
  BY <1>6 DEF Accepted
<1>8. x \in open => y \in open
  BY <1>3, <1>7 DEF Opened, OrAll
<1>9. x \in fittest => y \in fittest
  <2>1. x \in Scored(levels, count, args, side) => y \in Scored(levels, count, args, side)
    BY <1>6, <1>8, Zenon DEF Scored
  <2> QED
    BY <1>6, <2>1, Zenon DEF Fittest
<1>10. x \in left => y \in left
  BY <1>8, <1>9, Zenon DEF Left, OrAll
<1>11. CASE how = "single" /\ P = PoolOf(levels, side)
  BY <1>5, <1>11
<1>12. CASE P = accepted
  BY <1>2, <1>5, <1>7, <1>12
<1>13. CASE P = fittest
  BY <1>2, <1>5, <1>9, <1>13
<1>14. CASE P = OrAll(others, left)
  <2>1. others \subseteq left
    BY DEF Others
  <2>2. x \in left
    BY <1>2, <1>14, <2>1 DEF OrAll
  <2>3. y \in left
    BY <1>10, <2>2
  <2>4. y \notin others
    BY <1>5, <1>14 DEF OrAll
  <2> QED
    BY <2>3, <2>4 DEF Others
<1> QED
  BY <1>11, <1>12, <1>13, <1>14 DEF Decided

\* A call is bound past an override only where there are no parameters and the
\* override is the caller.
LEMMA NearestIsBound ==
    ASSUME IsCall(call), NEW levels \in Seq(Level), levels # <<>>,
           NEW count, NEW args, NEW side, IsSide(side),
           NEW k \in DOMAIN levels, NEW j \in 1..k - 1,
           NEW far \in levels[k], NEW close \in Meant(levels[j], side),
           far.id = Overload(levels, count, args, side).target,
           far.params # Unread, close.params # Unread,
           [i \in DOMAIN far.params |-> Key(far.params[i])]
             = [i \in DOMAIN close.params |-> Key(close.params[i])],
           \A i \in 1..k - 1 : far \notin levels[i]
    PROVE  far.params = <<>> /\ close.id = side.avoid
<1> DEFINE out == Overload(levels, count, args, side)
           all == Ranged(levels, side)
<1>1. /\ DOMAIN levels = 1..Len(levels) /\ Len(levels) \in Nat
      /\ \A i \in 1..Len(levels) : levels[i] \subseteq call.decls /\ levels[i] # {}
  <2>1. \A i \in 1..Len(levels) : levels[i] \in Level
    BY LenProperties
  <2> QED
    BY <2>1, LenProperties DEF Level
<1>2. far \in call.decls /\ IsDecl(far) /\ j \in 1..Len(levels) /\ j \in Nat /\ k \in Nat
  BY <1>1 DEF IsCall
<1>3. \A d, e \in call.decls : d.id = e.id => d = e
  BY DEF IsCall
<1>4. out # Ambiguous
  <2>1. far.id # Unbound
    BY <1>2 DEF IsDecl
  <2> QED
    BY <2>1 DEF Ambiguous
<1>5. PICK how, P : /\ P \subseteq PoolOf(levels, side) /\ P # {}
                    /\ Decided(levels, count, args, side, how, P)
                    /\ out = Chosen(how, P)
  BY <1>4, OverloadDecides
<1> DEFINE x == First(P)
<1>6. P \in SUBSET all
  BY <1>5, PoolShape
<1>7. x \in P
  BY <1>5, <1>6, FirstIsLeast
<1>8. /\ x \in all /\ x.depth \in 1..Len(levels) /\ x.of \in levels[x.depth] /\ x.of \in call.decls
  BY <1>6, <1>7, RangedShape
<1>9. x.of = far
  <2>1. x.of.id = far.id
    BY <1>5 DEF Chosen
  <2> QED
    BY <1>2, <1>3, <1>8, <2>1
<1>10. j < x.depth
  <2>1. x.depth \notin 1..k - 1
    BY <1>8, <1>9
  <2> QED
    BY <1>2, <1>8, <2>1
<1> DEFINE y0 == [depth |-> j, of |-> close]
<1>11. y0 \in all
  <2>1. y0 \in {[depth |-> j, of |-> d] : d \in Meant(levels[j], side)}
    OBVIOUS
  <2>2. j \in DOMAIN levels
    BY <1>1, <1>2
  <2> HIDE DEF y0
  <2> QED
    BY <2>1, <2>2 DEF Ranged
<1>12. close \in call.decls /\ IsDecl(close)
  BY <1>11, RangedShape
<1>13. Before(y0, x)
  BY <1>10 DEF Before
<1>14. far.params = <<>> /\ close.params = <<>>
  <2>1. far.params \in Seq(Parameters) /\ close.params \in Seq(Parameters)
    BY <1>2, <1>12 DEF IsDecl
  <2>2. DOMAIN far.params = DOMAIN close.params
    <3> DEFINE f == [i \in DOMAIN far.params |-> Key(far.params[i])]
               g == [i \in DOMAIN close.params |-> Key(close.params[i])]
    <3>1. DOMAIN f = DOMAIN far.params /\ DOMAIN g = DOMAIN close.params
      OBVIOUS
    <3>2. f = g
      OBVIOUS
    <3> HIDE DEF f, g
    <3> QED
      BY <3>1, <3>2
  <2>3. far.params = <<>> <=> close.params = <<>>
    BY <2>1, <2>2
  <2>4. ~SameKey(close, far)
    BY <1>5, <1>7, <1>9, <1>11, <1>13, PoolShape
  <2> QED
    BY <2>3, <2>4, Zenon DEF SameKey
<1> DEFINE Q == {z \in all : z.of = close}
           y == First(Q)
<1>15. Q \in SUBSET all /\ Q # {}
  BY <1>11
<1>16. y \in Q /\ \A z \in Q : z = y \/ Before(y, z)
  <2> HIDE DEF Q
  <2> QED
    BY <1>15, FirstIsLeast
<1>17. y \in all /\ y.of = close
  BY <1>16
<1>18. y = y0 \/ Before(y, y0)
  BY <1>11, <1>16
<1> HIDE DEF y
<1>19. y.depth < x.depth /\ y.depth \in Nat
  <2>1. y.depth <= j
    <3>1. Before(y, y0) => y.depth <= y0.depth
      <4> HIDE DEF y0
      <4> QED
        BY <1>11, <1>17, BeforeOrders
    <3> QED
      BY <1>2, <1>18, <3>1
  <2>2. y.depth \in 1..Len(levels)
    BY <1>17, RangedShape
  <2> QED
    BY <1>1, <1>2, <1>8, <1>10, <2>1, <2>2
<1>20. Before(y, x)
  BY <1>19 DEF Before
<1>21. y \in PoolOf(levels, side)
  <2>1. \A z \in all : Before(z, y) => ~SameKey(z.of, y.of)
    <3> SUFFICES ASSUME NEW z \in all, Before(z, y), SameKey(z.of, y.of) PROVE FALSE
      OBVIOUS
    <3>1. z.of = close
      BY <1>14, <1>17 DEF SameKey
    <3>2. z = y \/ Before(y, z)
      BY <1>16, <3>1
    <3> QED
      BY <1>17, <3>2, BeforeOrders
  <2>2. PoolOf(levels, side)
          = {z \in all : \A v \in all : Before(v, z) => ~SameKey(v.of, z.of)}
    BY Zenon DEF PoolOf, Ranged
  <2> QED
    BY <1>17, <2>1, <2>2
<1>22. y.of.params = x.of.params
  BY <1>9, <1>14, <1>17
<1>23. y.of.id = side.avoid
  BY <1>5, <1>20, <1>21, <1>22, EarlierLeft
<1> QED
  BY <1>14, <1>17, <1>23

----------------------------------------------------------------------------
(* JvmMembers: the scores of arguments.                                     *)

\* The greater of two scores is one of them.
LEMMA GreaterOfTwo ==
    ASSUME NEW i \in Int, NEW k \in Int
    PROVE  Max({i, k}) \in {i, k}
<1>1. \E m \in {i, k} : \A v \in {i, k} : m >= v
  OBVIOUS
<1>2. Max({i, k}) = CHOOSE m \in {i, k} : \A v \in {i, k} : m >= v
  BY DEF Max
<1> QED
  BY <1>1, <1>2, Zenon

\* A score lies between that of a misfit and that of the type itself.
LEMMA FitBounds ==
    ASSUME NEW arg, NEW param, ~arg.array
    PROVE  Fit(arg, param) \in -5..6
<1>1. \A ca, cp : NumberFit(ca, cp) \in -5..6
  <2> TAKE ca, cp
  <2>1. CASE IsNumber(ca) /\ IsNumber(cp) /\ NumberRank(ca) < NumberRank(cp)
    <3>1. \A name : IsNumber(name) => NumberRank(name) \in Nat
      <4> SUFFICES ASSUME NEW name, IsNumber(name) PROVE NumberRank(name) \in Nat
        OBVIOUS
      <4>1. \E i \in DOMAIN Widening : Widening[i] = name
        BY DEF IsNumber, ToSet
      <4>2. NumberRank(name) \in DOMAIN Widening
        BY <4>1, Zenon DEF NumberRank
      <4>3. Widening \in Seq(STRING)
        BY JvmAssumption DEF JvmAssumption
      <4> QED
        BY <4>2, <4>3
    <3> DEFINE wide == 4 - ((NumberRank(cp) - NumberRank(ca)) \div 3)
    <3>2. wide \in Int /\ wide <= 4
      <4>1. NumberRank(cp) - NumberRank(ca) \in Nat
        BY <2>1, <3>1
      <4>2. \A v \in Nat : v \div 3 \in Nat
        OBVIOUS
      <4> QED
        BY <4>1, <4>2
    <3> HIDE DEF wide
    <3>3. Max({2, wide}) \in {2, wide} /\ Max({2, wide}) >= 2
      <4>1. \E m \in {2, wide} : \A v \in {2, wide} : m >= v
        BY <3>2
      <4>2. Max({2, wide}) = CHOOSE m \in {2, wide} : \A v \in {2, wide} : m >= v
        BY DEF Max
      <4>3. Max({2, wide}) \in {2, wide} /\ \A v \in {2, wide} : Max({2, wide}) >= v
        BY <4>1, <4>2, Zenon
      <4> QED
        BY <4>3
    <3>4. NumberFit(ca, cp) = Max({2, wide})
      BY <2>1 DEF NumberFit, wide
    <3> QED
      BY <3>2, <3>3, <3>4
  <2>2. CASE ~(IsNumber(ca) /\ IsNumber(cp) /\ NumberRank(ca) < NumberRank(cp))
    <3>1. NumberFit(ca, cp) = Misfit
      BY <2>2, Zenon DEF NumberFit
    <3> QED
      BY <3>1 DEF Misfit
  <2> QED
    BY <2>1, <2>2
<1>2. PlainFit(arg, param) \in -5..6
  <2> DEFINE ca == Canon(arg.name)
             cp == Canon(param.name)
             primitive == IsPrimitive(ca) \/ IsPrimitive(cp)
             Scores == {-5, 0, 1, 2, 4, 5, 6, NumberFit(ca, cp)}
  <2>1. PlainFit(arg, param) \in Scores
    <3> HIDE DEF ca, cp
    <3> USE DEF Misfit
    <3>1. CASE ca = cp
      BY <3>1 DEF PlainFit, ca, cp
    <3>2. CASE ca # cp /\ cp = "object"
      BY <3>2 DEF PlainFit, ca, cp
    <3>3. CASE ca # cp /\ cp # "object" /\ primitive
      BY <3>3 DEF PlainFit, ca, cp
    <3>4. CASE ca # cp /\ cp # "object" /\ ~primitive /\ ca = "string"
      BY <3>4 DEF PlainFit, ca, cp
    <3>5. CASE ca # cp /\ cp # "object" /\ ~primitive /\ ca # "string" /\ cp = "string"
      BY <3>5 DEF PlainFit, ca, cp
    <3>6. CASE ca # cp /\ cp # "object" /\ ~primitive /\ ca # "string" /\ cp # "string"
      BY <3>6 DEF PlainFit, ca, cp
    <3> QED
      BY <3>1, <3>2, <3>3, <3>4, <3>5, <3>6
  <2> HIDE DEF ca, cp
  <2> QED
    BY <1>1, <2>1
<1>3. Fit(arg, param) \in {-5, 0, 1, PlainFit(arg, param)}
  BY Zenon DEF Fit, Misfit, NotKnown
<1> QED
  BY <1>2, <1>3

\* So does that of an argument of a call, whatever the parameters.
LEMMA FitAtBounds ==
    ASSUME NEW d, NEW args, NEW i, ~args[i].array, NEW instance
    PROVE  FitAt(d, args, i, instance) \in -5..6
<1> DEFINE params == ParamsOf(d, instance)
           p == ParamAt(params, i)
           one == Fit(args[i], [p.type EXCEPT !.array = FALSE])
           all == Fit(args[i], p.type)
<1>1. one \in -5..6 /\ all \in -5..6
  BY FitBounds
<1>2. FitAt(d, args, i, instance) \in {0, one, all, Max({one, all})}
  BY Zenon DEF FitAt
<1> HIDE DEF one, all
<1>3. Max({one, all}) \in {one, all}
  BY <1>1, GreaterOfTwo
<1> QED
  BY <1>1, <1>2, <1>3

\* The sum of one or two scores.
LEMMA TotalOfTwo ==
    ASSUME NEW n1 \in {1, 2}, NEW scores \in [1..n1 -> Int]
    PROVE  Total(scores) = IF n1 = 1 THEN scores[1] ELSE scores[1] + scores[2]
<1> DEFINE sum == CHOOSE f : f = [i \in 0..Len(scores) |-> IF i = 0 THEN 0 ELSE f[i - 1] + scores[i]]
           g == [i \in 0..Len(scores) |-> IF i = 0 THEN 0
                                          ELSE IF i = 1 THEN scores[1] ELSE scores[1] + scores[2]]
<1>1. Len(scores) = n1
  OBVIOUS
<1>2. Total(scores) = sum[Lesser(Len(scores), Len(scores))]
  BY Zenon DEF Total, SumFirst
<1>3. Lesser(Len(scores), Len(scores)) = n1
  BY <1>1 DEF Lesser
<1>4. g = [i \in 0..Len(scores) |-> IF i = 0 THEN 0 ELSE g[i - 1] + scores[i]]
  <2> SUFFICES ASSUME NEW i \in 0..Len(scores)
               PROVE  g[i] = IF i = 0 THEN 0 ELSE g[i - 1] + scores[i]
    OBVIOUS
  <2>1. CASE i = 0
    BY <2>1
  <2>2. CASE i = 1
    <3>1. g[0] = 0 /\ g[1] = scores[1] /\ scores[1] \in Int
      BY <1>1
    <3> QED
      BY <2>2, <3>1
  <2>3. CASE i = 2
    <3>1. g[1] = scores[1] /\ g[2] = scores[1] + scores[2]
      BY <1>1, <2>3
    <3> QED
      BY <2>3, <3>1
  <2> QED
    BY <1>1, <2>1, <2>2, <2>3
<1>5. sum = [i \in 0..Len(scores) |-> IF i = 0 THEN 0 ELSE sum[i - 1] + scores[i]]
  <2> HIDE DEF g
  <2> QED
    BY <1>4, Zenon
<1> HIDE DEF sum
<1>6. sum[0] = 0 /\ sum[1] = sum[0] + scores[1] /\ (n1 = 2 => sum[2] = sum[1] + scores[2])
  BY <1>1, <1>5
<1>7. scores[1] \in Int /\ (n1 = 2 => scores[2] \in Int)
  OBVIOUS
<1> QED
  BY <1>2, <1>3, <1>6, <1>7

\* What a call with one or two arguments, which are no arrays, is told of a
\* declaration: the scores of the arguments, less one for varargs.
LEMMA FitnessOfFew ==
    ASSUME NEW d, NEW args \in Seq([name : STRING, array : BOOLEAN]), Len(args) \in {1, 2},
           \A i \in DOMAIN args : ~args[i].array, NEW instance
    PROVE  LET sum == IF Len(args) = 1 THEN FitAt(d, args, 1, instance)
                      ELSE FitAt(d, args, 1, instance) + FitAt(d, args, 2, instance)
               many == \E i \in DOMAIN args : ParamAt(ParamsOf(d, instance), i).varargs
           IN  /\ \A i \in DOMAIN args : FitAt(d, args, i, instance) \in -5..6
               /\ sum \in -10..12
               /\ Fitness(d, args, instance) \in {sum, sum - 1}
               /\ d.params # Unread /\ ~many => Fitness(d, args, instance) = sum
<1> DEFINE scores == [i \in DOMAIN args |-> FitAt(d, args, i, instance)]
           sum == IF Len(args) = 1 THEN FitAt(d, args, 1, instance)
                  ELSE FitAt(d, args, 1, instance) + FitAt(d, args, 2, instance)
           many == \E i \in DOMAIN args : ParamAt(ParamsOf(d, instance), i).varargs
<1>1. \A i \in DOMAIN args : FitAt(d, args, i, instance) \in -5..6
  BY FitAtBounds
<1>2. DOMAIN args = 1..Len(args)
  BY LenProperties
<1>3. scores \in [1..Len(args) -> Int]
  BY <1>1, <1>2
<1>4. Total(scores) = IF Len(args) = 1 THEN scores[1] ELSE scores[1] + scores[2]
  <2> HIDE DEF scores
  <2> QED
    BY <1>3, TotalOfTwo
<1>5. Total(scores) = sum /\ sum \in -10..12
  <2>1. CASE Len(args) = 1
    <3>1. FitAt(d, args, 1, instance) \in -5..6 /\ scores[1] = FitAt(d, args, 1, instance)
      BY <1>1, <1>2, <2>1
    <3> HIDE DEF scores
    <3> QED
      BY <1>4, <2>1, <3>1
  <2>2. CASE Len(args) = 2
    <3>1. /\ FitAt(d, args, 1, instance) \in -5..6 /\ scores[1] = FitAt(d, args, 1, instance)
          /\ FitAt(d, args, 2, instance) \in -5..6 /\ scores[2] = FitAt(d, args, 2, instance)
      BY <1>1, <1>2, <2>2
    <3> HIDE DEF scores
    <3>2. Total(scores) = scores[1] + scores[2]
      BY <1>4, <2>2
    <3>3. sum = scores[1] + scores[2]
      BY <2>2, <3>1
    <3>4. \A i, k \in -5..6 : i + k \in -10..12
      OBVIOUS
    <3> HIDE DEF sum
    <3> QED
      BY <3>1, <3>2, <3>3, <3>4
  <2> QED
    BY <2>1, <2>2
<1>6. Fitness(d, args, instance) = Total(scores) - (IF d.params # Unread /\ many THEN 1 ELSE 0)
  BY Zenon DEF Fitness
<1> HIDE DEF scores, sum, many
<1>7. /\ sum \in -10..12 /\ Fitness(d, args, instance) \in {sum, sum - 1}
      /\ d.params # Unread /\ ~many => Fitness(d, args, instance) = sum
  BY <1>5, <1>6
<1> QED
  BY <1>1, <1>7 DEF sum, many

\* A declaration of fixed arity that takes all arguments well scores at least one
\* for each, one that cannot take some argument at most one in all.
LEMMA WellAndBadly ==
    ASSUME NEW args \in Seq([name : STRING, array : BOOLEAN]), Len(args) \in {1, 2},
           \A i \in DOMAIN args : ~args[i].array, NEW instance, NEW d
    PROVE  /\ Fitness(d, args, instance) \in -11..12
           /\ (\E i \in DOMAIN args : ~(FitAt(d, args, i, instance) > Misfit))
                 => Fitness(d, args, instance) < Len(args)
           /\ /\ d.params \in Seq(Parameters) /\ d.params # Unread
              /\ \A p \in ToSet(d.params) : ~p.varargs
              /\ Accepts(d, Len(args), instance)
              /\ \A i \in DOMAIN args : FitAt(d, args, i, instance) > 0
              => Fitness(d, args, instance) >= Len(args) /\ Scorable(d, args, instance)
<1> DEFINE sum == IF Len(args) = 1 THEN FitAt(d, args, 1, instance)
                  ELSE FitAt(d, args, 1, instance) + FitAt(d, args, 2, instance)
           many == \E i \in DOMAIN args : ParamAt(ParamsOf(d, instance), i).varargs
           total == Fitness(d, args, instance)
<1>1. /\ \A i \in DOMAIN args : FitAt(d, args, i, instance) \in -5..6
      /\ sum \in -10..12 /\ total \in {sum, sum - 1}
      /\ d.params # Unread /\ ~many => total = sum
  BY FitnessOfFew
<1>2. DOMAIN args = 1..Len(args)
  BY LenProperties
<1>3. total \in -11..12 /\ total <= sum
  <2> HIDE DEF sum, total
  <2> QED
    BY <1>1
<1>4. ASSUME \E i \in DOMAIN args : ~(FitAt(d, args, i, instance) > Misfit)
      PROVE  total < Len(args)
  <2>1. PICK i \in DOMAIN args : FitAt(d, args, i, instance) = -5
    BY <1>1, <1>4 DEF Misfit
  <2>2. sum < Len(args)
    <3>1. CASE Len(args) = 1
      BY <1>2, <2>1, <3>1
    <3>2. CASE Len(args) = 2
      <4>1. i \in {1, 2} /\ 1 \in DOMAIN args /\ 2 \in DOMAIN args
        BY <1>2, <3>2
      <4>2. FitAt(d, args, 1, instance) \in -5..6 /\ FitAt(d, args, 2, instance) \in -5..6
        BY <1>1, <4>1
      <4> QED
        BY <2>1, <3>2, <4>1, <4>2
    <3> QED
      BY <3>1, <3>2
  <2> HIDE DEF sum, total
  <2> QED
    BY <1>1, <1>3, <2>2
<1>5. ASSUME /\ d.params \in Seq(Parameters) /\ d.params # Unread
             /\ \A p \in ToSet(d.params) : ~p.varargs
             /\ Accepts(d, Len(args), instance)
             /\ \A i \in DOMAIN args : FitAt(d, args, i, instance) > 0
      PROVE  total >= Len(args) /\ Scorable(d, args, instance)
  <2> DEFINE params == ParamsOf(d, instance)
  <2>1. params \in Seq(Parameters) /\ \A i \in DOMAIN params : ~params[i].varargs
    <3>1. \A i \in DOMAIN d.params : ~d.params[i].varargs
      BY <1>5 DEF ToSet
    <3>2. CASE params = d.params
      BY <1>5, <3>1, <3>2
    <3>3. CASE params # d.params
      <4>1. d.params # <<>> /\ params = Tail(d.params)
        BY <3>3, Zenon DEF ParamsOf
      <4>2. params \in Seq(Parameters)
        BY <1>5, <4>1
      <4>3. \A i \in DOMAIN params : i + 1 \in DOMAIN d.params /\ params[i] = d.params[i + 1]
        BY <1>5, <4>1
      <4> HIDE DEF params
      <4> QED
        BY <3>1, <4>2, <4>3
    <3> QED
      BY <3>2, <3>3
  <2>2. Len(args) <= Len(params)
    <3>1. Len(args) # NoCount
      BY DEF NoCount
    <3> HIDE DEF params
    <3> QED
      BY <1>5, <2>1, <3>1 DEF Accepts, params
  <2>3. ~many
    <3> SUFFICES ASSUME NEW i \in DOMAIN args PROVE ~ParamAt(params, i).varargs
      OBVIOUS
    <3> HIDE DEF params
    <3>1. Len(params) \in Nat /\ DOMAIN params = 1..Len(params) /\ Len(args) \in Nat
      BY <2>1, LenProperties
    <3>2. i \in DOMAIN params /\ i <= Len(params)
      BY <1>2, <2>2, <3>1
    <3> QED
      BY <2>1, <3>2 DEF ParamAt
  <2>4. sum >= Len(args)
    <3>1. CASE Len(args) = 1
      <4>1. 1 \in DOMAIN args
        BY <1>2, <3>1
      <4> QED
        BY <1>1, <1>5, <3>1, <4>1
    <3>2. CASE Len(args) = 2
      <4>1. 1 \in DOMAIN args /\ 2 \in DOMAIN args
        BY <1>2, <3>2
      <4> QED
        BY <1>1, <1>5, <3>2, <4>1
    <3> QED
      BY <3>1, <3>2
  <2>5. Scorable(d, args, instance)
    BY <2>2, Zenon DEF Scorable
  <2> HIDE DEF sum, many, total
  <2> QED
    BY <1>1, <1>5, <2>3, <2>4, <2>5
<1>6. total \in -11..12
  BY <1>3
<1> HIDE DEF sum, many
<1> QED
  BY <1>4, <1>5, <1>6, Zenon

\* Of finitely many scores one is the highest.
LEMMA HighestScore ==
    ASSUME NEW S, NEW score \in [S -> -11..12], NEW x \in S, score[x] >= 0
    PROVE  \E z \in S : score[z] >= 0 /\ \A y \in S : score[y] <= score[z]
<1> DEFINE T == {score[y] + 11 : y \in S}
<1>1. T \in SUBSET Nat /\ T # {} /\ \A m \in T : m <= 23
  OBVIOUS
<1> HIDE DEF T
<1>2. PICK m \in T : \A v \in T : v <= m
  <2>1. 23 \in Nat
    OBVIOUS
  <2> QED
    BY <1>1, <2>1, GreatestBounded
<1>3. PICK z \in S : m = score[z] + 11
  BY <1>2 DEF T
<1>4. \A y \in S : score[y] + 11 <= score[z] + 11
  BY <1>2, <1>3 DEF T
<1>5. \A y \in S : score[y] \in Int
  OBVIOUS
<1> QED
  BY <1>4, <1>5

\* What scores no less than a candidate that takes all arguments well takes none of
\* them badly.
LEMMA ScoresOrdered ==
    ASSUME NEW i \in -11..12, NEW few \in {1, 2}, i >= few
    PROVE  i >= 0 /\ \A k \in -11..12 : k >= i => ~(k < few)
  OBVIOUS

\* Arguments that decide do not decide for a declaration that cannot take them
\* while one can.
LEMMA NoMisfitBound ==
    ASSUME IsCall(call), NEW levels \in Seq(Level), levels # <<>>, NEW count,
           NEW args \in Seq([name : STRING, array : BOOLEAN]), NEW side, IsSide(side),
           Len(args) \in {1, 2}, count = Len(args), \A i \in DOMAIN args : ~args[i].array,
           Overload(levels, count, args, side).how \in {"types", "group"},
           NEW k \in DOMAIN levels, NEW d \in levels[k],
           d.id = Overload(levels, count, args, side).target,
           \E i \in DOMAIN args : ~(FitAt(d, args, i, side.instance) > Misfit),
           NEW x \in PoolOf(levels, side),
           x.of.params # Unread, \A p \in ToSet(x.of.params) : ~p.varargs,
           Accepts(x.of, count, side.instance),
           \A i \in DOMAIN args : FitAt(x.of, args, i, side.instance) > 0
    PROVE  FALSE
<1> DEFINE out == Overload(levels, count, args, side)
           scored == Scored(levels, count, args, side)
           score == [z \in scored |-> Fitness(z.of, args, side.instance)]
           fittest == Fittest(levels, count, args, side)
<1>1. score \in [scored -> -11..12]
  BY WellAndBadly
<1>s. scored \subseteq PoolOf(levels, side)
  BY DEF Scored, Opened, Accepted, OrAll
<1>2. d \in call.decls /\ IsDecl(d)
  <2>1. levels[k] \in Level
    BY LenProperties
  <2> QED
    BY <2>1 DEF Level, IsCall
<1>3. out # Ambiguous
  BY DEF Ambiguous
<1>4. PICK how, P : /\ P \subseteq PoolOf(levels, side) /\ P # {}
                    /\ Decided(levels, count, args, side, how, P)
                    /\ out = Chosen(how, P)
  BY <1>3, OverloadDecides
<1> DEFINE least == First(P)
<1>5. P \in SUBSET Ranged(levels, side)
  BY <1>4, PoolShape
<1>6. least \in P /\ least.of \in call.decls
  <2>1. least \in P
    BY <1>4, <1>5, FirstIsLeast
  <2> QED
    BY <1>5, <2>1, RangedShape
<1>7. least.of = d
  <2>1. least.of.id = d.id
    BY <1>4 DEF Chosen
  <2>2. \A e, f \in call.decls : e.id = f.id => e = f
    BY DEF IsCall
  <2> QED
    BY <1>2, <1>6, <2>1, <2>2
<1>8. x \in Ranged(levels, side) /\ x.of.params \in Seq(Parameters)
  <2>1. x \in Ranged(levels, side)
    BY PoolShape
  <2> QED
    BY <2>1, RangedShape DEF IsDecl
<1>9. Fitness(x.of, args, side.instance) >= Len(args) /\ Scorable(x.of, args, side.instance)
  BY <1>8, WellAndBadly
<1>10. x \in scored
  <2>1. x \in Accepted(levels, count, side)
    BY DEF Accepted
  <2>2. x \in Opened(levels, count, side)
    BY <2>1 DEF Opened, OrAll
  <2>3. args # <<>>
    OBVIOUS
  <2> QED
    BY <1>9, <2>2, <2>3, Zenon DEF Scored
<1>11. score[x] >= Len(args) /\ score[x] >= 0
  <2>1. Fitness(x.of, args, side.instance) \in -11..12
    BY WellAndBadly
  <2>2. Fitness(x.of, args, side.instance) >= 0
    BY <1>9, <2>1, ScoresOrdered
  <2> QED
    BY <1>9, <1>10, <2>2
<1>12. /\ fittest # {} /\ fittest \subseteq scored
       /\ \A y \in fittest : score[y] >= score[x]
  <2>0. fittest = {y \in scored : score[y] >= 0 /\ \A v \in scored : score[v] <= score[y]}
    BY Zenon DEF Fittest
  <2> HIDE DEF score, scored, fittest
  <2>1. \E z \in scored : score[z] >= 0 /\ \A y \in scored : score[y] <= score[z]
    BY <1>1, <1>10, <1>11, HighestScore
  <2>2. fittest # {}
    BY <2>0, <2>1
  <2> QED
    BY <1>10, <2>0, <2>2
<1>13. P \subseteq fittest
  <2>1. how \in {"types", "group"}
    BY <1>4 DEF Chosen
  <2>2. Left(levels, count, args, side) = fittest
    BY <1>12 DEF Left, OrAll
  <2>3. Others(levels, count, args, side) \subseteq fittest
    BY <2>2 DEF Others
  <2>4. OrAll(Others(levels, count, args, side), Left(levels, count, args, side)) \subseteq fittest
    BY <2>2, <2>3 DEF OrAll
  <2> QED
    BY <1>4, <2>1, <2>4 DEF Decided
<1>14. least \in scored /\ score[least] >= score[x]
  BY <1>6, <1>12, <1>13
<1>15. score[least] < Len(args)
  <2>1. Fitness(least.of, args, side.instance) < Len(args)
    BY <1>7, WellAndBadly
  <2> QED
    BY <1>14, <2>1
<1>16. score[x] \in -11..12 /\ score[least] \in -11..12
  BY <1>1, <1>10, <1>14
<1> HIDE DEF score, least
<1> QED
  BY <1>11, <1>14, <1>15, <1>16, ScoresOrdered

----------------------------------------------------------------------------
(* JvmMembers: the steps of a chain.                                        *)

\* Two declarations of a type with the same name and key agree in which parameters
\* are optional or the receiver: as in Java, and in C# unless they are told apart
\* only by what a key leaves out, as m(int a) and m(int? a = null) are.
OneSignature ==
    \A d, e \in call.decls :
        d # e /\ d.name = e.name /\ d.in = e.in /\ d.dir = e.dir /\ SameKey(d, e) =>
            \A i \in DOMAIN d.params : /\ d.params[i].optional = e.params[i].optional
                                       /\ d.params[i].this = e.params[i].this

\* They accept the same numbers of arguments.
LEMMA SignatureAccepts ==
    ASSUME NEW d, NEW e, d.params \in Seq(Parameters), e.params \in Seq(Parameters),
           d.params # Unread, e.params # Unread,
           [i \in DOMAIN d.params |-> Key(d.params[i])]
             = [i \in DOMAIN e.params |-> Key(e.params[i])],
           \A i \in DOMAIN d.params : /\ d.params[i].optional = e.params[i].optional
                                      /\ d.params[i].this = e.params[i].this,
           NEW count, NEW instance
    PROVE  Accepts(d, count, instance) <=> Accepts(e, count, instance)
<1> DEFINE p == ParamsOf(d, instance)
           q == ParamsOf(e, instance)
<1>1. DOMAIN d.params = DOMAIN e.params /\ Len(d.params) = Len(e.params)
  <2> DEFINE f == [i \in DOMAIN d.params |-> Key(d.params[i])]
             g == [i \in DOMAIN e.params |-> Key(e.params[i])]
  <2>1. DOMAIN f = DOMAIN d.params /\ DOMAIN g = DOMAIN e.params
    OBVIOUS
  <2>2. f = g
    OBVIOUS
  <2> HIDE DEF f, g
  <2>3. DOMAIN d.params = DOMAIN e.params
    BY <2>1, <2>2
  <2> QED
    BY <2>3
<1>2. \A i \in DOMAIN d.params : d.params[i].varargs = e.params[i].varargs
  <2> TAKE i \in DOMAIN d.params
  <2> DEFINE f == [v \in DOMAIN d.params |-> Key(d.params[v])]
             g == [v \in DOMAIN e.params |-> Key(e.params[v])]
  <2>1. f[i] = Key(d.params[i]) /\ g[i] = Key(e.params[i]) /\ f = g
    BY <1>1
  <2>2. Key(d.params[i]) = Key(e.params[i])
    BY <2>1
  <2>3. \A v : Key(v).varargs = v.varargs
    BY DEF Key
  <2> QED
    BY <2>2, <2>3, Zenon
<1>3. /\ p \in Seq(Parameters) /\ q \in Seq(Parameters) /\ Len(p) = Len(q)
      /\ \A i \in 1..Len(p) : p[i].varargs = q[i].varargs /\ p[i].optional = q[i].optional
  <2>1. d.params = <<>> <=> e.params = <<>>
    BY <1>1
  <2>2. d.params # <<>> => d.params[1].this = e.params[1].this
    OBVIOUS
  <2>3. CASE d.params # <<>> /\ d.params[1].this /\ instance
    <3>1. p = Tail(d.params) /\ q = Tail(e.params)
      BY <2>1, <2>2, <2>3, Zenon DEF ParamsOf
    <3>2. /\ p \in Seq(Parameters) /\ q \in Seq(Parameters) /\ Len(p) = Len(q)
          /\ \A i \in 1..Len(p) : /\ p[i] = d.params[i + 1] /\ q[i] = e.params[i + 1]
                                  /\ i + 1 \in DOMAIN d.params
      <4> HIDE DEF p, q
      <4>1. /\ p \in Seq(Parameters) /\ Len(p) = Len(d.params) - 1
            /\ \A i \in 1..Len(p) : p[i] = d.params[i + 1] /\ i + 1 \in DOMAIN d.params
        BY <2>3, <3>1
      <4>2. /\ q \in Seq(Parameters) /\ Len(q) = Len(e.params) - 1
            /\ \A i \in 1..Len(q) : q[i] = e.params[i + 1]
        BY <2>1, <2>3, <3>1
      <4> QED
        BY <1>1, <4>1, <4>2
    <3> HIDE DEF p, q
    <3> QED
      BY <1>2, <3>2
  <2>4. CASE ~(d.params # <<>> /\ d.params[1].this /\ instance)
    <3>1. p = d.params /\ q = e.params
      BY <2>1, <2>2, <2>4, Zenon DEF ParamsOf
    <3> HIDE DEF p, q
    <3> QED
      BY <1>1, <1>2, <3>1
  <2> QED
    BY <2>3, <2>4
<1> DEFINE fp == {i \in DOMAIN p : ~p[i].varargs /\ ~p[i].optional}
           fq == {i \in DOMAIN q : ~q[i].varargs /\ ~q[i].optional}
<1>4. DOMAIN p = 1..Len(p) /\ DOMAIN q = 1..Len(p)
  <2> HIDE DEF p, q
  <2> QED
    BY <1>3, LenProperties
<1>5. fp = fq /\ ((\E i \in DOMAIN p : p[i].varargs) <=> (\E i \in DOMAIN q : q[i].varargs))
  <2> HIDE DEF p, q
  <2> QED
    BY <1>3, <1>4
<1>6. Accepts(d, count, instance)
        <=> \/ count = NoCount
            \/ /\ Cardinality(fp) <= count
               /\ count <= Len(p) \/ \E i \in DOMAIN p : p[i].varargs
  BY Zenon DEF Accepts
<1>7. Accepts(e, count, instance)
        <=> \/ count = NoCount
            \/ /\ Cardinality(fq) <= count
               /\ count <= Len(q) \/ \E i \in DOMAIN q : q[i].varargs
  BY Zenon DEF Accepts
<1> HIDE DEF p, q, fp, fq
<1> QED
  BY <1>3, <1>5, <1>6, <1>7

\* Without files and tiers, all members of a level are meant.
LEMMA AllAreMeant ==
    ASSUME NEW members
    PROVE  Meant(members, Free) = members
<1> DEFINE I == {i \in DOMAIN <<>> : \E d \in members : d.file \in <<>>[i]}
<1>1. I = {} /\ Picked(<<>>, I) = <<>>
  <2>1. I = {} /\ Cardinality({}) = 0
    BY FS_EmptySet
  <2> QED
    BY <2>1 DEF Picked
<1>2. Narrow(members, <<>>) = members
  BY <1>1, Zenon DEF Narrow
<1>3. Free.home = {} /\ Free.tiers = <<>>
  BY DEF Free
<1>4. {d \in members : d.file \in {}} = {}
  OBVIOUS
<1> QED
  BY <1>2, <1>3, <1>4, Zenon DEF Meant

\* Members that are not of several types are of one, in one directory.
LEMMA OneDeclaringType ==
    ASSUME IsCall(call), NEW members \in SUBSET call.decls, ~Several(members),
           NEW d \in members, NEW e \in members
    PROVE  d.in = e.in /\ d.dir = e.dir
<1> DEFINE where == [v \in members |-> <<v.in, v.dir>>]
           W == {where[v] : v \in members}
<1>1. IsFiniteSet(members)
  <2>1. IsFiniteSet(call.decls)
    BY Zenon DEF IsCall
  <2> QED
    BY <2>1, FS_Subset
<1>2. DOMAIN where = members
  OBVIOUS
<1>3. IsFiniteSet(W) /\ Cardinality(W) \in Nat
  <2> HIDE DEF where
  <2> QED
    BY <1>1, <1>2, ImageFinite
<1>4. W = {<<v.in, v.dir>> : v \in members}
  OBVIOUS
<1>5. ~(Cardinality(W) > 1)
  BY <1>4, Zenon DEF Several
<1>6. where[d] \in W /\ where[e] \in W
  OBVIOUS
<1> HIDE DEF W
<1>7. Cardinality(W) # 0
  BY <1>3, <1>6, FS_EmptySet
<1>8. Cardinality(W) = 1
  BY <1>3, <1>5, <1>7
<1>9. PICK v : W = {v}
  BY <1>3, <1>8, FS_Singleton
<1>10. where[d] = where[e]
  BY <1>6, <1>9
<1> QED
  BY <1>10

\* The steps of a chain.
ChainLinks == [kind : {"method", "property"}, name : STRING, count : Nat \cup {NoCount}]

\* The type a step is taken to have, where one of its declarations is that the
\* same call would be bound to.
LEMMA StepAgrees ==
    ASSUME IsCall(call), OneSignature, NEW way \in ChainLinks, owners.above \in BOOLEAN,
           owners.in \in Seq({owners.in[i] : i \in DOMAIN owners.in}),
           StepType(way) # NoType, NEW d \in Head(StepLevels(way)),
           d.id = Overload(StepLevels(way), way.count, <<>>, Free).target
    PROVE  d.back \in {StepType(way), NoType}
<1> DEFINE levels == StepLevels(way)
           pool == Named(way.name, {way.kind})
           here == With(pool, owners.in, owners.above)
           out == Overload(levels, way.count, <<>>, Free)
           members == Head(levels)
           taking == {e \in members : way.kind = "method" /\ Accepts(e, way.count, TRUE)}
           types == {e.back : e \in StepMembers(way)} \ {NoType}
<1>1. levels # <<>> /\ types = {StepType(way)}
  <2>1. levels # <<>>
    BY Zenon DEF StepType
  <2>2. StepType(way) = IF \E t \in types : types = {t} /\ Simple(t) \notin Unreceivable \cup TypeParameters
                        THEN CHOOSE t \in types : TRUE ELSE NoType
    BY <2>1, Zenon DEF StepType
  <2>3. PICK t \in types : types = {t}
    BY <2>2, Zenon
  <2>4. (CHOOSE v \in types : TRUE) \in types
    BY <2>3, Zenon
  <2>5. StepType(way) \in types
    BY <2>2, <2>4, Zenon
  <2> HIDE DEF types
  <2> QED
    BY <2>1, <2>3, <2>5
<1>2. pool \in SUBSET call.decls /\ \A e \in pool : e.name = way.name
  BY DEF Named
<1>3. levels \in Seq(Level) /\ \A k \in DOMAIN levels : levels[k] \subseteq call.decls
  <2>1. here # <<>> /\ levels = Levels(pool, Head(here), owners.above)
    BY <1>1, Zenon DEF StepLevels
  <2> HIDE DEF pool, here, levels
  <2>2. levels \in Seq(Level)
    BY <1>2, <2>1, LevelsHaveMembers
  <2> QED
    BY <2>2 DEF Level
<1>n. \A e \in members : e.name = way.name
  <2>1. here # <<>> /\ levels = Levels(pool, Head(here), owners.above)
    BY <1>1, Zenon DEF StepLevels
  <2>2. levels \in Seq({S \in Level : S \subseteq pool})
    <3> HIDE DEF pool, here, levels
    <3> QED
      BY <1>2, <2>1, LevelsWithin
  <2> HIDE DEF pool, levels
  <2>3. members \subseteq pool
    BY <1>1, <2>2
  <2> QED
    BY <1>2, <2>3
<1>4. members = levels[1] /\ 1 \in DOMAIN levels /\ members \in SUBSET call.decls
  <2> HIDE DEF levels
  <2> QED
    BY <1>1, <1>3
<1>5. StepMembers(way) = OrAll(taking, members)
  BY Zenon DEF StepMembers
<1>6. IsSide(Free) /\ Free.instance
  BY DEF IsSide, Free
<1> SUFFICES ASSUME d \notin StepMembers(way) PROVE FALSE
  <2>1. CASE d \in StepMembers(way)
    BY <1>1, <2>1
  <2> QED
    BY <2>1
<1>7. PICK e \in taking : d \notin taking
  BY <1>5 DEF OrAll
<1>8. way.kind = "method" /\ e \in members /\ Accepts(e, way.count, TRUE)
      /\ ~Accepts(d, way.count, TRUE)
  BY <1>7
<1> HIDE DEF levels, taking, types, members
<1>9. /\ \A v, w \in call.decls : v.id = w.id => v = w
      /\ \A v \in call.decls : IsDecl(v)
  BY DEF IsCall
<1>10. d \in call.decls /\ d \in members /\ e \in call.decls
  BY <1>4, <1>8 DEF members, levels
<1>11. out # Ambiguous
  BY <1>9, <1>10 DEF Ambiguous, IsDecl, levels
<1>12. ~Several(members)
  <2>1. ~\E k \in DOMAIN levels : Several(Meant(levels[k], Free))
    BY <1>11, Zenon DEF Overload
  <2> QED
    BY <1>4, <2>1, AllAreMeant
<1>13. PICK how, P : /\ P \subseteq PoolOf(levels, Free) /\ P # {}
                     /\ Decided(levels, way.count, <<>>, Free, how, P)
                     /\ out = Chosen(how, P)
  BY <1>1, <1>3, <1>6, <1>11, OverloadDecides
<1> DEFINE all == Ranged(levels, Free)
           x == First(P)
           accepted == Accepted(levels, way.count, Free)
<1>14. P \in SUBSET all /\ PoolOf(levels, Free) \subseteq all
  BY <1>1, <1>3, <1>6, <1>13, PoolShape
<1>15. x \in P /\ x \in all
  BY <1>3, <1>6, <1>13, <1>14, FirstIsLeast
<1>16. x.of = d
  <2>1. x.of.id = d.id
    BY <1>13 DEF Chosen, levels
  <2>2. x.of \in call.decls
    BY <1>3, <1>6, <1>15, RangedShape
  <2> QED
    BY <1>9, <1>10, <2>1, <2>2
<1>17. x \notin accepted
  BY <1>6, <1>8, <1>16 DEF Accepted
<1> DEFINE y1 == [depth |-> 1, of |-> e]
           Q == {z \in all : SameKey(z.of, e)}
           y == First(Q)
<1>18. y1 \in all
  <2>1. y1 \in {[depth |-> 1, of |-> v] : v \in Meant(levels[1], Free)}
    BY <1>4, <1>8, AllAreMeant
  <2> HIDE DEF y1
  <2> QED
    BY <1>4, <2>1 DEF Ranged
<1>19. Q \in SUBSET all /\ y1 \in Q
  BY <1>18 DEF SameKey
<1>20. y \in Q /\ \A z \in Q : z = y \/ Before(y, z)
  <2> HIDE DEF Q, y1
  <2> QED
    BY <1>3, <1>6, <1>19, FirstIsLeast
<1>21. y \in all /\ SameKey(y.of, e) /\ (y1 = y \/ Before(y, y1))
  BY <1>19, <1>20
<1> HIDE DEF y
<1>22. y \in PoolOf(levels, Free)
  <2>1. \A z \in all : Before(z, y) => ~SameKey(z.of, y.of)
    <3> SUFFICES ASSUME NEW z \in all, Before(z, y), SameKey(z.of, y.of) PROVE FALSE
      OBVIOUS
    <3>1. SameKey(z.of, e)
      BY <1>21, Zenon DEF SameKey
    <3>2. z = y \/ Before(y, z)
      BY <1>20, <3>1
    <3> QED
      BY <1>3, <1>6, <1>21, <3>2, BeforeOrders
  <2>2. PoolOf(levels, Free) = {z \in all : \A v \in all : Before(v, z) => ~SameKey(v.of, z.of)}
    BY Zenon DEF PoolOf, Ranged
  <2> QED
    BY <1>21, <2>1, <2>2
<1>23. y.depth = 1 /\ y.of \in members
  <2>1. y.depth \in 1..Len(levels) /\ y.of \in levels[y.depth]
    BY <1>3, <1>6, <1>21, RangedShape
  <2>2. y.depth <= 1
    <3>1. Before(y, y1) => y.depth <= y1.depth
      <4> HIDE DEF y1
      <4> QED
        BY <1>3, <1>6, <1>18, <1>21, BeforeOrders
    <3> QED
      BY <1>21, <3>1
  <2> QED
    BY <1>4, <2>1, <2>2
<1>24. Accepts(y.of, way.count, TRUE)
  <2>1. CASE y.of = e
    BY <1>8, <2>1
  <2>2. CASE y.of # e
    <3>1. /\ y.of.params \notin {Unread, <<>>} /\ e.params \notin {Unread, <<>>}
          /\ [i \in DOMAIN y.of.params |-> Key(y.of.params[i])]
               = [i \in DOMAIN e.params |-> Key(e.params[i])]
      BY <1>21, <2>2, Zenon DEF SameKey
    <3>2. y.of \in call.decls
      BY <1>4, <1>23
    <3>3. y.of.params \in Seq(Parameters) /\ e.params \in Seq(Parameters)
      BY <1>9, <1>10, <3>1, <3>2 DEF IsDecl
    <3>4. y.of.in = e.in /\ y.of.dir = e.dir /\ y.of.name = e.name
      BY <1>4, <1>8, <1>12, <1>n, <1>23, OneDeclaringType
    <3>5. \A i \in DOMAIN y.of.params : /\ y.of.params[i].optional = e.params[i].optional
                                        /\ y.of.params[i].this = e.params[i].this
      BY <1>10, <1>21, <2>2, <3>2, <3>4, Zenon DEF OneSignature
    <3> DEFINE v == y.of
    <3>6. v.params # Unread /\ e.params # Unread
      BY <3>1
    <3> QED
      BY <1>8, <3>1, <3>3, <3>5, <3>6, SignatureAccepts
  <2> QED
    BY <2>1, <2>2
<1>25. y \in accepted
  BY <1>6, <1>22, <1>24 DEF Accepted
<1>26. Opened(levels, way.count, Free) = accepted
  BY <1>25 DEF Opened, OrAll
<1>27. Fittest(levels, way.count, <<>>, Free) = {}
  BY DEF Fittest, Scored
<1>28. Left(levels, way.count, <<>>, Free) = accepted
  BY <1>26, <1>27 DEF Left, OrAll
<1>29. P \subseteq accepted
  <2>1. CASE P = PoolOf(levels, Free) /\ \E v : P = {v}
    <3>1. P = {y}
      BY <1>22, <2>1
    <3> QED
      BY <1>25, <3>1
  <2>2. CASE P = accepted
    BY <2>2
  <2>3. CASE P = Fittest(levels, way.count, <<>>, Free)
    BY <1>13, <1>27, <2>3
  <2>4. CASE P = OrAll(Others(levels, way.count, <<>>, Free), Left(levels, way.count, <<>>, Free))
    BY <1>28, <2>4 DEF OrAll, Others
  <2> QED
    BY <1>13, <2>1, <2>2, <2>3, <2>4 DEF Decided
<1> QED
  BY <1>15, <1>17, <1>29

----------------------------------------------------------------------------
(* JvmMembers: the state of a binding, and its invariant.                   *)

\* The places around the caller are a sequence.
LEMMA EnclosingShape ==
    ASSUME IsCall(call)
    PROVE  \E S : Enclosing \in Seq(S) /\ Innermost \in Seq(S)
<1> DEFINE S == {Enclosing[i] : i \in DOMAIN Enclosing}
<1>1. DOMAIN Enclosing = 1..Len(call.src.in) /\ Len(call.src.in) \in Nat
  <2>1. call.src.in \in Seq(STRING)
    BY Zenon DEF IsCall
  <2> QED
    BY <2>1 DEF Enclosing
<1>2. Enclosing = [i \in DOMAIN Enclosing |-> Enclosing[i]]
  BY DEF Enclosing
<1>3. Enclosing \in Seq(S)
  BY <1>1, <1>2
<1>4. Innermost \in Seq(S)
  <2>1. CASE Enclosing = <<>>
    BY <2>1 DEF Innermost
  <2>2. CASE Enclosing # <<>>
    <3>1. Enclosing[1] \in S
      BY <1>3, <2>2
    <3> HIDE DEF S
    <3> QED
      BY <2>2, <3>1 DEF Innermost
  <2> QED
    BY <2>1, <2>2
<1> QED
  BY <1>3, <1>4

\* A sequence is one of its own items.
LEMMA OwnItems == ASSUME NEW S, NEW s \in Seq(S) PROVE s \in Seq({s[i] : i \in DOMAIN s})
<1>1. DOMAIN s = 1..Len(s) /\ Len(s) \in Nat /\ s = [i \in 1..Len(s) |-> s[i]]
  BY LenProperties
<1> QED
  BY <1>1

\* So is where a chain starts (_jvm_eval_chain_uncached).
LEMMA StartShape ==
    ASSUME IsCall(call)
    PROVE  /\ StartOf.in \in Seq({StartOf.in[i] : i \in DOMAIN StartOf.in})
           /\ StartOf.above \in BOOLEAN
<1>1. PICK S : Enclosing \in Seq(S) /\ Innermost \in Seq(S)
  BY EnclosingShape
<1>2. call.root.kind \in {"type", "static", "this", "super"}
  BY Zenon DEF IsCall
<1>3. \E T : StartOf.in \in Seq(T) /\ StartOf.above \in BOOLEAN
  <2>1. CASE call.root.kind = "type"
    <3> DEFINE type == NormType(call.root.name)
    <3>1. StartOf = [in |-> <<type>>, above |-> FALSE]
      BY <2>1 DEF StartOf
    <3> HIDE DEF type
    <3>2. <<type>> \in Seq({type})
      OBVIOUS
    <3> QED
      BY <3>1, <3>2
  <2>2. CASE call.root.kind = "static"
    <3>1. StartOf.in \in {<<>>, <<call.root.name>>} /\ StartOf.above = FALSE
      BY <2>2 DEF StartOf
    <3>2. <<>> \in Seq({call.root.name}) /\ <<call.root.name>> \in Seq({call.root.name})
      OBVIOUS
    <3> QED
      BY <3>1, <3>2
  <2>3. CASE call.root.kind = "this"
    <3>1. StartOf = [in |-> Enclosing, above |-> FALSE]
      BY <2>3 DEF StartOf
    <3> QED
      BY <1>1, <3>1
  <2>4. CASE call.root.kind = "super"
    <3>1. StartOf = [in |-> Innermost, above |-> TRUE]
      BY <2>4 DEF StartOf
    <3> QED
      BY <1>1, <3>1
  <2> QED
    BY <1>2, <2>1, <2>2, <2>3, <2>4
<1> QED
  BY <1>3, OwnItems

\* So are the places where a call is looked for (_resolve_jvm_member).
LEMMA PlacesShape ==
    ASSUME IsCall(call)
    PROVE  \E T : Places \in Seq(T)
<1>1. PICK S : Enclosing \in Seq(S) /\ Innermost \in Seq(S)
  BY EnclosingShape
<1>2. call.rec \in {"super", "this", "none", "name", "other"}
  BY Zenon DEF IsCall
<1>3. \A x, y : \E T : <<x, y>> \in Seq(T) /\ <<x>> \in Seq(T) /\ <<>> \in Seq(T)
  <2> TAKE x, y
  <2>1. <<x, y>> \in Seq({x, y}) /\ <<x>> \in Seq({x, y}) /\ <<>> \in Seq({x, y})
    OBVIOUS
  <2> QED
    BY <2>1
<1>4. CASE call.rec \in {"super", "this"}
  <2>1. Places = Innermost
    BY <1>4 DEF Places
  <2> QED
    BY <1>1, <2>1
<1>5. CASE call.rec \notin {"super", "this"} /\ ReceiverType # NoType
  <2> DEFINE type == NormType(ReceiverType)
  <2>1. Places \in {<<type, <<Simple(type)>>>>, <<type>>}
    BY <1>5 DEF Places
  <2> HIDE DEF type
  <2> QED
    BY <1>3, <2>1
<1>6. CASE call.rec = "none" /\ ReceiverType = NoType
  <2>1. Places = Enclosing
    BY <1>6 DEF Places
  <2> QED
    BY <1>1, <2>1
<1>7. CASE call.rec = "name" /\ ReceiverType = NoType
  <2>1. Places \in {<<>>, <<call.as, <<Simple(call.as)>>>>, <<call.as>>}
    BY <1>7 DEF Places
  <2> QED
    BY <1>3, <2>1
<1>8. CASE call.rec = "other" /\ ReceiverType = NoType
  <2>1. Places = <<>>
    BY <1>8 DEF Places
  <2> QED
    BY <1>3, <2>1
<1> QED
  BY <1>2, <1>4, <1>5, <1>6, <1>7, <1>8

\* Where a place is found, its members are.
LEMMA FoundPlace ==
    ASSUME IsCall(call), NEW pool \in SUBSET call.decls, NEW T, NEW places \in Seq(T),
           NEW above \in BOOLEAN, With(pool, places, above) # <<>>
    PROVE  /\ Levels(pool, Head(With(pool, places, above)), above) \in Seq(Level)
           /\ Levels(pool, Head(With(pool, places, above)), above) # <<>>
<1> DEFINE I == {i \in DOMAIN places : Levels(pool, places[i], above) # <<>>}
           here == With(pool, places, above)
<1>1. here = Picked(places, I)
  BY Zenon DEF With
<1>2. I \in SUBSET (1..Len(places))
  OBVIOUS
<1>3. \A i \in I : Levels(pool, places[i], above) # <<>>
  OBVIOUS
<1> HIDE DEF I, here
<1>4. /\ here \in Seq(T) /\ Len(here) = Cardinality(I)
      /\ \A i \in 1..Cardinality(I) : \E j \in I : here[i] = places[j]
  BY <1>1, <1>2, PickedItems
<1>5. here # <<>> => \E j \in I : Head(here) = places[j]
  BY <1>4
<1>6. Levels(pool, Head(here), above) # <<>>
  BY <1>3, <1>5 DEF here
<1> QED
  BY <1>6, LevelsHaveMembers DEF here

\* What a choice is made from when a call is bound.
LEMMA BindLooks ==
    ASSUME IsCall(call), Bind
    PROVE  \E levels \in Seq(Level) : \E side :
              /\ IsSide(side) /\ found' = [levels |-> levels, side |-> side]
              /\ levels # <<>> => bound' = Overload(levels, call.count, call.args, side)
              /\ levels = <<>> => bound' \in {NotBound("undecided"), NotBound("unmatched"),
                                             NotBound("external")}
              /\ side.avoid = call.src.id \/ Len(levels) <= 1
<1> DEFINE above == call.rec = "super"
           typed == call.rec \notin {"super", "this"} /\ ReceiverType # NoType
           foreign == typed /\ OfLibrary(ReceiverType)
           here == IF foreign THEN <<>> ELSE With(Invocable, Places, above)
           extensions == IF typed /\ ~foreign THEN Extensions(Simple(ReceiverType)) ELSE {}
           levels == IF here # <<>> THEN Levels(Invocable, Head(here), above)
                     ELSE IF extensions = {} THEN <<>> ELSE <<extensions>>
           side == IF here # <<>> THEN SideOf(Head(here)) ELSE Free
<1>1. /\ found' = [levels |-> levels, side |-> side]
      /\ bound' = IF levels # <<>> THEN Overload(levels, call.count, call.args, side)
                  ELSE IF ~typed THEN NotBound("undecided")
                  ELSE IF ~foreign /\ IsRepoType(Simple(ReceiverType))
                  THEN NotBound("unmatched") ELSE NotBound("external")
  BY Zenon DEF Bind
<1>2. Invocable \in SUBSET call.decls
  BY DEF Invocable, Named
<1>3. PICK T : Places \in Seq(T)
  BY PlacesShape
<1>4. call.tiers \in Seq({call.tiers[i] : i \in DOMAIN call.tiers})
  BY Zenon DEF IsCall
<1>5. CASE here # <<>>
  <2>1. here = With(Invocable, Places, above)
    BY <1>5, Zenon
  <2>2. levels = Levels(Invocable, Head(With(Invocable, Places, above)), above)
        /\ side = SideOf(Head(here))
    BY <1>5, <2>1, Zenon
  <2>3. above \in BOOLEAN
    OBVIOUS
  <2>4. With(Invocable, Places, above) # <<>>
    BY <1>5, <2>1
  <2> HIDE DEF here, levels, above, side
  <2>5. levels \in Seq(Level) /\ levels # <<>>
    BY <1>2, <1>3, <2>2, <2>3, <2>4, FoundPlace
  <2>6. IsSide(side) /\ side.avoid = call.src.id
    BY <1>4, <2>2 DEF SideOf, IsSide
  <2> QED
    BY <1>1, <2>5, <2>6
<1>6. CASE here = <<>>
  <2>1. levels = (IF extensions = {} THEN <<>> ELSE <<extensions>>) /\ side = Free
    BY <1>6, Zenon
  <2>2. extensions \subseteq call.decls
    BY DEF Extensions, Named
  <2>3. IsSide(Free)
    BY DEF IsSide, Free
  <2>4. levels \in Seq(Level) /\ Len(levels) <= 1
    <3> HIDE DEF extensions, levels
    <3>1. CASE extensions = {}
      BY <2>1, <3>1
    <3>2. CASE extensions # {}
      <4>1. extensions \in Level /\ levels = <<extensions>>
        BY <2>1, <2>2, <3>2 DEF Level
      <4> QED
        BY <4>1
    <3> QED
      BY <3>1, <3>2
  <2> HIDE DEF here, levels, above, side, typed, foreign, extensions
  <2>5. levels = <<>> => bound' \in {NotBound("undecided"), NotBound("unmatched"),
                                     NotBound("external")}
    BY <1>1
  <2> QED
    BY <1>1, <2>1, <2>3, <2>4, <2>5
<1> QED
  BY <1>5, <1>6

\* What a call is measured by does not change.
LEMMA SameAncestors ==
    ASSUME call' = call, NEW CONSTANT name
    PROVE  AncestorsOf(name)' = AncestorsOf(name)
BY SMT DEF AncestorsOf, ParentsOf, Picked, Rank, ToSet

\* Nor does what a type scores for another,
LEMMA SamePlainFit ==
    ASSUME call' = call, NEW CONSTANT arg, NEW CONSTANT param
    PROVE  PlainFit(arg, param)' = PlainFit(arg, param)
<1>1. AncestorsOf(arg.name)' = AncestorsOf(arg.name)
  BY SameAncestors
<1>2. IsRepoType(arg.name)' = IsRepoType(arg.name) /\ IsRepoType(param.name)' = IsRepoType(param.name)
  BY DEF IsRepoType
<1> QED
  BY <1>1, <1>2, SMT DEF PlainFit, ToSet, IsRepoType, NumberFit, NumberRank, IsNumber, IsPrimitive, Misfit, Canon

\* arrays or not,
LEMMA SameFit ==
    ASSUME call' = call, NEW CONSTANT arg, NEW CONSTANT param
    PROVE  Fit(arg, param)' = Fit(arg, param)
<1>1. PlainFit(arg, param)' = PlainFit(arg, param)
  BY SamePlainFit
<1> QED
  BY <1>1, SMT DEF Fit, NotKnown, IsPrimitive, IsNumber, Misfit, Canon

\* nor what an argument scores.
LEMMA SameFitAt ==
    ASSUME call' = call, NEW CONSTANT d, NEW CONSTANT args, NEW CONSTANT i, NEW CONSTANT instance
    PROVE  FitAt(d, args, i, instance)' = FitAt(d, args, i, instance)
<1> DEFINE p == ParamAt(ParamsOf(d, instance), i)
<1>1. Fit(args[i], p.type)' = Fit(args[i], p.type)
  BY SameFit
<1>2. Fit(args[i], [p.type EXCEPT !.array = FALSE])' = Fit(args[i], [p.type EXCEPT !.array = FALSE])
  BY SameFit
<1> DEFINE one == Fit(args[i], [p.type EXCEPT !.array = FALSE])
           all == Fit(args[i], p.type)
           Of(v, w) == IF d.params = Unread THEN 0 ELSE IF ~p.varargs THEN w
                       ELSE IF i = Len(ParamsOf(d, instance)) /\ Len(args) = Len(ParamsOf(d, instance))
                       THEN Max({v, w}) ELSE v
<1>3. FitAt(d, args, i, instance) = Of(one, all)
  BY Zenon DEF FitAt
<1>4. FitAt(d, args, i, instance)' = Of(one', all')
  BY Zenon DEF FitAt
<1>5. one' = one /\ all' = all
  BY <1>1, <1>2
<1>6. Of(one', all') = Of(one, all)
  BY <1>5
<1> HIDE DEF one, all, Of
<1> QED
  BY <1>3, <1>4, <1>6

\* The nearest wins still where nothing has been bound since.
LEMMA NearestStays ==
    ASSUME UNCHANGED <<call, found, bound>>
    PROVE  NearestWins' <=> NearestWins
BY SMT DEF NearestWins, TargetsAt, Meant, Several, Narrow, Picked, Rank, Key, Canon

\* The candidate bound to, and those it is measured against.
Misfits(levels, side, out, args, count) ==
    \E k \in DOMAIN levels : \E d \in levels[k] :
        /\ d.id = out.target /\ out.how \in {"types", "group"}
        /\ Len(args) \in {1, 2} /\ count = Len(args) /\ \A i \in DOMAIN args : ~args[i].array
        /\ \E i \in DOMAIN args : ~(FitAt(d, args, i, side.instance) > Misfit)
        /\ \E x \in PoolOf(levels, side) :
              /\ x.of.params # Unread /\ \A p \in ToSet(x.of.params) : ~p.varargs
              /\ Accepts(x.of, count, side.instance)
              /\ \A i \in DOMAIN args : FitAt(x.of, args, i, side.instance) > 0

\* Whether it is a misfit does not change.
LEMMA SameMisfits ==
    ASSUME call' = call, NEW CONSTANT levels, NEW CONSTANT side, NEW CONSTANT out,
           NEW CONSTANT args, NEW CONSTANT count
    PROVE  Misfits(levels, side, out, args, count)' = Misfits(levels, side, out, args, count)
<1>1. \A d, i : FitAt(d, args, i, side.instance)' = FitAt(d, args, i, side.instance)
  BY SameFitAt
<1> QED
  BY <1>1, Zenon DEF Misfits

\* None is bound to, of what a call was measured against.
NoneMisfits ==
    \A levels, side, out, args, count :
        /\ found = [levels |-> levels, side |-> side] /\ bound = out
        /\ call.args = args /\ call.count = count
        => ~Misfits(levels, side, out, args, count)

\* So the call is bound to no misfit.
LEMMA NoMisfitUnless ==
    ASSUME NoneMisfits, found = [levels |-> found.levels, side |-> found.side]
    PROVE  NoMisfit
<1>1. ~Misfits(found.levels, found.side, bound, call.args, call.count)
  BY DEF NoneMisfits
<1> QED
  BY <1>1, Zenon DEF Misfits, NoMisfit, TargetsAt

\* A binding: a call of the shape assumed, its types, the steps and owners that are
\* left, and what was chosen.
BindInv ==
    /\ IsCall(call) /\ BindTypeOK
    /\ steps \in Seq(ChainLinks) /\ (binding = "chain" => steps # <<>>)
    /\ owners.in \in Seq({owners.in[i] : i \in DOMAIN owners.in}) /\ owners.above \in BOOLEAN
    /\ found = [levels |-> found.levels, side |-> found.side]
    /\ NearestWins /\ NoneMisfits

\* A binding that has not been made binds to nothing.
LEMMA NothingBound ==
    ASSUME NEW side, NEW out
    PROVE  \A args, count : ~Misfits(<<>>, side, out, args, count)
<1>1. DOMAIN <<>> = {}
  OBVIOUS
<1> QED
  BY <1>1, Zenon DEF Misfits

\* The fields of a call that its binding begins with.
LEMMA CallFields ==
    ASSUME IsCall(call)
    PROVE  /\ call.steps \in Seq(ChainLinks) /\ Len(call.steps) \in Nat
           /\ call.rec \in {"super", "this", "none", "name", "other"}
           /\ call.args \in Seq([name : STRING, array : BOOLEAN])
<1>1. /\ call.steps \in Seq(ChainLinks)
      /\ call.rec \in {"super", "this", "none", "name", "other"}
      /\ call.args \in Seq([name : STRING, array : BOOLEAN])
  BY Zenon DEF IsCall, ChainLinks
<1> QED
  BY <1>1, LenProperties

\* The initial states, of any call.
LEMMA BindStarts == BindInit => BindInv
<1> SUFFICES ASSUME NEW calls \in JvmCalls, NEW c1 \in calls, BindFrom(c1) PROVE BindInv
  BY Zenon DEF BindInit
<1>1. /\ call = c1 /\ binding = IF call.steps = <<>> THEN "bind" ELSE "chain"
      /\ steps = call.steps /\ owners = StartOf
      /\ bound = NotBound("open") /\ found = NotFound
  BY Zenon DEF BindFrom
<1>2. IsCall(call)
  BY <1>1, JvmAssumption, Zenon DEF JvmAssumption
<1>3. /\ call.steps \in Seq(ChainLinks) /\ Len(call.steps) \in Nat
      /\ call.rec \in {"super", "this", "none", "name", "other"}
  BY <1>2, CallFields
<1>4. BindTypeOK
  BY <1>1, <1>3 DEF BindTypeOK, NotBound
<1>5. /\ owners.in \in Seq({owners.in[i] : i \in DOMAIN owners.in}) /\ owners.above \in BOOLEAN
  BY <1>1, <1>2, StartShape
<1>6. found.levels = <<>> /\ found = [levels |-> found.levels, side |-> found.side]
  BY <1>1 DEF NotFound
<1>7. NearestWins
  <2>1. DOMAIN found.levels = {}
    BY <1>6
  <2> QED
    BY <2>1, Zenon DEF NearestWins
<1>8. NoneMisfits
  BY <1>6, NothingBound DEF NoneMisfits
<1>9. steps \in Seq(ChainLinks) /\ (binding = "chain" => steps # <<>>)
  BY <1>1, <1>3
<1> QED
  BY <1>2, <1>4, <1>5, <1>6, <1>7, <1>8, <1>9 DEF BindInv

\* While the call, what was found and what was bound stay, so does what is said
\* of them.
LEMMA BoundStays ==
    ASSUME BindInv, UNCHANGED <<call, found, bound>>
    PROVE  /\ IsCall(call)' /\ found' = [levels |-> found'.levels, side |-> found'.side]
           /\ NearestWins' /\ NoneMisfits'
<1>1. IsCall(call) /\ NearestWins /\ NoneMisfits
      /\ found = [levels |-> found.levels, side |-> found.side]
  BY Zenon DEF BindInv
<1>2. IsCall(call)'
  BY <1>1, Zenon DEF IsCall, IsDecl
<1>3. NearestWins'
  BY <1>1, NearestStays
<1>4. NoneMisfits'
  <2> SUFFICES ASSUME NEW levels, NEW side, NEW out, NEW args, NEW count,
                      found' = [levels |-> levels, side |-> side], bound' = out,
                      call'.args = args, call'.count = count
               PROVE  ~Misfits(levels, side, out, args, count)'
    BY Zenon DEF NoneMisfits
  <2>1. ~Misfits(levels, side, out, args, count)
    BY <1>1 DEF NoneMisfits
  <2>2. Misfits(levels, side, out, args, count)' = Misfits(levels, side, out, args, count)
    BY SameMisfits
  <2> QED
    BY <2>1, <2>2
<1> QED
  BY <1>1, <1>2, <1>3, <1>4

\* Where nothing of the binding changes, the invariant holds still.
LEMMA BindRests == ASSUME BindInv, UNCHANGED bindVars PROVE BindInv'
<1>1. UNCHANGED <<call, binding, steps, owners, found, bound>>
  BY DEF bindVars
<1>2. /\ IsCall(call)' /\ found' = [levels |-> found'.levels, side |-> found'.side]
      /\ NearestWins' /\ NoneMisfits'
  BY <1>1, BoundStays
<1>3. BindTypeOK'
  <2>1. BindTypeOK
    BY DEF BindInv
  <2> QED
    BY <1>1, <2>1 DEF BindTypeOK
<1>4. /\ steps' \in Seq(ChainLinks) /\ (binding' = "chain" => steps' # <<>>)
      /\ owners'.in \in Seq({owners'.in[i] : i \in DOMAIN owners'.in}) /\ owners'.above \in BOOLEAN
  BY <1>1 DEF BindInv
<1> QED
  BY <1>2, <1>3, <1>4 DEF BindInv

\* A step of the chain: the steps that are left become fewer.
LEMMA ChainKeeps == ASSUME BindInv, ChainStep PROVE BindInv'
<1> DEFINE type == StepType(Head(steps))
<1>1. /\ owners' = [in |-> IF type = NoType THEN <<>> ELSE <<type>>, above |-> FALSE]
      /\ steps' = IF type = NoType THEN <<>> ELSE Tail(steps)
      /\ binding' = IF type = NoType \/ Len(steps) = 1 THEN "bind" ELSE "chain"
      /\ binding = "chain" /\ UNCHANGED <<call, found, bound>>
  BY Zenon DEF ChainStep
<1> HIDE DEF type
<1>2. /\ IsCall(call)' /\ found' = [levels |-> found'.levels, side |-> found'.side]
      /\ NearestWins' /\ NoneMisfits'
  BY <1>1, BoundStays
<1>3. steps \in Seq(ChainLinks) /\ steps # <<>> /\ BindTypeOK /\ IsCall(call)
  BY <1>1 DEF BindInv
<1>4. /\ steps' \in Seq(ChainLinks) /\ (binding' = "chain" => steps' # <<>>)
      /\ Len(steps') <= Len(steps) /\ Len(steps) \in Nat /\ Len(steps') \in Nat
  <2>1. /\ Tail(steps) \in Seq(ChainLinks) /\ Len(Tail(steps)) = Len(steps) - 1
        /\ Len(steps) \in Nat /\ Len(steps) > 0
    BY <1>3
  <2>2. CASE type = NoType
    <3>1. steps' = <<>> /\ binding' = "bind"
      BY <1>1, <2>2
    <3>2. <<>> \in Seq(ChainLinks) /\ Len(<<>>) = 0
      OBVIOUS
    <3> QED
      BY <2>1, <3>1, <3>2
  <2>3. CASE type # NoType
    <3>1. steps' = Tail(steps) /\ (Len(steps) = 1 => binding' = "bind")
      BY <1>1, <2>3
    <3>2. Len(steps') \in Nat /\ Len(steps') <= Len(steps)
      BY <2>1, <3>1
    <3>3. Len(steps) # 1 => steps' # <<>>
      <4> DEFINE rest == Tail(steps)
      <4>1. steps' = rest /\ (Len(steps) # 1 => Len(rest) # 0)
        BY <2>1, <3>1
      <4>2. Len(<<>>) = 0
        OBVIOUS
      <4> HIDE DEF rest
      <4>3. rest = <<>> => Len(rest) = Len(<<>>)
        BY Zenon
      <4> QED
        BY <4>1, <4>2, <4>3
    <3> QED
      BY <2>1, <3>1, <3>2, <3>3
  <2> QED
    BY <2>2, <2>3
<1>5. BindTypeOK'
  <2>1. Len(call.steps) \in Nat
    BY <1>3, CallFields
  <2>2. Len(steps') <= Len(call.steps)
    BY <1>3, <1>4, <2>1 DEF BindTypeOK
  <2>3. binding' \in {"chain", "bind", "bound"}
    BY <1>1
  <2> QED
    BY <1>1, <1>3, <2>2, <2>3 DEF BindTypeOK
<1>6. /\ owners'.in \in Seq({owners'.in[i] : i \in DOMAIN owners'.in}) /\ owners'.above \in BOOLEAN
  <2>1. <<type>> \in Seq({type}) /\ <<>> \in Seq({type})
    OBVIOUS
  <2>2. owners'.in \in Seq({type}) /\ owners'.above = FALSE
    BY <1>1, <2>1
  <2> QED
    BY <2>2, OwnItems
<1> QED
  BY <1>2, <1>4, <1>5, <1>6 DEF BindInv

\* A binding that begins again has bound nothing.
LEMMA AgainKeepsBound == ASSUME BindInv, BindAgain PROVE BindInv'
<1>1. /\ call' = call /\ binding' = IF call.steps = <<>> THEN "bind" ELSE "chain"
      /\ steps' = call.steps /\ owners' = StartOf
      /\ bound' = NotBound("open") /\ found' = NotFound
  BY Zenon DEF BindAgain
<1>2. IsCall(call) /\ IsCall(call)'
  <2>1. IsCall(call)
    BY DEF BindInv
  <2> QED
    BY <1>1, <2>1, Zenon DEF IsCall, IsDecl
<1>3. /\ call.steps \in Seq(ChainLinks) /\ Len(call.steps) \in Nat
      /\ call.rec \in {"super", "this", "none", "name", "other"}
  BY <1>2, CallFields
<1>4. BindTypeOK'
  BY <1>1, <1>3 DEF BindTypeOK, NotBound
<1>5. /\ owners'.in \in Seq({owners'.in[i] : i \in DOMAIN owners'.in}) /\ owners'.above \in BOOLEAN
  BY <1>1, <1>2, StartShape
<1>6. found'.levels = <<>> /\ found' = [levels |-> found'.levels, side |-> found'.side]
  BY <1>1 DEF NotFound
<1>7. NearestWins'
  <2>1. DOMAIN found'.levels = {}
    BY <1>6
  <2> QED
    BY <2>1, Zenon DEF NearestWins
<1>8. NoneMisfits'
  <2> SUFFICES ASSUME NEW levels, NEW side, NEW out, NEW args, NEW count,
                      found' = [levels |-> levels, side |-> side]
               PROVE  ~Misfits(levels, side, out, args, count)'
    BY Zenon DEF NoneMisfits
  <2>1. levels = <<>>
    BY <1>6
  <2>2. ~Misfits(levels, side, out, args, count)
    BY <2>1, NothingBound
  <2>3. Misfits(levels, side, out, args, count)' = Misfits(levels, side, out, args, count)
    BY <1>1, SameMisfits
  <2> QED
    BY <2>2, <2>3
<1>9. steps' \in Seq(ChainLinks) /\ (binding' = "chain" => steps' # <<>>)
  BY <1>1, <1>3
<1> QED
  BY <1>2, <1>4, <1>5, <1>6, <1>7, <1>8, <1>9 DEF BindInv

\* What a call is bound to is what Overload chooses, which is neither past an
\* override nor a misfit.
LEMMA BindKeeps == ASSUME BindInv, Bind PROVE BindInv'
<1>1. /\ binding' = "bound" /\ UNCHANGED <<call, steps, owners>>
  BY Zenon DEF Bind
<1>2. IsCall(call) /\ IsCall(call)' /\ BindTypeOK
  <2>1. IsCall(call) /\ BindTypeOK
    BY DEF BindInv
  <2> QED
    BY <1>1, <2>1, Zenon DEF IsCall, IsDecl
<1>3. PICK levels \in Seq(Level) :
         \E side :
              /\ IsSide(side) /\ found' = [levels |-> levels, side |-> side]
              /\ levels # <<>> => bound' = Overload(levels, call.count, call.args, side)
              /\ levels = <<>> => bound' \in {NotBound("undecided"), NotBound("unmatched"),
                                             NotBound("external")}
              /\ side.avoid = call.src.id \/ Len(levels) <= 1
  BY <1>2, BindLooks
<1>4. PICK side :
              /\ IsSide(side) /\ found' = [levels |-> levels, side |-> side]
              /\ levels # <<>> => bound' = Overload(levels, call.count, call.args, side)
              /\ levels = <<>> => bound' \in {NotBound("undecided"), NotBound("unmatched"),
                                             NotBound("external")}
              /\ side.avoid = call.src.id \/ Len(levels) <= 1
  BY <1>3
<1>5. found'.levels = levels /\ found'.side = side
  BY <1>4
<1>6. BindTypeOK'
  <2>1. /\ bound'.target \in {d.id : d \in call.decls} \cup {Unbound}
        /\ bound'.how \in {"open", "single", "arity", "types", "group", "ambiguous",
                           "undecided", "unmatched", "external"}
    <3>1. CASE levels = <<>>
      BY <1>4, <3>1 DEF NotBound
    <3>2. CASE levels # <<>>
      <4>1. bound' = Overload(levels, call.count, call.args, side)
        BY <1>4, <3>2
      <4> QED
        BY <1>2, <1>4, <3>2, <4>1, OverloadTyped
    <3> QED
      BY <3>1, <3>2
  <2> QED
    BY <1>1, <1>2, <2>1 DEF BindTypeOK
<1>7. NearestWins'
  <2> SUFFICES ASSUME NEW k \in DOMAIN levels, NEW j \in 1..k - 1, NEW far \in levels[k],
                      far.id = bound'.target, NEW close \in Meant(levels[j], side),
                      far.params # Unread, close.params # Unread,
                      [i \in DOMAIN far.params |-> Key(far.params[i])]
                        = [i \in DOMAIN close.params |-> Key(close.params[i])],
                      \A i \in 1..k - 1 : far \notin levels[i]
               PROVE  far.params = <<>> /\ close.id = call'.src.id
    <3>1. \A k \in DOMAIN levels : TargetsAt(k)' = {d \in levels[k] : d.id = bound'.target}
      BY <1>5 DEF TargetsAt
    <3>2. \A j : Meant(found.levels[j], found.side)' = Meant(levels[j], side)
      BY <1>1, <1>5, SMT DEF Meant, Several, Narrow, Picked, Rank
    <3> QED
      BY <1>5, <3>1, <3>2, SMT DEF NearestWins
  <2>1. levels # <<>>
    OBVIOUS
  <2>2. bound' = Overload(levels, call.count, call.args, side)
    BY <1>4, <2>1
  <2>3. far.params = <<>> /\ close.id = side.avoid
    BY <1>2, <1>4, <2>1, <2>2, NearestIsBound
  <2>4. Len(levels) > 1
    <3>1. DOMAIN levels = 1..Len(levels) /\ Len(levels) \in Nat
      BY LenProperties
    <3> QED
      BY <3>1
  <2>5. side.avoid = call.src.id
    <3>1. Len(levels) \in Nat
      BY LenProperties
    <3> QED
      BY <1>4, <2>4, <3>1
  <2> QED
    BY <1>1, <2>3, <2>5
<1>8. NoneMisfits'
  <2> SUFFICES ASSUME NEW l, NEW s, NEW out, NEW args, NEW count,
                      found' = [levels |-> l, side |-> s], bound' = out,
                      call'.args = args, call'.count = count
               PROVE  ~Misfits(l, s, out, args, count)'
    BY Zenon DEF NoneMisfits
  <2>1. l = levels /\ s = side /\ call.args = args /\ call.count = count
    BY <1>1, <1>5
  <2>2. ~Misfits(levels, side, out, args, count)
    <3>1. CASE levels = <<>>
      BY <3>1, NothingBound
    <3>2. CASE levels # <<>>
      <4> SUFFICES ASSUME Misfits(levels, side, out, args, count) PROVE FALSE
        OBVIOUS
      <4>1. out = Overload(levels, count, args, side)
        BY <1>4, <2>1, <3>2
      <4>2. args \in Seq([name : STRING, array : BOOLEAN])
        BY <1>2, <2>1, CallFields
      <4>3. PICK k \in DOMAIN levels : \E d \in levels[k] :
              /\ d.id = out.target /\ out.how \in {"types", "group"}
              /\ Len(args) \in {1, 2} /\ count = Len(args) /\ \A i \in DOMAIN args : ~args[i].array
              /\ \E i \in DOMAIN args : ~(FitAt(d, args, i, side.instance) > Misfit)
              /\ \E x \in PoolOf(levels, side) :
                    /\ x.of.params # Unread /\ \A p \in ToSet(x.of.params) : ~p.varargs
                    /\ Accepts(x.of, count, side.instance)
                    /\ \A i \in DOMAIN args : FitAt(x.of, args, i, side.instance) > 0
        BY Zenon DEF Misfits
      <4>4. PICK d \in levels[k] :
              /\ d.id = out.target /\ out.how \in {"types", "group"}
              /\ Len(args) \in {1, 2} /\ count = Len(args) /\ \A i \in DOMAIN args : ~args[i].array
              /\ \E i \in DOMAIN args : ~(FitAt(d, args, i, side.instance) > Misfit)
              /\ \E x \in PoolOf(levels, side) :
                    /\ x.of.params # Unread /\ \A p \in ToSet(x.of.params) : ~p.varargs
                    /\ Accepts(x.of, count, side.instance)
                    /\ \A i \in DOMAIN args : FitAt(x.of, args, i, side.instance) > 0
        BY <4>3
      <4>5. PICK x \in PoolOf(levels, side) :
                    /\ x.of.params # Unread /\ \A p \in ToSet(x.of.params) : ~p.varargs
                    /\ Accepts(x.of, count, side.instance)
                    /\ \A i \in DOMAIN args : FitAt(x.of, args, i, side.instance) > 0
        BY <4>4
      <4> QED
        BY <1>2, <1>4, <3>2, <4>1, <4>2, <4>4, <4>5, NoMisfitBound
    <3> QED
      BY <3>1, <3>2
  <2>3. Misfits(l, s, out, args, count)' = Misfits(l, s, out, args, count)
    BY <1>1, SameMisfits
  <2> QED
    BY <2>1, <2>2, <2>3
<1>9. /\ steps' \in Seq(ChainLinks) /\ (binding' = "chain" => steps' # <<>>)
      /\ owners'.in \in Seq({owners'.in[i] : i \in DOMAIN owners'.in}) /\ owners'.above \in BOOLEAN
      /\ found' = [levels |-> found'.levels, side |-> found'.side]
  BY <1>1, <1>4, <1>5 DEF BindInv
<1> QED
  BY <1>2, <1>6, <1>7, <1>8, <1>9 DEF BindInv

\* Every step of the binding.
LEMMA BindStep == BindInv /\ [BindNext]_bindVars => BindInv'
  BY BindRests, ChainKeeps, AgainKeepsBound, BindKeeps DEF BindNext

\* What the invariant is for.
LEMMA BindAnswers == BindInv => BindTypeOK /\ NearestWins /\ NoMisfit
  BY NoMisfitUnless DEF BindInv

\* A chain agrees with what the binding of its step would be.
LEMMA ChainsAgree == BindInv => (OneSignature => ChainAgrees)
<1> SUFFICES ASSUME BindInv, OneSignature, binding = "chain",
                    StepType(Head(steps)) # NoType,
                    NEW d \in Head(StepLevels(Head(steps))),
                    d.id = Overload(StepLevels(Head(steps)), Head(steps).count, <<>>, Free).target
             PROVE  d.back \in {StepType(Head(steps)), NoType}
  BY Zenon DEF ChainAgrees
<1>1. /\ IsCall(call) /\ steps \in Seq(ChainLinks) /\ steps # <<>> /\ owners.above \in BOOLEAN
      /\ owners.in \in Seq({owners.in[i] : i \in DOMAIN owners.in})
  BY DEF BindInv
<1>2. Head(steps) \in ChainLinks
  BY <1>1
<1> DEFINE way == Head(steps)
<1> HIDE DEF way
<1> QED
  BY <1>1, <1>2, StepAgrees DEF way

\* The invariant of the binding, always.
LEMMA BindAlways == BindSpec => []BindInv
  BY BindStarts, BindStep, PTL DEF BindSpec

\* A call is bound to a declaration it can meet, or to none.
THEOREM BindTyped == BindSpec => []BindTypeOK
  BY BindAlways, BindAnswers, PTL

\* The nearest override wins, and no call is bound to an overload that cannot
\* take its arguments while another can (_jvm_pick).
THEOREM OverloadsRight == BindSpec => [](NearestWins /\ NoMisfit)
  BY BindAlways, BindAnswers, PTL

\* What a chain is evaluated to is the type of the member the same call would
\* be bound to, where a signature is declared once (_jvm_eval_chain_uncached).
THEOREM ChainsRight == BindSpec => [](OneSignature => MembersBound)
<1>1. BindInv => (OneSignature => MembersBound)
  BY BindAnswers, ChainsAgree DEF MembersBound
<1> QED
  BY <1>1, BindAlways, PTL

----------------------------------------------------------------------------
(* ParsePool: the types of a run.  The files fill no more chunks than there *)
(* are files, so that every chunk is a future of the pool.                  *)

\* How many chunks a number of files makes: at most one for each.
LastOf(files) == (files + SizeFor(files) - 1) \div SizeFor(files)

\* Chunks of at least one file are no more than the files.
LEMMA ChunkCount == ASSUME NEW files \in Nat PROVE LastOf(files) \in 0..files
<1> DEFINE size == SizeFor(files)
           last == (files + size - 1) \div size
<1>1. size \in Nat /\ size > 0
  BY SizesPositive
<1>2. LastOf(files) = last
  BY DEF LastOf
<1> HIDE DEF size
<1>3. last \in Int /\ size * last <= files + size - 1 /\ last >= 0
  BY <1>1
<1> HIDE DEF last
<1>4. last <= files
  <2> SUFFICES ASSUME last >= files + 1 PROVE FALSE
    BY <1>3
  <2>1. size * last >= size * (files + 1)
    BY <1>1, <1>3
  <2>2. size * (files + 1) = size * files + size /\ size * files >= files
    BY <1>1
  <2>3. size * files \in Int /\ size * last \in Int /\ size * (files + 1) \in Int
    BY <1>1, <1>3
  <2> QED
    BY <1>1, <1>3, <2>1, <2>2, <2>3
<1> QED
  BY <1>2, <1>3, <1>4

\* Some of the files are no more than all of them.
LEMMA SomeCount ==
    ASSUME NEW files \in Nat, NEW S \in SUBSET (1..files)
    PROVE  Cardinality(S) \in 0..files
<1>1. IsFiniteSet(1..files) /\ Cardinality(1..files) = files
  BY FS_Interval
<1>2. IsFiniteSet(S) /\ Cardinality(S) <= Cardinality(1..files)
  BY <1>1, FS_Subset
<1> QED
  BY <1>1, <1>2, FS_CardinalityType

\* Strengthens PoolTypeOK: a chunk is a future of the pool.
PoolData ==
    /\ tasks \in 0..MaxTasks
    /\ poolMode \in {"none", "sequential", "spawn-pool", "sequential-fallback"}
    /\ future \in [1..MaxTasks -> {"none", "pending", "running", "done", "broken",
                                   "cancelled"}]
    /\ worksOn \in [Processes -> 1..MaxTasks \cup {NoChunk}]
    /\ alive \subseteq Processes
    /\ collected \in 1..LastOf(tasks) + 1

\* The chunks of a run are among the futures.
LEMMA PoolChunks ==
    ASSUME tasks \in 0..MaxTasks
    PROVE  /\ Chunks = 1..LastOf(tasks) /\ LastOf(tasks) \in Nat
           /\ Chunks \subseteq 1..MaxTasks /\ Cardinality(Chunks) = LastOf(tasks)
<1>1. MaxTasks \in Nat
  BY PoolAssumption DEF PoolAssumption
<1>2. LastOf(tasks) \in 0..tasks
  BY <1>1, ChunkCount
<1>3. Chunks = 1..LastOf(tasks)
  BY DEF Chunks, LastOf, ChunkSize, SizeFor
<1>4. Cardinality(1..LastOf(tasks)) = LastOf(tasks)
  BY <1>2, FS_Interval
<1> QED
  BY <1>1, <1>2, <1>3, <1>4

\* The progress that is told is the number of files parsed.
LEMMA PoolTypes == PoolInv /\ PoolData => PoolTypeOK
<1> SUFFICES ASSUME PoolInv, PoolData PROVE PoolTypeOK
  OBVIOUS
<1>1. Cardinality(Chunks) = LastOf(tasks)
  BY PoolChunks DEF PoolData
<1>2. progress \in 0..tasks
  BY SomeCount DEF PoolInv, PoolExact, AllTasks
<1> QED
  BY <1>1, <1>2 DEF PoolInv, PoolData, PoolTypeOK

\* The pool before it starts.
LEMMA PoolDataStarts == PoolInit => PoolData
<1> SUFFICES ASSUME PoolInit PROVE PoolData
  OBVIOUS
<1>1. LastOf(tasks) \in Nat
  BY PoolChunks DEF PoolInit
<1> QED
  BY <1>1 DEF PoolInit, PoolData, NoChunk

\* Every step of the pool.
LEMMA PoolDataStays == PoolData /\ [PoolNext]_poolVars => PoolData'
<1> SUFFICES ASSUME PoolData, [PoolNext]_poolVars PROVE PoolData'
  OBVIOUS
<1> USE DEF PoolData
<1>c. Chunks = 1..LastOf(tasks) /\ Chunks \subseteq 1..MaxTasks /\ LastOf(tasks) \in Nat
  BY PoolChunks
<1>1. CASE StartAlone \/ PoolBreaks \/ UNCHANGED poolVars
  BY <1>1 DEF StartAlone, PoolBreaks, poolVars
<1>2. CASE StartPool
  BY <1>2 DEF StartPool
<1>3. ASSUME NEW w \in Processes, Pick(w) PROVE PoolData'
  BY <1>c, <1>3 DEF Pick
<1>4. ASSUME NEW w \in Processes, HandBack(w) PROVE PoolData'
  BY <1>4 DEF HandBack
<1>5. ASSUME NEW w \in Processes, Die(w) PROVE PoolData'
  BY <1>5 DEF Die
<1>6. CASE Collect
  BY <1>c, <1>6 DEF Collect
<1>7. CASE Fall \/ PoolIsDone \/ Interrupt
  BY <1>7 DEF Fall, PoolIsDone, Interrupt, KillAll, NoChunk
<1>8. CASE ParseAlone
  BY <1>8 DEF ParseAlone
<1>9. CASE NextRun
  <2>1. tasks' \in 0..MaxTasks /\ LastOf(tasks') \in Nat
    BY <1>9, ChunkCount, PoolAssumption DEF NextRun, PoolAssumption
  <2>2. LastOf(tasks)' = LastOf(tasks')
    BY DEF LastOf, SizeFor
  <2> QED
    BY <1>9, <2>1, <2>2 DEF NextRun
<1> QED
  BY <1>1, <1>2, <1>3, <1>4, <1>5, <1>6, <1>7, <1>8, <1>9 DEF PoolNext

\* The futures, the processes and the counts of a run are of their types, and no
\* more chunks are collected than there are (_run_tasks).
THEOREM PoolTyped == PoolSpec => []PoolTypeOK
<1>1. PoolInit => PoolInv /\ PoolData
  BY PoolInit_Inv, PoolDataStarts
<1>2. PoolInv /\ PoolData /\ [PoolNext]_poolVars => (PoolInv /\ PoolData)'
  BY PoolStep, PoolDataStays
<1> QED
  BY <1>1, <1>2, PoolTypes, PTL DEF PoolSpec

----------------------------------------------------------------------------
(* IncrementalIndex: the types of a run and of what it publishes.  A call    *)
(* leads to a symbol there is (TargetKnown); an edge that is kept is of a    *)
(* text that is the same, to a symbol that is not lost (EdgesResolved).      *)

\* A call that leads anywhere leads to one of the symbols it was looked for in.
LEMMA TargetKnown ==
    ASSUME NEW p, NEW k, NEW texts
    PROVE  Target(p, k, texts) \in Ids(Symbols(texts)) \cup {None}
<1> DEFINE S == Symbols(texts)
           all == Candidates(S, k)
           inFile(T) == {s \in T : s.path = p}
           type == ReturnType(S, k.via)
           typed == {s \in all : s.class = type}
           inherited == {s \in all : <<type, s.class>> \in Hierarchy(texts)}
<1>1. \A T \in SUBSET S : Only(T) \in Ids(S) \cup {None}
  <2> SUFFICES ASSUME NEW T \in SUBSET S, Cardinality(T) = 1 PROVE Only(T) \in Ids(S)
    BY Zenon DEF Only
  <2>1. T # {}
    BY FS_EmptySet
  <2>2. (CHOOSE s \in T : TRUE) \in S
    BY <2>1
  <2>3. Only(T) = Id(CHOOSE s \in T : TRUE)
    BY Zenon DEF Only
  <2> HIDE DEF S
  <2> QED
    BY <2>2, <2>3, Zenon DEF Ids
<1>2. all \in SUBSET S
  BY DEF Candidates
<1>3. /\ typed \in SUBSET S /\ inherited \in SUBSET S /\ inFile(typed) \in SUBSET S
      /\ inFile(all) \in SUBSET S
  BY <1>2
<1>4. Target(p, k, texts) =
        IF k.via # None
        THEN IF type = None THEN None
             ELSE IF typed = {} THEN Only(inherited)
             ELSE IF Cardinality(typed) = 1 THEN Only(typed)
             ELSE Only(inFile(typed))
        ELSE IF inFile(all) # {} THEN Only(inFile(all)) ELSE Only(all)
  BY Zenon DEF Target
<1> DEFINE here == inFile(typed)
           beside == inFile(all)
<1>5. Target(p, k, texts) \in {None, Only(inherited), Only(typed), Only(here), Only(beside),
                               Only(all)}
  <2> HIDE DEF S, all, type, typed, inherited, inFile
  <2> QED
    BY <1>4, Zenon
<1>6. /\ typed \in SUBSET S /\ inherited \in SUBSET S /\ here \in SUBSET S
      /\ beside \in SUBSET S /\ all \in SUBSET S
  BY <1>2, <1>3
<1>7. Target(p, k, texts) \in Ids(S) \cup {None}
  <2> HIDE DEF S, all, typed, inherited, here, beside
  <2> QED
    BY <1>1, <1>5, <1>6
<1> QED
  BY <1>7

\* The edges of a snapshot: of a call in the text of their file, to a symbol of
\* the snapshot.
EdgesOf(links, texts) ==
    \A e \in links :
        /\ e = [path |-> e.path, call |-> e.call, target |-> e.target]
        /\ e.path \in Paths /\ e.call \in CallsOf(texts[e.path])
        /\ e.target \in Ids(Symbols(texts)) \cup {None}

\* So do the edges of a resolution.
LEMMA ResolvedEdges ==
    ASSUME NEW P \in SUBSET Paths, NEW texts
    PROVE  EdgesOf(Resolve(P, texts), texts)
<1> SUFFICES ASSUME NEW e \in Resolve(P, texts)
             PROVE  /\ e = [path |-> e.path, call |-> e.call, target |-> e.target]
                    /\ e.path \in Paths /\ e.call \in CallsOf(texts[e.path])
                    /\ e.target \in Ids(Symbols(texts)) \cup {None}
  BY Zenon DEF EdgesOf
<1>1. PICK p \in P : \E k \in CallsOf(texts[p]) :
          e = [path |-> p, call |-> k, target |-> Target(p, k, texts)]
  BY SMT DEF Resolve
<1>2. PICK k \in CallsOf(texts[p]) :
          e = [path |-> p, call |-> k, target |-> Target(p, k, texts)]
  BY <1>1
<1>3. Target(p, k, texts) \in Ids(Symbols(texts)) \cup {None}
  BY TargetKnown
<1> QED
  BY <1>2, <1>3

\* The edges that a run keeps are of calls that are still made, and lead to what is
\* still there.
LEMMA EdgesResolved ==
    ASSUME NEW previous, NEW new, NEW reparsed, EdgesOf(previous.edges, previous.texts),
           \A p \in Paths \ reparsed :
              new[p] # Absent /\ previous.texts[p] # Absent => new[p] = previous.texts[p]
    PROVE  EdgesOf(ResolveEdges(previous, new, reparsed), new)
<1> DEFINE dirty == Dirty(previous, new, reparsed)
           keeps == {p \in Paths : new[p] # Absent} \ dirty
           shifts == {Moved(e, previous.texts, new, reparsed) :
                        e \in {d \in previous.edges : d.path \in keeps}}
<1>1. EdgesOf(Resolve(Paths, new), new)
  BY ResolvedEdges
<1>2. EdgesOf(Resolve(dirty, new), new)
  <2>1. dirty \in SUBSET Paths
    BY DEF Dirty
  <2> QED
    BY <2>1, ResolvedEdges
<1>3. EdgesOf(shifts, new)
  <2> SUFFICES ASSUME NEW e \in previous.edges, e.path \in keeps
               PROVE  LET f == Moved(e, previous.texts, new, reparsed) IN
                      /\ f = [path |-> f.path, call |-> f.call, target |-> f.target]
                      /\ f.path \in Paths /\ f.call \in CallsOf(new[f.path])
                      /\ f.target \in Ids(Symbols(new)) \cup {None}
    BY Zenon DEF EdgesOf
  <2> DEFINE f == Moved(e, previous.texts, new, reparsed)
  <2>1. /\ e = [path |-> e.path, call |-> e.call, target |-> e.target]
        /\ e.path \in Paths /\ e.call \in CallsOf(previous.texts[e.path])
    BY DEF EdgesOf
  <2>2. /\ new[e.path] # Absent /\ e.path \notin reparsed /\ previous.texts[e.path] # Absent
        /\ ~(f.target # None /\ f.target \notin Ids(Symbols(new)))
    BY <2>1, Zenon DEF Dirty, EdgesAt
  <2>3. new[e.path] = previous.texts[e.path]
    BY <2>1, <2>2
  <2>4. f = [path |-> e.path, call |-> e.call, target |-> f.target]
    <3> DEFINE id == NewId(e.target, previous.texts, new, reparsed)
    <3>1. f = IF e.target = None THEN e ELSE [e EXCEPT !.target = id]
      BY Zenon DEF Moved
    <3> HIDE DEF f, id
    <3> QED
      BY <2>1, <3>1
  <2> HIDE DEF f
  <2>5. f.path = e.path /\ f.call = e.call
    BY <2>4
  <2> QED
    BY <2>1, <2>2, <2>3, <2>4, <2>5 DEF f
<1>4. \/ ResolveEdges(previous, new, reparsed) = Resolve(Paths, new)
      \/ ResolveEdges(previous, new, reparsed) = Resolve(dirty, new) \cup shifts
  BY Zenon DEF ResolveEdges
<1> HIDE DEF dirty, shifts
<1> QED
  BY <1>1, <1>2, <1>3, <1>4 DEF EdgesOf

\* What a run has found is a text of the file, and the previous one where the file
\* is reused.
Found(p) ==
    /\ seen[p].text \in Texts(p) /\ seen[p].mtime \in 0..now
    /\ seen[p].how = "reused" => seen[p].text = Previous.texts[p]
    /\ seen[p].how = "skipped" => seen[p].text = Absent

\* Strengthens TypeOK.
IndexData ==
    /\ now \in 0..MaxTime /\ edits \in 0..MaxEdits /\ started \in 0..now
    /\ \A p \in Paths : tree[p].text \in Texts(p) /\ tree[p].mtime \in 0..now
    /\ \A p \in Paths : snap.texts[p] \in Texts(p) /\ snap.mtimes[p] \in 0..now
    /\ snap.started \in 0..now
    /\ EdgesOf(snap.edges, snap.texts)
    /\ \A p \in Paths : Found(p) /\ shown[p] \subseteq Texts(p)

\* What TypeOK says is part of the invariant.
LEMMA IndexTypes == IndexInv /\ IndexData => TypeOK
<1> SUFFICES ASSUME IndexInv, IndexData PROVE TypeOK
  OBVIOUS
<1>1. \A p \in Paths : seen[p].how \in {"unknown", "skipped", "candidate", "reused", "parsed"}
  BY DEF IndexInv, IndexShape, Finding
<1>2. /\ now \in 0..MaxTime /\ edits \in 0..MaxEdits /\ started \in 0..now
      /\ \A p \in Paths : tree[p].text \in Texts(p) /\ tree[p].mtime \in 0..now
      /\ \A p \in Paths : snap.texts[p] \in Texts(p) /\ snap.mtimes[p] \in 0..now
      /\ snap.started \in 0..now
      /\ \A p \in Paths : /\ seen[p].text \in Texts(p) /\ seen[p].mtime \in 0..now
                          /\ shown[p] \subseteq Texts(p)
      /\ \A e \in snap.edges :
            /\ e.path \in Paths /\ e.call \in CallsOf(snap.texts[e.path])
            /\ e.target \in Ids(Symbols(snap.texts)) \cup {None}
  BY Zenon DEF IndexData, Found, EdgesOf
<1>3. pc \in {"idle", "classify"} /\ mode \in {"stat", "hash", "full"}
  BY DEF IndexInv, IndexShape
<1> QED
  BY <1>1, <1>2, <1>3, Zenon DEF TypeOK

\* The bounds of the model, and the texts of a file.
LEMMA IndexBounds ==
    /\ MaxTime \in Nat /\ MaxEdits \in Nat
    /\ \A p \in Paths : Absent \in Texts(p) /\ FirstText[p] \in Texts(p)
  BY IncrementalAssumption DEF IncrementalAssumption, Texts

\* The time that the file system gives a file is not later than the clock.
LEMMA StampFrom ==
    ASSUME NEW t \in Nat
    PROVE  Stamp(t) \in 0..t
<1>1. Granularity \in Nat /\ Granularity > 0
  BY IndexConstants
<1>2. t % Granularity \in 0..t
  BY <1>1
<1> QED
  BY <1>2 DEF Stamp

\* The tree before anything is indexed.
LEMMA IndexDataStarts == Init => IndexData
<1> SUFFICES ASSUME Init PROVE IndexData
  OBVIOUS
<1>1. snap.edges = {} /\ \A p \in Paths : snap.texts[p] = Absent /\ snap.mtimes[p] = 0
  BY DEF Init, NoSnapshot
<1>2. EdgesOf(snap.edges, snap.texts)
  BY <1>1 DEF EdgesOf
<1>3. \A p \in Paths : seen[p] = Unknown /\ shown[p] = {} /\ tree[p].text = FirstText[p]
                       /\ tree[p].mtime = 0
  BY DEF Init
<1>4. \A p \in Paths : Found(p)
  BY <1>3, IndexBounds DEF Found, Unknown, Init
<1>5. snap.started = 0
  BY DEF Init, NoSnapshot
<1> QED
  BY <1>1, <1>2, <1>3, <1>4, <1>5, IndexBounds DEF IndexData, Init

\* Editing, and waiting, leave the snapshot and what has been found.
LEMMA EditData ==
    ASSUME IndexInv, IndexData, NEW p \in Paths, NEW text \in Texts(p), Edit(p, text)
    PROVE  IndexData'
<1>1. /\ tree' = [tree EXCEPT ![p] = [text |-> text, mtime |-> Stamp(now)]]
      /\ UNCHANGED <<now, snap, pc, mode, started, seen>>
      /\ shown' = IF pc = "idle" THEN shown ELSE [shown EXCEPT ![p] = @ \cup {text}]
      /\ edits < MaxEdits /\ edits' = edits + 1
  BY DEF Edit
<1>2. Stamp(now) \in 0..now
  BY StampFrom DEF IndexInv, IndexShape
<1>3. \A q \in Paths : tree'[q].text \in Texts(q) /\ tree'[q].mtime \in 0..now
  BY <1>1, <1>2 DEF IndexInv, IndexShape, IndexData
<1>4. \A q \in Paths : shown'[q] \subseteq Texts(q)
  BY <1>1 DEF IndexInv, IndexShape, IndexData
<1>5. edits' \in 0..MaxEdits
  BY <1>1, IndexBounds DEF IndexData
<1>6. \A q \in Paths : Found(q)'
  BY <1>1 DEF IndexData, Found, Previous
<1>7. EdgesOf(snap.edges, snap.texts)'
  BY <1>1 DEF IndexData
<1> QED
  BY <1>1, <1>3, <1>4, <1>5, <1>6, <1>7 DEF IndexData

\* Time passes.
LEMMA TickData ==
    ASSUME IndexInv, IndexData, Tick \/ UNCHANGED vars
    PROVE  IndexData'
<1>1. /\ UNCHANGED <<tree, edits, snap, pc, mode, started, seen, shown>>
      /\ now' \in 0..MaxTime /\ now <= now' /\ now \in Nat
  <2>1. now \in 0..MaxTime /\ MaxTime \in Nat
    BY IndexBounds DEF IndexData
  <2> QED
    BY <2>1 DEF Tick, vars, treeVars
<1>2. \A k \in 0..now : k \in 0..now'
  BY <1>1
<1>3. \A q \in Paths : Found(q)'
  BY <1>1, <1>2 DEF IndexData, Found, Previous
<1>4. EdgesOf(snap.edges, snap.texts)'
  BY <1>1 DEF IndexData
<1> QED
  BY <1>1, <1>2, <1>3, <1>4 DEF IndexData

\* A run has found nothing at first.
LEMMA BeginData ==
    ASSUME IndexInv, IndexData, NEW m \in {"stat", "hash", "full"}, Begin(m)
    PROVE  IndexData'
<1>1. /\ started' = now /\ seen' = [p \in Paths |-> Unknown]
      /\ shown' = [p \in Paths |-> {tree[p].text}]
      /\ UNCHANGED <<now, tree, edits, snap>> /\ now \in Nat
  BY DEF Begin, treeVars, IndexInv, IndexShape
<1>2. \A q \in Paths : Found(q)' /\ shown'[q] \subseteq Texts(q)
  BY <1>1, IndexBounds DEF IndexData, Found, Unknown
<1>3. EdgesOf(snap.edges, snap.texts)'
  BY <1>1 DEF IndexData
<1> QED
  BY <1>1, <1>2, <1>3 DEF IndexData

\* The previous snapshot of a run, which there may be none of.
LEMMA PreviousTyped ==
    ASSUME IndexInv, IndexData
    PROVE  /\ \A p \in Paths : Previous.texts[p] \in Texts(p) /\ Previous.mtimes[p] \in 0..now
           /\ EdgesOf(Previous.edges, Previous.texts)
<1>1. CASE mode = "full"
  <2>1. Previous = NoSnapshot
    BY <1>1 DEF Previous
  <2>2. /\ NoSnapshot.edges = {}
        /\ \A p \in Paths : NoSnapshot.texts[p] = Absent /\ NoSnapshot.mtimes[p] = 0
    BY DEF NoSnapshot
  <2>3. EdgesOf(NoSnapshot.edges, NoSnapshot.texts)
    BY <2>2 DEF EdgesOf
  <2>4. now \in Nat
    BY DEF IndexInv, IndexShape
  <2> QED
    BY <2>1, <2>2, <2>3, <2>4, IndexBounds
<1>2. CASE mode # "full"
  BY <1>2 DEF Previous, IndexData
<1> QED
  BY <1>1, <1>2

\* What is found of a file is a text it has, or the one it had.
LEMMA ClassifyData ==
    ASSUME IndexInv, IndexData, NEW p \in Paths, Classify(p) \/ ReadFile(p)
    PROVE  IndexData'
<1>1. UNCHANGED <<now, tree, edits, snap, pc, mode, started, shown>>
  BY DEF Classify, ReadFile, treeVars
<1>2. PICK new :
         /\ seen' = [seen EXCEPT ![p] = new]
         /\ new.text \in Texts(p) /\ new.mtime \in 0..now
         /\ new.how = "reused" => new.text = Previous.texts[p]
         /\ new.how = "skipped" => new.text = Absent
  <2>1. /\ Previous.texts[p] \in Texts(p) /\ Previous.mtimes[p] \in 0..now
        /\ tree[p].text \in Texts(p) /\ tree[p].mtime \in 0..now /\ Absent \in Texts(p)
        /\ seen[p].mtime \in 0..now /\ now \in Nat
    BY PreviousTyped, IndexBounds DEF IndexData, Found, IndexInv, IndexShape
  <2>2. CASE Classify(p)
    <3>1. CASE tree[p].text = Absent
      <4> DEFINE new == [how |-> "skipped", text |-> Absent, mtime |-> 0]
      <4>1. seen' = [seen EXCEPT ![p] = new]
        BY <2>2, <3>1 DEF Classify
      <4>2. /\ new.text \in Texts(p) /\ new.mtime \in 0..now
            /\ new.how = "reused" => new.text = Previous.texts[p]
            /\ new.how = "skipped" => new.text = Absent
        BY <2>1
      <4> HIDE DEF new
      <4> QED
        BY <4>1, <4>2, Zenon
    <3>2. CASE tree[p].text # Absent /\ Trusted(p)
      <4> DEFINE new == [how |-> "reused", text |-> Previous.texts[p],
                         mtime |-> Previous.mtimes[p]]
      <4>1. seen' = [seen EXCEPT ![p] = new]
        BY <2>2, <3>2 DEF Classify
      <4>2. /\ new.text \in Texts(p) /\ new.mtime \in 0..now
            /\ new.how = "reused" => new.text = Previous.texts[p]
            /\ new.how = "skipped" => new.text = Absent
        BY <2>1
      <4> HIDE DEF new
      <4> QED
        BY <4>1, <4>2, Zenon
    <3>3. CASE tree[p].text # Absent /\ ~Trusted(p)
      <4> DEFINE new == [how |-> "candidate", text |-> Absent, mtime |-> tree[p].mtime]
      <4>1. seen' = [seen EXCEPT ![p] = new]
        BY <2>2, <3>3 DEF Classify
      <4>2. /\ new.text \in Texts(p) /\ new.mtime \in 0..now
            /\ new.how = "reused" => new.text = Previous.texts[p]
            /\ new.how = "skipped" => new.text = Absent
        BY <2>1
      <4> HIDE DEF new
      <4> QED
        BY <4>1, <4>2, Zenon
    <3> QED
      BY <3>1, <3>2, <3>3
  <2>3. CASE ReadFile(p)
    <3> DEFINE how == CASE tree[p].text = Absent -> "skipped"
                        [] tree[p].text = Previous.texts[p] -> "reused"
                        [] OTHER -> "parsed"
               new == [how |-> how, text |-> tree[p].text, mtime |-> seen[p].mtime]
    <3>1. seen' = [seen EXCEPT ![p] = new]
      BY <2>3 DEF ReadFile
    <3>2. /\ how = "reused" => tree[p].text = Previous.texts[p]
          /\ how = "skipped" => tree[p].text = Absent
      OBVIOUS
    <3> HIDE DEF how
    <3>3. /\ new.text \in Texts(p) /\ new.mtime \in 0..now
          /\ new.how = "reused" => new.text = Previous.texts[p]
          /\ new.how = "skipped" => new.text = Absent
      BY <2>1, <3>2
    <3> HIDE DEF new
    <3> QED
      BY <3>1, <3>3, Zenon
  <2> QED
    BY <2>2, <2>3
<1>3. \A q \in Paths : Found(q)'
  <2> TAKE q \in Paths
  <2>1. Found(q)
    BY DEF IndexData
  <2>2. Previous' = Previous
    BY <1>1 DEF Previous
  <2>3. CASE q = p
    <3>1. seen'[q] = new
      BY <1>2, <2>3 DEF IndexInv, IndexShape
    <3> QED
      BY <1>1, <1>2, <2>2, <2>3, <3>1 DEF Found
  <2>4. CASE q # p
    <3>1. seen'[q] = seen[q]
      BY <1>2, <2>4 DEF IndexInv, IndexShape
    <3> QED
      BY <1>1, <2>1, <2>2, <3>1 DEF Found
  <2> QED
    BY <2>3, <2>4
<1>4. EdgesOf(snap.edges, snap.texts)'
  BY <1>1 DEF IndexData
<1> QED
  BY <1>1, <1>3, <1>4 DEF IndexData

\* What is published is what has been found; a run that fails leaves nothing.
LEMMA FinishData ==
    ASSUME IndexInv, IndexData, Finish \/ Fail
    PROVE  IndexData'
<1>1. /\ started' = 0 /\ seen' = [p \in Paths |-> Unknown] /\ shown' = [p \in Paths |-> {}]
      /\ UNCHANGED <<now, tree, edits>> /\ now \in Nat
  BY DEF Finish, Fail, treeVars, IndexInv, IndexShape
<1>2. \A q \in Paths : Found(q)' /\ shown'[q] \subseteq Texts(q)
  BY <1>1, IndexBounds DEF Found, Unknown
<1>3. CASE Finish
  <2> DEFINE texts == [p \in Paths |-> seen[p].text]
             reparsed == {p \in Paths : seen[p].how = "parsed"}
             edges_ == ResolveEdges(Previous, texts, reparsed)
  <2>1. /\ \A p \in Paths : seen[p].how \in {"skipped", "reused", "parsed"}
        /\ snap' = [texts |-> texts, mtimes |-> [p \in Paths |-> seen[p].mtime],
                    started |-> started, edges |-> edges_]
    BY <1>3, Zenon DEF Finish
  <2>2. \A p \in Paths \ reparsed :
           texts[p] # Absent /\ Previous.texts[p] # Absent => texts[p] = Previous.texts[p]
    BY <2>1 DEF IndexData, Found
  <2>3. EdgesOf(Previous.edges, Previous.texts)
    BY PreviousTyped
  <2>4. EdgesOf(edges_, texts)
    <3> HIDE DEF texts, reparsed
    <3> QED
      BY <2>2, <2>3, EdgesResolved
  <2>5. \A p \in Paths : texts[p] \in Texts(p) /\ seen[p].mtime \in 0..now
    BY DEF IndexData, Found
  <2> HIDE DEF edges_
  <2>6. /\ snap'.texts = texts /\ snap'.edges = edges_ /\ snap'.started = started
        /\ \A p \in Paths : snap'.mtimes[p] = seen[p].mtime
    BY <2>1
  <2> HIDE DEF texts
  <2>7. EdgesOf(snap.edges, snap.texts)'
    BY <2>4, <2>6
  <2> QED
    BY <1>1, <1>2, <2>5, <2>6, <2>7 DEF IndexData
<1>4. CASE Fail
  <2>1. snap' = snap
    BY <1>4 DEF Fail
  <2>2. EdgesOf(snap.edges, snap.texts)'
    BY <2>1 DEF IndexData
  <2> QED
    BY <1>1, <1>2, <2>1, <2>2 DEF IndexData
<1> QED
  BY <1>3, <1>4

\* Every step of a run.
LEMMA IndexDataStays == IndexInv /\ IndexData /\ [Next]_vars => IndexData'
  BY EditData, TickData, BeginData, ClassifyData, FinishData DEF Next

\* The tree, the snapshot and what a run has found are of their types: the edges of
\* a snapshot are of calls that its texts make, to symbols that they declare, also
\* where they were taken over from the previous one (_resolve_edges).
THEOREM IndexTyped == Spec => []TypeOK
<1>1. Init => IndexInv /\ IndexData
  BY IndexInit, IndexDataStarts
<1>2. IndexInv /\ IndexData /\ [Next]_vars => (IndexInv /\ IndexData)'
  BY IndexStep, IndexDataStays
<1> QED
  BY <1>1, <1>2, IndexTypes, PTL DEF Spec

----------------------------------------------------------------------------
(* IncrementalIndex: I1, an incremental snapshot is that of a full build.    *)
(* A place is a file and a position in its entry of a name.  Where no entry  *)
(* of a name has changed, its symbols are at the same places, of the same    *)
(* classes and types (SamePlaces); a call that needs only that name leads to *)
(* the same places in both trees (SameLeads), and to all of a file and class *)
(* or to none (LeadsTogether), so that id_map finds the symbol at the place  *)
(* it leads to (Renewed, TargetRenewed).                                     *)

\* The k-th function of a text with that name.
SymbolAt(p, text, name, k) ==
    LET d == DefsNamed(text, name)[k] IN
    [path |-> p, class |-> d.class, name |-> d.name, ret |-> d.ret, at |-> d.at]

\* The entry of a name lists the symbols of the file with that name, each once.
LEMMA EntryLists ==
    ASSUME NEW p \in Paths, NEW text \in Texts(p), NEW name
    PROVE  /\ {s \in SymbolsOf(p, text) : s.name = name}
                 = {SymbolAt(p, text, name, k) : k \in DOMAIN Entry(text, name)}
           /\ DOMAIN Entry(text, name) \in SUBSET Nat
           /\ \A k \in DOMAIN Entry(text, name) :
                 LET s == SymbolAt(p, text, name, k) IN
                 /\ s.path = p /\ s.name = name /\ Id(s) # None
                 /\ Entry(text, name)[k] = <<s.class, s.ret>>
           /\ \A k, l \in DOMAIN Entry(text, name) :
                 Id(SymbolAt(p, text, name, k)) = Id(SymbolAt(p, text, name, l)) => k = l
<1>1. CASE text = Absent
  BY <1>1 DEF SymbolsOf, Entry
<1>2. CASE text # Absent
  <2> DEFINE defs == text.defs
             Items == {defs[i] : i \in DOMAIN defs}
             I == {i \in DOMAIN defs : defs[i].name = name}
             named == Picked(defs, I)
  <2>1. text \in TextsOf[p] /\ IdsUnique(p, text)
    BY <1>2, IncrementalAssumption DEF Texts, IncrementalAssumption
  <2>2. /\ defs \in Seq(Items)
        /\ \A i, j \in DOMAIN defs :
              /\ defs[i].class = defs[j].class /\ defs[i].name = defs[j].name
              /\ defs[i].at = defs[j].at
              => i = j
        /\ \A i \in DOMAIN defs : None # <<p, defs[i].class, defs[i].name, defs[i].at>>
    BY <2>1, Zenon DEF IdsUnique
  <2>3. DOMAIN defs = 1..Len(defs) /\ Len(defs) \in Nat
    <3> HIDE DEF defs, Items
    <3> QED
      BY <2>2, LenProperties
  <2>4. DefsNamed(text, name) = named
    BY DEF DefsNamed
  <2>5. I \in SUBSET (1..Len(defs))
    BY <2>3
  <2>6. PICK f : InOrderOf(f, named, defs, I)
    <3> HIDE DEF defs, Items, I
    <3> QED
      BY <2>2, <2>5, PickedOrder, Zenon
  <2>7. named \in Seq(Items) /\ DOMAIN named = 1..Len(named)
    <3>1. named \in Seq(Items)
      <4> HIDE DEF defs, Items, I
      <4> QED
        BY <2>2, <2>5, PickedItems, Zenon
    <3> HIDE DEF named
    <3> QED
      BY <3>1, LenProperties
  <2>8. /\ \A k \in DOMAIN named : f[k] \in I /\ named[k] = defs[f[k]]
        /\ \A i \in I : \E k \in DOMAIN named : f[k] = i
        /\ \A k, l \in DOMAIN named : f[k] = f[l] => k = l
    <3>1. /\ f \in [DOMAIN named -> I]
          /\ \A k \in DOMAIN named : named[k] = defs[f[k]]
          /\ \A k, l \in DOMAIN named : k < l <=> f[k] < f[l]
          /\ \A i \in I : \E k \in DOMAIN named : f[k] = i
      BY <2>6, <2>7, Zenon DEF InOrderOf
    <3>2. DOMAIN named \in SUBSET Nat
      BY <2>7
    <3>3. I \in SUBSET Nat
      BY <2>5
    <3> HIDE DEF named, I
    <3> QED
      BY <3>1, <3>2, <3>3
  <2>9. /\ DOMAIN Entry(text, name) = DOMAIN named
        /\ \A k \in DOMAIN named : Entry(text, name)[k] = <<named[k].class, named[k].ret>>
    <3> HIDE DEF named
    <3> QED
      BY <1>2, <2>4 DEF Entry
  <2>10. \A k : SymbolAt(p, text, name, k)
           = [path |-> p, class |-> named[k].class, name |-> named[k].name,
              ret |-> named[k].ret, at |-> named[k].at]
    BY <2>4 DEF SymbolAt
  <2>11. SymbolsOf(p, text) = {[path |-> p, class |-> d.class, name |-> d.name,
                               ret |-> d.ret, at |-> d.at] : d \in Items}
    BY <1>2, Zenon DEF SymbolsOf
  <2> HIDE DEF named
  <2>12. \A k \in DOMAIN named :
           LET s == SymbolAt(p, text, name, k) IN
           /\ s.path = p /\ s.name = name /\ Id(s) # None
           /\ Entry(text, name)[k] = <<s.class, s.ret>>
    BY <2>2, <2>8, <2>9, <2>10 DEF Id
  <2>13. \A k, l \in DOMAIN named :
           Id(SymbolAt(p, text, name, k)) = Id(SymbolAt(p, text, name, l)) => k = l
    <3> SUFFICES ASSUME NEW k \in DOMAIN named, NEW l \in DOMAIN named,
                        Id(SymbolAt(p, text, name, k)) = Id(SymbolAt(p, text, name, l))
                 PROVE  k = l
      OBVIOUS
    <3>1. /\ named[k].class = named[l].class /\ named[k].name = named[l].name
          /\ named[k].at = named[l].at
      BY <2>10 DEF Id
    <3>2. /\ f[k] \in DOMAIN defs /\ named[k] = defs[f[k]]
          /\ f[l] \in DOMAIN defs /\ named[l] = defs[f[l]]
      BY <2>8
    <3>3. /\ defs[f[k]].class = defs[f[l]].class /\ defs[f[k]].name = defs[f[l]].name
          /\ defs[f[k]].at = defs[f[l]].at
      <4> HIDE DEF defs, I, Items
      <4> QED
        BY <3>1, <3>2, Zenon
    <3>4. f[k] = f[l]
      <4> HIDE DEF defs, I, Items
      <4> QED
        BY <2>2, <3>2, <3>3, Zenon
    <3> QED
      BY <2>8, <3>4
  <2>14. ASSUME NEW s \in SymbolsOf(p, text), s.name = name
         PROVE  \E k \in DOMAIN named : s = SymbolAt(p, text, name, k)
    <3>1. PICK i \in DOMAIN defs :
             s = [path |-> p, class |-> defs[i].class, name |-> defs[i].name,
                  ret |-> defs[i].ret, at |-> defs[i].at]
      BY <2>11, <2>14
    <3>2. i \in I
      BY <2>14, <3>1
    <3>3. PICK k \in DOMAIN named : f[k] = i
      BY <2>8, <3>2
    <3> QED
      BY <2>8, <2>10, <3>1, <3>3
  <2>15. ASSUME NEW k \in DOMAIN named
         PROVE  SymbolAt(p, text, name, k) \in SymbolsOf(p, text)
    <3>1. f[k] \in DOMAIN defs /\ named[k] = defs[f[k]]
      BY <2>8
    <3> QED
      BY <2>10, <2>11, <3>1
  <2> QED
    BY <2>7, <2>9, <2>12, <2>13, <2>14, <2>15
<1> QED
  BY <1>1, <1>2

\* The symbols of a text are finitely many.
LEMMA SymbolsFinite ==
    ASSUME NEW texts, \A p \in Paths : texts[p] \in Texts(p)
    PROVE  IsFiniteSet(Symbols(texts))
<1>1. ASSUME NEW p \in Paths
      PROVE  IsFiniteSet(SymbolsOf(p, texts[p]))
  <2>1. CASE texts[p] = Absent
    BY <2>1, FS_EmptySet DEF SymbolsOf
  <2>2. CASE texts[p] # Absent
    <3> DEFINE defs == texts[p].defs
               Items == {defs[i] : i \in DOMAIN defs}
    <3>1. defs \in Seq(Items)
      BY <1>1, <2>2, IncrementalAssumption DEF Texts, IncrementalAssumption, IdsUnique
    <3>2. DOMAIN defs = 1..Len(defs) /\ Len(defs) \in Nat
      <4> HIDE DEF defs, Items
      <4> QED
        BY <3>1, LenProperties
    <3>3. IsFiniteSet(DOMAIN defs)
      <4>1. \A m \in Nat : IsFiniteSet(1..m)
        BY FS_Interval
      <4> QED
        BY <3>2, <4>1, Zenon
    <3> DEFINE F == [i \in DOMAIN defs |->
                       [path |-> p, class |-> defs[i].class, name |-> defs[i].name,
                        ret |-> defs[i].ret, at |-> defs[i].at]]
    <3>4. SymbolsOf(p, texts[p]) = {F[i] : i \in DOMAIN defs}
      <4>1. SymbolsOf(p, texts[p]) = {[path |-> p, class |-> d.class, name |-> d.name,
                                       ret |-> d.ret, at |-> d.at] : d \in Items}
        BY <2>2, Zenon DEF SymbolsOf
      <4> QED
        BY <4>1
    <3>5. DOMAIN F = DOMAIN defs
      OBVIOUS
    <3> HIDE DEF F, defs
    <3> QED
      BY <3>3, <3>4, <3>5, ImageFinite
  <2> QED
    BY <2>1, <2>2
<1> DEFINE G == [p \in Paths |-> SymbolsOf(p, texts[p])]
<1>2. IsFiniteSet({G[p] : p \in Paths})
  <2>1. DOMAIN G = Paths /\ IsFiniteSet(Paths)
    BY IncrementalAssumption DEF IncrementalAssumption
  <2> HIDE DEF G
  <2> QED
    BY <2>1, ImageFinite
<1>3. Symbols(texts) = UNION {G[p] : p \in Paths}
  BY DEF Symbols
<1>4. \A T \in {G[p] : p \in Paths} : IsFiniteSet(T)
  BY <1>1
<1> HIDE DEF G
<1> QED
  BY <1>2, <1>3, <1>4, FS_UNION

\* Every file has one of its texts, or is absent.
TreeFits(texts) == \A p \in Paths : texts[p] \in Texts(p)

\* Where the symbols of a name are, and the symbols there.
PlacesOf(texts, name) == {w \in Paths \X Nat : w[2] \in DOMAIN Entry(texts[w[1]], name)}
PlacedAt(texts, name, w) == SymbolAt(w[1], texts[w[1]], name, w[2])
AtPlaces(texts, name, W) == {PlacedAt(texts, name, w) : w \in W}
ClassAt(texts, name, w) == Entry(texts[w[1]], name)[w[2]][1]

\* The symbols of a name are those at its places, each at one of them.
LEMMA PlacesName ==
    ASSUME NEW texts, TreeFits(texts), NEW name
    PROVE  /\ {s \in Symbols(texts) : s.name = name}
                 = AtPlaces(texts, name, PlacesOf(texts, name))
           /\ \A w \in PlacesOf(texts, name) :
                 LET s == PlacedAt(texts, name, w) IN
                 /\ w[1] \in Paths /\ w = <<w[1], w[2]>>
                 /\ s.path = w[1] /\ s.name = name /\ s.class = ClassAt(texts, name, w)
                 /\ s.ret = Entry(texts[w[1]], name)[w[2]][2] /\ Id(s) # None
           /\ \A v, w \in PlacesOf(texts, name) :
                 Id(PlacedAt(texts, name, v)) = Id(PlacedAt(texts, name, w)) => v = w
<1>1. \A p \in Paths : texts[p] \in Texts(p)
  BY DEF TreeFits
<1>2. \A w \in PlacesOf(texts, name) :
         /\ w[1] \in Paths /\ w = <<w[1], w[2]>> /\ w[2] \in DOMAIN Entry(texts[w[1]], name)
  BY DEF PlacesOf
<1>3. ASSUME NEW w \in PlacesOf(texts, name)
      PROVE  LET s == PlacedAt(texts, name, w) IN
             /\ s.path = w[1] /\ s.name = name /\ Id(s) # None
             /\ Entry(texts[w[1]], name)[w[2]] = <<s.class, s.ret>>
  <2> DEFINE q == w[1]
             k == w[2]
             s == SymbolAt(q, texts[q], name, k)
  <2>1. q \in Paths /\ texts[q] \in Texts(q) /\ k \in DOMAIN Entry(texts[q], name)
    BY <1>1, <1>2
  <2> HIDE DEF q, k, s
  <2>2. \A i \in DOMAIN Entry(texts[q], name) :
           LET d == SymbolAt(q, texts[q], name, i) IN
           /\ d.path = q /\ d.name = name /\ Id(d) # None
           /\ Entry(texts[q], name)[i] = <<d.class, d.ret>>
    BY <2>1, EntryLists, Zenon
  <2>3. /\ s.path = q /\ s.name = name /\ Id(s) # None
        /\ Entry(texts[q], name)[k] = <<s.class, s.ret>>
    BY <2>1, <2>2, Zenon DEF s
  <2>4. PlacedAt(texts, name, w) = s
    BY Zenon DEF PlacedAt, s, q, k
  <2> QED
    BY <2>3, <2>4, Zenon DEF q, k
<1>4. ASSUME NEW v \in PlacesOf(texts, name), NEW w \in PlacesOf(texts, name),
             Id(PlacedAt(texts, name, v)) = Id(PlacedAt(texts, name, w))
      PROVE  v = w
  <2>1. v[1] = w[1]
    <3>1. PlacedAt(texts, name, v).path = PlacedAt(texts, name, w).path
      BY <1>4 DEF Id
    <3> QED
      BY <1>3, <3>1, Zenon
  <2>2. v[2] = w[2]
    <3>1. \A i, j \in DOMAIN Entry(texts[w[1]], name) :
             Id(SymbolAt(w[1], texts[w[1]], name, i)) = Id(SymbolAt(w[1], texts[w[1]], name, j))
             => i = j
      BY <1>1, <1>2, EntryLists, Zenon
    <3>2. v[2] \in DOMAIN Entry(texts[w[1]], name) /\ w[2] \in DOMAIN Entry(texts[w[1]], name)
      BY <1>2, <2>1
    <3>3. Id(SymbolAt(w[1], texts[w[1]], name, v[2])) = Id(SymbolAt(w[1], texts[w[1]], name, w[2]))
      BY <1>4, <2>1 DEF PlacedAt
    <3> QED
      BY <3>1, <3>2, <3>3, Zenon
  <2> QED
    BY <1>2, <2>1, <2>2, Zenon
<1>5. ASSUME NEW s \in Symbols(texts), s.name = name
      PROVE  s \in AtPlaces(texts, name, PlacesOf(texts, name))
  <2>1. PICK p \in Paths : s \in SymbolsOf(p, texts[p])
    BY DEF Symbols
  <2>2. /\ {x \in SymbolsOf(p, texts[p]) : x.name = name}
              = {SymbolAt(p, texts[p], name, k) : k \in DOMAIN Entry(texts[p], name)}
        /\ DOMAIN Entry(texts[p], name) \in SUBSET Nat
    BY <1>1, EntryLists
  <2>3. PICK k \in DOMAIN Entry(texts[p], name) : s = SymbolAt(p, texts[p], name, k)
    BY <1>5, <2>1, <2>2
  <2>4. <<p, k>> \in PlacesOf(texts, name)
    BY <2>2 DEF PlacesOf
  <2>5. PlacedAt(texts, name, <<p, k>>) = s
    BY <2>3 DEF PlacedAt
  <2> QED
    BY <2>4, <2>5, Zenon DEF AtPlaces
<1>6. ASSUME NEW s \in AtPlaces(texts, name, PlacesOf(texts, name))
      PROVE  s \in Symbols(texts) /\ s.name = name
  <2>1. PICK w \in PlacesOf(texts, name) : s = SymbolAt(w[1], texts[w[1]], name, w[2])
    BY DEF AtPlaces, PlacedAt
  <2>2. w[1] \in Paths /\ w[2] \in DOMAIN Entry(texts[w[1]], name)
    BY <1>2
  <2>3. {x \in SymbolsOf(w[1], texts[w[1]]) : x.name = name}
              = {SymbolAt(w[1], texts[w[1]], name, k) : k \in DOMAIN Entry(texts[w[1]], name)}
    BY <1>1, <2>2, EntryLists
  <2>4. s \in SymbolsOf(w[1], texts[w[1]]) /\ s.name = name
    BY <2>1, <2>2, <2>3
  <2> QED
    BY <2>2, <2>4 DEF Symbols
<1>7. \A w \in PlacesOf(texts, name) :
         LET s == PlacedAt(texts, name, w) IN
         /\ s.class = ClassAt(texts, name, w) /\ s.ret = Entry(texts[w[1]], name)[w[2]][2]
  <2> TAKE w \in PlacesOf(texts, name)
  <2> DEFINE s == PlacedAt(texts, name, w)
  <2>1. Entry(texts[w[1]], name)[w[2]] = <<s.class, s.ret>>
    BY <1>3, Zenon
  <2> HIDE DEF s
  <2>2. s.class = ClassAt(texts, name, w) /\ s.ret = Entry(texts[w[1]], name)[w[2]][2]
    BY <2>1 DEF ClassAt
  <2> QED
    BY <2>2 DEF s
<1> QED
  BY <1>2, <1>3, <1>4, <1>5, <1>6, <1>7

\* One place is one symbol.
LEMMA OnlyPlace ==
    ASSUME NEW texts, TreeFits(texts), NEW name, NEW W \in SUBSET PlacesOf(texts, name)
    PROVE  /\ Cardinality(AtPlaces(texts, name, W)) = 1 <=> \E v : W = {v}
           /\ \A v : W = {v} =>
                 Only(AtPlaces(texts, name, W)) = Id(PlacedAt(texts, name, v))
           /\ ~(\E v : W = {v}) => Only(AtPlaces(texts, name, W)) = None
<1> DEFINE A == AtPlaces(texts, name, W)
<1>1. \A v, w \in W : PlacedAt(texts, name, v) = PlacedAt(texts, name, w) => v = w
  BY PlacesName
<1>2. A \in SUBSET Symbols(texts)
  BY PlacesName DEF AtPlaces
<1>3. IsFiniteSet(A)
  BY <1>2, SymbolsFinite, FS_Subset DEF TreeFits
<1>4. A = {PlacedAt(texts, name, w) : w \in W}
  BY DEF AtPlaces
<1>5. Cardinality(A) = 1 <=> \E x : A = {x}
  <2> HIDE DEF A
  <2> QED
    BY <1>3, FS_Singleton
<1> HIDE DEF A
<1>6. ASSUME NEW v, W = {v} PROVE A = {PlacedAt(texts, name, v)}
  BY <1>4, <1>6
<1>7. ASSUME NEW x, A = {x} PROVE \E v : W = {v}
  <2>1. PICK v \in W : x = PlacedAt(texts, name, v)
    BY <1>4, <1>7
  <2>2. \A w \in W : PlacedAt(texts, name, w) = x
    BY <1>4, <1>7
  <2>3. W = {v}
    BY <1>1, <2>1, <2>2
  <2> QED
    BY <2>3
<1>8. \A x : A = {x} => Only(A) = Id(x)
  <2> TAKE x
  <2> HAVE A = {x}
  <2>1. Cardinality(A) = 1
    BY <1>5
  <2>2. (CHOOSE s \in A : TRUE) = x
    OBVIOUS
  <2> QED
    BY <2>1, <2>2 DEF Only
<1>9. Cardinality(A) # 1 => Only(A) = None
  BY DEF Only
<1>10. \A v : W = {v} => Only(A) = Id(PlacedAt(texts, name, v))
  BY <1>6, <1>8
<1>11. Cardinality(A) = 1 <=> \E v : W = {v}
  BY <1>5, <1>6, <1>7
<1> QED
  BY <1>9, <1>10, <1>11 DEF A

\* The places that a call may lead to.
Leads(p, k, texts) ==
    LET all == PlacesOf(texts, k.name)
        type == ReturnType(Symbols(texts), k.via)
        typed == {w \in all : ClassAt(texts, k.name, w) = type}
        inherited == {w \in all :
                        <<type, ClassAt(texts, k.name, w)>> \in Hierarchy(texts)}
        here(W) == {w \in W : w[1] = p}
    IN  IF k.via # None
        THEN IF type = None THEN {}
             ELSE IF typed = {} THEN inherited
             ELSE IF \E v : typed = {v} THEN typed
             ELSE here(typed)
        ELSE IF here(all) # {} THEN here(all) ELSE all


\* They are where it leads.
LEMMA LeadsThere ==
    ASSUME NEW texts, TreeFits(texts), NEW p, NEW k, k.orig = k.name
    PROVE  /\ Target(p, k, texts) = Only(AtPlaces(texts, k.name, Leads(p, k, texts)))
           /\ Candidates(Symbols(texts), k) = AtPlaces(texts, k.name, PlacesOf(texts, k.name))
<1> DEFINE name == k.name
           places == PlacesOf(texts, name)
           image(W) == AtPlaces(texts, name, W)
           S == Symbols(texts)
           all == Candidates(S, k)
           type == ReturnType(S, k.via)
           typed == {s \in all : s.class = type}
           inherited == {s \in all : <<type, s.class>> \in Hierarchy(texts)}
           typedAt == {w \in places : ClassAt(texts, name, w) = type}
           inheritedAt == {w \in places :
                             <<type, ClassAt(texts, name, w)>> \in Hierarchy(texts)}
           hereTyped == {s \in typed : s.path = p}
           hereAll == {s \in all : s.path = p}
           hereTypedAt == {w \in typedAt : w[1] = p}
           hereAllAt == {w \in places : w[1] = p}
<1>1. all = image(places)
  <2>1. all = IF {s \in S : s.name = k.name} # {} THEN {s \in S : s.name = k.name}
              ELSE {s \in S : s.name = k.orig}
    BY DEF Candidates
  <2>2. all = {s \in S : s.name = name}
    BY <2>1
  <2> QED
    BY <2>2, PlacesName
<1>2. \A w \in places : LET s == PlacedAt(texts, name, w) IN
         s.path = w[1] /\ s.class = ClassAt(texts, name, w)
  BY PlacesName
<1>3. all = {PlacedAt(texts, name, w) : w \in places}
  BY <1>1 DEF AtPlaces
<1>4. /\ typed = {PlacedAt(texts, name, w) : w \in typedAt}
      /\ inherited = {PlacedAt(texts, name, w) : w \in inheritedAt}
      /\ hereAll = {PlacedAt(texts, name, w) : w \in hereAllAt}
  <2> HIDE DEF all, type, places, name
  <2> QED
    BY <1>2, <1>3
<1>5. hereTyped = {PlacedAt(texts, name, w) : w \in hereTypedAt}
  <2>1. typedAt \subseteq places
    OBVIOUS
  <2> HIDE DEF typed, typedAt, places, name
  <2> QED
    BY <1>2, <1>4, <2>1
<1>6. /\ typed = image(typedAt) /\ inherited = image(inheritedAt)
      /\ hereAll = image(hereAllAt) /\ hereTyped = image(hereTypedAt)
  BY <1>4, <1>5, Zenon DEF AtPlaces
<1>7. typed = {} <=> typedAt = {}
  <2> HIDE DEF typed, typedAt
  <2> QED
    BY <1>4
<1>8. hereAll = {} <=> hereAllAt = {}
  <2> HIDE DEF hereAll, hereAllAt
  <2> QED
    BY <1>4
<1>9. Cardinality(typed) = 1 <=> \E v : typedAt = {v}
  <2>1. typedAt \in SUBSET PlacesOf(texts, name)
    OBVIOUS
  <2>2. Cardinality(AtPlaces(texts, name, typedAt)) = 1 <=> \E v : typedAt = {v}
    <3>1. \A W \in SUBSET PlacesOf(texts, name) :
             Cardinality(AtPlaces(texts, name, W)) = 1 <=> \E v : W = {v}
      <4> TAKE W \in SUBSET PlacesOf(texts, name)
      <4> HIDE DEF typedAt, name
      <4> QED
        BY OnlyPlace
    <3> HIDE DEF typedAt, name
    <3> QED
      BY <2>1, <3>1
  <2> HIDE DEF typed, typedAt, name
  <2> QED
    BY <1>6, <2>2, Zenon
<1>10. Only(image({})) = None
  <2>1. {} \in SUBSET PlacesOf(texts, name) /\ ~(\E v : {} = {v})
    OBVIOUS
  <2> HIDE DEF name
  <2> QED
    BY <2>1, OnlyPlace
<1>11. Target(p, k, texts) =
        IF k.via # None
        THEN IF type = None THEN None
             ELSE IF typed = {} THEN Only(inherited)
             ELSE IF Cardinality(typed) = 1 THEN Only(typed)
             ELSE Only(hereTyped)
        ELSE IF hereAll # {} THEN Only(hereAll) ELSE Only(all)
  BY Zenon DEF Target
<1>12. Leads(p, k, texts) =
        IF k.via # None
        THEN IF type = None THEN {}
             ELSE IF typedAt = {} THEN inheritedAt
             ELSE IF \E v : typedAt = {v} THEN typedAt
             ELSE hereTypedAt
        ELSE IF hereAllAt # {} THEN hereAllAt ELSE places
  BY Zenon DEF Leads
<1>13. Target(p, k, texts) = Only(image(Leads(p, k, texts)))
  <2> HIDE DEF all, type, typed, inherited, typedAt, inheritedAt, hereTyped, hereAll,
               hereTypedAt, hereAllAt, places
  <2>1. CASE k.via # None /\ type = None
    BY <1>10, <1>11, <1>12, <2>1, Zenon
  <2>2. CASE k.via # None /\ type # None /\ typed = {}
    BY <1>6, <1>7, <1>11, <1>12, <2>2, Zenon
  <2>3. CASE k.via # None /\ type # None /\ typed # {} /\ Cardinality(typed) = 1
    BY <1>6, <1>7, <1>9, <1>11, <1>12, <2>3, Zenon
  <2>4. CASE k.via # None /\ type # None /\ typed # {} /\ Cardinality(typed) # 1
    BY <1>6, <1>7, <1>9, <1>11, <1>12, <2>4, Zenon
  <2>5. CASE k.via = None /\ hereAll # {}
    BY <1>6, <1>8, <1>11, <1>12, <2>5, Zenon
  <2>6. CASE k.via = None /\ hereAll = {}
    BY <1>1, <1>8, <1>11, <1>12, <2>6, Zenon
  <2> QED
    BY <2>1, <2>2, <2>3, <2>4, <2>5, <2>6
<1> QED
  BY <1>1, <1>13

\* A call leads to all of a place's file and class, or to none of it.
LEMMA LeadsTogether ==
    ASSUME NEW p, NEW k, NEW texts
    PROVE  /\ Leads(p, k, texts) \in SUBSET PlacesOf(texts, k.name)
           /\ \A v \in Leads(p, k, texts), w \in PlacesOf(texts, k.name) :
                 /\ w[1] = v[1] /\ ClassAt(texts, k.name, w) = ClassAt(texts, k.name, v)
                 => w \in Leads(p, k, texts)
<1> DEFINE places == PlacesOf(texts, k.name)
           class(w) == ClassAt(texts, k.name, w)
           type == ReturnType(Symbols(texts), k.via)
           typed == {w \in places : class(w) = type}
           inherited == {w \in places : <<type, class(w)>> \in Hierarchy(texts)}
           hereTyped == {w \in typed : w[1] = p}
           here == {w \in places : w[1] = p}
           Whole(W) == /\ W \in SUBSET places
                       /\ \A v \in W, w \in places :
                             w[1] = v[1] /\ class(w) = class(v) => w \in W
<1>1. Leads(p, k, texts) =
        IF k.via # None
        THEN IF type = None THEN {}
             ELSE IF typed = {} THEN inherited
             ELSE IF \E v : typed = {v} THEN typed
             ELSE hereTyped
        ELSE IF here # {} THEN here ELSE places
  BY Zenon DEF Leads
<1>2. Leads(p, k, texts) \in {{}, inherited, typed, hereTyped, here, places}
  <2> HIDE DEF type, typed, inherited, hereTyped, here, places
  <2> QED
    BY <1>1, Zenon
<1>3. /\ Whole({}) /\ Whole(inherited) /\ Whole(typed) /\ Whole(hereTyped) /\ Whole(here)
      /\ Whole(places)
  <2> HIDE DEF type, places
  <2> QED
    OBVIOUS
<1>4. Whole(Leads(p, k, texts))
  <2> HIDE DEF typed, inherited, hereTyped, here, places, Whole
  <2> QED
    BY <1>2, <1>3
<1> QED
  BY <1>4

\* Where no file's entry of a name has changed, its places are the same, with the
\* same classes and types.
LEMMA SamePlaces ==
    ASSUME NEW old, NEW new, NEW name, ~Changed(name, old, new)
    PROVE  /\ PlacesOf(old, name) = PlacesOf(new, name)
           /\ \A w \in PlacesOf(new, name) :
                 Entry(old[w[1]], name)[w[2]] = Entry(new[w[1]], name)[w[2]]
           /\ \A w \in PlacesOf(new, name) : ClassAt(old, name, w) = ClassAt(new, name, w)
<1>1. \A p \in Paths : Entry(old[p], name) = Entry(new[p], name)
  BY DEF Changed
<1>2. \A w \in Paths \X Nat : Entry(old[w[1]], name) = Entry(new[w[1]], name)
  BY <1>1
<1>3. PlacesOf(old, name) = PlacesOf(new, name)
  BY <1>2 DEF PlacesOf
<1>4. \A w \in PlacesOf(new, name) : Entry(old[w[1]], name) = Entry(new[w[1]], name)
  BY <1>2 DEF PlacesOf
<1> QED
  BY <1>3, <1>4 DEF ClassAt

\* So the functions of that name return the same.
LEMMA SameReturns ==
    ASSUME NEW old, NEW new, TreeFits(old), TreeFits(new), NEW name,
           ~Changed(name, old, new)
    PROVE  ReturnType(Symbols(old), name) = ReturnType(Symbols(new), name)
<1> DEFINE Types(S) == {s.ret : s \in {x \in S : x.name = name /\ x.ret # None}}
           places == PlacesOf(new, name)
           rets == {Entry(new[w[1]], name)[w[2]][2] : w \in places} \ {None}
<1>1. ASSUME NEW texts, TreeFits(texts), PlacesOf(texts, name) = places,
             \A w \in places : Entry(texts[w[1]], name)[w[2]] = Entry(new[w[1]], name)[w[2]]
      PROVE  Types(Symbols(texts)) = rets
  <2>1. {s \in Symbols(texts) : s.name = name}
           = {PlacedAt(texts, name, w) : w \in places}
    BY <1>1, PlacesName DEF AtPlaces
  <2>2. \A w \in places : PlacedAt(texts, name, w).ret = Entry(new[w[1]], name)[w[2]][2]
    BY <1>1, PlacesName
  <2> HIDE DEF places
  <2>3. Types(Symbols(texts))
           = {s.ret : s \in {PlacedAt(texts, name, w) : w \in places}} \ {None}
    BY <2>1
  <2> QED
    BY <2>2, <2>3
<1>2. Types(Symbols(old)) = rets
  BY <1>1, SamePlaces
<1>3. Types(Symbols(new)) = rets
  BY <1>1
<1> DEFINE Agreed(T) == IF Cardinality(T) = 1 THEN CHOOSE t \in T : TRUE ELSE None
<1>4. \A S : ReturnType(S, name) = Agreed(Types(S))
  BY Zenon DEF ReturnType
<1> HIDE DEF rets, Types, Agreed
<1> QED
  BY <1>2, <1>3, <1>4

\* So a call leads to the same places.
LEMMA SameLeads ==
    ASSUME NEW old, NEW new, TreeFits(old), TreeFits(new), NEW p, NEW k,
           Hierarchy(old) = Hierarchy(new), ~Changed(k.name, old, new),
           k.via # None => ~Changed(k.via, old, new)
    PROVE  Leads(p, k, old) = Leads(p, k, new)
<1> DEFINE places == PlacesOf(new, k.name)
           type == ReturnType(Symbols(new), k.via)
           typed == {w \in places : ClassAt(new, k.name, w) = type}
           inherited == {w \in places :
                           <<type, ClassAt(new, k.name, w)>> \in Hierarchy(new)}
           oldType == ReturnType(Symbols(old), k.via)
           oldTyped == {w \in places : ClassAt(old, k.name, w) = oldType}
           oldInherited == {w \in places :
                              <<oldType, ClassAt(old, k.name, w)>> \in Hierarchy(new)}
           here(W) == {w \in W : w[1] = p}
           Of(t, T, I, A) == IF k.via # None
                             THEN IF t = None THEN {}
                                  ELSE IF T = {} THEN I
                                  ELSE IF \E v : T = {v} THEN T
                                  ELSE here(T)
                             ELSE IF here(A) # {} THEN here(A) ELSE A
<1>1. /\ PlacesOf(old, k.name) = places
      /\ \A w \in places : ClassAt(old, k.name, w) = ClassAt(new, k.name, w)
  BY SamePlaces
<1>2. k.via # None => oldType = type
  BY SameReturns
<1>3. Leads(p, k, new) = Of(type, typed, inherited, places)
  BY Zenon DEF Leads
<1>4. Leads(p, k, old) = Of(oldType, oldTyped, oldInherited, places)
  BY <1>1, Zenon DEF Leads
<1>5. k.via # None => oldTyped = typed /\ oldInherited = inherited
  <2> HIDE DEF places, type, oldType
  <2> QED
    BY <1>1, <1>2
<1> HIDE DEF places, type, oldType, typed, oldTyped, inherited, oldInherited, here
<1>6. CASE k.via # None
  <2> HIDE DEF Of
  <2> QED
    BY <1>2, <1>3, <1>4, <1>5, <1>6
<1>7. CASE k.via = None
  BY <1>3, <1>4, <1>7
<1> QED
  BY <1>6, <1>7

\* What a run has before it: two trees of texts it knows, the same where it has not
\* parsed a file again.
Trees(old, new, reparsed) ==
    /\ TreeFits(old) /\ TreeFits(new)
    /\ \A q \in Paths \ reparsed : new[q] # Absent /\ old[q] # Absent => new[q] = old[q]

\* The symbol at a place has its id renewed to that of the symbol there now.
LEMMA Renewed ==
    ASSUME NEW old, NEW new, NEW reparsed, Trees(old, new, reparsed), NEW name,
           ~Changed(name, old, new), NEW v \in PlacesOf(new, name),
           \A w \in PlacesOf(new, name) :
              w[1] = v[1] /\ ClassAt(new, name, w) = ClassAt(new, name, v) => w = v
    PROVE  NewId(Id(PlacedAt(old, name, v)), old, new, reparsed)
              = Id(PlacedAt(new, name, v))
<1> DEFINE q == v[1]
           id == Id(PlacedAt(old, name, v))
           Same(texts) == {s \in SymbolsOf(id[1], texts[id[1]]) :
                              s.class = id[2] /\ s.name = id[3]}
<1>1. TreeFits(old) /\ TreeFits(new) /\ q \in Paths
  BY PlacesName DEF Trees
<1>2. /\ PlacesOf(old, name) = PlacesOf(new, name)
      /\ \A w \in PlacesOf(new, name) : ClassAt(old, name, w) = ClassAt(new, name, w)
  BY SamePlaces
<1>3. id[1] = q /\ id[2] = ClassAt(new, name, v) /\ id[3] = name
  <2>1. /\ PlacedAt(old, name, v).path = q /\ PlacedAt(old, name, v).name = name
        /\ PlacedAt(old, name, v).class = ClassAt(old, name, v)
    BY <1>1, <1>2, PlacesName
  <2> QED
    BY <1>2, <2>1 DEF Id
<1>4. ASSUME NEW texts, TreeFits(texts), PlacesOf(texts, name) = PlacesOf(new, name),
             \A w \in PlacesOf(new, name) : ClassAt(texts, name, w) = ClassAt(new, name, w)
      PROVE  Same(texts) = {PlacedAt(texts, name, v)}
  <2>1. {s \in Symbols(texts) : s.name = name}
           = {PlacedAt(texts, name, w) : w \in PlacesOf(new, name)}
    BY <1>4, PlacesName DEF AtPlaces
  <2>2. \A w \in PlacesOf(new, name) :
           /\ PlacedAt(texts, name, w).path = w[1] /\ PlacedAt(texts, name, w).name = name
           /\ PlacedAt(texts, name, w).class = ClassAt(new, name, w)
    BY <1>4, PlacesName
  <2>3. \A s : s \in SymbolsOf(q, texts[q]) <=> s \in Symbols(texts) /\ s.path = q
    <3>1. \A r \in Paths : \A s \in SymbolsOf(r, texts[r]) : s.path = r
      BY DEF SymbolsOf
    <3> QED
      BY <1>1, <3>1 DEF Symbols
  <2>4. Same(texts) = {s \in SymbolsOf(q, texts[q]) :
                          s.class = ClassAt(new, name, v) /\ s.name = name}
    BY <1>3
  <2> HIDE DEF Same, q
  <2>5. \A s \in Same(texts) : s = PlacedAt(texts, name, v)
    <3> TAKE s \in Same(texts)
    <3>1. /\ s \in Symbols(texts) /\ s.name = name /\ s.path = q
          /\ s.class = ClassAt(new, name, v)
      BY <2>3, <2>4
    <3>2. PICK w \in PlacesOf(new, name) : s = PlacedAt(texts, name, w)
      BY <2>1, <3>1
    <3>3. w = v
      BY <2>2, <3>1, <3>2 DEF q
    <3> QED
      BY <3>2, <3>3
  <2>6. PlacedAt(texts, name, v) \in Same(texts)
    BY <2>1, <2>2, <2>3, <2>4 DEF q
  <2> QED
    BY <2>5, <2>6
<1>5. Same(old) = {PlacedAt(old, name, v)} /\ Same(new) = {PlacedAt(new, name, v)}
  BY <1>1, <1>2, <1>4
<1>6. NewId(id, old, new, reparsed) =
         IF /\ id[1] \in reparsed
            /\ Cardinality(Same(old)) = 1 /\ Cardinality(Same(new)) = 1
         THEN Id(CHOOSE s \in Same(new) : TRUE)
         ELSE id
  BY Zenon DEF NewId
<1> HIDE DEF Same
<1>7. CASE q \in reparsed
  <2>1. Cardinality(Same(old)) = 1 /\ Cardinality(Same(new)) = 1
    BY <1>5, FS_Singleton
  <2>2. (CHOOSE s \in Same(new) : TRUE) = PlacedAt(new, name, v)
    BY <1>5
  <2> HIDE DEF id
  <2> QED
    BY <1>3, <1>6, <1>7, <2>1, <2>2 DEF id
<1>8. CASE q \notin reparsed
  <2>1. v[2] \in DOMAIN Entry(old[q], name) /\ v[2] \in DOMAIN Entry(new[q], name)
    BY <1>2 DEF PlacesOf
  <2>2. old[q] # Absent /\ new[q] # Absent
    BY <2>1 DEF Entry
  <2>3. old[q] = new[q]
    BY <1>1, <1>8, <2>2 DEF Trees
  <2>4. PlacedAt(old, name, v) = PlacedAt(new, name, v)
    BY <2>3 DEF PlacedAt
  <2> HIDE DEF id
  <2> QED
    BY <1>3, <1>6, <1>8, <2>4 DEF id
<1> QED
  BY <1>7, <1>8

\* A call leads, in the new tree, to what its target in the old one is renewed to.
LEMMA TargetRenewed ==
    ASSUME NEW old, NEW new, NEW reparsed, Trees(old, new, reparsed), NEW p, NEW k,
           k.orig = k.name, Hierarchy(old) = Hierarchy(new), ~Changed(k.name, old, new),
           k.via # None => ~Changed(k.via, old, new)
    PROVE  /\ Target(p, k, old) = None => Target(p, k, new) = None
           /\ Target(p, k, old) # None =>
                 NewId(Target(p, k, old), old, new, reparsed) = Target(p, k, new)
           /\ Candidates(Symbols(old), k) = {} <=> Candidates(Symbols(new), k) = {}
<1> DEFINE name == k.name
           W == Leads(p, k, new)
<1>1. TreeFits(old) /\ TreeFits(new)
  BY DEF Trees
<1>2. /\ Target(p, k, old) = Only(AtPlaces(old, name, W))
      /\ Target(p, k, new) = Only(AtPlaces(new, name, W))
      /\ Candidates(Symbols(old), k) = AtPlaces(old, name, PlacesOf(old, name))
      /\ Candidates(Symbols(new), k) = AtPlaces(new, name, PlacesOf(new, name))
  <2>1. Leads(p, k, old) = W
    BY <1>1, SameLeads
  <2> QED
    BY <1>1, <2>1, LeadsThere, Zenon
<1>3. PlacesOf(old, name) = PlacesOf(new, name)
  BY SamePlaces
<1>4. /\ W \in SUBSET PlacesOf(new, name)
      /\ \A v \in W, w \in PlacesOf(new, name) :
            w[1] = v[1] /\ ClassAt(new, name, w) = ClassAt(new, name, v) => w \in W
  BY LeadsTogether
<1>5. Candidates(Symbols(old), k) = {} <=> Candidates(Symbols(new), k) = {}
  BY <1>2, <1>3 DEF AtPlaces
<1> HIDE DEF W, name
<1>o. ASSUME NEW texts, TreeFits(texts), W \in SUBSET PlacesOf(texts, name)
      PROVE  /\ \A v : W = {v} =>
                   Only(AtPlaces(texts, name, W)) = Id(PlacedAt(texts, name, v))
             /\ ~(\E v : W = {v}) => Only(AtPlaces(texts, name, W)) = None
  BY <1>o, OnlyPlace
<1>p. W \in SUBSET PlacesOf(old, name)
  BY <1>3, <1>4
<1>6. CASE \E v : W = {v}
  <2>1. PICK v : W = {v}
    BY <1>6
  <2>2. v \in PlacesOf(new, name)
    BY <1>4, <2>1
  <2>3. /\ Target(p, k, old) = Id(PlacedAt(old, name, v))
        /\ Target(p, k, new) = Id(PlacedAt(new, name, v))
    BY <1>1, <1>2, <1>4, <1>o, <1>p, <2>1, Zenon
  <2>4. Target(p, k, old) # None
    BY <1>1, <1>3, <2>2, <2>3, PlacesName
  <2>5. \A w \in PlacesOf(new, name) :
           w[1] = v[1] /\ ClassAt(new, name, w) = ClassAt(new, name, v) => w = v
    BY <1>4, <2>1
  <2>6. NewId(Id(PlacedAt(old, name, v)), old, new, reparsed) = Id(PlacedAt(new, name, v))
    BY <2>2, <2>5, Renewed DEF name
  <2> QED
    BY <1>5, <2>3, <2>4, <2>6
<1>7. CASE ~\E v : W = {v}
  <2>1. Target(p, k, old) = None /\ Target(p, k, new) = None
    BY <1>1, <1>2, <1>4, <1>7, <1>o, <1>p, Zenon
  <2> QED
    BY <1>5, <2>1
<1> QED
  BY <1>6, <1>7

\* No call is of a name that an import binds to another.
NoAliases == \A p \in Paths : \A text \in TextsOf[p] : \A k \in text.calls : k.orig = k.name

\* The edges of some files, as a build from scratch resolves them.
LEMMA ResolvedAre ==
    ASSUME NEW P \in SUBSET Paths, NEW texts, NEW e
    PROVE  e \in Resolve(P, texts) <=>
              \E p \in P : \E k \in CallsOf(texts[p]) :
                 /\ Candidates(Symbols(texts), k) # {}
                 /\ e = [path |-> p, call |-> k, target |-> Target(p, k, texts)]
  BY SMT DEF Resolve

\* Without aliases, a run that starts from the edges of a build from scratch ends
\* with those of one: the files that are not resolved again keep their edges.
LEMMA EdgesKept ==
    ASSUME NoAliases, NEW previous, NEW new, NEW reparsed,
           Trees(previous.texts, new, reparsed),
           previous.edges = Resolve(Paths, previous.texts)
    PROVE  ResolveEdges(previous, new, reparsed) = Resolve(Paths, new)
<1> DEFINE old == previous.texts
           dirty == Dirty(previous, new, reparsed)
           clean == {p \in Paths : new[p] # Absent} \ dirty
           carried == {e \in previous.edges : e.path \in clean}
           shifts == {Moved(e, old, new, reparsed) : e \in carried}
<1>1. CASE Hierarchy(old) # Hierarchy(new)
  BY <1>1, Zenon DEF ResolveEdges
<1>2. CASE Hierarchy(old) = Hierarchy(new)
  <2>1. ResolveEdges(previous, new, reparsed) = Resolve(dirty, new) \cup shifts
    BY <1>2, Zenon DEF ResolveEdges
  <2>2. dirty \in SUBSET Paths /\ clean \in SUBSET Paths
    BY DEF Dirty
  <2>3. ASSUME NEW p \in clean
        PROVE  /\ p \in Paths /\ new[p] # Absent /\ old[p] = new[p]
               /\ \A name \in Mentions(new[p]) : ~Changed(name, old, new)
    <3>1. /\ p \in Paths /\ new[p] # Absent /\ p \notin reparsed /\ old[p] # Absent
          /\ \A name \in Mentions(new[p]) : ~Changed(name, old, new)
      BY <2>3, Zenon DEF Dirty
    <3> QED
      BY <3>1 DEF Trees
  <2>4. ASSUME NEW p \in clean, NEW k \in CallsOf(new[p])
        PROVE  /\ k \in CallsOf(old[p])
               /\ Candidates(Symbols(old), k) = {} <=> Candidates(Symbols(new), k) = {}
               /\ Moved([path |-> p, call |-> k, target |-> Target(p, k, old)], old, new,
                        reparsed)
                     = [path |-> p, call |-> k, target |-> Target(p, k, new)]
    <3>1. /\ p \in Paths /\ new[p] # Absent /\ old[p] = new[p]
          /\ \A name \in Mentions(new[p]) : ~Changed(name, old, new)
      BY <2>3
    <3>2. k \in new[p].calls /\ new[p] \in TextsOf[p]
      BY <3>1 DEF CallsOf, Trees, TreeFits, Texts
    <3>3. k.orig = k.name
      BY <3>1, <3>2 DEF NoAliases
    <3>4. k.name \in Mentions(new[p]) /\ (k.via # None => k.via \in Mentions(new[p]))
      BY DEF Mentions
    <3>5. ~Changed(k.name, old, new) /\ (k.via # None => ~Changed(k.via, old, new))
      BY <3>1, <3>4
    <3> DEFINE was == Target(p, k, old)
               is == Target(p, k, new)
    <3>6. /\ was = None => is = None
          /\ was # None => NewId(was, old, new, reparsed) = is
          /\ Candidates(Symbols(old), k) = {} <=> Candidates(Symbols(new), k) = {}
      <4> HIDE DEF old
      <4>1. Trees(old, new, reparsed)
        BY DEF old
      <4> QED
        BY <1>2, <3>3, <3>5, <4>1, TargetRenewed
    <3> DEFINE e == [path |-> p, call |-> k, target |-> was]
               id == NewId(was, old, new, reparsed)
    <3>7. Moved(e, old, new, reparsed) =
             IF e.target = None THEN e ELSE [e EXCEPT !.target = NewId(@, old, new, reparsed)]
      BY Zenon DEF Moved
    <3> HIDE DEF was, is
    <3>8. Moved(e, old, new, reparsed) =
             IF was = None THEN e ELSE [e EXCEPT !.target = id]
      BY <3>7
    <3> HIDE DEF id
    <3>9. Moved(e, old, new, reparsed) = [path |-> p, call |-> k, target |-> is]
      BY <3>6, <3>8 DEF id
    <3> QED
      BY <3>1, <3>6, <3>9 DEF was, is
  <2>5. ASSUME NEW e \in shifts PROVE e \in Resolve(Paths, new)
    <3>1. PICK d \in previous.edges : d.path \in clean /\ e = Moved(d, old, new, reparsed)
      BY <2>5
    <3>a. PICK p \in Paths : \E k \in CallsOf(old[p]) :
             /\ Candidates(Symbols(old), k) # {}
             /\ d = [path |-> p, call |-> k, target |-> Target(p, k, old)]
      <4>1. d \in Resolve(Paths, old) /\ Paths \in SUBSET Paths
        BY <3>1
      <4> HIDE DEF old, dirty, clean, carried, shifts
      <4> QED
        BY <4>1, ResolvedAre
    <3>2. PICK k \in CallsOf(old[p]) :
             /\ Candidates(Symbols(old), k) # {}
             /\ d = [path |-> p, call |-> k, target |-> Target(p, k, old)]
      BY <3>a
    <3>3. p \in clean
      BY <3>1, <3>2
    <3>4. k \in CallsOf(new[p])
      BY <2>3, <3>2, <3>3
    <3>5. /\ Candidates(Symbols(new), k) # {}
          /\ e = [path |-> p, call |-> k, target |-> Target(p, k, new)]
      <4> HIDE DEF old, clean
      <4> QED
        BY <2>4, <3>1, <3>2, <3>3, <3>4
    <3>6. Paths \in SUBSET Paths
      OBVIOUS
    <3> QED
      BY <3>4, <3>5, <3>6, ResolvedAre
  <2>6. ASSUME NEW e \in Resolve(dirty, new) PROVE e \in Resolve(Paths, new)
    <3>1. \E p \in dirty : \E k \in CallsOf(new[p]) :
             /\ Candidates(Symbols(new), k) # {}
             /\ e = [path |-> p, call |-> k, target |-> Target(p, k, new)]
      <4> HIDE DEF old, dirty, clean, carried, shifts
      <4> QED
        BY <2>2, <2>6, ResolvedAre
    <3>2. Paths \in SUBSET Paths /\ \A p \in dirty : p \in Paths
      BY <2>2
    <3> HIDE DEF dirty
    <3> QED
      BY <3>1, <3>2, ResolvedAre
  <2>7. ASSUME NEW e \in Resolve(Paths, new)
        PROVE  e \in Resolve(dirty, new) \cup shifts
    <3>a. PICK p \in Paths : \E k \in CallsOf(new[p]) :
             /\ Candidates(Symbols(new), k) # {}
             /\ e = [path |-> p, call |-> k, target |-> Target(p, k, new)]
      <4>1. Paths \in SUBSET Paths
        OBVIOUS
      <4> QED
        BY <2>7, <4>1, ResolvedAre
    <3>1. PICK k \in CallsOf(new[p]) :
             /\ Candidates(Symbols(new), k) # {}
             /\ e = [path |-> p, call |-> k, target |-> Target(p, k, new)]
      BY <3>a
    <3>2. CASE p \in dirty
      <4> HIDE DEF dirty
      <4> QED
        BY <2>2, <3>1, <3>2, ResolvedAre
    <3>3. CASE p \notin dirty
      <4>1. new[p] # Absent
        BY <3>1 DEF CallsOf
      <4>2. p \in clean
        BY <3>3, <4>1
      <4> DEFINE d == [path |-> p, call |-> k, target |-> Target(p, k, old)]
      <4>3. k \in CallsOf(old[p]) /\ Candidates(Symbols(old), k) # {}
            /\ Moved(d, old, new, reparsed) = e
        <5> HIDE DEF clean, old
        <5> QED
          BY <2>4, <3>1, <4>2
      <4>4. d \in previous.edges
        <5>1. Paths \in SUBSET Paths
          OBVIOUS
        <5>2. d \in Resolve(Paths, old)
          <6> HIDE DEF old
          <6> QED
            BY <4>3, <5>1, ResolvedAre
        <5> QED
          BY <5>2
      <4>5. d.path = p
        OBVIOUS
      <4> HIDE DEF d
      <4>6. d \in carried
        BY <4>2, <4>4, <4>5
      <4> HIDE DEF carried
      <4> QED
        BY <4>3, <4>6
    <3> QED
      BY <3>2, <3>3
  <2> HIDE DEF shifts, dirty
  <2> QED
    BY <2>1, <2>5, <2>6, <2>7
<1> QED
  BY <1>1, <1>2

\* The edges of no text are none.
LEMMA NothingResolved ==
    ASSUME NEW texts, \A p \in Paths : texts[p] = Absent
    PROVE  Resolve(Paths, texts) = {}
<1>1. ASSUME NEW e \in Resolve(Paths, texts) PROVE FALSE
  <2>1. Paths \in SUBSET Paths
    OBVIOUS
  <2>2. \E p \in Paths : CallsOf(texts[p]) # {}
    BY <1>1, <2>1, ResolvedAre
  <2> QED
    BY <2>2 DEF CallsOf
<1> QED
  BY <1>1

\* There is no edge before anything is indexed.
LEMMA EquivalentStarts == Init => EquivalentToFull
<1> SUFFICES ASSUME Init PROVE EquivalentToFull
  OBVIOUS
<1>1. snap.edges = {} /\ \A p \in Paths : snap.texts[p] = Absent
  BY DEF Init, NoSnapshot
<1> QED
  BY <1>1, NothingResolved DEF EquivalentToFull

\* Only the end of a run changes a snapshot.
LEMMA EquivalentStays ==
    ASSUME NoAliases, IndexInv, IndexData, EquivalentToFull, [Next]_vars
    PROVE  EquivalentToFull'
<1>1. CASE snap' = snap
  BY <1>1 DEF EquivalentToFull
<1>2. CASE Finish
  <2> DEFINE texts == [p \in Paths |-> seen[p].text]
             reparsed == {p \in Paths : seen[p].how = "parsed"}
             made == ResolveEdges(Previous, texts, reparsed)
  <2>1. /\ \A p \in Paths : seen[p].how \in {"skipped", "reused", "parsed"}
        /\ snap' = [texts |-> texts, mtimes |-> [p \in Paths |-> seen[p].mtime],
                    started |-> started, edges |-> made]
    BY <1>2, Zenon DEF Finish
  <2>2. Trees(Previous.texts, texts, reparsed)
    <3>1. \A p \in Paths : texts[p] \in Texts(p)
      BY DEF IndexData, Found
    <3>2. \A p \in Paths : Previous.texts[p] \in Texts(p)
      BY PreviousTyped
    <3>3. \A p \in Paths \ reparsed :
             texts[p] # Absent /\ Previous.texts[p] # Absent => texts[p] = Previous.texts[p]
      BY <2>1 DEF IndexData, Found
    <3> HIDE DEF texts, reparsed
    <3> QED
      BY <3>1, <3>2, <3>3 DEF Trees, TreeFits
  <2>3. Previous.edges = Resolve(Paths, Previous.texts)
    <3>1. CASE mode = "full"
      <4>1. Previous.edges = {} /\ \A p \in Paths : Previous.texts[p] = Absent
        BY <3>1 DEF Previous, NoSnapshot
      <4> QED
        BY <4>1, NothingResolved
    <3>2. CASE mode # "full"
      BY <3>2 DEF Previous, EquivalentToFull
    <3> QED
      BY <3>1, <3>2
  <2>4. made = Resolve(Paths, texts)
    <3> HIDE DEF texts, reparsed
    <3> QED
      BY <2>2, <2>3, EdgesKept
  <2> HIDE DEF made
  <2>5. snap'.texts = texts /\ snap'.edges = made
    BY <2>1
  <2> HIDE DEF texts
  <2> QED
    BY <2>4, <2>5 DEF EquivalentToFull
<1> QED
  BY <1>1, <1>2 DEF Next, vars, Edit, Tick, Begin, Classify, ReadFile, Fail

\* Invariant I1 of the source, where no import renames: an incremental snapshot is
\* the one a build from scratch would make of the same texts.  A kept edge leads to
\* the symbol it would be resolved to again, although only the files that mention a
\* changed name are resolved (_resolve_edges).
THEOREM IndexEquivalent ==
    ASSUME NoAliases
    PROVE  Spec => []EquivalentToFull
<1>1. Init => IndexInv /\ IndexData /\ EquivalentToFull
  BY IndexInit, IndexDataStarts, EquivalentStarts
<1>2. IndexInv /\ IndexData /\ EquivalentToFull /\ [Next]_vars
         => (IndexInv /\ IndexData /\ EquivalentToFull)'
  BY IndexStep, IndexDataStays, EquivalentStays
<1> QED
  BY <1>1, <1>2, PTL DEF Spec


----------------------------------------------------------------------------
(* MCContents: the parts together, one of which moves.                       *)

\* Every part keeps its invariant, of a binding only where it is the one that moves.
ContentsInv ==
    /\ IndexInv /\ IndexData /\ PoolInv /\ PoolData /\ SearchInv /\ HopInv
    /\ BodyInv /\ PacketInv /\ TellInv
    /\ part = "bind" => BindInv

\* The initial states of all parts.
LEMMA ContentsStarts == ContentsInit => ContentsInv
<1> SUFFICES ASSUME ContentsInit PROVE ContentsInv
  OBVIOUS
<1>1. /\ Init /\ PoolInit /\ WalkInit /\ PacketInit /\ BodyInit /\ TellInit
      /\ part = "bind" => BindInit
  BY DEF ContentsInit
<1>2. SearchInv
  BY <1>1, SearchBegins DEF WalkInit, SearchStarts
<1> QED
  BY <1>1, <1>2, IndexInit, IndexDataStarts, PoolInit_Inv, PoolDataStarts, HopStarts,
     BodyInit_Inv, PacketStarts, TellStarts, BindStarts DEF ContentsInv

\* A step of one part leaves the others where they are.
LEMMA ContentsStep ==
    ContentsInv /\ [ContentsNext /\ UNCHANGED part]_contentsVars => ContentsInv'
<1> SUFFICES ASSUME ContentsInv, [ContentsNext /\ UNCHANGED part]_contentsVars
             PROVE  ContentsInv'
  OBVIOUS
<1>1. /\ [Next]_vars /\ [PoolNext]_poolVars /\ [WalkNext]_walkVars /\ [BodyNext]_bodyVars
      /\ [PacketNext]_packetVars /\ [TellNext]_tellVars /\ [BindNext]_bindVars
      /\ part' = part
  BY DEF ContentsNext, contentsVars
<1>2. part' = "bind" => BindInv'
  BY <1>1, BindStep DEF ContentsInv
<1>3. /\ (IndexInv /\ IndexData)' /\ (PoolInv /\ PoolData)' /\ SearchInv' /\ HopInv'
      /\ BodyInv' /\ PacketInv' /\ TellInv'
  BY <1>1, IndexStep, IndexDataStays, PoolStep, PoolDataStays, SearchKeeps, HopKeeps,
     BodyStep, PacketStep, TellStep DEF ContentsInv
<1> QED
  BY <1>2, <1>3 DEF ContentsInv

\* The invariants of all parts, always.
LEMMA ContentsAlways == ContentsSpec => []ContentsInv
  BY ContentsStarts, ContentsStep, PTL DEF ContentsSpec

\* What the invariants say of types.
LEMMA ContentsTypes == ContentsInv => ContentsTypeOK
<1> SUFFICES ASSUME ContentsInv PROVE ContentsTypeOK
  OBVIOUS
<1>1. BodyTypeOK
  BY DEF ContentsInv, BodyInv, BodyShape, BodyTypeOK
<1>2. TypeOK /\ PoolTypeOK /\ WalkTypeOK /\ PacketTypeOK /\ TellTypeOK
  BY IndexTypes, PoolTypes, SearchTypes, PacketAnswers, TellTypes DEF ContentsInv
<1>3. part = "bind" => BindTypeOK
  BY BindAnswers DEF ContentsInv
<1> QED
  BY <1>1, <1>2, <1>3 DEF ContentsTypeOK

\* Whichever part moves, its state is of its type.
THEOREM ContentsTyped == ContentsSpec => []ContentsTypeOK
  BY ContentsAlways, ContentsTypes, PTL

\* Whichever part moves: what a run reads is what the tree holds, no file is lost in
\* the pool, searches are exact, packets and windows keep their promises, an answer
\* is honest, and a call is bound to no overridden member and to no misfit, along a
\* chain too where overloads of a type are told apart.
THEOREM ContentsRight ==
    ContentsSpec => [](/\ ReadsTheTree /\ PoolExact /\ WalksExact /\ WithinBudget
                       /\ WindowsReadBody /\ AnswersHonest
                       /\ part = "bind" /\ OneSignature => MembersBound)
<1>1. ContentsInv => /\ ReadsTheTree /\ PoolExact /\ WalksExact /\ WithinBudget
                     /\ WindowsReadBody /\ AnswersHonest
  <2> SUFFICES ASSUME ContentsInv
               PROVE  /\ ReadsTheTree /\ PoolExact /\ WalksExact /\ WithinBudget
                      /\ WindowsReadBody /\ AnswersHonest
    OBVIOUS
  <2>1. ReadsTheTree /\ PoolExact /\ WindowsReadBody
    BY DEF ContentsInv, IndexInv, PoolInv, BodyInv
  <2>2. WalksExact
    BY SearchAnswers, ReachAnswers DEF ContentsInv, TraversalExact, WalksExact
  <2>3. WithinBudget /\ AnswersHonest
    BY PacketAnswers, TellAnswers DEF ContentsInv
  <2> QED
    BY <2>1, <2>2, <2>3
<1>2. ContentsInv /\ part = "bind" /\ OneSignature => MembersBound
  BY BindAnswers, ChainsAgree DEF ContentsInv, MembersBound
<1> QED
  BY <1>1, <1>2, ContentsAlways, PTL

\* Whichever part moves: without aliases the edges of an index are those of a build
\* from scratch, and a call in Java or C# is bound to the nearest override and to no
\* misfit, along a chain too where overloads of a type are told apart.
THEOREM EdgesAlwaysRight ==
    ASSUME NoAliases
    PROVE  ContentsSpec => []((part = "bind" => OneSignature) => EdgesRight)
<1> DEFINE Inv == ContentsInv /\ EquivalentToFull
<1>1. ContentsInit => Inv
  BY ContentsStarts, EquivalentStarts DEF ContentsInit
<1>2. Inv /\ [ContentsNext /\ UNCHANGED part]_contentsVars => Inv'
  <2> SUFFICES ASSUME Inv, [ContentsNext /\ UNCHANGED part]_contentsVars PROVE Inv'
    OBVIOUS
  <2>1. [Next]_vars
    BY DEF ContentsNext, contentsVars
  <2> QED
    BY <2>1, ContentsStep, EquivalentStays DEF ContentsInv
<1>3. Inv => ((part = "bind" => OneSignature) => EdgesRight)
  BY BindAnswers, ChainsAgree DEF ContentsInv, MembersBound, EdgesRight
<1> QED
  BY <1>1, <1>2, <1>3, PTL DEF ContentsSpec
=============================================================================
