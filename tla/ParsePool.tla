------------------------------ MODULE ParsePool -----------------------------
(***************************************************************************)
(* _run_tasks: the files of an index run are read and parsed by a pool of  *)
(* processes, chunk by chunk; when a process dies or the pool cannot work, *)
(* the run goes on alone, and when it is interrupted it ends.  One task is *)
(* one file; its outcome does not depend on who computes it.               *)
(***************************************************************************)
EXTENDS Integers, FiniteSets

CONSTANTS
    MaxTasks,     \* bound of the model: files of a run
    PoolMinFiles, \* pool_min_files
    PerProcess,   \* chunks a process should get, the 6 of chunk_size
    MaxChunk,     \* largest chunk_size, the 64
    Processes     \* the worker processes of the pool

ASSUME PoolAssumption ==
    /\ MaxTasks \in Nat /\ PoolMinFiles \in Nat
    /\ PerProcess \in Nat \ {0} /\ MaxChunk \in Nat \ {0}
    /\ Processes # {} /\ IsFiniteSet(Processes)

VARIABLES
    tasks,      \* how many files the run has
    phase,      \* where _run_tasks is
    poolMode,       \* report["mode"]
    future,     \* what became of each chunk
    worksOn,    \* the chunk a live process has in hand, or none
    alive,      \* processes of the pool that run
    collected,  \* the next future whose result is awaited
    outcomes,   \* tasks with an outcome
    progress    \* done, as reported to on_progress

poolVars == <<tasks, phase, poolMode, future, worksOn, alive, collected,
              outcomes, progress>>

NoChunk == 0
AllTasks == 1..tasks
ChunkSize ==
    LET share == tasks \div (Cardinality(Processes) * PerProcess)
    IN  CASE share = 0 -> 1 [] share > MaxChunk -> MaxChunk [] OTHER -> share
Chunks == 1..((tasks + ChunkSize - 1) \div ChunkSize)
\* Slices of the list; the last one may be short.
Chunk(k) == {t \in AllTasks : ChunkSize * (k - 1) < t /\ t <= ChunkSize * k}

----------------------------------------------------------------------------
\* Few files, or one worker: no pool at all.
StartAlone ==
    /\ phase = "idle" /\ (tasks < PoolMinFiles \/ Cardinality(Processes) < 2)
    /\ phase' = "alone" /\ poolMode' = "sequential"
    /\ UNCHANGED <<tasks, future, worksOn, alive, collected, outcomes, progress>>

\* All chunks are submitted; processes are spawned as they come.
StartPool ==
    /\ phase = "idle" /\ tasks >= PoolMinFiles /\ Cardinality(Processes) > 1
    /\ phase' = "pool" /\ poolMode' = "spawn-pool"
    /\ future' = [k \in 1..MaxTasks |-> IF k \in Chunks THEN "pending"
                                       ELSE "none"]
    /\ alive' = Processes
    /\ UNCHANGED <<tasks, worksOn, collected, outcomes, progress>>

Pick(w) ==
    /\ w \in alive /\ worksOn[w] = NoChunk
    /\ \E k \in Chunks :
           /\ future[k] = "pending"
           /\ \A j \in 1..k - 1 : future[j] # "pending"
           /\ future' = [future EXCEPT ![k] = "running"]
           /\ worksOn' = [worksOn EXCEPT ![w] = k]
    /\ UNCHANGED <<tasks, phase, poolMode, alive, collected, outcomes, progress>>

HandBack(w) ==
    /\ w \in alive /\ worksOn[w] # NoChunk
    /\ future[worksOn[w]] = "running"
    /\ future' = [future EXCEPT ![worksOn[w]] = "done"]
    /\ worksOn' = [worksOn EXCEPT ![w] = NoChunk]
    /\ UNCHANGED <<tasks, phase, poolMode, alive, collected, outcomes, progress>>

\* A process is killed: every future without a result is broken.
Die(w) ==
    /\ w \in alive
    /\ alive' = alive \ {w}
    /\ worksOn' = [worksOn EXCEPT ![w] = NoChunk]
    /\ future' = [k \in 1..MaxTasks |->
                     IF future[k] \in {"pending", "running"} THEN "broken"
                     ELSE future[k]]
    /\ UNCHANGED <<tasks, phase, poolMode, collected, outcomes, progress>>

\* The results are taken in the order of the chunks.
Collect ==
    /\ phase = "pool" /\ collected \in Chunks
    /\ future[collected] = "done"
    /\ outcomes' = outcomes \cup Chunk(collected)
    /\ progress' = progress + Cardinality(Chunk(collected))
    /\ collected' = collected + 1
    /\ UNCHANGED <<tasks, phase, poolMode, future, worksOn, alive>>

PoolBreaks ==
    /\ phase = "pool" /\ collected \in Chunks
    /\ future[collected] = "broken"
    /\ phase' = "terminating" /\ poolMode' = "sequential-fallback"
    /\ UNCHANGED <<tasks, future, worksOn, alive, collected, outcomes, progress>>

\* Cancel what is pending, terminate and kill the processes.
KillAll ==
    /\ alive' = {}
    /\ worksOn' = [w \in Processes |-> NoChunk]
    /\ future' = [k \in 1..MaxTasks |->
                     IF future[k] \in {"none", "done"} THEN future[k]
                     ELSE "cancelled"]

Fall ==
    /\ phase = "terminating"
    /\ KillAll
    /\ phase' = "alone"
    /\ UNCHANGED <<tasks, poolMode, collected, outcomes, progress>>

\* Mutant of ParseAlone: the fallback takes the tasks no future has
\* delivered, although those results are no longer collected.
ParseUndelivered ==
    /\ phase = "alone"
    /\ LET ready == UNION {Chunk(k) : k \in {j \in Chunks : future[j] = "done"}}
       IN  IF outcomes \cup ready # AllTasks
           THEN /\ outcomes' = outcomes \cup
                       {CHOOSE t \in AllTasks \ (outcomes \cup ready) : TRUE}
                /\ progress' = progress + 1
                /\ UNCHANGED phase
           ELSE phase' = "ended" /\ UNCHANGED <<outcomes, progress>>
    /\ UNCHANGED <<tasks, poolMode, future, worksOn, alive, collected>>

\* run_sequential, of the tasks that have no outcome yet, in their order.
ParseAlone ==
    LET rest == AllTasks \ outcomes IN
    /\ phase = "alone"
    /\ IF rest # {}
       THEN /\ outcomes' = outcomes \cup
                              {CHOOSE t \in rest : \A u \in rest : t <= u}
            /\ progress' = progress + 1
            /\ UNCHANGED phase
       ELSE phase' = "ended" /\ UNCHANGED <<outcomes, progress>>
    /\ UNCHANGED <<tasks, poolMode, future, worksOn, alive, collected>>

PoolIsDone ==
    /\ phase = "pool" /\ collected \notin Chunks
    /\ KillAll
    /\ phase' = "ended"
    /\ UNCHANGED <<tasks, poolMode, collected, outcomes, progress>>

\* SIGTERM, Ctrl-C or an exception that has no fallback ends the run, before
\* or after its pool is terminated.
Interrupt ==
    /\ phase \in {"pool", "terminating", "alone"}
    /\ KillAll
    /\ phase' = "aborted"
    /\ UNCHANGED <<tasks, poolMode, collected, outcomes, progress>>

\* The next index run.
NextRun ==
    /\ phase \in {"ended", "aborted"}
    /\ phase' = "idle" /\ poolMode' = "none"
    /\ future' = [k \in 1..MaxTasks |-> "none"]
    /\ collected' = 1 /\ outcomes' = {} /\ progress' = 0
    /\ tasks' \in 0..MaxTasks
    /\ UNCHANGED <<worksOn, alive>>

PoolInit ==
    /\ tasks \in 0..MaxTasks
    /\ phase = "idle" /\ poolMode = "none"
    /\ future = [k \in 1..MaxTasks |-> "none"]
    /\ worksOn = [w \in Processes |-> NoChunk]
    /\ alive = {} /\ collected = 1 /\ outcomes = {} /\ progress = 0

PoolNext ==
    \/ StartAlone \/ StartPool
    \/ \E w \in Processes : Pick(w) \/ HandBack(w) \/ Die(w)
    \/ Collect \/ PoolBreaks \/ Fall \/ ParseAlone \/ PoolIsDone
    \/ Interrupt \/ NextRun

PoolSpec == PoolInit /\ [][PoolNext]_poolVars

----------------------------------------------------------------------------
PoolTypeOK ==
    /\ tasks \in 0..MaxTasks
    /\ phase \in {"idle", "pool", "terminating", "alone", "ended", "aborted"}
    /\ poolMode \in {"none", "sequential", "spawn-pool", "sequential-fallback"}
    /\ future \in [1..MaxTasks -> {"none", "pending", "running", "done", "broken",
                              "cancelled"}]
    /\ worksOn \in [Processes -> 1..MaxTasks \cup {NoChunk}]
    /\ alive \subseteq Processes
    /\ collected \in 1..Cardinality(Chunks) + 1
    /\ outcomes \subseteq AllTasks /\ progress \in 0..tasks

\* No file is lost or counted twice, wherever a process dies: a run that ends
\* has an outcome for every file, the progress is the number of outcomes at
\* any time, and no process outlives the run.
PoolExact ==
    /\ phase = "ended" => outcomes = AllTasks
    /\ progress = Cardinality(outcomes)
    /\ phase \in {"idle", "alone", "ended", "aborted"} => alive = {}
=============================================================================
