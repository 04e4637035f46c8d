------------------------------ MODULE AuditLog ------------------------------
(***************************************************************************)
(* One AuditLogger: threads log entries into its queue, its worker moves   *)
(* them into audit.sqlite in batches, a query or a purge through the path  *)
(* of the database first flushes what the process has queued, and close    *)
(* ends it all with a sentinel in the queue.  An entry is its time stamp.  *)
(***************************************************************************)
EXTENDS Integers, Sequences, FiniteSets, SequencesExt, Subsequences

CONSTANTS
    Writers,                  \* threads that log
    Worker, Closer, Querier,  \* the worker thread, and who calls close/query
    BatchSize,                \* the 100 of _flush_batch
    MaxEntries,               \* bound of the model: entries logged
    MaxFailures               \* bound of the model: insertions that fail

ASSUME AuditAssumption ==
    /\ BatchSize \in Nat \ {0}
    /\ MaxEntries \in Nat /\ MaxFailures \in Nat
    /\ Worker # Closer /\ Worker # Querier /\ Closer # Querier
    /\ {Worker, Closer, Querier} \cap (Writers \cup {"nobody"}) = {}

VARIABLES
    queue,      \* _queue, first in first out
    rows,       \* audit_logs, in order of their ids
    closed,     \* _closed
    listed,     \* the logger is in _active_loggers
    connected,  \* _conn is open
    holder,     \* who has _write_lock
    batch,      \* the batch each flusher collects
    at,         \* where each thread is
    stamp,      \* the entry a writer is about to queue
    clock,      \* time stamps handed out so far
    since,      \* history: what was queued when a close or query began
    dropped,    \* history: entries of failed insertions
    purged      \* history: entries clear_old_logs deleted

auditVars == <<queue, rows, closed, listed, connected, holder, batch, at,
               stamp, clock, since, dropped, purged>>

Flushers == {Worker, Closer, Querier}
Nobody == "nobody"
Sentinel == 0
\* What log has returned for, and what is not to be written any more.
Queued == (1..clock) \ {stamp[w] : w \in {v \in Writers : at[v] = "put"}}
Handled == ToSet(rows) \cup dropped \cup purged

At(t, here) == at[t] = here
Go(t, there) == at' = [at EXCEPT ![t] = there]

----------------------------------------------------------------------------
(* log *)

\* The entry gets its time; after that nothing looks at _closed again.
LogCheck(w) ==
    /\ At(w, "idle") /\ ~closed /\ clock < MaxEntries
    /\ clock' = clock + 1
    /\ stamp' = [stamp EXCEPT ![w] = clock + 1]
    /\ Go(w, "put")
    /\ UNCHANGED <<queue, rows, closed, listed, connected, holder, batch,
                   since, dropped, purged>>

LogPut(w) ==
    /\ At(w, "put")
    /\ queue' = Append(queue, stamp[w])
    /\ Go(w, "idle")
    /\ UNCHANGED <<rows, closed, listed, connected, holder, batch, stamp,
                   clock, since, dropped, purged>>

----------------------------------------------------------------------------
(* _flush_batch of the worker, flush of everybody else *)

\* Mutant of Acquire: the flush does not take the lock.
AcquireNothing(t) ==
    /\ At(t, "flush")
    /\ batch' = [batch EXCEPT ![t] = <<>>]
    /\ Go(t, "take")
    /\ UNCHANGED <<queue, rows, closed, listed, connected, holder, stamp,
                   clock, since, dropped, purged>>

Acquire(t) ==
    /\ At(t, "flush") /\ holder = Nobody
    /\ holder' = t
    /\ batch' = [batch EXCEPT ![t] = <<>>]
    /\ Go(t, "take")
    /\ UNCHANGED <<queue, rows, closed, listed, connected, stamp, clock,
                   since, dropped, purged>>

\* The worker leaves the rest to its next round, a flush goes on.
Full(t) == t = Worker /\ Len(batch[t]) = BatchSize

\* Entries are taken one at a time while writers go on queueing.
Take(t) ==
    /\ At(t, "take") /\ queue # <<>> /\ ~Full(t)
    /\ queue' = Tail(queue)
    /\ \/ /\ Head(queue) = Sentinel
          /\ closed' = TRUE
          /\ Go(t, "insert")
          /\ UNCHANGED batch
       \/ /\ Head(queue) # Sentinel
          /\ batch' = [batch EXCEPT ![t] = Append(@, Head(queue))]
          /\ UNCHANGED <<closed, at>>
    /\ UNCHANGED <<rows, listed, connected, holder, stamp, clock, since,
                   dropped, purged>>

TakeEnds(t) ==
    /\ At(t, "take") /\ (queue = <<>> \/ Full(t))
    /\ Go(t, "insert")
    /\ UNCHANGED <<queue, rows, closed, listed, connected, holder, batch,
                   stamp, clock, since, dropped, purged>>

\* Where a thread goes when it has let the lock go.
AfterFlush(t) == CASE t = Worker -> "loop"
                   [] t = Closer -> "join"
                   [] t = Querier -> "select"

\* Mutant of Insert: a failed insertion ends the worker.
InsertRaises(t) ==
    /\ At(t, "insert")
    /\ \/ /\ connected \/ batch[t] = <<>>
          /\ rows' = rows \o batch[t] /\ UNCHANGED dropped
          /\ Go(t, AfterFlush(t))
       \/ /\ batch[t] # <<>>
          /\ connected => Cardinality(dropped) < MaxFailures
          /\ dropped' = dropped \cup ToSet(batch[t]) /\ UNCHANGED rows
          /\ Go(t, IF t = Worker THEN "ended" ELSE AfterFlush(t))
    /\ batch' = [batch EXCEPT ![t] = <<>>]
    /\ holder' = Nobody
    /\ UNCHANGED <<queue, closed, listed, connected, stamp, clock, since,
                   purged>>

\* The batch is one transaction: all of it or, when it raises, nothing, and
\* then the batch is gone.  On a closed connection it always raises.
Insert(t) ==
    /\ At(t, "insert")
    /\ \/ /\ connected \/ batch[t] = <<>>
          /\ rows' = rows \o batch[t] /\ UNCHANGED dropped
       \/ /\ batch[t] # <<>>
          /\ connected => Cardinality(dropped) < MaxFailures
          /\ dropped' = dropped \cup ToSet(batch[t]) /\ UNCHANGED rows
    /\ batch' = [batch EXCEPT ![t] = <<>>]
    /\ holder' = Nobody
    /\ Go(t, AfterFlush(t))
    /\ UNCHANGED <<queue, closed, listed, connected, stamp, clock, since,
                   purged>>

Flush(t) == Acquire(t) \/ Take(t) \/ TakeEnds(t) \/ Insert(t)

----------------------------------------------------------------------------
(* The loop of the worker: it waits a quarter of a second or to be woken.  *)

WorkerLoops ==
    /\ At(Worker, "loop")
    /\ Go(Worker, IF closed THEN "ended" ELSE "flush")
    /\ UNCHANGED <<queue, rows, closed, listed, connected, holder, batch,
                   stamp, clock, since, dropped, purged>>

----------------------------------------------------------------------------
(* close *)

CloseBegins ==
    /\ At(Closer, "idle") /\ ~closed
    /\ closed' = TRUE
    /\ since' = [since EXCEPT ![Closer] = Queued]
    /\ Go(Closer, "unlist")
    /\ UNCHANGED <<queue, rows, listed, connected, holder, batch, stamp,
                   clock, dropped, purged>>

Unlist ==
    /\ At(Closer, "unlist")
    /\ listed' = FALSE
    /\ Go(Closer, "sentinel")
    /\ UNCHANGED <<queue, rows, closed, connected, holder, batch, stamp,
                   clock, since, dropped, purged>>

\* Mutant of PutSentinel: the sentinel overtakes what is queued.
PutSentinelFirst ==
    /\ At(Closer, "sentinel")
    /\ queue' = <<Sentinel>> \o queue
    /\ Go(Closer, "flush")
    /\ UNCHANGED <<rows, closed, listed, connected, holder, batch, stamp,
                   clock, since, dropped, purged>>

PutSentinel ==
    /\ At(Closer, "sentinel")
    /\ queue' = Append(queue, Sentinel)
    /\ Go(Closer, "flush")
    /\ UNCHANGED <<rows, closed, listed, connected, holder, batch, stamp,
                   clock, since, dropped, purged>>

\* The worker is waited for, a second at most.
Disconnect ==
    /\ At(Closer, "join")
    /\ connected' = FALSE
    /\ Go(Closer, "done")
    /\ UNCHANGED <<queue, rows, closed, listed, holder, batch, stamp, clock,
                   since, dropped, purged>>

----------------------------------------------------------------------------
(* query_logs and clear_old_logs, of this logger or of another one of the  *)
(* process on the same path.                                               *)

QueryBegins ==
    /\ At(Querier, "idle")
    /\ since' = [since EXCEPT ![Querier] = IF listed THEN Queued ELSE {}]
    /\ Go(Querier, IF listed THEN "flush" ELSE "select")
    /\ UNCHANGED <<queue, rows, closed, listed, connected, holder, batch,
                   stamp, clock, dropped, purged>>

QueryEnds ==
    /\ At(Querier, "select")
    /\ Go(Querier, "idle")
    /\ since' = [since EXCEPT ![Querier] = {}]
    /\ UNCHANGED <<queue, rows, closed, listed, connected, holder, batch,
                   stamp, clock, dropped, purged>>

Purge ==
    /\ At(Querier, "select") /\ rows # <<>>
    /\ \E cutoff \in 2..clock + 1 :
           /\ rows' = Picked(rows, {i \in DOMAIN rows : rows[i] >= cutoff})
           /\ purged' = purged \cup {e \in ToSet(rows) : e < cutoff}
    /\ Go(Querier, "idle")
    /\ since' = [since EXCEPT ![Querier] = {}]
    /\ UNCHANGED <<queue, closed, listed, connected, holder, batch, stamp,
                   clock, dropped>>

----------------------------------------------------------------------------
AuditInit ==
    /\ queue = <<>> /\ rows = <<>>
    /\ closed = FALSE /\ listed = TRUE /\ connected = TRUE
    /\ holder = Nobody
    /\ batch = [t \in Flushers |-> <<>>]
    /\ at = [t \in Writers \cup Flushers |->
                IF t = Worker THEN "loop" ELSE "idle"]
    /\ stamp = [w \in Writers |-> 0] /\ clock = 0
    /\ since = [t \in {Closer, Querier} |-> {}]
    /\ dropped = {} /\ purged = {}

Close == CloseBegins \/ Unlist \/ PutSentinel \/ Disconnect
Query == QueryBegins \/ QueryEnds \/ Purge

AuditNext ==
    \/ \E w \in Writers : LogCheck(w) \/ LogPut(w)
    \/ \E t \in Flushers : Flush(t)
    \/ WorkerLoops \/ Close \/ Query

\* Threads go on; the worker comes round every quarter of a second.
AuditFairness ==
    /\ WF_auditVars(WorkerLoops)
    /\ \A t \in Flushers : WF_auditVars(Flush(t))

AuditSpec == AuditInit /\ [][AuditNext]_auditVars /\ AuditFairness

----------------------------------------------------------------------------
AuditTypeOK ==
    /\ queue \in Seq(0..clock) /\ rows \in Seq(1..clock)
    /\ closed \in BOOLEAN /\ listed \in BOOLEAN /\ connected \in BOOLEAN
    /\ holder \in Flushers \cup {Nobody}
    /\ \A t \in Flushers : batch[t] \in Seq(1..clock)
    /\ clock \in 0..MaxEntries /\ stamp \in [Writers -> 0..MaxEntries]
    /\ dropped \subseteq 1..clock /\ purged \subseteq 1..clock

\* Every entry that was queued is in one place only and in it once - the
\* queue, a batch, the table, or among those that a failed insertion or a
\* purge took - however flushes of several threads meet.
EntriesConserved ==
    LET places == <<ToSet(queue) \ {Sentinel}, ToSet(rows), dropped, purged,
                    ToSet(batch[Worker]), ToSet(batch[Closer]), ToSet(batch[Querier])>>
    IN  /\ \A i, j \in DOMAIN queue : queue[i] = queue[j] => i = j \/ queue[i] = Sentinel
        /\ IsInjective(rows) /\ \A t \in Flushers : IsInjective(batch[t])
        /\ \A i, j \in DOMAIN places : i # j => places[i] \cap places[j] = {}
        /\ UNION {places[i] : i \in DOMAIN places} = Queued

\* What was queued when close or a query began is in the table once it has
\* flushed, whoever took it from the queue and wherever the sentinel fell,
\* unless its insertion failed or it was purged.
FlushedInTime ==
    /\ at[Querier] = "select" => since[Querier] \subseteq Handled
    /\ at[Closer] \in {"join", "done"} => since[Closer] \subseteq Handled

\* No entry is lost, doubled or late.
EntriesKept == EntriesConserved /\ FlushedInTime

\* An entry whose log returned is written within the next rounds of the
\* worker, whoever else flushes and fails meanwhile, unless it is dropped or
\* the logger is closed.
EveryEntryWritten ==
    \A e \in 1..MaxEntries : e \in Queued ~> e \in Handled \/ closed
=============================================================================
