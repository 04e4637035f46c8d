-------------------------- MODULE SnapshotReaders --------------------------
(***************************************************************************)
(* One server process reading the snapshots of one repository: the threads *)
(* of RetrievalService share the one second pointer cache (_store) and the *)
(* connections of ReadConnectionPool, which are keyed by thread and path.  *)
(* The index directory behaves as PublishedSnapshot says, with the ages    *)
(* the collector looks at; a first snapshot is already published.  Where   *)
(* the pointer cannot be read, or names what has been collected, _store    *)
(* falls back on database_path, which may end at the unversioned copy of a *)
(* snapshot, be it there or not.                                           *)
(***************************************************************************)
EXTENDS Integers

CONSTANTS
    Threads,
    Runs, NoRun,
    FirstRun,    \* the snapshot published before the process started
    Unversioned, \* the path <repo_id>.sqlite
    PointerTtl, GcAge,
    MaxTime      \* bound of the model: the clock stops here

ASSUME ReadersAssumption ==
    /\ FirstRun \in Runs /\ NoRun \notin Runs
    /\ Unversioned \notin Runs \cup {NoRun}
    /\ PointerTtl \in Nat /\ GcAge \in Nat /\ MaxTime \in Nat

VARIABLES
    now,
    complete, current,   \* the index directory
    born,        \* when a snapshot was written, its modification time
    cache,       \* _pointer_cache of the repository
    pool,        \* <<thread, path>> of every open connection
    tpc,         \* where the request of a thread is
    tlook,       \* its time.monotonic() when it entered _store
    tcached,     \* the expired cache entry it saw then
    tpath,       \* the database it was directed to
    retiredAt,   \* history: when the pointer moved off a snapshot
    fellBack     \* history: a fallback has found the current snapshot, or the
                 \* unversioned database, since the pointer moved

dirVars == <<complete, current, born, retiredAt>>
storeVars == <<cache, pool, fellBack>>
threadVars == <<tpc, tlook, tcached, tpath>>
vars == <<now, dirVars, storeVars, threadVars>>

Directory == INSTANCE PublishedSnapshot

Never == -1

Databases == Runs \cup {Unversioned}

\* What the pointer names; an entry found without it has no run.
Entry(path, run) == [path |-> path, run |-> run]
NoEntry == Entry(NoRun, NoRun)

----------------------------------------------------------------------------
(* The index directory: an index run adds a snapshot, moves the pointer to *)
(* it and, like the desktop application, collects the old ones.            *)

AddSnapshot(r) ==
    /\ born[r] = Never
    /\ Directory!Complete(r)
    /\ born' = [born EXCEPT ![r] = now]
    /\ UNCHANGED <<now, retiredAt, storeVars, threadVars>>

SwapPointer(r) ==
    /\ r # current /\ retiredAt[r] = Never
    /\ Directory!Publish(r)
    /\ retiredAt' = [retiredAt EXCEPT ![current] = now]
    /\ fellBack' = FALSE
    /\ UNCHANGED <<now, born, cache, pool, threadVars>>

\* Mutant of CollectOld: the current snapshot is not spared.
CollectAnyOld ==
    LET old == {r \in complete : now - born[r] >= GcAge} IN
    /\ old # {}
    /\ complete' = complete \ old
    /\ UNCHANGED <<now, current, born, retiredAt, storeVars, threadVars>>

CollectOld ==
    LET old == {r \in complete \ {current} : now - born[r] >= GcAge} IN
    /\ old # {}
    /\ Directory!Discard(old)
    /\ UNCHANGED <<now, born, retiredAt, storeVars, threadVars>>

----------------------------------------------------------------------------
(* _store, for a thread that starts a request. *)

Fresh(at) == now - at <= PointerTtl

Go(t, place) == tpc' = [tpc EXCEPT ![t] = place]

\* Within the second the cached path is used as it is.
LookUp(t) ==
    /\ tpc[t] = "idle"
    /\ tlook' = [tlook EXCEPT ![t] = now]
    /\ IF cache.path # NoRun /\ Fresh(cache.at)
       THEN /\ tpath' = [tpath EXCEPT ![t] = cache.path]
            /\ Go(t, "directed")
            /\ UNCHANGED tcached
       ELSE /\ tcached' = [tcached EXCEPT ![t] = Entry(cache.path, cache.run)]
            /\ Go(t, "expired")
            /\ UNCHANGED tpath
    /\ UNCHANGED <<now, dirVars, storeVars>>

ReadPointer(t) ==
    /\ tpc[t] = "expired"
    /\ tpath' = [tpath EXCEPT ![t] = current]
    /\ Go(t, "pointed")
    /\ UNCHANGED <<now, dirVars, storeVars, tlook, tcached>>

\* The pointer cannot be read, or what it named has been collected meanwhile.
MissPointer(t) ==
    /\ \/ tpc[t] = "expired"
       \/ tpc[t] = "pointed" /\ tpath[t] \notin complete
    /\ Go(t, "fallback")
    /\ tpath' = [tpath EXCEPT ![t] = FirstRun]
    /\ UNCHANGED <<now, dirVars, storeVars, tlook, tcached>>

\* database_path reads the pointer for itself and may fail likewise.
FindPath(t) ==
    /\ tpc[t] = "fallback"
    /\ \E path \in {current, Unversioned} : tpath' = [tpath EXCEPT ![t] = path]
    /\ Go(t, "found")
    /\ UNCHANGED <<now, dirVars, storeVars, tlook, tcached>>

\* Every thread's connections to a path.
CloseDb(path) == pool' = {c \in pool : c[2] # path}

\* Mutant of KeepEntry: the entry is stamped when it is kept.
KeepEntryLate(t, e) ==
    /\ cache' = [at |-> now, path |-> e.path, run |-> e.run]
    /\ fellBack' = (\/ fellBack
                    \/ e.run = NoRun /\ e.path \in {current, Unversioned})
    /\ tcached' = [tcached EXCEPT ![t] = NoEntry]
    /\ Go(t, "directed")
    /\ UNCHANGED <<now, dirVars, tlook, tpath>>

\* The entry is stamped with the time the lookup began.
KeepEntry(t, e) ==
    /\ cache' = [at |-> tlook[t], path |-> e.path, run |-> e.run]
    /\ fellBack' = (\/ fellBack
                    \/ e.run = NoRun /\ e.path \in {current, Unversioned})
    /\ tcached' = [tcached EXCEPT ![t] = NoEntry]
    /\ Go(t, "directed")
    /\ UNCHANGED <<now, dirVars, tlook, tpath>>

\* Mutant of StoreCache: the connections to the new snapshot are closed.
StoreCacheClosesNew(t) ==
    LET e == Entry(tpath[t], tpath[t]) IN
    /\ tpc[t] = "pointed" /\ tpath[t] \in complete
    /\ IF tcached[t] \in {NoEntry, e} THEN UNCHANGED pool
       ELSE CloseDb(e.path)
    /\ KeepEntry(t, e)

\* Another path or another run than the entry the thread saw closes the
\* connections to the path of that, which a fallback may have found before.
StoreCache(t) ==
    LET e == Entry(tpath[t], tpath[t]) IN
    /\ tpc[t] = "pointed" /\ tpath[t] \in complete
    /\ IF tcached[t] \in {NoEntry, e} THEN UNCHANGED pool
       ELSE CloseDb(tcached[t].path)
    /\ KeepEntry(t, e)

\* The fallback compares only the paths and keeps no run.
StoreFallback(t) ==
    /\ tpc[t] = "found"
    /\ IF tcached[t].path \in {NoRun, tpath[t]} THEN UNCHANGED pool
       ELSE CloseDb(tcached[t].path)
    /\ KeepEntry(t, Entry(tpath[t], NoRun))

(* get_connection and the query that runs on the connection. *)

Pooled(t) == <<t, tpath[t]>> \in pool

\* The unversioned database may be there or not.
Connect(t) ==
    /\ tpc[t] = "directed"
    /\ Pooled(t) \/ tpath[t] \in complete \cup {Unversioned}
    /\ pool' = pool \cup {<<t, tpath[t]>>}
    /\ Go(t, "querying")
    /\ UNCHANGED <<now, dirVars, cache, fellBack, tlook, tcached, tpath>>

ConnectFails(t) ==
    /\ tpc[t] = "directed"
    /\ ~ Pooled(t) /\ tpath[t] \notin complete
    /\ Go(t, "refused")
    /\ UNCHANGED <<now, dirVars, storeVars, tlook, tcached, tpath>>

\* The rows are fetched: an error if the connection was closed meanwhile,
\* otherwise the request goes on with another query or is done.
Fetch(t) ==
    /\ tpc[t] = "querying" /\ Pooled(t)
    /\ Go(t, "directed")
    /\ UNCHANGED <<now, dirVars, storeVars, tlook, tcached, tpath>>

FetchFails(t) ==
    /\ tpc[t] = "querying" /\ ~ Pooled(t)
    /\ Go(t, "interrupted")
    /\ UNCHANGED <<now, dirVars, storeVars, tlook, tcached, tpath>>

\* The result, or the error, goes to the caller.
Finish(t) ==
    /\ \/ tpc[t] \in {"refused", "interrupted"}
       \/ tpc[t] = "querying" /\ Pooled(t)
    /\ Go(t, "idle")
    /\ tlook' = [tlook EXCEPT ![t] = 0]
    /\ tpath' = [tpath EXCEPT ![t] = FirstRun]
    /\ UNCHANGED <<now, dirVars, storeVars, tcached>>

----------------------------------------------------------------------------
Tick ==
    /\ now < MaxTime
    /\ now' = now + 1
    /\ UNCHANGED <<dirVars, storeVars, threadVars>>

Init ==
    /\ now = 0
    /\ complete = {FirstRun} /\ current = FirstRun
    /\ born = [r \in Runs |-> IF r = FirstRun THEN 0 ELSE Never]
    /\ retiredAt = [r \in Runs |-> Never]
    /\ cache = [at |-> 0, path |-> NoRun, run |-> NoRun]
    /\ pool = {} /\ fellBack = FALSE
    /\ tpc = [t \in Threads |-> "idle"]
    /\ tlook = [t \in Threads |-> 0]
    /\ tcached = [t \in Threads |-> NoEntry]
    /\ tpath = [t \in Threads |-> FirstRun]

Request(t) ==
    \/ LookUp(t) \/ ReadPointer(t) \/ MissPointer(t) \/ FindPath(t)
    \/ StoreCache(t) \/ StoreFallback(t)
    \/ Connect(t) \/ ConnectFails(t) \/ Fetch(t) \/ FetchFails(t) \/ Finish(t)

Next ==
    \/ \E r \in Runs : AddSnapshot(r) \/ SwapPointer(r)
    \/ CollectOld
    \/ \E t \in Threads : Request(t)
    \/ Tick

Spec == Init /\ [][Next]_vars

----------------------------------------------------------------------------
TypeOK ==
    /\ now \in 0..MaxTime
    /\ complete \subseteq Runs /\ current \in complete
    /\ born \in [Runs -> 0..MaxTime \cup {Never}]
    /\ retiredAt \in [Runs -> 0..MaxTime \cup {Never}]
    /\ cache \in [at : 0..MaxTime, path : Databases \cup {NoRun},
                  run : Runs \cup {NoRun}]
    /\ pool \subseteq Threads \X Databases
    /\ fellBack \in BOOLEAN
    /\ tpc \in [Threads -> {"idle", "expired", "pointed", "fallback", "found",
                            "directed", "querying", "refused", "interrupted"}]
    /\ tlook \in [Threads -> 0..MaxTime]
    /\ tcached \in [Threads -> [path : Databases \cup {NoRun},
                                run : Runs \cup {NoRun}]]
    /\ tpath \in [Threads -> Databases]

\* Staleness bound of the pointer cache: whatever the threads interleave, the
\* snapshot a request is directed to was still current PointerTtl before the
\* request began (the one second of _store, counted from before the read).
ServesRecent ==
    \A t \in Threads :
        tpc[t] \in {"directed", "querying"} /\ tpath[t] # Unversioned =>
            \/ tpath[t] = current
            \/ /\ retiredAt[tpath[t]] # Never
               /\ retiredAt[tpath[t]] >= tlook[t] - PointerTtl

\* No collection takes the file of the current snapshot, and no close_db of
\* another thread a connection to it, unless a fallback has kept, since that
\* snapshot was published, an entry without a run for it, which differs from
\* what the pointer names, or one for the unversioned database.  Every other
\* request that fails was directed to a snapshot since replaced.
FailuresExplained ==
    \A t \in Threads :
        tpc[t] \in {"refused", "interrupted"} /\ tpath[t] = current => fellBack

\* A thread never queries a connection that another thread's switch to a new
\* snapshot has closed (ReadConnectionPool is documented as thread-safe).
NoReaderException == \A t \in Threads : tpc[t] # "interrupted"
=============================================================================
