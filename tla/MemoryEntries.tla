---------------------------- MODULE MemoryEntries ----------------------------
(***************************************************************************)
(* The shared memory's entries: key_values and its search rows memory_fts, *)
(* written by server processes, each with one call at a time.  Every       *)
(* transaction of SQLite is one step; a call that reads first and deletes  *)
(* afterwards, or that waits for the write lock with a clock it has read,  *)
(* is several.  A key stands for scope, namespace and key; the values are  *)
(* the versions that puts give them.                                       *)
(***************************************************************************)
EXTENDS Integers, FiniteSets

CONSTANTS
    Keys, Target,   \* the keys a consolidation reads, and target_key
    Servers,
    Ttls,           \* the lives of entries: ttl
    Forever,        \* expires_at of an entry without one
    Interval,       \* _TTL_CLEANUP_INTERVAL
    Limit,          \* _CONSOLIDATE_MAX_ENTRIES
    MaxTime,        \* bound of the model: the clock stops here
    MaxPuts         \* bound of the model: puts that commit

AllKeys == Keys \cup {Target}

ASSUME EntriesAssumption ==
    /\ Target \notin Keys
    /\ MaxTime \in Nat /\ Forever \in Nat /\ Forever > MaxTime
    /\ Ttls \subseteq Nat \ {0}
    /\ Interval \in Nat \ {0} /\ Limit \in Nat \ {0} /\ MaxPuts \in Nat

VARIABLES
    now,
    rows,        \* key_values
    fts,         \* memory_fts: the contents found under a key
    puts,        \* versions given so far
    summarised,  \* history: versions some stored summary was made from
    count,       \* _put_count of each process
    pc, call     \* the call of each process and what it holds

dbVars == <<rows, fts, puts, summarised>>
vars == <<now, dbVars, count, pc, call>>

NoRow == [ver |-> 0, created |-> 0, expires |-> 0]
NoCall == [key |-> Target, at |-> 0, expires |-> 0, seen |-> {}]

Present == {k \in AllKeys : rows[k] # NoRow}
ExpiredAt(row, t) == row.expires < t
Live(k) == k \in Present /\ ~ExpiredAt(rows[k], now)

Leave(p) ==
    /\ pc' = [pc EXCEPT ![p] = "idle"]
    /\ call' = [call EXCEPT ![p] = NoCall]

----------------------------------------------------------------------------
(* put: the clock is read before the write lock is waited for. *)

\* Mutant of Stored: the expired entries go before their search rows.
StoredRowsFirst(k, row, cleans, t) ==
    LET kept == [rows EXCEPT ![k] = row]
        gone == IF cleans THEN {j \in AllKeys : kept[j] # NoRow
                                                /\ ExpiredAt(kept[j], t)}
                ELSE {}
    IN  /\ rows' = [j \in AllKeys |-> IF j \in gone THEN NoRow ELSE kept[j]]
        /\ fts' = [fts EXCEPT ![k] = {row.ver}]

\* The row replaces the key's and its search row; every so often the entries
\* expired by t go, with their search rows.
Stored(k, row, cleans, t) ==
    LET kept == [rows EXCEPT ![k] = row]
        gone == IF cleans THEN {j \in AllKeys : kept[j] # NoRow
                                                /\ ExpiredAt(kept[j], t)}
                ELSE {}
    IN  /\ rows' = [j \in AllKeys |-> IF j \in gone THEN NoRow ELSE kept[j]]
        /\ fts' = [j \in AllKeys |-> IF j \in gone THEN {}
                                     ELSE IF j = k THEN {row.ver} ELSE fts[j]]

PutCommit(p, k, at, expires) ==
    /\ puts < MaxPuts
    /\ puts' = puts + 1
    /\ count' = [count EXCEPT ![p] = (@ + 1) % Interval]
    /\ Stored(k, [ver |-> puts', created |-> at, expires |-> expires],
              count'[p] = 0, at)

Put(p, k, ttl) ==
    /\ pc[p] = "idle"
    /\ pc' = [pc EXCEPT ![p] = "put"]
    /\ call' = [call EXCEPT ![p] =
          [key |-> k, at |-> now, seen |-> {},
           expires |-> IF ttl = Forever THEN Forever ELSE now + ttl]]
    /\ UNCHANGED <<now, dbVars, count>>

PutEnds(p) ==
    /\ pc[p] = "put"
    /\ PutCommit(p, call[p].key, call[p].at, call[p].expires)
    /\ Leave(p)
    /\ UNCHANGED <<now, summarised>>

\* A write fails and its transaction is rolled back: the lock is not granted
\* in time, or the commit fails after the put has been counted.
WriteFails(p) ==
    /\ pc[p] \in {"put", "expired", "summary", "prune"}
    /\ count' \in {count} \cup
          (IF pc[p] \in {"put", "summary"}
           THEN {[count EXCEPT ![p] = (@ + 1) % Interval]} ELSE {})
    /\ Leave(p)
    /\ UNCHANGED <<now, dbVars>>

----------------------------------------------------------------------------
(* delete and get *)

Remove(k) ==
    /\ rows' = [rows EXCEPT ![k] = NoRow]
    /\ fts' = [fts EXCEPT ![k] = {}]
    /\ UNCHANGED <<puts, summarised>>

Delete(p, k) ==
    /\ pc[p] = "idle"
    /\ Remove(k)
    /\ UNCHANGED <<now, count, pc, call>>

\* A get that finds an expired entry deletes it in a transaction of its own;
\* any other get changes nothing.
GetExpired(p, k) ==
    /\ pc[p] = "idle" /\ k \in Present /\ ExpiredAt(rows[k], now)
    /\ pc' = [pc EXCEPT ![p] = "expired"]
    /\ call' = [call EXCEPT ![p] = [key |-> k, at |-> 0, expires |-> 0,
                                    seen |-> {<<k, rows[k].ver>>}]]
    /\ UNCHANGED <<now, dbVars, count>>

GetDelete(p) ==
    /\ pc[p] = "expired"
    /\ Remove(call[p].key)
    /\ Leave(p)
    /\ UNCHANGED <<now, count>>

----------------------------------------------------------------------------
(* memory_consolidate *)

\* The rows that ORDER BY created_at LIMIT may return.
Oldest(S) ==
    {L \in SUBSET S :
        /\ Cardinality(L) = (IF Cardinality(S) < Limit THEN Cardinality(S)
                             ELSE Limit)
        /\ \A k \in L, j \in S \ L : rows[k].created <= rows[j].created}

\* Mutant of List: a consolidation of nothing goes on.
ListNothing(p) ==
    /\ pc[p] = "idle"
    /\ \E L \in Oldest(Present) :
          LET src == {k \in L \ {Target} : ~ExpiredAt(rows[k], now)} IN
          call' = [call EXCEPT ![p] =
                [NoCall EXCEPT !.seen = {<<k, rows[k].ver>> : k \in src}]]
    /\ pc' = [pc EXCEPT ![p] = "summarise"]
    /\ UNCHANGED <<now, dbVars, count>>

\* Reads the oldest entries, then leaves out the expired and the target.
List(p) ==
    /\ pc[p] = "idle"
    /\ \E L \in Oldest(Present) :
          LET src == {k \in L \ {Target} : ~ExpiredAt(rows[k], now)} IN
          /\ src # {}
          /\ call' = [call EXCEPT ![p] =
                [NoCall EXCEPT !.seen = {<<k, rows[k].ver>> : k \in src}]]
    /\ pc' = [pc EXCEPT ![p] = "summarise"]
    /\ UNCHANGED <<now, dbVars, count>>

\* The summary is made; its put reads the clock.
Summarise(p) ==
    /\ pc[p] = "summarise"
    /\ call' = [call EXCEPT ![p].at = now]
    /\ pc' = [pc EXCEPT ![p] = "summary"]
    /\ UNCHANGED <<now, dbVars, count>>

\* Mutant of StoreSummary: the sources are pruned before the summary is stored.
PruneFirst(p) ==
    /\ pc[p] = "summary"
    /\ \/ pc' = [pc EXCEPT ![p] = "prune"] /\ UNCHANGED call
       \/ Leave(p)
    /\ UNCHANGED <<now, dbVars, count>>

\* With prune_transient the call goes on.
StoreSummary(p) ==
    /\ pc[p] = "summary"
    /\ PutCommit(p, Target, call[p].at, Forever)
    /\ summarised' = summarised \cup {s[2] : s \in call[p].seen}
    /\ \/ pc' = [pc EXCEPT ![p] = "prune"] /\ UNCHANGED call
       \/ Leave(p)
    /\ UNCHANGED now

\* The source entries are deleted by key, each in a transaction of its own.
Prune(p) ==
    /\ pc[p] = "prune"
    /\ \E s \in call[p].seen :
          /\ Remove(s[1])
          /\ IF call[p].seen = {s} THEN Leave(p)
             ELSE /\ call' = [call EXCEPT ![p].seen = @ \ {s}]
                  /\ UNCHANGED pc
    /\ UNCHANGED <<now, count>>

----------------------------------------------------------------------------
Tick ==
    /\ now < MaxTime
    /\ now' = now + 1
    /\ UNCHANGED <<dbVars, count, pc, call>>

Init ==
    /\ now = 0
    /\ rows = [k \in AllKeys |-> NoRow] /\ fts = [k \in AllKeys |-> {}]
    /\ puts = 0 /\ summarised = {}
    /\ count = [p \in Servers |-> 0]
    /\ pc = [p \in Servers |-> "idle"]
    /\ call = [p \in Servers |-> NoCall]

Serve(p) ==
    \/ \E k \in AllKeys, ttl \in Ttls \cup {Forever} : Put(p, k, ttl)
    \/ \E k \in AllKeys : Delete(p, k) \/ GetExpired(p, k)
    \/ PutEnds(p) \/ WriteFails(p) \/ GetDelete(p)
    \/ List(p) \/ Summarise(p) \/ StoreSummary(p) \/ Prune(p)

Next == Tick \/ \E p \in Servers : Serve(p)

Spec == Init /\ [][Next]_vars

----------------------------------------------------------------------------
Rows == [ver : 1..MaxPuts, created : 0..MaxTime, expires : Nat]

Calls == [key : AllKeys, at : 0..MaxTime, expires : Nat,
          seen : SUBSET (AllKeys \X (1..MaxPuts))]

TypeOK ==
    /\ now \in 0..MaxTime
    /\ rows \in [AllKeys -> Rows \cup {NoRow}]
    /\ fts \in [AllKeys -> SUBSET (1..MaxPuts)]
    /\ puts \in 0..MaxPuts /\ summarised \subseteq 1..puts
    /\ count \in [Servers -> 0..Interval - 1]
    /\ pc \in [Servers -> {"idle", "put", "expired", "summarise", "summary",
                           "prune"}]
    /\ call \in [Servers -> Calls]
    /\ \A p \in Servers :
          pc[p] \in {"summarise", "summary", "prune"} => call[p].seen # {}

\* What a search joins is exact: every entry has one search row, with its
\* content, and no search row outlives its entry, whatever puts, clean-ups,
\* deletions and failures interleave.
SearchExact ==
    \A k \in AllKeys :
        fts[k] = IF k \in Present THEN {rows[k].ver} ELSE {}

\* A server looked at k before k's present row was put.
LookedBefore(p, k) == \E s \in call[p].seen : s[1] = k /\ s[2] < rows[k].ver

\* An entry that has not expired disappears only when somebody deletes it,
\* when a stored summary was made from it, or when it was put between a
\* server's look at its key and that server's deletion: the clean-up, with
\* whatever clock, and an undisturbed get never take it.
LiveLossExplained ==
    [][\A k \in AllKeys :
          Live(k) /\ rows'[k] = NoRow =>
              \/ \E p \in Servers : Delete(p, k)
              \/ rows[k].ver \in summarised
              \/ \E p \in Servers : LookedBefore(p, k) /\ (GetDelete(p) \/ Prune(p))
      ]_vars
=============================================================================
