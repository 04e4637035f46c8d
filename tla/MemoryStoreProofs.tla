------------------------- MODULE MemoryStoreProofs -------------------------
(***************************************************************************)
(* What the store of shared memory promises, for any number of agents,     *)
(* sessions, servers, keys, rows and starting processes: its lock table    *)
(* (MemoryLocks), its entries (MemoryEntries) and the migration of its     *)
(* schema (MemoryMigration).                                               *)
(***************************************************************************)
EXTENDS MCMemory, FiniteSetTheorems, TLAPS

----------------------------------------------------------------------------
(* Mutual exclusion of the lock table for any number of agents, sessions   *)
(* and resources, any timeouts and any busy timeout.  The inductive        *)
(* invariant says that the row backs whatever an agent trusts, and that no *)
(* call in flight is older than Wait.                                      *)

\* The clock a call captured is neither ahead of the present nor, because of
\* the busy timeout, more than Wait behind it.
CallsRecent == \A c \in calls : c.at <= time /\ time <= c.at + Wait

\* What an agent trusts is covered by its row, margin included.
Backed ==
    \A k \in Resources, a \in Agents :
        Trusts(a, k) => owner[k] = a /\ expires[k] >= till[a][k] - Wait

LocksIInv == LocksTypeOK /\ CallsRecent /\ Backed

----------------------------------------------------------------------------
\* What a call in flight is made of.
LEMMA CallFields ==
    ASSUME LocksTypeOK, NEW c \in calls
    PROVE  /\ c.session \in Sessions /\ c.key \in Resources
           /\ c.ttl \in Int /\ c.at \in Int
           /\ AgentOf[c.session] \in Agents /\ AgentOf[c.session] # NoAgent
<1>1. c \in LockCalls
  BY DEF LocksTypeOK
<1>2. /\ c.session \in Sessions /\ c.key \in Resources
      /\ c.ttl \in LockTtls /\ c.at \in 0..LastTime
  BY <1>1 DEF LockCalls
<1>3. c.ttl \in Int
  BY <1>2, LocksAssumption, Zenon DEF LocksAssumption
<1>4. AgentOf[c.session] \in Agents /\ AgentOf[c.session] # NoAgent
  BY <1>2, LocksAssumption DEF LocksAssumption
<1>5. c.at \in Int
  BY <1>2
<1> QED
  BY <1>2, <1>3, <1>4, <1>5, Zenon

\* The two ways a call is committed touch the table alike.
LEMMA AcquireTypes ==
    ASSUME LocksTypeOK, NEW c \in calls, Acquire(c),
           NEW t \in Int, till' = [till EXCEPT ![AgentOf[c.session]][c.key] = t]
    PROVE  /\ owner' \in [Resources -> Agents \cup {NoAgent}]
           /\ expires' \in [Resources -> Int]
           /\ \A k \in Resources : owner'[k] = NoAgent => expires'[k] = 0
           /\ till' \in [Agents -> [Resources -> Int]]
  BY CallFields DEF LocksTypeOK, Acquire

LEMMA AnswerTypes ==
    ASSUME LocksTypeOK, NEW c \in calls, Answer(c)
    PROVE  /\ calls' \subseteq LockCalls
           /\ \A d, e \in calls' : d.session = e.session => d = e
  BY DEF LocksTypeOK, Answer

LEMMA DeleteTypes ==
    ASSUME LocksTypeOK, NEW which, DeleteRows(which),
           till' \in [Agents -> [Resources -> Int]]
    PROVE  LocksTypeOK'
<1>1. /\ owner' \in [Resources -> Agents \cup {NoAgent}]
      /\ expires' \in [Resources -> Int]
      /\ \A k \in Resources : owner'[k] = NoAgent => expires'[k] = 0
  BY DEF LocksTypeOK, DeleteRows
<1>2. time' = time /\ calls' = calls
  BY DEF DeleteRows
<1> QED
  BY <1>1, <1>2 DEF LocksTypeOK

----------------------------------------------------------------------------
LEMMA LocksTypeInit == LocksInit => LocksTypeOK
  BY LocksAssumption DEF LocksAssumption, LocksInit, LocksTypeOK

LEMMA LocksTypeStep == LocksTypeOK /\ [LocksNext]_lockVars => LocksTypeOK'
<1> SUFFICES ASSUME LocksTypeOK, [LocksNext]_lockVars PROVE LocksTypeOK'
  OBVIOUS
<1>1. ASSUME NEW s \in Sessions, LockCall(s) PROVE LocksTypeOK'
  <2>1. PICK k \in Resources, ttl \in LockTtls :
          calls' = calls \cup
                       {[session |-> s, key |-> k, ttl |-> ttl, at |-> time]}
    BY <1>1 DEF LockCall
  <2>2. calls' \subseteq LockCalls
    BY <2>1 DEF LocksTypeOK, LockCalls
  <2>3. \A c, d \in calls' : c.session = d.session => c = d
    BY <1>1, <2>1 DEF LockCall, LocksTypeOK
  <2> QED
    BY <1>1, <2>2, <2>3 DEF LockCall, LocksTypeOK, lockRows
<1>2. ASSUME NEW c \in calls, LockGranted(c) PROVE LocksTypeOK'
  <2>1. c.ttl \in Int /\ time + c.ttl \in Int
    BY CallFields DEF LocksTypeOK
  <2> QED
    BY <1>2, <2>1, AcquireTypes, AnswerTypes DEF LockGranted, LocksTypeOK
<1>3. ASSUME NEW c \in calls, LockGrantLost(c) PROVE LocksTypeOK'
  <2>1. /\ AgentOf[c.session] \in Agents /\ c.key \in Resources
        /\ c.ttl \in Int
    BY CallFields
  <2>2. Lesser(till[AgentOf[c.session]][c.key], time + c.ttl) \in Int
    BY <2>1 DEF LocksTypeOK, Lesser
  <2>3. till' = [till EXCEPT ![AgentOf[c.session]][c.key] =
                     Lesser(till[AgentOf[c.session]][c.key], time + c.ttl)]
    BY <1>3, <2>1 DEF LockGrantLost, LocksTypeOK
  <2> QED
    BY <1>3, <2>2, <2>3, AcquireTypes, AnswerTypes DEF LockGrantLost, LocksTypeOK
<1>4. ASSUME NEW c \in calls, LockDenied(c) \/ LockFails(c) PROVE LocksTypeOK'
  BY <1>4, AnswerTypes DEF LockDenied, LockFails, LocksTypeOK, lockRows
<1>5. ASSUME NEW a \in Agents, NEW k \in Resources, Unlock(a, k) PROVE LocksTypeOK'
  BY <1>5, DeleteTypes DEF Unlock, LocksTypeOK
<1>6. ASSUME NEW a \in Agents, RevokeAgentLocks(a) PROVE LocksTypeOK'
  BY <1>6, DeleteTypes DEF RevokeAgentLocks, LocksTypeOK
<1>7. CASE RevokeAllLocks
  BY <1>7, DeleteTypes DEF RevokeAllLocks, LocksTypeOK
<1>8. CASE TimePasses
  BY <1>8, LocksAssumption DEF LocksAssumption, TimePasses, LocksTypeOK, lockRows
<1>9. CASE UNCHANGED lockVars
  BY <1>9 DEF lockVars, lockRows, LocksTypeOK, LockCalls
<1> QED
  BY <1>1, <1>2, <1>3, <1>4, <1>5, <1>6, <1>7, <1>8, <1>9 DEF LocksNext

\* Every reachable state of the lock table is well typed, and no session has
\* two calls in flight.
THEOREM LocksTyped == LocksSpec => []LocksTypeOK
  BY LocksTypeInit, LocksTypeStep, PTL DEF LocksSpec

----------------------------------------------------------------------------
LEMMA LocksInvInit == LocksInit => LocksIInv
<1> SUFFICES ASSUME LocksInit PROVE LocksIInv
  OBVIOUS
<1>1. CallsRecent
  BY DEF LocksInit, CallsRecent
<1>2. Backed
  <2> SUFFICES ASSUME NEW k \in Resources, NEW a \in Agents, Trusts(a, k)
               PROVE  FALSE
    BY DEF Backed
  <2> QED
    BY LocksAssumption DEF LocksAssumption, LocksInit, Trusts
<1> QED
  BY <1>1, <1>2, LocksTypeInit DEF LocksIInv

\* A commit by c leaves every other lock alone and backs what c's agent trusts
\* afterwards, provided that is no more than c.ttl from now or what it had.
LEMMA AcquireBacks ==
    ASSUME LocksIInv, NEW c \in calls, Free(c), Acquire(c), time' = time,
           NEW t \in Int, t <= time + c.ttl,
           till' = [till EXCEPT ![AgentOf[c.session]][c.key] = t]
    PROVE  Backed'
<1> DEFINE me == AgentOf[c.session]
<1>1. /\ c.key \in Resources /\ c.ttl \in Int /\ c.at \in Int
      /\ me \in Agents /\ me # NoAgent
  BY CallFields DEF LocksIInv
<1>2. c.at <= time /\ time <= c.at + Wait /\ time \in Int /\ Wait \in Int
  BY LocksAssumption DEF LocksAssumption, LocksIInv, CallsRecent, LocksTypeOK
<1> SUFFICES ASSUME NEW k \in Resources, NEW a \in Agents, Trusts(a, k)'
             PROVE  owner'[k] = a /\ expires'[k] >= till'[a][k] - Wait
  BY DEF Backed
<1>3. /\ till \in [Agents -> [Resources -> Int]]
      /\ owner \in [Resources -> Agents \cup {NoAgent}]
      /\ expires \in [Resources -> Int]
  BY DEF LocksIInv, LocksTypeOK
<1>4. CASE k = c.key /\ a = me
  <2>1. till'[a][k] = t /\ owner'[k] = a /\ expires'[k] = c.at + c.ttl
    BY <1>1, <1>3, <1>4 DEF Acquire
  <2> QED
    BY <2>1, <1>1, <1>2
<1>5. CASE ~(k = c.key /\ a = me)
  <2>1. till'[a][k] = till[a][k]
    BY <1>1, <1>3, <1>5
  <2>2. Trusts(a, k)
    BY <2>1 DEF Trusts
  <2>3. owner[k] = a /\ expires[k] >= till[a][k] - Wait
    BY <2>2 DEF LocksIInv, Backed
  <2>4. k # c.key
    <3> SUFFICES ASSUME k = c.key PROVE FALSE
      OBVIOUS
    <3>1. expires[k] <= c.at
      BY <2>3, <1>5, LocksAssumption DEF LocksAssumption, Free
    <3> QED
      BY <3>1, <2>2, <2>3, <1>1, <1>2, <1>3 DEF Trusts
  <2> QED
    BY <2>1, <2>3, <2>4, <1>3 DEF Acquire
<1> QED
  BY <1>4, <1>5

LEMMA DeleteBacks ==
    ASSUME LocksIInv, NEW which, DeleteRows(which),
           \A k \in Resources, a \in Agents :
               /\ till'[a][k] \in {0, till[a][k]}
               /\ which[k] /\ owner[k] = a => till'[a][k] = 0
    PROVE  Backed'
<1> SUFFICES ASSUME NEW k \in Resources, NEW a \in Agents, Trusts(a, k)'
             PROVE  owner'[k] = a /\ expires'[k] >= till'[a][k] - Wait
  BY DEF Backed
<1>1. time' = time /\ time \in Nat /\ Wait \in Nat
  BY LocksAssumption DEF LocksAssumption, DeleteRows, LocksIInv, LocksTypeOK
<1>2. ~(which[k] /\ owner[k] = a) /\ till'[a][k] = till[a][k]
  BY <1>1 DEF Trusts
<1>3. owner[k] = a /\ expires[k] >= till[a][k] - Wait
  BY <1>1, <1>2 DEF LocksIInv, Backed, Trusts
<1> QED
  BY <1>2, <1>3 DEF DeleteRows

LEMMA LocksInvStep == LocksIInv /\ [LocksNext]_lockVars => LocksIInv'
<1> SUFFICES ASSUME LocksIInv, [LocksNext]_lockVars PROVE LocksIInv'
  OBVIOUS
<1>0. LocksTypeOK'
  BY LocksTypeStep DEF LocksIInv
<1>t. /\ time \in Int /\ Wait \in Nat
      /\ till \in [Agents -> [Resources -> Int]]
  BY LocksAssumption DEF LocksAssumption, LocksIInv, LocksTypeOK
<1>1. ASSUME NEW s \in Sessions, LockCall(s) PROVE LocksIInv'
  <2>1. CallsRecent'
    BY <1>1, <1>t DEF LockCall, LocksIInv, CallsRecent
  <2>2. Backed'
    BY <1>1 DEF LockCall, LocksIInv, Backed, Trusts, lockRows
  <2> QED
    BY <1>0, <2>1, <2>2 DEF LocksIInv
<1>2. ASSUME NEW c \in calls, LockGranted(c) PROVE LocksIInv'
  <2>1. CallsRecent'
    BY <1>2 DEF LockGranted, Answer, LocksIInv, CallsRecent
  <2>2. Backed'
    <3>1. time + c.ttl \in Int /\ time + c.ttl <= time + c.ttl
      BY <1>t, CallFields DEF LocksIInv
    <3> QED
      BY <1>2, <3>1, AcquireBacks DEF LockGranted
  <2> QED
    BY <1>0, <2>1, <2>2 DEF LocksIInv
<1>3. ASSUME NEW c \in calls, LockGrantLost(c) PROVE LocksIInv'
  <2> DEFINE t == Lesser(till[AgentOf[c.session]][c.key], time + c.ttl)
  <2>1. CallsRecent'
    BY <1>3 DEF LockGrantLost, Answer, LocksIInv, CallsRecent
  <2>2. Backed'
    <3>1. /\ AgentOf[c.session] \in Agents /\ c.key \in Resources
          /\ c.ttl \in Int
      BY CallFields DEF LocksIInv
    <3>2. t \in Int /\ t <= time + c.ttl
      BY <3>1, <1>t DEF Lesser
    <3>3. till' = [till EXCEPT ![AgentOf[c.session]][c.key] = t]
      BY <1>3, <3>1, <1>t DEF LockGrantLost
    <3> HIDE DEF t
    <3> QED
      BY <1>3, <3>2, <3>3, AcquireBacks DEF LockGrantLost
  <2> QED
    BY <1>0, <2>1, <2>2 DEF LocksIInv
<1>4. ASSUME NEW c \in calls, LockDenied(c) \/ LockFails(c) PROVE LocksIInv'
  <2>1. CallsRecent'
    BY <1>4 DEF LockDenied, LockFails, Answer, LocksIInv, CallsRecent
  <2>2. Backed'
    BY <1>4 DEF LockDenied, LockFails, LocksIInv, Backed, Trusts, lockRows
  <2> QED
    BY <1>0, <2>1, <2>2 DEF LocksIInv
<1>5. ASSUME NEW which, DeleteRows(which), Backed' PROVE LocksIInv'
  <2>1. CallsRecent'
    BY <1>5 DEF DeleteRows, LocksIInv, CallsRecent
  <2> QED
    BY <1>0, <1>5, <2>1 DEF LocksIInv
<1>5a. ASSUME NEW b \in Agents, NEW key \in Resources, Unlock(b, key)
       PROVE  LocksIInv'
  <2>1. Backed'
    BY <1>5a, <1>t, DeleteBacks DEF Unlock
  <2> QED
    BY <1>5, <1>5a, <2>1 DEF Unlock
<1>5b. ASSUME NEW b \in Agents, RevokeAgentLocks(b) PROVE LocksIInv'
  <2>1. Backed'
    BY <1>5b, <1>t, DeleteBacks DEF RevokeAgentLocks
  <2> QED
    BY <1>5, <1>5b, <2>1 DEF RevokeAgentLocks
<1>5c. CASE RevokeAllLocks
  <2>1. Backed'
    BY <1>5c, <1>t, DeleteBacks DEF RevokeAllLocks
  <2> QED
    BY <1>5, <1>5c, <2>1 DEF RevokeAllLocks
<1>6. CASE TimePasses
  <2>1. CallsRecent'
    <3> SUFFICES ASSUME NEW c \in calls
                 PROVE  c.at <= time + 1 /\ time + 1 <= c.at + Wait
      BY <1>6 DEF TimePasses, CallsRecent
    <3>1. c.at \in Int /\ c.at <= time
      BY CallFields DEF LocksIInv, CallsRecent
    <3> QED
      BY <1>6, <3>1, <1>t DEF TimePasses
  <2>2. Backed'
    BY <1>6, <1>t DEF TimePasses, LocksIInv, Backed, Trusts, lockRows
  <2> QED
    BY <1>0, <2>1, <2>2 DEF LocksIInv
<1>7. CASE UNCHANGED lockVars
  BY <1>0, <1>7 DEF lockVars, lockRows, LocksIInv, CallsRecent, Backed, Trusts
<1> QED
  BY <1>1, <1>2, <1>3, <1>4, <1>5a, <1>5b, <1>5c, <1>6, <1>7 DEF LocksNext

LEMMA LocksInv == LocksSpec => []LocksIInv
  BY LocksInvInit, LocksInvStep, PTL DEF LocksSpec

\* No two agents ever trust the same lock at the same time.
THEOREM LocksMutex == LocksSpec => []Mutex
<1>1. LocksIInv => Mutex
  BY DEF LocksIInv, Backed, Mutex
<1> QED
  BY <1>1, LocksInv, PTL

\* Every lock an agent trusts is in the list list_active_locks would return.
THEOREM LocksTrustedListed == LocksSpec => []TrustedIsListed
<1>1. ASSUME LocksIInv PROVE TrustedIsListed
  <2> SUFFICES ASSUME NEW k \in Resources, NEW a \in Agents, Trusts(a, k)
               PROVE  k \in ActiveLocks /\ owner[k] = a
    BY DEF TrustedIsListed
  <2>1. owner[k] = a /\ expires[k] >= till[a][k] - Wait
    BY <1>1 DEF LocksIInv, Backed
  <2>2. /\ time \in Int /\ Wait \in Int
        /\ expires[k] \in Int /\ till[a][k] \in Int
    BY <1>1, LocksAssumption DEF LocksAssumption, LocksIInv, LocksTypeOK
  <2>3. owner[k] # NoAgent
    BY <2>1, LocksAssumption DEF LocksAssumption
  <2> QED
    BY <2>1, <2>2, <2>3 DEF Trusts, ActiveLocks
<1> QED
  BY <1>1, LocksInv, PTL

\* A row passes to another agent only after it has expired by the present
\* clock, although the upsert compares with the clock read before the wait.
THEOREM LocksNoSteal == LocksSpec => NoSteal
<1> DEFINE Steal(k) == /\ owner[k] # NoAgent
                       /\ owner'[k] \notin {NoAgent, owner[k]}
<1>1. ASSUME LocksIInv, [LocksNext]_lockVars, NEW k \in Resources, Steal(k)
      PROVE  expires[k] <= time
  <2>1. ASSUME NEW c \in calls, Free(c), Acquire(c) PROVE expires[k] <= time
    <3>1. /\ c.key \in Resources /\ c.at \in Int /\ c.at <= time
      BY <1>1, CallFields DEF LocksIInv, CallsRecent
    <3>2. k = c.key /\ owner[k] # AgentOf[c.session]
      BY <1>1, <2>1, <3>1 DEF Acquire, LocksIInv, LocksTypeOK
    <3>3. expires[k] <= c.at
      BY <1>1, <2>1, <3>2 DEF Free
    <3> QED
      BY <1>1, <3>1, <3>3 DEF LocksIInv, LocksTypeOK
  <2>2. ASSUME NEW which, DeleteRows(which) PROVE FALSE
    BY <1>1, <2>2 DEF DeleteRows
  <2>3. ASSUME UNCHANGED owner PROVE FALSE
    BY <1>1, <2>3
  <2> QED
    BY <1>1, <2>1, <2>2, <2>3
       DEF LocksNext, lockVars, lockRows, LockCall, LockGranted, LockGrantLost, LockDenied,
           LockFails, Unlock, RevokeAgentLocks, RevokeAllLocks, TimePasses
<1>2. LocksIInv /\ [LocksNext]_lockVars =>
        [\A k \in Resources :
            owner[k] # NoAgent /\ owner'[k] \notin {NoAgent, owner[k]}
                => expires[k] <= time]_lockVars
  BY <1>1
<1> QED
  BY <1>2, LocksInv, PTL DEF LocksSpec, NoSteal

----------------------------------------------------------------------------
(* The shared memory's entries for any keys, servers, lives, cadence of    *)
(* the clean-up and number of puts.  Beyond the types, the inductive       *)
(* invariant says what a call may still rely on of what it has read: a     *)
(* version it has seen is no newer than the row there is now, an expired   *)
(* row it has seen is still expired if it is still there, and what it      *)
(* prunes has been summarised.                                             *)

\* Versions come from the counter of puts.
Numbered == \A k \in AllKeys : rows[k].ver <= puts

\* What the call of p may rely on: a version it has seen is no newer than the
\* row under its key; the clock of its put was read in the past, and before
\* the end of the entry's life; what it prunes has been summarised; and what
\* it is about to delete as expired still is, unless it was replaced.
Sound(p) ==
    LET c == call[p] IN
    /\ \A s \in c.seen :
          s[2] <= puts /\ (rows[s[1]] # NoRow => s[2] <= rows[s[1]].ver)
    /\ c.at <= now
    /\ pc[p] = "put" => c.at <= c.expires
    /\ pc[p] = "prune" => \A s \in c.seen : s[2] \in summarised
    /\ pc[p] = "expired" =>
          \E v \in 1..MaxPuts :
              /\ c.seen = {<<c.key, v>>}
              /\ rows[c.key].ver = v => rows[c.key].expires < now

EntriesIInv == TypeOK /\ Numbered /\ SearchExact /\ \A p \in Servers : Sound(p)

----------------------------------------------------------------------------
LEMMA EntriesConstants ==
    /\ MaxTime \in Nat /\ Forever \in Nat /\ Forever > MaxTime
    /\ Ttls \subseteq Nat \ {0} /\ Interval \in Nat \ {0} /\ MaxPuts \in Nat
    /\ Target \notin Keys /\ Target \in AllKeys
BY EntriesAssumption DEF EntriesAssumption, AllKeys

LEMMA NoRowFacts ==
    NoRow.ver = 0 /\ \A row \in Rows : row.ver >= 1 /\ row # NoRow
BY DEF NoRow, Rows

\* A put leaves the tables well typed, with the new row or, if the clean-up
\* has taken it, none; other rows stay unless they had expired.
LEMMA PutEffect ==
    ASSUME TypeOK, NEW p \in Servers, NEW k \in AllKeys, NEW at \in 0..MaxTime,
           NEW until \in Nat, at <= until, PutCommit(p, k, at, until)
    PROVE  /\ puts \in Int /\ puts' = puts + 1 /\ puts' \in 1..MaxPuts
           /\ rows' \in [AllKeys -> Rows \cup {NoRow}]
           /\ fts' \in [AllKeys -> SUBSET (1..MaxPuts)]
           /\ rows'[k] \in Rows /\ rows'[k].ver = puts' /\ fts'[k] = {puts'}
           /\ \A j \in AllKeys : j # k =>
                 \/ rows'[j] = rows[j] /\ fts'[j] = fts[j]
                 \/ /\ rows'[j] = NoRow /\ fts'[j] = {}
                    /\ rows[j].expires < at
<1> DEFINE row == [ver |-> puts', created |-> at, expires |-> until]
           kept == [rows EXCEPT ![k] = row]
           gone == IF count'[p] = 0
                   THEN {j \in AllKeys : kept[j] # NoRow
                                         /\ ExpiredAt(kept[j], at)}
                   ELSE {}
<1>1. puts' = puts + 1 /\ puts' \in 1..MaxPuts
  BY EntriesConstants DEF PutCommit, TypeOK
<1>2. row \in Rows
  BY <1>1 DEF Rows
<1>3. /\ rows' = [j \in AllKeys |-> IF j \in gone THEN NoRow ELSE kept[j]]
      /\ fts' = [j \in AllKeys |-> IF j \in gone THEN {}
                                   ELSE IF j = k THEN {puts'} ELSE fts[j]]
  BY DEF PutCommit, Stored
<1>4. kept \in [AllKeys -> Rows \cup {NoRow}]
  BY <1>2 DEF TypeOK
<1>5. k \notin gone
  <2>1. kept[k] = row
    BY DEF TypeOK
  <2>2. ~ExpiredAt(row, at)
    BY DEF ExpiredAt
  <2> QED
    BY <2>1, <2>2
<1>6. /\ rows' \in [AllKeys -> Rows \cup {NoRow}]
      /\ fts' \in [AllKeys -> SUBSET (1..MaxPuts)]
  <2>1. rows' \in [AllKeys -> Rows \cup {NoRow}]
    BY <1>3, <1>4
  <2>2. fts' \in [AllKeys -> SUBSET (1..MaxPuts)]
    BY <1>1, <1>3 DEF TypeOK
  <2> QED
    BY <2>1, <2>2
<1>7. rows'[k] = row /\ fts'[k] = {puts'}
  BY <1>3, <1>5 DEF TypeOK
<1>8. ASSUME NEW j \in AllKeys, j # k
      PROVE  \/ rows'[j] = rows[j] /\ fts'[j] = fts[j]
             \/ rows'[j] = NoRow /\ fts'[j] = {} /\ rows[j].expires < at
  <2>1. kept[j] = rows[j]
    BY <1>8 DEF TypeOK
  <2>2. CASE j \in gone
    BY <1>3, <2>1, <2>2 DEF ExpiredAt
  <2>3. CASE j \notin gone
    BY <1>3, <1>8, <2>1, <2>3
  <2> QED
    BY <2>2, <2>3
<1>9. puts \in Int /\ rows'[k] \in Rows /\ rows'[k].ver = puts'
  BY <1>2, <1>7 DEF TypeOK
<1> QED
  BY <1>1, <1>6, <1>7, <1>8, <1>9

\* The counter of a put stays within the cadence of the clean-up.
LEMMA CountEffect ==
    ASSUME TypeOK, NEW p \in Servers
    PROVE  [count EXCEPT ![p] = (@ + 1) % Interval]
              \in [Servers -> 0..Interval - 1]
<1>1. \A n \in Nat, m \in Nat \ {0} : n % m \in 0..m - 1
  OBVIOUS
<1>2. (count[p] + 1) % Interval \in 0..Interval - 1
  <2>1. count[p] + 1 \in Nat /\ Interval \in Nat \ {0}
    BY EntriesConstants DEF TypeOK
  <2> QED
    BY ONLY <1>1, <2>1
<1> QED
  BY <1>2 DEF TypeOK

LEMMA RemoveEffect ==
    ASSUME TypeOK, NEW k \in AllKeys, Remove(k)
    PROVE  /\ rows' \in [AllKeys -> Rows \cup {NoRow}]
           /\ fts' \in [AllKeys -> SUBSET (1..MaxPuts)]
           /\ rows'[k] = NoRow /\ fts'[k] = {}
           /\ \A j \in AllKeys : j # k => rows'[j] = rows[j] /\ fts'[j] = fts[j]
           /\ puts' = puts /\ summarised' = summarised
BY DEF Remove, TypeOK

LEMMA NoCallTyped ==
    NoCall \in Calls /\ NoCall.seen = {} /\ NoCall.at = 0
BY EntriesConstants DEF NoCall, Calls

LEMMA LeaveEffect ==
    ASSUME TypeOK, NEW p \in Servers, Leave(p)
    PROVE  /\ pc' \in [Servers -> {"idle", "put", "expired", "summarise",
                                   "summary", "prune"}]
           /\ call' \in [Servers -> Calls]
           /\ pc'[p] = "idle" /\ call'[p] = NoCall
           /\ \A q \in Servers : q # p => pc'[q] = pc[q] /\ call'[q] = call[q]
BY NoCallTyped DEF Leave, TypeOK

----------------------------------------------------------------------------
\* How a transaction may change the tables: rows stay, go, or are newer than
\* every version seen so far.
Evolves ==
    /\ now' = now /\ puts' \in Int /\ puts <= puts'
    /\ summarised \subseteq summarised'
    /\ \A j \in AllKeys :
          \/ rows'[j] = rows[j] \/ rows'[j] = NoRow
          \/ rows'[j] \in Rows /\ rows'[j].ver > puts

\* The calls of the servers that take no part in a step stay sound.
LEMMA OthersSound ==
    ASSUME EntriesIInv, Evolves, NEW q \in Servers,
           pc'[q] = pc[q], call'[q] = call[q]
    PROVE  Sound(q)'
<1> DEFINE c == call[q]
<1>1. c \in Calls /\ puts \in Int /\ Sound(q)
  BY DEF EntriesIInv, TypeOK
<1>2. \A s \in c.seen : s[1] \in AllKeys /\ s[2] \in 1..MaxPuts
  BY <1>1 DEF Calls
<1>3. ASSUME NEW s \in c.seen
      PROVE  s[2] <= puts' /\ (rows'[s[1]] # NoRow => s[2] <= rows'[s[1]].ver)
  <2>1. /\ s[2] <= puts /\ s[2] \in Int
        /\ rows[s[1]] # NoRow => s[2] <= rows[s[1]].ver
    BY <1>1, <1>2 DEF Sound
  <2>2. \/ rows'[s[1]] = rows[s[1]] \/ rows'[s[1]] = NoRow
        \/ rows'[s[1]].ver \in Int /\ rows'[s[1]].ver > puts
    BY <1>2 DEF Evolves, Rows
  <2> QED
    BY <1>1, <2>1, <2>2 DEF Evolves
<1>4. ASSUME pc[q] = "expired"
      PROVE  \E v \in 1..MaxPuts :
                 /\ c.seen = {<<c.key, v>>}
                 /\ rows'[c.key].ver = v => rows'[c.key].expires < now
  <2>1. PICK v \in 1..MaxPuts :
          /\ c.seen = {<<c.key, v>>}
          /\ rows[c.key].ver = v => rows[c.key].expires < now
    BY <1>1, <1>4 DEF Sound
  <2>2. v <= puts /\ c.key \in AllKeys
    BY <1>1, <2>1 DEF Sound, Calls
  <2>3. rows'[c.key] = rows[c.key] \/ rows'[c.key].ver # v
    BY <1>1, <2>2, NoRowFacts DEF Evolves, Rows
  <2> QED
    BY <2>1, <2>3
<1>5. /\ c.at <= now'
      /\ pc[q] = "put" => c.at <= c.expires
      /\ pc[q] = "prune" => \A s \in c.seen : s[2] \in summarised'
  BY <1>1 DEF Sound, Evolves
<1>6. call'[q] = c /\ pc'[q] = pc[q] /\ now' = now
  BY DEF Evolves
<1> QED
  BY <1>3, <1>4, <1>5, <1>6 DEF Sound

LEMMA IdleSound ==
    ASSUME TypeOK, now' = now, NEW p \in Servers, pc'[p] = "idle",
           call'[p] = NoCall
    PROVE  Sound(p)'
BY NoCallTyped DEF Sound, TypeOK

\* A put or a deletion keeps the tables in step with each other.
LEMMA PutExact ==
    ASSUME EntriesIInv, NEW p \in Servers, NEW k \in AllKeys, NEW at \in 0..MaxTime,
           NEW until \in Nat, at <= until, PutCommit(p, k, at, until)
    PROVE  Numbered' /\ SearchExact'
<1>1. TypeOK /\ Numbered /\ SearchExact
  BY DEF EntriesIInv
<1>2. ASSUME NEW j \in AllKeys
      PROVE  /\ rows'[j].ver <= puts'
             /\ fts'[j] = IF rows'[j] # NoRow THEN {rows'[j].ver} ELSE {}
  <2>1. CASE j = k
    <3>1. /\ rows'[k] # NoRow /\ rows'[k].ver = puts' /\ fts'[k] = {puts'}
          /\ puts' \in Int
      BY <1>1, PutEffect, NoRowFacts
    <3> QED
      BY <2>1, <3>1
  <2>2. CASE j # k
    <3>1. rows[j].ver \in Int /\ puts \in Int /\ puts' = puts + 1
      BY <1>1, PutEffect DEF TypeOK, Rows, NoRow
    <3>2. /\ rows[j].ver <= puts
          /\ fts[j] = IF rows[j] # NoRow THEN {rows[j].ver} ELSE {}
      BY <1>1 DEF Numbered, SearchExact, Present
    <3>3. \/ rows'[j] = rows[j] /\ fts'[j] = fts[j]
          \/ rows'[j] = NoRow /\ fts'[j] = {}
      BY <1>1, <2>2, PutEffect
    <3>4. CASE rows'[j] = rows[j] /\ fts'[j] = fts[j]
      BY <3>1, <3>2, <3>4
    <3>5. CASE rows'[j] = NoRow /\ fts'[j] = {}
      BY <1>1, <3>1, <3>5, NoRowFacts DEF TypeOK
    <3> QED
      BY <3>3, <3>4, <3>5
  <2> QED
    BY <2>1, <2>2
<1> QED
  BY <1>2 DEF Numbered, SearchExact, Present

LEMMA RemoveExact ==
    ASSUME EntriesIInv, NEW k \in AllKeys, Remove(k) PROVE Numbered' /\ SearchExact'
<1>1. TypeOK /\ Numbered /\ SearchExact /\ NoRow.ver <= puts
  BY NoRowFacts DEF EntriesIInv, TypeOK
<1>2. ASSUME NEW j \in AllKeys
      PROVE  /\ rows'[j].ver <= puts'
             /\ fts'[j] = IF rows'[j] # NoRow THEN {rows'[j].ver} ELSE {}
  BY <1>1, RemoveEffect DEF Numbered, SearchExact, Present
<1> QED
  BY <1>2 DEF Numbered, SearchExact, Present

LEMMA PutEvolves ==
    ASSUME EntriesIInv, NEW p \in Servers, NEW k \in AllKeys, NEW at \in 0..MaxTime,
           NEW until \in Nat, at <= until, PutCommit(p, k, at, until),
           now' = now, summarised \subseteq summarised'
    PROVE  Evolves
<1>1. TypeOK
  BY DEF EntriesIInv
<1>2. puts \in Int /\ puts' = puts + 1
  BY <1>1, PutEffect DEF TypeOK
<1>3. ASSUME NEW j \in AllKeys
      PROVE  \/ rows'[j] = rows[j] \/ rows'[j] = NoRow
             \/ rows'[j] \in Rows /\ rows'[j].ver > puts
  BY <1>1, <1>2, PutEffect
<1> QED
  BY <1>2, <1>3 DEF Evolves

LEMMA RemoveEvolves ==
    ASSUME EntriesIInv, NEW k \in AllKeys, Remove(k), now' = now PROVE Evolves
<1>1. TypeOK
  BY DEF EntriesIInv
<1> QED
  BY <1>1, RemoveEffect DEF Evolves, TypeOK

----------------------------------------------------------------------------
LEMMA EntriesInit == Init => EntriesIInv
<1> SUFFICES ASSUME Init PROVE EntriesIInv
  OBVIOUS
<1>1. TypeOK
  <2>1. 0 \in 0..MaxTime /\ 0 \in 0..MaxPuts /\ 0 \in 0..Interval - 1
    BY EntriesConstants
  <2> QED
    BY <2>1, NoCallTyped DEF Init, TypeOK
<1>2. Numbered /\ SearchExact
  BY NoRowFacts DEF Init, Numbered, SearchExact, Present
<1>3. ASSUME NEW p \in Servers PROVE Sound(p)
  BY NoCallTyped DEF Init, Sound
<1> QED
  BY <1>1, <1>2, <1>3 DEF EntriesIInv

\* A put that is stored: by a call of put, or by a consolidation.
LEMMA PutEndsStep == ASSUME EntriesIInv, NEW p \in Servers, PutEnds(p) PROVE EntriesIInv'
<1> DEFINE c == call[p]
<1>1. TypeOK /\ Sound(p)
  BY DEF EntriesIInv
<1>2. c.key \in AllKeys /\ c.at \in 0..MaxTime /\ c.expires \in Nat
  BY <1>1 DEF TypeOK, Calls
<1>3. /\ c.at <= c.expires /\ PutCommit(p, c.key, c.at, c.expires)
      /\ UNCHANGED <<now, summarised>> /\ Leave(p)
  BY <1>1 DEF PutEnds, Sound
<1>4. TypeOK'
  <2>1. count' \in [Servers -> 0..Interval - 1]
    BY <1>1, <1>3, CountEffect DEF PutCommit
  <2>2. /\ puts' \in 0..MaxPuts /\ summarised' \subseteq 1..puts'
        /\ rows' \in [AllKeys -> Rows \cup {NoRow}]
        /\ fts' \in [AllKeys -> SUBSET (1..MaxPuts)]
    BY <1>1, <1>2, <1>3, PutEffect DEF TypeOK
  <2> QED
    BY <1>1, <1>3, <2>1, <2>2, LeaveEffect, NoCallTyped DEF TypeOK
<1>5. Numbered' /\ SearchExact'
  BY <1>2, <1>3, PutExact
<1>6. Evolves
  BY <1>2, <1>3, PutEvolves
<1>7. ASSUME NEW q \in Servers PROVE Sound(q)'
  BY <1>1, <1>3, <1>6, LeaveEffect, OthersSound, IdleSound
<1> QED
  BY <1>4, <1>5, <1>7 DEF EntriesIInv

LEMMA StoreSummaryStep ==
    ASSUME EntriesIInv, NEW p \in Servers, StoreSummary(p) PROVE EntriesIInv'
<1> DEFINE c == call[p]
<1>1. TypeOK /\ Sound(p) /\ c \in Calls /\ Target \in AllKeys
  BY EntriesConstants DEF EntriesIInv, TypeOK
<1>2. c.at \in 0..MaxTime /\ Forever \in Nat /\ c.at <= Forever
  BY <1>1, EntriesConstants DEF Calls
<1>3. /\ PutCommit(p, Target, c.at, Forever) /\ UNCHANGED now
      /\ summarised' = summarised \cup {s[2] : s \in c.seen}
      /\ \/ pc' = [pc EXCEPT ![p] = "prune"] /\ UNCHANGED call
         \/ Leave(p)
      /\ c.seen # {}
  BY <1>1 DEF StoreSummary, TypeOK
<1>4. puts \in Int /\ puts' = puts + 1 /\ puts' \in 1..MaxPuts
  BY <1>1, <1>2, <1>3, PutEffect
<1>5. \A s \in c.seen : s[2] \in 1..puts
  BY <1>1, <1>4 DEF Calls, Sound
<1>6. TypeOK'
  <2>1. count' \in [Servers -> 0..Interval - 1]
    BY <1>1, <1>3, CountEffect DEF PutCommit
  <2>2. summarised' \subseteq 1..puts'
    <3>1. ASSUME NEW v \in summarised' PROVE v \in 1..puts
      <4>1. v \in summarised \/ \E s \in c.seen : v = s[2]
        BY <1>3
      <4> QED
        BY <1>1, <1>5, <4>1 DEF TypeOK
    <3> QED
      BY <1>4, <3>1
  <2>3. /\ rows' \in [AllKeys -> Rows \cup {NoRow}]
        /\ fts' \in [AllKeys -> SUBSET (1..MaxPuts)]
    BY <1>1, <1>2, <1>3, PutEffect
  <2>4. CASE Leave(p)
    BY <1>1, <1>3, <1>4, <2>1, <2>2, <2>3, <2>4, LeaveEffect, NoCallTyped
       DEF TypeOK
  <2>5. CASE pc' = [pc EXCEPT ![p] = "prune"] /\ UNCHANGED call
    BY <1>1, <1>3, <1>4, <2>1, <2>2, <2>3, <2>5 DEF TypeOK
  <2> QED
    BY <1>3, <2>4, <2>5
<1>7. Numbered' /\ SearchExact'
  BY <1>1, <1>2, <1>3, PutExact
<1>8. Evolves
  BY <1>1, <1>2, <1>3, PutEvolves
<1>9. ASSUME NEW q \in Servers, q # p PROVE Sound(q)'
  BY <1>1, <1>3, <1>8, <1>9, LeaveEffect, OthersSound DEF TypeOK
<1>10. Sound(p)'
  <2>1. CASE Leave(p)
    BY <1>1, <1>3, <2>1, LeaveEffect, IdleSound
  <2>2. CASE pc' = [pc EXCEPT ![p] = "prune"] /\ UNCHANGED call
    <3>1. pc'[p] = "prune" /\ call'[p] = c
      BY <1>1, <2>2 DEF TypeOK
    <3>2. ASSUME NEW s \in c.seen
          PROVE  /\ s[2] <= puts'
                 /\ rows'[s[1]] # NoRow => s[2] <= rows'[s[1]].ver
                 /\ s[2] \in summarised'
      <4>1. s[2] \in 1..puts /\ s[1] \in AllKeys
        BY <1>1, <1>5 DEF Calls
      <4>2. rows[s[1]] # NoRow => s[2] <= rows[s[1]].ver
        BY <1>1 DEF Sound
      <4>3. \/ rows'[s[1]] = rows[s[1]] \/ rows'[s[1]] = NoRow
            \/ rows'[s[1]].ver \in Int /\ rows'[s[1]].ver > puts
        BY <4>1, <1>8 DEF Evolves, Rows
      <4> QED
        BY <1>3, <1>4, <4>1, <4>2, <4>3
    <3>3. c.at <= now'
      BY <1>1, <1>3 DEF Sound
    <3> QED
      BY <3>1, <3>2, <3>3 DEF Sound
  <2> QED
    BY <1>3, <2>1, <2>2
<1> QED
  BY <1>6, <1>7, <1>9, <1>10 DEF EntriesIInv

\* The entry is deleted, with whatever call does it.
LEMMA RemoveStep ==
    ASSUME EntriesIInv, NEW k \in AllKeys, Remove(k), UNCHANGED <<now, count>>,
           NEW p \in Servers,
           \/ UNCHANGED <<pc, call>>
           \/ Leave(p)
           \/ /\ pc[p] = "prune" /\ UNCHANGED pc
              /\ \E S \in SUBSET call[p].seen :
                    S # {} /\ call' = [call EXCEPT ![p].seen = S]
    PROVE  EntriesIInv'
<1>1. TypeOK /\ Evolves
  BY RemoveEvolves DEF EntriesIInv
<1>2. Numbered' /\ SearchExact'
  BY RemoveExact
<1>3. /\ rows' \in [AllKeys -> Rows \cup {NoRow}]
      /\ fts' \in [AllKeys -> SUBSET (1..MaxPuts)]
      /\ puts' = puts /\ summarised' = summarised
  BY <1>1, RemoveEffect
<1>4. CASE UNCHANGED <<pc, call>>
  <2>1. TypeOK'
    BY <1>1, <1>3, <1>4 DEF TypeOK
  <2>2. \A q \in Servers : Sound(q)'
    BY <1>1, <1>4, OthersSound
  <2> QED
    BY <1>2, <2>1, <2>2 DEF EntriesIInv
<1>5. CASE Leave(p)
  <2>1. TypeOK'
    BY <1>1, <1>3, <1>5, LeaveEffect, NoCallTyped DEF TypeOK
  <2>2. \A q \in Servers : Sound(q)'
    BY <1>1, <1>5, LeaveEffect, OthersSound, IdleSound
  <2> QED
    BY <1>2, <2>1, <2>2 DEF EntriesIInv
<1>6. CASE /\ pc[p] = "prune" /\ UNCHANGED pc
           /\ \E S \in SUBSET call[p].seen :
                 S # {} /\ call' = [call EXCEPT ![p].seen = S]
  <2>1. PICK S \in SUBSET call[p].seen :
          S # {} /\ call' = [call EXCEPT ![p].seen = S]
    BY <1>6
  <2>2. call[p] \in Calls
    BY <1>1 DEF TypeOK
  <2>3. [call[p] EXCEPT !.seen = S] \in Calls
    BY <2>1, <2>2 DEF Calls
  <2>4. /\ call' \in [Servers -> Calls]
        /\ call'[p] = [call[p] EXCEPT !.seen = S]
        /\ \A q \in Servers : q # p => call'[q] = call[q]
    BY <1>1, <2>1, <2>3 DEF TypeOK
  <2>5. call'[p].seen = S /\ call'[p].at = call[p].at
    BY <2>2, <2>4 DEF Calls
  <2>6. TypeOK'
    BY <1>1, <1>3, <1>6, <2>1, <2>4, <2>5 DEF TypeOK
  <2>7. ASSUME NEW q \in Servers, q # p PROVE Sound(q)'
    BY <1>1, <1>6, <2>4, <2>7, OthersSound
  <2>8. Sound(p)'
    <3>1. Sound(p)
      BY DEF EntriesIInv
    <3>2. ASSUME NEW s \in S
          PROVE  /\ s[2] <= puts' /\ s[2] \in summarised'
                 /\ rows'[s[1]] # NoRow => s[2] <= rows'[s[1]].ver
      <4>1. /\ s[2] <= puts /\ s[2] \in summarised /\ s[1] \in AllKeys
            /\ rows[s[1]] # NoRow => s[2] <= rows[s[1]].ver
        BY <1>6, <2>1, <2>2, <3>1 DEF Sound, Calls
      <4>2. rows'[s[1]] = rows[s[1]] \/ rows'[s[1]] = NoRow
        BY <1>1, <4>1, RemoveEffect
      <4> QED
        BY <1>3, <4>1, <4>2
    <3>3. call'[p].at <= now' /\ pc'[p] = "prune"
      BY <1>6, <2>5, <3>1 DEF Sound
    <3> QED
      BY <2>5, <3>2, <3>3 DEF Sound
  <2> QED
    BY <1>2, <2>6, <2>7, <2>8 DEF EntriesIInv
<1> QED
  BY <1>4, <1>5, <1>6

\* The steps of a call that leave the tables alone.
LEMMA CallStep ==
    ASSUME EntriesIInv, NEW p \in Servers, UNCHANGED <<now, dbVars>>,
           count' \in [Servers -> 0..Interval - 1],
           pc' \in [Servers -> {"idle", "put", "expired", "summarise",
                                "summary", "prune"}],
           call' \in [Servers -> Calls],
           pc'[p] \in {"summarise", "summary", "prune"} => call'[p].seen # {},
           \A q \in Servers : q # p => pc'[q] = pc[q] /\ call'[q] = call[q],
           Sound(p)'
    PROVE  EntriesIInv'
<1>1. TypeOK /\ Numbered /\ SearchExact
  BY DEF EntriesIInv
<1>2. TypeOK' /\ Numbered' /\ SearchExact'
  <2>1. TypeOK'
    BY <1>1 DEF dbVars, TypeOK
  <2>2. Numbered' /\ SearchExact'
    BY <1>1 DEF dbVars, Numbered, SearchExact, Present
  <2> QED
    BY <2>1, <2>2
<1>3. Evolves
  BY <1>1 DEF dbVars, Evolves, TypeOK
<1>4. \A q \in Servers : q # p => Sound(q)'
  BY <1>3, OthersSound
<1> QED
  BY <1>2, <1>4 DEF EntriesIInv

LEMMA PutStep ==
    ASSUME EntriesIInv, NEW p \in Servers, NEW k \in AllKeys,
           NEW ttl \in Ttls \cup {Forever}, Put(p, k, ttl)
    PROVE  EntriesIInv'
<1> DEFINE c == [key |-> k, at |-> now, seen |-> {},
                 expires |-> IF ttl = Forever THEN Forever ELSE now + ttl]
<1>1. TypeOK /\ now \in 0..MaxTime
  BY DEF EntriesIInv, TypeOK
<1>2. c \in Calls /\ now <= c.expires /\ c.at = now /\ c.seen = {}
  BY <1>1, EntriesConstants DEF Calls
<1>3. /\ pc' = [pc EXCEPT ![p] = "put"] /\ call' = [call EXCEPT ![p] = c]
      /\ UNCHANGED <<now, dbVars, count>>
  BY DEF Put
<1> HIDE DEF c
<1>4. /\ pc'[p] = "put" /\ call'[p] = c /\ call' \in [Servers -> Calls]
      /\ pc' \in [Servers -> {"idle", "put", "expired", "summarise",
                              "summary", "prune"}]
      /\ \A q \in Servers : q # p => pc'[q] = pc[q] /\ call'[q] = call[q]
  BY <1>1, <1>2, <1>3 DEF TypeOK
<1>5. Sound(p)'
  BY <1>1, <1>2, <1>3, <1>4 DEF Sound
<1> QED
  BY <1>1, <1>3, <1>4, <1>5, CallStep DEF TypeOK

LEMMA FailStep == ASSUME EntriesIInv, NEW p \in Servers, WriteFails(p) PROVE EntriesIInv'
<1>1. TypeOK /\ Leave(p) /\ UNCHANGED <<now, dbVars>>
  BY DEF EntriesIInv, WriteFails
<1>2. count' \in [Servers -> 0..Interval - 1]
  <2>1. count' = count \/ count' = [count EXCEPT ![p] = (@ + 1) % Interval]
    BY DEF WriteFails
  <2> QED
    BY <1>1, <2>1, CountEffect DEF TypeOK
<1> QED
  BY <1>1, <1>2, LeaveEffect, IdleSound, CallStep

LEMMA GetExpiredStep ==
    ASSUME EntriesIInv, NEW p \in Servers, NEW k \in AllKeys, GetExpired(p, k)
    PROVE  EntriesIInv'
<1> DEFINE c == [key |-> k, at |-> 0, expires |-> 0,
                 seen |-> {<<k, rows[k].ver>>}]
<1>1. TypeOK /\ Numbered /\ rows[k] \in Rows /\ rows[k].expires < now
  BY DEF EntriesIInv, TypeOK, GetExpired, Present, ExpiredAt
<1>2. rows[k].ver \in 1..MaxPuts /\ rows[k].ver <= puts
  BY <1>1 DEF Numbered, Rows
<1>3. /\ c \in Calls /\ c.key = k /\ c.at = 0
      /\ c.seen = {<<k, rows[k].ver>>}
  <2>1. {<<k, rows[k].ver>>} \subseteq AllKeys \X (1..MaxPuts)
    <3>1. <<k, rows[k].ver>> \in AllKeys \X (1..MaxPuts)
      BY <1>2
    <3> QED
      BY <3>1
  <2>2. 0 \in 0..MaxTime /\ 0 \in Nat
    BY EntriesConstants
  <2> QED
    BY <2>1, <2>2 DEF Calls
<1>4. /\ pc' = [pc EXCEPT ![p] = "expired"] /\ call' = [call EXCEPT ![p] = c]
      /\ UNCHANGED <<now, dbVars, count>>
  BY DEF GetExpired
<1> HIDE DEF c
<1>5. /\ pc'[p] = "expired" /\ call'[p] = c /\ call' \in [Servers -> Calls]
      /\ pc' \in [Servers -> {"idle", "put", "expired", "summarise",
                              "summary", "prune"}]
      /\ \A q \in Servers : q # p => pc'[q] = pc[q] /\ call'[q] = call[q]
  BY <1>1, <1>3, <1>4 DEF TypeOK
<1>6. Sound(p)'
  <2>1. \A s \in c.seen : s[1] = k /\ s[2] = rows[k].ver
    BY <1>3
  <2>2. rows' = rows /\ puts' = puts /\ now' = now /\ 0 <= now
    BY <1>1, <1>4 DEF dbVars, TypeOK
  <2> QED
    BY <1>1, <1>2, <1>3, <1>5, <2>1, <2>2 DEF Sound, Rows
<1> QED
  BY <1>1, <1>4, <1>5, <1>6, CallStep DEF TypeOK

LEMMA ListStep == ASSUME EntriesIInv, NEW p \in Servers, List(p) PROVE EntriesIInv'
<1>1. TypeOK /\ Numbered
  BY DEF EntriesIInv
<1>2. PICK src \in SUBSET Present :
        /\ src # {}
        /\ call' = [call EXCEPT ![p] =
              [NoCall EXCEPT !.seen = {<<k, rows[k].ver>> : k \in src}]]
  BY DEF List, Oldest
<1> DEFINE looks == {<<k, rows[k].ver>> : k \in src}
           c == [NoCall EXCEPT !.seen = looks]
<1>3. \A k \in src : /\ k \in AllKeys /\ rows[k].ver \in 1..MaxPuts
                     /\ rows[k].ver <= puts
  BY <1>1 DEF Present, TypeOK, Numbered, Rows
<1>4. looks \subseteq AllKeys \X (1..MaxPuts) /\ looks # {}
  <2>1. \A k \in src : <<k, rows[k].ver>> \in AllKeys \X (1..MaxPuts)
    BY <1>3
  <2>2. PICK k \in src : TRUE
    BY <1>2
  <2>3. <<k, rows[k].ver>> \in looks
    OBVIOUS
  <2>4. looks \subseteq AllKeys \X (1..MaxPuts)
    BY <2>1
  <2> QED
    BY <2>3, <2>4
<1>5. \A s \in looks : /\ s[2] <= puts
                       /\ s[2] <= rows[s[1]].ver
  BY <1>1, <1>3 DEF TypeOK
<1> HIDE DEF looks
<1>6. c \in Calls /\ c.seen = looks /\ c.at = 0
  <2>1. c = [key |-> Target, at |-> 0, expires |-> 0, seen |-> looks]
    BY DEF NoCall
  <2>2. 0 \in 0..MaxTime
    BY EntriesConstants
  <2> QED
    BY <1>4, <2>1, <2>2, EntriesConstants DEF Calls
<1>7. call' = [call EXCEPT ![p] = c]
  BY <1>2 DEF looks
<1> HIDE DEF c
<1>8. /\ pc' = [pc EXCEPT ![p] = "summarise"]
      /\ UNCHANGED <<now, dbVars, count>>
  BY DEF List
<1>9. /\ pc'[p] = "summarise" /\ call'[p] = c /\ call' \in [Servers -> Calls]
      /\ pc' \in [Servers -> {"idle", "put", "expired", "summarise",
                              "summary", "prune"}]
      /\ \A q \in Servers : q # p => pc'[q] = pc[q] /\ call'[q] = call[q]
  BY <1>1, <1>6, <1>7, <1>8 DEF TypeOK
<1>10. Sound(p)'
  <2>1. rows' = rows /\ puts' = puts /\ now' = now /\ 0 <= now
    BY <1>1, <1>8 DEF dbVars, TypeOK
  <2> QED
    BY <1>5, <1>6, <1>9, <2>1 DEF Sound
<1> QED
  BY <1>1, <1>4, <1>6, <1>8, <1>9, <1>10, CallStep DEF TypeOK

LEMMA SummariseStep == ASSUME EntriesIInv, NEW p \in Servers, Summarise(p) PROVE EntriesIInv'
<1> DEFINE c == [call[p] EXCEPT !.at = now]
<1>1. TypeOK /\ Sound(p) /\ call[p] \in Calls /\ call[p].seen # {}
  BY DEF EntriesIInv, TypeOK, Summarise
<1>2. c \in Calls /\ c.seen = call[p].seen /\ c.at = now
  BY <1>1 DEF TypeOK, Calls
<1>3. /\ pc' = [pc EXCEPT ![p] = "summary"] /\ call' = [call EXCEPT ![p] = c]
      /\ UNCHANGED <<now, dbVars, count>>
  BY DEF Summarise
<1> HIDE DEF c
<1>4. /\ pc'[p] = "summary" /\ call'[p] = c /\ call' \in [Servers -> Calls]
      /\ pc' \in [Servers -> {"idle", "put", "expired", "summarise",
                              "summary", "prune"}]
      /\ \A q \in Servers : q # p => pc'[q] = pc[q] /\ call'[q] = call[q]
  BY <1>1, <1>2, <1>3 DEF TypeOK
<1>5. Sound(p)'
  <2>1. rows' = rows /\ puts' = puts /\ now' = now /\ now <= now
    BY <1>1, <1>3 DEF dbVars, TypeOK
  <2> QED
    BY <1>1, <1>2, <1>4, <2>1 DEF Sound
<1> QED
  BY <1>1, <1>2, <1>3, <1>4, <1>5, CallStep DEF TypeOK

LEMMA PruneStep == ASSUME EntriesIInv, NEW p \in Servers, Prune(p) PROVE EntriesIInv'
<1>1. PICK s \in call[p].seen :
        /\ Remove(s[1])
        /\ IF call[p].seen = {s} THEN Leave(p)
           ELSE /\ call' = [call EXCEPT ![p].seen = @ \ {s}]
                /\ UNCHANGED pc
  BY DEF Prune
<1>2. s[1] \in AllKeys /\ pc[p] = "prune" /\ UNCHANGED <<now, count>>
  BY DEF EntriesIInv, TypeOK, Calls, Prune
<1>3. CASE call[p].seen = {s}
  BY <1>1, <1>2, <1>3, RemoveStep
<1>4. CASE call[p].seen # {s}
  <2> DEFINE S == call[p].seen \ {s}
  <2>1. S \in SUBSET call[p].seen /\ S # {}
    BY <1>4
  <2>2. call' = [call EXCEPT ![p].seen = S] /\ UNCHANGED pc
    BY <1>1, <1>4
  <2> QED
    BY <1>1, <1>2, <2>1, <2>2, RemoveStep
<1> QED
  BY <1>3, <1>4

LEMMA TickStep == ASSUME EntriesIInv, Tick PROVE EntriesIInv'
<1>1. TypeOK /\ Numbered /\ SearchExact /\ now \in Int
  BY DEF EntriesIInv, TypeOK
<1>2. now' = now + 1 /\ now' \in 0..MaxTime
      /\ UNCHANGED <<dbVars, count, pc, call>>
  BY <1>1, EntriesConstants DEF Tick, TypeOK
<1>3. TypeOK' /\ Numbered' /\ SearchExact'
  BY <1>1, <1>2 DEF dbVars, TypeOK, Numbered, SearchExact, Present
<1>4. ASSUME NEW p \in Servers PROVE Sound(p)'
  <2>1. Sound(p) /\ call[p] \in Calls
    BY <1>1 DEF EntriesIInv, TypeOK
  <2>2. \A k \in AllKeys : rows[k].expires \in Int
    BY <1>1 DEF TypeOK, Rows, NoRow
  <2>3. call[p].key \in AllKeys /\ call[p].at \in Int
    BY <2>1 DEF Calls
  <2> QED
    BY <1>1, <1>2, <2>1, <2>2, <2>3 DEF Sound, dbVars
<1> QED
  BY <1>3, <1>4 DEF EntriesIInv

LEMMA EntriesStep == EntriesIInv /\ [Next]_vars => EntriesIInv'
<1> SUFFICES ASSUME EntriesIInv, [Next]_vars PROVE EntriesIInv'
  OBVIOUS
<1>1. ASSUME NEW p \in Servers, Serve(p) PROVE EntriesIInv'
  <2>1. ASSUME NEW k \in AllKeys, Delete(p, k) PROVE EntriesIInv'
    BY <2>1, RemoveStep DEF Delete
  <2>2. CASE GetDelete(p)
    <3>1. call[p].key \in AllKeys
      BY DEF EntriesIInv, TypeOK, Calls
    <3> QED
      BY <2>2, <3>1, RemoveStep DEF GetDelete
  <2> QED
    BY <1>1, <2>1, <2>2, PutStep, PutEndsStep, FailStep, GetExpiredStep,
       ListStep, SummariseStep, StoreSummaryStep, PruneStep DEF Serve
<1>2. CASE UNCHANGED vars
  <2>1. TypeOK' /\ Numbered' /\ SearchExact'
    BY <1>2 DEF vars, dbVars, EntriesIInv, TypeOK, Numbered, SearchExact, Present
  <2>2. \A p \in Servers : Sound(p)'
    BY <1>2 DEF vars, dbVars, EntriesIInv, Sound
  <2> QED
    BY <2>1, <2>2 DEF EntriesIInv
<1> QED
  BY <1>1, <1>2, TickStep DEF Next

THEOREM EntriesInvariant == Spec => []EntriesIInv
BY EntriesInit, EntriesStep, PTL DEF Spec

\* The types of the tables and of the calls.
THEOREM EntriesTyped == Spec => []TypeOK
BY EntriesInvariant, PTL DEF EntriesIInv

\* Every entry has exactly its search row, and no search row is left behind.
THEOREM EntriesSearchExact == Spec => []SearchExact
BY EntriesInvariant, PTL DEF EntriesIInv

----------------------------------------------------------------------------
\* What may have happened to an entry that has not expired.
Explained(k) ==
    \/ \E p \in Servers : Delete(p, k)
    \/ rows[k].ver \in summarised
    \/ \E p \in Servers : LookedBefore(p, k) /\ (GetDelete(p) \/ Prune(p))

\* A put, with its clean-up, takes no entry that has not expired.
LEMMA PutSpares ==
    ASSUME EntriesIInv, NEW p \in Servers, NEW j \in AllKeys, NEW at \in 0..MaxTime,
           NEW until \in Nat, at <= until, PutCommit(p, j, at, until),
           at <= now, NEW k \in AllKeys, Live(k)
    PROVE  rows'[k] # NoRow
<1>1. TypeOK /\ rows[k] # NoRow /\ ~(rows[k].expires < now)
  BY DEF EntriesIInv, Live, Present, ExpiredAt
<1>2. CASE k = j
  BY <1>1, <1>2, PutEffect, NoRowFacts
<1>3. CASE k # j
  <2>1. rows[k].expires \in Int /\ now \in Int
    BY <1>1 DEF TypeOK, Rows
  <2>2. rows'[k] = rows[k] \/ rows[k].expires < at
    BY <1>1, <1>3, PutEffect
  <2> QED
    BY <1>1, <2>1, <2>2
<1> QED
  BY <1>2, <1>3

LEMMA LossStep ==
    ASSUME EntriesIInv, Next, NEW k \in AllKeys, Live(k), rows'[k] = NoRow
    PROVE  Explained(k)
<1>1. TypeOK /\ rows[k] # NoRow /\ rows[k] \in Rows
      /\ ~(rows[k].expires < now)
  BY DEF EntriesIInv, TypeOK, Live, Present, ExpiredAt
<1>2. rows' # rows
  BY <1>1
<1>3. PICK p \in Servers : Serve(p)
  BY <1>2 DEF Next, Tick, dbVars
<1>4. Sound(p) /\ call[p] \in Calls
  BY DEF EntriesIInv, TypeOK
<1>5. ASSUME NEW j \in AllKeys, Delete(p, j) PROVE Explained(k)
  <2>1. j = k
    BY <1>1, <1>5, RemoveEffect DEF Delete
  <2> QED
    BY <1>5, <2>1 DEF Explained
<1>6. CASE PutEnds(p)
  <2>1. /\ call[p].key \in AllKeys /\ call[p].at \in 0..MaxTime
        /\ call[p].expires \in Nat /\ call[p].at <= call[p].expires
        /\ call[p].at <= now
    BY <1>4, <1>6 DEF PutEnds, Sound, Calls
  <2> QED
    BY <1>6, <2>1, PutSpares DEF PutEnds
<1>7. CASE StoreSummary(p)
  <2>1. /\ call[p].at \in 0..MaxTime /\ call[p].at <= now
        /\ Forever \in Nat /\ call[p].at <= Forever /\ Target \in AllKeys
    BY <1>4, EntriesConstants DEF Sound, Calls
  <2> QED
    BY <1>7, <2>1, PutSpares DEF StoreSummary
<1>8. CASE GetDelete(p)
  <2>1. call[p].key \in AllKeys /\ Remove(call[p].key)
    BY <1>4, <1>8 DEF GetDelete, Calls
  <2>2. call[p].key = k
    BY <1>1, <2>1, RemoveEffect
  <2>3. PICK v \in 1..MaxPuts :
          /\ call[p].seen = {<<k, v>>}
          /\ rows[k].ver = v => rows[k].expires < now
    BY <1>4, <1>8, <2>2 DEF GetDelete, Sound
  <2>4. v <= rows[k].ver /\ rows[k].ver # v /\ rows[k].ver \in Int
    BY <1>1, <1>4, <2>3 DEF Sound, Rows
  <2>5. LookedBefore(p, k)
    <3>1. <<k, v>> \in call[p].seen
      BY <2>3
    <3>2. v < rows[k].ver
      BY <2>4
    <3> QED
      BY <3>1, <3>2 DEF LookedBefore
  <2> QED
    BY <1>8, <2>5 DEF Explained
<1>9. CASE Prune(p)
  <2>1. PICK s \in call[p].seen : Remove(s[1])
    BY <1>9 DEF Prune
  <2>2. s[1] \in AllKeys /\ s[2] \in Int
    BY <1>4 DEF Calls
  <2>3. s[1] = k
    BY <1>1, <2>1, <2>2, RemoveEffect
  <2>4. s[2] <= rows[k].ver /\ rows[k].ver \in Int /\ s[2] \in summarised
    BY <1>1, <1>4, <1>9, <2>3 DEF Sound, Rows, Prune
  <2>5. CASE s[2] = rows[k].ver
    BY <2>4, <2>5 DEF Explained
  <2>6. CASE s[2] # rows[k].ver
    BY <1>9, <2>2, <2>3, <2>4, <2>6 DEF LookedBefore, Explained
  <2> QED
    BY <2>5, <2>6
<1>10. CASE WriteFails(p) \/ List(p) \/ Summarise(p)
  BY <1>2, <1>10 DEF WriteFails, List, Summarise, dbVars
<1>11. ASSUME NEW j \in AllKeys, GetExpired(p, j) PROVE FALSE
  BY <1>2, <1>11 DEF GetExpired, dbVars
<1>12. ASSUME NEW j \in AllKeys, NEW ttl \in Ttls \cup {Forever}, Put(p, j, ttl)
       PROVE  FALSE
  BY <1>2, <1>12 DEF Put, dbVars
<1> QED
  BY <1>3, <1>5, <1>6, <1>7, <1>8, <1>9, <1>10, <1>11, <1>12 DEF Serve

\* An entry that has not expired goes only on request, into a summary, or by a
\* deletion that was decided before it was put.
THEOREM EntriesLossExplained == Spec => LiveLossExplained
<1>1. EntriesIInv /\ [Next]_vars =>
          [\A k \in AllKeys :
              Live(k) /\ rows'[k] = NoRow =>
                  \/ \E p \in Servers : Delete(p, k)
                  \/ rows[k].ver \in summarised
                  \/ \E p \in Servers :
                        LookedBefore(p, k) /\ (GetDelete(p) \/ Prune(p))]_vars
  <2> SUFFICES ASSUME EntriesIInv, Next, NEW k \in AllKeys, Live(k), rows'[k] = NoRow
               PROVE  Explained(k)
    BY DEF Explained
  <2> QED
    BY LossStep
<1> QED
  BY <1>1, EntriesInvariant, PTL DEF Spec, LiveLossExplained

----------------------------------------------------------------------------
(* MemoryMigration: no start that fails or crashes loses a row, for any     *)
(* rows, keys and starting processes.  The argument: as long as one        *)
(* process migrates at a time, the first backup is made of the untouched   *)
(* table and never overwritten (InFirst), so that a table without it still *)
(* holds all rows that are not excused (InTable), and a process that has   *)
(* dropped the tables holds every row in memory (Held).                    *)

MigrationShape ==
    /\ version \in {2, 3} /\ table \subseteq Old /\ main \subseteq Old
    /\ search \in [Old -> Nat]
    /\ backups \in [Names -> (SUBSET Old) \cup {NoFile}]
    /\ clock \in 0..MaxClock
    /\ step \in [Starters -> Migrating \cup {"down", "ready", "refusing"}]
    /\ held \in [Starters -> SUBSET Old] /\ name \in [Starters -> Names]
    /\ unsaved \subseteq Old

OneMigrates ==
    \A p \in Starters : step[p] \in Migrating =>
        /\ version = 2
        /\ \A q \in Starters : step[q] \in Migrating => q = p

InFirst == backups[Plain] # NoFile => Old \ unsaved \subseteq backups[Plain]

InTable ==
    /\ backups[Plain] = NoFile => Old \ unsaved \subseteq table
    /\ \A p \in Starters :
          /\ step[p] = "copy" => (name[p] = Plain <=> backups[Plain] = NoFile)
          /\ step[p] \in {"read", "drop", "insert"} /\ backups[Plain] = NoFile
             => Old \subseteq unsaved

Alone == OneMigrates /\ InFirst /\ InTable

Whole ==
    \A r \in Old :
        Cardinality({s \in table : RowKey[s] = RowKey[r]}) = 1 /\ search[r] = 1

\* What a process that migrates holds, before and after the drop.
Held ==
    /\ \A p \in Starters :
          /\ step[p] = "drop" => held[p] = table
          /\ step[p] = "insert" =>
                held[p] = Old /\ table = {} /\ \A r \in Old : search[r] = 0
    /\ version = 2 /\ (\A p \in Starters : step[p] # "insert") =>
          table = Old /\ \A r \in Old : search[r] = 1
    /\ version = 3 => Whole

MigrationInv ==
    MigrationShape /\ (~together => Alone /\ (~cut => Held))

LEMMA MigrationConstants ==
    /\ MaxClock \in Nat /\ Plain \in Names /\ NoFile \notin SUBSET Old
    /\ 0..MaxClock \subseteq Names /\ Plain \notin 0..MaxClock
  BY MigrationAssumption DEF MigrationAssumption, Names

LEMMA MigrationInit_Inv == MigrationInit => MigrationInv
<1> SUFFICES ASSUME MigrationInit PROVE MigrationInv
  OBVIOUS
<1> USE MigrationConstants DEF MigrationInit
<1>1. MigrationShape
  BY DEF MigrationShape
<1>2. Alone
  BY DEF Alone, OneMigrates, Migrating, InFirst, InTable
<1>3. Held
  BY DEF Held
<1> QED
  BY <1>1, <1>2, <1>3 DEF MigrationInv

----------------------------------------------------------------------------
LEMMA MigrationShapeStep ==
    ASSUME MigrationShape, MigrationNext PROVE MigrationShape'
<1> USE MigrationConstants DEF MigrationShape, fileVars, history, Goto, Migrating
<1>1. ASSUME NEW p \in Starters, StartStore(p) PROVE MigrationShape'
  BY <1>1 DEF StartStore, Names
<1>2. ASSUME NEW p \in Starters, ChooseBackup(p) PROVE MigrationShape'
  <2>1. name' \in [Starters -> Names]
    BY <1>2 DEF ChooseBackup
  <2> QED
    BY <1>2, <2>1 DEF ChooseBackup, Names
<1>3. ASSUME NEW p \in Starters, CopyFile(p) PROVE MigrationShape'
  <2>1. PICK copied \in {main, {}, NoFile} :
          /\ backups' = IF copied = NoFile THEN backups
                        ELSE [backups EXCEPT ![name[p]] = copied]
          /\ unsaved' = unsaved \cup (table \ (IF copied = NoFile THEN {} ELSE copied))
    BY <1>3 DEF CopyFile
  <2>2. backups' \in [Names -> (SUBSET Old) \cup {NoFile}] /\ unsaved' \subseteq Old
    BY <2>1
  <2>3. /\ UNCHANGED <<version, table, search, main, clock, held, name>>
        /\ step' = [step EXCEPT ![p] = "read"]
    BY <1>3 DEF CopyFile
  <2> QED
    BY <2>2, <2>3 DEF Names
<1>4. ASSUME NEW p \in Starters, ReadRows(p) PROVE MigrationShape'
  BY <1>4 DEF ReadRows, Names
<1>5. ASSUME NEW p \in Starters, DropTables(p) PROVE MigrationShape'
  BY <1>5 DEF DropTables, Names
<1>6. ASSUME NEW p \in Starters, InsertRows(p) PROVE MigrationShape'
  <2>1. table' \subseteq Old
    BY <1>6 DEF InsertRows
  <2>2. search' \in [Old -> Nat]
    BY <1>6 DEF InsertRows
  <2>3. /\ UNCHANGED <<main, backups, clock, name, unsaved>> /\ version' = 3
        /\ held' = [held EXCEPT ![p] = {}] /\ step' = [step EXCEPT ![p] = "ready"]
    BY <1>6 DEF InsertRows
  <2> QED
    BY <2>1, <2>2, <2>3 DEF Names
<1>7. ASSUME NEW p \in Starters, MigrationFails(p) \/ Stop(p) PROVE MigrationShape'
  BY <1>7 DEF MigrationFails, Stop, Names
<1>8. CASE Checkpoint \/ ClockMoves
  BY <1>8 DEF Checkpoint, ClockMoves, Names
<1> QED
  BY <1>1, <1>2, <1>3, <1>4, <1>5, <1>6, <1>7, <1>8 DEF MigrationNext

\* Every state of the migration is well typed.
THEOREM MigrationTyped == MigrationSpec => []MigrationTypeOK
<1>1. MigrationInit => MigrationShape
  BY MigrationInit_Inv DEF MigrationInv
<1>2. MigrationShape /\ [MigrationNext]_migrationVars => MigrationShape'
  <2>1. MigrationShape /\ UNCHANGED migrationVars => MigrationShape'
    BY DEF MigrationShape, migrationVars, fileVars, history, Names
  <2> QED
    BY <2>1, MigrationShapeStep
<1>3. MigrationShape => MigrationTypeOK
  BY DEF MigrationShape, MigrationTypeOK
<1> QED
  BY <1>1, <1>2, <1>3, PTL DEF MigrationSpec
----------------------------------------------------------------------------
\* A start while nobody migrates.
LEMMA StartKeeps ==
    ASSUME MigrationShape, NEW p \in Starters, StartStore(p),
           version < 3 => \A q \in Starters : step[q] \notin Migrating
    PROVE  /\ Alone => Alone'
           /\ Alone /\ Held => Held'
<1>1. /\ step' = [step EXCEPT ![p] = IF version < 3 THEN "choose" ELSE "ready"]
      /\ UNCHANGED <<version, table, search, backups, held, name, unsaved>>
  BY DEF StartStore, Goto, fileVars
<1>2. /\ \A q \in Starters \ {p} : step'[q] = step[q]
      /\ step'[p] = IF version < 3 THEN "choose" ELSE "ready"
  BY <1>1 DEF MigrationShape
<1>3. Alone => OneMigrates'
  BY <1>1, <1>2 DEF Alone, OneMigrates, Migrating, MigrationShape
<1>4. Alone => InFirst' /\ InTable'
  BY <1>1, <1>2 DEF Alone, InFirst, InTable
<1>5. step[p] # "insert"
  BY DEF StartStore
<1>6. Held => Held'
  BY <1>1, <1>2, <1>5 DEF Held, Whole
<1> QED
  BY <1>3, <1>4, <1>6 DEF Alone

\* Before the drop.
LEMMA ChooseKeeps ==
    ASSUME MigrationShape, Alone, NEW p \in Starters, ChooseBackup(p) \/ ReadRows(p)
    PROVE  Alone' /\ (Held => Held')
<1>1. /\ UNCHANGED <<version, table, search, backups, unsaved>>
      /\ \A q \in Starters \ {p} : step'[q] = step[q]
      /\ step[p] \in {"choose", "read"} /\ step'[p] \in {"copy", "drop"}
      /\ step[p] = "read" => step'[p] = "drop" /\ held'[p] = table /\ name' = name
      /\ step[p] = "choose" =>
            /\ step'[p] = "copy" /\ held' = held
            /\ name'[p] = (IF backups[Plain] = NoFile THEN Plain ELSE clock)
  BY DEF ChooseBackup, ReadRows, Goto, fileVars, history, MigrationShape
<1>2. /\ version = 2 /\ step[p] \in Migrating
      /\ \A q \in Starters \ {p} : step[q] \notin Migrating
  BY <1>1 DEF Alone, OneMigrates, Migrating
<1>3. \A q \in Starters \ {p} : step'[q] \notin Migrating
  BY <1>1, <1>2
<1>4. clock # Plain
  BY MigrationConstants DEF MigrationShape
<1>5. OneMigrates'
  BY <1>1, <1>2, <1>3 DEF OneMigrates
<1>6. InFirst' /\ InTable'
  BY <1>1, <1>3, <1>4 DEF Alone, InFirst, InTable, Migrating
<1>7. Held => Held'
  BY <1>1, <1>2, <1>3 DEF Held, Migrating
<1> QED
  BY <1>5, <1>6, <1>7 DEF Alone

LEMMA CopyKeeps ==
    ASSUME MigrationShape, Alone, NEW p \in Starters, CopyFile(p)
    PROVE  Alone' /\ (Held => Held')
<1>1. PICK copied \in {main, {}, NoFile} :
         /\ backups' = IF copied = NoFile THEN backups
                       ELSE [backups EXCEPT ![name[p]] = copied]
         /\ unsaved' = unsaved \cup (table \ (IF copied = NoFile THEN {} ELSE copied))
  BY DEF CopyFile
<1>2. /\ UNCHANGED <<version, table, search, held, name>>
      /\ step[p] = "copy" /\ step'[p] = "read"
      /\ \A q \in Starters \ {p} : step'[q] = step[q]
  BY DEF CopyFile, Goto, fileVars, MigrationShape
<1>3. /\ version = 2
      /\ \A q \in Starters \ {p} : step[q] \notin Migrating
      /\ name[p] = Plain <=> backups[Plain] = NoFile
  BY <1>2 DEF Alone, OneMigrates, InTable, Migrating
<1>4. \A q \in Starters \ {p} : step'[q] \notin Migrating
  BY <1>2, <1>3
<1>5. OneMigrates'
  BY <1>2, <1>3, <1>4 DEF OneMigrates
<1>6. /\ InFirst'
      /\ backups'[Plain] = NoFile => Old \subseteq unsaved'
  <2>1. CASE backups[Plain] # NoFile
    <3>1. backups'[Plain] = backups[Plain] /\ unsaved \subseteq unsaved'
      BY <1>1, <1>3, <2>1, MigrationConstants DEF MigrationShape
    <3> QED
      BY <2>1, <3>1 DEF Alone, InFirst
  <2>2. CASE backups[Plain] = NoFile /\ copied = NoFile
    BY <1>1, <2>2 DEF Alone, InFirst, InTable
  <2>3. CASE backups[Plain] = NoFile /\ copied # NoFile
    <3>1. backups'[Plain] = copied /\ Old \ unsaved \subseteq table
      BY <1>1, <1>3, <2>3, MigrationConstants DEF MigrationShape, Alone, InTable
    <3> QED
      BY <1>1, <2>3, <3>1 DEF InFirst
  <2> QED
    BY <2>1, <2>2, <2>3
<1>7. InTable'
  BY <1>2, <1>4, <1>6 DEF InTable, Migrating
<1>8. Held => Held'
  BY <1>2, <1>3, <1>4 DEF Held, Migrating
<1> QED
  BY <1>5, <1>6, <1>7, <1>8 DEF Alone

LEMMA DropKeeps ==
    ASSUME MigrationShape, Alone, NEW p \in Starters, DropTables(p)
    PROVE  Alone' /\ (Held => Held')
<1>1. /\ UNCHANGED <<version, backups, held, name, unsaved>>
      /\ table' = {} /\ search' = [r \in Old |-> 0]
      /\ step[p] = "drop" /\ step'[p] = "insert"
      /\ \A q \in Starters \ {p} : step'[q] = step[q]
  BY DEF DropTables, Goto, history, MigrationShape
<1>2. /\ version = 2
      /\ \A q \in Starters \ {p} : step[q] \notin Migrating
      /\ backups[Plain] = NoFile => Old \subseteq unsaved
  BY <1>1 DEF Alone, OneMigrates, InTable, Migrating
<1>3. \A q \in Starters \ {p} : step'[q] \notin Migrating
  BY <1>1, <1>2
<1>4. Alone'
  BY <1>1, <1>2, <1>3 DEF Alone, OneMigrates, InFirst, InTable, Migrating
<1>5. Held => held[p] = Old
  BY <1>1, <1>2 DEF Held, Migrating
<1>6. Held => Held'
  BY <1>1, <1>2, <1>3, <1>5 DEF Held, Migrating
<1> QED
  BY <1>4, <1>6

\* The last of the rows with one key stays: every key has one entry.
LEMMA InsertWhole ==
    ASSUME MigrationShape, NEW p \in Starters, InsertRows(p),
           held[p] = Old, table = {}, \A r \in Old : search[r] = 0
    PROVE  /\ \A r \in Old : Cardinality({s \in table' : RowKey[s] = RowKey[r]}) = 1
           /\ \A r \in Old : search'[r] = 1
<1>1. PICK stays \in SUBSET Old :
         /\ {RowKey[r] : r \in stays} = {RowKey[r] : r \in Old}
         /\ \A r, s \in stays : RowKey[r] = RowKey[s] => r = s
         /\ table' = stays \cup {r \in table : \A s \in stays : RowKey[r] # RowKey[s]}
  BY DEF InsertRows
<1>2. table' = stays
  BY <1>1
<1>3. ASSUME NEW r \in Old PROVE Cardinality({s \in table' : RowKey[s] = RowKey[r]}) = 1
  <2>1. RowKey[r] \in {RowKey[s] : s \in stays}
    BY <1>1
  <2>2. PICK s \in stays : RowKey[s] = RowKey[r]
    BY <2>1
  <2>3. {t \in table' : RowKey[t] = RowKey[r]} = {s}
    BY <1>1, <1>2, <2>2
  <2> QED
    BY <2>3, FS_Singleton
<1>4. \A r \in Old : search'[r] = 1
  BY DEF InsertRows
<1> QED
  BY <1>3, <1>4

LEMMA InsertKeeps ==
    ASSUME MigrationShape, Alone, NEW p \in Starters, InsertRows(p)
    PROVE  Alone' /\ (Held => Held')
<1>1. /\ UNCHANGED <<backups, name, unsaved>>
      /\ version' = 3 /\ step[p] = "insert" /\ step'[p] = "ready"
      /\ \A q \in Starters \ {p} : step'[q] = step[q]
  BY DEF InsertRows, Goto, history, MigrationShape
<1>2. /\ \A q \in Starters \ {p} : step[q] \notin Migrating
      /\ backups[Plain] = NoFile => Old \subseteq unsaved
  BY <1>1 DEF Alone, OneMigrates, InTable, Migrating
<1>3. \A q \in Starters : step'[q] \notin Migrating
  BY <1>1, <1>2 DEF Migrating
<1>4. Alone'
  BY <1>1, <1>2, <1>3 DEF Alone, OneMigrates, InFirst, InTable, Migrating
<1>5. Held => Whole'
  BY <1>1, InsertWhole DEF Held, Whole
<1>6. Held => Held'
  BY <1>1, <1>3, <1>5 DEF Held, Migrating
<1> QED
  BY <1>4, <1>6

\* A start that ends anywhere but between the drop and the insertion.
LEMMA EndKeeps ==
    ASSUME MigrationShape, Alone, NEW p \in Starters, MigrationFails(p) \/ Stop(p)
    PROVE  Alone' /\ (Held /\ step[p] # "insert" => Held')
<1>1. /\ UNCHANGED <<version, table, search, backups, name, unsaved>>
      /\ step'[p] \in {"refusing", "down"}
      /\ \A q \in Starters \ {p} : step'[q] = step[q] /\ held'[q] = held[q]
  BY DEF MigrationFails, Stop, Goto, fileVars, MigrationShape
<1>2. step'[p] \notin Migrating
  BY <1>1 DEF Migrating
<1>3. Alone'
  BY <1>1, <1>2 DEF Alone, OneMigrates, InFirst, InTable, Migrating
<1>4. Held /\ step[p] # "insert" => Held'
  BY <1>1 DEF Held, Whole
<1> QED
  BY <1>3, <1>4

LEMMA QuietKeeps ==
    ASSUME UNCHANGED <<version, table, search, backups, step, held, name, unsaved>>
    PROVE  (Alone => Alone') /\ (Held => Held')
  BY DEF Alone, OneMigrates, InFirst, InTable, Held, Whole, Migrating

LEMMA MigrationStep == MigrationInv /\ [MigrationNext]_migrationVars => MigrationInv'
<1> SUFFICES ASSUME MigrationInv, [MigrationNext]_migrationVars PROVE MigrationInv'
  OBVIOUS
<1>0. MigrationShape
  BY DEF MigrationInv
<1>s. MigrationShape'
  <2>1. UNCHANGED migrationVars => MigrationShape'
    BY <1>0 DEF MigrationShape, migrationVars, fileVars, history, Names
  <2> QED
    BY <1>0, <2>1, MigrationShapeStep
\* A step that keeps what it needs keeps the rest.
<1>1. ASSUME together' = together, Alone => Alone',
             ~together /\ ~cut' => ~cut /\ (Alone /\ Held => Held')
      PROVE  MigrationInv'
  BY <1>1, <1>s, Zenon DEF MigrationInv
<1>2. ASSUME NEW p \in Starters, StartStore(p) PROVE MigrationInv'
  <2>1. cut' = cut
    BY <1>2 DEF StartStore
  <2>2. CASE version < 3 /\ \E q \in Starters : step[q] \in Migrating
    <3>1. together'
      BY <1>2, <2>2, Zenon DEF StartStore
    <3> QED
      BY <1>s, <3>1, Zenon DEF MigrationInv
  <2>3. CASE version < 3 => \A q \in Starters : step[q] \notin Migrating
    <3>1. (Alone => Alone') /\ (Alone /\ Held => Held')
      BY <1>0, <1>2, <2>3, StartKeeps
    <3>2. ~together' => ~together
      BY <1>2, Zenon DEF StartStore
    <3> QED
      BY <1>s, <2>1, <3>1, <3>2, Zenon DEF MigrationInv
  <2> QED
    BY <2>2, <2>3
<1>3. ASSUME NEW p \in Starters,
             ChooseBackup(p) \/ CopyFile(p) \/ ReadRows(p) \/ DropTables(p)
             \/ InsertRows(p)
      PROVE  MigrationInv'
  <2>1. together' = together /\ cut' = cut
    BY <1>3, Zenon DEF ChooseBackup, CopyFile, ReadRows, DropTables, InsertRows, history
  <2>2. Alone => Alone' /\ (Held => Held')
    BY <1>0, <1>3, ChooseKeeps, CopyKeeps, DropKeeps, InsertKeeps
  <2> QED
    BY <1>1, <2>1, <2>2, Zenon
<1>4. ASSUME NEW p \in Starters, MigrationFails(p) \/ Stop(p) PROVE MigrationInv'
  <2>1. together' = together /\ cut' = (cut \/ step[p] = "insert")
    BY <1>4, Zenon DEF MigrationFails, Stop
  <2>2. Alone => Alone' /\ (Held /\ step[p] # "insert" => Held')
    BY <1>0, <1>4, EndKeeps
  <2> QED
    BY <1>1, <2>1, <2>2, Zenon
<1>5. ASSUME Checkpoint \/ ClockMoves \/ UNCHANGED migrationVars PROVE MigrationInv'
  <2>1. together' = together /\ cut' = cut
    BY <1>5, Zenon DEF Checkpoint, ClockMoves, migrationVars, history
  <2>2. UNCHANGED <<version, table, search, backups, step, held, name, unsaved>>
    BY <1>5 DEF Checkpoint, ClockMoves, migrationVars, fileVars, history
  <2>3. (Alone => Alone') /\ (Held => Held')
    BY <2>2, QuietKeeps
  <2> QED
    BY <1>1, <2>1, <2>3, Zenon
<1> QED
  BY <1>2, <1>3, <1>4, <1>5 DEF MigrationNext

\* For any rows, keys and number of processes, wherever starts fail and crash,
\* no row is without a copy on disk, and a migrated table is whole, unless two
\* processes migrate at once.
THEOREM MigrationLosesNoRow == MigrationSpec => []NoRowLost
<1>1. MigrationInv => NoRowLost
  <2> SUFFICES ASSUME MigrationInv, ~together PROVE RowsStayOnDisk /\ MigratedWhole
    BY Zenon DEF NoRowLost
  <2>1. Alone /\ (~cut => Held)
    BY Zenon DEF MigrationInv
  <2>2. RowsStayOnDisk
    BY <2>1, MigrationConstants DEF Alone, InFirst, InTable, RowsStayOnDisk
  <2>3. MigratedWhole
    <3> SUFFICES ASSUME version = 3, ~cut PROVE Whole
      BY Zenon DEF MigratedWhole, Whole
    <3>1. Held
      BY <2>1, Zenon
    <3> QED
      BY <3>1 DEF Held
  <2> QED
    BY <2>2, <2>3
<1> QED
  BY <1>1, MigrationInit_Inv, MigrationStep, PTL DEF MigrationSpec

----------------------------------------------------------------------------
(* The database: its parts take turns and share no variable, so that what  *)
(* is proved of each part holds of the whole.                              *)

LEMMA MemoryParts == MemorySpec => LocksSpec /\ Spec /\ MigrationSpec
<1>1. MemoryInit => LocksInit /\ Init /\ MigrationInit
  BY DEF MemoryInit
<1>2. [MemoryNext /\ UNCHANGED part]_memoryVars =>
          [LocksNext]_lockVars /\ [Next]_vars /\ [MigrationNext]_migrationVars
  BY DEF MemoryNext, memoryVars
<1> QED
  BY <1>1, <1>2, PTL DEF MemorySpec, LocksSpec, Spec, MigrationSpec

\* Every table of the shared memory database is well typed, whichever moves.
THEOREM MemoryTyped == MemorySpec => []MemoryTypeOK
<1>1. LocksTypeOK /\ TypeOK /\ MigrationTypeOK => MemoryTypeOK
  BY DEF MemoryTypeOK
<1> QED
  BY <1>1, MemoryParts, LocksTyped, EntriesTyped, MigrationTyped, PTL
=============================================================================
