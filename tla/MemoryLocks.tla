---------------------------- MODULE MemoryLocks ----------------------------
(***************************************************************************)
(* The lock table of the shared memory database (MemoryStore.lock, unlock, *)
(* revoke_agent_locks, revoke_all_locks).  Sessions in any number of       *)
(* server processes call it under the identity of their agent.  A lock     *)
(* call reads the clock first and then waits for the write lock of the     *)
(* database, at most Wait (busy_timeout): what it writes is computed from  *)
(* the clock it read, what it answers (expires_in_sec) counts from the     *)
(* moment the answer arrives.                                              *)
(***************************************************************************)
EXTENDS Integers

CONSTANTS
    Sessions, Agents,
    AgentOf,     \* the identity each session calls with
    NoAgent,     \* the resource has no row
    Resources,
    LockTtls,    \* timeout_sec a caller may pass; the code accepts any integer
    Wait,        \* busy_timeout: a call commits or fails within it
    LastTime     \* bound of the model: the clock stops here

ASSUME LocksAssumption ==
    /\ AgentOf \in [Sessions -> Agents]
    /\ NoAgent \notin Agents
    /\ LockTtls \subseteq Int
    /\ Wait \in Nat /\ LastTime \in Nat

VARIABLES
    time,
    owner, expires,  \* the row of each resource
    calls,       \* lock calls in flight: what each session's call captured
    till         \* until when an agent trusts its lock, from its answers

lockRows == <<owner, expires>>
lockVars == <<time, owner, expires, calls, till>>

LockCalls == [session : Sessions, key : Resources, ttl : LockTtls, at : 0..LastTime]

Lesser(m, n) == IF m < n THEN m ELSE n

----------------------------------------------------------------------------
LockCall(s) ==
    /\ \A c \in calls : c.session # s
    /\ \E k \in Resources, ttl \in LockTtls :
          calls' = calls \cup
                       {[session |-> s, key |-> k, ttl |-> ttl, at |-> time]}
    /\ UNCHANGED <<time, lockRows, till>>

\* Mutant of Free: the row's expiry is compared with the new one.
FreeBeforeExpiry(c) ==
    \/ owner[c.key] = NoAgent
    \/ expires[c.key] <= c.at + c.ttl
    \/ owner[c.key] = AgentOf[c.session]

\* The WHERE of the upsert: no row, an expired one, or the caller's own.
Free(c) ==
    \/ owner[c.key] = NoAgent
    \/ expires[c.key] <= c.at
    \/ owner[c.key] = AgentOf[c.session]

\* Mutant of Acquire: a renewal does not touch the expiry.
AcquireOnce(c) ==
    /\ owner' = [owner EXCEPT ![c.key] = AgentOf[c.session]]
    /\ expires' = [expires EXCEPT ![c.key] =
                       IF owner[c.key] = AgentOf[c.session] THEN @
                       ELSE c.at + c.ttl]

Acquire(c) ==
    /\ owner' = [owner EXCEPT ![c.key] = AgentOf[c.session]]
    /\ expires' = [expires EXCEPT ![c.key] = c.at + c.ttl]

Answer(c) == calls' = calls \ {c}

LockGranted(c) ==
    /\ Free(c)
    /\ Acquire(c)
    /\ till' = [till EXCEPT ![AgentOf[c.session]][c.key] = time + c.ttl]
    /\ Answer(c)
    /\ UNCHANGED time

\* Committed, but the process or the client dies before the answer: the agent
\* keeps what it had, unless it knows that it asked for less.
LockGrantLost(c) ==
    /\ Free(c)
    /\ Acquire(c)
    /\ till' = [till EXCEPT ![AgentOf[c.session]][c.key] =
                    Lesser(@, time + c.ttl)]
    /\ Answer(c)
    /\ UNCHANGED time

LockDenied(c) ==
    /\ ~Free(c)
    /\ Answer(c)
    /\ UNCHANGED <<time, lockRows, till>>

\* "database is locked", or the process dies before the commit.
LockFails(c) ==
    /\ Answer(c)
    /\ UNCHANGED <<time, lockRows, till>>

----------------------------------------------------------------------------
\* The three deletions; what an agent trusts ends with its own unlock, or with
\* the revocation by an administrator.

\* Mutant of Delete: the row stays, without an owner.
DeleteOwner(which) ==
    /\ owner' = [k \in Resources |-> IF which[k] THEN NoAgent ELSE owner[k]]
    /\ UNCHANGED <<time, expires, calls>>

DeleteRows(which) ==
    /\ owner' = [k \in Resources |-> IF which[k] THEN NoAgent ELSE owner[k]]
    /\ expires' = [k \in Resources |-> IF which[k] THEN 0 ELSE expires[k]]
    /\ UNCHANGED <<time, calls>>

\* Mutant of Unlock: without the agent in the WHERE.
UnlockAnyOwner(a, key) ==
    /\ DeleteRows([k \in Resources |-> k = key])
    /\ till' = [till EXCEPT ![a][key] = 0]

Unlock(a, key) ==
    /\ DeleteRows([k \in Resources |-> k = key /\ owner[k] = a])
    /\ till' = [till EXCEPT ![a][key] = 0]

RevokeAgentLocks(a) ==
    /\ DeleteRows([k \in Resources |-> owner[k] = a])
    /\ till' = [till EXCEPT ![a] = [k \in Resources |-> 0]]

RevokeAllLocks ==
    /\ DeleteRows([k \in Resources |-> TRUE])
    /\ till' = [a \in Agents |-> [k \in Resources |-> 0]]

----------------------------------------------------------------------------
\* A call older than Wait has failed with the busy timeout.
TimePasses ==
    /\ time < LastTime
    /\ \A c \in calls : time < c.at + Wait
    /\ time' = time + 1
    /\ UNCHANGED <<lockRows, calls, till>>

LocksInit ==
    /\ time = 0
    /\ owner = [k \in Resources |-> NoAgent]
    /\ expires = [k \in Resources |-> 0]
    /\ calls = {}
    /\ till = [a \in Agents |-> [k \in Resources |-> 0]]

LocksNext ==
    \/ \E s \in Sessions : LockCall(s)
    \/ \E c \in calls : \/ LockGranted(c) \/ LockGrantLost(c)
                        \/ LockDenied(c) \/ LockFails(c)
    \/ \E a \in Agents : \/ \E k \in Resources : Unlock(a, k)
                         \/ RevokeAgentLocks(a)
    \/ RevokeAllLocks
    \/ TimePasses

LocksSpec == LocksInit /\ [][LocksNext]_lockVars

----------------------------------------------------------------------------
LocksTypeOK ==
    /\ time \in 0..LastTime
    /\ owner \in [Resources -> Agents \cup {NoAgent}]
    /\ expires \in [Resources -> Int]
    /\ \A k \in Resources : owner[k] = NoAgent => expires[k] = 0
    /\ calls \subseteq LockCalls
    /\ \A c, d \in calls : c.session = d.session => c = d
    /\ till \in [Agents -> [Resources -> Int]]

\* What list_active_locks reports at this moment.
ActiveLocks == {k \in Resources : owner[k] # NoAgent /\ expires[k] > time}

\* An agent may trust expires_in_sec, counted from the answer, up to the time
\* its call may have waited for the database.
Trusts(a, k) == till[a][k] - Wait > time

\* Mutual exclusion: two agents never trust the same lock at the same time,
\* whatever calls, renewals, lost answers, revocations and expiries interleave
\* between the processes that share the database.
Mutex ==
    \A k \in Resources, a, b \in Agents :
        Trusts(a, k) /\ Trusts(b, k) => a = b

\* The list an administrator sees never misses a lock its agent still trusts.
TrustedIsListed ==
    \A k \in Resources, a \in Agents :
        Trusts(a, k) => k \in ActiveLocks /\ owner[k] = a

\* A row only passes from one agent to another once it has expired by the
\* present clock, although the call compares with the clock it read earlier.
NoSteal ==
    [][\A k \in Resources :
          owner[k] # NoAgent /\ owner'[k] \notin {NoAgent, owner[k]}
              => expires[k] <= time]_lockVars
=============================================================================
