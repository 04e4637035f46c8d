---------------------------- MODULE ControlPlane ----------------------------
(***************************************************************************)
(* Emergency stop, agent states and policies across processes.  The        *)
(* threads of a server decide calls from one AccessControlManager, without *)
(* a lock: they refresh its cache from governance.sqlite when Ttl has      *)
(* passed, and agent_control changes the cache, the database and then the  *)
(* stamp of the cache.  The desktop application and other servers write    *)
(* the database.                                                           *)
(*                                                                         *)
(* A ground is what a call may be refused for: the halt, the status of its *)
(* agent (PAUSED and BLOCKED are "closed") and the agent's profile, which  *)
(* is what its policy says of the tool called: "open" (FULL_ACCESS),       *)
(* "listed" (CUSTOM, the tool is in the list), "closed" (READ_ONLY, or     *)
(* CUSTOM without the tool).                                               *)
(***************************************************************************)
EXTENDS Integers

CONSTANTS
    Threads,     \* of the server
    Agents,
    Admin,       \* the identity agent_control runs under
    Ttl,         \* _cache_ttl_sec
    Sla,         \* the propagation time the source promises
    MaxTime,     \* bound of the model: the clock stops here
    MaxOrders,   \* bound of the model: orders given, here and elsewhere
    MaxFaults    \* bound of the model: failed reads and writes

ASSUME ControlAssumption ==
    /\ Admin \notin Agents
    /\ Ttl \in Nat \ {0} /\ Sla \in Nat
    /\ MaxTime \in Nat /\ MaxOrders \in Nat /\ MaxFaults \in Nat

VARIABLES
    now,
    row,          \* governance.sqlite, by ground
    changed,      \* history: when a row last came to say something else
    told,         \* _emergency_halt, _states, _policies with their lists
    refreshed,    \* _cache_last_refresh
    touched,      \* history: last effect of an admin call on the cache
    overtaken,    \* history: when a refresh last put an outdated row into it
    pc, call,     \* what each thread is doing, for which call
    start,        \* when the call looked at the clock
    got,          \* what the thread has read and not yet put into the cache
    orders, faults

dbVars == <<row, changed>>
cacheVars == <<told, refreshed, touched, overtaken>>
threadVars == <<pc, call, start, got>>
vars == <<now, dbVars, cacheVars, threadVars, orders, faults>>

Never == -1

Halt == <<Admin, "halt">>
Grounds == {Halt} \cup Agents \X {"status", "profile"}

\* "none": an agent without a row, or a row whose policy is empty.
Tables ==
    {r \in [Grounds -> {"none", "open", "listed", "closed"}] :
        /\ r[Halt] # "none"
        /\ \A g \in Grounds : r[g] = "listed" => g[2] = "profile"
        /\ \A a \in Agents : r[<<a, "profile">>] # "none"
                                 => r[<<a, "status">>] # "none"}
Nothing == [g \in Grounds |-> "none"]

\* What an administrator can ask for.
Orders == {o \in [ground : Grounds, value : {"open", "listed", "closed"}] :
              o.value = "listed" => o.ground[2] = "profile"}
NoOrder == [ground |-> Halt, value |-> "none"]

\* Tool calls of agents, and agent_control calls with or without an order.
ToolCalls == [caller : Agents, order : {NoOrder}]
StatusCall == [caller |-> Admin, order |-> NoOrder]
AdminCalls == [caller : {Admin}, order : Orders]
Calls == ToolCalls \cup AdminCalls \cup {StatusCall}

----------------------------------------------------------------------------
(* governance.sqlite: set_emergency_halt and upsert_agent. *)

\* Mutant of After: the row that a policy inserts has no status.
AfterAlone(o) == [row EXCEPT ![o.ground] = o.value]

\* A policy for an agent without a row gives it an active one.
After(o) ==
    [g \in Grounds |->
        IF g = o.ground THEN o.value
        ELSE IF g = <<o.ground[1], "status">> /\ row[g] = "none" THEN "open"
        ELSE row[g]]

Write(o) ==
    /\ row' = After(o)
    /\ changed' = [g \in Grounds |->
                      IF row'[g] # row[g] THEN now ELSE changed[g]]

\* The desktop application, and other servers.
Desktop(o) ==
    /\ orders < MaxOrders
    /\ orders' = orders + 1
    /\ Write(o)
    /\ UNCHANGED <<now, cacheVars, threadVars, faults>>

----------------------------------------------------------------------------
(* check_access and _refresh_cache_if_needed, in any thread *)

\* Mutant of Expired: the refresh waits one unit longer.
ExpiredLate == now - refreshed > Ttl

Expired == now - refreshed >= Ttl

\* A call reaches a thread; within Ttl the cache is used as it is.  Looking at
\* the cache once more, as agent_control does for its answer after a halt, is
\* what StatusCall does.
Enter(t, c) ==
    /\ pc[t] = "idle"
    /\ c.order # NoOrder => orders < MaxOrders
    /\ orders' = IF c.order # NoOrder THEN orders + 1 ELSE orders
    /\ call' = [call EXCEPT ![t] = c]
    /\ start' = [start EXCEPT ![t] = now]
    /\ pc' = [pc EXCEPT ![t] = IF Expired THEN "readHalt" ELSE "decide"]
    /\ UNCHANGED <<now, dbVars, cacheVars, got, faults>>

Reads(t, rows) ==
    /\ got' = [got EXCEPT ![t] = rows]
    /\ UNCHANGED <<now, dbVars, cacheVars, call, start, orders, faults>>

ReadHalt(t) ==
    /\ pc[t] = "readHalt"
    /\ Reads(t, [Nothing EXCEPT ![Halt] = row[Halt]])
    /\ pc' = [pc EXCEPT ![t] = "setHalt"]

ReadAgents(t) ==
    /\ pc[t] = "readAgents"
    /\ Reads(t, [row EXCEPT ![Halt] = "none"])
    /\ pc' = [pc EXCEPT ![t] = "setAgents"]

\* A status and a policy that are there overwrite the cache, others stay.  The
\* list of a row is never empty text, so that a row without a policy empties
\* the list of a CUSTOM one in the cache.
Loaded(rows, g) ==
    IF rows[g] # "none" THEN rows[g]
    ELSE IF /\ g[2] = "profile" /\ told[g] = "listed"
            /\ rows[<<g[1], "status">>] # "none"
         THEN "closed"
    ELSE told[g]

\* What was read goes into the cache, however long ago that was.
Put(t) ==
    /\ told' = [g \in Grounds |-> Loaded(got[t], g)]
    /\ overtaken' = [g \in Grounds |->
                        IF told'[g] # told[g] /\ got[t][g] # row[g] THEN now
                        ELSE overtaken[g]]
    /\ got' = [got EXCEPT ![t] = Nothing]
    /\ UNCHANGED <<now, dbVars, refreshed, touched, call, start, orders,
                   faults>>

SetHalt(t) ==
    /\ pc[t] = "setHalt"
    /\ Put(t)
    /\ pc' = [pc EXCEPT ![t] = "readAgents"]

SetAgents(t) ==
    /\ pc[t] = "setAgents"
    /\ Put(t)
    /\ pc' = [pc EXCEPT ![t] = "stampRefresh"]

\* Mutant of StampRefresh: the cache is as fresh as the end of the refresh.
StampRefreshLate(t) ==
    /\ pc[t] = "stampRefresh"
    /\ refreshed' = now
    /\ pc' = [pc EXCEPT ![t] = "decide"]
    /\ UNCHANGED <<now, dbVars, told, touched, overtaken, call, start, got,
                   orders, faults>>

\* The cache counts as fresh from before the first read, even if another
\* thread has stamped it since.
StampRefresh(t) ==
    /\ pc[t] = "stampRefresh"
    /\ refreshed' = start[t]
    /\ pc' = [pc EXCEPT ![t] = "decide"]
    /\ UNCHANGED <<now, dbVars, told, touched, overtaken, call, start, got,
                   orders, faults>>

\* Status and resume bypass the halt; nothing else stops the administrator.
Allowed(t) ==
    LET c == call[t] IN
    /\ told[Halt] = "closed" =>
           /\ c.caller = Admin
           /\ c.order \in {NoOrder, [ground |-> Halt, value |-> "open"]}
    /\ c.caller \in Agents =>
           \A k \in {"status", "profile"} : told[<<c.caller, k>>] # "closed"

Admit(t) ==
    /\ pc[t] = "decide" /\ Allowed(t)
    /\ pc' = [pc EXCEPT ![t] = IF call[t].order = NoOrder THEN "running"
                               ELSE "apply"]
    /\ UNCHANGED <<now, dbVars, cacheVars, call, start, got, orders, faults>>

Leave(t) ==
    /\ pc' = [pc EXCEPT ![t] = "idle"]
    /\ call' = [call EXCEPT ![t] = StatusCall]
    /\ start' = [start EXCEPT ![t] = 0]
    /\ got' = [got EXCEPT ![t] = Nothing]
    /\ UNCHANGED <<now, orders>>

Deny(t) ==
    /\ pc[t] = "decide" /\ ~Allowed(t)
    /\ Leave(t)
    /\ UNCHANGED <<dbVars, cacheVars, faults>>

\* The tool itself.
Finish(t) ==
    /\ pc[t] = "running"
    /\ Leave(t)
    /\ UNCHANGED <<dbVars, cacheVars, faults>>

----------------------------------------------------------------------------
(* agent_control in a server: the cache first, then the database, then the *)
(* cache is stamped as fresh.                                              *)

Apply(t) ==
    LET o == call[t].order IN
    /\ pc[t] = "apply"
    /\ told' = [told EXCEPT ![o.ground] = o.value]
    /\ touched' = now
    /\ pc' = [pc EXCEPT ![t] = "store"]
    /\ UNCHANGED <<now, dbVars, refreshed, overtaken, call, start, got, orders,
                   faults>>

Store(t) ==
    /\ pc[t] = "store"
    /\ Write(call[t].order)
    /\ pc' = [pc EXCEPT ![t] = "stampOrder"]
    /\ UNCHANGED <<now, cacheVars, call, start, got, orders, faults>>

StampOrder(t) ==
    /\ pc[t] = "stampOrder"
    /\ refreshed' = now /\ touched' = now
    /\ Leave(t)
    /\ UNCHANGED <<dbVars, told, overtaken, faults>>

\* A read or a write of the database raises: the call ends with an error, the
\* cache keeps what has been changed so far.
DatabaseFails(t) ==
    /\ pc[t] \in {"readHalt", "readAgents", "store"}
    /\ faults < MaxFaults
    /\ faults' = faults + 1
    /\ Leave(t)
    /\ UNCHANGED <<dbVars, cacheVars>>

----------------------------------------------------------------------------
Tick ==
    /\ now < MaxTime
    /\ now' = now + 1
    /\ UNCHANGED <<dbVars, cacheVars, threadVars, orders, faults>>

\* The constructor of AccessControlManager refreshes the cache.
Init ==
    /\ now = 0
    /\ row \in Tables
    /\ changed = [g \in Grounds |-> Never]
    /\ told = [g \in Grounds |-> IF row[g] = "none" THEN "open" ELSE row[g]]
    /\ refreshed = 0 /\ touched = Never
    /\ overtaken = [g \in Grounds |-> Never]
    /\ pc = [t \in Threads |-> "idle"]
    /\ call = [t \in Threads |-> StatusCall]
    /\ start = [t \in Threads |-> 0]
    /\ got = [t \in Threads |-> Nothing]
    /\ orders = 0 /\ faults = 0

Serve(t) ==
    \/ \E c \in Calls : Enter(t, c)
    \/ ReadHalt(t) \/ SetHalt(t) \/ ReadAgents(t) \/ SetAgents(t)
    \/ StampRefresh(t) \/ Admit(t) \/ Deny(t) \/ Finish(t)
    \/ Apply(t) \/ Store(t) \/ StampOrder(t) \/ DatabaseFails(t)

Next ==
    \/ \E o \in Orders : Desktop(o)
    \/ \E t \in Threads : Serve(t)
    \/ Tick

Spec == Init /\ [][Next]_vars

----------------------------------------------------------------------------
TypeOK ==
    /\ now \in 0..MaxTime
    /\ row \in Tables
    /\ changed \in [Grounds -> 0..MaxTime \cup {Never}]
    /\ told \in [Grounds -> {"open", "listed", "closed"}]
    /\ refreshed \in 0..MaxTime
    /\ touched \in 0..MaxTime \cup {Never}
    /\ overtaken \in [Grounds -> 0..MaxTime \cup {Never}]
    /\ pc \in [Threads -> {"idle", "readHalt", "setHalt", "readAgents",
                           "setAgents", "stampRefresh", "decide", "running",
                           "apply", "store", "stampOrder"}]
    /\ call \in [Threads -> Calls]
    /\ start \in [Threads -> 0..MaxTime]
    /\ got \in [Threads -> [Grounds -> {"none", "open", "listed", "closed"}]]
    /\ orders \in 0..MaxOrders /\ faults \in 0..MaxFaults

\* What a call may be refused for; the administrator is not.
GroundsOf(c) ==
    IF c.caller = Admin THEN {}
    ELSE {Halt} \cup {c.caller} \X {"status", "profile"}

Lately(t, e) == e # Never /\ start[t] - e < Ttl

\* Revocation is missed for as long as stated and no longer: a tool runs on a
\* ground the database refuses only if its call entered less than Ttl after
\* the refusal was committed, after an admin call through the same server, or
\* after a stalled refresh of another thread has put an older row for that
\* ground over a newer one; however refreshes and orders of several threads
\* and processes interleave and wherever they fail.
RevocationBounded ==
    \A t \in Threads : pc[t] = "running" =>
        \A g \in GroundsOf(call[t]) : row[g] = "closed" =>
            \/ Lately(t, changed[g]) \/ Lately(t, touched)
            \/ Lately(t, overtaken[g])

\* The stamp of the cache is true, but for the same: where the cache differs
\* from what the database has, the row has changed since the stamp, or an
\* admin call or an outdated row has gone into the cache.  What a failed order
\* left does not survive a refresh, then; only where the database has nothing
\* (an agent without a row or without a policy) does it stay.
RefreshAgrees ==
    \A g \in Grounds :
        row[g] # "none" /\ told[g] # row[g] =>
            \/ changed[g] >= refreshed \/ touched >= refreshed
            \/ overtaken[g] >= refreshed

\* What the source says of the cache ("reduced to 0.5s to meet <= 1.1s
\* propagation SLA"): no call runs that entered more than Sla after a refusal.
PropagationSla ==
    \A t \in Threads : pc[t] = "running" =>
        \A g \in GroundsOf(call[t]) :
            row[g] = "closed" /\ changed[g] # Never
                => start[t] - changed[g] <= Sla
=============================================================================
