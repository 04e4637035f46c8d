---------------------------- MODULE SecurityView ----------------------------
(***************************************************************************)
(* The emergency stop as the desktop application shows it.  Three threads  *)
(* feed one label: a worker polls governance.sqlite, a refresh of the tab  *)
(* collects a snapshot in the pool, and the thread of the windows gives    *)
(* orders and collects for itself.  The last two ask the application's own *)
(* AccessControlManager, whose cache both may refresh at a time, without a *)
(* lock.  Servers and other applications write the database too.           *)
(*                                                                         *)
(* A time stamp is young or not: Ages is the passing of _cache_ttl_sec.    *)
(* The label enables the buttons, so it decides which order can be given.  *)
(***************************************************************************)
EXTENDS Integers, Sequences, SequencesExt

CONSTANTS
    MaxOrders,   \* bound of the model: orders given, here and elsewhere
    MaxMisses,   \* bound of the model: failed reads and writes
    MaxMail      \* bound of the model: results that wait for the windows

ASSUME SecurityAssumption ==
    MaxOrders \in Nat /\ MaxMisses \in Nat /\ MaxMail \in Nat \ {0, 1}

VARIABLES
    stop,      \* the emergency row of governance.sqlite
    orders, misses,
    known,     \* _emergency_halt of the application
    young,     \* _cache_last_refresh lies within the cache time
    runs,      \* what each thread is doing
    mail,      \* results that wait for the event loop
    label      \* the tab says EMERGENCY STOP ACTIVE

governed == <<stop, orders, misses>>
cacheOf == <<known, young>>
shown == <<mail, label>>
securityVars == <<governed, cacheOf, runs, shown>>

Threads == {"ui", "pool"}
\* job: why the thread asks; looks: how often it will still ask the cache;
\* got: read and not yet assigned; wanted: the halt it has ordered.
Resting == [job |-> "none", looks |-> 0, step |-> "rest", got |-> FALSE,
            wanted |-> FALSE]
Asking(job, looks) ==
    [Resting EXCEPT !.job = job, !.looks = looks, !.step = "look"]

Rests(t) == runs[t].step = "rest"
In(t, step) == runs[t].step = step
Becomes(t, run) == runs' = [runs EXCEPT ![t] = run]
Steps(t, step) == runs' = [runs EXCEPT ![t].step = step]

----------------------------------------------------------------------------
(* _refresh_cache_if_needed, in either thread *)

\* A look at the cache reads the row first when the cache is old.
Look(t) ==
    /\ In(t, "look")
    /\ runs' = [runs EXCEPT ![t].step = IF young THEN "ask" ELSE "assign",
                            ![t].got = ~young /\ stop]
    /\ UNCHANGED <<governed, cacheOf, shown>>

AssignRow(t) ==
    /\ In(t, "assign")
    /\ known' = runs[t].got
    /\ runs' = [runs EXCEPT ![t].step = "stamp", ![t].got = FALSE]
    /\ UNCHANGED <<governed, young, shown>>

\* The stamp is the time at which the refresh was entered, which may be long
\* ago by now.
StampCache(t) ==
    /\ In(t, "stamp")
    /\ young' \in BOOLEAN
    /\ Steps(t, "ask")
    /\ UNCHANGED <<governed, known, shown>>

\* The database is locked, for the row, the agents after it, or what else the
\* caller reads: the exception ends the refresh and its caller.
ReadMisses(t) ==
    /\ \/ In(t, "look") /\ ~young
       \/ In(t, "stamp")
       \/ In(t, "ask") /\ (runs[t].looks = 2 \/ runs[t].job = "agents")
    /\ misses < MaxMisses /\ misses' = misses + 1
    /\ Becomes(t, Resting)
    /\ UNCHANGED <<stop, orders, cacheOf, shown>>

Ages ==
    /\ young /\ young' = FALSE
    /\ UNCHANGED <<governed, known, runs, shown>>

----------------------------------------------------------------------------
(* collect_snapshot and the signals *)

\* list_agents looks, is_emergency_halted looks, and so does emergency_reason,
\* which is taken together with the second.
Collecting == Asking("snapshot", 2)

Ask(t) ==
    /\ In(t, "ask") /\ runs[t].looks > 1
    /\ runs' = [runs EXCEPT ![t].looks = @ - 1, ![t].step = "look"]
    /\ UNCHANGED <<governed, cacheOf, shown>>

\* The halt of a snapshot is what the cache says at the last look.
Told(t) == IF runs[t].job = "halt" THEN FALSE ELSE known

\* A snapshot of the pool goes through the event loop; the windows' own, and
\* the result of a poll, go straight to the label; a list of agents does not
\* touch it.
LastAsk(t) ==
    /\ In(t, "ask") /\ runs[t].looks = 1
    /\ Becomes(t, Resting)
    /\ IF t = "pool"
       THEN /\ Len(mail) < MaxMail
            /\ mail' = Append(mail, [job |-> "snapshot", halt |-> Told(t)])
            /\ UNCHANGED label
       ELSE /\ label' = IF runs[t].job = "agents" THEN label ELSE Told(t)
            /\ UNCHANGED mail
    /\ UNCHANGED <<governed, cacheOf>>

\* One refresh at a time; those that are superseded are in DesktopWindow.
RefreshTab ==
    /\ Rests("pool")
    /\ Becomes("pool", Collecting)
    /\ UNCHANGED <<governed, cacheOf, shown>>

----------------------------------------------------------------------------
(* GovernanceRefreshWorker *)

\* It reads servers, agents and the halt, and then sends all of them.
PollOnce ==
    /\ Len(mail) + 2 <= MaxMail
    /\ mail' = mail \o <<[job |-> "agents", halt |-> FALSE],
                         [job |-> "halt", halt |-> stop]>>
    /\ UNCHANGED <<governed, cacheOf, runs, label>>

\* Any exception is logged, and the worker sleeps till the next poll.
PollMisses ==
    /\ misses < MaxMisses /\ misses' = misses + 1
    /\ UNCHANGED <<stop, orders, cacheOf, runs, shown>>

\* Mutant of TellHalt: only a halt is passed on.
TellHaltOnly(m) ==
    /\ m.job = "halt" /\ label' = (label \/ m.halt)
    /\ UNCHANGED runs

\* A poll without a reason asks the cache for one first (_on_governance_halt).
TellHalt(m) ==
    /\ m.job = "halt"
    /\ IF m.halt THEN label' = TRUE /\ UNCHANGED runs
       ELSE Becomes("ui", Asking("halt", 1)) /\ UNCHANGED label

TellSnapshot(m) ==
    /\ m.job = "snapshot" /\ label' = m.halt
    /\ UNCHANGED runs

\* The list of agents is merged with the cache's (_on_governance_agents).
TellAgents(m) ==
    /\ m.job = "agents" /\ Becomes("ui", Asking("agents", 1))
    /\ UNCHANGED label

EventLoop ==
    /\ Rests("ui") /\ mail # <<>>
    /\ mail' = Tail(mail)
    /\ LET m == Head(mail) IN TellHalt(m) \/ TellSnapshot(m) \/ TellAgents(m)
    /\ UNCHANGED <<governed, cacheOf>>

----------------------------------------------------------------------------
(* Orders *)

Ordered(job, wanted) ==
    [Resting EXCEPT !.job = job, !.step = "write", !.wanted = wanted]

\* The panic button, or the one to resume: the cache first.
PressButton ==
    /\ Rests("ui") /\ orders < MaxOrders
    /\ orders' = orders + 1
    /\ known' = ~label
    /\ Becomes("ui", Ordered("order", ~label))
    /\ UNCHANGED <<stop, misses, young, shown>>

\* Pausing, blocking or a policy: an order that leaves the halt as it is, and
\* stamps the cache as well.
PressAgentButton ==
    /\ Rests("ui") /\ orders < MaxOrders
    /\ orders' = orders + 1
    /\ Becomes("ui", Ordered("agent", FALSE))
    /\ UNCHANGED <<stop, misses, cacheOf, shown>>

WriteOrder ==
    /\ In("ui", "write")
    /\ stop' = IF runs["ui"].job = "order" THEN runs["ui"].wanted ELSE stop
    /\ Steps("ui", "stampOrder")
    /\ UNCHANGED <<orders, misses, cacheOf, shown>>

\* The cache keeps an order that the database has refused.
WriteMisses ==
    /\ In("ui", "write") /\ misses < MaxMisses
    /\ misses' = misses + 1
    /\ Becomes("ui", Resting)
    /\ UNCHANGED <<stop, orders, cacheOf, shown>>

\* A halt is shown at once, and then what the snapshot says.
StampOrder ==
    /\ In("ui", "stampOrder")
    /\ young' = TRUE
    /\ label' = IF runs["ui"].job = "order" THEN runs["ui"].wanted ELSE label
    /\ Becomes("ui", Collecting)
    /\ UNCHANGED <<governed, known, mail>>

OthersOrder ==
    /\ orders < MaxOrders
    /\ orders' = orders + 1 /\ stop' = ~stop
    /\ UNCHANGED <<misses, cacheOf, runs, shown>>

----------------------------------------------------------------------------
\* The cache is loaded when the application starts.
SecurityInit ==
    /\ stop \in BOOLEAN /\ known = stop /\ young = TRUE
    /\ orders = 0 /\ misses = 0
    /\ runs = [t \in Threads |-> Resting]
    /\ mail = <<>> /\ label = FALSE

Thread(t) ==
    Look(t) \/ AssignRow(t) \/ StampCache(t) \/ Ask(t) \/ LastAsk(t)
Ordering == WriteOrder \/ StampOrder

SecurityNext ==
    \/ \E t \in Threads : Thread(t) \/ ReadMisses(t)
    \/ Ages \/ RefreshTab
    \/ PollOnce \/ PollMisses \/ EventLoop
    \/ PressButton \/ PressAgentButton \/ Ordering \/ WriteMisses
    \/ OthersOrder

\* Threads and time go on; nothing is assumed of people.
SecurityFairness ==
    /\ \A t \in Threads : WF_securityVars(Thread(t))
    /\ WF_securityVars(PollOnce) /\ WF_securityVars(EventLoop)
    /\ WF_securityVars(Ordering) /\ WF_securityVars(Ages)

SecuritySpec == SecurityInit /\ [][SecurityNext]_securityVars /\ SecurityFairness

----------------------------------------------------------------------------
SecurityTypeOK ==
    /\ stop \in BOOLEAN /\ known \in BOOLEAN /\ young \in BOOLEAN
    /\ label \in BOOLEAN /\ orders \in 0..MaxOrders /\ misses \in 0..MaxMisses
    /\ mail \in BoundedSeq([job : {"agents", "halt", "snapshot"},
                            halt : BOOLEAN], MaxMail)
    /\ \A t \in Threads : /\ runs[t].looks \in 0..2
                          /\ Rests(t) <=> runs[t] = Resting

\* Once nobody gives orders any more, the tab comes to say what the database
\* says, and stays with it, although two threads refresh one cache, a refresh
\* may overtake the order it should show, and a database may be locked.
ViewSettles == <>[](label = stop)
=============================================================================
