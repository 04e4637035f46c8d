---------------------------- MODULE DesktopWindow ---------------------------
(***************************************************************************)
(* The windows of the desktop application.  One thread runs them: it asks  *)
(* for the data of a tab, a pool of threads fetches them, and the results  *)
(* come back through its queue of events.                                  *)
(*                                                                         *)
(* Of the tabs two stand for all: "repos" always reads the disk, "tasks"   *)
(* takes the list of repositories from the cache when there is one.  Any   *)
(* of them may be in front.  The disk is a counter of its changes.  A task *)
(* in the pool is known by its slot, which is its _refresh_seq as well:    *)
(* the code only compares sequence numbers of tasks in flight.             *)
(***************************************************************************)
EXTENDS Integers, Sequences, SequencesExt, FiniteSets, Subsequences

CONSTANTS
    Slots,       \* bound of the model: tasks in flight, 1..k
    MaxThreads,  \* the 4 of MAX_WORKER_THREADS
    MaxDisk      \* bound of the model: changes of the disk

ASSUME WindowAssumption ==
    /\ Cardinality(Slots) \in Nat \ {0, 1} /\ Slots = 1..Cardinality(Slots)
    /\ MaxThreads \in Nat \ {0} /\ MaxDisk \in Nat

VARIABLES
    disk,       \* changes of the registry and the snapshots so far
    cached,     \* RepoManager._cached_repos, as the change it shows, or NoList
    fresh,      \* history: the change that the cache shows at least
    task,       \* each slot: a task of run_async
    line,       \* the tasks that wait for a thread
    inbox,      \* the results that wait for the event loop
    pending,    \* _refresh_pending: each tab's slot, or 0
    overlay,    \* the loading overlay is shown
    display,    \* each tab: the change it shows
    asked       \* history: each tab, the change it was last asked to show

listVars == <<disk, cached, fresh>>
taskVars == <<task, line, inbox>>
tabVars == <<pending, overlay, display, asked>>
windowVars == <<listVars, taskVars, tabVars>>

Tabs == {"repos", "tasks"}
NoList == -1
Free == [tab |-> "none", direct |-> FALSE, at |-> "free", value |-> 0]
Request(t, direct) == [tab |-> t, direct |-> direct]
InFlight(t) == {s \in Slots : task[s].tab = t}
AtStep(s, step) == task[s].at = step
Goes(s, step) == task' = [task EXCEPT ![s].at = step]

----------------------------------------------------------------------------
(* run_async, _refresh_tab and the tabs' own refresh *)

FreeSlots == Picked([s \in Slots |-> s], {s \in Slots : AtStep(s, "free")})

\* A task's value is at first the disk of its request.
Queued(r) ==
    [tab |-> r.tab, direct |-> r.direct, at |-> "queued", value |-> disk]

Submit(requests) ==
    LET slots == [i \in DOMAIN requests |-> FreeSlots[i]]
        mine(s) == requests[CHOOSE i \in DOMAIN slots : slots[i] = s]
    IN  /\ Len(requests) <= Len(FreeSlots)
        /\ task' = [s \in Slots |-> IF s \in ToSet(slots) THEN Queued(mine(s))
                                                          ELSE task[s]]
        /\ line' = line \o slots

\* The table's own refresh has no sequence number: one that meets an earlier
\* request of another kind need not win.
Meets(requests, t) ==
    \E s \in InFlight(t) :
        /\ task[s].value < disk
        /\ task[s].direct \/ \E i \in DOMAIN requests :
                                 requests[i] = Request(t, TRUE)

\* The requests of one event: _refresh_tab marks the tab and shows the overlay,
\* a direct refresh does neither.
Refresh(requests) ==
    LET windowed(t) == {i \in DOMAIN requests : requests[i] = Request(t, FALSE)}
        tabs == {requests[i].tab : i \in DOMAIN requests}
    IN  /\ Submit(requests)
        /\ pending' = [t \in Tabs |-> IF windowed(t) = {} THEN pending[t]
                         ELSE FreeSlots[CHOOSE i \in windowed(t) : TRUE]]
        /\ overlay' = (overlay \/ \E t \in Tabs : windowed(t) # {})
        /\ asked' = [t \in Tabs |-> IF t \notin tabs THEN asked[t]
                                    ELSE IF Meets(requests, t) THEN 0
                                    ELSE IF t = "repos" THEN disk' ELSE fresh']
        /\ UNCHANGED <<display, inbox>>

\* What a listing in progress has read goes into the cache all the same.
Invalidate ==
    /\ cached' = NoList
    /\ fresh' = IF \E s \in Slots : AtStep(s, "keep") /\ task[s].value < disk
                THEN 0 ELSE disk

\* A click on a tab, or its refresh at the start.
NavRefresh(t) ==
    /\ UNCHANGED listVars
    /\ Refresh(<<Request(t, FALSE)>>)

ManualRefresh(t) ==
    /\ Invalidate /\ UNCHANGED disk
    /\ Refresh(<<Request(t, FALSE)>>)

DirectRefresh ==
    /\ UNCHANGED listVars
    /\ Refresh(<<Request("repos", TRUE)>>)

\* Registering happens in the thread of the windows.
AddRepository ==
    /\ disk < MaxDisk
    /\ disk' = disk + 1 /\ cached' = NoList
    /\ fresh' = IF \E s \in Slots : AtStep(s, "keep") THEN 0 ELSE disk'
    /\ Submit(<<Request("repos", TRUE)>>)
    /\ asked' = [asked EXCEPT !["repos"] = IF InFlight("repos") = {} THEN disk ELSE 0]
    /\ UNCHANGED <<inbox, pending, overlay, display>>

\* delete_repository runs in the pool.
DeleteRepository ==
    /\ Submit(<<Request("none", TRUE)>>)
    /\ UNCHANGED <<inbox, listVars, tabVars>>

\* An index run of the window has ended: after a success the table refreshes
\* itself, then the window drops the cache and refreshes the tab in front.
IndexingFinished(t, indexed) ==
    /\ Invalidate /\ UNCHANGED disk
    /\ Refresh(IF indexed THEN <<Request("repos", TRUE), Request(t, FALSE)>>
                          ELSE <<Request(t, FALSE)>>)

----------------------------------------------------------------------------
(* The pool *)

Working(s) == task[s].at \notin {"free", "queued", "emitted", "failed"}

\* First in, first out, as threads become free; list_repositories looks at
\* the cache.
TaskStarts(s) ==
    /\ line # <<>> /\ Head(line) = s
    /\ Cardinality({r \in Slots : Working(r)}) < MaxThreads
    /\ line' = Tail(line)
    /\ Goes(s, IF task[s].tab = "none" THEN "remove"
               ELSE IF task[s].tab = "tasks" /\ cached # NoList THEN "hit"
               ELSE "read")
    /\ UNCHANGED <<inbox, listVars, tabVars>>

Emit(s, how, value) ==
    /\ task' = [task EXCEPT ![s].at = how, ![s].value = value]
    /\ inbox' = Append(inbox, s)

\* The cache is read again for the answer: it may have been dropped since, and
\* then the fetch fails on None.
TakeCached(s) ==
    /\ AtStep(s, "hit")
    /\ IF cached = NoList THEN Emit(s, "failed", 0) ELSE Emit(s, "emitted", cached)
    /\ UNCHANGED <<line, listVars, tabVars>>

ReadDisk(s) ==
    /\ AtStep(s, "read")
    /\ \/ /\ task' = [task EXCEPT ![s].at = "keep", ![s].value = disk]
          /\ UNCHANGED inbox
       \/ Emit(s, "failed", 0)
    /\ UNCHANGED <<line, listVars, tabVars>>

KeepList(s) ==
    /\ AtStep(s, "keep")
    /\ cached' = task[s].value
    /\ Emit(s, "emitted", task[s].value)
    /\ UNCHANGED <<line, disk, fresh, tabVars>>

RemoveRepository(s) ==
    /\ AtStep(s, "remove")
    /\ \/ /\ disk < MaxDisk
          /\ disk' = disk + 1 /\ Goes(s, "forget") /\ UNCHANGED inbox
       \/ Emit(s, "failed", 0) /\ UNCHANGED disk
    /\ UNCHANGED <<line, cached, fresh, tabVars>>

ForgetList(s) ==
    /\ AtStep(s, "forget")
    /\ Invalidate /\ Emit(s, "emitted", 0)
    /\ UNCHANGED <<line, disk, tabVars>>

----------------------------------------------------------------------------
(* The event loop delivers a result: _deliver_ok, _deliver_err *)

Latest(s) == pending[task[s].tab] = s

\* Mutant of Renders: the result of a superseded refresh is shown.
RendersAll(s) == AtStep(s, "emitted")

\* A direct refresh renders what it gets; one of the window only if no later
\* one was asked for.
Renders(s) == AtStep(s, "emitted") /\ (task[s].direct \/ Latest(s))

\* A failed refresh leaves the tab as it was.
Lapses(s) == AtStep(s, "failed") /\ (task[s].direct \/ Latest(s))

\* The overlay goes with the last refresh of the window.
DeliverFetch(s) ==
    /\ inbox # <<>> /\ Head(inbox) = s /\ task[s].tab # "none"
    /\ inbox' = Tail(inbox)
    /\ task' = [task EXCEPT ![s] = Free]
    /\ LET t == task[s].tab
           left == IF ~task[s].direct /\ Latest(s)
                   THEN [pending EXCEPT ![t] = 0] ELSE pending
       IN  /\ pending' = left
           /\ overlay' = (overlay /\ (task[s].direct \/ \E u \in Tabs : left[u] # 0))
           /\ display' = IF Renders(s) THEN [display EXCEPT ![t] = task[s].value]
                                     ELSE display
           /\ asked' = IF Lapses(s) THEN [asked EXCEPT ![t] = 0] ELSE asked
    /\ UNCHANGED <<line, listVars>>

\* After a deletion the table is fetched anew, in the slot that becomes free.
DeliverDelete(s) ==
    /\ inbox # <<>> /\ Head(inbox) = s /\ task[s].tab = "none"
    /\ inbox' = Tail(inbox)
    /\ IF AtStep(s, "failed")
       THEN task' = [task EXCEPT ![s] = Free] /\ UNCHANGED <<line, asked>>
       ELSE /\ task' = [task EXCEPT ![s] = Queued(Request("repos", TRUE))]
            /\ line' = Append(line, s)
            /\ asked' = [asked EXCEPT !["repos"] =
                  IF Meets(<<Request("repos", TRUE)>>, "repos") THEN 0 ELSE disk]
    /\ UNCHANGED <<pending, overlay, display, listVars>>

\* A command or a server elsewhere registers or indexes, or the window's own
\* index run publishes.
OthersChange ==
    /\ disk < MaxDisk
    /\ disk' = disk + 1
    /\ UNCHANGED <<cached, fresh, taskVars, tabVars>>

WindowInit ==
    /\ disk = 0 /\ cached = NoList /\ fresh = 0
    /\ task = [s \in Slots |-> Free] /\ line = <<>> /\ inbox = <<>>
    /\ pending = [t \in Tabs |-> 0] /\ overlay = FALSE
    /\ display = [t \in Tabs |-> 0] /\ asked = [t \in Tabs |-> 0]

UserActs ==
    \/ \E t \in Tabs : NavRefresh(t) \/ ManualRefresh(t)
    \/ DirectRefresh \/ AddRepository \/ DeleteRepository

Pool(s) ==
    \/ TaskStarts(s) \/ TakeCached(s) \/ ReadDisk(s) \/ KeepList(s)
    \/ RemoveRepository(s) \/ ForgetList(s)

Deliver(s) == DeliverFetch(s) \/ DeliverDelete(s)

WindowNext ==
    \/ UserActs
    \/ \E t \in Tabs, indexed \in BOOLEAN : IndexingFinished(t, indexed)
    \/ \E s \in Slots : Pool(s) \/ Deliver(s)
    \/ OthersChange

\* The threads of the pool and the event loop go on.
WindowFairness ==
    \A s \in Slots : WF_windowVars(Pool(s)) /\ WF_windowVars(Deliver(s))

WindowSpec == WindowInit /\ [][WindowNext]_windowVars /\ WindowFairness

----------------------------------------------------------------------------
WindowTypeOK ==
    /\ disk \in 0..MaxDisk /\ cached \in 0..MaxDisk \cup {NoList}
    /\ \A s \in Slots : /\ task[s].tab \in Tabs \cup {"none"}
                        /\ task[s].value \in 0..MaxDisk
    /\ line \in Seq(Slots) /\ inbox \in Seq(Slots)
    /\ pending \in [Tabs -> Slots \cup {0}] /\ overlay \in BOOLEAN
    /\ display \in [Tabs -> 0..MaxDisk] /\ asked \in [Tabs -> 0..MaxDisk]

\* The overlay is shown exactly while a refresh of the window is in flight
\* whose result will be shown, whatever overtakes what.
OverlayMatches ==
    /\ overlay = \E t \in Tabs : pending[t] # 0
    /\ \A t \in Tabs : pending[t] # 0 => /\ task[pending[t]].tab = t
                                         /\ ~task[pending[t]].direct

\* A tab with nothing in flight shows the disk as it was when the tab was last
\* asked for, or later, unless that refresh failed, or the table's own refresh
\* met one of another kind; a tab that takes its list from the cache shows the
\* disk of the last invalidation, unless a listing was about to be kept then.
ShowsWhatWasAsked ==
    \A t \in Tabs : InFlight(t) = {} => display[t] >= asked[t]

WindowAgrees == OverlayMatches /\ ShowsWhatWasAsked
=============================================================================
