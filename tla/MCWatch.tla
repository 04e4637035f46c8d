------------------------------ MODULE MCWatch -------------------------------
(***************************************************************************)
(* What works in the background, and what it promises to do some day: the  *)
(* watcher (see MCWatchIndex), the worker of the audit log, with two       *)
(* callers, a closer and a querier, the index run that the desktop         *)
(* application has started, and its view of the emergency stop.  They      *)
(* share no variable: the part that moves is chosen at the start of a      *)
(* behaviour, and it is that part's threads and processes that go on.      *)
(***************************************************************************)
EXTENDS MCWatchIndex, AuditLog, IndexJob, SecurityView

VARIABLE part

WatchInit ==
    /\ part \in {"watch", "audit", "job", "view"}
    /\ IF part = "watch" THEN TRUE ELSE source = "poll"
    /\ IF part = "view" THEN TRUE ELSE stop = FALSE
    /\ Init /\ AuditInit /\ JobInit /\ SecurityInit

Watching(A) ==
    part = "watch" /\ A /\ UNCHANGED <<part, auditVars, jobVars, securityVars>>
Auditing(A) ==
    part = "audit" /\ A /\ UNCHANGED <<part, vars, jobVars, securityVars>>
Indexing(A) ==
    part = "job" /\ A /\ UNCHANGED <<part, vars, auditVars, securityVars>>
Viewing(A) ==
    part = "view" /\ A /\ UNCHANGED <<part, vars, auditVars, jobVars>>

WatchNext ==
    \/ Watching(Next) \/ Auditing(AuditNext)
    \/ Indexing(JobNext) \/ Viewing(SecurityNext)

watchVars == <<part, vars, auditVars, jobVars, securityVars>>

\* The fairness of WatchIndex, of AuditLog, of IndexJob and of SecurityView.
WatchFairness ==
    /\ WF_watchVars(Watching(Watcher))
    /\ WF_watchVars(Watching(Elapse)) /\ WF_watchVars(Watching(Deliver))
    /\ WF_watchVars(Auditing(WorkerLoops))
    /\ \A t \in Flushers : WF_watchVars(Auditing(Flush(t)))
    /\ WF_watchVars(Indexing(Killing)) /\ WF_watchVars(Indexing(JobFinished))
    /\ WF_watchVars(Indexing(ChildStarts)) /\ WF_watchVars(Indexing(ParsersEnd))
    /\ WF_watchVars(Indexing(ChildExits))
    /\ \A t \in Threads : WF_watchVars(Viewing(Thread(t)))
    /\ WF_watchVars(Viewing(PollOnce)) /\ WF_watchVars(Viewing(EventLoop))
    /\ WF_watchVars(Viewing(Ordering)) /\ WF_watchVars(Viewing(Ages))

WatchSpec == WatchInit /\ [][WatchNext]_watchVars /\ WatchFairness

\* The state of the part that moves is of its type; the others keep an initial
\* state, which the behaviours of their own part check.
WatchTypeOK ==
    /\ part = "watch" => TypeOK
    /\ part = "audit" => AuditTypeOK
    /\ part = "job" => JobTypeOK
    /\ part = "view" => SecurityTypeOK

\* What the desktop application says comes to be true some day: of its index
\* run (IndexJob) and of the emergency stop (SecurityView).
DesktopSettles == JobsEnd /\ ViewSettles
=============================================================================
