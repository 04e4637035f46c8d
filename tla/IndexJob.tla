------------------------------ MODULE IndexJob ------------------------------
(***************************************************************************)
(* An index run of the desktop application: IndexProcess starts a child,   *)
(* reads its lines, handles its end, and cancels it together with the      *)
(* processes below it; the tab and the window follow its signals.  The     *)
(* child and its pool of parsers go their own ways meanwhile, also while   *)
(* kill_process_tree has the thread of the windows.                        *)
(***************************************************************************)
EXTENDS FiniteSets

VARIABLES
    child,      \* the process of the current job, until its end is handled
    parsers,    \* the processes below it: not yet started, alive, gone
    published,  \* the child has published its snapshot
    result,     \* IndexProcess._result: the "done" line has been printed
    cancelled,
    family,     \* what kill_process_tree has still to signal
    badge,      \* the window says that an index is being built
    told,       \* how the last job was reported
    grown       \* history: the family grew after it was listed

childVars == <<child, parsers, published, result>>
reportVars == <<badge, told>>
jobVars == <<childVars, cancelled, family, reportVars, grown>>

\* IndexProcess.isRunning; a program that did not start is not running.
IsRunning == child \in {"starting", "running", "exited", "broken"}

\* The thread of the windows is not in kill_process_tree.
Responsive == family = {}

----------------------------------------------------------------------------
\* start_indexing, _begin and start; the previous job may never have finished.
StartIndexing ==
    /\ Responsive /\ ~IsRunning
    /\ child' = "starting" /\ parsers' = "none"
    /\ published' = FALSE /\ result' = FALSE
    /\ cancelled' = FALSE /\ grown' = FALSE
    /\ badge' = TRUE /\ told' = "nothing"
    /\ UNCHANGED family

\* A program that cannot be started is an error, and never finishes.
ChildStarts ==
    /\ child = "starting"
    /\ child' \in {"running", "failed"}
    /\ UNCHANGED <<parsers, published, result, cancelled, family, reportVars, grown>>

ParsersStart ==
    /\ child = "running" /\ parsers = "none" /\ ~published
    /\ parsers' = "alive"
    /\ grown' = (grown \/ "child" \in family)
    /\ UNCHANGED <<child, published, result, cancelled, family, reportVars>>

ParsersEnd ==
    /\ child = "running" /\ parsers = "alive"
    /\ parsers' = "gone"
    /\ UNCHANGED <<child, published, result, cancelled, family, reportVars, grown>>

ChildPublishes ==
    /\ child = "running" /\ parsers # "alive" /\ ~published
    /\ published' = TRUE
    /\ UNCHANGED <<child, parsers, result, cancelled, family, reportVars, grown>>

ChildPrintsDone ==
    /\ child = "running" /\ published /\ ~result
    /\ result' = TRUE
    /\ UNCHANGED <<child, parsers, published, cancelled, family, reportVars, grown>>

\* With code 0 after its "done" line; an error may come before or after it.
ChildExits ==
    /\ child = "running" /\ parsers # "alive"
    /\ child' \in {"broken"} \cup (IF result THEN {"exited"} ELSE {})
    /\ UNCHANGED <<parsers, published, result, cancelled, family, reportVars, grown>>

----------------------------------------------------------------------------
(* cancel and kill_process_tree *)

CancelLists ==
    /\ Responsive /\ IsRunning
    /\ cancelled' = TRUE
    /\ family' = (IF child \in {"starting", "running"} THEN {"child"} ELSE {})
                 \cup (IF parsers = "alive" THEN {"parsers"} ELSE {})
    /\ UNCHANGED <<childVars, reportVars, grown>>

\* Children are signalled before the parent.
KillParsers ==
    /\ "parsers" \in family
    /\ family' = family \ {"parsers"}
    /\ parsers' = "gone"
    /\ UNCHANGED <<child, published, result, cancelled, reportVars, grown>>

KillChild ==
    /\ family = {"child"}
    /\ family' = {}
    /\ child' = IF child \in {"starting", "running"} THEN "broken" ELSE child
    /\ UNCHANGED <<parsers, published, result, cancelled, reportVars, grown>>

----------------------------------------------------------------------------
(* _on_finished, _on_index_finished, _on_index_failed, _on_indexing_finished *)

Outcome ==
    IF cancelled THEN "cancelled"
    ELSE IF child = "exited" /\ result THEN "indexed" ELSE "error"

\* Mutant of Finishes: the end of a cancelled job is not handled.
FinishesAlone == Responsive /\ child \in {"exited", "broken"} /\ ~cancelled

Finishes == Responsive /\ child \in {"exited", "broken"}

JobFinished ==
    /\ Finishes
    /\ told' = Outcome /\ badge' = FALSE /\ child' = "none"
    /\ UNCHANGED <<parsers, published, result, cancelled, family, grown>>

----------------------------------------------------------------------------
JobInit ==
    /\ child = "none" /\ parsers = "none" /\ published = FALSE /\ result = FALSE
    /\ cancelled = FALSE /\ family = {} /\ badge = FALSE /\ told = "nothing"
    /\ grown = FALSE

Killing == KillParsers \/ KillChild

JobNext ==
    \/ StartIndexing \/ ChildStarts \/ ParsersStart \/ ParsersEnd
    \/ ChildPublishes \/ ChildPrintsDone \/ ChildExits
    \/ CancelLists \/ Killing \/ JobFinished

\* The thread of the windows goes on, and an index run comes to its end.
JobFairness ==
    /\ WF_jobVars(Killing) /\ WF_jobVars(JobFinished)
    /\ WF_jobVars(ChildStarts) /\ WF_jobVars(ParsersEnd) /\ WF_jobVars(ChildExits)

JobSpec == JobInit /\ [][JobNext]_jobVars /\ JobFairness

----------------------------------------------------------------------------
JobTypeOK ==
    /\ child \in {"none", "starting", "running", "failed", "exited", "broken"}
    /\ parsers \in {"none", "alive", "gone"}
    /\ published \in BOOLEAN /\ result \in BOOLEAN /\ cancelled \in BOOLEAN
    /\ family \subseteq {"child", "parsers"} /\ badge \in BOOLEAN
    /\ told \in {"nothing", "indexed", "error", "cancelled"} /\ grown \in BOOLEAN

\* A job is reported once and truly: the badge stands for a job whose end has
\* not been handled, indexed is only said of what was published, and after a
\* cancellation no process is left, unless the family grew while it was killed.
JobTold ==
    /\ badge = (child # "none")
    /\ told = "indexed" => published /\ ~cancelled
    /\ told = "cancelled" /\ ~grown => parsers # "alive"

\* The badge goes some day, whether the run succeeds, breaks or is cancelled,
\* unless its program could not be started.
JobsEnd == []JobTold /\ (badge ~> ~badge \/ child = "failed")
=============================================================================
