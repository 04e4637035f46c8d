------------------------- MODULE PublishedSnapshot -------------------------
(***************************************************************************)
(* What the index directory promises the readers of one repository,        *)
(* whatever the indexers, the collector and the desktop application do:    *)
(* there is a set of complete snapshots and one of them, once there is     *)
(* any, is current.  The current one changes in one step, always to a      *)
(* complete snapshot, and a snapshot is only discarded while another one   *)
(* is current.  SnapshotPublish implements this specification.             *)
(***************************************************************************)
CONSTANTS Runs,      \* the snapshots that can ever exist (index_run_id)
          NoRun      \* not one of Runs: nothing has been published yet

VARIABLES complete,  \* snapshots a reader can open
          current    \* the one it is directed to

avars == <<complete, current>>

AInit == complete = {} /\ current = NoRun

\* A finished build adds a snapshot nobody is directed to yet.
Complete(r) ==
    /\ r \in Runs \ complete
    /\ complete' = complete \cup {r}
    /\ UNCHANGED current

\* Readers are redirected, all at once, to a complete snapshot.
Publish(r) ==
    /\ r \in complete
    /\ current' = r
    /\ UNCHANGED complete

\* Collection discards any snapshots except the current one.
Discard(S) ==
    /\ S \subseteq complete
    /\ current \notin S
    /\ complete' = complete \ S
    /\ UNCHANGED current

ANext ==
    \/ \E r \in Runs : Complete(r) \/ Publish(r)
    \/ \E S \in SUBSET complete : Discard(S)

ASpec == AInit /\ [][ANext]_avars
=============================================================================
