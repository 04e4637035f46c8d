-------------------------- MODULE MCSnapshotReaders ------------------------
(***************************************************************************)
(* Two threads of one server over three snapshots.                         *)
(***************************************************************************)
EXTENDS SnapshotReaders, TLC

Symmetry == Permutations(Threads) \cup Permutations(Runs \ {FirstRun})
=============================================================================
