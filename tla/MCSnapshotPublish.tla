------------------------- MODULE MCSnapshotPublish -------------------------
(***************************************************************************)
(* A small index directory: two index runs at a time and one desktop       *)
(* application.                                                            *)
(***************************************************************************)
EXTENDS SnapshotPublish, TLC

Symmetry == Permutations(Runs) \cup Permutations(Builders)
=============================================================================
