--------------------------- MODULE MCControlPlane ---------------------------
(***************************************************************************)
(* The threads of one server, and its agents.  Other servers act on it     *)
(* only through what they write to the database, and Desktop writes every  *)
(* order at any time, so a second server shows the first one nothing new.  *)
(***************************************************************************)
EXTENDS ControlPlane, TLC

\* At first nobody is halted and no agent is known to the database.
MCTables == {[Nothing EXCEPT ![Halt] = "open"]}

Symmetry == Permutations(Threads) \cup Permutations(Agents)
=============================================================================
