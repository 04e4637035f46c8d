------------------------------ MODULE MCMemory ------------------------------
(***************************************************************************)
(* The shared memory database: locks, entries, and the migration at its    *)
(* opening.  Locks and entries are tables no call touches together, and a  *)
(* migration ends before its process serves, so the parts share no         *)
(* variable: the one that moves is chosen at the start of a behaviour.     *)
(*                                                                         *)
(* Locks: three sessions, two of them of one agent, that want one          *)
(* resource.  Entries: two servers, two keys and the target of             *)
(* consolidations, entries that live one unit or for ever, a clean-up      *)
(* every second put and a list shorter than the table.  Migration: two     *)
(* processes and three rows of the old schema, two of which collide under  *)
(* the new one.                                                            *)
(***************************************************************************)
EXTENDS MemoryLocks, MemoryEntries, MemoryMigration, TLC

VARIABLE part

CONSTANTS a1, a2, s1, s2, s3, o1, o2, o3

MCAgentOf == s1 :> a1 @@ s2 :> a1 @@ s3 :> a2
MCTtls == {-1, 1, 3}
MCRowKey == o1 :> 1 @@ o2 :> 1 @@ o3 :> 2

\* The servers and starting processes are s1 and s2 as well, so that one
\* permutation serves all parts.
Symmetry == Permutations({s1, s2}) \cup Permutations(Keys)

MemoryInit ==
    /\ part \in {"locks", "entries", "migration"}
    /\ IF part = "migration" THEN TRUE ELSE main = {}
    /\ LocksInit /\ Init /\ MigrationInit

MemoryNext ==
    \/ /\ part = "locks" /\ LocksNext
       /\ UNCHANGED <<vars, migrationVars>>
    \/ /\ part = "entries" /\ Next
       /\ UNCHANGED <<lockVars, migrationVars>>
    \/ /\ part = "migration" /\ MigrationNext
       /\ UNCHANGED <<lockVars, vars>>

memoryVars == <<part, lockVars, vars, migrationVars>>

MemorySpec == MemoryInit /\ [][MemoryNext /\ UNCHANGED part]_memoryVars

\* The state of the part that moves is of its type; the others keep an initial
\* state, which the behaviours of their own part check.
MemoryTypeOK ==
    /\ part = "locks" => LocksTypeOK
    /\ part = "entries" => TypeOK
    /\ part = "migration" => MigrationTypeOK
=============================================================================
