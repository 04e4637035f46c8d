------------------------------ MODULE MCServer ------------------------------
(***************************************************************************)
(* What a server keeps between requests and how it goes stale: the pointer *)
(* cache and connection pool, the graph cache, the freshness cache and the *)
(* copy of the registry; and the requests that are made of several.  The   *)
(* parts share no variable, so the one that moves is chosen at the start   *)
(* of a behaviour and the others stay as they are: an invariant of a part  *)
(* holds here if and only if it holds of that part alone.  The parts use   *)
(* the same few model values, so that one small group of permutations      *)
(* serves them all.                                                        *)
(***************************************************************************)
EXTENDS SnapshotReaders, GraphCache, Freshness, Registry, Workflows, TLC

VARIABLE part

CONSTANTS x1, x2, y1, y2

Symmetry == Permutations({x1, x2}) \cup Permutations({y1, y2})

\* Three repositories, one of them with two snapshots, and room for two graphs.
MCKeys == {[repo |-> "a", run |-> 1], [repo |-> "a", run |-> 2],
           [repo |-> "b", run |-> 1], [repo |-> "c", run |-> 1]}

\* What a snapshot may know of a name: one exact match, one other, several, none.
Knows(exact, other, calls) == [exact |-> exact, other |-> other, edges |-> calls]
MCSymbols ==
    {Knows({1}, {2}, 2), Knows({}, {1}, 1), Knows({2}, {1}, 0),
     Knows({1, 2}, {}, 1), Knows({}, {}, 0)}

\* Batches of up to three operations, and two that are refused.
MCBatches ==
    UNION {[1..k -> {"find", "context", "inspect", "write"}] : k \in 0..3}
    \cup {<<"find", "find", "find", "find">>}

ServerInit ==
    /\ part \in {"readers", "graphs", "freshness", "registry", "workflows"}
    /\ IF part = "freshness" THEN TRUE ELSE file = [p \in Paths |-> Absent]
    /\ IF part = "workflows" THEN TRUE ELSE index = [r \in 1..LastRun |-> Knows({}, {}, 0)]
    /\ Init /\ GraphInit /\ FreshInit /\ RegistryInit /\ WorkInit

ServerNext ==
    \/ /\ part = "readers" /\ Next
       /\ UNCHANGED <<graphVars, freshVars, registryVars, workVars>>
    \/ /\ part = "graphs" /\ GraphNext
       /\ UNCHANGED <<vars, freshVars, registryVars, workVars>>
    \/ /\ part = "freshness" /\ FreshNext
       /\ UNCHANGED <<vars, graphVars, registryVars, workVars>>
    \/ /\ part = "registry" /\ RegistryNext
       /\ UNCHANGED <<vars, graphVars, freshVars, workVars>>
    \/ /\ part = "workflows" /\ WorkNext
       /\ UNCHANGED <<vars, graphVars, freshVars, registryVars>>

serverVars == <<part, vars, graphVars, freshVars, registryVars, workVars>>

ServerSpec == ServerInit /\ [][ServerNext /\ UNCHANGED part]_serverVars

\* The state of the part that moves is of its type; the others keep an initial
\* state, which the behaviours of their own part check.
ServerTypeOK ==
    /\ part = "readers" => TypeOK
    /\ part = "graphs" => GraphTypeOK
    /\ part = "freshness" => FreshTypeOK
    /\ part = "registry" => RegistryTypeOK
    /\ part = "workflows" => WorkTypeOK
=============================================================================
