----------------------------- MODULE GraphCache -----------------------------
(***************************************************************************)
(* GraphCache: the symbol graphs a server keeps, by repository and index   *)
(* run, at most Capacity of them.  A graph is loaded outside the lock, so  *)
(* threads may load the same one, evict each other's or invalidate a       *)
(* repository meanwhile.  A graph stands for the load that made it; what   *)
(* it holds is fixed by its key, since a published snapshot never changes. *)
(***************************************************************************)
EXTENDS Integers, Sequences, FiniteSets, SequencesExt, Subsequences

CONSTANTS
    Getters,     \* threads that ask for graphs
    Keys,        \* [repo, run] pairs
    Capacity,    \* the 3 of GraphCache
    MaxLoads     \* bound of the model: graphs loaded

ASSUME GraphAssumption ==
    /\ Capacity \in Nat \ {0} /\ MaxLoads \in Nat /\ Keys # {}
    /\ \A k \in Keys : k = [repo |-> k.repo, run |-> k.run]

VARIABLES
    graphs,      \* _cache, least recently used first: [key, load]
    gat,         \* where each thread is
    wanted,      \* the key it asked for
    held,        \* the graph it loaded or was given
    loads,       \* graphs loaded so far
    left,        \* history: threads whose key has left the cache since
    uses         \* history: keys in order of use, without the invalidated

graphVars == <<graphs, gat, wanted, held, loads, left, uses>>

NoGraph == 0
Cached(k) == \E i \in DOMAIN graphs : graphs[i].key = k
EntryOf(k) == CHOOSE g \in ToSet(graphs) : g.key = k
Holders(ks) == {t \in Getters : gat[t] = "done" /\ wanted[t] \in ks}

\* The graphs, and the keys used, without those of some keys.
Others(ks) == Picked(graphs, {i \in DOMAIN graphs : graphs[i].key \notin ks})
UsesWithout(ks) == Picked(uses, {i \in DOMAIN uses : uses[i] \notin ks})

MoveToEnd(k) == Append(Others({k}), EntryOf(k))
Use(k) == uses' = Append(UsesWithout({k}), k)

----------------------------------------------------------------------------
(* get_graph *)

Hit(t, k) ==
    /\ gat[t] = "idle" /\ Cached(k)
    /\ graphs' = MoveToEnd(k) /\ Use(k)
    /\ wanted' = [wanted EXCEPT ![t] = k]
    /\ held' = [held EXCEPT ![t] = EntryOf(k).load]
    /\ gat' = [gat EXCEPT ![t] = "done"]
    /\ left' = left \ {t}
    /\ UNCHANGED loads

Miss(t, k) ==
    /\ gat[t] = "idle" /\ ~Cached(k) /\ loads < MaxLoads
    /\ wanted' = [wanted EXCEPT ![t] = k]
    /\ gat' = [gat EXCEPT ![t] = "loading"]
    /\ UNCHANGED <<graphs, held, loads, left, uses>>

\* symbols, edges, files and ranks are read and the graph is built.
Load(t) ==
    /\ gat[t] = "loading"
    /\ loads' = loads + 1
    /\ held' = [held EXCEPT ![t] = loads + 1]
    /\ gat' = [gat EXCEPT ![t] = "loaded"]
    /\ UNCHANGED <<graphs, wanted, left, uses>>

Evict(s) == SubSeq(s, 1 + (IF Len(s) > Capacity THEN Len(s) - Capacity ELSE 0),
                   Len(s))
Evicted(s) == ToSet(s) \ ToSet(Evict(s))

\* Mutant of Keep: the second look under the lock is left out.
KeepAnyway(t) ==
    LET grown == Append(graphs, [key |-> wanted[t], load |-> held[t]]) IN
    /\ gat[t] = "loaded"
    /\ graphs' = Evict(grown) /\ Use(wanted[t])
    /\ left' = (left \ {t}) \cup Holders({g.key : g \in Evicted(grown)})
    /\ gat' = [gat EXCEPT ![t] = "done"]
    /\ UNCHANGED <<wanted, held, loads>>

\* Another thread may have been faster: then its graph is used.
Keep(t) ==
    LET k == wanted[t]
        grown == Append(graphs, [key |-> k, load |-> held[t]])
    IN
    /\ gat[t] = "loaded"
    /\ IF Cached(k)
       THEN /\ graphs' = MoveToEnd(k)
            /\ held' = [held EXCEPT ![t] = EntryOf(k).load]
            /\ left' = left \ {t}
       ELSE /\ graphs' = Evict(grown)
            /\ left' = (left \ {t})
                           \cup Holders({g.key : g \in Evicted(grown)})
            /\ UNCHANGED held
    /\ Use(k)
    /\ gat' = [gat EXCEPT ![t] = "done"]
    /\ UNCHANGED <<wanted, loads>>

\* The request is over and lets the graph go.
LetGo(t) ==
    /\ gat[t] = "done"
    /\ gat' = [gat EXCEPT ![t] = "idle"]
    /\ held' = [held EXCEPT ![t] = NoGraph]
    /\ left' = left \ {t}
    /\ UNCHANGED <<graphs, wanted, loads, uses>>

----------------------------------------------------------------------------
\* invalidate, of one repository or, with all of them, of everything.
Invalidate(repos) ==
    LET gone == {k \in Keys : k.repo \in repos} IN
    /\ graphs' = Others(gone)
    /\ uses' = UsesWithout(gone)
    /\ left' = left \cup Holders(gone)
    /\ UNCHANGED <<gat, wanted, held, loads>>

Repositories == {k.repo : k \in Keys}

GraphInit ==
    /\ graphs = <<>> /\ uses = <<>> /\ loads = 0 /\ left = {}
    /\ gat = [t \in Getters |-> "idle"]
    /\ wanted \in [Getters -> {CHOOSE k \in Keys : TRUE}]
    /\ held = [t \in Getters |-> NoGraph]

GraphNext ==
    \/ \E t \in Getters :
           \/ \E k \in Keys : Hit(t, k) \/ Miss(t, k)
           \/ Load(t) \/ Keep(t) \/ LetGo(t)
    \/ \E repos \in {{r} : r \in Repositories} \cup {Repositories} :
           Invalidate(repos)

GraphSpec == GraphInit /\ [][GraphNext]_graphVars

----------------------------------------------------------------------------
GraphTypeOK ==
    /\ graphs \in Seq([key : Keys, load : 1..loads])
    /\ gat \in [Getters -> {"idle", "loading", "loaded", "done"}]
    /\ wanted \in [Getters -> Keys] /\ left \subseteq Getters
    /\ loads \in Nat /\ held \in [Getters -> 0..loads]
    /\ uses \in Seq(Keys)

\* The cache holds the keys used last, once each, in the order of their use,
\* and threads that use the graph of one key share one object, the one that is
\* cached unless the key left the cache since they got it, however loads,
\* evictions and invalidations interleave.
GraphsShared ==
    /\ Len(graphs) <= Capacity
    /\ IsSuffix([i \in DOMAIN graphs |-> graphs[i].key], uses)
    /\ \A i, j \in DOMAIN graphs : graphs[i].key = graphs[j].key => i = j
    /\ \A t \in Getters : gat[t] = "done" /\ t \notin left =>
           [key |-> wanted[t], load |-> held[t]] \in ToSet(graphs)
=============================================================================
