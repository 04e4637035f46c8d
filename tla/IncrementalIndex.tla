--------------------------- MODULE IncrementalIndex ---------------------------
(***************************************************************************)
(* What build_index puts into a snapshot while the tree changes: which     *)
(* files it takes over from the previous snapshot by their time, which it  *)
(* reads, and which edges _resolve_edges keeps.  How a snapshot is written *)
(* and published is in SnapshotPublish; a run here works from the snapshot *)
(* it loaded at its start, as an immutable whole.                          *)
(*                                                                         *)
(* A text stands for its digest and for what the parser extracts:          *)
(*   parents  <<class, parent>> pairs it declares                          *)
(*   defs     its functions in source order: class (None at top level),    *)
(*            name, return type (for the whole signature) and start        *)
(*   calls    the calls it makes, none of them to the caller itself: name, *)
(*            the function its receiver was assigned from (via; None       *)
(*            without a receiver), and what an import binds the name to    *)
(*            (orig, the name itself where there is no such import)        *)
(* All texts have one size, all files are in one directory and in Python   *)
(* or JavaScript; Java and C# bind calls by other rules.                   *)
(***************************************************************************)
EXTENDS Integers, Sequences, FiniteSets, Subsequences

CONSTANTS
    Paths,
    TextsOf,      \* the texts a file may have
    FirstText,    \* the text a file has at first
    Absent,       \* the file does not exist, or is not indexed
    None,         \* no type, no function, no target
    Racy,         \* RACY_WINDOW_NS
    Granularity,  \* of the file system's times
    MaxTime,      \* bound of the model: the clock stops here
    MaxEdits      \* bound of the model: changes of files

\* The id of a symbol is its own in the repository.
IdsUnique(p, text) ==
    LET defs == text.defs IN
    /\ defs \in Seq({defs[i] : i \in DOMAIN defs})
    /\ \A i, j \in DOMAIN defs :
          /\ defs[i].class = defs[j].class /\ defs[i].name = defs[j].name
          /\ defs[i].at = defs[j].at
          => i = j
    /\ \A i \in DOMAIN defs : None # <<p, defs[i].class, defs[i].name, defs[i].at>>

ASSUME IncrementalAssumption ==
    /\ IsFiniteSet(Paths)
    /\ \A p \in Paths : /\ Absent \notin TextsOf[p]
                       /\ FirstText[p] \in TextsOf[p] \cup {Absent}
                       /\ \A text \in TextsOf[p] : IdsUnique(p, text)
    /\ Racy \in Nat /\ Granularity \in Nat \ {0} /\ Granularity <= Racy
    /\ MaxTime \in Nat /\ MaxEdits \in Nat

VARIABLES
    now,
    tree,      \* text and time of every file
    edits,
    snap,      \* the published snapshot
    pc, mode,  \* the run, and how it was called
    started,   \* scan_started_at_ns
    seen,      \* what the run has found out about every file
    shown      \* history: texts a file has had since the run began

treeVars == <<now, tree, edits>>
vars == <<treeVars, snap, pc, mode, started, seen, shown>>

Unknown == [how |-> "unknown", text |-> Absent, mtime |-> 0]
NoSnapshot == [texts |-> [p \in Paths |-> Absent],
               mtimes |-> [p \in Paths |-> 0], started |-> 0, edges |-> {}]

Texts(p) == TextsOf[p] \cup {Absent}

----------------------------------------------------------------------------
(* Symbols and the resolution of calls, build_lexical_edges by the inputs  *)
(* it looks at.                                                            *)

SymbolsOf(p, text) ==
    IF text = Absent THEN {}
    ELSE {[path |-> p, class |-> d.class, name |-> d.name, ret |-> d.ret,
           at |-> d.at] : d \in {text.defs[i] : i \in DOMAIN text.defs}}

Symbols(texts) == UNION {SymbolsOf(p, texts[p]) : p \in Paths}

Id(s) == <<s.path, s.class, s.name, s.at>>
Ids(S) == {Id(s) : s \in S}

CallsOf(text) == IF text = Absent THEN {} ELSE text.calls

Hierarchy(texts) ==
    UNION {texts[p].parents : p \in {q \in Paths : texts[q] # Absent}}

\* The return type of the functions of that name, if they agree.
ReturnType(S, name) ==
    LET types == {s.ret : s \in {x \in S : x.name = name /\ x.ret # None}} IN
    IF Cardinality(types) = 1 THEN CHOOSE t \in types : TRUE ELSE None

Candidates(S, call) ==
    LET named(name) == {s \in S : s.name = name} IN
    IF named(call.name) # {} THEN named(call.name) ELSE named(call.orig)

Only(S) == IF Cardinality(S) = 1 THEN Id(CHOOSE s \in S : TRUE) ELSE None

\* With a receiver: the member of its type, then the inherited one.  Without:
\* the function of the same file, then the only one of that name.
Target(p, call, texts) ==
    LET S == Symbols(texts)
        all == Candidates(S, call)
        inFile(T) == {s \in T : s.path = p}
        type == ReturnType(S, call.via)
        typed == {s \in all : s.class = type}
        inherited == {s \in all : <<type, s.class>> \in Hierarchy(texts)}
    IN  IF call.via # None
        THEN IF type = None THEN None
             ELSE IF typed = {} THEN Only(inherited)
             ELSE IF Cardinality(typed) = 1 THEN Only(typed)
             ELSE Only(inFile(typed))
        ELSE IF inFile(all) # {} THEN Only(inFile(all)) ELSE Only(all)

\* Calls without a candidate have no edge.
Resolve(paths, texts) ==
    UNION {{[path |-> p, call |-> c, target |-> Target(p, c, texts)] :
                c \in {d \in CallsOf(texts[p]) :
                          Candidates(Symbols(texts), d) # {}}} : p \in paths}

----------------------------------------------------------------------------
(* _resolve_edges *)

\* The functions of a text with that name, in their order.
DefsNamed(text, name) ==
    Picked(text.defs, {i \in DOMAIN text.defs : text.defs[i].name = name})

\* The entry of a name in _name_index, for one file: starts are not in it.
Entry(text, name) ==
    IF text = Absent THEN <<>>
    ELSE LET named == DefsNamed(text, name) IN
         [i \in DOMAIN named |-> <<named[i].class, named[i].ret>>]

Changed(name, old, new) ==
    \E p \in Paths : Entry(old[p], name) # Entry(new[p], name)

\* call_names and assigned_from of a file's artifact.
Mentions(text) ==
    {c.name : c \in CallsOf(text)}
        \cup ({c.via : c \in CallsOf(text)} \ {None})

\* id_map: in a file parsed again, the symbol of that qualified name, where it
\* is the only one before and after.
NewId(id, old, new, reparsed) ==
    LET same(texts) == {s \in SymbolsOf(id[1], texts[id[1]]) :
                           s.class = id[2] /\ s.name = id[3]}
    IN  IF /\ id[1] \in reparsed
           /\ Cardinality(same(old)) = 1 /\ Cardinality(same(new)) = 1
        THEN Id(CHOOSE s \in same(new) : TRUE)
        ELSE id

Moved(edge, old, new, reparsed) ==
    IF edge.target = None THEN edge
    ELSE [edge EXCEPT !.target = NewId(@, old, new, reparsed)]

EdgesAt(edges, p) == {e \in edges : e.path = p}

\* Files whose edges are resolved again.
Dirty(previous, new, reparsed) ==
    LET old == previous.texts
        lost(e) == LET target == Moved(e, old, new, reparsed).target IN
                   target # None /\ target \notin Ids(Symbols(new))
    IN  {p \in Paths : new[p] # Absent /\
            \/ p \in reparsed \/ old[p] = Absent
            \/ \E name \in Mentions(new[p]) : Changed(name, old, new)
            \/ \E e \in EdgesAt(previous.edges, p) : lost(e)}

\* Mutant of ResolveEdges: without the fingerprint of the hierarchy.
ResolveEdgesAnyContext(previous, new, reparsed) ==
    LET dirty == Dirty(previous, new, reparsed)
        kept == {p \in Paths : new[p] # Absent} \ dirty
    IN  Resolve(dirty, new) \cup
        {Moved(e, previous.texts, new, reparsed) :
            e \in {d \in previous.edges : d.path \in kept}}

\* Mutant of ResolveEdges: kept edges lead where they did.
ResolveEdgesUnmoved(previous, new, reparsed) ==
    IF Hierarchy(previous.texts) # Hierarchy(new)
    THEN Resolve(Paths, new)
    ELSE LET dirty == Dirty(previous, new, reparsed)
             kept == {p \in Paths : new[p] # Absent} \ dirty
         IN  Resolve(dirty, new) \cup {e \in previous.edges : e.path \in kept}

\* A full resolution unless the context is the same; otherwise only dirty
\* files are resolved and the others keep their edges.
ResolveEdges(previous, new, reparsed) ==
    IF Hierarchy(previous.texts) # Hierarchy(new)
    THEN Resolve(Paths, new)
    ELSE LET dirty == Dirty(previous, new, reparsed)
             kept == {p \in Paths : new[p] # Absent} \ dirty
         IN  Resolve(dirty, new) \cup
             {Moved(e, previous.texts, new, reparsed) :
                 e \in {d \in previous.edges : d.path \in kept}}

----------------------------------------------------------------------------
(* The tree. *)

Stamp(t) == t - (t % Granularity)

\* A file is created, written or removed.
Edit(p, text) ==
    /\ edits < MaxEdits /\ text # tree[p].text
    /\ edits' = edits + 1
    /\ tree' = [tree EXCEPT ![p] = [text |-> text, mtime |-> Stamp(now)]]
    /\ shown' = IF pc = "idle" THEN shown ELSE [shown EXCEPT ![p] = @ \cup {text}]
    /\ UNCHANGED <<now, snap, pc, mode, started, seen>>

Tick ==
    /\ now < MaxTime
    /\ now' = now + 1
    /\ UNCHANGED <<tree, edits, snap, pc, mode, started, seen, shown>>

----------------------------------------------------------------------------
(* build_index *)

\* With full_rebuild, and where there is none it can use, the run has no
\* previous snapshot.
Previous == IF mode = "full" THEN NoSnapshot ELSE snap

Begin(m) ==
    /\ pc = "idle"
    /\ pc' = "classify" /\ mode' = m
    /\ started' = now
    /\ seen' = [p \in Paths |-> Unknown]
    /\ shown' = [p \in Paths |-> {tree[p].text}]
    /\ UNCHANGED <<treeVars, snap>>

\* Mutant of Trusted: without the window.
TrustedAtOnce(p) ==
    /\ mode = "stat" /\ Previous.texts[p] # Absent
    /\ Previous.mtimes[p] = tree[p].mtime
    /\ Previous.mtimes[p] < Previous.started

Trusted(p) ==
    /\ mode = "stat" /\ Previous.texts[p] # Absent
    /\ Previous.mtimes[p] = tree[p].mtime
    /\ Previous.mtimes[p] < Previous.started - Racy

\* The size and the time are taken before the text is read.
Classify(p) ==
    /\ pc = "classify" /\ seen[p].how = "unknown"
    /\ seen' = [seen EXCEPT ![p] =
          IF tree[p].text = Absent
          THEN [how |-> "skipped", text |-> Absent, mtime |-> 0]
          ELSE IF Trusted(p)
          THEN [how |-> "reused", text |-> Previous.texts[p],
                mtime |-> Previous.mtimes[p]]
          ELSE [how |-> "candidate", text |-> Absent, mtime |-> tree[p].mtime]]
    /\ UNCHANGED <<treeVars, snap, pc, mode, started, shown>>

\* A candidate that is gone is skipped; one with the digest of the previous
\* snapshot is reused, with the new time.
ReadFile(p) ==
    /\ pc = "classify"
    /\ \A q \in Paths : seen[q].how # "unknown"
    /\ seen[p].how = "candidate"
    /\ seen' = [seen EXCEPT ![p] =
          [how |-> CASE tree[p].text = Absent -> "skipped"
                     [] tree[p].text = Previous.texts[p] -> "reused"
                     [] OTHER -> "parsed",
           text |-> tree[p].text, mtime |-> @.mtime]]
    /\ UNCHANGED <<treeVars, snap, pc, mode, started, shown>>

\* The edges are resolved and the snapshot is published.
Finish ==
    /\ pc = "classify"
    /\ \A p \in Paths : seen[p].how \in {"skipped", "reused", "parsed"}
    /\ LET texts == [p \in Paths |-> seen[p].text]
           reparsed == {p \in Paths : seen[p].how = "parsed"}
       IN  snap' = [texts |-> texts,
                    mtimes |-> [p \in Paths |-> seen[p].mtime],
                    started |-> started,
                    edges |-> ResolveEdges(Previous, texts, reparsed)]
    /\ pc' = "idle"
    /\ seen' = [p \in Paths |-> Unknown]
    /\ started' = 0 /\ mode' = "stat"
    /\ shown' = [p \in Paths |-> {}]
    /\ UNCHANGED treeVars

\* An exception or a kill: nothing of the run is left.
Fail ==
    /\ pc = "classify"
    /\ pc' = "idle"
    /\ seen' = [p \in Paths |-> Unknown]
    /\ started' = 0 /\ mode' = "stat"
    /\ shown' = [p \in Paths |-> {}]
    /\ UNCHANGED <<treeVars, snap>>

----------------------------------------------------------------------------
Init ==
    /\ now = 0 /\ edits = 0
    /\ tree = [p \in Paths |-> [text |-> FirstText[p], mtime |-> 0]]
    /\ snap = NoSnapshot
    /\ pc = "idle" /\ mode = "stat" /\ started = 0
    /\ seen = [p \in Paths |-> Unknown]
    /\ shown = [p \in Paths |-> {}]

Next ==
    \/ \E p \in Paths : \E text \in Texts(p) : Edit(p, text)
    \/ Tick
    \/ \E m \in {"stat", "hash", "full"} : Begin(m)
    \/ \E p \in Paths : Classify(p) \/ ReadFile(p)
    \/ Finish \/ Fail

Spec == Init /\ [][Next]_vars

----------------------------------------------------------------------------
TypeOK ==
    /\ now \in 0..MaxTime /\ edits \in 0..MaxEdits
    /\ \A p \in Paths : tree[p].text \in Texts(p) /\ tree[p].mtime \in 0..now
    /\ \A p \in Paths : snap.texts[p] \in Texts(p) /\ snap.mtimes[p] \in 0..now
    /\ snap.started \in 0..now
    /\ \A e \in snap.edges :
          /\ e.path \in Paths /\ e.call \in CallsOf(snap.texts[e.path])
          /\ e.target \in Ids(Symbols(snap.texts)) \cup {None}
    /\ pc \in {"idle", "classify"} /\ mode \in {"stat", "hash", "full"}
    /\ started \in 0..now
    /\ \A p \in Paths :
          /\ seen[p].how \in {"unknown", "skipped", "candidate", "reused", "parsed"}
          /\ seen[p].text \in Texts(p) /\ seen[p].mtime \in 0..now
          /\ shown[p] \subseteq Texts(p)

\* What a run is going to publish of a file is a text the file has had since
\* the run began, also where only the time was looked at: no write is missed
\* that the file system's times cannot tell from the one before it.
ReadsTheTree ==
    \A p \in Paths :
        seen[p].how \in {"skipped", "reused", "parsed"} =>
            seen[p].text \in shown[p]

\* Invariant I1 of the source: an incremental snapshot is the one a build from
\* scratch would make of the same texts, edges included.
EquivalentToFull == snap.edges = Resolve(Paths, snap.texts)
=============================================================================
