------------------------------ MODULE Traversal ------------------------------
(***************************************************************************)
(* The walks over the call graph of a snapshot: the breadth-first search   *)
(* behind impact slices and symbol contexts, and the expansion of search   *)
(* hits to their neighbours, whose weights multiply along a path.          *)
(***************************************************************************)
EXTENDS Integers, Sequences, FiniteSets, SequencesExt, Subsequences

CONSTANTS
    Nodes,
    NoTarget,    \* an edge whose target is not a symbol
    Requests     \* the graphs and questions: records of the fields below

(* graph: a sequence of edges [from, to, conf]; root, dirs, depth, max for   *)
(* the search; anchors, hops, k, min and factor (of each node's score) for   *)
(* the expansion.  Weights are in tenths, products in their powers.          *)

\* Symbols have an order, and a search returns its root at least.
ASSUME WalkAssumption ==
    /\ Nodes \subseteq Nat /\ IsFiniteSet(Nodes) /\ NoTarget \notin Nodes
    /\ \A r \in Requests :
          /\ r.graph \in Seq([from : Nodes, to : Nodes \cup {NoTarget}, conf : Nat])
          /\ r.root \in Nodes /\ r.depth \in Nat /\ r.max \in Nat \ {0}
          /\ r.anchors \in Seq(Nodes) /\ r.hops \in Nat /\ r.factor \in [Nodes -> Nat]

VARIABLES
    req, stage,
    visited, queue, edges, limited,    \* the search
    rank, frontier, reach, hop,        \* the expansion of one anchor
    neighbours                         \* [Nodes -> the best offer for each]

searchVars == <<visited, queue, edges, limited>>
expandVars == <<rank, frontier, reach, hop, neighbours>>
walkVars == <<req, stage, searchVars, expandVars>>

Unreached == [weight |-> 0, rel |-> "none"]
NoOffer == [score |-> 0, rank |-> 0]
Empty == [x \in Nodes |-> Unreached]

----------------------------------------------------------------------------
(* RepoGraph.traverse *)

Incident(node) ==
    LET out == {i \in DOMAIN req.graph : req.graph[i].from = node}
        inc == {i \in DOMAIN req.graph : req.graph[i].to = node}
    IN  (IF "callees" \in req.dirs THEN Picked(req.graph, out) ELSE <<>>)
        \o (IF "callers" \in req.dirs THEN Picked(req.graph, inc) ELSE <<>>)

Other(edge, node) == IF edge.from = node THEN edge.to ELSE edge.from

\* Mutant of Meet: the limit also ends what is already known.
MeetLimited(s, next, depth) ==
    IF Cardinality(s.visited) >= req.max THEN [s EXCEPT !.limited = TRUE]
    ELSE IF next \in s.visited \cup {NoTarget} THEN s
    ELSE [s EXCEPT !.visited = @ \cup {next},
                   !.queue = Append(@, [node |-> next, depth |-> depth + 1])]

\* One end of an edge: new nodes are queued while there is room.
Meet(s, next, depth) ==
    IF next \in s.visited \cup {NoTarget} THEN s
    ELSE IF Cardinality(s.visited) >= req.max THEN [s EXCEPT !.limited = TRUE]
    ELSE [s EXCEPT !.visited = @ \cup {next},
                   !.queue = Append(@, [node |-> next, depth |-> depth + 1])]

\* The edges of a node, one after the other.
MeetAll(s, found, node, depth) ==
    FoldLeft(LAMBDA r, e : Meet(r, Other(e, node), depth), s, found)

Visit ==
    /\ stage = "search" /\ queue # <<>>
    /\ LET node == Head(queue).node
           depth == Head(queue).depth
           found == Incident(node)
           start == [visited |-> visited, queue |-> Tail(queue), limited |-> limited]
           end == MeetAll(start, found, node, depth)
       IN
       IF depth >= req.depth
       THEN queue' = Tail(queue) /\ UNCHANGED <<visited, edges, limited>>
       ELSE /\ visited' = end.visited /\ queue' = end.queue /\ limited' = end.limited
            /\ edges' = edges \cup ToSet(found)
    /\ UNCHANGED <<req, stage, expandVars>>

SearchEnds ==
    /\ stage = "search" /\ queue = <<>>
    /\ stage' = "anchor"
    /\ UNCHANGED <<req, searchVars, expandVars>>

----------------------------------------------------------------------------
(* expand_anchors *)

MaxAnchors == 5
Pow(k) == CASE k = 0 -> 1 [] k = 1 -> 10 [] k = 2 -> 100 [] OTHER -> 1000

Anchor == req.anchors[rank]

BeginAnchor ==
    /\ stage = "anchor"
    /\ rank <= Len(req.anchors) /\ rank <= MaxAnchors
    /\ frontier' = <<[node |-> Anchor, weight |-> Pow(req.hops), rel |-> "none"]>>
    /\ reach' = Empty /\ hop' = 1 /\ stage' = "hop"
    /\ UNCHANGED <<req, searchVars, rank, neighbours>>

\* edge_is_traversable, for resolved edges of the lexical backend.
Traversable(e) == e.to # NoTarget /\ e.conf >= req.min

\* The steps from a node, in the order of a sort by symbol and confidence.
StepsFrom(node) ==
    LET step(to, e, rel) == [to |-> to, conf |-> e.conf, rel |-> rel]
        graph == ToSet(req.graph)
        all == {step(e.to, e, "callee") : e \in {x \in graph : x.from = node /\ Traversable(x)}}
               \cup {step(e.from, e, "caller") : e \in {x \in graph : x.to = node /\ Traversable(x)}}
    IN  SortedBy(all, LAMBDA a, b :
            \/ a.to < b.to
            \/ a.to = b.to /\ a.conf < b.conf
            \/ a.to = b.to /\ a.conf = b.conf /\ a.rel = "callee" /\ b.rel = "caller")

\* Mutant of TakeStep: a node keeps the first weight it is reached with.
TakeFirst(s, from, step) ==
    IF step.to = Anchor \/ s.reach[step.to] # Unreached THEN s
    ELSE LET to == [node |-> step.to, weight |-> (from.weight * step.conf) \div 10,
                    rel |-> IF from.rel = "none" THEN step.rel ELSE from.rel]
         IN  [reach |-> [s.reach EXCEPT ![step.to] = [weight |-> to.weight, rel |-> to.rel]],
              next |-> Append(s.next, to)]

\* A node is reached again when the product is larger; the relation is that of
\* the first step.
TakeStep(s, from, step) ==
    LET weight == (from.weight * step.conf) \div 10
        rel == IF from.rel = "none" THEN step.rel ELSE from.rel
    IN  IF step.to = Anchor \/ weight <= s.reach[step.to].weight THEN s
        ELSE [reach |-> [s.reach EXCEPT ![step.to] = [weight |-> weight, rel |-> rel]],
              next |-> Append(s.next, [node |-> step.to, weight |-> weight, rel |-> rel])]

\* The steps from a node of the frontier, and those from all of them.
TakeSteps(s, from) ==
    FoldLeft(LAMBDA r, step : TakeStep(r, from, step), s, StepsFrom(from.node))
TakeAll(s, nodes) == FoldLeft(LAMBDA r, from : TakeSteps(r, from), s, nodes)

Hop ==
    /\ stage = "hop" /\ hop <= req.hops
    /\ LET end == TakeAll([reach |-> reach, next |-> <<>>], frontier)
       IN  reach' = end.reach /\ frontier' = end.next
    /\ hop' = hop + 1
    /\ UNCHANGED <<req, stage, searchVars, rank, neighbours>>

Score(x) == reach[x].weight * req.factor[x]

\* The k best of the nodes reached that are not anchors themselves.
Proposals ==
    LET all == {x \in Nodes : reach[x] # Unreached} \ ToSet(req.anchors)
        sorted == SortedBy(all, LAMBDA a, b : \/ Score(a) > Score(b)
                                              \/ Score(a) = Score(b) /\ a < b)
    IN  ToSet(SubSeq(sorted, 1, IF req.k < Len(sorted) THEN req.k ELSE Len(sorted)))

\* The best anchor keeps a node, the earlier one of equals.
EndAnchor ==
    /\ stage = "hop" /\ hop > req.hops
    /\ neighbours' = [x \in Nodes |->
          IF x \in Proposals /\ Score(x) > neighbours[x].score
          THEN [score |-> Score(x), rank |-> rank] ELSE neighbours[x]]
    /\ rank' = rank + 1 /\ stage' = "anchor"
    /\ UNCHANGED <<req, searchVars, frontier, reach, hop>>

AskAgain ==
    /\ stage = "anchor" /\ ~(rank <= Len(req.anchors) /\ rank <= MaxAnchors)
    /\ stage' = "search"
    /\ visited' = {req.root} /\ queue' = <<[node |-> req.root, depth |-> 0]>>
    /\ edges' = {} /\ limited' = FALSE
    /\ rank' = 1 /\ frontier' = <<>> /\ reach' = Empty /\ hop' = 1
    /\ neighbours' = [x \in Nodes |-> NoOffer]
    /\ UNCHANGED req

WalkInit ==
    /\ req \in Requests /\ stage = "search"
    /\ visited = {req.root} /\ queue = <<[node |-> req.root, depth |-> 0]>>
    /\ edges = {} /\ limited = FALSE
    /\ rank = 1 /\ frontier = <<>> /\ reach = Empty /\ hop = 1
    /\ neighbours = [x \in Nodes |-> NoOffer]

WalkNext ==
    Visit \/ SearchEnds \/ BeginAnchor \/ Hop \/ EndAnchor \/ AskAgain

WalkSpec == WalkInit /\ [][WalkNext]_walkVars

----------------------------------------------------------------------------
WalkTypeOK ==
    /\ stage \in {"search", "anchor", "hop"}
    /\ visited \subseteq Nodes /\ edges \subseteq ToSet(req.graph)
    /\ limited \in BOOLEAN /\ hop \in 1..req.hops + 1
    /\ \A x \in Nodes : reach[x].weight \in Nat /\ neighbours[x].score \in Nat

\* The nodes at most d steps from the root.
Ball(d) ==
    LET grow(S) == S \cup {e.to : e \in {x \in ToSet(req.graph) :
                              "callees" \in req.dirs /\ x.from \in S /\ x.to # NoTarget}}
                     \cup {e.from : e \in {x \in ToSet(req.graph) :
                              "callers" \in req.dirs /\ x.to \in S}}
        ball[i \in 0..d] == IF i = 0 THEN {req.root} ELSE grow(ball[i - 1])
    IN  ball[d]

\* A search that says it is complete returns every node at most depth steps
\* away and every edge of those nearer, one that says it is not has dropped
\* some of them, and none returns a node farther away or too many.
TraversalExact ==
    stage = "search" /\ queue = <<>> =>
        /\ visited \subseteq Ball(req.depth)
        /\ limited = (Cardinality(Ball(req.depth)) > req.max)
        /\ limited => Cardinality(visited) = req.max
        /\ ~limited =>
              /\ visited = Ball(req.depth)
              /\ req.depth > 0 => edges = UNION {ToSet(Incident(x)) : x \in Ball(req.depth - 1)}

\* The largest product of the weights of a path of at most d steps from a
\* node that does not come back to it.
BestProduct(anchor, x) ==
    LET steps == {e \in ToSet(req.graph) : Traversable(e)}
        conf(a, b) == {e.conf : e \in {s \in steps : {s.from, s.to} = {a, b}}}
        largest(S) == CHOOSE m \in S : \A j \in S : j <= m
        best[d \in 0..req.hops] ==
            IF d = 0 THEN [y \in Nodes |-> IF y = anchor THEN Pow(req.hops) ELSE 0]
            ELSE [y \in Nodes |->
                    IF y = anchor THEN Pow(req.hops)
                    ELSE largest({best[d - 1][y]} \cup
                            UNION {{(best[d - 1][z] * c) \div 10 : c \in conf(z, y)} :
                                      z \in Nodes})]
    IN  best[req.hops][x]

\* What an anchor's expansion has for a node is the best path to it, though
\* worse paths to it are dropped on the way.
ReachIsBest ==
    stage = "hop" /\ hop > req.hops =>
        \A x \in Nodes \ {Anchor} : reach[x].weight = BestProduct(Anchor, x)

\* Both walks of the graph find exactly what they should (RepoGraph.traverse and
\* expand_anchors).
WalksExact == TraversalExact /\ ReachIsBest
=============================================================================
