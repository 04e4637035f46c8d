----------------------------- MODULE MCContents -----------------------------
(***************************************************************************)
(* What an index run computes, and what requests compute from an index:    *)
(* the incremental run and its pool of parsers, the binding of calls to    *)
(* members, the search and expansion of the graph, the packet, the windows *)
(* of a body and the answers within a budget.  They share no variable: the *)
(* part that moves is chosen at the start of a behaviour, the others stay  *)
(* at one of their initial states.                                         *)
(***************************************************************************)
EXTENDS MCIncrementalIndex, ParsePool, Traversal, BodyWindow,
        MCContextPacket, Answers, MCJvmMembers

VARIABLE part

\* Every subset of eight edges over four nodes: parallel paths of different
\* confidence, cycles, a weak edge, and one to a symbol that is not known.
Link(from, to, conf) == [from |-> from, to |-> to, conf |-> conf]
Links == <<Link(1, 2, 9), Link(2, 3, 6), Link(1, 3, 5), Link(3, 4, 9),
           Link(4, 1, 4), Link(2, 4, 6), Link(3, 1, 9), Link(1, NoTarget, 9)>>
LinksOf(S) == SelectSeq(Links, LAMBDA e : e \in S)
MCRequests ==
    [graph : {LinksOf(S) : S \in SUBSET ToSet(Links)}, root : {1},
     dirs : {{"callees"}, {"callers"}, {"callees", "callers"}},
     depth : {1, 2}, max : {2, 3, 5}, anchors : {<<1, 3>>, <<4, 2>>},
     hops : {2}, k : {1}, min : {5}, factor : {<<5, 10, 10, 12>>}]

\* Bodies of up to four lines, one of which may not fit any budget.
MCBodies == UNION {[1..k -> {1, 3, 6}] : k \in 1..4}
MCNear == {<<>>, <<3>>, <<2, 5>>, <<4, 4, 4>>}

\* Questions to every tool.  A search differs by the files and the terms of its
\* matches, the others by the size of their rows, and all by their budget.
MCHits(m, files, strong, costs) ==
    [1..m -> [file : files, strong : strong, cost : costs]]
FewHits == UNION {MCHits(m, {1, 2}, {TRUE}, {8, 50}) : m \in 0..3}
MCAsked ==
    [tool : {"search"}, hits : UNION {MCHits(m, {1, 2}, BOOLEAN, {16}) : m \in 0..4},
     limit : {1, 2, 3}, budget : {15, 40}, explicit : {TRUE}, compact : {FALSE},
     refs : {FALSE}, root : {8}, stale : {{}, {2}}, several : BOOLEAN]
    \cup
    [tool : {"map"}, hits : FewHits, limit : {3}, budget : {8, 15, 24, 32, 40},
     explicit : {TRUE}, compact : BOOLEAN, refs : BOOLEAN, root : {8},
     stale : {{}}, several : {FALSE}]
    \cup
    [tool : {"symbols"}, hits : UNION {MCHits(m, {1}, {TRUE}, {8, 50, 150}) : m \in 0..3},
     limit : {1, 2, 3}, budget : {8, 15, 24, 40}, explicit : BOOLEAN, compact : {FALSE},
     refs : {FALSE}, root : {8}, stale : {{}}, several : {FALSE}]
    \cup
    [tool : {"impact", "context", "skeleton", "module", "dependents", "list"},
     hits : UNION {MCHits(m, {1}, {TRUE}, {8, 50, 150}) : m \in 0..3}, limit : {1, 3},
     budget : {8, 15, 24, 32, 40}, explicit : {TRUE}, compact : {FALSE},
     refs : {FALSE}, root : {8, 30}, stale : {{}}, several : {FALSE}]
    \cup
    \* Responses about a size where their own estimate gains a digit.
    [tool : {"impact"}, hits : {<<>>}, limit : {1}, budget : {102, 103, 104, 110},
     explicit : {TRUE}, compact : {FALSE}, refs : {FALSE}, root : 365..390,
     stale : {{}}, several : {FALSE}]

\* The initial states of the parts that have several and do not move.
SomeInput == CHOOSE i \in MCInputs : i.callees = <<>> /\ i.callers = <<>>
SomeQuestion == CHOOSE x \in MCAsked : x.hits = <<>>
SomeCall == [Call0 EXCEPT !.decls = {M(1, <<"A">>, <<>>)}]
SomeRequest == CHOOSE r \in MCRequests : r.graph = <<>>
At(mine, rest) == IF part = mine THEN TRUE ELSE rest

ContentsInit ==
    /\ part \in {"index", "pool", "walk", "packet", "body", "answer", "bind"}
    /\ At("pool", tasks = 0)
    /\ At("walk", req = SomeRequest)
    /\ At("packet", in = SomeInput)
    /\ At("body", lines = <<1>> /\ near = <<>> /\ budget = 9)
    /\ At("answer", asked = SomeQuestion)
    /\ Init /\ PoolInit /\ WalkInit /\ PacketInit /\ BodyInit /\ TellInit
    /\ IF part = "bind" THEN BindInit ELSE BindFrom(SomeCall)

ContentsNext ==
    \/ /\ part = "index" /\ Next
       /\ UNCHANGED <<poolVars, walkVars, packetVars, bodyVars, tellVars, bindVars>>
    \/ /\ part = "pool" /\ PoolNext
       /\ UNCHANGED <<vars, walkVars, packetVars, bodyVars, tellVars, bindVars>>
    \/ /\ part = "walk" /\ WalkNext
       /\ UNCHANGED <<vars, poolVars, packetVars, bodyVars, tellVars, bindVars>>
    \/ /\ part = "packet" /\ PacketNext
       /\ UNCHANGED <<vars, poolVars, walkVars, bodyVars, tellVars, bindVars>>
    \/ /\ part = "body" /\ BodyNext
       /\ UNCHANGED <<vars, poolVars, walkVars, packetVars, tellVars, bindVars>>
    \/ /\ part = "answer" /\ TellNext
       /\ UNCHANGED <<vars, poolVars, walkVars, packetVars, bodyVars, bindVars>>
    \/ /\ part = "bind" /\ BindNext
       /\ UNCHANGED <<vars, poolVars, walkVars, packetVars, bodyVars, tellVars>>

contentsVars == <<part, vars, poolVars, walkVars, packetVars, bodyVars, tellVars, bindVars>>

ContentsSpec ==
    ContentsInit /\ [][ContentsNext /\ UNCHANGED part]_contentsVars

\* The state of the part that moves is of its type; the others keep an initial
\* state, which the behaviours of their own part check.
ContentsTypeOK ==
    /\ part = "index" => TypeOK
    /\ part = "pool" => PoolTypeOK
    /\ part = "walk" => WalkTypeOK
    /\ part = "packet" => PacketTypeOK
    /\ part = "body" => BodyTypeOK
    /\ part = "answer" => TellTypeOK
    /\ part = "bind" => BindTypeOK

\* The edges of an index are those a build from scratch makes, and in Java and
\* C# a call leads to the nearest override, to no overload that cannot take its
\* arguments, and along a chain to members of the types the calls return.
EdgesRight ==
    /\ part = "index" => EquivalentToFull
    /\ part = "bind" => MembersBound
=============================================================================
