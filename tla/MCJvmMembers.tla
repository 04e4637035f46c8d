---------------------------- MODULE MCJvmMembers -----------------------------
(***************************************************************************)
(* Calls of m from a class A, which extends B: overloads in both, one and  *)
(* two arguments, types that share a name, every way to write a receiver,  *)
(* and chains over get.                                                    *)
(***************************************************************************)
EXTENDS JvmMembers, TLC

MCAliases ==
    [n \in {"int", "Integer", "long", "String", "Object"} |->
        CASE n \in {"int", "Integer"} -> "int" [] n = "long" -> "long"
          [] n = "String" -> "string" [] n = "Object" -> "object"]
MCWidening == <<"byte", "sbyte", "short", "ushort", "char", "int", "uint", "long",
                "ulong", "float", "double", "decimal">>

Plain(name) == [name |-> name, array |-> FALSE]
Array(name) == [name |-> name, array |-> TRUE]
Takes(type) == [type |-> type, varargs |-> FALSE, optional |-> FALSE, this |-> FALSE]
ManyOf(name) == [Takes(Array(name)) EXCEPT !.varargs = TRUE]
This(name) == [Takes(Plain(name)) EXCEPT !.this = TRUE]
Maybe(name) == [Takes(Plain(name)) EXCEPT !.optional = TRUE]

Declares(id, name, in, params, back) ==
    [id |-> id, name |-> name, in |-> in, dir |-> "", file |-> id, line |-> id,
     kind |-> "method", params |-> params, back |-> back]
M(id, in, params) == Declares(id, "m", in, params, NoType)

\* x.m(args) in a method of class A.
Call0 ==
    [decls |-> {}, types |-> {"A", "B"}, parents |-> [n \in {"A"} |-> <<"B">>],
     homes |-> [n \in {"A"} |-> {1}], src |-> [id |-> 9, in |-> <<"A">>, java |-> TRUE],
     rec |-> "other", as |-> NoType, type |-> <<"A">>,
     root |-> [kind |-> "type", name |-> <<"A">>], steps |-> <<>>,
     name |-> "m", count |-> 1, args |-> <<Plain("int")>>, tiers |-> <<{1}, {2}>>]

With1(c, args) == [c EXCEPT !.args = args, !.count = Len(args)]

\* Two overloads in A and one in B; the caller may be one of them.
OneParam ==
    {<<>>, Unread, <<ManyOf("int")>>}
    \cup {<<Takes(Plain(n))>> : n \in {"int", "Integer", "String", "B", "T"}}
Overloads ==
    {With1([Call0 EXCEPT !.decls = {M(1, <<"A">>, p), M(2, <<"A">>, q), M(3, <<"B">>, r)},
                         !.rec = way[1], !.src.id = way[2],
                         !.type = IF way[1] = "other" THEN @ ELSE NoType], args) :
        p \in OneParam, q \in OneParam, r \in {<<>>, Unread, <<Takes(Plain("String"))>>},
        way \in {<<"this", 1>>, <<"super", 1>>, <<"other", 9>>},
        args \in {<<>>} \cup {<<Plain(n)>> : n \in {"int", "Integer", "A", "String", "?"}}}

\* Two arguments, which two overloads take well or badly.
TwoParams == {<<Takes(s), Takes(t)>> : s, t \in
                 {Plain("int"), Plain("long"), Plain("String"), Plain("A"), Plain("Object"),
                  Array("int")}}
Pairs ==
    {With1([Call0 EXCEPT !.decls = {M(1, <<"A">>, p), M(2, <<"A">>, q)}], <<a1, a2>>) :
        p \in TwoParams, q \in TwoParams,
        a1 \in {Plain("int"), Plain("null")}, a2 \in {Plain("String"), Array("int")}}

\* Types that share the name B: the nested one and another, near or far.
SameNamed ==
    {[Call0 EXCEPT !.decls = {M(1, <<"Outer", "B">>, p), M(2, <<"B">>, q), M(3, <<"C">>, p)},
                   !.types = {"A", "B", "C"},
                   !.parents = [n \in {"A", "B"} |-> IF n = "A" THEN <<"B">> ELSE <<"C">>],
                   !.homes = [n \in {"A"} |-> h], !.tiers = t] :
        p \in OneParam, q \in OneParam, h \in {{1}, {4}},
        t \in {<<{4}>>, <<{4}, {2, 3}>>, <<{4}, {1, 2}>>}}

\* Every way to write the receiver, over members of nested types, a property,
\* and an extension method, which stands in a class of its own.
Anywhere ==
    {With1([Call0 EXCEPT
        !.decls = {M(1, <<"A", "N">>, p), [M(2, <<"A">>, Unread) EXCEPT !.kind = "property"],
                   M(3, <<"X">>, <<This(e)>> \o p), M(4, <<"X">>, <<This(e), Maybe("int")>>)},
        !.types = {"A", "B", "N", "X"}, !.parents = [n \in {"N"} |-> <<"B">>],
        !.src = [id |-> 9, in |-> in, java |-> java], !.rec = rec, !.as = name,
        !.type = type], args) :
        p \in {<<>>, <<Takes(Plain("int"))>>}, e \in {"B", "T", "Object"},
        in \in {<<>>, <<"A">>, <<"A", "N">>}, java \in BOOLEAN,
        rec \in {"super", "this", "none", "name", "other"}, name \in {<<"A", "N">>, <<"X">>, <<"v">>},
        type \in {NoType, <<"B">>, <<"A", "N">>, <<"Map", "N">>, <<"pkg", "N">>, <<"Map">>},
        args \in {<<>>, <<Plain("int")>>}}

\* Chains of one or two calls of get, or of a property, before m.
Get(count) == [kind |-> "method", name |-> "get", count |-> count]
Prop == [kind |-> "property", name |-> "p", count |-> NoCount]
Gets(id, in, params, back) == Declares(id, "get", in, params, back)
Chains ==
    {[Call0 EXCEPT
        !.decls = {Gets(1, <<"A">>, p, b1), Gets(2, <<"A">>, q, b2), Gets(3, <<"B">>, <<>>, <<"B">>),
                   [Declares(4, "p", <<"B">>, Unread, b1) EXCEPT !.kind = "property"],
                   M(5, <<"B">>, <<Takes(Plain("int"))>>)},
        !.type = NoType, !.root = [kind |-> k, name |-> n], !.steps = s] :
        p \in {<<>>, <<ManyOf("int")>>}, q \in {<<>>, <<Takes(Plain("int"))>>},
        b1 \in {NoType, <<"A">>, <<"B">>}, b2 \in {NoType, <<"A">>, <<"int">>},
        k \in {"type", "static", "this", "super"}, n \in {<<"A">>, <<"pkg", "A">>},
        s \in {<<Get(0)>>, <<Get(1), Prop>>, <<Get(NoCount), Get(0)>>}}

\* A loop in the hierarchy, as broken code or shared names make one.
Loop ==
    {[c EXCEPT !.parents = [n \in {"A", "B"} |-> IF n = "A" THEN <<"B">> ELSE <<"A">>]] :
        c \in {d \in Overloads : d.args = <<>> /\ d.rec = "this"}}

MCJvmCalls == {Overloads, Pairs, SameNamed, Anywhere, Chains, Loop}
=============================================================================
