----------------------------- MODULE JvmMembers -----------------------------
(***************************************************************************)
(* How a call in Java or C# is bound to a member: the receiver's type,     *)
(* given or evaluated from a chain of calls, the members found there and   *)
(* in the types above it, and the overload among them.  A call comes with  *)
(* the declarations it can meet (its fields are used below).  A type's     *)
(* name is the sequence of its segments, Outer then Inner; what the text   *)
(* of a signature says of parameters and results is data.                  *)
(***************************************************************************)
EXTENDS Integers, Sequences, SequencesExt, FiniteSets, FiniteSetsExt, Subsequences, Sizing

CONSTANTS
    JvmCalls,          \* sets of calls
    Aliases,           \* _CANONICAL: written name -> canonical name
    BoxedNames,        \* _BOXED_NAMES
    Widening,          \* _NUMERIC_ORDER
    StringSupertypes,  \* _STRING_SUPERTYPES
    TypeParameters,    \* what is_type_parameter takes for one
    Capitalised,       \* names that begin with a capital
    Unreceivable,      \* _JVM_PRIMITIVE_LIKE
    Unread             \* a signature without a parameter list

VARIABLES
    call,      \* the call being bound
    binding,   \* "chain", "bind" or "bound"
    steps,     \* the steps of its chain that are left
    owners,    \* where the next of them looks: [in, above]
    found,     \* the levels a choice was made from, and for which receiver
    bound      \* what the call is bound to, and what decided

bindVars == <<call, binding, steps, owners, found, bound>>

Unbound == 0
NoCount == -1      \* the number of arguments is not known
NoType == <<>>
Ambiguous == [how |-> "ambiguous", target |-> Unbound]
Simple(type) == Last(type)
IsRepoType(name) == name \in call.types
ParentsOf(name) == IF name \in DOMAIN call.parents THEN call.parents[name] ELSE <<>>

\* The types above one, breadth first, each once.
AncestorsOf(name) ==
    LET names == DOMAIN call.parents \cup UNION {ToSet(call.parents[n]) : n \in DOMAIN call.parents}
        up[k \in 0..Cardinality(names)] ==
          IF k = 0
          THEN [queue |-> ParentsOf(name), seen |-> ToSet(ParentsOf(name)), out |-> <<>>]
          ELSE LET s == up[k - 1]
                   more == ParentsOf(Head(s.queue))
                   new == Picked(more, {i \in DOMAIN more : more[i] \notin s.seen})
               IN  IF s.queue = <<>> THEN s
                   ELSE [queue |-> Tail(s.queue) \o new, seen |-> s.seen \cup ToSet(new),
                         out |-> Append(s.out, Head(s.queue))]
    IN  up[Cardinality(names)].out

----------------------------------------------------------------------------
(* Types of arguments and parameters: [name, array].                       *)

Canon(name) == IF name \in DOMAIN Aliases THEN Aliases[name] ELSE name
NumberRank(name) == CHOOSE i \in DOMAIN Widening : Widening[i] = name
IsNumber(name) == name \in ToSet(Widening)
IsPrimitive(name) == IsNumber(name) \/ name = "bool"
NotKnown(type) == type.name \in {"", "?"}

\* Mutant of Misfit: certainly incompatible, but not by so much.
MisfitMild == -4
\* The score of an argument that cannot be passed.
Misfit == -5

\* How well a number fits into another.
NumberFit(ca, cp) ==
    IF IsNumber(ca) /\ IsNumber(cp) /\ NumberRank(ca) < NumberRank(cp)
    THEN Max({2, 4 - ((NumberRank(cp) - NumberRank(ca)) \div 3)})
    ELSE Misfit

\* What is known of two types of which neither is unknown, a type parameter,
\* nor null, and both or none of which are arrays.
PlainFit(arg, param) ==
    LET ca == Canon(arg.name)
        cp == Canon(param.name)
        primitive == IsPrimitive(ca) \/ IsPrimitive(cp)
        other == IF IsPrimitive(ca) THEN param.name ELSE arg.name
        known == IsRepoType(arg.name) /\ IsRepoType(param.name)
    IN  CASE ca = cp -> IF arg.array THEN 7
                        ELSE IF (arg.name \in BoxedNames) = (param.name \in BoxedNames)
                        THEN 6 ELSE 5
          [] ca # cp /\ cp = "object" -> 1
          [] ca # cp /\ cp # "object" /\ IsPrimitive(ca) /\ IsPrimitive(cp) ->
                 NumberFit(ca, cp)
          [] ca # cp /\ cp # "object" /\ primitive /\ ~(IsPrimitive(ca) /\ IsPrimitive(cp)) ->
                 IF Canon(other) = "string" \/ IsRepoType(other) THEN Misfit ELSE 0
          [] ca # cp /\ cp # "object" /\ ~primitive /\ ca = "string" ->
                 IF param.name \in StringSupertypes THEN 2
                 ELSE IF IsRepoType(param.name) THEN Misfit ELSE 0
          [] ca # cp /\ ~primitive /\ cp = "string" ->
                 IF IsRepoType(arg.name) THEN Misfit ELSE 0
          [] ca # cp /\ cp \notin {"object", "string"} /\ ~primitive /\ ca # "string" ->
                 IF IsRepoType(arg.name) /\ param.name \in ToSet(AncestorsOf(arg.name)) THEN 4
                 ELSE IF known THEN Misfit ELSE 0

\* arg_type_score: positive fits, the higher the tighter; zero is not known;
\* negative is certainly incompatible.
Fit(arg, param) ==
    CASE NotKnown(arg) \/ NotKnown(param) -> 0
      [] ~NotKnown(arg) /\ ~NotKnown(param) /\ param.name \in TypeParameters ->
             IF arg.name # "void" THEN 1 ELSE 0
      [] ~NotKnown(param) /\ param.name \notin TypeParameters /\ arg.name = "null" ->
             IF ~param.array /\ IsPrimitive(Canon(param.name)) THEN Misfit ELSE 1
      [] OTHER ->
             IF arg.array # param.array
             THEN IF param.array THEN Misfit
                  ELSE IF Canon(param.name) = "object" THEN 1 ELSE 0
             ELSE IF arg.array /\ Canon(param.name) = "object" THEN 1
             ELSE PlainFit(arg, param)

----------------------------------------------------------------------------
(* A declaration is a record: id, name, the type it is in, the directory   *)
(* of its package (empty in C#), file, line, kind, params, and what it     *)
(* returns.  A parameter has a type and may be varargs, optional or this.  *)

Named(name, kinds) == {d \in call.decls : d.name = name /\ d.kind \in kinds}

\* The members declared in a type itself; a method wins over a property.
MembersOf(pool, owner) ==
    LET all == {d \in pool : IsSuffix(owner, d.in)}
        methods == {d \in all : d.kind = "method"}
    IN  IF methods # {} THEN methods ELSE {d \in all : d.kind = "property"}

\* The members that each of some types has, if it has any.
MembersAlong(pool, types) ==
    LET all == [i \in DOMAIN types |-> MembersOf(pool, types[i])] IN
    Picked(all, {i \in DOMAIN all : all[i] # {}})

TypesFrom(owner, up, above) ==
    (IF above THEN <<>> ELSE <<owner>>) \o [i \in DOMAIN up |-> <<up[i]>>]

\* The members of a type and of those above it, the nearest type first.
Levels(pool, owner, above) ==
    MembersAlong(pool, TypesFrom(owner, AncestorsOf(Simple(owner)), above))

\* Receiver of an extension method apart, which is its first parameter.
ParamsOf(d, instance) ==
    IF d.params # <<>> /\ d.params[1].this /\ instance THEN Tail(d.params) ELSE d.params

Accepts(d, count, instance) ==
    \/ count = NoCount \/ d.params = Unread
    \/ LET params == ParamsOf(d, instance)
           fixed == {i \in DOMAIN params : ~params[i].varargs /\ ~params[i].optional}
       IN  /\ Cardinality(fixed) <= count
           /\ count <= Len(params) \/ \E i \in DOMAIN params : params[i].varargs

ParamAt(params, i) == IF i <= Len(params) THEN params[i] ELSE Last(params)

Scorable(d, args, instance) ==
    \/ d.params = Unread
    \/ LET params == ParamsOf(d, instance) IN
       Len(args) <= Len(params) \/ (params # <<>> /\ Last(params).varargs)

\* The score of the i-th argument.  The last of as many may be the array itself.
FitAt(d, args, i, instance) ==
    LET params == ParamsOf(d, instance)
        p == ParamAt(params, i)
        one == Fit(args[i], [p.type EXCEPT !.array = FALSE])
    IN  IF d.params = Unread THEN 0
        ELSE IF ~p.varargs THEN Fit(args[i], p.type)
        ELSE IF i = Len(params) /\ Len(args) = Len(params)
        THEN Max({one, Fit(args[i], p.type)})
        ELSE one

Fitness(d, args, instance) ==
    LET params == ParamsOf(d, instance) IN
    Total([i \in DOMAIN args |-> FitAt(d, args, i, instance)])
    - (IF d.params # Unread /\ \E i \in DOMAIN args : ParamAt(params, i).varargs
       THEN 1 ELSE 0)

----------------------------------------------------------------------------
(* _jvm_pick.  The receiver's side of a choice: instance, home (the files  *)
(* of its type), tiers (files from near to far, as narrow takes them),     *)
(* avoid (the caller).                                                     *)

\* Members of several types that share a name.
Several(members) == Cardinality({<<d.in, d.dir>> : d \in members}) > 1

Narrow(members, tiers) ==
    LET near == Picked(tiers, {i \in DOMAIN tiers : \E d \in members : d.file \in tiers[i]})
    IN  IF near = <<>> THEN members ELSE {d \in members : d.file \in Head(near)}

\* The members of a level that can be meant.
Meant(members, side) ==
    LET beside == {d \in members : d.file \in side.home}
        close == IF Several(members) /\ beside # {} THEN beside ELSE members
    IN  IF Several(close) THEN Narrow(close, side.tiers) ELSE close

Key(p) == [name |-> IF p.type.array THEN p.type.name ELSE Canon(p.type.name),
           array |-> p.type.array, varargs |-> p.varargs]

\* Mutant of SameKey: the types by the names they are written with.
SameKeyWritten(d, e) ==
    d = e \/ (d.params \notin {Unread, <<>>} /\ d.params = e.params)

\* One overrides the other.  Without parameters the key is empty, which the
\* code takes for no key.
SameKey(d, e) ==
    \/ d = e
    \/ /\ d.params \notin {Unread, <<>>} /\ e.params \notin {Unread, <<>>}
       /\ [i \in DOMAIN d.params |-> Key(d.params[i])]
            = [i \in DOMAIN e.params |-> Key(e.params[i])]

Before(x, y) ==
    \/ x.depth < y.depth
    \/ x.depth = y.depth /\ x.of.line < y.of.line
    \/ x.depth = y.depth /\ x.of.line = y.of.line /\ x.of.id < y.of.id

\* Of every key the nearest declaration, and in a type the first.
PoolOf(levels, side) ==
    LET all == UNION {{[depth |-> k, of |-> d] : d \in Meant(levels[k], side)} :
                         k \in DOMAIN levels}
    IN  {x \in all : \A y \in all : Before(y, x) => ~SameKey(y.of, x.of)}

OrAll(some, all) == IF some # {} THEN some ELSE all
First(pool) == CHOOSE x \in pool : \A y \in pool : x = y \/ Before(x, y)
Chosen(how, pool) == [how |-> how, target |-> First(pool).of.id]

\* The overload a call binds to, and what decided.
Overload(levels, count, args, side) ==
    LET pool == PoolOf(levels, side)
        accepted == {x \in pool : Accepts(x.of, count, side.instance)}
        open == OrAll(accepted, pool)
        scored == IF args # <<>> /\ count = Len(args)
                  THEN {x \in open : Scorable(x.of, args, side.instance)} ELSE {}
        score(x) == Fitness(x.of, args, side.instance)
        best == {x \in scored : score(x) >= 0 /\ \A y \in scored : score(y) <= score(x)}
        left == OrAll(best, open)
        others == {x \in left : x.of.id # side.avoid}
    IN  IF \E k \in DOMAIN levels : Several(Meant(levels[k], side)) THEN Ambiguous
        ELSE IF Cardinality(pool) = 1 THEN Chosen("single", pool)
        ELSE IF Cardinality(accepted) = 1 /\ count # NoCount THEN Chosen("arity", accepted)
        ELSE IF Cardinality(best) = 1 THEN Chosen("types", best)
        ELSE Chosen("group", OrAll(others, left))

----------------------------------------------------------------------------
(* The chain of the receiver: every step is a method, with the number of   *)
(* its arguments, or a property, and its type is that of the next owner.   *)

\* The types around the caller, innermost first.
Enclosing ==
    LET in == call.src.in IN
    [i \in 1..Len(in) |-> SubSeq(in, 1, Len(in) + 1 - i)]
Innermost == IF Enclosing = <<>> THEN <<>> ELSE <<Enclosing[1]>>

\* A qualifier that is no type of the repository is a package, and dropped.
NormType(type) ==
    IF Len(type) > 1 /\ ~IsRepoType(type[Len(type) - 1])
    THEN <<Simple(type)>> ELSE type

StartOf ==
    CASE call.root.kind = "type" -> [in |-> <<NormType(call.root.name)>>, above |-> FALSE]
      [] call.root.kind = "static" ->
             [in |-> IF call.root.name \in {<<t>> : t \in call.types}
                     THEN <<call.root.name>> ELSE <<>>, above |-> FALSE]
      [] call.root.kind = "this" -> [in |-> Enclosing, above |-> FALSE]
      [] call.root.kind = "super" -> [in |-> Innermost, above |-> TRUE]

\* The places that have such members.
With(pool, places, above) ==
    Picked(places, {i \in DOMAIN places : Levels(pool, places[i], above) # <<>>})

\* The levels of the first owner that has any.
StepLevels(step) ==
    LET pool == Named(step.name, {step.kind})
        here == With(pool, owners.in, owners.above)
    IN  IF here = <<>> THEN <<>> ELSE Levels(pool, Head(here), owners.above)

\* The declarations a step may mean, in the nearest type.
StepMembers(step) ==
    LET members == Head(StepLevels(step)) IN
    OrAll({d \in members : step.kind = "method" /\ Accepts(d, step.count, TRUE)}, members)

\* Mutant of StepType: of several types, one is taken.
StepTypeAny(step) ==
    LET types == {d.back : d \in StepMembers(step)} \ {NoType} IN
    IF StepLevels(step) = <<>> \/ types = {} THEN NoType
    ELSE LET type == CHOOSE t \in types : TRUE IN
         IF Simple(type) \in Unreceivable \cup TypeParameters THEN NoType ELSE type

\* Their type, if they agree and it can be a receiver's.
StepType(step) ==
    IF StepLevels(step) = <<>> THEN NoType
    ELSE LET types == {d.back : d \in StepMembers(step)} \ {NoType} IN
         IF \E t \in types : types = {t} /\ Simple(t) \notin Unreceivable \cup TypeParameters
         THEN CHOOSE t \in types : TRUE ELSE NoType

ChainStep ==
    /\ binding = "chain"
    /\ LET type == StepType(Head(steps)) IN
       /\ owners' = [in |-> IF type = NoType THEN <<>> ELSE <<type>>, above |-> FALSE]
       /\ steps' = IF type = NoType THEN <<>> ELSE Tail(steps)
       /\ binding' = IF type = NoType \/ Len(steps) = 1 THEN "bind" ELSE "chain"
    /\ UNCHANGED <<call, found, bound>>

----------------------------------------------------------------------------
(* _resolve_jvm_member *)

\* The receiver's type, given or evaluated.
ReceiverType ==
    IF call.type # NoType THEN call.type
    ELSE IF call.steps # <<>> /\ owners.in # <<>> THEN owners.in[1] ELSE NoType

\* A nested type of a library's class.
OfLibrary(type) ==
    /\ Len(type) > 1 /\ call.src.java
    /\ type[Len(type) - 1] \in Capitalised /\ ~IsRepoType(type[Len(type) - 1])

Places ==
    CASE call.rec \in {"super", "this"} -> Innermost
      [] call.rec \notin {"super", "this"} /\ ReceiverType # NoType ->
             LET type == NormType(ReceiverType) IN
             IF Len(type) > 1 THEN <<type, <<Simple(type)>>>> ELSE <<type>>
      [] call.rec = "none" /\ ReceiverType = NoType -> Enclosing
      [] call.rec = "name" /\ ReceiverType = NoType ->
             IF ~IsRepoType(Simple(call.as)) THEN <<>>
             ELSE IF Len(call.as) > 1 THEN <<call.as, <<Simple(call.as)>>>> ELSE <<call.as>>
      [] call.rec = "other" /\ ReceiverType = NoType -> <<>>

\* What an invocation can bind to.
Invocable == Named(call.name, {"method", "property"})

\* Extension methods for a receiver of that type.
Extensions(type) ==
    {d \in Named(call.name, {"method"}) :
        /\ d.params \notin {Unread, <<>>} /\ d.params[1].this
        /\ LET first == d.params[1].type IN
           \/ ~first.array /\ first.name = type
           \/ ~first.array /\ first.name \in ToSet(AncestorsOf(type))
           \/ ~first.array /\ Canon(first.name) = "object"
           \/ IsRepoType(type) /\ first.name \in TypeParameters
        /\ Accepts(d, call.count, TRUE)}

SideOf(place) ==
    [instance |-> call.rec # "name" \/ ReceiverType # NoType,
     home |-> IF Simple(place) \in DOMAIN call.homes THEN call.homes[Simple(place)] ELSE {},
     tiers |-> call.tiers, avoid |-> call.src.id]
Free == [instance |-> TRUE, home |-> {}, tiers |-> <<>>, avoid |-> Unbound]

\* What is said where there is nothing to choose from.  An undecided call is
\* left to the resolution by names.
NotBound(how) == [how |-> how, target |-> Unbound]

Bind ==
    /\ binding = "bind"
    /\ LET above == call.rec = "super"
           typed == call.rec \notin {"super", "this"} /\ ReceiverType # NoType
           foreign == typed /\ OfLibrary(ReceiverType)
           here == IF foreign THEN <<>> ELSE With(Invocable, Places, above)
           extensions == IF typed /\ ~foreign THEN Extensions(Simple(ReceiverType)) ELSE {}
           levels == IF here # <<>> THEN Levels(Invocable, Head(here), above)
                     ELSE IF extensions = {} THEN <<>> ELSE <<extensions>>
           side == IF here # <<>> THEN SideOf(Head(here)) ELSE Free
       IN  /\ found' = [levels |-> levels, side |-> side]
           /\ bound' = IF levels # <<>> THEN Overload(levels, call.count, call.args, side)
                       ELSE IF ~typed THEN NotBound("undecided")
                       ELSE IF ~foreign /\ IsRepoType(Simple(ReceiverType))
                       THEN NotBound("unmatched") ELSE NotBound("external")
    /\ binding' = "bound"
    /\ UNCHANGED <<call, steps, owners>>

NotFound == [levels |-> <<>>, side |-> Free]

BindAgain ==
    /\ binding = "bound"
    /\ binding' = IF call.steps = <<>> THEN "bind" ELSE "chain"
    /\ steps' = call.steps /\ owners' = StartOf 
    /\ bound' = NotBound("open") /\ found' = NotFound
    /\ UNCHANGED call

BindFrom(c) ==
    /\ call = c
    /\ binding = IF call.steps = <<>> THEN "bind" ELSE "chain"
    /\ steps = call.steps /\ owners = StartOf
    /\ bound = NotBound("open") /\ found = NotFound

BindInit == \E calls \in JvmCalls : \E c \in calls : BindFrom(c)

BindNext == ChainStep \/ Bind \/ BindAgain

\* A declaration is known by its id, and the levels are made of finitely many
\* declarations and types.
Parameters == [type : [name : STRING, array : BOOLEAN], varargs : BOOLEAN,
               optional : BOOLEAN, this : BOOLEAN]
IsDecl(d) ==
    /\ d.id \in Nat \ {Unbound} /\ d.line \in Nat
    /\ d.params = Unread \/ d.params \in Seq(Parameters)
IsCall(c) ==
    /\ IsFiniteSet(c.decls) /\ \A d \in c.decls : IsDecl(d)
    /\ \A d, e \in c.decls : d.id = e.id => d = e
    /\ IsFiniteSet(DOMAIN c.parents) /\ \A n \in DOMAIN c.parents : c.parents[n] \in Seq(STRING)
    /\ c.src.in \in Seq(STRING)
    /\ c.root.kind \in {"type", "static", "this", "super"}
    /\ c.tiers \in Seq({c.tiers[i] : i \in DOMAIN c.tiers})
    /\ c.rec \in {"super", "this", "none", "name", "other"}
    /\ c.steps \in Seq([kind : {"method", "property"}, name : STRING, count : Nat \cup {NoCount}])
    /\ c.count \in Nat \cup {NoCount} /\ c.args \in Seq([name : STRING, array : BOOLEAN])

JvmAssumption ==
    /\ \A calls \in JvmCalls : \A c \in calls : IsCall(c)
    /\ Widening \in Seq(STRING)
    /\ \A name \in DOMAIN Aliases : Aliases[name] \in STRING
ASSUME JvmAssumption

BindSpec == BindInit /\ [][BindNext]_bindVars

----------------------------------------------------------------------------
BindTypeOK ==
    /\ binding \in {"chain", "bind", "bound"}
    /\ call.rec \in {"super", "this", "none", "name", "other"}
    /\ Len(steps) <= Len(call.steps)
    /\ bound.target \in {d.id : d \in call.decls} \cup {Unbound}
    /\ bound.how \in {"open", "single", "arity", "types", "group", "ambiguous",
                      "undecided", "unmatched", "external"}

TargetsAt(k) == {d \in found.levels[k] : d.id = bound.target}

\* An override is the same method, so the nearest declaration wins: a call is
\* bound to a member with an override further down only where that takes no
\* parameters and is the caller itself.
NearestWins ==
    \A k \in DOMAIN found.levels : \A j \in 1..k - 1 :
        \A far \in TargetsAt(k), near \in Meant(found.levels[j], found.side) :
            /\ far.params # Unread /\ near.params # Unread
            /\ [i \in DOMAIN far.params |-> Key(far.params[i])]
                 = [i \in DOMAIN near.params |-> Key(near.params[i])]
            /\ \A i \in 1..k - 1 : far \notin found.levels[i]
            => far.params = <<>> /\ near.id = call.src.id

\* Where the arguments are one or two and no arrays, and decide, a call is not
\* bound to an overload that certainly cannot take them while there is one,
\* of fixed arity, that takes them all.
NoMisfit ==
    LET args == call.args
        accepts(d) == Accepts(d, call.count, found.side.instance)
        fits(d, low) == \A i \in DOMAIN args : FitAt(d, args, i, found.side.instance) > low
        fixed(d) == d.params # Unread /\ \A p \in ToSet(d.params) : ~p.varargs
    IN  /\ bound.how \in {"types", "group"}
        /\ Len(args) \in {1, 2} /\ call.count = Len(args)
        /\ \A i \in DOMAIN args : ~args[i].array
        => \A k \in DOMAIN found.levels : \A d \in TargetsAt(k) :
               \/ ~accepts(d) \/ fits(d, Misfit)
               \/ \A x \in PoolOf(found.levels, found.side) :
                      fixed(x.of) /\ accepts(x.of) => ~fits(x.of, 0)

\* The type a step of a chain is taken to have is that of the declaration the
\* same call would be bound to, where that is in the nearest type and says one.
ChainAgrees ==
    binding = "chain" =>
        LET step == Head(steps)
            levels == StepLevels(step)
            pick == Overload(levels, step.count, <<>>, Free)
            type == StepType(step)
        IN  type # NoType =>
                \A d \in Head(levels) : d.id = pick.target => d.back \in {type, NoType}

MembersBound == NearestWins /\ NoMisfit /\ ChainAgrees
=============================================================================
