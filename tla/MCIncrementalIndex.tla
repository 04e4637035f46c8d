------------------------- MODULE MCIncrementalIndex -------------------------
(* A caller a, a file b with the function its receiver comes from, and a     *)
(* file c with the method it calls on it.                                    *)
EXTENDS IncrementalIndex, TLC

CONSTANTS a, b, c

Def(class, name, ret, at) ==
    [class |-> class, name |-> name, ret |-> ret, at |-> at]
Call(name, via) == [name |-> name, orig |-> name, via |-> via]
Text(parents, defs, calls) ==
    [parents |-> parents, defs |-> defs, calls |-> calls]

\* a: x = make(); x.scan()
\* b: make, and a class Y with a scan of its own; the type make returns and
\*    what is known of that type change.
\* c: class X with scan, which moves.
FirstAB ==
    a :> Text({}, <<Def(None, "f", None, 1)>>,
              {Call("make", None), Call("scan", "make")})
    @@ b :> Text({}, <<Def(None, "make", "X", 1), Def("Y", "scan", None, 2)>>, {})
    @@ c :> Text({}, <<Def("X", "scan", None, 1)>>, {})

TextsAB ==
    a :> {FirstAB[a]}
    @@ b :> {FirstAB[b],
             Text({}, <<Def(None, "make", "Y", 1), Def("Y", "scan", None, 2)>>, {}),
             Text({<<"Z", "X">>}, <<Def(None, "make", "Z", 1), Def("Y", "scan", None, 2)>>, {}),
             Text({}, <<Def(None, "make", "Z", 1), Def("Y", "scan", None, 2)>>, {})}
    @@ c :> {FirstAB[c], Text({}, <<Def("X", "scan", None, 2)>>, {})}

\* a: import { scan as go } from "./c"; go()
FirstAlias ==
    a :> Text({}, <<Def(None, "f", None, 1)>>,
              {[Call("go", None) EXCEPT !.orig = "scan"]})
    @@ b :> Absent @@ c :> Absent

\* c: function scan
TextsAlias ==
    a :> {FirstAlias[a]} @@ b :> {}
    @@ c :> {Text({}, <<Def(None, "scan", None, 1)>>, {})}
=============================================================================
