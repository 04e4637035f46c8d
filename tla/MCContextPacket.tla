-------------------------- MODULE MCContextPacket --------------------------
(***************************************************************************)
(* Packets of up to two rows a section, with budgets that leave every      *)
(* section out, cut some of them and fit everything.                       *)
(***************************************************************************)
EXTENDS ContextPacket, TLC

Row(sig, more) == [sig |-> sig, more |-> more]
Big == Row(110, 80)
Small == Row(40, 30)
Rows == {<<>>, <<Big>>, <<Small>>, <<Big, Small>>, <<Small, Big>>,
         <<Big, Big>>, <<Small, Small>>}

\* Every entry of files is as long as the reserve counts on.
NarrowInputs ==
    [target : {<<60, 90, 85, 110>>, <<60>>},
     callees : Rows, callers : Rows,
     context : {<<>>, <<30, 45>>}, file : {24},
     hits : BOOLEAN, tokens : {120, 140, 160, 180, 200}]

\* Neighbours in files whose entries are longer than the reserve counts on.
WideInput ==
    [target |-> <<60, 90>>,
     callees |-> <<Row(800, 30), Row(800, 12), Row(60, 12), Row(100, 12), Row(100, 20)>>,
     callers |-> <<Row(400, 20), Row(400, 12), Row(60, 20)>>,
     context |-> <<>>, file |-> 44, hits |-> FALSE, tokens |-> 360]
WideInputs == {[WideInput EXCEPT !.tokens = k] : k \in {340, 360, 380}}

MCInputs == NarrowInputs \cup WideInputs

MCShares == [target |-> 30, callees |-> 25, callers |-> 25,
             more |-> 8, context |-> 12]
=============================================================================
