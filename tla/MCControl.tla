----------------------------- MODULE MCControl ------------------------------
(***************************************************************************)
(* What people in front of the system see and decide: the governance of    *)
(* agents, with two threads of a server and an agent (see MCControlPlane), *)
(* the rate limiter of a caller, whose wall clock is set forward and back, *)
(* and the windows of the desktop application, with two tasks in flight.   *)
(* They share no variable: the part that moves is chosen at the start of a *)
(* behaviour.                                                              *)
(***************************************************************************)
EXTENDS MCControlPlane, RateLimit, DesktopWindow

VARIABLE part

ControlInit ==
    /\ part \in {"plane", "rate", "window"}
    /\ row \in MCTables
    /\ Init /\ RateInit /\ WindowInit

ControlNext ==
    \/ part = "plane" /\ Next /\ UNCHANGED <<rateVars, windowVars>>
    \/ part = "rate" /\ RateNext /\ UNCHANGED <<vars, windowVars>>
    \/ part = "window" /\ WindowNext /\ UNCHANGED <<vars, rateVars>>

controlVars == <<part, vars, rateVars, windowVars>>

ControlSpec == ControlInit /\ [][ControlNext /\ UNCHANGED part]_controlVars

\* The state of the part that moves is of its type; the others keep an initial
\* state, which the behaviours of their own part check.
ControlTypeOK ==
    /\ part = "plane" => TypeOK
    /\ part = "rate" => RateTypeOK
    /\ part = "window" => WindowTypeOK
=============================================================================
