---------------------------- MODULE FaultInterlock ----------------------------
(***************************************************************************)
(* What the behaviour manager promises of faults, whatever its states,     *)
(* policies and threads do: a robot whose fault is latched is let go of,   *)
(* and is not driven again until somebody has cleared the latch, which can *)
(* be done only while the robot is off.                                    *)
(***************************************************************************)

VARIABLES
    power,    \* "off", "on", or "releasing": on its way to off, for good
    latched   \* a fault waits to be acknowledged

vars == <<power, latched>>

Init == power = "off" /\ latched = FALSE

PowerOn ==
    /\ power = "off" /\ ~latched
    /\ power' = "on"
    /\ UNCHANGED latched

\* The operator switches a healthy robot off.
PowerOff ==
    /\ power = "on" /\ ~latched
    /\ power' = "off"
    /\ UNCHANGED latched

Latch ==
    /\ latched' = TRUE
    /\ UNCHANGED power

\* A policy may ask for protection before, or without, its fault being latched.
Protect ==
    /\ power = "on"
    /\ power' = "releasing"
    /\ latched' \in {latched, TRUE}

Released ==
    /\ power = "releasing"
    /\ power' = "off"
    /\ UNCHANGED latched

Clear ==
    /\ power = "off" /\ latched
    /\ latched' = FALSE
    /\ UNCHANGED power

Next == PowerOn \/ PowerOff \/ Latch \/ Protect \/ Released \/ Clear

Safety == Init /\ [][Next]_vars

\* A latched fault takes effect, and letting go comes to an end.
Spec ==
    /\ Safety
    /\ WF_vars(latched /\ Protect)
    /\ WF_vars(Released)
=============================================================================
