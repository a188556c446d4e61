-------------------------- MODULE MCBehaviorManager --------------------------
(***************************************************************************)
(* Small instances of BehaviorManager for TLC.                             *)
(***************************************************************************)
EXTENDS BehaviorManager

CONSTANTS stand, walk, dance, wave

AllKeys == {-1, 0, 1, 2, 3, 4}

NoPolicy == [p \in Policies |-> None]
NoAction == [p \in Policies |-> {}]

\* One group for all policies.
OneGroup == [p \in Policies |-> "whole_body"]

\* stand is in a group of its own.
StandApart == [p \in Policies |-> IF p = stand THEN "stance" ELSE "whole_body"]

\* dance has to follow stand and returns to it when its motion ends.
DanceToStand == [p \in Policies |-> IF p = dance THEN stand ELSE None]

\* walk owns the action wave.
WalkWaves == [p \in Policies |-> IF p = walk THEN {wave} ELSE {}]

\* What the driver side reports: a fault, its recovery, a timeout of control.
Report(on, code, seq) ==
    [active |-> on, latched |-> TRUE, code |-> code, seq |-> seq]

DriverReports  == {Report(TRUE, "driver", 1), Report(FALSE, "driver", 1)}
ControlReports == DriverReports \cup {Report(TRUE, "timeout", 0)}
=============================================================================
