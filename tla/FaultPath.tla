------------------------------ MODULE FaultPath ------------------------------
(***************************************************************************)
(* The way of a hardware fault: the driver (WholeBodyBackend) and the part *)
(* of control that a fault of the driver concerns, joined by the two       *)
(* channels.  Control takes one sample of the report per cycle, latches it,*)
(* takes the robot to SAFETY and POWER_OFF, and waits for the operator; the*)
(* driver waits for POWER_OFF.  Neither may wait for the other for ever.   *)
(*                                                                         *)
(* Control is BehaviorManager with one kind of fault and three modes: the  *)
(* states between DAMP and RL are "on", and SAFETY never ramps because     *)
(* AllowsControlledRelease is false for faults of the driver.  Its start-up*)
(* and its packet timeout are left out: the driver is up and does not fall *)
(* silent, or it has stopped for good.                                     *)
(***************************************************************************)
EXTENDS WholeBodyBackend

VARIABLES
    turn,    \* next of a control cycle: "read", "step", "send"
    mode,    \* "off", "on", "safety"
    latch,   \* fault_: flags, and the sequence of the report it came from
    acked,   \* sequence of the recovered report that was confirmed last, or 0
    sample   \* latest_state_fault

controlVars == <<turn, mode, latch, acked, sample>>
vars == <<driverVars, controlVars>>

-----------------------------------------------------------------------------
\* AcknowledgeFault of BehaviorManager; ack: the operator confirms the latch.
MayAcknowledge(sf) ==
    latch.latched /\ mode = "off" /\ ~latch.active /\ ~sf.active

AcknowledgeFault(sf, ack) ==
    IF ack /\ MayAcknowledge(sf)
    THEN /\ latch' = NoFault
         /\ acked' = IF sf.latched /\ sf.seq = latch.seq THEN sf.seq ELSE acked
    ELSE UNCHANGED <<latch, acked>>

\* The newest packet and the operator's confirmation reach the manager.
ControlReads ==
    /\ turn = "read" /\ turn' = "step"
    /\ sample' = published
    /\ \E ack \in BOOLEAN : AcknowledgeFault(published, ack)
    /\ UNCHANGED <<mode, driverVars>>

\* The reports of the driver: quiet, or to be latched.  Together they are
\* EvaluateReportedSensorFault and ResolveObservedFaults for one report.
IsQuiet(sf) == ~sf.active /\ (sf.latched => sf.seq = acked)

ObserveFault(sf) ==
    IF sf.active \/ (~latch.latched /\ ~IsQuiet(sf))
    THEN sf
    ELSE [latch EXCEPT !.active = FALSE]

\* MustForceSafety, MustBlockPowerOn and the transitions of the FSM.
VariantBlocksActiveOnly(m, f) ==
    CASE m = "on"     -> IF f.latched THEN {"safety"} ELSE {"on", "off"}
      [] m = "off"    -> IF f.active THEN {"off"} ELSE {"off", "on"}
      [] m = "safety" -> {"off"}

NextModes(m, f) ==
    CASE m = "on"     -> IF f.latched THEN {"safety"} ELSE {"on", "off"}
      [] m = "off"    -> IF f.latched THEN {"off"} ELSE {"off", "on"}
      [] m = "safety" -> {"off"}

ControlSteps ==
    /\ turn = "step" /\ turn' = "send"
    /\ latch' = ObserveFault(sample)
    /\ acked' = IF sample.active /\ sample.seq = acked THEN 0 ELSE acked
    /\ mode' \in NextModes(mode, latch')
    /\ UNCHANGED <<sample, driverVars>>

ControlSends ==
    /\ turn = "send" /\ turn' = "read"
    /\ SendCommand(MakeCommand(mode = "on", mode = "off"))
    /\ UNCHANGED <<mode, latch, acked, sample>>

DriverSteps ==
    /\ Cycle
    /\ UNCHANGED <<turn, mode, latch, acked, sample>>

-----------------------------------------------------------------------------
Init ==
    /\ DriverInit
    /\ turn = "read" /\ mode = "off"
    /\ latch = NoFault /\ acked = 0 /\ sample = NoFault

Control == ControlReads \/ ControlSteps \/ ControlSends

Next == Control \/ DriverSteps

\* Both loops are paced by the clock and never block.
Spec == Init /\ [][Next]_vars /\ WF_vars(Control) /\ WF_vars(DriverSteps)

TypeOK ==
    /\ DriverTypeOK
    /\ turn \in {"read", "step", "send"}
    /\ mode \in {"off", "on", "safety"}
    /\ latch \in Faults /\ sample \in Faults
    /\ acked \in Nat

-----------------------------------------------------------------------------
(***************************************************************************)
(* Control keeps its promise of FaultInterlock with a driver that reports, *)
(* recovers and repeats faults in any order between control's samples.     *)
(***************************************************************************)
Interlock ==
    INSTANCE FaultInterlock WITH
        power   <- IF mode = "safety" THEN "releasing" ELSE mode,
        latched <- latch.latched

KeepsInterlock == Interlock!Safety

(***************************************************************************)
(* Neither side waits for the other for ever: control lets the operator    *)
(* confirm a fault only when the driver reports it as over, and the driver *)
(* forgets a fault that came up during the wait only after POWER_OFF.      *)
(***************************************************************************)
LatchCanBeCleared ==
    latch.latched ~> (phase = "stopped" \/ MayAcknowledge(published))

\* A robot that control keeps off ends the wait of the driver.
WaitEnds ==
    (awaitPowerOff /\ mode = "off")
        ~> (~awaitPowerOff \/ mode # "off" \/ phase = "stopped")

(***************************************************************************)
(* When control switches the robot off the motors follow, although the     *)
(* command that says so may be dropped, refused, or fail in the device.    *)
(***************************************************************************)
StopIsObeyed ==
    (mode = "off" /\ armed) ~> (~armed \/ mode # "off" \/ phase = "stopped")
=============================================================================
