--------------------------- MODULE FaultPath_proofs ---------------------------
(***************************************************************************)
(* Proofs about the driver and control together: what was proved of the    *)
(* driver holds with control as its environment, and control keeps         *)
(* FaultInterlock whatever the driver reports.                             *)
(***************************************************************************)
EXTENDS FaultPath, WholeBodyBackend_proofs

LEMMA StepIsDriverStep == [Next]_vars => [DriverNext]_driverVars
  <1> SUFFICES ASSUME [Next]_vars PROVE [DriverNext]_driverVars
    OBVIOUS
  <1>1. CASE ControlSends
    <2>1. (mode = "on") \in BOOLEAN /\ (mode = "off") \in BOOLEAN
      OBVIOUS
    <2> QED
      BY <1>1, <2>1 DEF ControlSends, DriverNext
  <1>2. CASE ControlReads \/ ControlSteps
    BY <1>2 DEF ControlReads, ControlSteps
  <1>3. CASE DriverSteps
    BY <1>3 DEF DriverSteps, DriverNext
  <1>4. CASE UNCHANGED vars
    BY <1>4 DEF vars
  <1> QED
    BY <1>1, <1>2, <1>3, <1>4 DEF Next, Control

(***************************************************************************)
(* Control is one of the environments of the driver.                       *)
(***************************************************************************)
THEOREM PathRunsDriver == Spec => DriverSpec
  BY StepIsDriverStep, PTL DEF Spec, DriverSpec, Init

(***************************************************************************)
(* With control in the loop too: the motors are held off while the driver  *)
(* waits, only a POWER_OFF sent after the loss ends the wait, and a loss   *)
(* is reported in the cycle in which it is found.                          *)
(***************************************************************************)
THEOREM PathHoldsMotorsOff == Spec => []HeldOff
  BY PathRunsDriver, MotorsHeldOff, PTL

THEOREM PathRearmsWhenAsked == Spec => RearmIsAsked
  BY PathRunsDriver, RearmingIsAsked, PTL

THEOREM PathReportsLosses == Spec => LossIsReported
  BY PathRunsDriver, LossesAreReported, PTL

-----------------------------------------------------------------------------
(***************************************************************************)
(* A fault that is active is latched, wherever it is; control is not on    *)
(* while it has latched one, and is in SAFETY only because it has.         *)
(***************************************************************************)
Sound(f) == f.active => f.latched

PathInv ==
    /\ TypeOK
    /\ Sound(report.fault) /\ Sound(published) /\ Sound(sample) /\ Sound(latch)
    /\ mode = "on" => ~latch.latched
    /\ mode = "safety" => latch.latched

LEMMA UpdateIsSound ==
    ASSUME NEW rep \in Reports, NEW c \in Contexts
    PROVE  Sound(UpdateFault(rep, c).fault)
  <1>1. CASE rep.fault.latched
    <2> DEFINE f == [rep.fault EXCEPT !.active = TRUE]
    <2>1. f.latched
      BY <1>1 DEF Reports, Faults
    <2>2. UpdateFault(rep, c) = [rep EXCEPT !.fault = f]
      BY <1>1 DEF UpdateFault
    <2> HIDE DEF f
    <2>3. UpdateFault(rep, c).fault = f
      BY <2>2 DEF Reports
    <2> QED
      BY <2>1, <2>3 DEF Sound
  <1>2. CASE ~rep.fault.latched
    BY <1>2 DEF UpdateFault, Sound
  <1> QED
    BY <1>1, <1>2

LEMMA ClearIsSound ==
    ASSUME NEW rep \in Reports
    PROVE  Sound(ClearFault(rep).fault)
  BY DEF ClearFault, NoFault, Sound, Reports

LEMMA RecoverIsSound ==
    ASSUME NEW rep \in Reports, NEW cs, Sound(rep.fault)
    PROVE  Sound(RecoverFault(rep, cs).fault)
  BY ClearIsSound DEF RecoverFault

LEMMA InactiveIsSound ==
    ASSUME NEW rep \in Reports
    PROVE  Sound([rep EXCEPT !.fault.active = FALSE].fault)
  <1> DEFINE f == [rep.fault EXCEPT !.active = FALSE]
  <1>1. ~f.active
    BY DEF Reports, Faults
  <1>2. [rep EXCEPT !.fault.active = FALSE] = [rep EXCEPT !.fault = f]
    OBVIOUS
  <1> HIDE DEF f
  <1>3. [rep EXCEPT !.fault = f].fault = f
    BY DEF Reports
  <1> QED
    BY <1>1, <1>2, <1>3 DEF Sound

LEMMA ReportIsSound ==
    ASSUME DriverTypeOK, Sound(report.fault), Cycle
    PROVE  Sound(report'.fault)
  <1>1. report \in Reports
    BY DEF DriverTypeOK, Reports
  <1>2. \A c \in Contexts : Sound(UpdateFault(report, c).fault)
    BY <1>1, UpdateIsSound
  <1>3. \A cs : /\ RecoverFault(report, cs) \in Reports
                /\ Sound(RecoverFault(report, cs).fault)
    BY <1>1, RecoverFaultType, RecoverIsSound
  <1>4. \A cs : \A c \in Contexts :
            Sound(UpdateFault(RecoverFault(report, cs), c).fault)
    BY <1>3, UpdateIsSound
  <1>5. {"initialization", "read", "command", "tick", "stateAdapter",
         "commandAdapter"} \subseteq Contexts
    BY DEF Contexts
  <1>6. CASE Initialize
    BY <1>2, <1>5, <1>6 DEF Initialize
  <1>7. CASE Receive
    BY <1>2, <1>3, <1>4, <1>5, <1>7
       DEF Receive, ReadFeedback, RejectFeedback, AwaitFeedback, LoseFeedback
  <1>8. CASE Stop
    BY <1>8 DEF Stop
  <1>9. CASE Write
    <2>1. Sound(ClearFault(report).fault)
      BY <1>1, ClearIsSound
    <2> QED
      BY <1>2, <1>3, <1>4, <1>5, <1>9, <2>1
         DEF Write, DropCommand, RejectCommand, ForwardCommand, ForwardLater,
             ForwardFails
  <1>10. CASE Tick
    <2>1. PICK r \in TickResults : FinishCycle(r) \/ GiveUp(r)
      BY <1>10 DEF Tick
    <2>2. TickReport(r) \in Reports /\ Sound(TickReport(r).fault)
      BY <1>1, <1>2, <1>3, <1>5, UpdateFaultType DEF TickReport
    <2>3. Sound([TickReport(r) EXCEPT !.fault.active = FALSE].fault)
      BY <2>2, InactiveIsSound
    <2> QED
      BY <2>1, <2>2, <2>3
         DEF FinishCycle, GiveUp, LoseHardware, RegainHardware, KeepHardware
  <1> QED
    BY <1>6, <1>7, <1>8, <1>9, <1>10 DEF Cycle

\* A step of the driver sends its new report, or the one that Tick made of it
\* before it judged the cycle, or nothing.
LEMMA PacketIsSound ==
    ASSUME DriverInv, Sound(report.fault), Sound(published), Cycle
    PROVE  Sound(published')
  <1>1. report \in Reports /\ DriverTypeOK
    BY DEF DriverInv, DriverTypeOK, Reports
  <1>2. Sound(report'.fault)
    BY <1>1, ReportIsSound
  <1>3. CASE Tick
    <2>1. PICK r \in TickResults : FinishCycle(r) \/ GiveUp(r)
      BY <1>3 DEF Tick
    <2>2. Sound(UpdateFault(report, "tick").fault)
      BY <1>1, UpdateIsSound DEF Contexts
    <2>3. TickIsFault(r) => Sound(TickReport(r).fault)
      BY <2>2 DEF TickReport
    <2> QED
      BY <1>2, <2>1, <2>3 DEF FinishCycle, GiveUp, PacketAfterTick
  <1>4. CASE Initialize \/ Stop
    BY <1>2, <1>4 DEF Initialize, Stop
  <1>5. CASE Receive
    BY <1>2, <1>5
       DEF Receive, ReadFeedback, RejectFeedback, AwaitFeedback, LoseFeedback, Publish
  <1>6. CASE Write
    BY <1>2, <1>6
       DEF Write, DropCommand, RejectCommand, ForwardCommand, ForwardLater,
           ForwardFails, Publish
  <1> QED
    BY <1>3, <1>4, <1>5, <1>6 DEF Cycle

LEMMA InitPath == Init => PathInv
  <1> SUFFICES ASSUME Init PROVE PathInv
    OBVIOUS
  <1>1. NoFault \in Faults /\ Sound(NoFault) /\ ~NoFault.latched
    BY DEF NoFault, Faults, Sound
  <1>2. DriverTypeOK
    BY InitInv DEF Init, DriverInv
  <1>3. report.fault = NoFault /\ published = NoFault
    BY DEF Init, DriverInit, NoReport
  <1>4. /\ turn = "read" /\ mode = "off" /\ latch = NoFault /\ acked = 0
        /\ sample = NoFault
    BY DEF Init
  <1> QED
    BY <1>1, <1>2, <1>3, <1>4 DEF PathInv, TypeOK

LEMMA ReadsStep ==
    ASSUME PathInv, ControlReads
    PROVE  PathInv'
  <1>1. NoFault \in Faults /\ Sound(NoFault) /\ ~NoFault.latched
    BY DEF NoFault, Faults, Sound
  <1>2. PICK ack \in BOOLEAN : AcknowledgeFault(published, ack)
    BY DEF ControlReads
  <1>3. UNCHANGED <<mode, driverVars>> /\ sample' = published /\ turn' = "step"
    BY DEF ControlReads
  <1>4. DriverTypeOK' /\ sample' \in Faults /\ published.seq \in Nat
    BY <1>3 DEF PathInv, TypeOK, DriverTypeOK, driverVars, Faults
  <1>5. /\ latch' \in Faults /\ Sound(latch')
        /\ acked' \in Nat
        /\ mode = "on" => ~latch'.latched
        /\ mode = "safety" => latch'.latched
    BY <1>1, <1>2, <1>4 DEF AcknowledgeFault, MayAcknowledge, PathInv, TypeOK
  <1> QED
    BY <1>3, <1>4, <1>5 DEF PathInv, TypeOK, driverVars

\* What control has latched after it has looked at the sample.
LEMMA ObservedType ==
    ASSUME PathInv
    PROVE  /\ ObserveFault(sample) \in Faults
           /\ Sound(ObserveFault(sample))
           /\ latch.latched => ObserveFault(sample).latched
  <1>1. CASE sample.active \/ (~latch.latched /\ ~IsQuiet(sample))
    BY <1>1 DEF ObserveFault, PathInv, TypeOK, Sound, IsQuiet
  <1>2. CASE ~(sample.active \/ (~latch.latched /\ ~IsQuiet(sample)))
    BY <1>2 DEF ObserveFault, PathInv, TypeOK, Sound, Faults
  <1> QED
    BY <1>1, <1>2

LEMMA StepsStep ==
    ASSUME PathInv, ControlSteps
    PROVE  PathInv'
  <1>1. /\ latch' \in Faults /\ Sound(latch')
        /\ latch.latched => latch'.latched
    BY ObservedType DEF ControlSteps
  <1>2. UNCHANGED <<sample, driverVars>> /\ turn' = "send"
    BY DEF ControlSteps
  <1>3. acked' \in Nat
    BY DEF ControlSteps, PathInv, TypeOK
  <1>4. /\ mode' \in {"on", "off", "safety"}
        /\ mode' = "on" => ~latch'.latched
        /\ mode' = "safety" => latch'.latched
    <2>1. mode' \in NextModes(mode, latch')
      BY DEF ControlSteps
    <2>2. CASE mode = "on"
      BY <2>1, <2>2 DEF NextModes
    <2>3. CASE mode = "off"
      BY <2>1, <2>3 DEF NextModes
    <2>4. CASE mode = "safety"
      BY <2>1, <2>4 DEF NextModes
    <2> QED
      BY <2>2, <2>3, <2>4 DEF PathInv, TypeOK
  <1> QED
    BY <1>1, <1>2, <1>3, <1>4 DEF PathInv, TypeOK, DriverTypeOK, driverVars

LEMMA PathStep == PathInv /\ DriverInv /\ [Next]_vars => PathInv'
  <1> SUFFICES ASSUME PathInv, DriverInv, [Next]_vars PROVE PathInv'
    OBVIOUS
  <1>1. DriverTypeOK'
    BY StepIsDriverStep, DriverStep DEF DriverInv
  <1>2. CASE ControlReads
    BY <1>2, ReadsStep
  <1>3. CASE ControlSteps
    BY <1>3, StepsStep
  <1>4. CASE ControlSends
    BY <1>1, <1>4 DEF ControlSends, SendCommand, PathInv, TypeOK
  <1>5. CASE DriverSteps
    <2>1. Sound(report'.fault) /\ Sound(published')
      BY <1>5, ReportIsSound, PacketIsSound DEF DriverSteps, PathInv, DriverInv
    <2>2. UNCHANGED <<turn, mode, latch, acked, sample>>
      BY <1>5 DEF DriverSteps
    <2> QED
      BY <1>1, <2>1, <2>2 DEF PathInv, TypeOK
  <1>6. CASE UNCHANGED vars
    BY <1>1, <1>6 DEF vars, controlVars, driverVars, PathInv, TypeOK
  <1> QED
    BY <1>2, <1>3, <1>4, <1>5, <1>6 DEF Next, Control

LEMMA PathInvariant == Spec => [](PathInv /\ DriverInv)
  <1>1. Init => PathInv /\ DriverInv
    BY InitPath, InitInv DEF Init
  <1>2. (PathInv /\ DriverInv) /\ [Next]_vars => (PathInv /\ DriverInv)'
    BY PathStep, StepIsDriverStep, DriverStep
  <1> QED
    BY <1>1, <1>2, PTL DEF Spec

(***************************************************************************)
(* The latch, the sample and the modes of control have their types, with   *)
(* every report the driver can make.                                       *)
(***************************************************************************)
THEOREM PathTypeCorrect == Spec => []TypeOK
  BY PathInvariant, PTL DEF PathInv

-----------------------------------------------------------------------------
\* Every step is one that FaultInterlock allows, or none that it sees.
LEMMA InterlockStep ==
    ASSUME PathInv, [Next]_vars
    PROVE  [Interlock!Next]_(Interlock!vars)
  <1> USE DEF Interlock!vars
  <1>1. CASE ControlReads
    <2>1. PICK ack \in BOOLEAN : AcknowledgeFault(published, ack)
      BY <1>1 DEF ControlReads
    <2>2. UNCHANGED mode
      BY <1>1 DEF ControlReads
    <2>3. CASE ack /\ MayAcknowledge(published)
      <3>1. latch' = NoFault /\ latch.latched /\ mode = "off"
        BY <2>1, <2>3 DEF AcknowledgeFault, MayAcknowledge
      <3>2. Interlock!Clear
        BY <2>2, <3>1 DEF Interlock!Clear, NoFault
      <3> QED
        BY <3>2 DEF Interlock!Next
    <2>4. CASE ~(ack /\ MayAcknowledge(published))
      BY <2>1, <2>2, <2>4 DEF AcknowledgeFault
    <2> QED
      BY <2>3, <2>4
  <1>2. CASE ControlSteps
    <2>1. /\ latch' = ObserveFault(sample) /\ mode' \in NextModes(mode, latch')
          /\ latch.latched => latch'.latched
          /\ latch.latched \in BOOLEAN /\ latch'.latched \in BOOLEAN
      BY <1>2, ObservedType DEF ControlSteps, PathInv, TypeOK, Faults
    <2>2. CASE mode = "on"
      <3>1. ~latch.latched
        BY <2>2 DEF PathInv
      <3>2. CASE latch'.latched
        <4>1. mode' = "safety"
          BY <2>1, <2>2, <3>2 DEF NextModes
        <4>2. Interlock!Protect
          BY <2>1, <2>2, <3>2, <4>1 DEF Interlock!Protect
        <4> QED
          BY <4>2 DEF Interlock!Next
      <3>3. CASE ~latch'.latched
        <4>1. mode' \in {"on", "off"} /\ latch'.latched = latch.latched
          BY <2>1, <2>2, <3>1, <3>3 DEF NextModes
        <4>2. CASE mode' = "on"
          BY <2>2, <4>1, <4>2
        <4>3. CASE mode' = "off"
          BY <2>2, <3>1, <4>1, <4>3 DEF Interlock!Next, Interlock!PowerOff
        <4> QED
          BY <4>1, <4>2, <4>3
      <3> QED
        BY <3>2, <3>3
    <2>3. CASE mode = "off"
      <3>1. CASE latch'.latched
        <4>1. mode' = "off"
          BY <2>1, <2>3, <3>1 DEF NextModes
        <4> QED
          BY <2>1, <2>3, <3>1, <4>1 DEF Interlock!Next, Interlock!Latch
      <3>2. CASE ~latch'.latched
        <4>1. /\ mode' \in {"on", "off"}
              /\ ~latch.latched /\ latch'.latched = latch.latched
          BY <2>1, <2>3, <3>2 DEF NextModes
        <4>2. CASE mode' = "off"
          BY <2>3, <4>1, <4>2
        <4>3. CASE mode' = "on"
          BY <2>3, <4>1, <4>3 DEF Interlock!Next, Interlock!PowerOn
        <4> QED
          BY <4>1, <4>2, <4>3
      <3> QED
        BY <3>1, <3>2
    <2>4. CASE mode = "safety"
      <3>1. mode' = "off" /\ latch.latched /\ latch'.latched = latch.latched
        BY <2>1, <2>4 DEF NextModes, PathInv
      <3> QED
        BY <2>4, <3>1 DEF Interlock!Next, Interlock!Released
    <2> QED
      BY <2>2, <2>3, <2>4 DEF PathInv, TypeOK
  <1>3. CASE ControlSends \/ DriverSteps \/ UNCHANGED vars
    BY <1>3 DEF ControlSends, DriverSteps, vars, controlVars
  <1> QED
    BY <1>1, <1>2, <1>3 DEF Next, Control

(***************************************************************************)
(* Control keeps FaultInterlock with this driver: it lets go of the robot  *)
(* when it has latched a fault, and does not drive it again before the     *)
(* operator has cleared the latch of a robot that is off.                  *)
(***************************************************************************)
THEOREM PathKeepsInterlock == Spec => KeepsInterlock
  <1>1. Init => Interlock!Init
    BY DEF Init, Interlock!Init, NoFault
  <1>2. PathInv /\ [Next]_vars => [Interlock!Next]_(Interlock!vars)
    BY InterlockStep
  <1> QED
    BY <1>1, <1>2, PathInvariant, PTL DEF Spec, KeepsInterlock, Interlock!Safety
=============================================================================
