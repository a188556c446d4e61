----------------------- MODULE WholeBodyBackend_proofs -----------------------
(***************************************************************************)
(* Proofs about the hardware driver, for any bound on the setbacks and for *)
(* every sequence of commands that control may send.                       *)
(***************************************************************************)
EXTENDS WholeBodyBackend, TLAPS

Reports == [fault : Faults, context : Contexts, sequence : Nat]

(***************************************************************************)
(* What a step relies on.  A cycle that has failed has told control so; a  *)
(* command from before a loss is alive only while the loss lasts, on the   *)
(* channel until the next cycle and in that cycle until it ends.           *)
(***************************************************************************)
FailureIsTold ==
    /\ phase \in {"init", "receive", "write"} => ~cycleFailed
    /\ phase = "tick" /\ cycleFailed => published.active

StaleIsDropped ==
    /\ command.stale => recoveryActive /\ phase \in {"receive", "stopped"}
    /\ received.stale => recoveryActive /\ phase \in {"write", "tick", "stopped"}

DriverInv ==
    /\ DriverTypeOK
    /\ recoveryActive => awaitPowerOff
    /\ HeldOff
    /\ FailureIsTold
    /\ StaleIsDropped

-----------------------------------------------------------------------------
LEMMA UpdateFaultType ==
    ASSUME NEW rep \in Reports, NEW c \in Contexts
    PROVE  UpdateFault(rep, c) \in Reports /\ UpdateFault(rep, c).fault.active
  <1>1. rep.sequence \in Nat /\ rep.fault \in Faults
    BY DEF Reports
  <1>2. CASE rep.fault.latched
    <2> DEFINE f == [rep.fault EXCEPT !.active = TRUE]
    <2>1. f \in Faults /\ f.active
      BY <1>1 DEF Faults
    <2>2. UpdateFault(rep, c) = [rep EXCEPT !.fault = f]
      BY <1>2 DEF UpdateFault
    <2> HIDE DEF f
    <2>3. [rep EXCEPT !.fault = f] \in Reports
          /\ [rep EXCEPT !.fault = f].fault = f
      BY <2>1 DEF Reports
    <2> QED
      BY <2>1, <2>2, <2>3
  <1>3. CASE ~rep.fault.latched
    BY <1>1, <1>3 DEF UpdateFault, Reports, Faults
  <1> QED
    BY <1>2, <1>3

LEMMA ClearFaultType ==
    ASSUME NEW rep \in Reports
    PROVE  ClearFault(rep) \in Reports
  BY DEF ClearFault, Reports, Faults, NoFault, Contexts

LEMMA RecoverFaultType ==
    ASSUME NEW rep \in Reports, NEW cs
    PROVE  RecoverFault(rep, cs) \in Reports
  BY ClearFaultType DEF RecoverFault

LEMMA ReportFaultType ==
    ASSUME NEW rep \in Reports
    PROVE  rep.fault \in Faults
  BY DEF Reports

LEMMA AnswerType ==
    ASSUME DriverTypeOK, NEW r, Answer(r)
    PROVE  setbacks' \in 0 .. MaxSetbacks
  BY SetbackAssumption DEF DriverTypeOK, Answer

LEMMA NoCommandType == NoCommand \in Commands /\ ~NoCommand.stale
  BY DEF NoCommand, Commands

LEMMA MakeCommandType ==
    ASSUME NEW e \in BOOLEAN, NEW o \in BOOLEAN
    PROVE  MakeCommand(e, o) \in Commands /\ ~MakeCommand(e, o).stale
  BY DEF MakeCommand, Commands

\* Publishing changes the channel to a fault, or nothing, and ends up in one
\* of two places.
LEMMA PublishType ==
    ASSUME DriverTypeOK, NEW rep \in Reports, NEW next \in Phases,
           Publish(rep, next)
    PROVE  /\ published' \in Faults
           /\ phase' \in Phases
           /\ \/ phase' = next /\ published' = rep.fault
              \/ phase' = "stopped"
  BY ReportFaultType DEF Publish, DriverTypeOK, Phases

-----------------------------------------------------------------------------
LEMMA InitInv == DriverInit => DriverInv
  <1> SUFFICES ASSUME DriverInit PROVE DriverInv
    OBVIOUS
  <1>1. NoFault \in Faults
    BY DEF NoFault, Faults
  <1>2. NoReport \in Reports
    BY <1>1 DEF NoReport, Reports, Contexts
  <1>3. DriverTypeOK
    <2>1. setbacks \in 0 .. MaxSetbacks
      BY SetbackAssumption DEF DriverInit
    <2>2. report \in Reports /\ published \in Faults
      BY <1>1, <1>2 DEF DriverInit
    <2> QED
      BY <2>1, <2>2, NoCommandType
         DEF DriverInit, DriverTypeOK, Phases, ReadResults, Reports
  <1> QED
    BY <1>3, NoCommandType
       DEF DriverInit, DriverInv, HeldOff, FailureIsTold, StaleIsDropped

LEMMA InitializeInv == DriverInv /\ Initialize => DriverInv'
  <1> SUFFICES ASSUME DriverInv, Initialize PROVE DriverInv'
    OBVIOUS
  <1>1. DriverTypeOK'
    <2>1. setbacks' \in 0 .. MaxSetbacks
      BY AnswerType DEF DriverInv, Initialize
    <2>2. UpdateFault(report, "initialization") \in Reports
      BY UpdateFaultType DEF DriverInv, DriverTypeOK, Reports, Contexts
    <2>3. report' \in Reports /\ published' \in Faults
      BY <2>2, ReportFaultType DEF DriverInv, DriverTypeOK, Initialize, Reports
    <2> QED
      BY <2>1, <2>3 DEF DriverInv, DriverTypeOK, Initialize, Phases, Reports
  <1> QED
    BY <1>1 DEF DriverInv, Initialize, HeldOff, FailureIsTold, StaleIsDropped

LEMMA ReceiveInv == DriverInv /\ Receive => DriverInv'
  <1> SUFFICES ASSUME DriverInv, Receive PROVE DriverInv'
    OBVIOUS
  <1>1. PICK r \in ReadResults :
            /\ read' = r
            /\ ReadFeedback(r) \/ RejectFeedback(r) \/ AwaitFeedback(r)
               \/ LoseFeedback(r)
    BY DEF Receive
  <1>2. report \in Reports /\ DriverTypeOK /\ phase = "receive" /\ ~cycleFailed
    BY DEF DriverInv, DriverTypeOK, Receive, FailureIsTold, Reports
  <1>3. received' = command /\ command' = NoCommand
    BY DEF Receive, TakeCommand
  <1>4. UNCHANGED <<recoveryActive, awaitPowerOff>>
    BY DEF Receive
  <1>5. /\ report' \in Reports /\ published' \in Faults
        /\ setbacks' \in 0 .. MaxSetbacks
        /\ phase' \in {"write", "tick", "stopped"}
        /\ cycleFailed' \in BOOLEAN /\ (armed' = FALSE \/ UNCHANGED armed)
        /\ phase' = "write" => ~cycleFailed'
        /\ phase' = "tick" /\ cycleFailed' => published'.active
    <2>1. CASE ReadFeedback(r)
      <3>1. report' \in Reports
        BY <1>2, <2>1, RecoverFaultType DEF ReadFeedback
      <3>2. setbacks' \in 0 .. MaxSetbacks
        BY <1>2, <2>1, AnswerType DEF ReadFeedback
      <3>3. UNCHANGED <<cycleFailed, armed>> /\ Publish(report', "write")
        BY <2>1 DEF ReadFeedback
      <3>4. published' \in Faults /\ phase' \in {"write", "stopped"}
        BY <1>2, <3>1, <3>3, ReportFaultType DEF Publish, DriverTypeOK
      <3> QED
        BY <1>2, <3>1, <3>2, <3>3, <3>4 DEF DriverTypeOK
    <2>2. CASE RejectFeedback(r)
      <3>1. report' \in Reports /\ report'.fault.active
        <4>1. RecoverFault(report, {"read"}) \in Reports
          BY <1>2, RecoverFaultType
        <4> QED
          BY <2>2, <4>1, UpdateFaultType DEF RejectFeedback, Contexts
      <3>2. setbacks' \in 0 .. MaxSetbacks
        BY <1>2, <2>2, SetbackAssumption DEF RejectFeedback, DriverTypeOK
      <3>3. cycleFailed' = TRUE /\ armed' = FALSE /\ Publish(report', "tick")
        BY <2>2 DEF RejectFeedback
      <3> QED
        BY <1>2, <3>1, <3>2, <3>3, ReportFaultType DEF Publish, DriverTypeOK
    <2>3. CASE AwaitFeedback(r)
      BY <1>2, <2>3, AnswerType DEF AwaitFeedback, DriverTypeOK
    <2>4. CASE LoseFeedback(r)
      <3>1. report' \in Reports /\ report'.fault.active
        BY <1>2, <2>4, UpdateFaultType DEF LoseFeedback, Contexts
      <3>2. setbacks' \in 0 .. MaxSetbacks
        BY <1>2, <2>4, AnswerType DEF LoseFeedback
      <3>3. cycleFailed' = TRUE /\ UNCHANGED armed /\ Publish(report', "tick")
        BY <2>4 DEF LoseFeedback
      <3> QED
        BY <1>2, <3>1, <3>2, <3>3, ReportFaultType DEF Publish, DriverTypeOK
    <2> QED
      BY <1>1, <2>1, <2>2, <2>3, <2>4
  <1>6. DriverTypeOK'
    BY <1>1, <1>2, <1>3, <1>4, <1>5, NoCommandType
       DEF DriverTypeOK, Phases, Reports
  <1>7. StaleIsDropped'
    BY <1>2, <1>3, <1>4, <1>5, NoCommandType DEF DriverInv, StaleIsDropped
  <1> QED
    BY <1>4, <1>5, <1>6, <1>7 DEF DriverInv, HeldOff, FailureIsTold

LEMMA WriteInv == DriverInv /\ Write => DriverInv'
  <1> SUFFICES ASSUME DriverInv, Write PROVE DriverInv'
    OBVIOUS
  <1>1. report \in Reports /\ DriverTypeOK /\ phase = "write" /\ ~cycleFailed
    BY DEF DriverInv, DriverTypeOK, Write, FailureIsTold, Reports
  <1>2. UNCHANGED <<received, read, recoveryActive, command>>
    BY DEF Write
  <1>3. AcceptsCommand /\ awaitPowerOff => ~received.enable
    BY DEF AcceptsCommand
  <1>4. /\ report' \in Reports /\ published' \in Faults
        /\ setbacks' \in 0 .. MaxSetbacks
        /\ phase' \in {"tick", "stopped"}
        /\ cycleFailed' \in BOOLEAN /\ armed' \in BOOLEAN
        /\ phase' = "tick" /\ cycleFailed' => published'.active
        /\ \/ UNCHANGED awaitPowerOff
           \/ awaitPowerOff' = FALSE /\ ~recoveryActive
        /\ awaitPowerOff' => ~armed'
    <2>1. CASE DropCommand
      BY <1>1, <2>1 DEF DropCommand, DriverInv, DriverTypeOK, HeldOff
    <2>2. CASE RejectCommand
      <3>1. report' \in Reports /\ report'.fault.active
        BY <1>1, <2>2, UpdateFaultType DEF RejectCommand, Contexts
      <3>2. setbacks' \in 0 .. MaxSetbacks
        BY <1>1, <2>2, SetbackAssumption DEF RejectCommand, DriverTypeOK
      <3>3. /\ UNCHANGED <<cycleFailed, awaitPowerOff>> /\ armed' = FALSE
            /\ Publish(report', "tick")
        BY <2>2 DEF RejectCommand
      <3> QED
        BY <1>1, <3>1, <3>2, <3>3, ReportFaultType DEF Publish, DriverTypeOK
    <2>3. CASE ForwardCommand
      <3>1. report' \in Reports
        BY <1>1, <2>3, ClearFaultType, RecoverFaultType DEF ForwardCommand
      <3>2. setbacks' \in 0 .. MaxSetbacks
        BY <1>1, <2>3, AnswerType DEF ForwardCommand
      <3> QED
        BY <1>1, <2>3, <3>1, <3>2
           DEF ForwardCommand, AcceptsCommand, DriverTypeOK, Commands
    <2>4. CASE ForwardLater
      <3>1. report' \in Reports
        BY <1>1, <2>4, RecoverFaultType DEF ForwardLater
      <3>2. setbacks' \in 0 .. MaxSetbacks
        BY <1>1, <2>4, AnswerType DEF ForwardLater
      <3> QED
        BY <1>1, <1>3, <2>4, <3>1, <3>2
           DEF ForwardLater, DriverInv, HeldOff, DriverTypeOK, Commands
    <2>5. CASE \E r \in WriteResults : ForwardFails(r)
      <3>0. PICK r \in WriteResults : ForwardFails(r)
        BY <2>5
      <3>1. report' \in Reports /\ report'.fault.active
        <4>1. RecoverFault(report, {"commandAdapter"}) \in Reports
          BY <1>1, RecoverFaultType
        <4> QED
          BY <3>0, <4>1, UpdateFaultType DEF ForwardFails, Contexts
      <3>2. setbacks' \in 0 .. MaxSetbacks
        BY <1>1, <3>0, AnswerType DEF ForwardFails
      <3>3. /\ UNCHANGED awaitPowerOff /\ cycleFailed' \in BOOLEAN
            /\ Publish(report', "tick")
        BY <3>0 DEF ForwardFails
      <3>4. armed' \in BOOLEAN /\ (awaitPowerOff => ~armed')
        BY <1>1, <1>3, <3>0
           DEF ForwardFails, DriverInv, HeldOff, DriverTypeOK, Commands
      <3> QED
        BY <1>1, <3>1, <3>2, <3>3, <3>4, ReportFaultType DEF Publish, DriverTypeOK
    <2> QED
      BY <2>1, <2>2, <2>3, <2>4, <2>5 DEF Write
  <1>5. DriverTypeOK'
    BY <1>1, <1>2, <1>4 DEF DriverTypeOK, Phases, Reports
  <1>6. StaleIsDropped'
    BY <1>1, <1>2, <1>4 DEF DriverInv, StaleIsDropped
  <1> QED
    BY <1>2, <1>4, <1>5, <1>6 DEF DriverInv, HeldOff, FailureIsTold

LEMMA TickReportType ==
    ASSUME DriverInv, NEW r
    PROVE  /\ TickReport(r) \in Reports
           /\ TickIsFault(r) => TickReport(r).fault.active
           /\ PacketAfterTick(r) \in Faults
  <1>1. report \in Reports /\ published \in Faults
    BY DEF DriverInv, DriverTypeOK, Reports
  <1>2. "tick" \in Contexts
    BY DEF Contexts
  <1>3. /\ UpdateFault(report, "tick") \in Reports
        /\ UpdateFault(report, "tick").fault.active
        /\ RecoverFault(report, {"tick"}) \in Reports
    BY <1>1, <1>2, UpdateFaultType, RecoverFaultType
  <1>4. TickReport(r) \in Reports /\ (TickIsFault(r) => TickReport(r).fault.active)
    BY <1>1, <1>3 DEF TickReport
  <1> QED
    BY <1>1, <1>4, ReportFaultType DEF PacketAfterTick

LEMMA InactiveType ==
    ASSUME NEW rep \in Reports
    PROVE  [rep EXCEPT !.fault.active = FALSE] \in Reports
  <1> DEFINE f == [rep.fault EXCEPT !.active = FALSE]
  <1>1. f \in Faults
    BY DEF Reports, Faults
  <1>2. [rep EXCEPT !.fault.active = FALSE] = [rep EXCEPT !.fault = f]
    OBVIOUS
  <1> HIDE DEF f
  <1>3. [rep EXCEPT !.fault = f] \in Reports
    BY <1>1 DEF Reports
  <1> QED
    BY <1>2, <1>3

LEMMA TickInv == DriverInv /\ Tick => DriverInv'
  <1> SUFFICES ASSUME DriverInv, Tick PROVE DriverInv'
    OBVIOUS
  <1>1. PICK r \in TickResults : Answer(r) /\ (FinishCycle(r) \/ GiveUp(r))
    BY DEF Tick
  <1>2. DriverTypeOK /\ phase = "tick" /\ ~command.stale
    BY DEF DriverInv, Tick, StaleIsDropped
  <1>3. received' = NoCommand /\ read' = "OK" /\ cycleFailed' = FALSE
    BY DEF Tick
  <1>4. setbacks' \in 0 .. MaxSetbacks
    BY <1>1, <1>2, AnswerType
  <1>5. /\ report' \in Reports /\ published' \in Faults
        /\ phase' \in {"receive", "stopped"}
        /\ recoveryActive' \in BOOLEAN /\ awaitPowerOff' \in BOOLEAN
        /\ recoveryActive' => awaitPowerOff'
        /\ armed' \in BOOLEAN /\ (awaitPowerOff' => ~armed')
        /\ command' \in Commands
        /\ command'.stale => recoveryActive' /\ phase' = "receive"
    <2>1. CASE GiveUp(r)
      <3>1. report' \in Reports /\ published' \in Faults
        BY <1>2, <2>1, TickReportType, ReportFaultType DEF GiveUp, DriverTypeOK
      <3> QED
        BY <1>2, <2>1, <3>1 DEF GiveUp, DriverInv, HeldOff, DriverTypeOK
    <2>2. CASE FinishCycle(r)
      <3>1. published' \in Faults /\ phase' = "receive"
        BY <2>2, TickReportType DEF FinishCycle
      <3>2. CASE LoseHardware(r)
        <4>1. report' \in Reports
          BY <3>2, TickReportType DEF LoseHardware
        <4>2. recoveryActive' = TRUE /\ awaitPowerOff' = TRUE
          BY <3>2 DEF LoseHardware
        <4>3. armed' = FALSE /\ command' \in Commands
          <5>1. EnterRecovery
            BY <3>2 DEF LoseHardware
          <5>2. CASE recoveryActive
            BY <1>2, <5>1, <5>2 DEF EnterRecovery, DriverInv, HeldOff, DriverTypeOK
          <5>3. CASE ~recoveryActive
            BY <1>2, <5>1, <5>3 DEF EnterRecovery, Outdated, DriverTypeOK, Commands
          <5> QED
            BY <5>2, <5>3
        <4> QED
          BY <3>1, <4>1, <4>2, <4>3
      <3>3. CASE RegainHardware(r)
        <4>1. report' \in Reports
          BY <3>3, TickReportType, InactiveType DEF RegainHardware
        <4> QED
          BY <1>2, <3>1, <3>3, <4>1 DEF RegainHardware, DriverInv, HeldOff, DriverTypeOK
      <3>4. CASE KeepHardware(r)
        <4>1. report' \in Reports
          BY <3>4, TickReportType DEF KeepHardware
        <4> QED
          BY <1>2, <3>1, <3>4, <4>1 DEF KeepHardware, DriverInv, HeldOff, DriverTypeOK
      <3> QED
        BY <2>2, <3>2, <3>3, <3>4 DEF FinishCycle
    <2> QED
      BY <1>1, <2>1, <2>2
  <1>6. DriverTypeOK'
    BY <1>3, <1>4, <1>5, NoCommandType DEF DriverTypeOK, Phases, ReadResults, Reports
  <1> QED
    BY <1>3, <1>5, <1>6, NoCommandType
       DEF DriverInv, HeldOff, FailureIsTold, StaleIsDropped

LEMMA StopInv == DriverInv /\ Stop => DriverInv'
  BY DEF DriverInv, DriverTypeOK, Stop, HeldOff, FailureIsTold, StaleIsDropped, Phases

LEMMA SendInv ==
    ASSUME DriverInv, NEW e \in BOOLEAN, NEW o \in BOOLEAN,
           SendCommand(MakeCommand(e, o))
    PROVE  DriverInv'
  <1>1. command' \in Commands /\ ~command'.stale
    BY MakeCommandType DEF SendCommand
  <1>2. DriverTypeOK'
    BY <1>1 DEF DriverInv, DriverTypeOK, SendCommand
  <1> QED
    BY <1>1, <1>2 DEF DriverInv, SendCommand, HeldOff, FailureIsTold, StaleIsDropped

LEMMA CycleInv == DriverInv /\ Cycle => DriverInv'
  BY InitializeInv, ReceiveInv, StopInv, WriteInv, TickInv DEF Cycle

LEMMA DriverStep == DriverInv /\ [DriverNext]_driverVars => DriverInv'
  <1> SUFFICES ASSUME DriverInv, [DriverNext]_driverVars PROVE DriverInv'
    OBVIOUS
  <1>1. CASE Cycle
    BY <1>1, CycleInv
  <1>2. CASE \E e, o \in BOOLEAN : SendCommand(MakeCommand(e, o))
    BY <1>2, SendInv
  <1>3. CASE UNCHANGED driverVars
    BY <1>3 DEF driverVars, DriverInv, DriverTypeOK, HeldOff, FailureIsTold,
                StaleIsDropped
  <1> QED
    BY <1>1, <1>2, <1>3 DEF DriverNext

LEMMA DriverInvariant == DriverSpec => []DriverInv
  BY InitInv, DriverStep, PTL DEF DriverSpec

(***************************************************************************)
(* The values that Run computes have their types in every cycle.           *)
(***************************************************************************)
THEOREM DriverTypeCorrect == DriverSpec => []DriverTypeOK
  BY DriverInvariant, PTL DEF DriverInv

(***************************************************************************)
(* The motors are not driven while the driver waits for POWER_OFF (:221,   *)
(* :362), for every sequence of commands and of failures.                  *)
(***************************************************************************)
THEOREM MotorsHeldOff == DriverSpec => []HeldOff
  BY DriverInvariant, PTL DEF DriverInv

-----------------------------------------------------------------------------
\* Only a command that has been forwarded ends the wait.
LEMMA RearmStep ==
    ASSUME DriverInv, [DriverNext]_driverVars, awaitPowerOff, ~awaitPowerOff'
    PROVE  received.off /\ ~received.stale
  <1>1. CASE Write
    <2>1. received.present /\ AcceptsCommand
      BY <1>1 DEF Write, DropCommand, RejectCommand, ForwardCommand, ForwardLater,
                  ForwardFails
    <2>2. ~recoveryActive /\ received.off
      BY <2>1 DEF AcceptsCommand
    <2> QED
      BY <2>2 DEF DriverInv, StaleIsDropped
  <1>2. CASE Tick
    <2>1. PICK r \in TickResults : FinishCycle(r) \/ GiveUp(r)
      BY <1>2 DEF Tick
    <2>2. awaitPowerOff' = awaitPowerOff \/ awaitPowerOff' = TRUE
      BY <2>1 DEF FinishCycle, GiveUp, LoseHardware, RegainHardware, KeepHardware
    <2> QED
      BY <2>2
  <1>3. CASE ~Write /\ ~Tick
    BY <1>3 DEF DriverNext, Cycle, Initialize, Receive, Stop, SendCommand, driverVars
  <1> QED
    BY <1>1, <1>2, <1>3

(***************************************************************************)
(* The wait of the driver ends with a POWER_OFF that was sent after the    *)
(* hardware had been lost.                                                 *)
(***************************************************************************)
THEOREM RearmingIsAsked == DriverSpec => RearmIsAsked
  <1>1. DriverInv /\ [DriverNext]_driverVars =>
            [awaitPowerOff /\ ~awaitPowerOff'
                => received.off /\ ~received.stale]_driverVars
    BY RearmStep
  <1> QED
    BY <1>1, DriverInvariant, PTL DEF DriverSpec, RearmIsAsked

LEMMA LossStep ==
    ASSUME DriverInv, [DriverNext]_driverVars, ~recoveryActive, recoveryActive'
    PROVE  published'.active
  <1>1. CASE Tick
    <2>1. PICK r \in TickResults : FinishCycle(r) \/ GiveUp(r)
      BY <1>1 DEF Tick
    <2>2. phase = "tick"
      BY <1>1 DEF Tick
    <2>3. FinishCycle(r) /\ LoseHardware(r)
      BY <2>1 DEF FinishCycle, GiveUp, RegainHardware, KeepHardware
    <2>4. published' = PacketAfterTick(r)
      BY <2>3 DEF FinishCycle
    <2>5. CASE TickIsFault(r)
      BY <2>4, <2>5, TickReportType DEF PacketAfterTick
    <2>6. CASE ~TickIsFault(r)
      <3>1. cycleFailed
        BY <2>3, <2>6 DEF LoseHardware, HardwareFails, TickIsFault, SecondaryTimeout
      <3> QED
        BY <2>2, <2>4, <2>6, <3>1 DEF PacketAfterTick, DriverInv, FailureIsTold
    <2> QED
      BY <2>5, <2>6
  <1>2. CASE ~Tick
    BY <1>2 DEF DriverNext, Cycle, Initialize, Receive, Stop, Write, SendCommand,
                driverVars
  <1> QED
    BY <1>1, <1>2

(***************************************************************************)
(* The cycle that loses the hardware leaves an active fault for control to *)
(* read.                                                                   *)
(***************************************************************************)
THEOREM LossesAreReported == DriverSpec => LossIsReported
  <1>1. DriverInv /\ [DriverNext]_driverVars =>
            [~recoveryActive /\ recoveryActive' => published'.active]_driverVars
    BY LossStep
  <1> QED
    BY <1>1, DriverInvariant, PTL DEF DriverSpec, LossIsReported
=============================================================================
