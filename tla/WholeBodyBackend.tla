--------------------------- MODULE WholeBodyBackend ---------------------------
(***************************************************************************)
(* The hardware driver: the loop of WholeBodyBackend::Run                  *)
(* (src/runtime/driver/backends/whole_body_backend.cpp).                   *)
(*                                                                         *)
(* A cycle is three steps of the driver thread: Receive (take the newest   *)
(* command, read the sensors, publish), Write (forward the command) and    *)
(* Tick (let the device work, then decide whether the hardware is lost or  *)
(* back).  Control runs between the steps and sees the driver only through *)
(* two channels of which the newest element counts.                        *)
(*                                                                         *)
(* Abstractions.  A fault is its two flags and its sequence: source, code, *)
(* detail and time stamp are left out.  A command is whether it enables    *)
(* the motors and whether its mode is POWER_OFF.  Measured values, logging,*)
(* telemetry and the pacing of the loop are left out.  The device          *)
(* (whole_body, not in this repository) answers every call as it likes,    *)
(* but only MaxSetbacks times with anything other than OK.                 *)
(***************************************************************************)
EXTENDS Naturals

CONSTANT MaxSetbacks   \* bound: calls of the device that do not return OK

ASSUME SetbackAssumption == MaxSetbacks \in Nat

VARIABLES
    phase,          \* where Run is: "init", "receive", "write", "tick", "stopped"
    received,       \* command of this cycle, or NoCommand
    read,           \* read_result of this cycle
    cycleFailed,    \* hardware_cycle_failed
    recoveryActive, \* recovery_active_: the hardware is lost
    awaitPowerOff,  \* await_power_off_: nothing but POWER_OFF is forwarded
    report,         \* current_fault_, current_fault_context_, fault_sequence_
    published,      \* fault of the newest state packet
    command,        \* newest unread command of control, or NoCommand
    armed,          \* device: motors can be driven
    setbacks        \* calls of the device so far that did not return OK

driverVars == <<phase, received, read, cycleFailed, recoveryActive,
                awaitPowerOff, report, published, command, armed, setbacks>>

Phases   == {"init", "receive", "write", "tick", "stopped"}
Contexts == {"none", "initialization", "read", "command", "tick",
             "stateAdapter", "commandAdapter"}

\* "WAITING": an error whose text says that no feedback has arrived yet.
ReadResults  == {"OK", "RETRY", "WAITING", "ERROR"}
\* "RETRY" stands for ERR_READ_ONLY too, which the loop treats alike; "ERROR"
\* for a timeout and a rejected command.
WriteResults == {"OK", "RETRY", "ERROR", "DEVICE"}
TickResults  == {"OK", "RETRY", "TIMEOUT", "DEVICE", "CONFIG"}

NoFault   == [active |-> FALSE, latched |-> FALSE, seq |-> 0]
NoReport  == [fault |-> NoFault, context |-> "none", sequence |-> 0]
NoCommand == [present |-> FALSE, enable |-> FALSE, off |-> FALSE, stale |-> FALSE]

\* stale (history): the hardware was lost after the command had been sent.
MakeCommand(enable, off) ==
    [present |-> TRUE, enable |-> enable, off |-> off, stale |-> FALSE]

-----------------------------------------------------------------------------
(***************************************************************************)
(* The fault that the driver reports.                                      *)
(***************************************************************************)

\* UpdateFault: the first fault stays until it is cleared.
UpdateFault(rep, context) ==
    IF rep.fault.latched
    THEN [rep EXCEPT !.fault.active = TRUE]
    ELSE [fault    |-> [active |-> TRUE, latched |-> TRUE, seq |-> rep.sequence + 1],
          context  |-> context,
          sequence |-> rep.sequence + 1]

ClearFault(rep) == [rep EXCEPT !.fault = NoFault, !.context = "none"]

\* RecoverFault, called for each of the contexts in turn.
RecoverFault(rep, contexts) ==
    IF rep.context \in contexts /\ ~recoveryActive /\ ~awaitPowerOff
    THEN ClearFault(rep)
    ELSE rep

\* The device answers r; it cannot fail for ever.
Answer(r) ==
    /\ r # "OK" => setbacks < MaxSetbacks
    /\ setbacks' = IF r = "OK" THEN setbacks ELSE setbacks + 1

\* PublishState or PublishFault succeeds and the loop goes on at next, or it
\* fails and Run returns.
Publish(rep, next) ==
    \/ published' = rep.fault /\ phase' = next
    \/ UNCHANGED published /\ phase' = "stopped"

-----------------------------------------------------------------------------
\* whole_body_init; without a device Run reports the fault and returns.
Initialize ==
    /\ phase = "init"
    /\ \/ Answer("OK") /\ phase' = "receive" /\ UNCHANGED <<report, published>>
       \/ /\ Answer("DEVICE")
          /\ report' = UpdateFault(report, "initialization")
          /\ published' \in {published, report'.fault}
          /\ phase' = "stopped"
    /\ UNCHANGED <<received, read, cycleFailed, recoveryActive, awaitPowerOff,
                   command, armed>>

-----------------------------------------------------------------------------
(***************************************************************************)
(* First step: the newest command is taken, also while it will be dropped. *)
(***************************************************************************)

VariantDropsWhileWaiting ==
    /\ received' = IF awaitPowerOff THEN NoCommand ELSE command
    /\ command' = NoCommand

VariantLeavesCommands ==
    IF recoveryActive THEN received' = NoCommand /\ UNCHANGED command
    ELSE received' = command /\ command' = NoCommand

TakeCommand == received' = command /\ command' = NoCommand

\* Feedback arrived and has the dimensions of the robot.
ReadFeedback(r) ==
    /\ r \in {"OK", "RETRY"}
    /\ Answer(r)
    /\ report' = RecoverFault(report, {"read", "stateAdapter"})
    /\ Publish(report', "write")
    /\ UNCHANGED <<cycleFailed, armed>>

\* Feedback arrived but cannot be converted.
RejectFeedback(r) ==
    /\ r \in {"OK", "RETRY"}
    /\ setbacks < MaxSetbacks /\ setbacks' = setbacks + 1
    /\ report' = UpdateFault(RecoverFault(report, {"read"}), "stateAdapter")
    /\ Publish(report', "tick")
    /\ armed' = FALSE
    /\ cycleFailed' = TRUE

AwaitFeedback(r) ==
    /\ r = "WAITING"
    /\ Answer(r)
    /\ phase' = "tick"
    /\ UNCHANGED <<report, published, cycleFailed, armed>>

LoseFeedback(r) ==
    /\ r = "ERROR"
    /\ Answer(r)
    /\ report' = UpdateFault(report, "read")
    /\ Publish(report', "tick")
    /\ cycleFailed' = TRUE
    /\ UNCHANGED armed

Receive ==
    /\ phase = "receive"
    /\ TakeCommand
    /\ \E r \in ReadResults :
        /\ read' = r
        /\ ReadFeedback(r) \/ RejectFeedback(r) \/ AwaitFeedback(r) \/ LoseFeedback(r)
    /\ UNCHANGED <<recoveryActive, awaitPowerOff>>

\* should_continue() is false.
Stop ==
    /\ phase = "receive" /\ phase' = "stopped"
    /\ UNCHANGED <<received, read, cycleFailed, recoveryActive, awaitPowerOff,
                   report, published, command, armed, setbacks>>

-----------------------------------------------------------------------------
(***************************************************************************)
(* Second step: the command is forwarded if it may be.                     *)
(***************************************************************************)

VariantWaitsForRecovery ==
    ~recoveryActive
    /\ (awaitPowerOff => ~received.enable /\ received.off /\ ~report.fault.active)

VariantHoldsUnderFault ==
    /\ ~recoveryActive
    /\ report.fault.latched => awaitPowerOff /\ ~received.enable /\ received.off

AcceptsCommand ==
    ~recoveryActive /\ (awaitPowerOff => ~received.enable /\ received.off)

DropCommand ==
    /\ ~(received.present /\ AcceptsCommand)
    /\ phase' = "tick"
    /\ UNCHANGED <<cycleFailed, awaitPowerOff, report, published, armed, setbacks>>

\* ConvertControlCommand refuses it.
RejectCommand ==
    /\ received.present /\ AcceptsCommand
    /\ setbacks < MaxSetbacks /\ setbacks' = setbacks + 1
    /\ report' = UpdateFault(report, "commandAdapter")
    /\ Publish(report', "tick")
    /\ armed' = FALSE
    /\ UNCHANGED <<cycleFailed, awaitPowerOff>>

ForwardCommand ==
    /\ received.present /\ AcceptsCommand
    /\ Answer("OK")
    /\ armed' = received.enable
    /\ awaitPowerOff' = FALSE
    /\ report' = IF awaitPowerOff THEN ClearFault(report)
                 ELSE RecoverFault(report, {"commandAdapter", "command"})
    /\ phase' = "tick"
    /\ UNCHANGED <<cycleFailed, published>>

\* The command may have taken effect or not.
ForwardLater ==
    /\ received.present /\ AcceptsCommand
    /\ Answer("RETRY")
    /\ armed' \in {armed, received.enable}
    /\ report' = RecoverFault(report, {"commandAdapter"})
    /\ phase' = "tick"
    /\ UNCHANGED <<cycleFailed, awaitPowerOff, published>>

ForwardFails(r) ==
    /\ received.present /\ AcceptsCommand
    /\ r \in {"ERROR", "DEVICE"}
    /\ Answer(r)
    /\ armed' \in {armed, received.enable}
    /\ report' = UpdateFault(RecoverFault(report, {"commandAdapter"}), "command")
    /\ Publish(report', "tick")
    /\ cycleFailed' = (r = "DEVICE")
    /\ UNCHANGED awaitPowerOff

Write ==
    /\ phase = "write"
    /\ \/ DropCommand
       \/ RejectCommand
       \/ ForwardCommand
       \/ ForwardLater
       \/ \E r \in WriteResults : ForwardFails(r)
    /\ UNCHANGED <<received, read, recoveryActive, command>>

-----------------------------------------------------------------------------
(***************************************************************************)
(* Third step: the device works; the hardware is lost, back, or neither.   *)
(***************************************************************************)

\* A timeout that only repeats the lost feedback of this cycle.
SecondaryTimeout(r) == read = "ERROR" /\ r = "TIMEOUT"

TickIsFault(r) == r \in {"TIMEOUT", "DEVICE", "CONFIG"} /\ ~SecondaryTimeout(r)

TickReport(r) ==
    IF TickIsFault(r) THEN UpdateFault(report, "tick")
    ELSE IF r = "OK" THEN RecoverFault(report, {"tick"})
    ELSE report

\* Commands that control has sent are from before the loss.
Outdated(c) == [c EXCEPT !.stale = c.present]

HardwareFails(r) == cycleFailed \/ r = "DEVICE"

VariantForgetsSafety == UNCHANGED <<armed, command>>

\* set_mode(SAFETY) when the hardware is lost.
EnterRecovery ==
    IF recoveryActive THEN UNCHANGED <<armed, command>>
    ELSE armed' = FALSE /\ command' = Outdated(command)

LoseHardware(r) ==
    /\ HardwareFails(r)
    /\ EnterRecovery
    /\ recoveryActive' = TRUE
    /\ awaitPowerOff' = TRUE
    /\ report' = TickReport(r)

HardwareIsBack(r) ==
    ~HardwareFails(r) /\ recoveryActive /\ read = "OK" /\ r = "OK"

RegainHardware(r) ==
    /\ HardwareIsBack(r)
    /\ recoveryActive' = FALSE
    /\ report' = [TickReport(r) EXCEPT !.fault.active = FALSE]
    /\ UNCHANGED <<awaitPowerOff, armed, command>>

KeepHardware(r) ==
    /\ ~HardwareFails(r) /\ ~HardwareIsBack(r)
    /\ report' = TickReport(r)
    /\ UNCHANGED <<recoveryActive, awaitPowerOff, armed, command>>

VariantTickIsSilent(r) == published

\* The packet on the channel after Tick: it is sent before the cycle is judged.
PacketAfterTick(r) == IF TickIsFault(r) THEN TickReport(r).fault ELSE published

\* Run returns: nothing could be published, or the configuration is wrong.
GiveUp(r) ==
    /\ TickIsFault(r)
    /\ report' = TickReport(r)
    /\ phase' = "stopped"
    /\ \/ UNCHANGED published
       \/ r = "CONFIG" /\ published' = report'.fault
    /\ UNCHANGED <<recoveryActive, awaitPowerOff, armed, command>>

FinishCycle(r) ==
    /\ r # "CONFIG"
    /\ LoseHardware(r) \/ RegainHardware(r) \/ KeepHardware(r)
    /\ published' = PacketAfterTick(r)
    /\ phase' = "receive"

Tick ==
    /\ phase = "tick"
    /\ \E r \in TickResults : Answer(r) /\ (FinishCycle(r) \/ GiveUp(r))
    /\ received' = NoCommand
    /\ read' = "OK"
    /\ cycleFailed' = FALSE

-----------------------------------------------------------------------------
\* Control puts a command on the channel; an unread one is superseded.
SendCommand(c) ==
    /\ command' = c
    /\ UNCHANGED <<phase, received, read, cycleFailed, recoveryActive,
                   awaitPowerOff, report, published, armed, setbacks>>

DriverInit ==
    /\ phase = "init"
    /\ received = NoCommand /\ command = NoCommand
    /\ read = "OK" /\ cycleFailed = FALSE
    /\ recoveryActive = FALSE /\ awaitPowerOff = FALSE
    /\ report = NoReport /\ published = NoFault
    /\ armed = FALSE
    /\ setbacks = 0

Cycle == Initialize \/ Receive \/ Stop \/ Write \/ Tick

DriverNext ==
    Cycle \/ \E enable, off \in BOOLEAN : SendCommand(MakeCommand(enable, off))

\* The driver under commands of every kind.
DriverSpec == DriverInit /\ [][DriverNext]_driverVars

Commands == [present : BOOLEAN, enable : BOOLEAN, off : BOOLEAN, stale : BOOLEAN]
Faults   == [active : BOOLEAN, latched : BOOLEAN, seq : Nat]

DriverTypeOK ==
    /\ phase \in Phases
    /\ received \in Commands /\ command \in Commands
    /\ read \in ReadResults /\ cycleFailed \in BOOLEAN
    /\ recoveryActive \in BOOLEAN /\ awaitPowerOff \in BOOLEAN
    /\ report \in [fault : Faults, context : Contexts, sequence : Nat]
    /\ published \in Faults
    /\ armed \in BOOLEAN
    /\ setbacks \in 0 .. MaxSetbacks

-----------------------------------------------------------------------------
(***************************************************************************)
(* Properties of the driver alone.                                         *)
(***************************************************************************)

(***************************************************************************)
(* While nothing but POWER_OFF may be forwarded the motors are not driven, *)
(* whatever control sends, however calls of the device end, and across     *)
(* further losses of the hardware: the gate of Run (:221) and set_mode     *)
(* (:362) leave no way around each other.                                  *)
(***************************************************************************)
HeldOff == awaitPowerOff => ~armed

(***************************************************************************)
(* The POWER_OFF that ends the wait was sent after the hardware was lost:  *)
(* a command that was under way at that time has been taken off the        *)
(* channel and dropped by then (Run reads commands while it waits, :187).  *)
(***************************************************************************)
RearmIsAsked ==
    [][awaitPowerOff /\ ~awaitPowerOff'
           => received.off /\ ~received.stale]_driverVars

(***************************************************************************)
(* In the cycle that loses the hardware the newest packet control can read *)
(* says so: every path to recovery_active_ (:366) published an active      *)
(* fault in the same cycle.                                                *)
(***************************************************************************)
LossIsReported ==
    [][~recoveryActive /\ recoveryActive' => published'.active]_driverVars

(***************************************************************************)
(* src/README.md:202 says that the fault is reported as long as the driver *)
(* waits.  The code forgets it: a fault of Tick that is still reported     *)
(* when the feedback is lost keeps its context, so a Tick that succeeds in *)
(* the same cycle clears it (:353) before await_power_off_ is set, and the *)
(* next good packet tells control of no fault while the motors stay off.   *)
(***************************************************************************)
WaitIsReported == awaitPowerOff => published.latched
=============================================================================
