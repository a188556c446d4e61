---------------------------- MODULE ControlRuntime ----------------------------
(***************************************************************************)
(* The watch that the control process keeps over the driver's state stream *)
(* (control_runtime.cpp): the start-up gate, the age of the newest packet, *)
(* the progress of the device time, and the choice of the one fault that   *)
(* reaches the behaviour manager each cycle.                               *)
(*                                                                         *)
(* A control period is a tick: the loop reads every packet that has arrived*)
(* (Receive), looks at the clocks (Judge) and may run one cycle (Step).    *)
(* The loop turns faster than that; what it does when no cycle is due is   *)
(* only to read more packets.                                              *)
(*                                                                         *)
(* The driver may fall silent, repeat its device time, go back in time,    *)
(* report faults, recover from them, and restart with nothing to report.   *)
(*                                                                         *)
(* Abstracted: a device time is its relation to the one it is compared     *)
(* with; the HMI side of the loop is module Operator.                      *)
(***************************************************************************)
EXTENDS Integers

CONSTANTS
    StateTimeout,    \* driver_state_timeout_s in control periods, at least 2
    StartupTimeout   \* driver_startup_timeout_s, at least StateTimeout

ASSUME TimeoutAssumption ==
    /\ StateTimeout \in Nat /\ StartupTimeout \in Nat /\ StateTimeout >= 2
    /\ StateTimeout <= StartupTimeout

VARIABLES
    loop,         \* next part of the loop: "drain", "cycle", "sleep"
    driverFault,  \* what the driver would report now
    latestFault,  \* latest_state_fault
    startupFault, \* startup_fault
    gate,         \* state_startup_gate: candidate, and two ages
    stateReady,   \* state_ready
    hasState,     \* has_state
    packetAge,    \* latest_state_age_s
    progress,     \* state_progress_watchdog
    timedOut,     \* previous_state_timeout
    hasControl,   \* has_control
    report,       \* control_fault: what the manager was told last
    advanced,     \* history: the newest packet showed a later device time
    owed          \* history: a latched fault was seen before the first cycle

runtimeVars == <<loop, driverFault, latestFault, startupFault, gate, stateReady,
                 hasState, packetAge, progress, timedOut, hasControl, report,
                 advanced, owed>>

AgeLimit == StartupTimeout + 1
StreamAges == 0..AgeLimit

\* A report of the driver: none, active, or over but not yet confirmed.
NoReport == [active |-> FALSE, latched |-> FALSE]
ActiveReport == [active |-> TRUE, latched |-> TRUE]
OverReport == [active |-> FALSE, latched |-> TRUE]
Reports == {NoReport, ActiveReport, OverReport}

Timeouts == {"none", "startup", "packet", "device"}

RuntimeTypeOK ==
    /\ loop \in {"drain", "cycle", "sleep"}
    /\ {driverFault, latestFault, startupFault, report} \subseteq Reports
    /\ gate \in [candidate : BOOLEAN, startAge : StreamAges, age : StreamAges]
    /\ <<stateReady, hasState, hasControl, advanced, owed>>
            \in BOOLEAN \X BOOLEAN \X BOOLEAN \X BOOLEAN \X BOOLEAN
    /\ packetAge \in StreamAges
    /\ progress \in [has : BOOLEAN, age : StreamAges]
    /\ timedOut \in Timeouts

NoCandidate == [candidate |-> FALSE, startAge |-> 0, age |-> 0]
NoProgress == [has |-> FALSE, age |-> 0]

RuntimeInit ==
    /\ loop = "drain"
    /\ driverFault = NoReport /\ latestFault = NoReport
    /\ startupFault = NoReport /\ report = NoReport
    /\ gate = NoCandidate /\ stateReady = FALSE
    /\ hasState = FALSE /\ packetAge = 0
    /\ progress = NoProgress
    /\ timedOut = "none" /\ hasControl = FALSE
    /\ advanced = FALSE /\ owed = FALSE

-----------------------------------------------------------------------------
\* StateStartupGate::Observe of a device time that is "earlier" than the
\* candidate's, the "same" or "later".
GateObserve(relation) ==
    IF ~gate.candidate \/ gate.age > StateTimeout \/ relation = "earlier"
    THEN [candidate |-> TRUE, age |-> 0,
          startAge |-> IF gate.candidate THEN gate.startAge ELSE 0]
    ELSE gate

GateOpens(relation) ==
    gate.candidate /\ gate.age <= StateTimeout /\ relation = "later"

\* ProgressWatchdog::Observe: only a later time is progress.
VariantAnyPacketIsProgress(watch, relation) == [has |-> TRUE, age |-> 0]

WatchObserve(watch, relation) ==
    IF ~watch.has \/ relation = "later" THEN [has |-> TRUE, age |-> 0]
    ELSE watch

\* The fault that is kept for the first cycle, whatever the driver reports
\* until then.
VariantNewestOnly(fault) == fault

KeepStartupFault(fault) ==
    IF fault.latched THEN fault
    ELSE IF startupFault.latched /\ ~fault.active
         THEN [startupFault EXCEPT !.active = FALSE]
         ELSE startupFault

\* One packet, with what the driver reports and a device time in relation to
\* the candidate of the gate, or to the watchdog's value once ready.
Receive(relation) ==
    /\ loop = "drain"
    /\ LET fault == driverFault
           opens == ~stateReady /\ ~fault.active /\ GateOpens(relation)
           recovered == hasState /\ latestFault.active /\ ~fault.active
           watch == IF opens \/ recovered \/ timedOut = "packet"
                    THEN NoProgress ELSE progress
       IN /\ startupFault' = IF stateReady THEN startupFault
                             ELSE KeepStartupFault(fault)
          /\ gate' = IF stateReady THEN gate
                     ELSE IF fault.active \/ opens THEN NoCandidate
                     ELSE GateObserve(relation)
          /\ stateReady' = (stateReady \/ opens)
          /\ progress' = IF stateReady' THEN WatchObserve(watch, relation)
                         ELSE progress
          /\ latestFault' = fault
          /\ owed' = (owed \/ (~stateReady /\ ~hasControl /\ fault.latched))
    /\ hasState' = TRUE
    /\ packetAge' = 0
    /\ advanced' = (relation = "later")
    /\ timedOut' = IF timedOut = "packet" /\ stateReady THEN "none" ELSE timedOut
    /\ UNCHANGED <<loop, driverFault, hasControl, report>>

\* The three clocks, in this order.
StateTimeoutNow ==
    IF /\ ~stateReady /\ ~latestFault.active
       /\ gate.candidate /\ gate.startAge > StartupTimeout
    THEN "startup"
    ELSE IF stateReady /\ hasState /\ packetAge > StateTimeout THEN "packet"
    ELSE IF /\ stateReady /\ ~latestFault.active
            /\ progress.has /\ progress.age > StateTimeout
    THEN "device"
    ELSE "none"

\* The clocks are read, and it is decided whether a control cycle is run.
Judge ==
    /\ loop = "drain"
    /\ timedOut' = StateTimeoutNow
    /\ loop' = IF /\ hasState
                  /\ \/ stateReady \/ hasControl \/ startupFault.latched
                     \/ timedOut' # "none"
               THEN "cycle" ELSE "sleep"
    /\ UNCHANGED <<driverFault, latestFault, startupFault, gate, stateReady,
                   hasState, packetAge, progress, hasControl, report, advanced,
                   owed>>

\* A concrete fault of the driver comes before a timeout.
ControlFault ==
    IF latestFault.active THEN latestFault
    ELSE IF startupFault.latched THEN startupFault
    ELSE IF timedOut # "none" THEN ActiveReport
    ELSE latestFault

\* SetSensorFault, Step and SendControl.
Step ==
    /\ loop = "cycle"
    /\ loop' = "sleep"
    /\ report' = ControlFault
    /\ startupFault' = NoReport
    /\ hasControl' = TRUE
    /\ UNCHANGED <<driverFault, latestFault, gate, stateReady, hasState,
                   packetAge, progress, timedOut, advanced, owed>>

-----------------------------------------------------------------------------
\* What the driver goes through; it keeps a latched report until a command of
\* control clears it, or it restarts.
DriverChanges(fault) ==
    /\ loop = "drain"
    /\ fault # driverFault
    /\ fault = OverReport => driverFault.active
    /\ fault = NoReport => driverFault = OverReport /\ hasControl
    /\ driverFault' = fault
    /\ UNCHANGED <<loop, latestFault, startupFault, gate, stateReady, hasState,
                   packetAge, progress, timedOut, hasControl, report, advanced,
                   owed>>

DriverRestarts ==
    /\ loop = "drain"
    /\ driverFault.latched
    /\ driverFault' = NoReport
    /\ UNCHANGED <<loop, latestFault, startupFault, gate, stateReady, hasState,
                   packetAge, progress, timedOut, hasControl, report, advanced,
                   owed>>

\* Ages saturate above every limit.
Aged(age) == IF age < AgeLimit THEN age + 1 ELSE age

Clock ==
    /\ loop = "sleep"
    /\ loop' = "drain"
    /\ packetAge' = IF hasState THEN Aged(packetAge) ELSE 0
    /\ gate' = IF gate.candidate
               THEN [gate EXCEPT !.startAge = Aged(@), !.age = Aged(@)]
               ELSE gate
    /\ progress' = IF progress.has THEN [progress EXCEPT !.age = Aged(@)]
                   ELSE progress
    /\ advanced' = FALSE
    /\ UNCHANGED <<driverFault, latestFault, startupFault, stateReady,
                   hasState, timedOut, hasControl, report, owed>>

Relations == {"earlier", "same", "later"}

RuntimeNext ==
    \/ \E relation \in Relations : Receive(relation)
    \/ Judge
    \/ Step
    \/ \E fault \in Reports : DriverChanges(fault)
    \/ DriverRestarts
    \/ Clock

RuntimeSpec == RuntimeInit /\ [][RuntimeNext]_runtimeVars

\* The loop is paced by the clock and never blocks; the driver owes nothing.
RuntimeFairness == WF_runtimeVars(Judge \/ Step \/ Clock)

FairRuntimeSpec == RuntimeSpec /\ RuntimeFairness

-----------------------------------------------------------------------------
(* Properties                                                              *)

\* Once the stream is ready it shows a later device time again, or the
\* manager is told of a fault, or the driver itself reports one: neither
\* silence, nor repeated device times, nor a mixture of both, nor restarts
\* of the driver leave control with a frozen state for ever.
NeverBlind ==
    stateReady ~> (advanced \/ report.latched \/ latestFault.active)

\* A fault that the driver reported before the first control cycle reaches
\* the manager in that cycle, although the driver may have recovered, or
\* restarted with nothing to report, in the meantime.
StartupFaultReaches ==
    [][hasControl' /\ ~hasControl /\ owed => report'.latched]_runtimeVars
=============================================================================
