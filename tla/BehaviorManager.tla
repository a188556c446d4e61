--------------------------- MODULE BehaviorManager ---------------------------
(***************************************************************************)
(* The behaviour manager of one humanoid: the finite state machine that    *)
(* owns the actuator command, the fault latch that guards it, and the      *)
(* background preparation and running handoff of RL policies.              *)
(*                                                                         *)
(* One control thread calls, every cycle, SetSensorFault, SetCommand,      *)
(* AcknowledgeFault and Step.  Each call, and each block of Step, is one   *)
(* action below; "pc" names the block that comes next.  Three background   *)
(* activities run between the blocks: the inference thread of the RL state *)
(* (InferFault), the thread that loads a policy (PrepareDone) and the      *)
(* thread that destroys a replaced one (RetireDone).                       *)
(*                                                                         *)
(* Modelled: the locomotion profile (has_rl, fixed_base = false).  The     *)
(* loader refuses RL together with a fixed base, so the TRAJECTORY state   *)
(* and its automatic start-up belong to another profile.                   *)
(*                                                                         *)
(* Abstracted: joint vectors, gains and log text; a fault is its identity  *)
(* and flags; a clock is a count of Steps; the convergence test of ZERO    *)
(* and the timers of HOME are choices of the environment.                  *)
(*                                                                         *)
(* An operator whose name starts with Variant is the operator that follows *)
(* it with a plausible mistake; no specification here uses one.  Each      *)
(* breaks a property, which shows that the property notices the mistake.   *)
(***************************************************************************)
EXTENDS Integers, FiniteSets

CONSTANTS
    Policies,       \* every policy of the configuration
    None,           \* the empty policy name
    DefaultPolicy,  \* rl_policy.onnx_infer.default_policy
    Selectable,     \* policy_names: what an operator may ask for
    Group,          \* switch_group of a policy, or None
    Prerequisite,   \* the policy that has to run before, or None
    Return,         \* return_policy of a policy, or None
    Actions,        \* child policies of a policy_actions catalogue, or {}
    Keys,           \* the keys an operator presses (Command.key)
    Codes,          \* identities of faults that the driver side reports
    SensorFaults,   \* the reports that SetSensorFault may receive
    MonitorFaults,  \* what the safety monitor may find: "invalid", "limit"
    SettleTicks,    \* converged samples that make ZERO ready
    ReleaseTicks,   \* Steps of a controlled release
    SwitchTimeout,  \* Steps that a running handoff may take
    PrereqTicks,    \* Steps that a prerequisite policy has to run
    MaxFaults       \* bound: no new fault starts once this many were latched

States == {"POWER_OFF", "DAMP", "HOME", "ZERO", "RL", "SAFETY"}

FaultCodes == Codes \cup {"none", "invalid", "limit", "policy"}

FaultStatus ==
    [active : BOOLEAN, latched : BOOLEAN, code : FaultCodes, seq : Nat]

NoFault == [active |-> FALSE, latched |-> FALSE, code |-> "none", seq |-> 0]

\* MakeFault, and the fault that StateRL reports: both come without a sequence.
MakeFault(code) == [active |-> TRUE, latched |-> TRUE, code |-> code, seq |-> 0]

ASSUME PolicyAssumption ==
    /\ None \notin Policies
    /\ DefaultPolicy \in Policies
    /\ Selectable \subseteq Policies
    /\ Prerequisite \in [Policies -> Policies \cup {None}]
    /\ Return \in [Policies -> Policies \cup {None}]
    /\ Actions \in [Policies -> SUBSET Policies]
    /\ DOMAIN Group = Policies

\* What LoadConfig enforces of returns, chains and catalogues.
ASSUME ConfigAssumption ==
    /\ \A p \in Policies : Return[p] # None =>
        /\ Return[p] # p
        /\ Group[p] # None
        /\ Group[p] = Group[Return[p]]
    /\ \A p \in Policies : Prerequisite[p] # None =>
        /\ Prerequisite[p] # p
        /\ Prerequisite[Prerequisite[p]] = None
    /\ \A p \in Policies : Actions[p] # {} =>
        /\ p \in Selectable
        /\ Group[p] # None
        /\ Prerequisite[p] = None /\ Return[p] = None
        /\ \A c \in Actions[p] :
            /\ c \notin Selectable
            /\ Group[c] = Group[p]
            /\ Prerequisite[c] = None /\ Return[c] = None /\ Actions[c] = {}

ASSUME InputAssumption ==
    /\ Keys \subseteq {-1, 0, 1, 2, 3, 4}
    /\ SensorFaults \subseteq FaultStatus
    /\ MonitorFaults \subseteq {"invalid", "limit"}

\* A report of a fault that has gone comes from the driver, which numbers its
\* faults from 1 and whose packets are refused without a number; what the
\* control runtime reports of its own accord is active.
ASSUME ReportAssumption ==
    \A sf \in SensorFaults : sf.latched /\ ~sf.active => sf.seq # 0

ASSUME BoundAssumption ==
    /\ SettleTicks \in Nat \ {0}
    /\ ReleaseTicks \in Nat \ {0}
    /\ SwitchTimeout \in Nat
    /\ PrereqTicks \in Nat \ {0}
    /\ MaxFaults \in Nat

VARIABLES
    pc,              \* the next block of the control cycle
    key,             \* command.key
    sensorFault,     \* sensor_fault
    observations,    \* fault_observations, one slot per observer
    fault,           \* the latched fault
    observedSeq,     \* observed_fault_sequence
    faultSeq,        \* fault_sequence
    prevAck,         \* previous_fault_ack_sequence
    acked,           \* acknowledged_sensor_fault_*: <<sequence, identity>>
    state,           \* FSM::current_name_
    prevState,       \* prev_fsm_state
    finished,        \* finished_ of the current state
    timer,           \* settled_duration_ of ZERO, timer_ of SAFETY
    enable,          \* output.enable
    canRamp,         \* StateSafety::can_ramp_
    rlFault,         \* StateRL::fault_ and safety_triggered_
    rlPrepared,      \* StateRL::runtime_prepared_
    active,          \* active_policy
    pending,         \* pending_policy
    ready,           \* policy_runtime_ready
    preparing,       \* preparing_policy while policy_prepare_active
    loaded,          \* outcome in policy_prepare_future
    prepared,        \* name of prepared_policy
    prepFailed,      \* policy_prepare_failed
    retired,         \* retired policies still being destroyed
    hot,             \* hot_switch_requested
    switchAge,       \* Steps since switch_started_s
    waiting,         \* waiting_prerequisite
    finalTarget,     \* final_target_policy
    prereqTimer,     \* prerequisite_timer
    switchPhase,     \* policy_switch_status.phase
    returnAttempted, \* return_attempted
    actionOwner,     \* action_owner
    actionTarget,    \* action_target
    actionReturning, \* action_returning
    actionPhase      \* policy_action_status.phase

inputVars  == <<key, sensorFault, observations>>
faultVars  == <<fault, observedSeq, faultSeq, prevAck, acked>>
fsmVars    == <<state, finished, timer, enable, canRamp>>
rlVars     == <<rlFault, rlPrepared>>
loadVars   == <<preparing, loaded, prepared, prepFailed, retired>>
chainVars  == <<waiting, finalTarget, prereqTimer>>
switchVars == <<active, pending, ready, hot, switchAge, switchPhase,
                returnAttempted>>
actionVars == <<actionOwner, actionTarget, actionReturning, actionPhase>>
policyVars == <<loadVars, chainVars, switchVars, actionVars>>

vars == <<pc, inputVars, faultVars, fsmVars, prevState, rlVars, policyVars>>

-----------------------------------------------------------------------------
(***************************************************************************)
(* Conditions the code evaluates by name.                                  *)
(***************************************************************************)

RequestedPolicyReady ==
    ready /\ pending = active /\ preparing = None /\ prepared = None

SameSwitchGroup(p) == Group[active] # None /\ Group[p] = Group[active]

AllowsControlledRelease(f) == f.active /\ f.code \in {"policy", "limit"}

\* Bound: the environment starts a new fault only below it.
CanFault == faultSeq < MaxFaults

-----------------------------------------------------------------------------
(***************************************************************************)
(* Entering a state: FSM::SwitchTo, OnExit of the old state and OnEnter of *)
(* the new one.  A StateRL that lost its runtime loads it again here, and  *)
(* whatever it initialises may fail and report a fault.  "finished",       *)
(* "timer" and "canRamp" belong to the state that is current.              *)
(***************************************************************************)
OnEnterEnable(s, ramp) ==
    CASE s = "POWER_OFF"        -> FALSE
      [] s = "SAFETY"           -> ramp
      [] s \in {"DAMP", "HOME"} -> TRUE
      [] OTHER                  -> enable

SwitchTo(s, f) ==
    /\ state' = s
    /\ finished' = FALSE
    /\ timer' = 0
    /\ canRamp' = (s = "SAFETY" /\ enable /\ AllowsControlledRelease(f))
    /\ enable' = OnEnterEnable(s, canRamp')
    /\ rlFault' \in {FALSE, s = "RL" /\ CanFault}
    /\ rlPrepared' = (s = "RL" \/ (rlPrepared /\ state # "RL"))

-----------------------------------------------------------------------------
(***************************************************************************)
(* Action catalogues: a selectable policy that owns child policies.        *)
(***************************************************************************)

VariantFinishKeepsTarget(accepted) ==
    /\ actionPhase' = IF accepted THEN "FINISHED" ELSE "REJECTED"
    /\ UNCHANGED <<actionOwner, actionTarget, actionReturning>>

FinishPolicyAction(accepted) ==
    /\ actionPhase' = IF actionPhase = "IDLE" THEN "IDLE"
                      ELSE IF accepted THEN "FINISHED" ELSE "REJECTED"
    /\ actionTarget' = None
    /\ actionReturning' = FALSE
    /\ UNCHANGED actionOwner

\* The action that wanted p ends when p cannot be had.
AbandonAction(p) ==
    IF p \in {actionTarget, actionOwner}
    THEN FinishPolicyAction(FALSE)
    ELSE UNCHANGED actionVars

StartActionHandoff(target) ==
    /\ pending' = target
    /\ hot' = (state = "RL" /\ target # active)
    /\ switchAge' = 0
    /\ waiting' = FALSE
    /\ finalTarget' = None
    /\ prepFailed' = FALSE

CanRunAction(k) == state = "RL" /\ ~fault.latched /\ k = 0

ReceiveUnchanged ==
    UNCHANGED <<sensorFault, observations, faultVars, fsmVars, prevState, rlVars,
                active, ready, switchPhase, returnAttempted, prereqTimer,
                preparing, loaded, prepared, retired>>

HandoffUnasked ==
    UNCHANGED <<pending, hot, switchAge, waiting, finalTarget, prepFailed>>

\* SetCommand, no new action request (or none that a catalogue owns).
ReceiveCommand(k) ==
    /\ pc = "idle" /\ pc' = "select"
    /\ key' = k
    /\ HandoffUnasked
    /\ UNCHANGED actionVars
    /\ ReceiveUnchanged

\* SetCommand with a new START request for child policy c.
ReceiveStart(k, c) ==
    /\ pc = "idle" /\ pc' = "select"
    /\ actionOwner # None
    /\ key' = k
    /\ IF /\ CanRunAction(k)
          /\ c \in Actions[actionOwner]
          /\ actionTarget = None
          /\ active = actionOwner
          /\ RequestedPolicyReady
       THEN /\ actionPhase' = "BLEND_IN"
            /\ actionTarget' = c
            /\ actionReturning' = FALSE
            /\ UNCHANGED actionOwner
            /\ StartActionHandoff(c)
       ELSE /\ actionPhase' = IF actionTarget = None THEN "REJECTED"
                              ELSE actionPhase
            /\ UNCHANGED <<actionOwner, actionTarget, actionReturning>>
            /\ HandoffUnasked
    /\ ReceiveUnchanged

\* SetCommand with a new CANCEL request.
ReceiveCancel(k) ==
    /\ pc = "idle" /\ pc' = "select"
    /\ actionOwner # None
    /\ key' = k
    /\ IF CanRunAction(k) /\ pending \in {active, actionTarget, actionOwner}
       THEN /\ StartActionHandoff(actionOwner)
            /\ IF active = actionOwner
               THEN FinishPolicyAction(TRUE)
               ELSE /\ actionReturning' = TRUE
                    /\ actionPhase' = "BLEND_OUT"
                    /\ UNCHANGED <<actionOwner, actionTarget>>
       ELSE /\ actionPhase' \in IF actionTarget = None THEN {"IDLE", "REJECTED"}
                                ELSE {actionPhase}
            /\ UNCHANGED <<actionOwner, actionTarget, actionReturning>>
            /\ HandoffUnasked
    /\ ReceiveUnchanged

-----------------------------------------------------------------------------
(***************************************************************************)
(* SetCommand's policy request.  The code responds to an edge of the       *)
(* request it is fed; only edges are requests here.                        *)
(***************************************************************************)

HotRequest(p) == state = "RL" /\ SameSwitchGroup(p)

SelectionRefused(p) ==
    \/ p \notin Selectable
    \/ key # 0
    \/ fault.latched
    \/ state \notin {"POWER_OFF", "DAMP"} /\ ~HotRequest(p)

SelectUnchanged ==
    /\ pc = "select" /\ pc' = "ack"
    /\ UNCHANGED <<inputVars, faultVars, fsmVars, prevState, rlVars, active,
                   ready, returnAttempted, preparing, loaded, prepared, retired>>

NoSelection ==
    /\ SelectUnchanged
    /\ UNCHANGED <<pending, hot, switchAge, switchPhase, prepFailed, chainVars,
                   actionVars>>

RejectSelection(p) ==
    /\ SelectUnchanged
    /\ SelectionRefused(p)
    /\ switchPhase' = "REJECTED"
    /\ UNCHANGED <<pending, hot, switchAge, prepFailed, chainVars, actionVars>>

\* The policy that runs already: whatever was under way is dropped.
ReselectActive(p) ==
    /\ SelectUnchanged
    /\ ~SelectionRefused(p)
    /\ p = active /\ ready
    /\ switchPhase' = "READY"
    /\ pending' = active
    /\ hot' = FALSE /\ switchAge' = 0
    /\ waiting' = FALSE /\ finalTarget' = None
    /\ IF active = actionOwner THEN FinishPolicyAction(TRUE)
                               ELSE UNCHANGED actionVars
    /\ UNCHANGED <<prepFailed, prereqTimer>>

SelectDirect(p) ==
    /\ SelectUnchanged
    /\ ~SelectionRefused(p)
    /\ ~(p = active /\ ready)
    /\ Prerequisite[p] = None
    /\ switchPhase' = "PREPARING"
    /\ pending' = p
    /\ hot' = HotRequest(p) /\ switchAge' = 0
    /\ waiting' = FALSE /\ finalTarget' = None /\ prereqTimer' = 0
    /\ prepFailed' = FALSE
    /\ UNCHANGED actionVars

SelectChained(p) ==
    /\ SelectUnchanged
    /\ ~SelectionRefused(p)
    /\ ~(p = active /\ ready)
    /\ Prerequisite[p] # None
    /\ IF HotRequest(p) /\ ~SameSwitchGroup(Prerequisite[p])
       THEN /\ switchPhase' = "REJECTED"
            /\ hot' = FALSE /\ switchAge' = 0
            /\ UNCHANGED <<pending, chainVars, prepFailed>>
       ELSE /\ switchPhase' = "PREPARING"
            /\ hot' = HotRequest(p) /\ switchAge' = 0
            /\ pending' = Prerequisite[p]
            /\ finalTarget' = p /\ waiting' = TRUE /\ prereqTimer' = 0
            /\ prepFailed' = FALSE
    /\ UNCHANGED actionVars

SelectPolicy(p) ==
    \/ RejectSelection(p)
    \/ ReselectActive(p)
    \/ SelectDirect(p)
    \/ SelectChained(p)

-----------------------------------------------------------------------------
(***************************************************************************)
(* The fault latch.                                                        *)
(***************************************************************************)

\* The report sf tells of the fault the operator confirmed last.
IsAcknowledgedSensorFault(sf) == sf.seq # 0 /\ acked = <<sf.seq, sf.code>>

\* The acknowledgement that clears the latch.
VariantAcknowledgesActive(sf) == fault.latched /\ state = "POWER_OFF" /\ ~sf.active

MayAcknowledge(sf) ==
    /\ fault.latched
    /\ state = "POWER_OFF"
    /\ ~fault.active
    /\ ~sf.active

ConfirmsReport(sf) ==
    sf.latched /\ ~sf.active /\ sf.code = fault.code /\ sf.seq = observedSeq

\* SetSensorFault and AcknowledgeFault; SetCommand reads neither input.
AcknowledgeFault(sf, seq) ==
    /\ pc = "ack" /\ pc' = "observe"
    /\ sf # NoFault => CanFault
    /\ sensorFault' = sf
    /\ IF seq = 0
       THEN prevAck' = 0 /\ UNCHANGED <<fault, observedSeq, acked>>
       ELSE IF ~MayAcknowledge(sf) \/ seq = prevAck
       THEN UNCHANGED <<prevAck, fault, observedSeq, acked>>
       ELSE /\ prevAck' = seq
            /\ IF seq # fault.seq
               THEN UNCHANGED <<fault, observedSeq, acked>>
               ELSE /\ fault' = NoFault
                    /\ observedSeq' = 0
                    /\ acked' = IF ConfirmsReport(sf) THEN <<sf.seq, sf.code>>
                                ELSE acked
    /\ UNCHANGED <<key, observations, faultSeq, fsmVars, prevState, rlVars,
                   policyVars>>

MatchesCurrentFault(f) ==
    fault.latched /\ fault.code = f.code /\ observedSeq = f.seq

LatchFault(f) ==
    /\ observedSeq' = f.seq
    /\ faultSeq' = faultSeq + 1
    /\ fault' = [f EXCEPT !.latched = TRUE, !.seq = faultSeq + 1]

\* Slots of a sequence of observations that satisfy P; the earliest of them.
ActiveSlots(obs)  == {i \in DOMAIN obs : obs[i].active}
LatchedSlots(obs) == {i \in DOMAIN obs : obs[i].latched}
Earliest(S) == CHOOSE i \in S : \A j \in S : i <= j

StillObserved(obs) ==
    fault.active /\ \E i \in ActiveSlots(obs) : MatchesCurrentFault(obs[i])

\* ResolveObservedFaults.
Resolve(obs) ==
    IF StillObserved(obs)
    THEN UNCHANGED <<fault, observedSeq, faultSeq>>
    ELSE IF ActiveSlots(obs) # {}
    THEN LatchFault(obs[Earliest(ActiveSlots(obs))])
    ELSE IF fault.latched
    THEN /\ fault' = [fault EXCEPT !.active = FALSE]
         /\ UNCHANGED <<observedSeq, faultSeq>>
    ELSE IF LatchedSlots(obs) # {}
    THEN LatchFault(obs[Earliest(LatchedSlots(obs))])
    ELSE UNCHANGED <<fault, observedSeq, faultSeq>>

\* EvaluateReportedSensorFault: a recovered report that was confirmed is quiet.
VariantForgetsConfirmation ==
    IF sensorFault.active \/ sensorFault.latched THEN sensorFault ELSE NoFault

ReportedFault ==
    IF sensorFault.active
       \/ (sensorFault.latched /\ ~IsAcknowledgedSensorFault(sensorFault))
    THEN sensorFault
    ELSE NoFault

\* EvaluateSafetyMonitorFault: limits are not watched while powered off.
MonitoredFaults ==
    {NoFault} \cup
    {MakeFault(m) : m \in {m \in MonitorFaults :
        CanFault /\ (m = "limit" => state # "POWER_OFF")}}

\* CurrentFault of the current state; only StateRL ever reports one.
StateFault == IF state = "RL" /\ rlFault THEN MakeFault("policy") ELSE NoFault

\* Step, first block: slots 1 to 3; slot 4 is filled after FSM::Step.
ObserveFaults(m) ==
    /\ pc = "observe" /\ pc' = "handoff"
    /\ acked' = IF sensorFault.active /\ IsAcknowledgedSensorFault(sensorFault)
                THEN <<0, "none">> ELSE acked
    /\ observations' = <<ReportedFault, m, StateFault, NoFault>>
    /\ Resolve(<<ReportedFault, m, StateFault>>)
    /\ sensorFault' = NoFault   \* last use in this cycle
    /\ UNCHANGED <<key, prevAck, fsmVars, prevState, rlVars, policyVars>>

-----------------------------------------------------------------------------
(***************************************************************************)
(* A running handoff is cancelled, or waits for the policy that runs.      *)
(***************************************************************************)

\* Every way back to the active policy clears the request and the chain.
VariantKeepsPending ==
    /\ hot' = FALSE /\ switchAge' = 0
    /\ waiting' = FALSE /\ finalTarget' = None
    /\ UNCHANGED pending

RetainActivePolicy ==
    /\ pending' = active
    /\ hot' = FALSE /\ switchAge' = 0
    /\ waiting' = FALSE /\ finalTarget' = None

StatusIfPreparing(phase) ==
    switchPhase' = IF switchPhase = "PREPARING" THEN phase ELSE switchPhase

VariantNoTimeout == hot /\ state = "RL" /\ (fault.latched \/ key \in {-1, 1})

VariantIgnoresFault ==
    hot /\ state = "RL" /\ (key \in {-1, 1} \/ switchAge > SwitchTimeout)

MustCancelHandoff ==
    /\ hot
    /\ state = "RL"
    /\ fault.latched \/ key \in {-1, 1} \/ switchAge > SwitchTimeout

HandoffUnchanged ==
    /\ pc = "handoff" /\ pc' = "poll"
    /\ UNCHANGED <<inputVars, faultVars, fsmVars, prevState, rlVars, loadVars,
                   active, ready, returnAttempted, prereqTimer>>

CancelHandoff ==
    /\ HandoffUnchanged
    /\ MustCancelHandoff
    /\ AbandonAction(pending)
    /\ RetainActivePolicy
    /\ StatusIfPreparing("REJECTED")

\* The clock of a handoff stops at its limit.
KeepHandoff ==
    /\ HandoffUnchanged
    /\ ~MustCancelHandoff
    /\ switchAge' = IF hot /\ switchAge <= SwitchTimeout THEN switchAge + 1
                    ELSE switchAge
    /\ UNCHANGED <<pending, hot, waiting, finalTarget, switchPhase, actionVars>>

-----------------------------------------------------------------------------
(***************************************************************************)
(* PollPolicyPreparation: at most one of these per cycle.                  *)
(***************************************************************************)

PollUnchanged ==
    /\ pc = "poll" /\ pc' = "force"
    /\ UNCHANGED <<inputVars, faultVars, prevState>>

\* The future of the last RetirePolicy is ready: storing another one in its
\* place would wait for it.
VariantRetireUnwatched == TRUE

RetireIsOver == retired = 0

\* RetirePolicy: the states are destroyed on a thread of their own.
RetirePolicy == retired' = retired + 1

\* The FSM waits until the running policy is ready to hand over.
HandoffWaits == hot /\ state = "RL" /\ ~fault.latched

\* Step asks the running policy to get ready only for another one that is
\* loaded; its inference thread answers when it can.
HandoffRequested == hot /\ prepared # None /\ pending # active

PollNothing ==
    /\ PollUnchanged
    /\ \/ ~RetireIsOver
       \/ prepared # None /\ prepared = pending /\ HandoffWaits
       \/ prepared = None /\ loaded \in {"none", "running"}
    /\ UNCHANGED <<fsmVars, rlVars, policyVars>>

DropPrepared ==
    /\ PollUnchanged
    /\ RetireIsOver
    /\ prepared # None /\ prepared # pending
    /\ RetirePolicy
    /\ prepared' = None
    /\ UNCHANGED <<fsmVars, rlVars, preparing, loaded, prepFailed, chainVars,
                   switchVars, actionVars>>

\* A policy that takes over decides what becomes of the action catalogue.
InstalledAction(p) ==
    IF p = actionOwner
    THEN IF actionTarget # None \/ actionReturning
         THEN FinishPolicyAction(TRUE) ELSE UNCHANGED actionVars
    ELSE IF p = actionTarget /\ ~actionReturning
    THEN /\ actionPhase' = "PLAYING"
         /\ UNCHANGED <<actionOwner, actionTarget, actionReturning>>
    ELSE /\ actionOwner' = IF Actions[p] # {} THEN p ELSE None
         /\ actionTarget' = None
         /\ actionReturning' = FALSE
         /\ actionPhase' = "IDLE"

\* InstallPreparedPolicy: new ZERO and RL states, entered if current.
InstallPrepared ==
    /\ PollUnchanged
    /\ RetireIsOver
    /\ prepared # None /\ prepared = pending
    /\ HandoffWaits => HandoffRequested
    /\ prepared' = None
    /\ RetirePolicy
    /\ active' = prepared
    /\ InstalledAction(prepared)
    /\ returnAttempted' = FALSE
    /\ hot' = (hot /\ waiting)
    /\ switchAge' = IF waiting THEN switchAge ELSE 0
    /\ ready' = TRUE
    /\ prepFailed' = FALSE
    /\ prereqTimer' = 0
    /\ finished' = (finished /\ state # "ZERO")
    /\ timer' = IF state = "ZERO" THEN 0 ELSE timer
    /\ rlPrepared' = TRUE
    /\ rlFault' \in {FALSE, state = "RL" /\ CanFault}
    /\ UNCHANGED <<state, enable, canRamp, preparing, loaded, pending,
                   switchPhase, waiting, finalTarget>>

CollectUnchanged ==
    /\ PollUnchanged
    /\ RetireIsOver
    /\ prepared = None
    /\ preparing' = None /\ loaded' = "none"
    /\ UNCHANGED <<fsmVars, rlVars, active, ready, returnAttempted, prereqTimer>>

\* The handoff lost its ground while the policy was being loaded.
HandoffLost == hot /\ (fault.latched \/ key # 0 \/ state # "RL")

CollectLost ==
    /\ CollectUnchanged
    /\ loaded = "ok"
    /\ HandoffLost
    /\ pending' = active
    /\ hot' = FALSE /\ switchAge' = 0
    /\ StatusIfPreparing("REJECTED")
    /\ RetirePolicy
    /\ UNCHANGED <<prepared, prepFailed, waiting, finalTarget, actionVars>>

CollectLoaded ==
    /\ CollectUnchanged
    /\ loaded = "ok"
    /\ ~HandoffLost
    /\ IF preparing = pending
       THEN prepared' = preparing /\ UNCHANGED retired
       ELSE RetirePolicy /\ UNCHANGED prepared
    /\ UNCHANGED <<prepFailed, pending, hot, switchAge, switchPhase, waiting,
                   finalTarget, actionVars>>

\* A newer request may have replaced the load that failed.
CollectFailed ==
    /\ CollectUnchanged
    /\ loaded = "error"
    /\ UNCHANGED <<prepared, retired>>
    /\ IF preparing # pending
       THEN UNCHANGED <<prepFailed, pending, hot, switchAge, switchPhase,
                        waiting, finalTarget, actionVars>>
       ELSE /\ StatusIfPreparing("FAILED")
            /\ prepFailed' = (preparing = active)
            /\ IF preparing = active
               THEN UNCHANGED <<pending, hot, switchAge, waiting, finalTarget,
                                actionVars>>
               ELSE RetainActivePolicy /\ AbandonAction(preparing)

PollPolicyPreparation ==
    \/ PollNothing
    \/ DropPrepared
    \/ InstallPrepared
    \/ CollectLost
    \/ CollectLoaded
    \/ CollectFailed

-----------------------------------------------------------------------------
(***************************************************************************)
(* Step, the latch at work: SAFETY is forced, and a robot that is off is   *)
(* kept off.                                                               *)
(***************************************************************************)

ForceUnchanged ==
    /\ pc = "force" /\ pc' = "prepare"
    /\ UNCHANGED <<sensorFault, observations, faultVars, prevState, policyVars>>

VariantForcesActiveOnly == fault.active /\ state \notin {"POWER_OFF", "SAFETY"}

VariantForcesFromRl == fault.latched /\ state = "RL"

MustForceSafety == fault.latched /\ state \notin {"POWER_OFF", "SAFETY"}

ForceSafety ==
    /\ ForceUnchanged
    /\ MustForceSafety
    /\ SwitchTo("SAFETY", fault)
    /\ UNCHANGED key

VariantBlocksActiveOnly == fault.active /\ state = "POWER_OFF"

MustBlockPowerOn == fault.latched /\ state = "POWER_OFF"

BlockPowerOn ==
    /\ ForceUnchanged
    /\ ~MustForceSafety
    /\ key' = IF MustBlockPowerOn /\ key # -1 THEN 0 ELSE key
    /\ UNCHANGED <<fsmVars, rlVars>>

-----------------------------------------------------------------------------
(***************************************************************************)
(* Step, the background preparation of the requested policy.               *)
(***************************************************************************)

\* The result is needed, and this is a state in which it may be prepared.
NeedsPreparation ==
    /\ \/ state \in {"POWER_OFF", "DAMP"}
       \/ state = "RL" /\ pending # active
    /\ ~RequestedPolicyReady
    /\ preparing = None
    /\ ~prepFailed

\* DAMP keeps the way to HOME shut until the requested policy is ready.
VariantForgetsRequest == state = "DAMP" /\ ~ready

HomeIsShut == state = "DAMP" /\ ~RequestedPolicyReady

PrepareUnchanged ==
    /\ pc = "prepare" /\ pc' = "fsm"
    /\ UNCHANGED <<sensorFault, observations, faultVars, fsmVars, prevState,
                   rlVars, active, ready, returnAttempted, prereqTimer,
                   prepared, retired>>
    /\ key' = IF HomeIsShut' /\ key = 4 THEN 0 ELSE key

StartPreparation ==
    /\ NeedsPreparation /\ prepared = None
    /\ preparing' = pending /\ loaded' = "running"
    /\ prepFailed' = FALSE
    /\ UNCHANGED <<pending, hot, switchAge, waiting, finalTarget, switchPhase,
                   actionVars>>
    /\ PrepareUnchanged

\* The thread cannot be started.
FailPreparation ==
    /\ NeedsPreparation /\ prepared = None
    /\ UNCHANGED <<preparing, loaded>>
    /\ StatusIfPreparing("FAILED")
    /\ prepFailed' = (pending = active)
    /\ IF pending = active
       THEN UNCHANGED <<pending, hot, switchAge, waiting, finalTarget, actionVars>>
       ELSE RetainActivePolicy /\ AbandonAction(pending)
    /\ PrepareUnchanged

VariantChainIsSilent == RequestedPolicyReady /\ ~waiting

ReportsReady == RequestedPolicyReady /\ (~waiting \/ state # "RL")

SkipPreparation ==
    /\ ~NeedsPreparation \/ prepared # None
    /\ IF ReportsReady THEN StatusIfPreparing("READY") ELSE UNCHANGED switchPhase
    /\ UNCHANGED <<preparing, loaded, prepFailed, pending, hot, switchAge,
                   waiting, finalTarget, actionVars>>
    /\ PrepareUnchanged

PreparePolicy == StartPreparation \/ FailPreparation \/ SkipPreparation

-----------------------------------------------------------------------------
(***************************************************************************)
(* FSM::Step: the transition the current state asks for, then its Run.     *)
(***************************************************************************)

PowerOffTransition == IF key = 1 THEN "DAMP" ELSE "POWER_OFF"

DampTransition ==
    CASE key = 4 -> "HOME" [] key = -1 -> "POWER_OFF" [] OTHER -> "DAMP"

HomeTransition ==
    CASE key = 2 /\ finished -> "ZERO"
      [] key = 1             -> "DAMP"
      [] key = -1            -> "POWER_OFF"
      [] OTHER               -> "HOME"

ZeroTransition ==
    CASE key = 3 /\ finished -> "RL"
      [] key = 1             -> "DAMP"
      [] key = -1            -> "POWER_OFF"
      [] OTHER               -> "ZERO"

RlTransition ==
    CASE rlFault             -> "SAFETY"
      [] ~rlFault /\ key = 1  -> "DAMP"
      [] ~rlFault /\ key = -1 -> "POWER_OFF"
      [] OTHER               -> "RL"

\* No key reaches a state that is letting go of the robot.
VariantWaitsForKey == IF finished /\ key = -1 THEN "POWER_OFF" ELSE "SAFETY"

SafetyTransition == IF finished THEN "POWER_OFF" ELSE "SAFETY"

CheckTransition ==
    CASE state = "POWER_OFF" -> PowerOffTransition
      [] state = "DAMP"      -> DampTransition
      [] state = "HOME"      -> HomeTransition
      [] state = "ZERO"      -> ZeroTransition
      [] state = "RL"        -> RlTransition
      [] state = "SAFETY"    -> SafetyTransition

\* The key has done its work: SetCommand replaces it before the next use.
FsmUnchanged ==
    /\ pc = "fsm" /\ pc' = "run"
    /\ key' = 0
    /\ UNCHANGED <<sensorFault, observations, faultVars, prevState, policyVars>>

StayInState ==
    /\ FsmUnchanged
    /\ CheckTransition = state
    /\ UNCHANGED <<fsmVars, rlVars>>

ChangeState ==
    /\ FsmUnchanged
    /\ CheckTransition # state
    /\ SwitchTo(CheckTransition, fault)

RunUnchanged ==
    /\ pc = "run" /\ pc' = "after"
    /\ UNCHANGED <<inputVars, faultVars, state, prevState, canRamp, rlPrepared,
                   policyVars>>

RunPowerOff ==
    /\ RunUnchanged
    /\ state = "POWER_OFF"
    /\ enable' = FALSE
    /\ UNCHANGED <<finished, timer, rlFault>>

RunDamp ==
    /\ RunUnchanged
    /\ state = "DAMP"
    /\ enable' = TRUE
    /\ UNCHANGED <<finished, timer, rlFault>>

\* Both timers of HOME run out at some Step.
RunHome(arrived) ==
    /\ RunUnchanged
    /\ state = "HOME"
    /\ enable' = TRUE
    /\ finished' = (finished \/ arrived)
    /\ UNCHANGED <<timer, rlFault>>

\* UpdateReadiness: consecutive converged samples, and no way back.
VariantDecays(converged) == IF converged THEN timer + 1 ELSE timer - 1

Settled(converged) == IF converged THEN timer + 1 ELSE 0

RunZero(converged) ==
    /\ RunUnchanged
    /\ state = "ZERO"
    /\ enable' = TRUE
    /\ timer' = IF finished THEN timer ELSE Settled(converged)
    /\ finished' = (finished \/ timer' >= SettleTicks)
    /\ UNCHANGED rlFault

\* Run checks attitude, deadlines and targets, and may report a fault.
RunRl(faulty) ==
    /\ RunUnchanged
    /\ state = "RL"
    /\ enable' \in {enable, TRUE}
    /\ rlFault' = (rlFault \/ (faulty /\ CanFault))
    /\ UNCHANGED <<finished, timer>>

VariantOneMore == canRamp /\ timer < ReleaseTicks

Releasing == canRamp /\ timer + 1 < ReleaseTicks

RunSafety ==
    /\ RunUnchanged
    /\ state = "SAFETY"
    /\ timer' = IF timer < ReleaseTicks THEN timer + 1 ELSE timer
    /\ enable' = Releasing
    /\ finished' = (finished \/ ~Releasing)
    /\ UNCHANGED rlFault

RunState ==
    \/ RunPowerOff
    \/ RunDamp
    \/ \E arrived \in BOOLEAN : RunHome(arrived)
    \/ \E converged \in BOOLEAN : RunZero(converged)
    \/ \E faulty \in BOOLEAN : RunRl(faulty)
    \/ RunSafety

-----------------------------------------------------------------------------
(***************************************************************************)
(* Step, what follows FSM::Step.                                           *)
(***************************************************************************)

ReviewStateFault ==
    /\ pc = "after" /\ pc' = "chain"
    /\ observations' = <<NoFault, NoFault, NoFault, NoFault>>  \* last use
    /\ IF StateFault # NoFault
       THEN /\ Resolve([observations EXCEPT ![4] = StateFault])
            /\ SwitchTo("SAFETY", fault')
       ELSE UNCHANGED <<fault, observedSeq, faultSeq, fsmVars, rlVars>>
    /\ UNCHANGED <<key, sensorFault, prevAck, acked, prevState, policyVars>>

ChainUnchanged ==
    /\ pc = "chain" /\ pc' = "idle"
    /\ prevState' = state
    /\ UNCHANGED <<inputVars, faultVars, fsmVars, rlVars, active, preparing,
                   loaded, prepared, retired, switchPhase>>

RlWasLeft == prevState = "RL" /\ state # "RL"

\* The runtime that ran is used up; a catalogue goes back to its owner.
LeaveRl ==
    /\ ChainUnchanged
    /\ RlWasLeft
    /\ ready' = FALSE
    /\ prepFailed' = FALSE
    /\ IF actionOwner # None
       THEN /\ pending' = actionOwner
            /\ hot' = FALSE /\ switchAge' = 0
            /\ FinishPolicyAction(TRUE)
       ELSE UNCHANGED <<pending, hot, switchAge, actionVars>>
    /\ IF waiting /\ state = "POWER_OFF"
       THEN waiting' = FALSE /\ finalTarget' = None /\ prereqTimer' = 0
       ELSE UNCHANGED chainVars
    /\ UNCHANGED returnAttempted

ChainRuns == waiting /\ state = "RL" /\ RequestedPolicyReady

VariantHurries(t) == t >= PrereqTicks - 1

PrereqDone(t) == t >= PrereqTicks

\* The prerequisite policy has run another Step, or long enough.
CountPrerequisite ==
    LET chained == finalTarget # None /\ Prerequisite[finalTarget] # None
        t == IF chained /\ active = Prerequisite[finalTarget]
             THEN prereqTimer + 1 ELSE prereqTimer
    IN  /\ ChainUnchanged
        /\ ~RlWasLeft
        /\ ChainRuns
        /\ prereqTimer' = t
        /\ IF chained /\ PrereqDone(t)
           THEN /\ pending' = finalTarget
                /\ finalTarget' = None /\ waiting' = FALSE
                /\ hot' = TRUE /\ switchAge' = 0
           ELSE UNCHANGED <<pending, finalTarget, waiting, hot, switchAge>>
        /\ UNCHANGED <<ready, prepFailed, returnAttempted, actionVars>>

MayReturn ==
    /\ state = "RL" /\ ~waiting /\ RequestedPolicyReady
    /\ ~hot /\ ~returnAttempted

\* The motion of the policy has ended: back to the owner of the action, or
\* to the policy configured to follow.
ReturnFromMotion ==
    /\ ~RlWasLeft
    /\ MayReturn
    /\ \/ /\ actionOwner # None /\ active # actionOwner
          /\ returnAttempted' = TRUE
          /\ StartActionHandoff(actionOwner)
          /\ actionReturning' = TRUE /\ actionPhase' = "BLEND_OUT"
          /\ UNCHANGED <<ready, prereqTimer, actionOwner, actionTarget>>
       \/ /\ ~(actionOwner # None /\ active # actionOwner)
          /\ Return[active] # None
          /\ returnAttempted' = TRUE
          /\ pending' = Return[active] /\ hot' = TRUE /\ switchAge' = 0
          /\ UNCHANGED <<ready, prepFailed, chainVars, actionVars>>
    /\ ChainUnchanged

NothingToSchedule ==
    /\ ~RlWasLeft
    /\ ~ChainRuns
    /\ UNCHANGED <<pending, ready, hot, switchAge, returnAttempted, prepFailed,
                   chainVars, actionVars>>
    /\ ChainUnchanged

ScheduleChain ==
    LeaveRl \/ CountPrerequisite \/ ReturnFromMotion \/ NothingToSchedule

-----------------------------------------------------------------------------
(***************************************************************************)
(* The other threads.                                                      *)
(***************************************************************************)

BackgroundUnchanged ==
    UNCHANGED <<pc, inputVars, faultVars, fsmVars, prevState, rlPrepared,
                chainVars, switchVars, actionVars, preparing, prepared, prepFailed>>

\* The inference thread reports a fault, at any point of the control cycle.
InferFault ==
    /\ state = "RL" /\ ~rlFault /\ CanFault
    /\ rlFault' = TRUE
    /\ UNCHANGED <<loaded, retired>>
    /\ BackgroundUnchanged

\* PreparePolicyStates returns, or throws.
PrepareDone ==
    /\ loaded = "running"
    /\ loaded' \in {"ok", "error"}
    /\ UNCHANGED <<rlFault, retired>>
    /\ BackgroundUnchanged

\* The replaced states are gone.
RetireDone ==
    /\ retired > 0
    /\ retired' = retired - 1
    /\ UNCHANGED <<rlFault, loaded>>
    /\ BackgroundUnchanged

-----------------------------------------------------------------------------
Init ==
    /\ pc = "idle"
    /\ key = 0 /\ sensorFault = NoFault
    /\ observations = <<NoFault, NoFault, NoFault, NoFault>>
    /\ fault = NoFault /\ observedSeq = 0 /\ faultSeq = 0
    /\ prevAck = 0 /\ acked = <<0, "none">>
    /\ state = "POWER_OFF" /\ prevState = "POWER_OFF"
    /\ finished = FALSE /\ timer = 0 /\ enable = FALSE /\ canRamp = FALSE
    /\ rlFault = FALSE /\ rlPrepared = TRUE
    /\ active = DefaultPolicy /\ pending = DefaultPolicy /\ ready = TRUE
    /\ preparing = None /\ loaded = "none" /\ prepared = None
    /\ prepFailed = FALSE /\ retired = 0
    /\ hot = FALSE /\ switchAge = 0 /\ switchPhase = "NONE"
    /\ waiting = FALSE /\ finalTarget = None /\ prereqTimer = 0
    /\ returnAttempted = FALSE
    /\ actionOwner = IF Actions[DefaultPolicy] # {} THEN DefaultPolicy ELSE None
    /\ actionTarget = None /\ actionReturning = FALSE /\ actionPhase = "IDLE"

ReceiveAny ==
    \E k \in Keys :
        \/ ReceiveCommand(k)
        \/ ReceiveCancel(k)
        \/ \E c \in Policies : ReceiveStart(k, c)

SelectAny == NoSelection \/ \E p \in Policies : SelectPolicy(p)

AcknowledgeAny ==
    \E sf \in SensorFaults \cup {NoFault}, seq \in 0 .. faultSeq :
        AcknowledgeFault(sf, seq)

\* One block of the control cycle.
Control ==
    \/ ReceiveAny
    \/ SelectAny
    \/ AcknowledgeAny
    \/ \E m \in MonitoredFaults : ObserveFaults(m)
    \/ CancelHandoff \/ KeepHandoff
    \/ PollPolicyPreparation
    \/ ForceSafety \/ BlockPowerOn
    \/ PreparePolicy
    \/ StayInState \/ ChangeState
    \/ RunState
    \/ ReviewStateFault
    \/ ScheduleChain

Next == Control \/ InferFault \/ PrepareDone \/ RetireDone

Spec == Init /\ [][Next]_vars

\* The control loop is periodic and never waits for the other threads, and
\* loading and destroying a policy come to an end.
Fairness == WF_vars(Control) /\ WF_vars(PrepareDone) /\ WF_vars(RetireDone)

FairSpec == Spec /\ Fairness

-----------------------------------------------------------------------------
InputType ==
    /\ key \in Keys \cup {0}
    /\ sensorFault \in FaultStatus
    /\ observations \in [1 .. 4 -> FaultStatus]

FaultType ==
    /\ fault \in FaultStatus
    /\ observedSeq \in Nat /\ faultSeq \in Nat /\ prevAck \in Nat
    /\ acked \in Nat \X FaultCodes

FsmType ==
    /\ state \in States /\ prevState \in States
    /\ finished \in BOOLEAN /\ timer \in Nat
    /\ enable \in BOOLEAN /\ canRamp \in BOOLEAN
    /\ rlFault \in BOOLEAN /\ rlPrepared \in BOOLEAN

LoadType ==
    /\ active \in Policies /\ pending \in Policies /\ ready \in BOOLEAN
    /\ preparing \in Policies \cup {None}
    /\ loaded \in {"none", "running", "ok", "error"}
    /\ loaded # "none" => preparing # None
    /\ prepared \in Policies \cup {None}
    /\ prepFailed \in BOOLEAN /\ retired \in Nat

HandoffType ==
    /\ hot \in BOOLEAN /\ switchAge \in Nat
    /\ switchPhase \in {"NONE", "PREPARING", "READY", "REJECTED", "FAILED"}
    /\ waiting \in BOOLEAN /\ finalTarget \in Policies \cup {None}
    /\ prereqTimer \in Nat /\ returnAttempted \in BOOLEAN

ActionType ==
    /\ actionOwner \in Policies \cup {None}
    /\ actionTarget \in Policies \cup {None}
    /\ actionReturning \in BOOLEAN
    /\ actionPhase \in {"IDLE", "BLEND_IN", "PLAYING", "BLEND_OUT", "FINISHED",
                        "REJECTED"}

TypeOK ==
    /\ pc \in {"idle", "select", "ack", "observe", "handoff", "poll", "force",
               "prepare", "fsm", "run", "after", "chain"}
    /\ InputType /\ FaultType /\ FsmType
    /\ LoadType /\ HandoffType /\ ActionType

-----------------------------------------------------------------------------
(***************************************************************************)
(* What the fault latch promises.  The command is read after each Step, in *)
(* "idle".                                                                 *)
(***************************************************************************)

\* Step forces SAFETY before and after the FSM moves: no command leaves a
\* cycle with a fault latched and the robot in a state that drives it.
LatchedFaultDisarms ==
    pc = "idle" /\ fault.latched => state \in {"POWER_OFF", "SAFETY"}

\* The joints are driven by a healthy DAMP, HOME, ZERO or RL, or by SAFETY in
\* the controlled release it decided on when it was entered, and then no longer
\* than release_duration.
DriveIsJustified ==
    pc = "idle" /\ enable =>
        \/ state \in {"DAMP", "HOME", "ZERO", "RL"} /\ ~fault.latched
        \/ state = "SAFETY" /\ canRamp /\ timer < ReleaseTicks

\* The latch opens only for the sequence of the newest fault, sent after that
\* fault went inactive: a late or repeated acknowledgement opens nothing.
AcknowledgedByItsSequence ==
    [][fault.latched /\ ~fault'.latched =>
        prevAck # faultSeq /\ prevAck' = faultSeq /\ ~fault.active]_vars

\* A recovered report that the operator confirmed does not latch again.
ConfirmedReportIsQuiet ==
    [][faultSeq' # faultSeq /\ ~fault'.active =>
        acked # <<observedSeq', fault'.code>>]_vars

\* The manager seen from its fault latch.  A state between the one that lets
\* go and the one that is off drives the robot.
Power ==
    CASE state = "POWER_OFF" -> "off"
      [] state = "SAFETY"    -> "releasing"
      [] OTHER               -> "on"

Interlock == INSTANCE FaultInterlock WITH power <- Power, latched <- fault.latched

\* Every step of the manager is a step of the interlock, or none: no key, no
\* handoff and no order of the threads powers a robot on past a latched fault.
KeepsInterlock == Interlock!Safety

\* With a control loop that keeps running, a latched fault always takes effect
\* and the release it starts always ends with the robot off.
ServesInterlock == Interlock!Spec

-----------------------------------------------------------------------------
(***************************************************************************)
(* What the policy preparation and the running handoff promise.            *)
(***************************************************************************)

\* From HOME on the policy is settled: the one that was requested is loaded,
\* and nothing is under way that could replace it.
PolicyLocked == state \in {"HOME", "ZERO"} => RequestedPolicyReady

\* RL is entered with the requested policy loaded and no fault latched.
RlEntryIsReady ==
    [][state # "RL" /\ state' = "RL" =>
        finished /\ RequestedPolicyReady /\ ~fault.latched]_vars

\* A request that is refused for the group of its prerequisite forgets the handoff
\* under way and leaves the policy it was for; LoadConfig accepts such a prerequisite.
HandoffForgotten ==
    /\ ~hot /\ switchPhase = "REJECTED"
    /\ \E p \in Selectable : /\ Prerequisite[p] # None
                             /\ SameSwitchGroup(p)
                             /\ ~SameSwitchGroup(Prerequisite[p])

\* In RL the policy is replaced only within its switch group, or by one it is the
\* prerequisite of, by a handoff that is still wanted and never while a fault is
\* latched - but for a forgotten handoff; HOME and ZERO keep their policy.
RunningPolicyIsHandedOver ==
    [][active' # active =>
        /\ state \notin {"HOME", "ZERO"}
        /\ state = "RL" => \/ SameSwitchGroup(active')
                           \/ active = Prerequisite[active']
        /\ state = "RL" => (hot /\ ~fault.latched) \/ HandoffForgotten]_vars

\* "The old policy stays in control ... a change of state or a fault cancels the
\* pending handoff" (behavior_manager/README.md:204): in RL a policy is replaced
\* only by a handoff that the running one was asked for. The code breaks this: see
\* HandoffForgotten.
ReplacedByHandoff ==
    [][state = "RL" /\ active' # active => hot /\ ~fault.latched]_vars

\* In RL a policy with a prerequisite takes over only from it, after it ran for
\* the configured time - or from a motion that ended and is configured to return
\* to it, which is the one way past the prerequisite.
PrerequisiteRunsFirst ==
    [][state = "RL" /\ active' # active /\ Prerequisite[active'] # None =>
        \/ active = Prerequisite[active'] /\ prereqTimer >= PrereqTicks
        \/ returnAttempted /\ active' = Return[active]]_vars

\* At most one replaced policy is being destroyed: handing over another to
\* the thread that does it would stop the control loop until it ends.
OneRetiring == retired <= 1

\* The catalogue tells the truth of what runs: an action that is PLAYING runs
\* its own child policy, one that is blending in has asked for it.
ActionStatusIsTrue ==
    pc = "idle" =>
        /\ actionPhase = "PLAYING" => active = actionTarget
        /\ actionPhase = "BLEND_IN" => active = actionOwner
        /\ actionTarget # None => /\ actionOwner # None
                                  /\ actionTarget \in Actions[actionOwner]
                                  /\ state = "RL"

\* From some time on the operator asks for no policy and no action.
OperatorFallsSilent ==
    <>[][/\ pc = "select" => NoSelection
         /\ pc = "idle" => \E k \in Keys : ReceiveCommand(k)]_vars

\* Then no loaded policy waits for ever: the handoff is made, or cancelled when
\* its time is over.
HandoffEnds ==
    OperatorFallsSilent => (prepared # None ~> prepared = None)

\* And the operator learns what became of the last request.
RequestIsAnswered ==
    OperatorFallsSilent => (switchPhase = "PREPARING" ~> switchPhase # "PREPARING")

-----------------------------------------------------------------------------
(***************************************************************************)
(* What the documentation says of the program and the program does not do. *)
(***************************************************************************)

\* "control latches driver, transport, safety monitor and policy faults": no
\* cycle ends in SAFETY without a latched fault.
SafetyIsLatched == pc = "idle" /\ state = "SAFETY" => fault.latched

=============================================================================
