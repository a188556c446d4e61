--------------------------- MODULE PolicyLock_proofs ---------------------------
(***************************************************************************)
(* Proofs about the policies of the manager.  While the robot is brought   *)
(* up, from HOME to the entry of RL, nothing replaces the one that was     *)
(* chosen; one at a time is destroyed; the catalogue names the one that    *)
(* runs; in RL it gives way only to a handoff within its group, and to a   *)
(* policy that has to follow it only after it ran long enough.             *)
(***************************************************************************)
EXTENDS BehaviorManager_proofs

(***************************************************************************)
(* PolicyLocked is not inductive: RL, left in this cycle, spends "ready"   *)
(* at its end, so HOME must not be reached in the cycle that leaves RL;    *)
(* and HOME is entered by a key that the preparation block let through.    *)
(***************************************************************************)
CycleInv ==
    /\ pc \in {"idle", "select", "ack", "observe", "handoff", "poll", "force"}
         => state = prevState
    /\ pc \in {"prepare", "fsm"} => state \in {prevState, "SAFETY"}
    /\ prevState = "RL" => state \notin {"HOME", "ZERO"}

HomeKeyIsSafe ==
    pc = "fsm" /\ state = "DAMP" /\ key = 4 => RequestedPolicyReady

LockInv == CycleInv /\ HomeKeyIsSafe /\ PolicyLocked

readyVars == <<ready, active, pending, preparing, prepared>>

LEMMA ReadySame == UNCHANGED readyVars => RequestedPolicyReady' = RequestedPolicyReady
  BY DEF readyVars, RequestedPolicyReady

\* No request reaches the policy of a robot in HOME or ZERO.
LEMMA RequestsLock ==
    ASSUME TypeOK, state \in {"HOME", "ZERO"}, RequestedPolicyReady,
           ReceiveAny \/ SelectAny \/ CancelHandoff \/ KeepHandoff \/
           PollPolicyPreparation \/ PreparePolicy
    PROVE  UNCHANGED readyVars
  <1>1. CASE ReceiveAny
    BY <1>1 DEF ReceiveAny, ReceiveCommand, ReceiveStart, ReceiveCancel, CanRunAction,
                HandoffUnasked, ReceiveUnchanged, readyVars
  <1>2. CASE SelectAny
    <2>1. CASE NoSelection
      BY <2>1 DEF NoSelection, SelectUnchanged, readyVars
    <2>2. ASSUME NEW p \in Policies, SelectPolicy(p) PROVE UNCHANGED readyVars
      <3>1. SelectionRefused(p)
        BY DEF SelectionRefused, HotRequest
      <3>2. RejectSelection(p)
        BY <2>2, <3>1 DEF SelectPolicy, ReselectActive, SelectDirect, SelectChained
      <3> QED
        BY <3>2 DEF RejectSelection, SelectUnchanged, readyVars
    <2> QED
      BY <1>2, <2>1, <2>2 DEF SelectAny
  <1>3. CASE CancelHandoff \/ KeepHandoff
    <2>1. KeepHandoff
      BY <1>3 DEF CancelHandoff, MustCancelHandoff
    <2> QED
      BY <2>1 DEF KeepHandoff, HandoffUnchanged, loadVars, readyVars
  <1>4. CASE PollPolicyPreparation
    <2>1. preparing = None /\ prepared = None /\ loaded = "none"
      BY DEF RequestedPolicyReady, TypeOK, LoadType
    <2>2. PollNothing
      BY <1>4, <2>1 DEF PollPolicyPreparation, DropPrepared, InstallPrepared,
                        CollectLost, CollectLoaded, CollectFailed
    <2> QED
      BY <2>2 DEF PollNothing, policyVars, loadVars, switchVars, readyVars
  <1>5. CASE PreparePolicy
    <2>1. SkipPreparation
      BY <1>5 DEF PreparePolicy, StartPreparation, FailPreparation, NeedsPreparation
    <2> QED
      BY <2>1 DEF SkipPreparation, PrepareUnchanged, readyVars
  <1> QED
    BY <1>1, <1>2, <1>3, <1>4, <1>5

LEMMA InitLock == Init => LockInv
  BY DEF Init, LockInv, CycleInv, HomeKeyIsSafe, PolicyLocked

LEMMA NextLock == Inv /\ LockInv /\ [Next]_vars => LockInv'
  <1> SUFFICES ASSUME Inv, LockInv, [Next]_vars PROVE LockInv'
    OBVIOUS
  <1> USE DEF LockInv, CycleInv
  <1>1. ASSUME ReceiveAny \/ SelectAny \/ CancelHandoff \/ KeepHandoff \/
               PollPolicyPreparation
        PROVE  /\ UNCHANGED <<state, prevState>>
               /\ pc # "fsm" /\ pc' # "fsm"
               /\ pc' \in {"idle", "select", "ack", "observe", "handoff", "poll",
                           "force"}
               /\ pc \in {"idle", "select", "ack", "observe", "handoff", "poll",
                          "force"}
    <2>1. CASE ReceiveAny
      BY <2>1 DEF ReceiveAny, ReceiveCommand, ReceiveStart, ReceiveCancel,
                  ReceiveUnchanged, fsmVars
    <2>2. CASE SelectAny
      BY <2>2 DEF SelectAny, SelectPolicy, NoSelection, RejectSelection,
                  ReselectActive, SelectDirect, SelectChained, SelectUnchanged, fsmVars
    <2>3. CASE CancelHandoff \/ KeepHandoff
      BY <2>3 DEF CancelHandoff, KeepHandoff, HandoffUnchanged, fsmVars
    <2>4. CASE PollPolicyPreparation
      BY <2>4 DEF PollPolicyPreparation, PollNothing, DropPrepared, InstallPrepared,
                  CollectUnchanged, CollectLost, CollectLoaded, CollectFailed,
                  PollUnchanged, fsmVars
    <2> QED
      BY <1>1, <2>1, <2>2, <2>3, <2>4
  <1>2. CASE ReceiveAny \/ SelectAny \/ CancelHandoff \/ KeepHandoff \/
             PollPolicyPreparation
    <2>1. CycleInv' /\ HomeKeyIsSafe'
      BY <1>1, <1>2 DEF HomeKeyIsSafe
    <2>2. PolicyLocked'
      BY <1>1, <1>2, RequestsLock, ReadySame DEF Inv, PolicyLocked
    <2> QED
      BY <2>1, <2>2
  <1>3. CASE AcknowledgeAny \/ \E m \in MonitoredFaults : ObserveFaults(m)
    <2>1. /\ UNCHANGED <<state, prevState, readyVars>>
          /\ <<pc, pc'>> \in {<<"ack", "observe">>, <<"observe", "handoff">>}
      BY <1>3 DEF AcknowledgeAny, AcknowledgeFault, ObserveFaults, fsmVars,
                  policyVars, loadVars, switchVars, readyVars
    <2> QED
      BY <2>1, ReadySame DEF HomeKeyIsSafe, PolicyLocked
  <1>4. CASE ForceSafety \/ BlockPowerOn
    <2>1. /\ UNCHANGED <<prevState, readyVars>> /\ pc = "force" /\ pc' = "prepare"
          /\ state' \in {state, "SAFETY"}
      BY <1>4 DEF ForceSafety, BlockPowerOn, ForceUnchanged, SwitchTo, fsmVars,
                  policyVars, loadVars, switchVars, readyVars
    <2> QED
      BY <2>1, ReadySame DEF HomeKeyIsSafe, PolicyLocked
  <1>5. CASE PreparePolicy
    <2>1. PrepareUnchanged
      BY <1>5 DEF PreparePolicy, StartPreparation, FailPreparation, SkipPreparation
    <2>2. /\ pc = "prepare" /\ pc' = "fsm" /\ UNCHANGED <<state, prevState>>
          /\ HomeIsShut' /\ key = 4 => key' = 0
          /\ ~(HomeIsShut' /\ key = 4) => key' = key
      BY <2>1 DEF PrepareUnchanged, fsmVars
    <2>3. HomeKeyIsSafe'
      BY <2>2 DEF HomeKeyIsSafe, HomeIsShut
    <2>4. PolicyLocked'
      BY <1>5, <2>2, RequestsLock, ReadySame DEF Inv, PolicyLocked
    <2> QED
      BY <2>2, <2>3, <2>4
  <1>6. CASE StayInState \/ RunState
    <2>1. /\ UNCHANGED <<state, prevState, readyVars>>
          /\ <<pc, pc'>> \in {<<"fsm", "run">>, <<"run", "after">>}
      BY <1>6 DEF StayInState, FsmUnchanged, RunState, RunPowerOff, RunDamp, RunHome,
                  RunZero, RunRl, RunSafety, RunUnchanged, fsmVars, policyVars,
                  loadVars, switchVars, readyVars
    <2> QED
      BY <2>1, ReadySame DEF HomeKeyIsSafe, PolicyLocked
  <1>7. CASE ChangeState
    <2>1. /\ UNCHANGED <<prevState, readyVars>> /\ pc = "fsm" /\ pc' = "run"
          /\ state' = CheckTransition
      BY <1>7 DEF ChangeState, FsmUnchanged, SwitchTo, policyVars, loadVars,
                  switchVars, readyVars
    <2>2. prevState = "RL" => state' \notin {"HOME", "ZERO"}
      BY <2>1 DEF CheckTransition, RlTransition, SafetyTransition
    <2>3. CASE state' = "HOME"
      <3>1. state = "HOME" \/ (state = "DAMP" /\ key = 4)
        BY <2>1, <2>3
           DEF CheckTransition, PowerOffTransition, DampTransition, HomeTransition,
               ZeroTransition, RlTransition, SafetyTransition, Inv, TypeOK, FsmType,
               States
      <3> QED
        BY <2>1, <2>2, <2>3, <3>1, ReadySame DEF HomeKeyIsSafe, PolicyLocked
    <2>4. CASE state' = "ZERO"
      <3>1. state \in {"HOME", "ZERO"}
        BY <2>1, <2>4
           DEF CheckTransition, PowerOffTransition, DampTransition, HomeTransition,
               ZeroTransition, RlTransition, SafetyTransition, Inv, TypeOK, FsmType,
               States
      <3> QED
        BY <2>1, <2>2, <2>4, <3>1, ReadySame DEF HomeKeyIsSafe, PolicyLocked
    <2>5. CASE state' \notin {"HOME", "ZERO"}
      BY <2>1, <2>2, <2>5 DEF HomeKeyIsSafe, PolicyLocked
    <2> QED
      BY <2>3, <2>4, <2>5
  <1>8. CASE ReviewStateFault
    <2>1. /\ UNCHANGED <<prevState, readyVars>> /\ pc = "after" /\ pc' = "chain"
          /\ state' \in {state, "SAFETY"}
      BY <1>8 DEF ReviewStateFault, SwitchTo, fsmVars, policyVars, loadVars,
                  switchVars, readyVars
    <2> QED
      BY <2>1, ReadySame DEF HomeKeyIsSafe, PolicyLocked
  <1>9. CASE ScheduleChain
    <2>1. /\ pc = "chain" /\ pc' = "idle" /\ state' = state /\ prevState' = state
      BY <1>9 DEF ScheduleChain, LeaveRl, CountPrerequisite, ReturnFromMotion,
                  NothingToSchedule, ChainUnchanged, fsmVars
    <2>2. CASE state \in {"HOME", "ZERO"}
      <3>1. NothingToSchedule
        BY <1>9, <2>2 DEF ScheduleChain, LeaveRl, CountPrerequisite, ReturnFromMotion,
                          RlWasLeft, ChainRuns, MayReturn
      <3>2. UNCHANGED readyVars
        BY <3>1 DEF NothingToSchedule, ChainUnchanged, readyVars
      <3> QED
        BY <2>1, <2>2, <3>2, ReadySame DEF HomeKeyIsSafe, PolicyLocked
    <2>3. CASE state \notin {"HOME", "ZERO"}
      BY <2>1, <2>3 DEF HomeKeyIsSafe, PolicyLocked
    <2> QED
      BY <2>2, <2>3
  <1>10. CASE InferFault \/ PrepareDone \/ RetireDone \/ UNCHANGED vars
    <2>1. UNCHANGED <<pc, key, state, prevState, readyVars>>
      BY <1>10 DEF InferFault, PrepareDone, RetireDone, BackgroundUnchanged, vars,
                   inputVars, fsmVars, policyVars, loadVars, switchVars, readyVars
    <2> QED
      BY <2>1, ReadySame DEF HomeKeyIsSafe, PolicyLocked
  <1> QED
    BY <1>2, <1>3, <1>4, <1>5, <1>6, <1>7, <1>8, <1>9, <1>10 DEF Next, Control

\* No request, no finished load and no late handoff unsettles the policy once the
\* robot is on its way up: in HOME and ZERO the requested policy is loaded and
\* nothing is under way that could replace it.
THEOREM PolicyIsLocked == Spec => []PolicyLocked
  <1>1. LockInv => PolicyLocked
    BY DEF LockInv
  <1> QED
    BY <1>1, InitLock, NextLock, Invariance, PTL DEF Spec

\* RL is entered only from a settled ZERO, with the requested policy loaded and
\* with no fault latched.
THEOREM RlEntry == Spec => RlEntryIsReady
  <1>1. Inv /\ LockInv /\ [Next]_vars =>
          [state # "RL" /\ state' = "RL" =>
             finished /\ RequestedPolicyReady /\ ~fault.latched]_vars
    <2> SUFFICES ASSUME Inv, LockInv, [Next]_vars, state # "RL", state' = "RL"
                 PROVE  finished /\ RequestedPolicyReady /\ ~fault.latched
      OBVIOUS
    <2>1. ChangeState
      <3>1. CASE ReceiveAny \/ SelectAny \/ CancelHandoff \/ KeepHandoff
        BY <3>1, QuietBlocks DEF LatchVars
      <3>2. CASE PollPolicyPreparation \/ PreparePolicy \/ ScheduleChain
        BY <3>2, PollLatch, PrepareLatch, ChainLatch DEF LatchVars
      <3>3. CASE AcknowledgeAny \/ \E m \in MonitoredFaults : ObserveFaults(m)
        BY <3>3, AcknowledgeLatch, ObserveLatch DEF Inv
      <3>4. CASE ForceSafety \/ BlockPowerOn \/ ReviewStateFault
        BY <3>4 DEF ForceSafety, BlockPowerOn, ReviewStateFault, SwitchTo, fsmVars
      <3>5. CASE StayInState \/ RunState
        BY <3>5, RunDrive DEF StayInState, fsmVars, Inv
      <3>6. CASE InferFault \/ PrepareDone \/ RetireDone \/ UNCHANGED vars
        BY <3>6, BackgroundLatch DEF LatchVars, vars, fsmVars
      <3> QED
        BY <3>1, <3>2, <3>3, <3>4, <3>5, <3>6 DEF Next, Control
    <2>2. pc = "fsm" /\ CheckTransition = "RL"
      BY <2>1 DEF ChangeState, FsmUnchanged, SwitchTo
    <2>3. state = "ZERO" /\ finished
      BY <2>2 DEF CheckTransition, PowerOffTransition, DampTransition, HomeTransition,
                  ZeroTransition, SafetyTransition, Inv, TypeOK, FsmType, States
    <2> QED
      BY <2>2, <2>3 DEF Inv, LatchHeld, LockInv, PolicyLocked
  <1> QED
    BY <1>1, InitLock, NextLock, Invariance, PTL DEF Spec, RlEntryIsReady

-----------------------------------------------------------------------------
\* One replaced policy at a time is handed to the thread that destroys it: every
\* block that hands one over has first seen the last one gone.
LEMMA RetireStep == TypeOK /\ OneRetiring /\ [Next]_vars => OneRetiring'
  <1> SUFFICES ASSUME TypeOK, OneRetiring, [Next]_vars PROVE OneRetiring'
    OBVIOUS
  <1> USE DEF OneRetiring
  <1>1. CASE PollPolicyPreparation
    <2>1. retired' = retired \/ (retired = 0 /\ retired' = retired + 1)
      <3>1. CASE PollNothing
        BY <3>1 DEF PollNothing, policyVars, loadVars
      <3>2. CASE DropPrepared \/ InstallPrepared
        BY <3>2 DEF DropPrepared, InstallPrepared, RetireIsOver, RetirePolicy
      <3>3. CASE CollectLost \/ CollectLoaded \/ CollectFailed
        BY <3>3 DEF CollectUnchanged, CollectLost, CollectLoaded, CollectFailed,
                    RetireIsOver, RetirePolicy
      <3> QED
        BY <1>1, <3>1, <3>2, <3>3 DEF PollPolicyPreparation
    <2> QED
      BY <2>1 DEF TypeOK, LoadType
  <1>2. CASE RetireDone
    BY <1>2 DEF RetireDone, TypeOK, LoadType
  <1>3. CASE ReceiveAny \/ SelectAny \/ AcknowledgeAny \/ CancelHandoff \/ KeepHandoff
             \/ \E m \in MonitoredFaults : ObserveFaults(m)
    <2>1. CASE SelectAny
      BY <2>1 DEF SelectAny, SelectPolicy, NoSelection, RejectSelection,
                  ReselectActive, SelectDirect, SelectChained, SelectUnchanged
    <2> QED
      BY <1>3, <2>1
         DEF ReceiveAny, ReceiveCommand, ReceiveStart, ReceiveCancel,
             ReceiveUnchanged, AcknowledgeAny, AcknowledgeFault, ObserveFaults,
             CancelHandoff, KeepHandoff, HandoffUnchanged, policyVars, loadVars
  <1>4. CASE ForceSafety \/ BlockPowerOn \/ PreparePolicy \/ StayInState \/ ChangeState
             \/ RunState \/ ReviewStateFault
    BY <1>4 DEF ForceSafety, BlockPowerOn, ForceUnchanged, PreparePolicy,
                StartPreparation, FailPreparation, SkipPreparation, PrepareUnchanged,
                StayInState, ChangeState, FsmUnchanged, RunState, RunPowerOff,
                RunDamp, RunHome, RunZero, RunRl, RunSafety, RunUnchanged,
                ReviewStateFault, policyVars, loadVars
  <1>5. CASE ScheduleChain
    BY <1>5 DEF ScheduleChain, LeaveRl, CountPrerequisite, ReturnFromMotion,
                NothingToSchedule, ChainUnchanged
  <1>6. CASE InferFault \/ PrepareDone \/ UNCHANGED vars
    BY <1>6 DEF InferFault, PrepareDone, vars, policyVars, loadVars
  <1> QED
    BY <1>1, <1>2, <1>3, <1>4, <1>5, <1>6 DEF Next, Control

\* However fast policies are requested, dropped and installed, the control loop never
\* waits for the destruction of one: at most one is being destroyed.
THEOREM OneIsRetiring == Spec => []OneRetiring
  <1>1. Init => OneRetiring
    BY DEF Init, OneRetiring
  <1>2. Inv => TypeOK
    BY DEF Inv
  <1> QED
    BY <1>1, <1>2, RetireStep, Invariance, PTL DEF Spec

-----------------------------------------------------------------------------
(***************************************************************************)
(* The catalogue and the running handoff.  ActionStatusIsTrue holds at the *)
(* end of a cycle only; within it an action outlives RL until the chain is *)
(* scheduled, so that its bookkeeping is tied to the state the cycle began *)
(* with.                                                                   *)
(***************************************************************************)
CatalogueInv ==
    /\ actionOwner # None => /\ Actions[actionOwner] # {}
                             /\ Group[active] = Group[actionOwner]
    /\ actionTarget # None => /\ actionOwner # None
                              /\ actionTarget \in Actions[actionOwner]
                              /\ prevState = "RL"
    /\ actionPhase = "PLAYING" => active = actionTarget
    /\ actionPhase = "BLEND_IN" => active = actionOwner

catalogueVars == <<active, actionVars>>

\* Blocks that leave the catalogue, the policy that runs and the state of the last
\* cycle alone.
LEMMA CatalogueQuiet ==
    ASSUME \/ SelectAny /\ ~\E p \in Policies : ReselectActive(p)
           \/ AcknowledgeAny \/ KeepHandoff
           \/ \E m \in MonitoredFaults : ObserveFaults(m)
           \/ \E k \in Keys : ReceiveCommand(k)
           \/ PollNothing \/ DropPrepared \/ CollectLost \/ CollectLoaded
           \/ ForceSafety \/ BlockPowerOn
           \/ StartPreparation \/ SkipPreparation
           \/ StayInState \/ ChangeState \/ RunState \/ ReviewStateFault
           \/ InferFault \/ PrepareDone \/ RetireDone \/ UNCHANGED vars
    PROVE  UNCHANGED <<prevState, catalogueVars>>
  <1> USE DEF catalogueVars, actionVars, switchVars, policyVars, loadVars
  <1>1. CASE SelectAny /\ ~\E p \in Policies : ReselectActive(p)
    BY <1>1 DEF SelectAny, SelectPolicy, NoSelection, RejectSelection, SelectDirect,
                SelectChained, SelectUnchanged
  <1>2. CASE \/ AcknowledgeAny \/ KeepHandoff
             \/ \E m \in MonitoredFaults : ObserveFaults(m)
             \/ \E k \in Keys : ReceiveCommand(k)
    BY <1>2 DEF AcknowledgeAny, AcknowledgeFault, KeepHandoff, HandoffUnchanged,
                ObserveFaults, ReceiveCommand, ReceiveUnchanged, policyVars, loadVars
  <1>3. CASE PollNothing \/ DropPrepared \/ CollectLost \/ CollectLoaded
    BY <1>3 DEF PollNothing, DropPrepared, CollectLost, CollectLoaded,
                CollectUnchanged, PollUnchanged, policyVars, loadVars
  <1>4. CASE \/ ForceSafety \/ BlockPowerOn \/ StartPreparation \/ SkipPreparation
    BY <1>4 DEF ForceSafety, BlockPowerOn, ForceUnchanged, StartPreparation,
                SkipPreparation, PrepareUnchanged, policyVars, loadVars
  <1>5. CASE StayInState \/ ChangeState \/ RunState \/ ReviewStateFault
    BY <1>5 DEF StayInState, ChangeState, FsmUnchanged, RunState, RunPowerOff,
                RunDamp, RunHome, RunZero, RunRl, RunSafety, RunUnchanged,
                ReviewStateFault, policyVars, loadVars
  <1>6. CASE InferFault \/ PrepareDone \/ RetireDone \/ UNCHANGED vars
    BY <1>6 DEF InferFault, PrepareDone, RetireDone, BackgroundUnchanged, vars,
                policyVars, loadVars
  <1> QED
    BY <1>1, <1>2, <1>3, <1>4, <1>5, <1>6

\* What a policy that takes over makes of the catalogue is true of it.
LEMMA InstallCatalogue ==
    ASSUME TypeOK, CatalogueInv, InstallPrepared
    PROVE  CatalogueInv'
  <1>1. /\ active' = prepared /\ prepared \in Policies /\ prevState' = prevState
        /\ InstalledAction(prepared)
    BY DEF InstallPrepared, PollUnchanged, TypeOK, LoadType
  <1>2. CASE prepared = actionOwner
    <2>1. CASE actionTarget # None \/ actionReturning
      BY <1>1, <1>2, <2>1
         DEF InstalledAction, FinishPolicyAction, CatalogueInv
    <2>2. CASE ~(actionTarget # None \/ actionReturning)
      <3>1. actionPhase # "PLAYING"
        BY <2>2, PolicyAssumption DEF CatalogueInv, TypeOK, LoadType
      <3>2. UNCHANGED actionVars
        BY <1>1, <1>2, <2>2 DEF InstalledAction
      <3> QED
        BY <1>1, <1>2, <2>2, <3>1, <3>2 DEF CatalogueInv, actionVars
    <2> QED
      BY <2>1, <2>2
  <1>3. CASE prepared # actionOwner /\ prepared = actionTarget /\ ~actionReturning
    <2>1. /\ actionPhase' = "PLAYING"
          /\ UNCHANGED <<actionOwner, actionTarget, actionReturning>>
      BY <1>1, <1>3 DEF InstalledAction
    <2>2. /\ actionTarget # None /\ actionOwner # None
          /\ actionTarget \in Actions[actionOwner]
      BY <1>1, <1>3, PolicyAssumption DEF CatalogueInv
    <2>3. Group[actionTarget] = Group[actionOwner]
      BY <2>2, ConfigAssumption DEF TypeOK, ActionType
    <2> QED
      BY <1>1, <1>3, <2>1, <2>2, <2>3 DEF CatalogueInv
  <1>4. CASE prepared # actionOwner /\ ~(prepared = actionTarget /\ ~actionReturning)
    <2>1. /\ actionOwner' = IF Actions[prepared] # {} THEN prepared ELSE None
          /\ actionTarget' = None /\ actionPhase' = "IDLE"
      BY <1>1, <1>4 DEF InstalledAction
    <2> QED
      BY <1>1, <2>1 DEF CatalogueInv
  <1> QED
    BY <1>2, <1>3, <1>4

LEMMA InitCatalogue == Init => CatalogueInv
  BY PolicyAssumption DEF Init, CatalogueInv

\* An action that is finished, or abandoned, asserts nothing any more.
LEMMA FinishCatalogue ==
    ASSUME CatalogueInv, NEW accepted \in BOOLEAN, FinishPolicyAction(accepted),
           active' = active
    PROVE  CatalogueInv'
  BY DEF FinishPolicyAction, CatalogueInv

LEMMA NextCatalogue ==
    TypeOK /\ CycleInv /\ CatalogueInv /\ [Next]_vars => CatalogueInv'
  <1> SUFFICES ASSUME TypeOK, CycleInv, CatalogueInv, [Next]_vars
               PROVE  CatalogueInv'
    OBVIOUS
  <1>1. CASE UNCHANGED <<prevState, catalogueVars>>
    BY <1>1 DEF CatalogueInv, catalogueVars, actionVars
  <1>2. ASSUME NEW k \in Keys, NEW c \in Policies, ReceiveStart(k, c)
        PROVE  CatalogueInv'
    <2>1. pc = "idle" /\ UNCHANGED <<active, prevState>> /\ actionOwner # None
      BY <1>2 DEF ReceiveStart, ReceiveUnchanged
    <2>2. CASE /\ CanRunAction(k) /\ c \in Actions[actionOwner] /\ actionTarget = None
               /\ active = actionOwner /\ RequestedPolicyReady
      <3>1. prevState = "RL"
        BY <2>1, <2>2 DEF CycleInv, CanRunAction
      <3>2. actionPhase' = "BLEND_IN" /\ actionTarget' = c /\ UNCHANGED actionOwner
        BY <1>2, <2>2 DEF ReceiveStart
      <3> QED
        BY <2>1, <2>2, <3>1, <3>2 DEF CatalogueInv
    <2>3. CASE ~(/\ CanRunAction(k) /\ c \in Actions[actionOwner]
                 /\ actionTarget = None /\ active = actionOwner /\ RequestedPolicyReady)
      <3>1. /\ actionPhase' = IF actionTarget = None THEN "REJECTED" ELSE actionPhase
            /\ UNCHANGED <<actionOwner, actionTarget>>
        BY <1>2, <2>3 DEF ReceiveStart
      <3> QED
        BY <2>1, <3>1 DEF CatalogueInv
    <2> QED
      BY <2>2, <2>3
  <1>3. ASSUME NEW k \in Keys, ReceiveCancel(k) PROVE CatalogueInv'
    <2>1. UNCHANGED <<active, prevState>>
      BY <1>3 DEF ReceiveCancel, ReceiveUnchanged
    <2>2. \/ FinishPolicyAction(TRUE)
          \/ /\ actionPhase' = "BLEND_OUT"
             /\ UNCHANGED <<actionOwner, actionTarget>>
          \/ /\ actionPhase' \in IF actionTarget = None THEN {"IDLE", "REJECTED"}
                                 ELSE {actionPhase}
             /\ UNCHANGED <<actionOwner, actionTarget>>
      BY <1>3 DEF ReceiveCancel
    <2>3. CASE FinishPolicyAction(TRUE)
      BY <2>1, <2>3, FinishCatalogue
    <2>4. CASE ~FinishPolicyAction(TRUE)
      BY <2>1, <2>2, <2>4 DEF CatalogueInv
    <2> QED
      BY <2>3, <2>4
  <1>4. ASSUME NEW p \in Policies, ReselectActive(p) PROVE CatalogueInv'
    <2>1. active' = active /\ prevState' = prevState
      BY <1>4 DEF ReselectActive, SelectUnchanged
    <2>2. FinishPolicyAction(TRUE) \/ UNCHANGED actionVars
      BY <1>4 DEF ReselectActive
    <2> QED
      BY <2>1, <2>2, FinishCatalogue DEF CatalogueInv, actionVars
  <1>5. CASE CancelHandoff \/ CollectFailed \/ FailPreparation
    <2>1. active' = active /\ prevState' = prevState
      BY <1>5 DEF CancelHandoff, HandoffUnchanged, CollectFailed, CollectUnchanged,
                  PollUnchanged, FailPreparation, PrepareUnchanged
    <2>2. FinishPolicyAction(FALSE) \/ UNCHANGED actionVars
      BY <1>5 DEF CancelHandoff, CollectFailed, FailPreparation, AbandonAction,
                  actionVars
    <2> QED
      BY <2>1, <2>2, FinishCatalogue DEF CatalogueInv, actionVars
  <1>6. CASE InstallPrepared
    BY <1>6, InstallCatalogue
  <1>7. CASE ScheduleChain
    <2>1. pc = "chain" /\ active' = active /\ prevState' = state
      BY <1>7 DEF ScheduleChain, LeaveRl, CountPrerequisite, ReturnFromMotion,
                  NothingToSchedule, ChainUnchanged
    <2>2. CASE LeaveRl /\ actionOwner # None
      BY <2>1, <2>2, FinishCatalogue DEF LeaveRl
    <2>3. CASE LeaveRl /\ actionOwner = None
      BY <2>1, <2>3 DEF LeaveRl, CatalogueInv, actionVars
    <2>4. CASE ~LeaveRl
      <3>1. ~RlWasLeft
        BY <1>7, <2>4 DEF ScheduleChain, CountPrerequisite, ReturnFromMotion,
                          NothingToSchedule
      <3>2. prevState = "RL" => prevState' = "RL"
        BY <2>1, <3>1 DEF RlWasLeft
      <3>3. \/ UNCHANGED actionVars
            \/ actionPhase' = "BLEND_OUT" /\ UNCHANGED <<actionOwner, actionTarget>>
        BY <1>7, <2>4 DEF ScheduleChain, CountPrerequisite, ReturnFromMotion,
                          NothingToSchedule
      <3> QED
        BY <2>1, <3>2, <3>3 DEF CatalogueInv, actionVars
    <2> QED
      BY <2>2, <2>3, <2>4
  <1> QED
    BY <1>1, <1>2, <1>3, <1>4, <1>5, <1>6, <1>7, CatalogueQuiet
       DEF Next, Control, ReceiveAny, SelectAny, SelectPolicy,
           PollPolicyPreparation, PreparePolicy

\* Whatever becomes of the handoff of an action - it is made, refused, cancelled, late,
\* or RL is left - the catalogue names the policy that runs and no action outlives RL.
THEOREM StatusTellsTheTruth == Spec => []ActionStatusIsTrue
  <1>1. CycleInv /\ CatalogueInv => ActionStatusIsTrue
    BY DEF CycleInv, CatalogueInv, ActionStatusIsTrue
  <1>2. Inv => TypeOK
    BY DEF Inv
  <1>3. LockInv => CycleInv
    BY DEF LockInv
  <1> QED
    BY <1>1, <1>2, <1>3, InitLock, NextLock, InitCatalogue, NextCatalogue,
       Invariance, PTL DEF Spec

-----------------------------------------------------------------------------
(***************************************************************************)
(* Who may take over from the running policy, whatever configuration       *)
(* LoadConfig accepts: it checks the group of a policy to return to and of *)
(* an action, not that of a prerequisite, and lets a policy return to one  *)
(* that has a prerequisite.                                                *)
(***************************************************************************)

\* Where a policy that is wanted in RL may come from.
WantedInGroup == SameSwitchGroup(pending) \/ active = Prerequisite[pending]

PrerequisiteHasRun == active = Prerequisite[pending] /\ prereqTimer >= PrereqTicks

ReturnsToIt == returnAttempted /\ pending = Return[active]

\* In RL another policy is wanted only within the group or after its prerequisite, by a
\* handoff or by one that a refusal forgot, and one with a prerequisite only after that
\* or by a return.
HandoverInv ==
    /\ waiting => prereqTimer < PrereqTicks
    /\ pc = "poll" /\ hot /\ state = "RL" => ~fault.latched
    /\ state = "RL" /\ pending # active =>
        /\ WantedInGroup
        /\ hot \/ HandoffForgotten
        /\ Prerequisite[pending] # None => PrerequisiteHasRun \/ ReturnsToIt

handoverVars == <<active, pending, hot, waiting, prereqTimer, returnAttempted>>

\* Blocks that leave the handoff alone, and neither close the latch nor enter RL
\* before the handoff is looked at again.
LEMMA HandoverQuiet ==
    ASSUME \/ NoSelection \/ \E p \in Policies : RejectSelection(p)
           \/ AcknowledgeAny \/ KeepHandoff
           \/ \E m \in MonitoredFaults : ObserveFaults(m)
           \/ \E k \in Keys : ReceiveCommand(k)
           \/ PollNothing \/ DropPrepared \/ CollectLoaded
           \/ ForceSafety \/ BlockPowerOn
           \/ StartPreparation \/ SkipPreparation
           \/ StayInState \/ RunState \/ ReviewStateFault \/ NothingToSchedule
           \/ InferFault \/ PrepareDone \/ RetireDone \/ UNCHANGED vars
    PROVE  /\ UNCHANGED handoverVars
           /\ state' \in {state, "SAFETY"}
           /\ switchPhase = "REJECTED" => switchPhase' = "REJECTED"
           /\ pc' = "poll" => \/ KeepHandoff /\ UNCHANGED <<state, fault>>
                              \/ pc = "poll" /\ UNCHANGED <<state, fault>>
  <1> USE DEF handoverVars, chainVars, switchVars, policyVars, loadVars, faultVars,
              fsmVars, StatusIfPreparing
  <1>1. CASE NoSelection \/ \E p \in Policies : RejectSelection(p)
    BY <1>1 DEF NoSelection, RejectSelection, SelectUnchanged
  <1>2. CASE AcknowledgeAny \/ \E k \in Keys : ReceiveCommand(k)
    BY <1>2 DEF AcknowledgeAny, AcknowledgeFault, ReceiveCommand, HandoffUnasked,
                ReceiveUnchanged
  <1>3. CASE \E m \in MonitoredFaults : ObserveFaults(m)
    BY <1>3 DEF ObserveFaults
  <1>4. CASE KeepHandoff
    BY <1>4 DEF KeepHandoff, HandoffUnchanged
  <1>5. CASE PollNothing \/ DropPrepared \/ CollectLoaded
    BY <1>5 DEF PollNothing, DropPrepared, CollectLoaded, CollectUnchanged,
                PollUnchanged
  <1>6. CASE ForceSafety \/ BlockPowerOn
    BY <1>6 DEF ForceSafety, BlockPowerOn, ForceUnchanged, SwitchTo
  <1>7. CASE StartPreparation \/ SkipPreparation
    BY <1>7 DEF StartPreparation, SkipPreparation, PrepareUnchanged
  <1>8. CASE StayInState \/ RunState
    BY <1>8 DEF StayInState, FsmUnchanged, RunState, RunPowerOff, RunDamp, RunHome,
                RunZero, RunRl, RunSafety, RunUnchanged
  <1>9. CASE ReviewStateFault
    BY <1>9 DEF ReviewStateFault, SwitchTo
  <1>10. CASE NothingToSchedule
    BY <1>10 DEF NothingToSchedule, ChainUnchanged
  <1>11. CASE InferFault \/ PrepareDone \/ RetireDone \/ UNCHANGED vars
    BY <1>11 DEF InferFault, PrepareDone, RetireDone, BackgroundUnchanged, vars
  <1> QED
    BY <1>1, <1>2, <1>3, <1>4, <1>5, <1>6, <1>7, <1>8, <1>9, <1>10, <1>11

LEMMA InitHandover == Init => HandoverInv
  BY DEF Init, HandoverInv

\* An action is handed to, and back from, within the group of its owner.
LEMMA ActionHandover ==
    ASSUME TypeOK, CatalogueInv, NEW target \in Policies,
           StartActionHandoff(target), UNCHANGED <<active, state>>,
           actionOwner # None,
           target = actionOwner \/ target \in Actions[actionOwner],
           pc' # "poll"
    PROVE  HandoverInv'
  <1>1. /\ Group[target] = Group[actionOwner] /\ Group[actionOwner] # None
        /\ Prerequisite[target] = None
    BY ConfigAssumption DEF CatalogueInv, TypeOK, ActionType
  <1>2. Group[active] = Group[actionOwner]
    BY DEF CatalogueInv
  <1> QED
    BY <1>1, <1>2 DEF StartActionHandoff, HandoverInv, WantedInGroup, SameSwitchGroup

LEMMA SelectHandover ==
    ASSUME TypeOK, HandoverInv, NEW p \in Policies,
           SelectPolicy(p)
    PROVE  HandoverInv'
  <1>1. pc' = "ack" /\ UNCHANGED <<active, state>>
    BY DEF SelectPolicy, RejectSelection, ReselectActive, SelectDirect, SelectChained,
           SelectUnchanged, fsmVars
  <1>2. CASE RejectSelection(p)
    BY <1>1, <1>2, HandoverQuiet
       DEF HandoverInv, WantedInGroup, PrerequisiteHasRun, ReturnsToIt, SameSwitchGroup,
           HandoffForgotten, handoverVars
  <1>3. CASE ReselectActive(p)
    BY <1>1, <1>3 DEF ReselectActive, HandoverInv
  <1>4. state = "RL" /\ ~SelectionRefused(p) => HotRequest(p)
    BY DEF SelectionRefused
  <1>5. CASE SelectDirect(p)
    BY <1>1, <1>4, <1>5
       DEF SelectDirect, HotRequest, SameSwitchGroup, HandoverInv, WantedInGroup
  <1>6. CASE SelectChained(p)
    <2>1. CASE HotRequest(p) /\ ~SameSwitchGroup(Prerequisite[p])
      BY <1>1, <1>6, <2>1
         DEF SelectChained, SelectUnchanged, chainVars, HandoverInv, WantedInGroup,
             PrerequisiteHasRun, ReturnsToIt, SameSwitchGroup, HandoffForgotten,
             HotRequest, SelectionRefused
    <2>2. CASE ~(HotRequest(p) /\ ~SameSwitchGroup(Prerequisite[p]))
      <3>1. /\ hot' = HotRequest(p) /\ pending' = Prerequisite[p] /\ prereqTimer' = 0
            /\ ~SelectionRefused(p)
        BY <1>6, <2>2 DEF SelectChained
      <3>2. Prerequisite[Prerequisite[p]] = None
        BY <1>6, ConfigAssumption DEF SelectChained
      <3>3. prereqTimer' < PrereqTicks
        BY <3>1, BoundAssumption
      <3>4. state' = "RL" => hot' /\ SameSwitchGroup(pending)'
        BY <1>1, <1>4, <2>2, <3>1 DEF SameSwitchGroup
      <3> QED
        BY <1>1, <3>1, <3>2, <3>3, <3>4 DEF HandoverInv, WantedInGroup
    <2> QED
      BY <2>1, <2>2
  <1> QED
    BY <1>2, <1>3, <1>5, <1>6 DEF SelectPolicy

\* The chain turns to its last policy only when the prerequisite ran long enough.
LEMMA CountHandover ==
    ASSUME TypeOK, HandoverInv, CountPrerequisite
    PROVE  HandoverInv'
  <1> DEFINE chained == finalTarget # None /\ Prerequisite[finalTarget] # None
             t == IF chained /\ active = Prerequisite[finalTarget]
                  THEN prereqTimer + 1 ELSE prereqTimer
  <1>1. /\ pc' = "idle" /\ UNCHANGED <<active, state>> /\ prereqTimer' = t
        /\ waiting /\ pending = active
    BY DEF CountPrerequisite, ChainUnchanged, ChainRuns, RequestedPolicyReady, fsmVars
  <1>2. /\ prereqTimer \in Nat /\ prereqTimer < PrereqTicks /\ PrereqTicks \in Nat
        /\ finalTarget \in Policies \cup {None}
    BY <1>1, BoundAssumption DEF HandoverInv, TypeOK, HandoffType
  <1>3. CASE chained /\ PrereqDone(t)
    <2>1. active = Prerequisite[finalTarget] /\ t >= PrereqTicks
      BY <1>2, <1>3 DEF PrereqDone
    <2>2. pending' = finalTarget /\ ~waiting' /\ hot'
      BY <1>3 DEF CountPrerequisite
    <2> HIDE DEF chained, t
    <2> QED
      BY <1>1, <2>1, <2>2 DEF HandoverInv, WantedInGroup, PrerequisiteHasRun
  <1>4. CASE ~(chained /\ PrereqDone(t))
    <2>1. UNCHANGED <<pending, waiting, hot>>
      BY <1>4 DEF CountPrerequisite
    <2>2. t < PrereqTicks
      <3>1. CASE chained
        <4> HIDE DEF t
        <4>1. ~(t >= PrereqTicks)
          BY <1>4, <3>1 DEF PrereqDone
        <4>2. t \in Nat
          BY <1>2 DEF t
        <4> QED
          BY <1>2, <4>1, <4>2
      <3>2. CASE ~chained
        BY <1>2, <3>2
      <3> QED
        BY <3>1, <3>2
    <2> HIDE DEF chained, t
    <2> QED
      BY <1>1, <2>1, <2>2 DEF HandoverInv
  <1> QED
    BY <1>3, <1>4

LEMMA InstallHandover ==
    ASSUME TypeOK, HandoverInv, InstallPrepared
    PROVE  HandoverInv'
  <1>1. /\ pc' = "force" /\ state' = state /\ active' = pending
        /\ pending' = pending /\ hot' = (hot /\ waiting) /\ waiting' = waiting
        /\ prereqTimer' = 0
    BY DEF InstallPrepared, PollUnchanged
  <1>2. prereqTimer' < PrereqTicks
    BY <1>1, BoundAssumption
  <1> QED
    BY <1>1, <1>2 DEF HandoverInv

LEMMA NextHandover ==
    TypeOK /\ LockInv /\ CatalogueInv /\ HandoverInv /\ [Next]_vars => HandoverInv'
  <1> SUFFICES ASSUME TypeOK, LockInv, CatalogueInv, HandoverInv, [Next]_vars
               PROVE  HandoverInv'
    OBVIOUS
  <1>1. CASE \/ NoSelection \/ \E p \in Policies : RejectSelection(p)
             \/ AcknowledgeAny \/ KeepHandoff
             \/ \E m \in MonitoredFaults : ObserveFaults(m)
             \/ \E k \in Keys : ReceiveCommand(k)
             \/ PollNothing \/ DropPrepared \/ CollectLoaded
             \/ ForceSafety \/ BlockPowerOn
             \/ StartPreparation \/ SkipPreparation
             \/ StayInState \/ RunState \/ ReviewStateFault \/ NothingToSchedule
             \/ InferFault \/ PrepareDone \/ RetireDone \/ UNCHANGED vars
    <2>1. KeepHandoff => ~MustCancelHandoff
      BY DEF KeepHandoff
    <2> QED
      BY <1>1, <2>1, HandoverQuiet
         DEF HandoverInv, WantedInGroup, PrerequisiteHasRun, ReturnsToIt,
             SameSwitchGroup, HandoffForgotten, handoverVars, MustCancelHandoff
  <1>2. ASSUME NEW k \in Keys, NEW c \in Policies, ReceiveStart(k, c)
        PROVE  HandoverInv'
    <2>1. /\ pc' = "select" /\ UNCHANGED <<active, state, prereqTimer, returnAttempted>>
          /\ switchPhase' = switchPhase /\ actionOwner # None
      BY <1>2 DEF ReceiveStart, ReceiveUnchanged, fsmVars
    <2>2. \/ StartActionHandoff(c) /\ c \in Actions[actionOwner]
          \/ HandoffUnasked
      BY <1>2 DEF ReceiveStart
    <2>3. CASE StartActionHandoff(c) /\ c \in Actions[actionOwner]
      BY <2>1, <2>3, ActionHandover
    <2>4. CASE HandoffUnasked
      BY <2>1, <2>4
         DEF HandoffUnasked, HandoverInv, WantedInGroup, PrerequisiteHasRun,
             ReturnsToIt, SameSwitchGroup, HandoffForgotten
    <2> QED
      BY <2>2, <2>3, <2>4
  <1>3. ASSUME NEW k \in Keys, ReceiveCancel(k) PROVE HandoverInv'
    <2>1. /\ pc' = "select" /\ UNCHANGED <<active, state, prereqTimer, returnAttempted>>
          /\ switchPhase' = switchPhase /\ actionOwner # None /\ actionOwner \in Policies
      BY <1>3 DEF ReceiveCancel, ReceiveUnchanged, fsmVars, TypeOK, ActionType
    <2>2. StartActionHandoff(actionOwner) \/ HandoffUnasked
      BY <1>3 DEF ReceiveCancel
    <2>3. CASE StartActionHandoff(actionOwner)
      BY <2>1, <2>3, ActionHandover
    <2>4. CASE HandoffUnasked
      BY <2>1, <2>4
         DEF HandoffUnasked, HandoverInv, WantedInGroup, PrerequisiteHasRun,
             ReturnsToIt, SameSwitchGroup, HandoffForgotten
    <2> QED
      BY <2>2, <2>3, <2>4
  <1>4. ASSUME NEW p \in Policies, SelectPolicy(p) PROVE HandoverInv'
    BY <1>4, SelectHandover
  <1>5. CASE CancelHandoff \/ CollectLost
    <2>1. /\ pending' = active /\ active' = active /\ ~hot'
          /\ waiting' => waiting /\ prereqTimer' = prereqTimer
      BY <1>5 DEF CancelHandoff, HandoffUnchanged, RetainActivePolicy, CollectLost,
                  CollectUnchanged
    <2> QED
      BY <2>1 DEF HandoverInv
  <1>6. CASE CollectFailed \/ FailPreparation
    <2>1. /\ UNCHANGED <<active, state, prereqTimer, returnAttempted>>
          /\ switchPhase = "REJECTED" => switchPhase' = "REJECTED"
          /\ pc' # "poll"
      BY <1>6 DEF CollectFailed, CollectUnchanged, PollUnchanged, FailPreparation,
                  PrepareUnchanged, fsmVars, StatusIfPreparing
    <2>2. RetainActivePolicy \/ UNCHANGED <<pending, hot, waiting>>
      BY <1>6 DEF CollectFailed, FailPreparation
    <2>3. CASE RetainActivePolicy
      BY <2>1, <2>3 DEF RetainActivePolicy, HandoverInv
    <2>4. CASE UNCHANGED <<pending, hot, waiting>>
      BY <2>1, <2>4
         DEF HandoverInv, WantedInGroup, PrerequisiteHasRun, ReturnsToIt, SameSwitchGroup,
             HandoffForgotten
    <2> QED
      BY <2>2, <2>3, <2>4
  <1>7. CASE InstallPrepared
    BY <1>7, InstallHandover
  <1>8. CASE ChangeState
    <2>1. /\ pc = "fsm" /\ pc' = "run" /\ UNCHANGED <<handoverVars, switchPhase>>
          /\ state' = CheckTransition
      BY <1>8 DEF ChangeState, FsmUnchanged, SwitchTo, policyVars, chainVars,
                  switchVars, handoverVars
    <2>2. state' = "RL" => pending = active \/ state = "RL"
      <3>1. state' = "RL" => state \in {"RL", "ZERO"}
        BY <2>1 DEF CheckTransition, PowerOffTransition, DampTransition,
                    HomeTransition, ZeroTransition, SafetyTransition, TypeOK, FsmType,
                    States
      <3> QED
        BY <3>1 DEF LockInv, PolicyLocked, RequestedPolicyReady
    <2> QED
      BY <2>1, <2>2
         DEF HandoverInv, handoverVars, WantedInGroup, PrerequisiteHasRun, ReturnsToIt,
             SameSwitchGroup, HandoffForgotten
  <1>9. CASE LeaveRl
    <2>1. /\ state # "RL" /\ state' = state /\ pc' = "idle" /\ active' = active
          /\ waiting' => waiting /\ prereqTimer' = prereqTimer
          /\ hot' => hot /\ pending' = pending
      BY <1>9 DEF LeaveRl, ChainUnchanged, RlWasLeft, fsmVars, chainVars
    <2> QED
      BY <2>1 DEF HandoverInv
  <1>10. CASE CountPrerequisite
    BY <1>10, CountHandover
  <1>11. CASE ReturnFromMotion
    <2>1. /\ pc' = "idle" /\ UNCHANGED <<active, state, prereqTimer>>
      BY <1>11 DEF ReturnFromMotion, ChainUnchanged, fsmVars, chainVars
    <2>2. CASE actionOwner # None /\ active # actionOwner
      BY <1>11, <2>1, <2>2, ActionHandover DEF ReturnFromMotion, TypeOK, ActionType
    <2>3. CASE ~(actionOwner # None /\ active # actionOwner)
      <3>1. /\ Return[active] # None /\ pending' = Return[active] /\ hot'
            /\ UNCHANGED waiting /\ returnAttempted'
        BY <1>11, <2>3 DEF ReturnFromMotion, chainVars
      <3>2. Group[active] # None /\ Group[Return[active]] = Group[active]
        BY <3>1, ConfigAssumption DEF TypeOK, LoadType
      <3> QED
        BY <2>1, <3>1, <3>2 DEF HandoverInv, WantedInGroup, SameSwitchGroup, ReturnsToIt
    <2> QED
      BY <2>2, <2>3
  <1> QED
    BY <1>1, <1>2, <1>3, <1>4, <1>5, <1>6, <1>7, <1>8, <1>9, <1>10, <1>11
       DEF Next, Control, ReceiveAny, SelectAny, PollPolicyPreparation,
           PreparePolicy, ScheduleChain

\* Only the installation of a prepared policy replaces the one that runs.
LEMMA OnlyInstallReplaces ==
    TypeOK /\ [Next]_vars /\ active' # active => InstallPrepared
  <1> SUFFICES ASSUME TypeOK, [Next]_vars, active' # active, ~InstallPrepared
               PROVE  FALSE
    OBVIOUS
  <1>1. CASE UNCHANGED <<prevState, catalogueVars>>
    BY <1>1 DEF catalogueVars
  <1>2. CASE ReceiveAny
    BY <1>2 DEF ReceiveAny, ReceiveCommand, ReceiveStart, ReceiveCancel,
                ReceiveUnchanged
  <1>3. CASE CancelHandoff \/ CollectFailed \/ FailPreparation \/ ScheduleChain
    BY <1>3 DEF CancelHandoff, HandoffUnchanged, CollectFailed, CollectUnchanged,
                FailPreparation, PrepareUnchanged, ScheduleChain, LeaveRl,
                CountPrerequisite, ReturnFromMotion, NothingToSchedule, ChainUnchanged
  <1>4. CASE SelectAny
    BY <1>4 DEF SelectAny, SelectPolicy, NoSelection, RejectSelection, ReselectActive,
                SelectDirect, SelectChained, SelectUnchanged
  <1> QED
    BY <1>1, <1>2, <1>3, <1>4, CatalogueQuiet
       DEF Next, Control, PollPolicyPreparation, PreparePolicy

\* The facts of an installation that the two theorems need.
LEMMA InstallIsWanted ==
    ASSUME TypeOK, LockInv, HandoverInv, InstallPrepared, active' # active
    PROVE  /\ active' = pending /\ pending # active
           /\ state \notin {"HOME", "ZERO"}
           /\ state = "RL" => (hot /\ ~fault.latched) \/ HandoffForgotten
  <1>1. pc = "poll" /\ prepared # None /\ prepared = pending /\ active' = prepared
    BY DEF InstallPrepared, PollUnchanged
  <1>2. state \notin {"HOME", "ZERO"}
    BY <1>1 DEF LockInv, PolicyLocked, RequestedPolicyReady
  <1> QED
    BY <1>1, <1>2 DEF HandoverInv

LEMMA Handovers == Spec => [](TypeOK /\ LockInv /\ HandoverInv)
  <1>1. Inv => TypeOK
    BY DEF Inv
  <1>2. LockInv => CycleInv
    BY DEF LockInv
  <1> QED
    BY <1>1, <1>2, InitLock, NextLock, InitCatalogue, NextCatalogue, InitHandover,
       NextHandover, Invariance, PTL DEF Spec

\* Whatever is requested, cancelled or finished, in whatever order and configuration:
\* in RL a policy is replaced by one of its group or one it is the prerequisite of,
\* by a handoff with no fault latched unless a refused request forgot it.
THEOREM RunningPolicyKept == Spec => RunningPolicyIsHandedOver
  <1>1. TypeOK /\ LockInv /\ HandoverInv /\ [Next]_vars =>
          [active' # active =>
             /\ state \notin {"HOME", "ZERO"}
             /\ state = "RL" => \/ SameSwitchGroup(active')
                                \/ active = Prerequisite[active']
             /\ state = "RL" => (hot /\ ~fault.latched) \/ HandoffForgotten]_vars
    <2> SUFFICES ASSUME TypeOK, LockInv, HandoverInv, [Next]_vars, active' # active
                 PROVE  /\ state \notin {"HOME", "ZERO"}
                        /\ state = "RL" => \/ SameSwitchGroup(active')
                                           \/ active = Prerequisite[active']
                        /\ state = "RL" => (hot /\ ~fault.latched) \/ HandoffForgotten
      OBVIOUS
    <2> QED
      BY OnlyInstallReplaces, InstallIsWanted
         DEF HandoverInv, WantedInGroup, SameSwitchGroup
  <1> QED
    BY <1>1, Handovers, PTL DEF Spec, RunningPolicyIsHandedOver

\* No way through requests, handoffs and actions runs a policy in RL before the one it
\* has to follow ran for the configured time; only a return it is configured for does.
THEOREM PrerequisiteRan == Spec => PrerequisiteRunsFirst
  <1>1. TypeOK /\ LockInv /\ HandoverInv /\ [Next]_vars =>
          [state = "RL" /\ active' # active /\ Prerequisite[active'] # None =>
             \/ active = Prerequisite[active'] /\ prereqTimer >= PrereqTicks
             \/ returnAttempted /\ active' = Return[active]]_vars
    BY OnlyInstallReplaces, InstallIsWanted
       DEF HandoverInv, PrerequisiteHasRun, ReturnsToIt
  <1> QED
    BY <1>1, Handovers, PTL DEF Spec, PrerequisiteRunsFirst

=============================================================================
