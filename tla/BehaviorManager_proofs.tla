------------------------ MODULE BehaviorManager_proofs ------------------------
(***************************************************************************)
(* Proofs about BehaviorManager, for every value of its constants.         *)
(***************************************************************************)
EXTENDS BehaviorManager, TLAPS

LEMMA NoFaultType == NoFault \in FaultStatus
  BY DEF NoFault, FaultStatus, FaultCodes

LEMMA MakeFaultType ==
    \A code \in {"invalid", "limit", "policy"} : MakeFault(code) \in FaultStatus
  BY DEF MakeFault, FaultStatus, FaultCodes

\* The groups of TypeOK that an action leaves alone.
LEMMA SameType ==
    /\ InputType /\ UNCHANGED inputVars => InputType'
    /\ FaultType /\ UNCHANGED faultVars => FaultType'
    /\ FsmType /\ UNCHANGED <<fsmVars, prevState, rlVars>> => FsmType'
    /\ ActionType /\ UNCHANGED actionVars => ActionType'
  <1>1. InputType /\ UNCHANGED inputVars => InputType'
    BY DEF InputType, inputVars
  <1>2. FaultType /\ UNCHANGED faultVars => FaultType'
    BY DEF FaultType, faultVars
  <1>3. FsmType /\ UNCHANGED <<fsmVars, prevState, rlVars>> => FsmType'
    BY DEF FsmType, fsmVars, rlVars
  <1>4. ActionType /\ UNCHANGED actionVars => ActionType'
    BY DEF ActionType, actionVars
  <1> QED
    BY <1>1, <1>2, <1>3, <1>4

\* A catalogue stays well formed when its action ends or is abandoned.
LEMMA FinishType ==
    ASSUME ActionType, NEW accepted \in BOOLEAN, FinishPolicyAction(accepted)
    PROVE  ActionType'
  BY DEF ActionType, FinishPolicyAction

LEMMA AbandonType ==
    ASSUME ActionType, NEW p, AbandonAction(p)
    PROVE  ActionType'
  BY FinishType, SameType DEF AbandonAction

LEMMA ReceiveType == TypeOK /\ ReceiveAny => TypeOK'
  <1> SUFFICES ASSUME TypeOK, ReceiveAny PROVE TypeOK'
    OBVIOUS
  <1>1. ASSUME NEW k \in Keys, ReceiveUnchanged, key' = k, pc' = "select"
        PROVE  /\ InputType' /\ FaultType' /\ FsmType'
               /\ pending' \in Policies /\ prepFailed' \in BOOLEAN => LoadType'
               /\ hot' \in BOOLEAN /\ switchAge' \in Nat /\ waiting' \in BOOLEAN
                  /\ finalTarget' \in Policies \cup {None} => HandoffType'
    BY <1>1, SameType DEF ReceiveUnchanged, TypeOK, InputType, LoadType, HandoffType
  <1>2. ASSUME NEW t \in Policies, StartActionHandoff(t)
        PROVE  /\ pending' \in Policies /\ prepFailed' \in BOOLEAN
               /\ hot' \in BOOLEAN /\ switchAge' \in Nat /\ waiting' \in BOOLEAN
               /\ finalTarget' \in Policies \cup {None}
    BY <1>2 DEF StartActionHandoff
  <1>3. ASSUME HandoffUnasked
        PROVE  /\ pending' \in Policies /\ prepFailed' \in BOOLEAN
               /\ hot' \in BOOLEAN /\ switchAge' \in Nat /\ waiting' \in BOOLEAN
               /\ finalTarget' \in Policies \cup {None}
    BY <1>3 DEF HandoffUnasked, TypeOK, LoadType, HandoffType
  <1>4. ASSUME NEW k \in Keys, ReceiveCommand(k) PROVE TypeOK'
    BY <1>1, <1>3, <1>4, SameType DEF ReceiveCommand, TypeOK
  <1>5. ASSUME NEW k \in Keys, ReceiveCancel(k) PROVE TypeOK'
    <2>1. CASE CanRunAction(k) /\ pending \in {active, actionTarget, actionOwner}
      <3>1. StartActionHandoff(actionOwner) /\ actionOwner \in Policies
        BY <1>5, <2>1 DEF ReceiveCancel, TypeOK, ActionType
      <3>2. ActionType'
        BY <1>5, <2>1, FinishType DEF ReceiveCancel, TypeOK, ActionType
      <3> QED
        BY <1>1, <1>2, <1>5, <3>1, <3>2 DEF ReceiveCancel, TypeOK
    <2>2. CASE ~(CanRunAction(k) /\ pending \in {active, actionTarget, actionOwner})
      <3>1. ActionType'
        BY <1>5, <2>2 DEF ReceiveCancel, TypeOK, ActionType
      <3> QED
        BY <1>1, <1>3, <1>5, <2>2, <3>1 DEF ReceiveCancel, TypeOK
    <2> QED
      BY <2>1, <2>2
  <1>6. ASSUME NEW k \in Keys, NEW c \in Policies, ReceiveStart(k, c) PROVE TypeOK'
    <2>1. ActionType'
      BY <1>6 DEF ReceiveStart, TypeOK, ActionType
    <2>2. StartActionHandoff(c) \/ HandoffUnasked
      BY <1>6 DEF ReceiveStart
    <2> QED
      BY <1>1, <1>2, <1>3, <1>6, <2>1, <2>2 DEF ReceiveStart, TypeOK
  <1> QED
    BY <1>4, <1>5, <1>6 DEF ReceiveAny

LEMMA SelectType == TypeOK /\ SelectAny => TypeOK'
  <1> SUFFICES ASSUME TypeOK, SelectAny PROVE TypeOK'
    OBVIOUS
  <1>1. ASSUME SelectUnchanged
        PROVE  /\ pc' = "ack" /\ InputType' /\ FaultType' /\ FsmType'
               /\ pending' \in Policies /\ prepFailed' \in BOOLEAN => LoadType'
    BY <1>1, SameType DEF SelectUnchanged, TypeOK, LoadType
  <1>2. ASSUME SelectUnchanged,
               UNCHANGED <<pending, hot, switchAge, prepFailed, chainVars, actionVars>>,
               switchPhase' \in {switchPhase, "REJECTED"}
        PROVE  TypeOK'
    BY <1>1, <1>2, SameType
       DEF SelectUnchanged, TypeOK, LoadType, HandoffType, chainVars
  <1>3. CASE NoSelection
    BY <1>2, <1>3 DEF NoSelection
  <1>4. ASSUME NEW p \in Policies, RejectSelection(p) PROVE TypeOK'
    BY <1>2, <1>4 DEF RejectSelection
  <1>5. ASSUME NEW p \in Policies, ReselectActive(p) PROVE TypeOK'
    <2>1. ActionType'
      BY <1>5, SameType, FinishType DEF ReselectActive, TypeOK
    <2>2. HandoffType' /\ LoadType'
      BY <1>1, <1>5 DEF ReselectActive, SelectUnchanged, TypeOK, LoadType, HandoffType
    <2> QED
      BY <1>1, <1>5, <2>1, <2>2 DEF ReselectActive, TypeOK
  <1>6. ASSUME NEW p \in Policies, SelectDirect(p) PROVE TypeOK'
    <2>1. HandoffType'
      BY <1>6 DEF SelectDirect, SelectUnchanged, TypeOK, HandoffType, HotRequest
    <2> QED
      BY <1>1, <1>6, <2>1, SameType DEF SelectDirect, TypeOK
  <1>7. ASSUME NEW p \in Policies, SelectChained(p) PROVE TypeOK'
    <2>1. Prerequisite[p] \in Policies
      BY <1>7, PolicyAssumption DEF SelectChained
    <2>2. HandoffType'
      <3>1. /\ switchPhase' \in {"PREPARING", "REJECTED"}
            /\ switchAge' = 0
            /\ finalTarget' \in {p, finalTarget}
            /\ prereqTimer' \in {0, prereqTimer}
        BY <1>7 DEF SelectChained, chainVars
      <3>2. hot' \in BOOLEAN /\ waiting' \in BOOLEAN
        BY <1>7 DEF SelectChained, chainVars, HotRequest, TypeOK, HandoffType
      <3>3. returnAttempted' = returnAttempted
        BY <1>7 DEF SelectChained, SelectUnchanged
      <3> QED
        BY <3>1, <3>2, <3>3 DEF TypeOK, HandoffType
    <2>3. LoadType'
      BY <1>1, <1>7, <2>1 DEF SelectChained, TypeOK, LoadType
    <2> QED
      BY <1>1, <1>7, <2>2, <2>3, SameType DEF SelectChained, TypeOK
  <1> QED
    BY <1>3, <1>4, <1>5, <1>6, <1>7 DEF SelectAny, SelectPolicy

\* The four groups that belong to the policies, untouched.
LEMMA SamePolicies ==
    ASSUME LoadType, HandoffType, ActionType, UNCHANGED policyVars
    PROVE  LoadType' /\ HandoffType' /\ ActionType'
  BY SameType DEF LoadType, HandoffType, policyVars, loadVars, chainVars, switchVars

LEMMA AcknowledgeType == TypeOK /\ AcknowledgeAny => TypeOK'
  <1> SUFFICES ASSUME TypeOK,
                      NEW sf \in SensorFaults \cup {NoFault}, NEW seq \in 0 .. faultSeq,
                      AcknowledgeFault(sf, seq)
               PROVE  TypeOK'
    BY DEF AcknowledgeAny
  <1>1. sf \in FaultStatus
    BY NoFaultType, InputAssumption
  <1>2. seq \in Nat
    BY DEF TypeOK, FaultType
  <1>3. InputType'
    BY <1>1 DEF AcknowledgeFault, TypeOK, InputType
  <1>4. FaultType'
    <2>1. <<sf.seq, sf.code>> \in Nat \X FaultCodes
      BY <1>1 DEF FaultStatus
    <2> QED
      BY <1>2, <2>1, NoFaultType DEF AcknowledgeFault, TypeOK, FaultType
  <1>5. FsmType' /\ LoadType' /\ HandoffType' /\ ActionType'
    BY SameType, SamePolicies DEF AcknowledgeFault, TypeOK
  <1> QED
    BY <1>3, <1>4, <1>5 DEF AcknowledgeFault, TypeOK

\* A set of slots has an earliest one.
LEMMA EarliestType ==
    ASSUME NEW S \in SUBSET (1 .. 4), S # {}
    PROVE  Earliest(S) \in S
  <1>1. \E i \in S : \A j \in S : i <= j
    <2>1. CASE 1 \in S
      BY <2>1
    <2>2. CASE 1 \notin S /\ 2 \in S
      <3>1. \A j \in S : 2 <= j
        BY <2>2
      <3> QED
        BY <2>2, <3>1
    <2>3. CASE 1 \notin S /\ 2 \notin S /\ 3 \in S
      <3>1. \A j \in S : 3 <= j
        BY <2>3
      <3> QED
        BY <2>3, <3>1
    <2>4. CASE 1 \notin S /\ 2 \notin S /\ 3 \notin S
      <3>1. \A i \in S : i = 4
        BY <2>4
      <3>2. 4 \in S
        BY <3>1
      <3> QED
        BY <3>1, <3>2
    <2> QED
      BY <2>1, <2>2, <2>3, <2>4
  <1> QED
    BY <1>1 DEF Earliest

\* The latch takes over one of the observations, notes that its fault has
\* gone, or keeps what it has.
LEMMA ResolveCases ==
    ASSUME NEW n \in 1 .. 4, NEW obs \in [1 .. n -> FaultStatus], Resolve(obs)
    PROVE  \/ UNCHANGED <<fault, observedSeq, faultSeq>>
           \/ \E i \in 1 .. n : LatchFault(obs[i])
           \/ /\ fault' = [fault EXCEPT !.active = FALSE]
              /\ UNCHANGED <<observedSeq, faultSeq>>
  <1>1. ASSUME NEW S \in SUBSET (1 .. n), S # {}
        PROVE  Earliest(S) \in 1 .. n
    <2>1. S \in SUBSET (1 .. 4)
      OBVIOUS
    <2>2. Earliest(S) \in S
      BY <1>1, <2>1, EarliestType
    <2> QED
      BY <2>2
  <1>2. ActiveSlots(obs) \in SUBSET (1 .. n) /\ LatchedSlots(obs) \in SUBSET (1 .. n)
    BY DEF ActiveSlots, LatchedSlots
  <1>3. CASE LatchFault(obs[Earliest(ActiveSlots(obs))]) /\ ActiveSlots(obs) # {}
    BY <1>1, <1>2, <1>3
  <1>4. CASE LatchFault(obs[Earliest(LatchedSlots(obs))]) /\ LatchedSlots(obs) # {}
    BY <1>1, <1>2, <1>4
  <1> QED
    BY <1>3, <1>4 DEF Resolve

LEMMA ResolveType ==
    ASSUME NEW n \in 1 .. 4, NEW obs \in [1 .. n -> FaultStatus], FaultType,
           Resolve(obs)
    PROVE  fault' \in FaultStatus /\ observedSeq' \in Nat /\ faultSeq' \in Nat
  <1>1. ASSUME NEW f \in FaultStatus, LatchFault(f)
        PROVE  fault' \in FaultStatus /\ observedSeq' \in Nat /\ faultSeq' \in Nat
    <2>1. f.seq \in Nat /\ faultSeq + 1 \in Nat
      BY DEF FaultType, FaultStatus
    <2>2. [f EXCEPT !.latched = TRUE, !.seq = faultSeq + 1] \in FaultStatus
      BY <2>1 DEF FaultStatus
    <2> QED
      BY <1>1, <2>1, <2>2 DEF LatchFault
  <1>2. [fault EXCEPT !.active = FALSE] \in FaultStatus
    BY DEF FaultType, FaultStatus
  <1>3. \A i \in 1 .. n : obs[i] \in FaultStatus
    OBVIOUS
  <1>4. CASE \E i \in 1 .. n : LatchFault(obs[i])
    BY <1>1, <1>3, <1>4
  <1>5. CASE UNCHANGED <<fault, observedSeq, faultSeq>>
    BY <1>5 DEF FaultType
  <1>6. CASE /\ fault' = [fault EXCEPT !.active = FALSE]
             /\ UNCHANGED <<observedSeq, faultSeq>>
    BY <1>2, <1>6 DEF FaultType
  <1> QED
    BY <1>4, <1>5, <1>6, ResolveCases

LEMMA ObserveType ==
    ASSUME TypeOK, NEW m \in MonitoredFaults, ObserveFaults(m)
    PROVE  TypeOK'
  <1>1. m \in FaultStatus /\ StateFault \in FaultStatus
    BY NoFaultType, MakeFaultType, InputAssumption DEF MonitoredFaults, StateFault
  <1>2. ReportedFault \in FaultStatus
    BY NoFaultType DEF ReportedFault, TypeOK, InputType
  <1> DEFINE obs == <<ReportedFault, m, StateFault>>
  <1>3. obs \in [1 .. 3 -> FaultStatus]
    BY <1>1, <1>2
  <1>4. <<ReportedFault, m, StateFault, NoFault>> \in [1 .. 4 -> FaultStatus]
    BY <1>1, <1>2, NoFaultType
  <1>5. InputType'
    BY <1>4, NoFaultType DEF ObserveFaults, TypeOK, InputType
  <1>6. Resolve(obs)
    BY DEF ObserveFaults
  <1>7. fault' \in FaultStatus /\ observedSeq' \in Nat /\ faultSeq' \in Nat
    <2> HIDE DEF obs
    <2> QED
      BY <1>3, <1>6, ResolveType DEF TypeOK
  <1>8. acked' \in Nat \X FaultCodes
    BY DEF ObserveFaults, TypeOK, FaultType, FaultCodes
  <1>9. FaultType'
    BY <1>7, <1>8 DEF ObserveFaults, TypeOK, FaultType
  <1>10. FsmType' /\ LoadType' /\ HandoffType' /\ ActionType'
    BY SameType, SamePolicies DEF ObserveFaults, TypeOK
  <1> QED
    BY <1>5, <1>9, <1>10 DEF ObserveFaults, TypeOK

LEMMA HandoffActionType == TypeOK /\ (CancelHandoff \/ KeepHandoff) => TypeOK'
  <1> SUFFICES ASSUME TypeOK, CancelHandoff \/ KeepHandoff PROVE TypeOK'
    OBVIOUS
  <1>1. ASSUME HandoffUnchanged, pending' \in {pending, active}
        PROVE  /\ pc' = "poll"
               /\ InputType' /\ FaultType' /\ FsmType' /\ LoadType'
    BY <1>1, SameType DEF HandoffUnchanged, TypeOK, LoadType, loadVars
  <1>2. CASE CancelHandoff
    <2>1. ActionType'
      BY <1>2, AbandonType DEF CancelHandoff, TypeOK
    <2>2. HandoffType'
      BY <1>2 DEF CancelHandoff, RetainActivePolicy, StatusIfPreparing,
                  HandoffUnchanged, TypeOK, HandoffType
    <2> QED
      BY <1>1, <1>2, <2>1, <2>2 DEF CancelHandoff, RetainActivePolicy, TypeOK
  <1>3. CASE KeepHandoff
    <2>1. HandoffType'
      BY <1>3 DEF KeepHandoff, HandoffUnchanged, TypeOK, HandoffType
    <2> QED
      BY <1>1, <1>3, <2>1, SameType DEF KeepHandoff, TypeOK
  <1> QED
    BY <1>2, <1>3

LEMMA InstalledActionType ==
    ASSUME ActionType, NEW p \in Policies, InstalledAction(p)
    PROVE  ActionType'
  <1>1. CASE p = actionOwner
    BY <1>1, FinishType, SameType DEF InstalledAction
  <1>2. CASE p # actionOwner
    BY <1>2 DEF InstalledAction, ActionType
  <1> QED
    BY <1>1, <1>2

LEMMA PollType == TypeOK /\ PollPolicyPreparation => TypeOK'
  <1> SUFFICES ASSUME TypeOK, PollPolicyPreparation PROVE TypeOK'
    OBVIOUS
  <1>1. PollUnchanged
    BY DEF PollPolicyPreparation, PollNothing, DropPrepared, InstallPrepared,
           CollectUnchanged, CollectLost, CollectLoaded, CollectFailed
  <1>2. pc' = "force" /\ InputType' /\ FaultType' /\ prevState' \in States
    BY <1>1, SameType DEF PollUnchanged, TypeOK, FsmType
  <1>3. UNCHANGED <<fsmVars, rlVars>> => FsmType'
    BY <1>1, SameType DEF PollUnchanged, TypeOK
  <1>4. CASE PollNothing
    BY <1>2, <1>3, <1>4, SamePolicies DEF PollNothing, TypeOK
  <1>5. CASE DropPrepared
    <2>1. LoadType' /\ HandoffType'
      BY <1>5 DEF DropPrepared, RetirePolicy, TypeOK, LoadType, HandoffType,
                  chainVars, switchVars
    <2> QED
      BY <1>2, <1>3, <1>5, <2>1, SameType DEF DropPrepared, TypeOK
  <1>6. CASE InstallPrepared
    <2>1. prepared \in Policies
      BY <1>6 DEF InstallPrepared, TypeOK, LoadType
    <2>2. ActionType'
      BY <1>6, <2>1, InstalledActionType DEF InstallPrepared, TypeOK
    <2>3. LoadType'
      <3>1. /\ active' \in Policies /\ ready' \in BOOLEAN
            /\ prepared' = None /\ prepFailed' \in BOOLEAN
            /\ UNCHANGED <<pending, preparing, loaded>>
        BY <1>6, <2>1 DEF InstallPrepared
      <3>2. retired' \in Nat
        BY <1>6 DEF InstallPrepared, RetirePolicy, TypeOK, LoadType
      <3> QED
        BY <3>1, <3>2 DEF TypeOK, LoadType
    <2>4. HandoffType'
      BY <1>6 DEF InstallPrepared, TypeOK, HandoffType
    <2>5. FsmType'
      BY <1>2, <1>6 DEF InstallPrepared, TypeOK, FsmType
    <2> QED
      BY <1>2, <2>2, <2>3, <2>4, <2>5 DEF TypeOK
  <1>7. ASSUME CollectUnchanged
        PROVE  /\ FsmType'
               /\ /\ pending' \in Policies /\ prepared' \in Policies \cup {None}
                  /\ prepFailed' \in BOOLEAN /\ retired' \in Nat
                  => LoadType'
    BY <1>3, <1>7 DEF CollectUnchanged, TypeOK, LoadType
  <1>8. CASE CollectLost
    <2>1. LoadType'
      BY <1>7, <1>8 DEF CollectLost, RetirePolicy, TypeOK, LoadType
    <2>2. HandoffType'
      BY <1>8 DEF CollectLost, CollectUnchanged, StatusIfPreparing, TypeOK,
                  HandoffType
    <2> QED
      BY <1>2, <1>7, <1>8, <2>1, <2>2, SameType DEF CollectLost, TypeOK
  <1>9. CASE CollectLoaded
    <2>1. preparing \in Policies
      BY <1>9 DEF CollectLoaded, TypeOK, LoadType
    <2>2. LoadType'
      BY <1>7, <1>9, <2>1 DEF CollectLoaded, RetirePolicy, TypeOK, LoadType
    <2>3. HandoffType'
      BY <1>9 DEF CollectLoaded, CollectUnchanged, TypeOK, HandoffType
    <2> QED
      BY <1>2, <1>7, <1>9, <2>2, <2>3, SameType DEF CollectLoaded, TypeOK
  <1>10. CASE CollectFailed
    <2>1. ActionType'
      BY <1>10, AbandonType, SameType DEF CollectFailed, TypeOK
    <2>2. pending' \in {pending, active} /\ prepFailed' \in BOOLEAN
      BY <1>10 DEF CollectFailed, RetainActivePolicy, TypeOK, LoadType
    <2>3. LoadType'
      BY <1>7, <1>10, <2>2 DEF CollectFailed, TypeOK, LoadType
    <2>4. HandoffType'
      <3>1. /\ hot' \in BOOLEAN /\ waiting' \in BOOLEAN
            /\ switchAge' \in {0, switchAge}
            /\ finalTarget' \in {None, finalTarget}
        BY <1>10 DEF CollectFailed, RetainActivePolicy, TypeOK, HandoffType
      <3>2. switchPhase' \in {switchPhase, "FAILED"}
        BY <1>10 DEF CollectFailed, StatusIfPreparing
      <3>3. UNCHANGED <<prereqTimer, returnAttempted>>
        BY <1>10 DEF CollectFailed, CollectUnchanged
      <3> QED
        BY <3>1, <3>2, <3>3 DEF TypeOK, HandoffType
    <2> QED
      BY <1>2, <1>7, <1>10, <2>1, <2>3, <2>4 DEF CollectFailed, TypeOK
  <1> QED
    BY <1>4, <1>5, <1>6, <1>8, <1>9, <1>10 DEF PollPolicyPreparation

\* Entering a state leaves the FSM well formed.
LEMMA SwitchToType ==
    ASSUME FsmType, NEW s \in States, NEW f, SwitchTo(s, f), UNCHANGED prevState
    PROVE  FsmType'
  <1>1. /\ state' \in States /\ prevState' \in States
        /\ finished' \in BOOLEAN /\ timer' \in Nat
        /\ rlFault' \in BOOLEAN
    BY DEF SwitchTo, FsmType
  <1>2. canRamp' \in BOOLEAN
    BY DEF SwitchTo
  <1>3. enable' \in BOOLEAN
    BY <1>2 DEF SwitchTo, OnEnterEnable, FsmType, States
  <1>4. rlPrepared' \in BOOLEAN
    BY DEF SwitchTo
  <1> QED
    BY <1>1, <1>2, <1>3, <1>4 DEF FsmType

LEMMA ForceType == TypeOK /\ (ForceSafety \/ BlockPowerOn) => TypeOK'
  <1> SUFFICES ASSUME TypeOK, ForceSafety \/ BlockPowerOn PROVE TypeOK'
    OBVIOUS
  <1>1. ForceUnchanged /\ key' \in {0, key}
    BY DEF ForceSafety, BlockPowerOn
  <1>2. InputType'
    BY <1>1 DEF ForceUnchanged, TypeOK, InputType
  <1>3. /\ pc' = "prepare"
        /\ FaultType' /\ LoadType' /\ HandoffType' /\ ActionType'
    BY <1>1, SameType, SamePolicies DEF ForceUnchanged, TypeOK
  <1>4. FsmType'
    <2>1. CASE ForceSafety
      BY <1>1, <2>1, SwitchToType DEF ForceSafety, ForceUnchanged, TypeOK, States
    <2>2. CASE BlockPowerOn
      BY <1>1, <2>2, SameType DEF BlockPowerOn, ForceUnchanged, TypeOK
    <2> QED
      BY <2>1, <2>2
  <1> QED
    BY <1>2, <1>3, <1>4 DEF TypeOK

LEMMA PrepareType == TypeOK /\ PreparePolicy => TypeOK'
  <1> SUFFICES ASSUME TypeOK, PreparePolicy PROVE TypeOK'
    OBVIOUS
  <1>1. PrepareUnchanged
    BY DEF PreparePolicy, StartPreparation, FailPreparation, SkipPreparation
  <1>2. InputType'
    BY <1>1 DEF PrepareUnchanged, TypeOK, InputType
  <1>3. pc' = "fsm" /\ FaultType' /\ FsmType'
    BY <1>1, SameType DEF PrepareUnchanged, TypeOK
  <1>4. ASSUME UNCHANGED <<pending, hot, switchAge, waiting, finalTarget>>,
               switchPhase' \in {switchPhase, "READY", "FAILED"}
        PROVE  HandoffType' /\ pending' \in Policies
    BY <1>1, <1>4 DEF PrepareUnchanged, TypeOK, LoadType, HandoffType
  <1>5. CASE StartPreparation
    <2>1. LoadType'
      BY <1>1, <1>5, PolicyAssumption
         DEF StartPreparation, PrepareUnchanged, TypeOK, LoadType
    <2> QED
      BY <1>2, <1>3, <1>4, <1>5, <2>1, SameType DEF StartPreparation, TypeOK
  <1>6. CASE FailPreparation
    <2>1. switchPhase' \in {switchPhase, "FAILED"}
      BY <1>6 DEF FailPreparation, StatusIfPreparing
    <2>2. LoadType'
      <3>1. pending' \in {pending, active} /\ prepFailed' \in BOOLEAN
        BY <1>6 DEF FailPreparation, RetainActivePolicy
      <3>2. UNCHANGED <<active, ready, preparing, loaded, prepared, retired>>
        BY <1>1, <1>6 DEF FailPreparation, PrepareUnchanged
      <3> QED
        BY <3>1, <3>2 DEF TypeOK, LoadType
    <2>3. CASE pending = active
      <3>1. HandoffType' /\ ActionType'
        BY <1>4, <1>6, <2>1, <2>3, SameType DEF FailPreparation, TypeOK
      <3> QED
        BY <1>2, <1>3, <2>2, <3>1 DEF TypeOK
    <2>4. CASE pending # active
      <3>1. HandoffType'
        <4>1. /\ hot' = FALSE /\ switchAge' = 0
              /\ waiting' = FALSE /\ finalTarget' = None
          BY <1>6, <2>4 DEF FailPreparation, RetainActivePolicy
        <4>2. UNCHANGED <<prereqTimer, returnAttempted>>
          BY <1>1 DEF PrepareUnchanged
        <4> QED
          BY <2>1, <4>1, <4>2 DEF TypeOK, HandoffType
      <3>2. ActionType'
        BY <1>6, <2>4, AbandonType DEF FailPreparation, TypeOK
      <3> QED
        BY <1>2, <1>3, <2>2, <3>1, <3>2 DEF TypeOK
    <2> QED
      BY <2>3, <2>4
  <1>7. CASE SkipPreparation
    <2>1. switchPhase' \in {switchPhase, "READY"}
      BY <1>7 DEF SkipPreparation, StatusIfPreparing
    <2>2. LoadType'
      BY <1>1, <1>7 DEF SkipPreparation, PrepareUnchanged, TypeOK, LoadType
    <2> QED
      BY <1>2, <1>3, <1>4, <1>7, <2>1, <2>2, SameType DEF SkipPreparation, TypeOK
  <1> QED
    BY <1>5, <1>6, <1>7 DEF PreparePolicy

LEMMA TransitionType == TypeOK => CheckTransition \in States
  BY DEF TypeOK, FsmType, States, CheckTransition, PowerOffTransition,
         DampTransition, HomeTransition, ZeroTransition, RlTransition,
         SafetyTransition

LEMMA FsmStepType == TypeOK /\ (StayInState \/ ChangeState) => TypeOK'
  <1> SUFFICES ASSUME TypeOK, StayInState \/ ChangeState PROVE TypeOK'
    OBVIOUS
  <1>1. FsmUnchanged
    BY DEF StayInState, ChangeState
  <1>2. InputType'
    BY <1>1 DEF FsmUnchanged, TypeOK, InputType
  <1>3. /\ pc' = "run"
        /\ FaultType' /\ LoadType' /\ HandoffType' /\ ActionType'
    BY <1>1, SameType, SamePolicies DEF FsmUnchanged, TypeOK
  <1>4. FsmType'
    <2>1. CASE StayInState
      BY <1>1, <2>1, SameType DEF StayInState, FsmUnchanged, TypeOK
    <2>2. CASE ChangeState
      BY <1>1, <2>2, TransitionType, SwitchToType
         DEF ChangeState, FsmUnchanged, TypeOK
    <2> QED
      BY <2>1, <2>2
  <1> QED
    BY <1>2, <1>3, <1>4 DEF TypeOK

LEMMA RunType == TypeOK /\ RunState => TypeOK'
  <1> SUFFICES ASSUME TypeOK, RunState PROVE TypeOK'
    OBVIOUS
  <1>1. RunUnchanged
    BY DEF RunState, RunPowerOff, RunDamp, RunHome, RunZero, RunRl, RunSafety
  <1>2. pc' = "after" /\ InputType' /\ FaultType'
    BY <1>1, SameType DEF RunUnchanged, TypeOK
  <1>3. LoadType' /\ HandoffType' /\ ActionType'
    BY <1>1, SamePolicies DEF RunUnchanged, TypeOK
  <1>4. UNCHANGED <<state, prevState, canRamp, rlPrepared>>
    BY <1>1 DEF RunUnchanged
  <1>5. /\ finished' \in BOOLEAN /\ timer' \in Nat
        /\ enable' \in BOOLEAN /\ rlFault' \in BOOLEAN
    <2>1. CASE RunPowerOff \/ RunDamp
      BY <2>1 DEF RunPowerOff, RunDamp, TypeOK, FsmType
    <2>2. CASE \E arrived \in BOOLEAN : RunHome(arrived)
      BY <2>2 DEF RunHome, TypeOK, FsmType
    <2>3. CASE \E converged \in BOOLEAN : RunZero(converged)
      BY <2>3 DEF RunZero, Settled, TypeOK, FsmType
    <2>4. CASE \E faulty \in BOOLEAN : RunRl(faulty)
      BY <2>4 DEF RunRl, TypeOK, FsmType
    <2>5. CASE RunSafety
      BY <2>5 DEF RunSafety, Releasing, TypeOK, FsmType
    <2> QED
      BY <2>1, <2>2, <2>3, <2>4, <2>5 DEF RunState
  <1> QED
    BY <1>2, <1>3, <1>4, <1>5 DEF TypeOK, FsmType

LEMMA ReviewType == TypeOK /\ ReviewStateFault => TypeOK'
  <1> SUFFICES ASSUME TypeOK, ReviewStateFault PROVE TypeOK'
    OBVIOUS
  <1>1. pc' = "chain" /\ LoadType' /\ HandoffType' /\ ActionType'
    BY SamePolicies DEF ReviewStateFault, TypeOK
  <1>2. InputType'
    <2>1. <<NoFault, NoFault, NoFault, NoFault>> \in [1 .. 4 -> FaultStatus]
      BY NoFaultType
    <2> QED
      BY <2>1 DEF ReviewStateFault, TypeOK, InputType
  <1>3. CASE StateFault = NoFault
    <2>1. FaultType' /\ FsmType'
      BY <1>3, SameType
         DEF ReviewStateFault, TypeOK, FaultType, FsmType, fsmVars, rlVars
    <2> QED
      BY <1>1, <1>2, <2>1 DEF TypeOK
  <1>4. CASE StateFault # NoFault
    <2> DEFINE obs == [observations EXCEPT ![4] = StateFault]
    <2>1. StateFault \in FaultStatus
      BY NoFaultType, MakeFaultType DEF StateFault
    <2>2. obs \in [1 .. 4 -> FaultStatus]
      BY <2>1 DEF TypeOK, InputType
    <2>3. Resolve(obs) /\ SwitchTo("SAFETY", fault')
      BY <1>4 DEF ReviewStateFault
    <2>4. fault' \in FaultStatus /\ observedSeq' \in Nat /\ faultSeq' \in Nat
      <3> HIDE DEF obs
      <3> QED
        BY <2>2, <2>3, ResolveType DEF TypeOK
    <2>5. FaultType'
      BY <2>4 DEF ReviewStateFault, TypeOK, FaultType
    <2>6. FsmType'
      BY <2>3, SwitchToType DEF ReviewStateFault, TypeOK, States
    <2> QED
      BY <1>1, <1>2, <2>5, <2>6 DEF TypeOK
  <1> QED
    BY <1>3, <1>4

\* The last block of Step only starts, drops or forgets a handoff.
LEMMA ChainHandoffType ==
    ASSUME HandoffType, UNCHANGED switchPhase,
           hot' \in {TRUE, FALSE, hot}, switchAge' \in {0, switchAge},
           waiting' \in {FALSE, waiting}, finalTarget' \in {None, finalTarget},
           prereqTimer' \in {0, prereqTimer, prereqTimer + 1},
           returnAttempted' \in {TRUE, returnAttempted}
    PROVE  HandoffType'
  <1>1. hot' \in BOOLEAN /\ waiting' \in BOOLEAN /\ returnAttempted' \in BOOLEAN
    BY DEF HandoffType
  <1>2. switchAge' \in Nat /\ prereqTimer' \in Nat
    BY DEF HandoffType
  <1>3. finalTarget' \in Policies \cup {None}
    BY DEF HandoffType
  <1> QED
    BY <1>1, <1>2, <1>3 DEF HandoffType

LEMMA ChainType == TypeOK /\ ScheduleChain => TypeOK'
  <1> SUFFICES ASSUME TypeOK, ScheduleChain PROVE TypeOK'
    OBVIOUS
  <1>1. ChainUnchanged
    BY DEF ScheduleChain, LeaveRl, CountPrerequisite, ReturnFromMotion,
           NothingToSchedule
  <1>2. pc' = "idle" /\ InputType' /\ FaultType' /\ FsmType'
    BY <1>1, SameType DEF ChainUnchanged, TypeOK, FsmType, fsmVars, rlVars
  <1>3. pending' \in Policies /\ ready' \in BOOLEAN /\ prepFailed' \in BOOLEAN
        => LoadType'
    BY <1>1 DEF ChainUnchanged, TypeOK, LoadType
  <1>4. UNCHANGED switchPhase
    BY <1>1 DEF ChainUnchanged
  <1>5. CASE LeaveRl
    <2>1. ActionType'
      BY <1>5, FinishType, SameType DEF LeaveRl, TypeOK
    <2>2. LoadType'
      BY <1>3, <1>5 DEF LeaveRl, TypeOK, LoadType, ActionType
    <2>3. HandoffType'
      BY <1>4, <1>5, ChainHandoffType DEF LeaveRl, chainVars, TypeOK
    <2> QED
      BY <1>2, <2>1, <2>2, <2>3 DEF TypeOK
  <1>6. CASE CountPrerequisite
    <2>1. ActionType'
      BY <1>6, SameType DEF CountPrerequisite, TypeOK
    <2>2. LoadType'
      BY <1>3, <1>6 DEF CountPrerequisite, TypeOK, LoadType, HandoffType
    <2>3. HandoffType'
      BY <1>4, <1>6, ChainHandoffType DEF CountPrerequisite, TypeOK
    <2> QED
      BY <1>2, <2>1, <2>2, <2>3 DEF TypeOK
  <1>7. CASE ReturnFromMotion
    <2>1. CASE actionOwner # None /\ active # actionOwner
      <3>1. ActionType'
        BY <1>7, <2>1 DEF ReturnFromMotion, TypeOK, ActionType
      <3>2. LoadType'
        BY <1>3, <1>7, <2>1
           DEF ReturnFromMotion, StartActionHandoff, TypeOK, LoadType, ActionType
      <3>3. HandoffType'
        <4>1. hot' \in {TRUE, FALSE}
          BY <1>7, <2>1 DEF ReturnFromMotion, StartActionHandoff
        <4> QED
          BY <1>4, <1>7, <2>1, <4>1, ChainHandoffType
             DEF ReturnFromMotion, StartActionHandoff, TypeOK
      <3> QED
        BY <1>2, <3>1, <3>2, <3>3 DEF TypeOK
    <2>2. CASE ~(actionOwner # None /\ active # actionOwner)
      <3>1. ActionType'
        BY <1>7, <2>2, SameType DEF ReturnFromMotion, TypeOK
      <3>2. LoadType'
        BY <1>3, <1>7, <2>2, PolicyAssumption
           DEF ReturnFromMotion, TypeOK, LoadType
      <3>3. HandoffType'
        BY <1>4, <1>7, <2>2, ChainHandoffType
           DEF ReturnFromMotion, chainVars, TypeOK
      <3> QED
        BY <1>2, <3>1, <3>2, <3>3 DEF TypeOK
    <2> QED
      BY <2>1, <2>2
  <1>8. CASE NothingToSchedule
    <2>1. LoadType' /\ HandoffType' /\ ActionType'
      BY <1>1, <1>8, SameType
         DEF NothingToSchedule, ChainUnchanged, chainVars, TypeOK, LoadType,
             HandoffType
    <2> QED
      BY <1>2, <2>1 DEF TypeOK
  <1> QED
    BY <1>5, <1>6, <1>7, <1>8 DEF ScheduleChain

LEMMA BackgroundType == TypeOK /\ (InferFault \/ PrepareDone \/ RetireDone) => TypeOK'
  <1> SUFFICES ASSUME TypeOK, InferFault \/ PrepareDone \/ RetireDone PROVE TypeOK'
    OBVIOUS
  <1>1. BackgroundUnchanged
    BY DEF InferFault, PrepareDone, RetireDone
  <1>2. InputType' /\ FaultType' /\ ActionType' /\ pc' = pc
    BY <1>1, SameType DEF BackgroundUnchanged, TypeOK
  <1>3. HandoffType'
    BY <1>1 DEF BackgroundUnchanged, TypeOK, HandoffType, chainVars, switchVars
  <1>5. FsmType'
    <2>1. rlFault' \in {TRUE, rlFault}
      BY DEF InferFault, PrepareDone, RetireDone
    <2> QED
      BY <1>1, <2>1 DEF BackgroundUnchanged, TypeOK, FsmType, fsmVars
  <1>4. LoadType'
    BY <1>1 DEF InferFault, PrepareDone, RetireDone, BackgroundUnchanged, TypeOK,
                LoadType, switchVars
  <1> QED
    BY <1>2, <1>3, <1>4, <1>5 DEF TypeOK

LEMMA InitType == Init => TypeOK
  <1> SUFFICES ASSUME Init PROVE TypeOK
    OBVIOUS
  <1>1. InputType
    <2>1. <<NoFault, NoFault, NoFault, NoFault>> \in [1 .. 4 -> FaultStatus]
      BY NoFaultType
    <2> QED
      BY <2>1, NoFaultType DEF Init, InputType
  <1>2. FaultType /\ FsmType
    BY NoFaultType DEF Init, FaultType, FsmType, FaultCodes, States
  <1>3. LoadType /\ HandoffType /\ ActionType
    BY PolicyAssumption DEF Init, LoadType, HandoffType, ActionType
  <1> QED
    BY <1>1, <1>2, <1>3 DEF Init, TypeOK

LEMMA NextType == TypeOK /\ [Next]_vars => TypeOK'
  <1> SUFFICES ASSUME TypeOK, [Next]_vars PROVE TypeOK'
    OBVIOUS
  <1>1. CASE Control
    BY <1>1, ReceiveType, SelectType, AcknowledgeType, ObserveType,
       HandoffActionType, PollType, ForceType, PrepareType, FsmStepType, RunType,
       ReviewType, ChainType DEF Control
  <1>2. CASE InferFault \/ PrepareDone \/ RetireDone
    BY <1>2, BackgroundType
  <1>3. CASE UNCHANGED vars
    BY <1>3, SameType, SamePolicies DEF vars, TypeOK
  <1> QED
    BY <1>1, <1>2, <1>3 DEF Next

\* Whatever the configuration, the keys and the order of the threads, every
\* variable keeps its range: no step of the manager writes a policy that is
\* not configured or a state that the factory does not know.
THEOREM TypeCorrect == Spec => []TypeOK
  BY InitType, NextType, PTL DEF Spec

-----------------------------------------------------------------------------
(***************************************************************************)
(* The fault latch.  A fault may be latched while the robot is driven only *)
(* between the block that observes it and the block that forces SAFETY;    *)
(* from there to the end of FSM::Step the key of a robot that is off is    *)
(* one that keeps it off.                                                  *)
(***************************************************************************)
LatchHeld ==
    fault.latched =>
        /\ pc \notin {"handoff", "poll", "force"} => state \in {"POWER_OFF", "SAFETY"}
        /\ state = "POWER_OFF" /\ pc \in {"prepare", "fsm"} => key \in {0, -1}

\* A latched fault carries the newest number.
LatchNumbered == fault.latched => fault.seq = faultSeq

\* At no point of the cycle does a robot that is off have its joints driven, nor
\* one in SAFETY outside of its controlled release.
DriveHeld ==
    enable => /\ state # "POWER_OFF"
              /\ state = "SAFETY" => canRamp /\ timer < ReleaseTicks

Inv == TypeOK /\ LatchHeld /\ LatchNumbered /\ DriveHeld

LatchVars == <<fault, faultSeq, prevAck, state, enable, canRamp, timer>>

\* What each block does to the latch and the command.
LEMMA QuietBlocks ==
    ASSUME ReceiveAny \/ SelectAny \/ CancelHandoff \/ KeepHandoff
    PROVE  /\ UNCHANGED LatchVars
           /\ <<pc, pc'>> \in {<<"idle", "select">>, <<"select", "ack">>,
                               <<"handoff", "poll">>}
  <1>1. CASE ReceiveAny
    <2>1. ReceiveUnchanged /\ pc = "idle" /\ pc' = "select"
      BY <1>1 DEF ReceiveAny, ReceiveCommand, ReceiveStart, ReceiveCancel
    <2> QED
      BY <2>1 DEF ReceiveUnchanged, faultVars, fsmVars, LatchVars
  <1>2. CASE SelectAny
    <2>1. SelectUnchanged
      BY <1>2 DEF SelectAny, SelectPolicy, NoSelection, RejectSelection,
                  ReselectActive, SelectDirect, SelectChained
    <2> QED
      BY <2>1 DEF SelectUnchanged, faultVars, fsmVars, LatchVars
  <1>3. CASE CancelHandoff \/ KeepHandoff
    <2>1. HandoffUnchanged
      BY <1>3 DEF CancelHandoff, KeepHandoff
    <2> QED
      BY <2>1 DEF HandoffUnchanged, faultVars, fsmVars, LatchVars
  <1> QED
    BY <1>1, <1>2, <1>3

LEMMA PollLatch ==
    ASSUME PollPolicyPreparation
    PROVE  /\ pc = "poll" /\ pc' = "force"
           /\ UNCHANGED <<fault, faultSeq, prevAck, state, enable, canRamp>>
           /\ state # "ZERO" => UNCHANGED timer
  <1>1. PollUnchanged
    BY DEF PollPolicyPreparation, PollNothing, DropPrepared, InstallPrepared,
           CollectUnchanged, CollectLost, CollectLoaded, CollectFailed
  <1>2. /\ UNCHANGED <<state, enable, canRamp>>
        /\ state # "ZERO" => UNCHANGED timer
    BY DEF PollPolicyPreparation, PollNothing, DropPrepared, InstallPrepared,
           CollectUnchanged, CollectLost, CollectLoaded, CollectFailed, fsmVars
  <1> QED
    BY <1>1, <1>2 DEF PollUnchanged, faultVars

LEMMA PrepareLatch ==
    ASSUME PreparePolicy
    PROVE  /\ pc = "prepare" /\ pc' = "fsm" /\ key' \in {0, key}
           /\ UNCHANGED LatchVars
  <1>1. PrepareUnchanged
    BY DEF PreparePolicy, StartPreparation, FailPreparation, SkipPreparation
  <1> QED
    BY <1>1 DEF PrepareUnchanged, faultVars, fsmVars, LatchVars

LEMMA ChainLatch ==
    ASSUME ScheduleChain
    PROVE  pc = "chain" /\ pc' = "idle" /\ UNCHANGED LatchVars
  <1>1. ChainUnchanged
    BY DEF ScheduleChain, LeaveRl, CountPrerequisite, ReturnFromMotion,
           NothingToSchedule
  <1> QED
    BY <1>1 DEF ChainUnchanged, faultVars, fsmVars, LatchVars

LEMMA BackgroundLatch ==
    ASSUME InferFault \/ PrepareDone \/ RetireDone
    PROVE  UNCHANGED <<pc, key, LatchVars>>
  <1>1. BackgroundUnchanged
    BY DEF InferFault, PrepareDone, RetireDone
  <1> QED
    BY <1>1 DEF BackgroundUnchanged, inputVars, faultVars, fsmVars, LatchVars

\* No observation opens the latch, and a fault that enters it takes the next
\* number.
LEMMA ResolveLatch ==
    ASSUME NEW n \in 1 .. 4, NEW obs \in [1 .. n -> FaultStatus], FaultType,
           LatchNumbered, Resolve(obs)
    PROVE  LatchNumbered' /\ (fault.latched => fault'.latched)
  <1>1. ASSUME NEW f \in FaultStatus, LatchFault(f)
        PROVE  fault'.latched /\ fault'.seq = faultSeq'
    BY <1>1 DEF LatchFault, FaultStatus
  <1>2. CASE \E i \in 1 .. n : LatchFault(obs[i])
    <2>1. PICK i \in 1 .. n : LatchFault(obs[i])
      BY <1>2
    <2>2. obs[i] \in FaultStatus
      OBVIOUS
    <2> QED
      BY <1>1, <2>1, <2>2 DEF LatchNumbered
  <1>3. CASE UNCHANGED <<fault, observedSeq, faultSeq>>
    BY <1>3 DEF LatchNumbered
  <1>4. CASE /\ fault' = [fault EXCEPT !.active = FALSE]
             /\ UNCHANGED <<observedSeq, faultSeq>>
    <2>1. fault'.latched = fault.latched /\ fault'.seq = fault.seq
      BY <1>4 DEF FaultType, FaultStatus
    <2> QED
      BY <1>4, <2>1 DEF LatchNumbered
  <1> QED
    BY <1>2, <1>3, <1>4, ResolveCases

LEMMA ObserveLatch ==
    ASSUME TypeOK, LatchNumbered, NEW m \in MonitoredFaults, ObserveFaults(m)
    PROVE  /\ pc = "observe" /\ pc' = "handoff"
           /\ LatchNumbered' /\ (fault.latched => fault'.latched)
           /\ UNCHANGED <<prevAck, state, enable, canRamp, timer>>
  <1>1. m \in FaultStatus /\ StateFault \in FaultStatus
    BY NoFaultType, MakeFaultType, InputAssumption DEF MonitoredFaults, StateFault
  <1>2. ReportedFault \in FaultStatus
    BY NoFaultType DEF ReportedFault, TypeOK, InputType
  <1> DEFINE obs == <<ReportedFault, m, StateFault>>
  <1>3. obs \in [1 .. 3 -> FaultStatus]
    BY <1>1, <1>2
  <1>4. Resolve(obs)
    BY DEF ObserveFaults
  <1>5. LatchNumbered' /\ (fault.latched => fault'.latched)
    <2> HIDE DEF obs
    <2> QED
      BY <1>3, <1>4, ResolveLatch DEF TypeOK
  <1> QED
    BY <1>5 DEF ObserveFaults, fsmVars

LEMMA ReviewLatch ==
    ASSUME TypeOK, LatchNumbered, ReviewStateFault
    PROVE  /\ pc = "after" /\ pc' = "chain" /\ UNCHANGED prevAck
           /\ LatchNumbered' /\ (fault.latched => fault'.latched)
           /\ \/ UNCHANGED LatchVars
              \/ state = "RL" /\ SwitchTo("SAFETY", fault')
  <1>1. CASE StateFault = NoFault
    BY <1>1 DEF ReviewStateFault, fsmVars, LatchVars, LatchNumbered
  <1>2. CASE StateFault # NoFault
    <2> DEFINE obs == [observations EXCEPT ![4] = StateFault]
    <2>1. StateFault \in FaultStatus /\ state = "RL"
      BY <1>2, NoFaultType, MakeFaultType DEF StateFault
    <2>2. obs \in [1 .. 4 -> FaultStatus]
      BY <2>1 DEF TypeOK, InputType
    <2>3. Resolve(obs) /\ SwitchTo("SAFETY", fault')
      BY <1>2 DEF ReviewStateFault
    <2>4. LatchNumbered' /\ (fault.latched => fault'.latched)
      <3> HIDE DEF obs
      <3> QED
        BY <2>2, <2>3, ResolveLatch DEF TypeOK
    <2> QED
      BY <2>1, <2>3, <2>4 DEF ReviewStateFault
  <1> QED
    BY <1>1, <1>2

\* A confirmation opens the latch of a robot that is off, or changes nothing.
LEMMA AcknowledgeLatch ==
    ASSUME TypeOK, AcknowledgeAny
    PROVE  /\ pc = "ack" /\ pc' = "observe"
           /\ UNCHANGED <<faultSeq, state, enable, canRamp, timer>>
           /\ \/ UNCHANGED fault
              \/ /\ fault.latched /\ ~fault.active /\ state = "POWER_OFF"
                 /\ ~fault'.latched
                 /\ prevAck' = fault.seq /\ prevAck' # prevAck
  <1>1. PICK sf \in SensorFaults \cup {NoFault}, seq \in 0 .. faultSeq :
            AcknowledgeFault(sf, seq)
    BY DEF AcknowledgeAny
  <1>2. ~NoFault.latched
    BY DEF NoFault
  <1> QED
    BY <1>1, <1>2 DEF AcknowledgeFault, MayAcknowledge, fsmVars

\* The command right after a state was entered.
LEMMA SwitchToDrive ==
    ASSUME FsmType, NEW s \in States, NEW f, SwitchTo(s, f)
    PROVE  DriveHeld' /\ state' = s
  <1>1. CASE s = "POWER_OFF"
    BY <1>1 DEF SwitchTo, OnEnterEnable, DriveHeld
  <1>2. CASE s = "SAFETY"
    <2>1. enable' = canRamp' /\ timer' = 0
      BY <1>2 DEF SwitchTo, OnEnterEnable
    <2> QED
      BY <1>2, <2>1, BoundAssumption DEF SwitchTo, DriveHeld
  <1>3. CASE s \notin {"POWER_OFF", "SAFETY"}
    BY <1>3 DEF SwitchTo, DriveHeld
  <1> QED
    BY <1>1, <1>2, <1>3

LEMMA RunDrive ==
    ASSUME TypeOK, RunState, DriveHeld
    PROVE  /\ DriveHeld' /\ pc = "run" /\ pc' = "after"
           /\ UNCHANGED <<fault, faultSeq, prevAck, state>>
  <1>1. RunUnchanged
    BY DEF RunState, RunPowerOff, RunDamp, RunHome, RunZero, RunRl, RunSafety
  <1>2. /\ pc = "run" /\ pc' = "after"
        /\ UNCHANGED <<fault, faultSeq, prevAck, state, canRamp>>
    BY <1>1 DEF RunUnchanged, faultVars
  <1> SUFFICES DriveHeld'
    BY <1>2
  <1>3. CASE state = "POWER_OFF"
    <2>1. enable' = FALSE
      BY <1>3 DEF RunState, RunPowerOff, RunDamp, RunHome, RunZero, RunRl, RunSafety
    <2> QED
      BY <1>2, <2>1 DEF DriveHeld
  <1>4. CASE state = "SAFETY"
    <2>1. RunSafety
      BY <1>4 DEF RunState, RunPowerOff, RunDamp, RunHome, RunZero, RunRl
    <2>2. timer \in Nat /\ ReleaseTicks \in Nat
      BY BoundAssumption DEF TypeOK, FsmType
    <2>3. CASE Releasing
      <3>1. canRamp /\ timer + 1 < ReleaseTicks /\ timer < ReleaseTicks
        BY <2>2, <2>3 DEF Releasing
      <3>2. timer' = timer + 1
        BY <2>1, <3>1 DEF RunSafety
      <3>3. canRamp' /\ timer' < ReleaseTicks
        BY <1>2, <3>1, <3>2
      <3> QED
        BY <1>2, <1>4, <3>3 DEF DriveHeld
    <2>4. CASE ~Releasing
      <3>1. enable' = FALSE
        BY <2>1, <2>4 DEF RunSafety, Releasing
      <3> QED
        BY <3>1 DEF DriveHeld
    <2> QED
      BY <2>3, <2>4
  <1>5. CASE state \notin {"POWER_OFF", "SAFETY"}
    BY <1>2, <1>5 DEF DriveHeld
  <1> QED
    BY <1>3, <1>4, <1>5

LEMMA InitInv == Init => Inv
  <1> SUFFICES ASSUME Init PROVE LatchHeld /\ LatchNumbered /\ DriveHeld
    BY InitType DEF Inv
  <1>1. ~fault.latched /\ ~enable
    BY DEF Init, NoFault
  <1> QED
    BY <1>1 DEF LatchHeld, LatchNumbered, DriveHeld

LEMMA NextInv == Inv /\ [Next]_vars => Inv'
  <1> SUFFICES ASSUME Inv, [Next]_vars
               PROVE  LatchHeld' /\ LatchNumbered' /\ DriveHeld'
    BY NextType DEF Inv
  <1> USE DEF Inv
  <1>1. CASE ReceiveAny \/ SelectAny \/ CancelHandoff \/ KeepHandoff
    BY <1>1, QuietBlocks DEF LatchVars, LatchHeld, LatchNumbered, DriveHeld
  <1>2. CASE AcknowledgeAny
    <2>1. LatchHeld' /\ LatchNumbered'
      BY <1>2, AcknowledgeLatch DEF LatchHeld, LatchNumbered
    <2>2. DriveHeld'
      BY <1>2, AcknowledgeLatch DEF DriveHeld
    <2> QED
      BY <2>1, <2>2
  <1>3. CASE \E m \in MonitoredFaults : ObserveFaults(m)
    BY <1>3, ObserveLatch DEF LatchHeld, DriveHeld
  <1>4. CASE PollPolicyPreparation
    BY <1>4, PollLatch DEF LatchHeld, LatchNumbered, DriveHeld
  <1>5. CASE ForceSafety
    <2>1. state' = "SAFETY" /\ DriveHeld'
      BY <1>5, SwitchToDrive DEF ForceSafety, TypeOK, States
    <2> QED
      BY <1>5, <2>1
         DEF ForceSafety, ForceUnchanged, faultVars, LatchHeld, LatchNumbered
  <1>6. CASE BlockPowerOn
    BY <1>6 DEF BlockPowerOn, ForceUnchanged, MustForceSafety, MustBlockPowerOn,
                faultVars, fsmVars, LatchHeld, LatchNumbered, DriveHeld
  <1>7. CASE PreparePolicy
    BY <1>7, PrepareLatch DEF LatchVars, LatchHeld, LatchNumbered, DriveHeld
  <1>8. CASE StayInState
    BY <1>8 DEF StayInState, FsmUnchanged, faultVars, fsmVars, LatchHeld,
                LatchNumbered, DriveHeld
  <1>9. CASE ChangeState
    <2>1. state' = CheckTransition /\ DriveHeld'
      BY <1>9, TransitionType, SwitchToDrive DEF ChangeState, TypeOK
    <2>2. /\ pc = "fsm" /\ pc' = "run" /\ UNCHANGED <<fault, faultSeq>>
      BY <1>9 DEF ChangeState, FsmUnchanged, faultVars
    <2>3. fault.latched => state' \in {"POWER_OFF", "SAFETY"}
      BY <2>1, <2>2 DEF LatchHeld, CheckTransition, PowerOffTransition,
                        SafetyTransition
    <2> QED
      BY <2>1, <2>2, <2>3 DEF LatchHeld, LatchNumbered
  <1>10. CASE RunState
    BY <1>10, RunDrive DEF LatchHeld, LatchNumbered
  <1>11. CASE ReviewStateFault
    <2>1. CASE UNCHANGED LatchVars
      BY <1>11, <2>1, ReviewLatch DEF LatchVars, LatchHeld, DriveHeld
    <2>2. CASE SwitchTo("SAFETY", fault')
      <3>1. state' = "SAFETY" /\ DriveHeld'
        BY <2>2, SwitchToDrive DEF TypeOK, States
      <3> QED
        BY <1>11, <3>1, ReviewLatch DEF LatchHeld
    <2> QED
      BY <1>11, <2>1, <2>2, ReviewLatch
  <1>12. CASE ScheduleChain
    BY <1>12, ChainLatch DEF LatchVars, LatchHeld, LatchNumbered, DriveHeld
  <1>13. CASE InferFault \/ PrepareDone \/ RetireDone
    BY <1>13, BackgroundLatch DEF LatchVars, LatchHeld, LatchNumbered, DriveHeld
  <1>14. CASE UNCHANGED vars
    BY <1>14 DEF vars, inputVars, faultVars, fsmVars, LatchHeld, LatchNumbered,
                 DriveHeld
  <1> QED
    BY <1>1, <1>2, <1>3, <1>4, <1>5, <1>6, <1>7, <1>8, <1>9, <1>10, <1>11, <1>12,
       <1>13, <1>14 DEF Next, Control

LEMMA Invariance == Spec => []Inv
  BY InitInv, NextInv, PTL DEF Spec

\* No command leaves a cycle with a fault latched and the robot in a state that
\* drives it: Step forces SAFETY before FSM::Step, takes the keys that power on
\* from a robot that is off, and looks at the state's own fault afterwards.
THEOREM LatchDisarms == Spec => []LatchedFaultDisarms
  <1>1. Inv => LatchedFaultDisarms
    BY DEF Inv, LatchHeld, LatchedFaultDisarms
  <1> QED
    BY <1>1, Invariance, PTL

\* The joints are driven in DAMP, HOME, ZERO and RL without a latched fault, or
\* in SAFETY within release_duration of an entry that allowed the release.
THEOREM DriveJustified == Spec => []DriveIsJustified
  <1>1. Inv => DriveIsJustified
    BY DEF Inv, LatchHeld, DriveHeld, DriveIsJustified, TypeOK, FsmType, States
  <1> QED
    BY <1>1, Invariance, PTL

\* The latch is opened by the number of the newest fault, in a confirmation that
\* is not a repetition, and only when that fault is no longer active.
THEOREM AcknowledgedBySequence == Spec => AcknowledgedByItsSequence
  <1>1. Inv /\ [Next]_vars =>
          [fault.latched /\ ~fault'.latched =>
             prevAck # faultSeq /\ prevAck' = faultSeq /\ ~fault.active]_vars
    <2> SUFFICES ASSUME Inv, [Next]_vars, fault.latched, ~fault'.latched
                 PROVE  prevAck # faultSeq /\ prevAck' = faultSeq /\ ~fault.active
      OBVIOUS
    <2> USE DEF Inv
    <2>1. CASE AcknowledgeAny
      BY <2>1, AcknowledgeLatch DEF LatchNumbered
    <2>2. CASE ~AcknowledgeAny
      <3>1. UNCHANGED fault \/ fault'.latched
        <4>1. CASE ReceiveAny \/ SelectAny \/ CancelHandoff \/ KeepHandoff
          BY <4>1, QuietBlocks DEF LatchVars
        <4>2. CASE \E m \in MonitoredFaults : ObserveFaults(m)
          BY <4>2, ObserveLatch
        <4>3. CASE PollPolicyPreparation \/ PreparePolicy \/ ScheduleChain
          BY <4>3, PollLatch, PrepareLatch, ChainLatch DEF LatchVars
        <4>4. CASE ForceSafety \/ BlockPowerOn
          BY <4>4 DEF ForceSafety, BlockPowerOn, ForceUnchanged, faultVars
        <4>5. CASE StayInState \/ ChangeState
          BY <4>5 DEF StayInState, ChangeState, FsmUnchanged, faultVars
        <4>6. CASE RunState
          BY <4>6, RunDrive
        <4>7. CASE ReviewStateFault
          BY <4>7, ReviewLatch
        <4>8. CASE InferFault \/ PrepareDone \/ RetireDone
          BY <4>8, BackgroundLatch DEF LatchVars
        <4>9. CASE UNCHANGED vars
          BY <4>9 DEF vars, faultVars
        <4> QED
          BY <2>2, <4>1, <4>2, <4>3, <4>4, <4>5, <4>6, <4>7, <4>8, <4>9
             DEF Next, Control
      <3> QED
        BY <3>1
    <2> QED
      BY <2>1, <2>2
  <1> QED
    BY <1>1, Invariance, PTL DEF Spec, AcknowledgedByItsSequence

-----------------------------------------------------------------------------
(***************************************************************************)
(* A confirmed report is quiet.  What waits in sensor_fault between        *)
(* SetSensorFault and Step is a report of the driver side or nothing, and  *)
(* nothing but a report is observed latched without being active.          *)
(***************************************************************************)
ReportHeld == sensorFault \in SensorFaults \cup {NoFault}

\* Three blocks write the input of SetSensorFault or number a fault.
LEMMA ReportUntouched ==
    ASSUME [Next]_vars, ~AcknowledgeAny, ~ReviewStateFault,
           ~\E m \in MonitoredFaults : ObserveFaults(m)
    PROVE  UNCHANGED <<sensorFault, faultSeq>>
  <1>1. CASE ReceiveAny
    BY <1>1 DEF ReceiveAny, ReceiveCommand, ReceiveStart, ReceiveCancel,
                ReceiveUnchanged, faultVars
  <1>2. CASE SelectAny
    <2>1. SelectUnchanged
      BY <1>2 DEF SelectAny, SelectPolicy, NoSelection, RejectSelection,
                  ReselectActive, SelectDirect, SelectChained
    <2> QED
      BY <2>1 DEF SelectUnchanged, inputVars, faultVars
  <1>3. CASE CancelHandoff \/ KeepHandoff
    BY <1>3 DEF CancelHandoff, KeepHandoff, HandoffUnchanged, inputVars, faultVars
  <1>4. CASE PollPolicyPreparation
    <2>1. PollUnchanged
      BY <1>4 DEF PollPolicyPreparation, PollNothing, DropPrepared, InstallPrepared,
                  CollectUnchanged, CollectLost, CollectLoaded, CollectFailed
    <2> QED
      BY <2>1 DEF PollUnchanged, inputVars, faultVars
  <1>5. CASE ForceSafety \/ BlockPowerOn
    BY <1>5 DEF ForceSafety, BlockPowerOn, ForceUnchanged, faultVars
  <1>6. CASE PreparePolicy
    BY <1>6 DEF PreparePolicy, StartPreparation, FailPreparation, SkipPreparation,
                PrepareUnchanged, faultVars
  <1>7. CASE StayInState \/ ChangeState
    BY <1>7 DEF StayInState, ChangeState, FsmUnchanged, faultVars
  <1>8. CASE RunState
    <2>1. RunUnchanged
      BY <1>8 DEF RunState, RunPowerOff, RunDamp, RunHome, RunZero, RunRl, RunSafety
    <2> QED
      BY <2>1 DEF RunUnchanged, inputVars, faultVars
  <1>9. CASE ScheduleChain
    <2>1. ChainUnchanged
      BY <1>9 DEF ScheduleChain, LeaveRl, CountPrerequisite, ReturnFromMotion,
                  NothingToSchedule
    <2> QED
      BY <2>1 DEF ChainUnchanged, inputVars, faultVars
  <1>10. CASE InferFault \/ PrepareDone \/ RetireDone
    BY <1>10 DEF InferFault, PrepareDone, RetireDone, BackgroundUnchanged,
                 inputVars, faultVars
  <1>11. CASE UNCHANGED vars
    BY <1>11 DEF vars, inputVars, faultVars
  <1> QED
    BY <1>1, <1>2, <1>3, <1>4, <1>5, <1>6, <1>7, <1>8, <1>9, <1>10, <1>11
       DEF Next, Control

LEMMA ReportInvariant == Spec => []ReportHeld
  <1>1. Init => ReportHeld
    BY DEF Init, ReportHeld
  <1>2. ReportHeld /\ [Next]_vars => ReportHeld'
    <2> SUFFICES ASSUME ReportHeld, [Next]_vars PROVE ReportHeld'
      OBVIOUS
    <2>1. CASE AcknowledgeAny
      BY <2>1 DEF AcknowledgeAny, AcknowledgeFault, ReportHeld
    <2>2. CASE \E m \in MonitoredFaults : ObserveFaults(m)
      BY <2>2 DEF ObserveFaults, ReportHeld
    <2>3. CASE ReviewStateFault
      BY <2>3 DEF ReviewStateFault, ReportHeld
    <2> QED
      BY <2>1, <2>2, <2>3, ReportUntouched DEF ReportHeld
  <1> QED
    BY <1>1, <1>2, PTL DEF Spec

\* A fault that enters the latch inactive was observed latched, when nothing
\* active was observed.
LEMMA ResolveQuiet ==
    ASSUME NEW n \in 1 .. 4, NEW obs \in [1 .. n -> FaultStatus], Resolve(obs),
           FaultType, faultSeq' # faultSeq, ~fault'.active
    PROVE  /\ \A i \in 1 .. n : ~obs[i].active
           /\ \E i \in 1 .. n :
                obs[i].latched /\ observedSeq' = obs[i].seq
                               /\ fault'.code = obs[i].code
  <1>1. ASSUME NEW S \in SUBSET (1 .. n), S # {}
        PROVE  Earliest(S) \in S
    BY <1>1, EarliestType
  <1>2. /\ ActiveSlots(obs) = {i \in 1 .. n : obs[i].active}
        /\ LatchedSlots(obs) = {i \in 1 .. n : obs[i].latched}
    BY DEF ActiveSlots, LatchedSlots
  <1>3. ASSUME NEW i \in 1 .. n, LatchFault(obs[i])
        PROVE  /\ observedSeq' = obs[i].seq /\ fault'.code = obs[i].code
               /\ fault'.active = obs[i].active
    BY <1>3 DEF LatchFault, FaultStatus
  <1>4. ActiveSlots(obs) = {}
    <2> SUFFICES ASSUME ActiveSlots(obs) # {} PROVE FALSE
      OBVIOUS
    <2>1. LatchFault(obs[Earliest(ActiveSlots(obs))])
      BY DEF Resolve
    <2>2. Earliest(ActiveSlots(obs)) \in ActiveSlots(obs)
      BY <1>1, <1>2
    <2> QED
      BY <1>2, <1>3, <2>1, <2>2
  <1>5. LatchedSlots(obs) # {} /\ LatchFault(obs[Earliest(LatchedSlots(obs))])
    BY <1>4 DEF Resolve
  <1>6. Earliest(LatchedSlots(obs)) \in LatchedSlots(obs)
    BY <1>1, <1>2, <1>5
  <1> QED
    BY <1>2, <1>3, <1>4, <1>5, <1>6

LEMMA ObserveQuiet ==
    ASSUME TypeOK, ReportHeld, NEW m \in MonitoredFaults, ObserveFaults(m),
           faultSeq' # faultSeq, ~fault'.active
    PROVE  acked # <<observedSeq', fault'.code>>
  <1>1. m \in FaultStatus /\ StateFault \in FaultStatus /\ ReportedFault \in FaultStatus
    BY NoFaultType, MakeFaultType, InputAssumption
       DEF MonitoredFaults, StateFault, ReportedFault, TypeOK, InputType
  <1>2. (m.latched => m.active) /\ (StateFault.latched => StateFault.active)
    BY DEF MonitoredFaults, StateFault, MakeFault, NoFault
  <1> DEFINE obs == <<ReportedFault, m, StateFault>>
  <1>3. obs \in [1 .. 3 -> FaultStatus] /\ Resolve(obs)
    BY <1>1 DEF ObserveFaults
  <1>4. /\ \A i \in 1 .. 3 : ~obs[i].active
        /\ \E i \in 1 .. 3 :
             obs[i].latched /\ observedSeq' = obs[i].seq
                            /\ fault'.code = obs[i].code
    <2> HIDE DEF obs
    <2> QED
      BY <1>3, ResolveQuiet DEF TypeOK
  <1>5. /\ obs[1] = ReportedFault /\ obs[2] = m /\ obs[3] = StateFault
    OBVIOUS
  <1>6. /\ ReportedFault.latched /\ ~ReportedFault.active
        /\ observedSeq' = ReportedFault.seq /\ fault'.code = ReportedFault.code
    <2> HIDE DEF obs
    <2> QED
      BY <1>2, <1>4, <1>5
  <1>7. /\ ReportedFault = sensorFault /\ sensorFault \in SensorFaults
        /\ ~IsAcknowledgedSensorFault(sensorFault)
    BY <1>6 DEF ReportedFault, ReportHeld, NoFault
  <1>8. sensorFault.seq # 0
    BY <1>6, <1>7, ReportAssumption
  <1> QED
    BY <1>6, <1>7, <1>8 DEF IsAcknowledgedSensorFault

\* A report that a fault has gone, once the operator confirmed it, does not open
\* a case of its own however often the driver repeats it.
THEOREM ConfirmedStaysQuiet == Spec => ConfirmedReportIsQuiet
  <1>1. TypeOK /\ ReportHeld /\ [Next]_vars =>
          [faultSeq' # faultSeq /\ ~fault'.active =>
             acked # <<observedSeq', fault'.code>>]_vars
    <2> SUFFICES ASSUME TypeOK, ReportHeld, [Next]_vars,
                        faultSeq' # faultSeq, ~fault'.active
                 PROVE  acked # <<observedSeq', fault'.code>>
      OBVIOUS
    <2>1. CASE AcknowledgeAny
      BY <2>1, AcknowledgeLatch
    <2>2. CASE \E m \in MonitoredFaults : ObserveFaults(m)
      BY <2>2, ObserveQuiet
    <2>3. CASE ReviewStateFault
      \* The fault of the state itself is active.
      <3> DEFINE obs == [observations EXCEPT ![4] = StateFault]
      <3>1. StateFault = MakeFault("policy") /\ Resolve(obs)
        BY <2>3 DEF ReviewStateFault, StateFault
      <3>2. StateFault \in FaultStatus /\ StateFault.active
        BY <3>1, MakeFaultType DEF MakeFault
      <3>3. obs \in [1 .. 4 -> FaultStatus] /\ obs[4] = StateFault
        BY <3>2 DEF TypeOK, InputType
      <3> HIDE DEF obs
      <3>4. ~obs[4].active
        BY <3>1, <3>3, ResolveQuiet DEF TypeOK
      <3> QED
        BY <3>2, <3>3, <3>4
    <2> QED
      BY <2>1, <2>2, <2>3, ReportUntouched
  <1> QED
    BY <1>1, ReportInvariant, TypeCorrect, PTL DEF Spec, ConfirmedReportIsQuiet

-----------------------------------------------------------------------------
(***************************************************************************)
(* The manager implements the interlock: what each block does to power.    *)
(***************************************************************************)
LEMMA SamePower ==
    UNCHANGED <<state, fault>> => UNCHANGED Interlock!vars
  BY DEF Power, Interlock!vars

\* The only blocks that move the FSM are ForceSafety, ChangeState and
\* ReviewStateFault; the only ones that move the latch are AcknowledgeFault,
\* ObserveFaults and ReviewStateFault.
LEMMA InterlockStep == Inv /\ [Next]_vars => [Interlock!Next]_(Interlock!vars)
  <1> SUFFICES ASSUME Inv, [Next]_vars
               PROVE  Interlock!Next \/ UNCHANGED Interlock!vars
    OBVIOUS
  <1> USE DEF Inv
  <1>1. CASE ReceiveAny \/ SelectAny \/ CancelHandoff \/ KeepHandoff
    BY <1>1, QuietBlocks, SamePower DEF LatchVars
  <1>2. CASE PollPolicyPreparation \/ PreparePolicy \/ ScheduleChain
    BY <1>2, PollLatch, PrepareLatch, ChainLatch, SamePower DEF LatchVars
  <1>3. CASE StayInState
    BY <1>3, SamePower DEF StayInState, FsmUnchanged, faultVars, fsmVars
  <1>4. CASE BlockPowerOn
    BY <1>4, SamePower DEF BlockPowerOn, ForceUnchanged, faultVars, fsmVars
  <1>5. CASE RunState
    BY <1>5, RunDrive, SamePower
  <1>6. CASE InferFault \/ PrepareDone \/ RetireDone
    BY <1>6, BackgroundLatch, SamePower DEF LatchVars
  <1>7. CASE UNCHANGED vars
    BY <1>7, SamePower DEF vars, faultVars, fsmVars
  <1>8. fault.latched \in BOOLEAN
    BY DEF TypeOK, FaultType, FaultStatus
  <1>9. fault'.latched \in BOOLEAN
    BY NextType DEF TypeOK, FaultType, FaultStatus
  <1>10. CASE AcknowledgeAny
    <2>1. CASE UNCHANGED fault
      BY <1>10, <2>1, AcknowledgeLatch, SamePower
    <2>2. CASE fault.latched /\ ~fault'.latched /\ state = "POWER_OFF"
      <3>1. Interlock!Clear
        BY <1>8, <1>9, <1>10, <2>2, AcknowledgeLatch DEF Interlock!Clear, Power
      <3> QED
        BY <3>1 DEF Interlock!Next
    <2> QED
      BY <1>10, <2>1, <2>2, AcknowledgeLatch
  <1>11. CASE \E m \in MonitoredFaults : ObserveFaults(m)
    <2>1. UNCHANGED state /\ (fault.latched => fault'.latched)
      BY <1>11, ObserveLatch
    <2>2. CASE fault'.latched
      <3>1. Interlock!Latch
        BY <1>9, <2>1, <2>2 DEF Interlock!Latch, Power
      <3> QED
        BY <3>1 DEF Interlock!Next
    <2>3. CASE ~fault'.latched
      BY <1>8, <1>9, <2>1, <2>3 DEF Interlock!vars, Power
    <2> QED
      BY <2>2, <2>3
  <1>12. CASE ForceSafety
    <2>1. UNCHANGED fault /\ state' = "SAFETY" /\ state \notin {"POWER_OFF", "SAFETY"}
      BY <1>12 DEF ForceSafety, ForceUnchanged, MustForceSafety, SwitchTo, faultVars
    <2>2. Interlock!Protect
      BY <1>8, <2>1 DEF Interlock!Protect, Power
    <2> QED
      BY <2>2 DEF Interlock!Next
  <1>13. CASE ReviewStateFault
    <2>1. fault.latched => fault'.latched
      BY <1>13, ReviewLatch
    <2>2. CASE UNCHANGED LatchVars
      BY <2>2, SamePower DEF LatchVars
    <2>3. CASE state = "RL" /\ SwitchTo("SAFETY", fault')
      <3>1. state' = "SAFETY"
        BY <2>3 DEF SwitchTo
      <3>2. fault'.latched \in {fault.latched, TRUE}
        BY <1>8, <1>9, <2>1
      <3>3. Interlock!Protect
        BY <2>3, <3>1, <3>2 DEF Interlock!Protect, Power
      <3> QED
        BY <3>3 DEF Interlock!Next
    <2> QED
      BY <1>13, <2>2, <2>3, ReviewLatch
  <1>14. CASE ChangeState
    <2>1. /\ pc = "fsm" /\ UNCHANGED fault
          /\ state' = CheckTransition /\ state' # state
      BY <1>14 DEF ChangeState, FsmUnchanged, SwitchTo, faultVars
    <2>2. CASE state = "POWER_OFF"
      <3>1. state' = "DAMP" /\ key = 1
        BY <2>1, <2>2 DEF CheckTransition, PowerOffTransition
      <3>2. ~fault.latched
        BY <2>1, <2>2, <3>1 DEF LatchHeld
      <3>3. Interlock!PowerOn
        BY <2>1, <2>2, <3>1, <3>2 DEF Interlock!PowerOn, Power
      <3> QED
        BY <3>3 DEF Interlock!Next
    <2>3. CASE state = "SAFETY"
      <3>1. state' = "POWER_OFF"
        BY <2>1, <2>3 DEF CheckTransition, SafetyTransition
      <3>2. Interlock!Released
        BY <2>1, <2>3, <3>1 DEF Interlock!Released, Power
      <3> QED
        BY <3>2 DEF Interlock!Next
    <2>4. CASE state \in {"DAMP", "HOME", "ZERO", "RL"}
      <3>1. ~fault.latched
        BY <2>1, <2>4 DEF LatchHeld
      <3>2. state' \in States
        BY <2>1, TransitionType
      <3>3. CASE state' = "POWER_OFF"
        <4>1. Interlock!PowerOff
          BY <2>1, <2>4, <3>1, <3>3 DEF Interlock!PowerOff, Power
        <4> QED
          BY <4>1 DEF Interlock!Next
      <3>4. CASE state' = "SAFETY"
        <4>1. Interlock!Protect
          BY <2>1, <2>4, <3>4 DEF Interlock!Protect, Power
        <4> QED
          BY <4>1 DEF Interlock!Next
      <3>5. CASE state' \notin {"POWER_OFF", "SAFETY"}
        BY <2>1, <2>4, <3>5 DEF Interlock!vars, Power
      <3> QED
        BY <3>3, <3>4, <3>5
    <2> QED
      BY <2>2, <2>3, <2>4 DEF TypeOK, FsmType, States
  <1> QED
    BY <1>1, <1>2, <1>3, <1>4, <1>5, <1>6, <1>7, <1>10, <1>11, <1>12, <1>13, <1>14
       DEF Next, Control

\* Every behaviour of the manager is one of FaultInterlock: whatever the keys,
\* the handoffs and the threads do, a robot with a latched fault is let go of and
\* is not powered on before the latch is cleared, with the robot off.
THEOREM ImplementsInterlock == Spec => KeepsInterlock
  <1>1. Init => Interlock!Init
    BY DEF Init, NoFault, Interlock!Init, Power
  <1>2. Inv /\ [Next]_vars => [Interlock!Next]_(Interlock!vars)
    BY InterlockStep
  <1> QED
    BY <1>1, <1>2, Invariance, PTL DEF Spec, KeepsInterlock, Interlock!Safety

=============================================================================
