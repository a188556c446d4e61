---------------------------- MODULE Operator_proofs ----------------------------
(***************************************************************************)
(* Proof that the service commands nothing but a stop in nobody's name,    *)
(* for every number of clients, sessions, requests and failures.           *)
(***************************************************************************)
EXTENDS Operator, TLAPS

-----------------------------------------------------------------------------
(* The records of the service and of control.                              *)

Names ==
    Modes \cup {"none", "reference", "NONE", "START", "CANCEL", "state", "policy",
                "interaction", "cancel", "ack", "sent", "accepted", "completed",
                "rejected", "cancelled", "expired", "PREPARING", "READY", "FAILED",
                "REJECTED"}

CmdType == [key : Names, moving : BOOLEAN, policy : Int, seq : Int, op : Names,
            ack : BOOLEAN]
StatusType == [mode : Names, latched : BOOLEAN, active : BOOLEAN, conn : BOOLEAN,
               policy : Int, policyPhase : Names, seq : Int, ok : BOOLEAN,
               busy : BOOLEAN]
ServiceType == [owner : Clients \cup {Nobody}, acts : BOOLEAN, samples : Int,
                fresh : BOOLEAN, cmd : CmdType, st : StatusType, policySeq : Int,
                phase : Names, op : Names, target : Names, source : Names,
                sent : BOOLEAN]
ControlType == [cmd : CmdType, conn : BOOLEAN, mode : Names, latched : BOOLEAN,
                active : BOOLEAN, lastPolicy : Int, policy : Int,
                policyPhase : Names, lastSeq : Int, seq : Int, ok : BOOLEAN,
                busy : BOOLEAN]
LinkType == [up : BOOLEAN, cmd : CmdType \cup {NoFrame}]

LEMMA NameFacts ==
    /\ {"POWER_OFF", "DAMP", "HOME", "ZERO", "RL", "SAFETY"} \subseteq Names
    /\ "none" \in Names /\ "reference" \in Names /\ "NONE" \in Names
    /\ "START" \in Names /\ "CANCEL" \in Names /\ "state" \in Names
    /\ "policy" \in Names /\ "interaction" \in Names /\ "cancel" \in Names
    /\ "ack" \in Names /\ "sent" \in Names /\ "accepted" \in Names
    /\ "completed" \in Names /\ "rejected" \in Names /\ "cancelled" \in Names
    /\ "expired" \in Names /\ "PREPARING" \in Names /\ "READY" \in Names
    /\ "FAILED" \in Names /\ "REJECTED" \in Names /\ "POWER_OFF" \in Names
  BY DEF Names, Modes

LEMMA LargerInt == ASSUME NEW a \in Int, NEW b \in Int PROVE Larger(a, b) + 1 \in Int
  BY DEF Larger

LEMMA NeutralType == Neutral \in CmdType
  BY NameFacts DEF Neutral, CmdType

LEMMA NewServiceType == NewService \in ServiceType
  BY NeutralType, NameFacts DEF NewService, ServiceType, StatusType

LEMMA CmdWith ==
    ASSUME NEW cmd \in CmdType, NEW key \in Names, NEW policy \in Int,
           NEW ack \in BOOLEAN
    PROVE  [cmd EXCEPT !.key = key, !.policy = policy, !.ack = ack] \in CmdType
  BY DEF CmdType

LEMMA FinishType ==
    ASSUME NEW s \in ServiceType, NEW phase \in Names
    PROVE  Finish(s, phase) \in ServiceType
  <1> DEFINE cmd == [s.cmd EXCEPT !.key = "none", !.policy = 0, !.ack = FALSE]
  <1>1. cmd \in CmdType
    <2>1. s.cmd \in CmdType
      BY DEF ServiceType
    <2>2. "none" \in Names /\ 0 \in Int /\ FALSE \in BOOLEAN
      BY NameFacts
    <2> QED
      BY <2>1, <2>2, CmdWith, Zenon
  <1>2. Finish(s, phase) =
          [s EXCEPT !.phase = phase, !.target = "none", !.source = "POWER_OFF",
                    !.cmd = cmd]
    BY DEF Finish, ServiceType, CmdType
  <1> HIDE DEF cmd
  <1> QED
    BY <1>1, <1>2, NameFacts DEF ServiceType

LEMMA ClearInputType ==
    ASSUME NEW s \in ServiceType PROVE ClearInput(s) \in ServiceType
  <1> DEFINE ended == IF s.phase = "accepted" THEN Finish(s, "cancelled") ELSE s
             n == Larger(s.cmd.seq, s.st.seq) + 1
             cmd == [Neutral EXCEPT !.op = "CANCEL", !.seq = n]
  <1>1. ended \in ServiceType
    BY FinishType, NameFacts
  <1>2. n \in Int
    BY LargerInt DEF ServiceType, CmdType, StatusType
  <1>3. cmd \in CmdType
    <2> HIDE DEF n
    <2> QED
      BY <1>2, NeutralType, NameFacts DEF CmdType
  <1>4. ClearInput(s) = [ended EXCEPT !.owner = Nobody, !.acts = FALSE, !.cmd = cmd]
    BY DEF ClearInput
  <1> HIDE DEF ended, cmd
  <1> QED
    BY <1>1, <1>3, <1>4 DEF ServiceType

LEMMA VerdictType ==
    ASSUME NEW s, NEW f PROVE Verdict(s, f) \in {"none", "completed", "rejected"}
  BY DEF Verdict

LEMMA UpdateStatusType ==
    ASSUME NEW s \in ServiceType, NEW f \in StatusType
    PROVE  UpdateStatus(s, f) \in ServiceType
  <1> DEFINE changed == f.mode # s.st.mode
             verdict == Verdict(s, f)
             answered == verdict # "none" /\ s.op \in {"interaction", "cancel"}
                           /\ f.seq = s.cmd.seq
             seen == [s EXCEPT
                !.st = f, !.fresh = TRUE, !.samples = IF @ < 2 THEN @ + 1 ELSE 2,
                !.cmd.moving = @ /\ ~changed,
                !.cmd.key = IF changed /\ s.op # "state" THEN "none" ELSE @,
                !.cmd.op = IF answered THEN "NONE" ELSE @]
  <1>1. seen \in ServiceType
    <2> DEFINE cmd == [s.cmd EXCEPT
                 !.moving = @ /\ ~changed,
                 !.key = IF changed /\ s.op # "state" THEN "none" ELSE @,
                 !.op = IF answered THEN "NONE" ELSE @]
               samples == IF s.samples < 2 THEN s.samples + 1 ELSE 2
    <2>1. cmd \in CmdType
      <3> HIDE DEF changed, answered
      <3> QED
        BY NameFacts DEF ServiceType, CmdType
    <2>2. samples \in Int
      BY DEF ServiceType
    <2>3. seen = [s EXCEPT !.st = f, !.fresh = TRUE, !.samples = samples, !.cmd = cmd]
      <3> HIDE DEF changed, answered
      <3> QED
        BY DEF ServiceType, CmdType
    <2> HIDE DEF cmd, samples, seen
    <2> QED
      BY <2>1, <2>2, <2>3 DEF ServiceType
  <1>2. UpdateStatus(s, f) = IF verdict = "none" THEN seen ELSE Finish(seen, verdict)
    BY DEF UpdateStatus
  <1>3. verdict \in Names
    BY VerdictType, NameFacts
  <1> HIDE DEF verdict, seen
  <1> QED
    BY <1>1, <1>2, <1>3, FinishType

LEMMA TickType ==
    ASSUME NEW s \in ServiceType, NEW due PROVE Tick(s, due) \in ServiceType
  <1> DEFINE owned == IF s.owner # Nobody /\ ("lease" \in due \/ ~Online(s))
                      THEN ClearInput(s) ELSE s
             quiet == [owned EXCEPT
                !.cmd.moving = @ /\ "velocity" \notin due /\ s.st.mode = "RL",
                !.cmd.key = IF "reference" \in due /\ @ = "reference"
                            THEN "none" ELSE @]
             expired == IF "request" \in due /\ s.phase = "accepted"
                        THEN Finish(quiet, "expired") ELSE quiet
  <1>1. owned \in ServiceType
    BY ClearInputType
  <1>2. quiet \in ServiceType
    <2> HIDE DEF owned
    <2> QED
      BY <1>1, NameFacts DEF ServiceType, CmdType
  <1>3. expired \in ServiceType
    <2> HIDE DEF quiet
    <2> QED
      BY <1>2, FinishType, NameFacts
  <1>4. Tick(s, due) = [expired EXCEPT
            !.cmd = IF s.st.mode # "RL" \/ s.st.seq = @.seq
                    THEN [@ EXCEPT !.op = "NONE"] ELSE @]
    BY DEF Tick
  <1> HIDE DEF expired
  <1> QED
    BY <1>3, <1>4, NameFacts DEF ServiceType, CmdType

LEMMA StatusOfType ==
    ASSUME NEW c \in ControlType PROVE StatusOf(c) \in StatusType
  BY DEF StatusOf, ControlType, StatusType

LEMMA NextInteractionType ==
    ASSUME NEW s \in ServiceType, NEW op \in Names
    PROVE  NextInteraction(s, op) \in ServiceType
  <1> DEFINE n == Larger(s.cmd.seq, s.st.seq) + 1
  <1>1. n \in Int
    BY LargerInt DEF ServiceType, CmdType, StatusType
  <1>2. NextInteraction(s, op) = [s EXCEPT !.cmd = [s.cmd EXCEPT !.op = op, !.seq = n]]
    BY DEF NextInteraction, ServiceType, CmdType
  <1> HIDE DEF n
  <1>3. [s.cmd EXCEPT !.op = op, !.seq = n] \in CmdType
    BY <1>1 DEF ServiceType, CmdType
  <1> QED
    BY <1>2, <1>3 DEF ServiceType

LEMMA AcceptedType ==
    ASSUME NEW s \in ServiceType, NEW op \in Names, NEW target \in Names
    PROVE  Accepted(s, op, target) \in ServiceType
  <1> DEFINE mode == s.st.mode
  <1>1. mode \in Names
    BY DEF ServiceType, StatusType
  <1>2. Accepted(s, op, target) =
          [s EXCEPT !.phase = "accepted", !.op = op, !.target = target,
                    !.source = mode, !.sent = FALSE]
    BY DEF Accepted
  <1> HIDE DEF mode
  <1> QED
    BY <1>1, <1>2, NameFacts DEF ServiceType

\* The service with another command.
LEMMA ServiceWith ==
    ASSUME NEW s \in ServiceType, NEW cmd \in CmdType
    PROVE  [s EXCEPT !.cmd = cmd] \in ServiceType
  BY DEF ServiceType

LEMMA KeyType ==
    ASSUME NEW s \in ServiceType, NEW key \in Names
    PROVE  [s EXCEPT !.cmd.key = key] \in ServiceType
  BY DEF ServiceType, CmdType

-----------------------------------------------------------------------------
(* What control makes of a command keeps its form.                         *)

LEMMA FollowActionType ==
    ASSUME NEW c \in ControlType PROVE FollowAction(c) \in ControlType
  <1> DEFINE n == c.cmd.seq
             ok == StartsAction(c) \/ (c.cmd.op = "CANCEL" /\ CanRun(c))
             busy == StartsAction(c)
                       \/ (c.busy /\ ~(c.cmd.op = "CANCEL" /\ CanRun(c)))
  <1>1. n \in Int
    BY DEF ControlType, CmdType
  <1>2. ok \in BOOLEAN /\ busy \in BOOLEAN
    OBVIOUS
  <1>3. FollowAction(c) = IF ~IsNewAction(c) THEN c
                          ELSE [c EXCEPT !.lastSeq = n, !.seq = n, !.ok = ok,
                                         !.busy = busy]
    BY DEF FollowAction
  <1> HIDE DEF n, ok, busy
  <1> QED
    BY <1>1, <1>2, <1>3 DEF ControlType

LEMMA FollowPolicyType ==
    ASSUME NEW c \in ControlType PROVE FollowPolicy(c) \in ControlType
  <1> DEFINE n == c.cmd.policy
             allowed == c.mode \in {"POWER_OFF", "DAMP", "RL"} /\ ~c.latched
                          /\ c.cmd.key = "none"
             phase == IF allowed THEN "PREPARING" ELSE "REJECTED"
  <1>1. n \in Int
    BY DEF ControlType, CmdType
  <1>2. phase \in Names
    BY NameFacts
  <1>3. FollowPolicy(c) = IF n = c.lastPolicy \/ n = 0 THEN [c EXCEPT !.lastPolicy = n]
                          ELSE [c EXCEPT !.lastPolicy = n, !.policy = n,
                                         !.policyPhase = phase]
    BY DEF FollowPolicy
  <1> HIDE DEF n, phase
  <1> QED
    BY <1>1, <1>2, <1>3 DEF ControlType

LEMMA FollowKeyType ==
    ASSUME NEW c \in ControlType PROVE FollowKey(c) \in ControlType
  <1> DEFINE key == c.cmd.key
             mode == IF key \in Modes /\ Prerequisite(key, c.mode)
                        /\ (c.latched => key = "POWER_OFF")
                     THEN key ELSE c.mode
             busy == c.busy /\ mode = "RL"
             cmd == [c.cmd EXCEPT !.moving = @ /\ mode = "RL"]
             latched == c.latched /\ ~(c.cmd.ack /\ ~c.active /\ mode = "POWER_OFF")
  <1>1. mode \in Names
    BY DEF ControlType, CmdType
  <1>2. busy \in BOOLEAN /\ latched \in BOOLEAN
    OBVIOUS
  <1>3. cmd \in CmdType
    <2> HIDE DEF mode
    <2> QED
      BY DEF ControlType, CmdType
  <1>4. FollowKey(c) = [c EXCEPT !.mode = mode, !.busy = busy, !.cmd = cmd,
                                 !.latched = latched]
    BY DEF FollowKey, ControlType, CmdType
  <1> HIDE DEF mode, busy, cmd, latched
  <1> QED
    BY <1>1, <1>2, <1>3, <1>4 DEF ControlType

LEMMA CycleType ==
    ASSUME NEW c \in ControlType, Cycle(c) PROVE ctl' \in ControlType
  BY FollowActionType, FollowPolicyType, FollowKeyType DEF Cycle

LEMMA DroppedType ==
    ASSUME NEW cmd \in CmdType PROVE Dropped(cmd) \in CmdType
  <1> DEFINE n == cmd.seq + 1
  <1>1. n \in Int
    BY DEF CmdType
  <1>2. Dropped(cmd) = [Neutral EXCEPT !.seq = n, !.op = "CANCEL"]
    BY DEF Dropped
  <1> HIDE DEF n
  <1> QED
    BY <1>1, <1>2, NeutralType, NameFacts DEF CmdType

LEMMA ReleasedType ==
    ASSUME svc \in ServiceType, NEW c PROVE Released(c) \in ServiceType
  BY ClearInputType DEF Released

LEMMA SafetyRequestType ==
    ASSUME svc \in ServiceType, NEW c \in Clients, NEW target \in {"DAMP", "POWER_OFF"}
    PROVE  SafetyRequest(c, target) \in ServiceType
  <1> DEFINE cleared == ClearInput(svc)
             kept == IF svc.owner = c THEN [cleared EXCEPT !.owner = c, !.acts = TRUE]
                     ELSE cleared
             taken == Accepted(kept, "state", target)
  <1>1. cleared \in ServiceType
    BY ClearInputType
  <1>2. kept \in ServiceType
    <2> HIDE DEF cleared
    <2> QED
      BY <1>1 DEF ServiceType
  <1>3. target \in Names
    BY NameFacts
  <1>4. taken \in ServiceType
    <2> HIDE DEF kept
    <2> QED
      BY <1>2, <1>3, AcceptedType, NameFacts
  <1>5. [taken EXCEPT !.cmd.key = target] \in ServiceType
    <2> HIDE DEF taken
    <2> QED
      BY <1>3, <1>4, KeyType
  <1>6. SafetyRequest(c, target) = IF Prerequisite(target, kept.st.mode)
                                   THEN [taken EXCEPT !.cmd.key = target] ELSE kept
    BY DEF SafetyRequest
  <1> HIDE DEF kept, taken
  <1> QED
    BY <1>2, <1>5, <1>6

LEMMA OwnerRequestType ==
    ASSUME svc \in ServiceType, NEW op, NEW s \in OwnerRequest(op)
    PROVE  s \in ServiceType /\ s.owner = svc.owner
  <1>1. CASE op = "policy"
    <2> DEFINE n == Larger(svc.policySeq, svc.st.policy) + 1
               taken == Accepted(svc, "policy", "policy")
    <2>1. n \in Int
      BY LargerInt DEF ServiceType, StatusType
    <2>2. taken \in ServiceType /\ taken.owner = svc.owner
      BY AcceptedType, NameFacts DEF Accepted, ServiceType
    <2>3. s = [taken EXCEPT !.cmd.moving = FALSE, !.cmd.policy = n, !.policySeq = n]
      BY <1>1 DEF OwnerRequest
    <2> HIDE DEF n, taken
    <2>4. s = [taken EXCEPT !.cmd = [taken.cmd EXCEPT !.moving = FALSE, !.policy = n],
                            !.policySeq = n]
      BY <2>2, <2>3 DEF ServiceType, CmdType
    <2>5. [taken.cmd EXCEPT !.moving = FALSE, !.policy = n] \in CmdType
      BY <2>1, <2>2 DEF ServiceType, CmdType
    <2> QED
      BY <2>1, <2>2, <2>4, <2>5 DEF ServiceType
  <1>2. CASE op \in {"interaction", "cancel"}
    <2> DEFINE kind == IF op = "interaction" THEN "START" ELSE "CANCEL"
               next == NextInteraction(svc, kind)
    <2>1. kind \in Names /\ op \in Names
      BY <1>2, NameFacts
    <2>2. next \in ServiceType /\ next.owner = svc.owner
      <3> HIDE DEF kind
      <3> QED
        BY <2>1, NextInteractionType DEF NextInteraction, ServiceType
    <2>3. s = Accepted(next, op, "none")
      BY <1>2 DEF OwnerRequest
    <2> HIDE DEF next
    <2> QED
      BY <2>1, <2>2, <2>3, AcceptedType, NameFacts DEF Accepted, ServiceType
  <1>3. CASE op = "reference"
    <2>1. s = [svc EXCEPT !.cmd.key = "reference", !.phase = "sent", !.op = op]
      BY <1>3 DEF OwnerRequest
    <2>2. [svc.cmd EXCEPT !.key = "reference"] \in CmdType
      BY NameFacts DEF ServiceType, CmdType
    <2>3. s = [svc EXCEPT !.cmd = [svc.cmd EXCEPT !.key = "reference"],
                          !.phase = "sent", !.op = op]
      BY <2>1 DEF ServiceType, CmdType
    <2> QED
      BY <1>3, <2>2, <2>3, NameFacts DEF ServiceType
  <1>4. CASE op = "state"
    <2>1. PICK target \in {"HOME", "ZERO", "RL"} :
            s = [Accepted(svc, op, target) EXCEPT !.cmd.key = target]
      BY <1>4 DEF OwnerRequest
    <2>2. target \in Names /\ op \in Names
      BY <1>4, NameFacts
    <2>3. Accepted(svc, op, target) \in ServiceType
          /\ Accepted(svc, op, target).owner = svc.owner
      BY <2>2, AcceptedType DEF Accepted, ServiceType
    <2> QED
      BY <2>1, <2>2, <2>3, KeyType DEF ServiceType
  <1>5. CASE op = "ack"
    <2> DEFINE taken == Accepted(svc, op, "none")
    <2>1. taken \in ServiceType /\ taken.owner = svc.owner
      BY <1>5, AcceptedType, NameFacts DEF Accepted, ServiceType
    <2>2. s = [taken EXCEPT !.cmd.ack = TRUE]
      BY <1>5 DEF OwnerRequest
    <2> HIDE DEF taken
    <2> QED
      BY <2>1, <2>2 DEF ServiceType, CmdType
  <1>6. op \in {"policy", "interaction", "cancel", "reference", "state", "ack"}
    BY DEF OwnerRequest
  <1> QED
    BY <1>1, <1>2, <1>3, <1>4, <1>5, <1>6

-----------------------------------------------------------------------------
(* A command that needs no owner                                           *)

Harmless(cmd) ==
    /\ ~cmd.moving /\ cmd.op # "START" /\ cmd.policy = 0 /\ ~cmd.ack
    /\ cmd.key \notin {"HOME", "ZERO", "RL", "reference"}

Good(s) == s.owner = Nobody => Harmless(s.cmd)

LEMMA FinishGood ==
    ASSUME NEW s \in ServiceType, NEW phase
    PROVE  /\ Finish(s, phase).owner = s.owner
           /\ Harmless(s.cmd) => Harmless(Finish(s, phase).cmd)
  BY DEF Finish, ServiceType, CmdType, Harmless

LEMMA ClearInputGood ==
    ASSUME NEW s \in ServiceType
    PROVE  ClearInput(s).owner = Nobody /\ Harmless(ClearInput(s).cmd)
  <1> DEFINE ended == IF s.phase = "accepted" THEN Finish(s, "cancelled") ELSE s
             n == Larger(s.cmd.seq, s.st.seq) + 1
             cmd == [Neutral EXCEPT !.op = "CANCEL", !.seq = n]
  <1>1. ended \in ServiceType
    BY FinishType, NameFacts
  <1>2. ClearInput(s) = [ended EXCEPT !.owner = Nobody, !.acts = FALSE, !.cmd = cmd]
    BY DEF ClearInput
  <1>3. Harmless(cmd)
    BY DEF Neutral, Harmless
  <1> HIDE DEF ended, cmd
  <1> QED
    BY <1>1, <1>2, <1>3 DEF ServiceType

LEMMA UpdateStatusGood ==
    ASSUME NEW s \in ServiceType, NEW f \in StatusType, Good(s)
    PROVE  UpdateStatus(s, f).owner = s.owner /\ Good(UpdateStatus(s, f))
  <1> DEFINE changed == f.mode # s.st.mode
             verdict == Verdict(s, f)
             answered == verdict # "none" /\ s.op \in {"interaction", "cancel"}
                           /\ f.seq = s.cmd.seq
             cmd == [s.cmd EXCEPT
                 !.moving = @ /\ ~changed,
                 !.key = IF changed /\ s.op # "state" THEN "none" ELSE @,
                 !.op = IF answered THEN "NONE" ELSE @]
             samples == IF s.samples < 2 THEN s.samples + 1 ELSE 2
             seen == [s EXCEPT !.st = f, !.fresh = TRUE, !.samples = samples,
                               !.cmd = cmd]
  <1>1. UpdateStatus(s, f) = IF verdict = "none" THEN seen ELSE Finish(seen, verdict)
    <2> DEFINE seen0 == [s EXCEPT
                  !.st = f, !.fresh = TRUE, !.samples = IF @ < 2 THEN @ + 1 ELSE 2,
                  !.cmd.moving = @ /\ ~changed,
                  !.cmd.key = IF changed /\ s.op # "state" THEN "none" ELSE @,
                  !.cmd.op = IF answered THEN "NONE" ELSE @]
    <2>1. UpdateStatus(s, f) = IF verdict = "none" THEN seen0 ELSE Finish(seen0, verdict)
      BY DEF UpdateStatus
    <2>2. seen0 = seen
      <3> HIDE DEF changed, answered
      <3> QED
        BY DEF ServiceType, CmdType
    <2> HIDE DEF seen0, seen, verdict
    <2> QED
      BY <2>1, <2>2
  <1>2. cmd \in CmdType /\ (Harmless(s.cmd) => Harmless(cmd))
    <2> HIDE DEF changed, answered
    <2> QED
      BY NameFacts DEF ServiceType, CmdType, Harmless
  <1>3. samples \in Int
    BY DEF ServiceType
  <1>4. seen \in ServiceType /\ seen.owner = s.owner /\ seen.cmd = cmd
    <2> HIDE DEF cmd, samples
    <2> QED
      BY <1>2, <1>3 DEF ServiceType
  <1> HIDE DEF verdict, cmd, seen
  <1> QED
    BY <1>1, <1>2, <1>4, FinishGood DEF Good

LEMMA TickGood ==
    ASSUME NEW s \in ServiceType, NEW due, Good(s)
    PROVE  Tick(s, due).owner \in {s.owner, Nobody} /\ Good(Tick(s, due))
  <1> DEFINE owned == IF s.owner # Nobody /\ ("lease" \in due \/ ~Online(s))
                      THEN ClearInput(s) ELSE s
             quiet == [owned EXCEPT
                !.cmd.moving = @ /\ "velocity" \notin due /\ s.st.mode = "RL",
                !.cmd.key = IF "reference" \in due /\ @ = "reference"
                            THEN "none" ELSE @]
             expired == IF "request" \in due /\ s.phase = "accepted"
                        THEN Finish(quiet, "expired") ELSE quiet
  <1>1. owned \in ServiceType /\ owned.owner \in {s.owner, Nobody} /\ Good(owned)
    BY ClearInputType, ClearInputGood DEF Good
  <1>2. quiet \in ServiceType /\ quiet.owner = owned.owner /\ Good(quiet)
    <2> HIDE DEF owned
    <2> QED
      BY <1>1, NameFacts DEF ServiceType, CmdType, Good, Harmless
  <1>3. expired \in ServiceType /\ expired.owner = owned.owner /\ Good(expired)
    <2> HIDE DEF quiet
    <2> QED
      BY <1>2, FinishType, FinishGood, NameFacts DEF Good
  <1>4. Tick(s, due) = [expired EXCEPT
            !.cmd = IF s.st.mode # "RL" \/ s.st.seq = @.seq
                    THEN [@ EXCEPT !.op = "NONE"] ELSE @]
    BY DEF Tick
  <1> HIDE DEF expired, owned
  <1> QED
    BY <1>1, <1>3, <1>4 DEF ServiceType, CmdType, Good, Harmless

LEMMA SafetyRequestGood ==
    ASSUME svc \in ServiceType, NEW c \in Clients, NEW target \in {"DAMP", "POWER_OFF"}
    PROVE  /\ SafetyRequest(c, target).owner \in {svc.owner, Nobody}
           /\ Good(SafetyRequest(c, target))
  <1> DEFINE cleared == ClearInput(svc)
             kept == IF svc.owner = c THEN [cleared EXCEPT !.owner = c, !.acts = TRUE]
                     ELSE cleared
             taken == Accepted(kept, "state", target)
  <1>1. cleared \in ServiceType /\ cleared.owner = Nobody /\ Harmless(cleared.cmd)
    BY ClearInputType, ClearInputGood
  <1>2. /\ kept \in ServiceType /\ kept.owner \in {svc.owner, Nobody}
        /\ Harmless(kept.cmd)
    <2> HIDE DEF cleared
    <2> QED
      BY <1>1 DEF ServiceType
  <1>3. target \in Names
    BY NameFacts
  <1>4. taken \in ServiceType /\ taken.owner = kept.owner /\ taken.cmd = kept.cmd
    <2> HIDE DEF kept
    <2> QED
      BY <1>2, <1>3, AcceptedType, NameFacts DEF Accepted, ServiceType
  <1>5. SafetyRequest(c, target) = IF Prerequisite(target, kept.st.mode)
                                   THEN [taken EXCEPT !.cmd.key = target] ELSE kept
    BY DEF SafetyRequest
  <1> HIDE DEF kept, taken
  <1> QED
    BY <1>2, <1>4, <1>5 DEF ServiceType, CmdType, Good, Harmless

-----------------------------------------------------------------------------
(* The invariant: the owner is an administrator with an open session, a    *)
(* password that is being checked is that of a viewer, who therefore is    *)
(* not the owner, and a command in nobody's name is harmless.              *)

OperatorTypeOK ==
    /\ session \in [Clients -> {"closed", "viewer", "admin"}]
    /\ login \in Clients \cup {Nobody}
    /\ svc \in ServiceType /\ ctl \in ControlType /\ link \in LinkType

OwnerInv ==
    /\ OperatorTypeOK
    /\ login # Nobody => session[login] = "viewer"
    /\ svc.owner # Nobody => session[svc.owner] = "admin"
    /\ Good(svc)

LEMMA NobodyIsNoClient == Nobody \notin Clients
  BY OperatorAssumption DEF Nobody

\* Steps of the service that leave the sessions alone.
LEMMA ServiceStep ==
    ASSUME OwnerInv, svc' \in ServiceType, Good(svc'),
           svc'.owner \in {svc.owner, Nobody},
           UNCHANGED <<session, login>>, ctl' \in ControlType, link' \in LinkType
    PROVE  OwnerInv'
  BY DEF OwnerInv, OperatorTypeOK, Good, Harmless

\* Steps of control and of the link.
LEMMA ControlStep ==
    ASSUME OwnerInv, UNCHANGED <<session, login, svc>>, ctl' \in ControlType,
           link' \in LinkType
    PROVE  OwnerInv'
  BY DEF OwnerInv, OperatorTypeOK, Good, Harmless

\* What is released is harmless, and no longer owned by c.
LEMMA ReleasedGood ==
    ASSUME OwnerInv, NEW c \in Clients
    PROVE  /\ Released(c) \in ServiceType /\ Good(Released(c))
           /\ Released(c).owner \in {svc.owner, Nobody} \ {c}
  BY ClearInputType, ClearInputGood, NobodyIsNoClient
     DEF Released, OwnerInv, OperatorTypeOK, Good

LEMMA SessionSteps ==
    ASSUME OwnerInv, NEW c \in Clients,
           \/ AdminLogin(c) \/ AdminLogout(c) \/ Disconnect(c)
           \/ \E right \in {"viewer", "admin"} : Hello(c, right) \/ LoginChecked(c, right)
    PROVE  OwnerInv'
  <1> USE NobodyIsNoClient
  <1>1. CASE AdminLogin(c)
    BY <1>1 DEF AdminLogin, OwnerInv, OperatorTypeOK, Good, Harmless
  <1>2. CASE AdminLogout(c) \/ Disconnect(c)
    <2>1. PICK right \in {"viewer", "closed"} :
            SessionStep(c, right, Released(c), LoginWithout(c))
      BY <1>2 DEF AdminLogout, Disconnect
    <2>2. /\ session' = [session EXCEPT ![c] = right] /\ svc' = Released(c)
          /\ login' = LoginWithout(c) /\ UNCHANGED <<ctl, link>>
      BY <2>1 DEF SessionStep
    <2>3. OperatorTypeOK'
      BY <2>2, ReleasedGood DEF OwnerInv, OperatorTypeOK, LoginWithout
    <2>4. login' # Nobody => session'[login'] = "viewer"
      BY <2>2 DEF OwnerInv, OperatorTypeOK, LoginWithout
    <2>5. svc'.owner # Nobody => session'[svc'.owner] = "admin"
      <3>1. svc'.owner \in {svc.owner, Nobody} /\ svc'.owner # c
        BY <2>2, ReleasedGood
      <3>2. svc'.owner \in Clients \cup {Nobody}
        BY <2>3 DEF OperatorTypeOK, ServiceType
      <3> QED
        BY <2>2, <3>1, <3>2 DEF OwnerInv, OperatorTypeOK
    <2>6. Good(svc')
      BY <2>2, ReleasedGood
    <2> QED
      BY <2>3, <2>4, <2>5, <2>6 DEF OwnerInv, Good, Harmless
  <1>3. ASSUME NEW right \in {"viewer", "admin"}, Hello(c, right) PROVE OwnerInv'
    <2>1. /\ session' = [session EXCEPT ![c] = right] /\ session[c] = "closed"
          /\ UNCHANGED <<login, svc, ctl, link>>
      BY <1>3 DEF Hello
    <2>2. login # c /\ svc.owner # c
      BY <2>1 DEF OwnerInv
    <2> QED
      BY <2>1, <2>2 DEF OwnerInv, OperatorTypeOK, Good, Harmless, ServiceType
  <1>4. ASSUME NEW right \in {"viewer", "admin"}, LoginChecked(c, right) PROVE OwnerInv'
    <2>1. /\ session' = [session EXCEPT ![c] = right] /\ login = c
          /\ login' = Nobody /\ UNCHANGED <<svc, ctl, link>>
      BY <1>4 DEF LoginChecked, SessionStep
    <2>2. svc.owner # c
      BY <2>1 DEF OwnerInv
    <2> QED
      BY <2>1, <2>2 DEF OwnerInv, OperatorTypeOK, Good, Harmless, ServiceType
  <1> QED
    BY <1>1, <1>2, <1>3, <1>4

LEMMA RequestSteps ==
    ASSUME OwnerInv, NEW c \in Clients,
           \/ AskAcquire(c) \/ AskStop(c) \/ AskRelease(c) \/ AskVelocity(c)
           \/ \E target \in {"DAMP", "POWER_OFF"} : AskSafety(c, target)
           \/ \E op \in Operations : AskOwner(c, op)
    PROVE  OwnerInv'
  <1> USE NobodyIsNoClient
  <1>0. svc \in ServiceType /\ ctl \in ControlType /\ link \in LinkType
    BY DEF OwnerInv, OperatorTypeOK
  <1>1. ASSUME NEW s, Asks(c, s)
        PROVE  /\ svc' = s /\ session[c] = "admin"
               /\ UNCHANGED <<session, login, ctl, link>>
    BY <1>1 DEF Asks
  <1>2. CASE AskAcquire(c)
    <2> DEFINE s == [svc EXCEPT !.owner = c, !.acts = TRUE]
    <2>1. s \in ServiceType /\ s.owner = c
      BY <1>0 DEF ServiceType
    <2>2. Asks(c, s)
      BY <1>2 DEF AskAcquire
    <2> HIDE DEF s
    <2> QED
      BY <1>1, <2>1, <2>2 DEF OwnerInv, OperatorTypeOK, Good, Harmless
  <1>3. CASE AskStop(c) \/ AskRelease(c)
    <2>1. Asks(c, ClearInput(svc))
      BY <1>3 DEF AskStop, AskRelease
    <2>2. svc' = ClearInput(svc) /\ UNCHANGED <<session, login, ctl, link>>
      BY <1>1, <2>1
    <2> QED
      BY <1>0, <2>2, ClearInputType, ClearInputGood, ServiceStep DEF Good
  <1>4. CASE AskVelocity(c)
    <2> DEFINE s == [svc EXCEPT !.cmd.moving = TRUE]
    <2>1. s \in ServiceType /\ s.owner = svc.owner
      BY <1>0 DEF ServiceType, CmdType
    <2>2. Asks(c, s) /\ svc.owner = c
      BY <1>4 DEF AskVelocity
    <2> HIDE DEF s
    <2> QED
      BY <1>1, <2>1, <2>2 DEF OwnerInv, OperatorTypeOK, Good, Harmless
  <1>5. ASSUME NEW target \in {"DAMP", "POWER_OFF"}, AskSafety(c, target)
        PROVE  OwnerInv'
    <2>1. Asks(c, SafetyRequest(c, target))
      BY <1>5 DEF AskSafety
    <2>2. svc' = SafetyRequest(c, target) /\ UNCHANGED <<session, login, ctl, link>>
      BY <1>1, <2>1
    <2> QED
      BY <1>0, <2>2, SafetyRequestType, SafetyRequestGood, ServiceStep
  <1>6. ASSUME NEW op \in Operations, AskOwner(c, op) PROVE OwnerInv'
    <2>1. PICK s \in OwnerRequest(op) : Asks(c, s) /\ svc.owner = c
      BY <1>6 DEF AskOwner
    <2>2. s \in ServiceType /\ s.owner = c
      BY <1>0, <2>1, OwnerRequestType
    <2> QED
      BY <1>1, <2>1, <2>2 DEF OwnerInv, OperatorTypeOK, Good, Harmless
  <1> QED
    BY <1>2, <1>3, <1>4, <1>5, <1>6

LEMMA PumpStep ==
    ASSUME OwnerInv, NEW heard \in BOOLEAN, NEW due, Pump(heard, due)
    PROVE  OwnerInv'
  <1> DEFINE seen == IF heard THEN UpdateStatus(svc, StatusOf(ctl))
                     ELSE [svc EXCEPT !.fresh = @ /\ "status" \notin due]
             ticked == Tick(seen, due)
  <1>1. svc \in ServiceType /\ ctl \in ControlType /\ link \in LinkType /\ Good(svc)
    BY DEF OwnerInv, OperatorTypeOK
  <1>2. seen \in ServiceType /\ seen.owner = svc.owner /\ Good(seen)
    <2>1. CASE heard
      BY <1>1, <2>1, UpdateStatusType, UpdateStatusGood, StatusOfType
    <2>2. CASE ~heard
      BY <1>1, <2>2 DEF ServiceType, Good
    <2> QED
      BY <2>1, <2>2
  <1>3. svc' = [ticked EXCEPT !.sent = TRUE] /\ UNCHANGED <<session, login, ctl>>
    BY DEF Pump
  <1>4. ticked \in ServiceType /\ ticked.owner \in {svc.owner, Nobody} /\ Good(ticked)
    <2> HIDE DEF seen
    <2> QED
      BY <1>2, TickType, TickGood DEF Good
  <1>5. svc' \in ServiceType /\ svc'.owner \in {svc.owner, Nobody} /\ Good(svc')
    <2> HIDE DEF ticked
    <2> QED
      BY <1>3, <1>4 DEF ServiceType, Good
  <1>6. link' \in LinkType
    <2>1. link' = IF link.up THEN [link EXCEPT !.cmd = svc'.cmd] ELSE link
      BY DEF Pump
    <2> QED
      BY <1>1, <1>5, <2>1 DEF LinkType, ServiceType
  <1> QED
    BY <1>1, <1>3, <1>5, <1>6, ServiceStep

LEMMA ControlStepsKeep ==
    ASSUME OwnerInv, ControlSteps PROVE OwnerInv'
  <1>1. svc \in ServiceType /\ ctl \in ControlType /\ link \in LinkType
    BY DEF OwnerInv, OperatorTypeOK
  <1>2. CASE ControlReceives
    <2> DEFINE c == [ctl EXCEPT !.cmd = link.cmd, !.conn = TRUE]
    <2>1. link.cmd \in CmdType
      BY <1>1, <1>2 DEF ControlReceives, LinkType
    <2>2. c \in ControlType
      BY <1>1, <2>1 DEF ControlType
    <2>3. /\ Cycle(c) /\ UNCHANGED <<session, login, svc>>
          /\ link' = [link EXCEPT !.cmd = NoFrame]
      BY <1>2 DEF ControlReceives, Cycle
    <2> HIDE DEF c
    <2>4. ctl' \in ControlType
      BY <2>2, <2>3, CycleType
    <2>5. link' \in LinkType
      BY <1>1, <2>3 DEF LinkType
    <2> QED
      BY <2>3, <2>4, <2>5, ControlStep
  <1>3. CASE HmiTimesOut
    <2> DEFINE cmd == Dropped(ctl.cmd)
               c == [ctl EXCEPT !.cmd = cmd, !.conn = FALSE]
    <2>1. cmd \in CmdType
      BY <1>1, DroppedType DEF ControlType
    <2>2. c \in ControlType
      <3> HIDE DEF cmd
      <3> QED
        BY <1>1, <2>1 DEF ControlType
    <2>3. Cycle(c) /\ UNCHANGED <<session, login, svc, link>>
      BY <1>3 DEF HmiTimesOut, Cycle
    <2> HIDE DEF c
    <2>4. ctl' \in ControlType
      BY <2>2, <2>3, CycleType
    <2> QED
      BY <1>1, <2>3, <2>4, ControlStep
  <1>4. CASE FaultStrikes
    <2> DEFINE mode == IF ctl.mode = "POWER_OFF" THEN ctl.mode ELSE "SAFETY"
               cmd == [ctl.cmd EXCEPT !.moving = FALSE]
    <2>1. mode \in Names /\ cmd \in CmdType
      BY <1>1, NameFacts DEF ControlType, CmdType
    <2>2. /\ UNCHANGED <<session, login, svc, link>>
          /\ ctl' = [ctl EXCEPT !.latched = TRUE, !.active = TRUE, !.busy = FALSE,
                                !.cmd = cmd, !.mode = mode]
      BY <1>1, <1>4 DEF FaultStrikes, ControlChanges, ControlType, CmdType
    <2> HIDE DEF mode, cmd
    <2>3. ctl' \in ControlType
      BY <1>1, <2>1, <2>2 DEF ControlType
    <2> QED
      BY <1>1, <2>2, <2>3, ControlStep
  <1>5. CASE FaultEnds \/ ActionEnds \/ \E phase \in {"READY", "FAILED"} : PolicyPrepared(phase)
    <2>1. /\ UNCHANGED <<session, login, svc, link>>
          /\ \/ ctl' = [ctl EXCEPT !.active = FALSE]
             \/ ctl' = [ctl EXCEPT !.busy = FALSE]
             \/ \E phase \in {"READY", "FAILED"} : ctl' = [ctl EXCEPT !.policyPhase = phase]
      BY <1>5 DEF FaultEnds, ActionEnds, PolicyPrepared, ControlChanges
    <2>2. {"READY", "FAILED"} \subseteq Names
      BY NameFacts
    <2>3. ctl' \in ControlType
      BY <1>1, <2>1, <2>2 DEF ControlType
    <2> QED
      BY <1>1, <2>1, <2>3, ControlStep
  <1> QED
    BY <1>2, <1>3, <1>4, <1>5 DEF ControlSteps

LEMMA FailureSteps ==
    ASSUME OwnerInv, Failures PROVE OwnerInv'
  <1>1. svc \in ServiceType /\ ctl \in ControlType /\ link \in LinkType
    BY DEF OwnerInv, OperatorTypeOK
  <1>2. CASE LinkRecovers \/ \E lost \in BOOLEAN : LinkFails(lost)
    <2>1. UNCHANGED <<session, login, svc, ctl>>
      BY <1>2 DEF LinkRecovers, LinkFails
    <2>2. link' \in LinkType
      <3>1. CASE LinkRecovers
        BY <1>1, <3>1 DEF LinkRecovers, LinkType
      <3>2. CASE \E lost \in BOOLEAN : LinkFails(lost)
        <4>1. \E cmd \in {NoFrame, link.cmd} : link' = [up |-> FALSE, cmd |-> cmd]
          BY <3>2 DEF LinkFails
        <4> QED
          BY <1>1, <4>1 DEF LinkType
      <3> QED
        BY <1>2, <3>1, <3>2
    <2> QED
      BY <1>1, <2>1, <2>2, ControlStep
  <1>3. ASSUME NEW signal \in BOOLEAN, ServiceEnds(signal) PROVE OwnerInv'
    <2> DEFINE left == Released(svc.owner).cmd
               cmd == [left EXCEPT !.key = "none", !.policy = 0, !.moving = FALSE,
                                   !.ack = FALSE]
    <2>1. left \in CmdType
      BY <1>1, ReleasedType DEF ServiceType
    <2>2. cmd \in CmdType
      <3> HIDE DEF left
      <3>1. [left EXCEPT !.moving = FALSE] \in CmdType
        BY <2>1 DEF CmdType
      <3>2. cmd = [[left EXCEPT !.moving = FALSE]
                      EXCEPT !.key = "none", !.policy = 0, !.ack = FALSE]
        BY <2>1 DEF CmdType
      <3>3. "none" \in Names /\ 0 \in Int /\ FALSE \in BOOLEAN
        BY NameFacts
      <3> QED
        BY <3>1, <3>2, <3>3, CmdWith, Zenon
    <2>3. /\ session' = [d \in Clients |-> "closed"] /\ login' = Nobody
          /\ svc' = NewService /\ UNCHANGED ctl
          /\ link' = link \/ link' = [link EXCEPT !.cmd = cmd]
      BY <1>3 DEF ServiceEnds
    <2>4. link' \in LinkType
      <3> HIDE DEF cmd
      <3> QED
        BY <1>1, <2>2, <2>3 DEF LinkType
    <2>5. svc'.owner = Nobody /\ Good(svc')
      BY <2>3 DEF NewService, Good, Harmless, Neutral
    <2> QED
      BY <1>1, <2>3, <2>4, <2>5, NewServiceType DEF OwnerInv, OperatorTypeOK, Good, Harmless
  <1>4. CASE ServiceStarts
    BY <1>1, <1>4, ControlStep DEF ServiceStarts
  <1>5. CASE OwnerStalls
    <2>1. svc' = [svc EXCEPT !.acts = FALSE] /\ UNCHANGED <<session, login, ctl, link>>
      BY <1>5 DEF OwnerStalls
    <2>2. svc' \in ServiceType /\ svc'.owner = svc.owner /\ svc'.cmd = svc.cmd
      BY <1>1, <2>1 DEF ServiceType
    <2> QED
      BY <1>1, <2>1, <2>2, ServiceStep DEF OwnerInv, Good
  <1> QED
    BY <1>2, <1>3, <1>4, <1>5 DEF Failures

LEMMA OwnerInit == OperatorInit => OwnerInv
  <1> SUFFICES ASSUME OperatorInit PROVE OwnerInv
    OBVIOUS
  <1>1. PICK mode \in FirstModes, fault \in BOOLEAN :
          ctl = [cmd |-> Neutral, conn |-> FALSE, mode |-> mode, latched |-> fault,
                 active |-> FALSE, lastPolicy |-> 0, policy |-> 0,
                 policyPhase |-> "none", lastSeq |-> 0, seq |-> 0, ok |-> FALSE,
                 busy |-> FALSE]
    BY DEF OperatorInit
  <1>2. mode \in Names /\ "none" \in Names
    BY OperatorAssumption, NameFacts DEF Names
  <1>3. ctl \in ControlType
    BY <1>1, <1>2, NeutralType DEF ControlType
  <1>4. link \in LinkType /\ svc = NewService /\ login = Nobody
    BY DEF OperatorInit, LinkType
  <1>5. session \in [Clients -> {"closed", "viewer", "admin"}]
    BY DEF OperatorInit
  <1>6. svc.owner = Nobody /\ Good(svc)
    BY <1>4 DEF NewService, Good, Harmless, Neutral
  <1> QED
    BY <1>3, <1>4, <1>5, <1>6, NewServiceType DEF OwnerInv, OperatorTypeOK

(***************************************************************************)
(* The service speaks for an administrator whose session is open, or asks  *)
(* for nothing but a stop: whatever is asked, by whomever, in whichever    *)
(* order sessions, passwords, leases, reports and failures come.           *)
(***************************************************************************)
THEOREM OwnerSpeaks == OperatorSpec => []NothingWithoutOwner
  <1>1. OwnerInv /\ [OperatorNext]_operatorVars => OwnerInv'
    <2> SUFFICES ASSUME OwnerInv, [OperatorNext]_operatorVars PROVE OwnerInv'
      OBVIOUS
    <2>1. CASE Sessions
      BY <2>1, SessionSteps DEF Sessions
    <2>2. CASE Requests
      BY <2>2, RequestSteps DEF Requests
    <2>3. CASE Pumps
      BY <2>3, PumpStep DEF Pumps
    <2>4. CASE ControlSteps
      BY <2>4, ControlStepsKeep
    <2>5. CASE Failures
      BY <2>5, FailureSteps
    <2>6. CASE UNCHANGED operatorVars
      BY <2>6, ControlStep DEF operatorVars, OwnerInv, OperatorTypeOK
    <2> QED
      BY <2>1, <2>2, <2>3, <2>4, <2>5, <2>6 DEF OperatorNext
  <1>2. OwnerInv => NothingWithoutOwner
    BY DEF OwnerInv, NothingWithoutOwner, Good, Harmless
  <1> QED
    BY <1>1, <1>2, OwnerInit, PTL DEF OperatorSpec
=============================================================================
