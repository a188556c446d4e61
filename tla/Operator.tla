------------------------------- MODULE Operator -------------------------------
(***************************************************************************)
(* The operator service (service.cpp, server.cpp) between its clients and  *)
(* the control process: sessions and their rights, the lease of the one    *)
(* owner, the command that is sent at every heartbeat, the one request that*)
(* waits for control, and what control makes of the frames it receives     *)
(* (control_runtime.cpp, BehaviorManager::SetCommand).                     *)
(*                                                                         *)
(* The link holds the newest command; a status is heard or not, so that the*)
(* service may act on an old one. The link fails and recovers with or      *)
(* without the frame in flight, the service is killed or stopped and       *)
(* started again, clients stall or leave.                                  *)
(*                                                                         *)
(* Abstracted: a clock that runs out is a choice of Tick; a key is named   *)
(* for the state it asks for; velocities are zero or not; one policy and   *)
(* one action of the catalogue. The FSM of control is module               *)
(* BehaviorManager; here it follows a key at once.                         *)
(***************************************************************************)
EXTENDS Integers, FiniteSets

CONSTANTS
    Clients,      \* sessions that may be open
    Operations,   \* operations the clients ask for, of "state", "policy", ...
    FirstModes,   \* modes in which control may be when the service starts
    MaxRequests,  \* bound: connections, logins and operations of the clients
    MaxOutages    \* bound: failures of the link, of the service and of the robot

Modes == {"POWER_OFF", "DAMP", "HOME", "ZERO", "RL", "SAFETY"}

ASSUME OperatorAssumption ==
    /\ Clients # {} /\ "nobody" \notin Clients
    /\ FirstModes \subseteq Modes
    /\ MaxRequests \in Nat /\ MaxOutages \in Nat

VARIABLES
    session,   \* sessions_: "closed", "viewer" or "admin"
    login,     \* login_session_
    svc,       \* the Service object: owner, status, command, request
    serviceUp, \* the service process runs
    ctl,       \* cmd, connection and what control answers
    link,      \* newest command in flight
    asked,     \* requests so far
    outages,   \* failures so far
    started,   \* history: numbers of the actions control has started
    repeated   \* history: one of them was started twice

operatorVars == <<session, login, svc, serviceUp, ctl, link, asked,
                  outages, started, repeated>>

history == <<asked, outages, started, repeated>>

Nobody == "nobody"
NoFrame == [none |-> TRUE]
Larger(a, b) == IF a > b THEN a ELSE b

Neutral == [key |-> "none", moving |-> FALSE, policy |-> 0, seq |-> 0,
            op |-> "NONE", ack |-> FALSE]

\* A service that has just been started.
NewService ==
    [owner |-> Nobody, acts |-> FALSE, samples |-> 0, fresh |-> FALSE, cmd |-> Neutral,
     st |-> [mode |-> "POWER_OFF", latched |-> FALSE, active |-> FALSE,
             conn |-> FALSE, policy |-> 0, policyPhase |-> "none", seq |-> 0,
             ok |-> FALSE, busy |-> FALSE],
     policySeq |-> 0, phase |-> "none", op |-> "none", target |-> "none",
     source |-> "POWER_OFF", sent |-> FALSE]

\* Control may have been running for long when the service starts, and no
\* session depends on another: the clients are already there.
OperatorInit ==
    /\ session = [c \in Clients |-> "admin"] /\ login = Nobody
    /\ svc = NewService /\ serviceUp = TRUE
    /\ \E mode \in FirstModes, fault \in BOOLEAN :
         /\ fault => mode \in {"POWER_OFF", "SAFETY"}
         /\ ctl = [cmd |-> Neutral, conn |-> FALSE, mode |-> mode,
                   latched |-> fault, active |-> FALSE, lastPolicy |-> 0,
                   policy |-> 0, policyPhase |-> "none", lastSeq |-> 0,
                   seq |-> 0, ok |-> FALSE, busy |-> FALSE]
    /\ link = [up |-> TRUE, cmd |-> NoFrame]
    /\ asked = 0 /\ outages = 0 /\ started = {} /\ repeated = FALSE

-----------------------------------------------------------------------------
\* Service::Online
Online(s) == s.samples = 2 /\ s.st.conn /\ s.fresh

\* Service::Finish
Finish(s, phase) ==
    [s EXCEPT !.phase = phase, !.target = "none", !.source = "POWER_OFF",
              !.cmd.key = "none", !.cmd.policy = 0, !.cmd.ack = FALSE]

\* Service::ClearInput
VariantKeepsInput(s) == [s EXCEPT !.owner = Nobody]

ClearInput(s) ==
    LET ended == IF s.phase = "accepted" THEN Finish(s, "cancelled") ELSE s
    IN [ended EXCEPT !.owner = Nobody, !.acts = FALSE,
            !.cmd = [Neutral EXCEPT !.op = "CANCEL",
                        !.seq = Larger(s.cmd.seq, s.st.seq) + 1]]

\* The report of control.
StatusOf(c) ==
    [mode |-> c.mode, latched |-> c.latched, active |-> c.active,
     conn |-> c.conn, policy |-> c.policy, policyPhase |-> c.policyPhase,
     seq |-> c.seq, ok |-> c.ok, busy |-> c.busy]

\* What frame f says about the request of s, if anything.
Verdict(s, f) ==
    CASE s.phase # "accepted" -> "none"
      [] s.op = "state" /\ s.target = f.mode /\ (f.mode # s.source \/ s.sent)
            -> "completed"
      [] s.op = "state" /\ s.target # f.mode /\ f.mode # s.source -> "rejected"
      [] s.op = "policy" /\ f.policy = s.cmd.policy /\ f.policyPhase # "PREPARING"
            -> IF f.policyPhase = "READY" THEN "completed" ELSE "rejected"
      [] s.op \in {"interaction", "cancel"} /\ f.seq = s.cmd.seq
            -> IF f.ok THEN "completed" ELSE "rejected"
      [] s.op = "ack" /\ ~f.latched -> "completed"
      [] f.latched /\ s.op # "ack" /\ s.target \notin {"POWER_OFF", "DAMP"}
            -> "rejected"
      [] OTHER -> "none"

\* Service::UpdateStatus
UpdateStatus(s, f) ==
    LET changed == f.mode # s.st.mode
        verdict == Verdict(s, f)
        seen == [s EXCEPT
            !.st = f, !.fresh = TRUE, !.samples = IF @ < 2 THEN @ + 1 ELSE 2,
            !.cmd.moving = @ /\ ~changed,
            !.cmd.key = IF changed /\ s.op # "state" THEN "none" ELSE @,
            !.cmd.op = IF verdict # "none" /\ s.op \in {"interaction", "cancel"}
                          /\ f.seq = s.cmd.seq
                       THEN "NONE" ELSE @]
    IN IF verdict = "none" THEN seen ELSE Finish(seen, verdict)

\* Service::Tick when the clocks in due have run out.
Tick(s, due) ==
    LET owned == IF s.owner # Nobody /\ ("lease" \in due \/ ~Online(s))
                 THEN ClearInput(s) ELSE s
        quiet == [owned EXCEPT
            !.cmd.moving = @ /\ "velocity" \notin due /\ s.st.mode = "RL",
            !.cmd.key = IF "reference" \in due /\ @ = "reference"
                        THEN "none" ELSE @]
        expired == IF "request" \in due /\ s.phase = "accepted"
                   THEN Finish(quiet, "expired") ELSE quiet
    IN [expired EXCEPT !.cmd = IF s.st.mode # "RL" \/ s.st.seq = @.seq
                               THEN [@ EXCEPT !.op = "NONE"] ELSE @]

\* Server::Pump: the newest status if one is heard, Tick, and the command to
\* control, which is lost when the link is down.
Clocks == {"lease", "velocity", "reference", "request", "status"}

Pump(heard, due) ==
    /\ serviceUp
    /\ heard => link.up
    /\ "lease" \in due => svc.owner # Nobody
    /\ "status" \in due => ~link.up
    /\ UNCHANGED <<session, login, serviceUp, ctl, history>>
    /\ LET seen == IF heard THEN UpdateStatus(svc, StatusOf(ctl))
                   ELSE [svc EXCEPT !.fresh = @ /\ "status" \notin due]
       IN svc' = [Tick(seen, due) EXCEPT !.sent = TRUE]
    /\ link' = IF link.up THEN [link EXCEPT !.cmd = svc'.cmd] ELSE link

-----------------------------------------------------------------------------
(* Sessions                                                                *)

\* Only the session and what it takes with it change.
SessionStep(c, right, s, pending) ==
    /\ session' = [session EXCEPT ![c] = right]
    /\ svc' = s /\ login' = pending
    /\ UNCHANGED <<serviceUp, ctl, link, history>>

\* What is asked for in the name of c ends when c owned the control.
Released(c) == IF svc.owner = c THEN ClearInput(svc) ELSE svc
LoginWithout(c) == IF login = c THEN Nobody ELSE login

\* A session is opened and its hello names the token of the public or of the
\* control side. Until then it can do nothing and is closed after 5 seconds.
Hello(c, right) ==
    /\ serviceUp /\ session[c] = "closed" /\ asked < MaxRequests
    /\ session' = [session EXCEPT ![c] = right]
    /\ asked' = asked + 1
    /\ UNCHANGED <<login, svc, serviceUp, ctl, link, outages, started,
                   repeated>>

AdminLogin(c) ==
    /\ serviceUp /\ session[c] = "viewer" /\ login = Nobody /\ asked < MaxRequests
    /\ login' = c
    /\ asked' = asked + 1
    /\ UNCHANGED <<session, svc, serviceUp, ctl, link, outages, started,
                   repeated>>

\* The first part of Tick: the password has been checked.
LoginChecked(c, right) ==
    /\ serviceUp /\ login = c
    /\ SessionStep(c, right, svc, Nobody)

AdminLogout(c) ==
    /\ serviceUp /\ session[c] \in {"viewer", "admin"}
    /\ SessionStep(c, "viewer", Released(c), LoginWithout(c))

\* Session::Stop: the client left, sent too much, was too slow to read or
\* to authenticate, or the command could not be sent.
Disconnect(c) ==
    /\ serviceUp /\ session[c] # "closed"
    /\ SessionStep(c, "closed", Released(c), LoginWithout(c))

-----------------------------------------------------------------------------
(* Service::Handle for an authenticated administrator                      *)

\* The request is taken: one at a time.
Accepted(s, op, target) ==
    [s EXCEPT !.phase = "accepted", !.op = op, !.target = target,
              !.source = s.st.mode, !.sent = FALSE]

\* The mode in which a state may be asked for.
Prerequisite(target, mode) ==
    CASE target = "POWER_OFF" -> TRUE
      [] target = "DAMP" -> mode \notin {"SAFETY", "DAMP"}
      [] target = "HOME" -> mode = "DAMP"
      [] target = "ZERO" -> mode = "HOME"
      [] target = "RL"   -> mode = "ZERO"

\* DAMP and POWER_OFF need no ownership; they end what anyone has asked for,
\* also when the request is then refused.
SafetyRequest(c, target) ==
    LET cleared == ClearInput(svc)
        kept == IF svc.owner = c THEN [cleared EXCEPT !.owner = c, !.acts = TRUE] ELSE cleared
    IN IF Prerequisite(target, kept.st.mode)
       THEN [Accepted(kept, "state", target) EXCEPT !.cmd.key = target]
       ELSE kept

NextInteraction(s, op) ==
    [s EXCEPT !.cmd.op = op, !.cmd.seq = Larger(s.cmd.seq, s.st.seq) + 1]

\* The service after the request of the owner, for each operation whose
\* conditions hold.
OwnerRequest(op) ==
    CASE op = "policy" ->
            {[Accepted(svc, op, "policy") EXCEPT
                 !.cmd.moving = FALSE, !.cmd.policy = n, !.policySeq = n] :
               n \in {Larger(svc.policySeq, svc.st.policy) + 1}}
      [] op = "interaction" /\ svc.st.mode = "RL" /\ ~svc.st.busy ->
            {Accepted(NextInteraction(svc, "START"), op, "none")}
      [] op = "cancel" /\ svc.st.mode = "RL" ->
            {Accepted(NextInteraction(svc, "CANCEL"), op, "none")}
      [] op = "reference" /\ svc.st.mode = "RL" ->
            {[svc EXCEPT !.cmd.key = "reference", !.phase = "sent", !.op = op]}
      [] op = "state" ->
            {[Accepted(svc, op, target) EXCEPT !.cmd.key = target] :
               target \in {t \in {"HOME", "ZERO", "RL"} :
                             Prerequisite(t, svc.st.mode)}}
      [] op = "ack" /\ svc.st.mode = "POWER_OFF" /\ svc.st.latched
                    /\ ~svc.st.active ->
            {[Accepted(svc, op, "none") EXCEPT !.cmd.ack = TRUE]}
      [] OTHER -> {}

\* Every request of this section.
Asks(c, s) ==
    /\ serviceUp /\ session[c] = "admin" /\ asked < MaxRequests
    /\ asked' = asked + 1
    /\ svc' = s
    /\ UNCHANGED <<session, login, serviceUp, ctl, link, outages, started,
                   repeated>>

AskAcquire(c) ==
    /\ Online(svc) /\ svc.owner = Nobody
    /\ Asks(c, [svc EXCEPT !.owner = c, !.acts = TRUE])

AskStop(c) == Asks(c, ClearInput(svc))

AskRelease(c) == svc.owner = c /\ Asks(c, ClearInput(svc))

AskSafety(c, target) ==
    /\ "state" \in Operations
    /\ Online(svc) \/ target = "POWER_OFF"
    /\ Asks(c, SafetyRequest(c, target))

AskVelocity(c) ==
    /\ Online(svc) /\ svc.owner = c /\ "velocity" \in Operations
    /\ svc.st.mode = "RL" /\ ~svc.st.latched
    /\ Asks(c, [svc EXCEPT !.cmd.moving = TRUE])

AskOwner(c, op) ==
    /\ Online(svc) /\ svc.owner = c /\ svc.phase # "accepted"
    /\ svc.st.latched => op = "ack"
    /\ \E s \in OwnerRequest(op) : Asks(c, s)

-----------------------------------------------------------------------------
(* Control                                                                 *)

\* External here: what the FSM makes of the key of the command.
FollowKey(c) ==
    LET key == c.cmd.key
        mode == IF /\ key \in Modes
                   /\ Prerequisite(key, c.mode)
                   /\ c.latched => key = "POWER_OFF"
                THEN key ELSE c.mode
    IN [c EXCEPT !.mode = mode, !.busy = @ /\ mode = "RL",
                 !.cmd.moving = @ /\ mode = "RL",
                 !.latched = @ /\ ~(c.cmd.ack /\ ~c.active /\ mode = "POWER_OFF")]

\* A policy request is new when its number differs from the previous cycle's.
FollowPolicy(c) ==
    LET n == c.cmd.policy
        allowed == c.mode \in {"POWER_OFF", "DAMP", "RL"} /\ ~c.latched
                   /\ c.cmd.key = "none"
    IN IF n = c.lastPolicy \/ n = 0 THEN [c EXCEPT !.lastPolicy = n]
       ELSE [c EXCEPT !.lastPolicy = n, !.policy = n,
                      !.policyPhase = IF allowed THEN "PREPARING" ELSE "REJECTED"]

\* BehaviorManager::HandlePolicyAction: so is an action request.
IsNewAction(c) ==
    c.cmd.op # "NONE" /\ c.cmd.seq # 0 /\ c.cmd.seq # c.lastSeq

CanRun(c) == c.mode = "RL" /\ ~c.latched /\ c.cmd.key = "none"
StartsAction(c) == IsNewAction(c) /\ c.cmd.op = "START" /\ CanRun(c) /\ ~c.busy

FollowAction(c) ==
    IF ~IsNewAction(c) THEN c
    ELSE [c EXCEPT !.lastSeq = c.cmd.seq, !.seq = c.cmd.seq,
             !.ok = StartsAction(c) \/ (c.cmd.op = "CANCEL" /\ CanRun(c)),
             !.busy = StartsAction(c) \/ (@ /\ ~(c.cmd.op = "CANCEL" /\ CanRun(c)))]

\* One cycle with a command that is already the one of this cycle.
Cycle(c) ==
    /\ UNCHANGED <<session, login, svc, serviceUp, asked, outages>>
    /\ ctl' = FollowKey(FollowPolicy(FollowAction(c)))
    /\ started' = IF StartsAction(c) THEN started \cup {c.cmd.seq} ELSE started
    /\ repeated' = (repeated \/ (StartsAction(c) /\ c.cmd.seq \in started))

\* The frames that have arrived replace the cached command.
ControlReceives ==
    /\ link.cmd # NoFrame
    /\ Cycle([ctl EXCEPT !.cmd = link.cmd, !.conn = TRUE])
    /\ link' = [link EXCEPT !.cmd = NoFrame]

\* No frame for longer than the timeout of control: nothing of the cached
\* command is kept, and the action is cancelled under the next number.
VariantKeepsVelocity(cmd) ==
    [cmd EXCEPT !.key = "none", !.policy = 0, !.ack = FALSE,
                !.seq = @ + 1, !.op = "CANCEL"]

Dropped(cmd) == [Neutral EXCEPT !.seq = cmd.seq + 1, !.op = "CANCEL"]

HmiTimesOut ==
    /\ ctl.conn /\ link.cmd = NoFrame
    /\ ~link.up \/ ~serviceUp
    /\ Cycle([ctl EXCEPT !.cmd = Dropped(@), !.conn = FALSE])
    /\ UNCHANGED link

\* What happens in control without the operator.
ControlChanges(c) ==
    /\ c # ctl
    /\ ctl' = c
    /\ UNCHANGED <<session, login, svc, serviceUp, link, asked, started, repeated>>

FaultStrikes ==
    /\ ~ctl.latched /\ outages < MaxOutages
    /\ outages' = outages + 1
    /\ ControlChanges([ctl EXCEPT
           !.latched = TRUE, !.active = TRUE, !.busy = FALSE, !.cmd.moving = FALSE,
           !.mode = IF @ = "POWER_OFF" THEN @ ELSE "SAFETY"])

FaultEnds == ControlChanges([ctl EXCEPT !.active = FALSE]) /\ UNCHANGED outages

ActionEnds == ControlChanges([ctl EXCEPT !.busy = FALSE]) /\ UNCHANGED outages

PolicyPrepared(phase) ==
    /\ ctl.policyPhase = "PREPARING" /\ phase \in {"READY", "FAILED"}
    /\ ControlChanges([ctl EXCEPT !.policyPhase = phase])
    /\ UNCHANGED outages

-----------------------------------------------------------------------------
(* Failures                                                                *)

LinkFails(lost) ==
    /\ link.up /\ outages < MaxOutages
    /\ outages' = outages + 1
    /\ link' = [up |-> FALSE, cmd |-> IF lost THEN NoFrame ELSE link.cmd]
    /\ UNCHANGED <<session, login, svc, serviceUp, ctl, asked, started,
                   repeated>>

LinkRecovers ==
    /\ ~link.up
    /\ link' = [link EXCEPT !.up = TRUE]
    /\ UNCHANGED <<session, login, svc, serviceUp, ctl, history>>

\* The process ends. The signal handler of the server stops every session and
\* sends a last command without key, policy and velocity.
ServiceEnds(signal) ==
    /\ serviceUp /\ outages < MaxOutages
    /\ outages' = outages + 1
    /\ serviceUp' = FALSE
    /\ session' = [c \in Clients |-> "closed"] /\ login' = Nobody
    /\ link' = IF signal /\ link.up
               THEN [link EXCEPT !.cmd =
                       [Released(svc.owner).cmd EXCEPT !.key = "none",
                           !.policy = 0, !.moving = FALSE, !.ack = FALSE]]
               ELSE link
    /\ svc' = NewService
    /\ UNCHANGED <<ctl, asked, started, repeated>>

ServiceStarts ==
    /\ ~serviceUp
    /\ serviceUp' = TRUE
    /\ UNCHANGED <<session, login, svc, ctl, link, history>>

\* The owner acts no more, and its connection stays open.
OwnerStalls ==
    /\ svc.acts
    /\ svc' = [svc EXCEPT !.acts = FALSE]
    /\ UNCHANGED <<session, login, serviceUp, ctl, link, history>>

Failures ==
    \/ \E lost \in BOOLEAN : LinkFails(lost)
    \/ LinkRecovers
    \/ \E signal \in BOOLEAN : ServiceEnds(signal)
    \/ ServiceStarts
    \/ OwnerStalls

Sessions ==
    \E c \in Clients :
        \/ AdminLogin(c) \/ AdminLogout(c) \/ Disconnect(c)
        \/ \E right \in {"viewer", "admin"} : Hello(c, right) \/ LoginChecked(c, right)

Requests ==
    \E c \in Clients :
        \/ AskAcquire(c) \/ AskStop(c) \/ AskRelease(c) \/ AskVelocity(c)
        \/ \E target \in {"DAMP", "POWER_OFF"} : AskSafety(c, target)
        \/ \E op \in Operations : AskOwner(c, op)

Pumps ==
    \E heard \in BOOLEAN, due \in {{}} \cup {{clock} : clock \in Clocks} :
        Pump(heard, due)

ControlSteps ==
    \/ ControlReceives \/ HmiTimesOut
    \/ FaultStrikes \/ FaultEnds \/ ActionEnds
    \/ \E phase \in {"READY", "FAILED"} : PolicyPrepared(phase)

OperatorNext == Sessions \/ Requests \/ Pumps \/ ControlSteps \/ Failures

OperatorSpec == OperatorInit /\ [][OperatorNext]_operatorVars

\* The heartbeat and the control cycle are periodic, and clocks run out: the
\* lease of an owner that acts no more ends. Nothing makes the link or the
\* service recover.
OperatorFairness ==
    /\ WF_operatorVars(Pump(link.up, {}))
    /\ WF_operatorVars(~svc.acts /\ Pump(link.up, {"lease"}))
    /\ WF_operatorVars(ControlReceives)
    /\ WF_operatorVars(HmiTimesOut)

FairOperatorSpec == OperatorSpec /\ OperatorFairness

-----------------------------------------------------------------------------
(* Properties                                                              *)

\* What the service sends in the name of a client ends with the lease of that
\* client: a velocity, an action, a policy, the way up to RL and the confirmation
\* of a fault are only ever sent for an owner, and the owner is an
\* administrator whose session is open.
NothingWithoutOwner ==
    /\ svc.owner # Nobody => session[svc.owner] = "admin"
    /\ \/ svc.cmd.moving \/ svc.cmd.op = "START" \/ svc.cmd.policy # 0
       \/ svc.cmd.ack \/ svc.cmd.key \in {"HOME", "ZERO", "RL", "reference"}
       => svc.owner # Nobody

\* A robot that moves is stopped, or is driven by an owner that acts, whatever
\* fails: the client, its connection, the service, or the link, each for good.
DriverlessStops ==
    ctl.cmd.moving ~> (~ctl.cmd.moving \/ svc.acts)

\* control's documentation: the same request number is not executed again.
ActionRunsOnce == ~repeated
=============================================================================
