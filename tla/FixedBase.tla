------------------------------- MODULE FixedBase -------------------------------
(***************************************************************************)
(* The fixed-base profile of the manager: no policies, a TRAJECTORY state  *)
(* that plays recorded motions of the arms (joint_trajectory.cpp), and the *)
(* automatic preparation that may take the robot there after the start.    *)
(*                                                                         *)
(* One action is one Step of the manager, with the faults it observes and  *)
(* the command it was given; a fault is its two flags, as module           *)
(* BehaviorManager has the rest. Abstracted: the joints of a motion move   *)
(* together on one axis whose origin is the ready pose, one frame per      *)
(* cycle; the blends are straight lines; HOME, ZERO and SAFETY end when    *)
(* the environment chooses. Targets are followed in TRAJECTORY only.       *)
(***************************************************************************)
EXTENDS Integers, Sequences

CONSTANTS
    Clips,           \* recorded motions: [frames |-> poses, hold |-> BOOLEAN]
    BlendIn,         \* blend_in_duration, in cycles
    BlendOut,        \* blend_out_duration, in cycles
    ReturnVelocity,  \* return_max_velocity, 0: no limit
    Jolt,            \* the farthest a target may move in a cycle
    MaxNumber        \* bound: numbers of requests

VARIABLES
    mode,       \* state of the FSM
    automatic,  \* startup_prepare_pending
    settled,    \* finished_ of HOME, ZERO or SAFETY
    latch,      \* fault: its latched and active flags
    key,        \* command.key when the Step began to act on it
    player,     \* Player::Impl
    target,     \* target_pos, previous of the player
    halted      \* history: a fault or a key ended the automatic preparation

baseVars == <<mode, automatic, settled, latch, key, player, target, halted>>

Modes == {"off", "damp", "home", "zero", "trajectory", "safety"}
Keys == {"none", "off", "damp", "home", "zero", "next"}
Latches == {[latched |-> FALSE, active |-> FALSE], [latched |-> TRUE, active |-> FALSE],
            [latched |-> TRUE, active |-> TRUE]}
NoLatch == [latched |-> FALSE, active |-> FALSE]

NoClip == [frames |-> <<0>>, hold |-> FALSE]

Requests ==
    {[op |-> "none"]}
        \cup {[op |-> "cancel", number |-> n] : n \in 1..MaxNumber}
        \cup {[op |-> "start", number |-> n, clip |-> c] :
                n \in 1..MaxNumber, c \in Clips \cup {NoClip}}

\* NoClip in a request is a name that no motion has.
Idle == [number |-> 0, phase |-> "IDLE", clip |-> NoClip, source |-> 0, since |-> 0]

Active(p) == p.phase \in {"BLEND_IN", "PLAYING", "HOLDING", "BLEND_OUT"}

Distance(a, b) == IF a > b THEN a - b ELSE b - a

\* A motion that could be loaded, and may be asked for by its name.
Loaded(c) == c.frames # <<>> /\ c # NoClip

\* The motions are as smooth as they are asked to be, and the blends long
\* enough for them.
ASSUME BaseAssumption ==
    /\ BlendIn \in Nat /\ BlendOut \in Nat \ {0} /\ ReturnVelocity \in Nat
    /\ Jolt \in Nat /\ MaxNumber \in Nat
    /\ \A c \in Clips :
        /\ c \in [frames : Seq(Int), hold : BOOLEAN] /\ Loaded(c)
        /\ Distance(0, c.frames[1]) <= (IF BlendIn = 0 THEN 1 ELSE BlendIn) * (Jolt - 1)
        /\ \A i \in 1..Len(c.frames) :
            /\ ReturnVelocity = 0 => Distance(0, c.frames[i]) <= BlendOut * (Jolt - 1)
            /\ i > 1 => Distance(c.frames[i - 1], c.frames[i]) <= Jolt
    /\ ReturnVelocity < Jolt

-----------------------------------------------------------------------------
\* Player::Request: the numbers of a sender only grow.
VariantReturnsFromStart(p, from) == [p EXCEPT !.phase = "BLEND_OUT", !.since = 0]

BeginReturn(p, from) == [p EXCEPT !.phase = "BLEND_OUT", !.source = from, !.since = 0]

CancelMotion(p, from) ==
    IF ~Active(p) THEN [p EXCEPT !.phase = "IDLE"]
    ELSE IF p.phase = "BLEND_OUT" THEN p
    ELSE BeginReturn(p, from)

StartMotion(p, from, clip) ==
    IF Active(p) THEN p
    ELSE IF clip \notin Clips THEN [p EXCEPT !.phase = "REJECTED"]
    ELSE [p EXCEPT !.phase = "BLEND_IN", !.clip = clip, !.source = from, !.since = 0]

Request(p, from, request) ==
    IF request.op = "none" \/ request.number <= p.number
    THEN p
    ELSE LET q == [p EXCEPT !.number = request.number]
         IN IF request.op = "cancel" THEN CancelMotion(q, from)
            ELSE StartMotion(q, from, request.clip)

\* The first part of Player::Apply: the phase that this cycle plays. A blend
\* that has ended plays the first frame.
Played(p) == p.since - BlendIn

EndBlendIn(p) ==
    IF p.phase = "BLEND_IN" /\ p.since >= BlendIn
    THEN [p EXCEPT !.phase = "PLAYING"] ELSE p

EndPlayback(p) ==
    IF p.phase \in {"PLAYING", "HOLDING"} /\ Played(p) >= Len(p.clip.frames) - 1
    THEN IF p.clip.hold
         THEN [p EXCEPT !.phase = "HOLDING",
                        !.since = BlendIn + Len(p.clip.frames) - 1]
         ELSE BeginReturn(p, p.clip.frames[Len(p.clip.frames)])
    ELSE p

\* The second part: the target of the phase, and the end of a return.
ReturnTime(p) ==
    LET least == IF ReturnVelocity = 0 THEN 0
                 ELSE (Distance(0, p.source) + ReturnVelocity - 1) \div ReturnVelocity
    IN IF least > BlendOut THEN least ELSE BlendOut

TargetOf(p) ==
    CASE p.phase = "BLEND_IN" ->
            p.source + ((p.clip.frames[1] - p.source) * p.since) \div BlendIn
      [] p.phase \in {"PLAYING", "HOLDING"} -> p.clip.frames[Played(p) + 1]
      [] p.phase = "BLEND_OUT" ->
            p.source - (p.source * p.since) \div ReturnTime(p)
      [] OTHER -> 0

EndReturn(p) ==
    IF p.phase = "BLEND_OUT" /\ p.since >= ReturnTime(p)
    THEN [Idle EXCEPT !.number = p.number, !.phase = "FINISHED"] ELSE p

Tick(p) == IF Active(p) THEN [p EXCEPT !.since = @ + 1] ELSE p

\* Run of TRAJECTORY; a target of a return that ends is the ready pose.
RunPlayer(request) ==
    LET played == EndPlayback(EndBlendIn(Request(Tick(player), target, request)))
    IN /\ target' = TargetOf(played)
       /\ player' = EndReturn(played)

-----------------------------------------------------------------------------
\* CheckTransition of the states.
NextMode(m, k, done) ==
    CASE m = "safety" -> IF done THEN "off" ELSE m
      [] m = "home" /\ k = "zero" /\ done -> "zero"
      [] m = "zero" /\ k = "next" /\ done -> "trajectory"
      [] m = "damp" /\ k = "home" -> "home"
      [] m # "damp" /\ k = "damp" -> "damp"
      [] m # "off" /\ k = "off" -> "off"
      [] OTHER -> m

\* What a Step latches of the faults it observes.
Observe(active) ==
    IF active THEN [latched |-> TRUE, active |-> TRUE]
    ELSE [latch EXCEPT !.active = FALSE]

\* Before the FSM: a latched fault forces SAFETY, and blocks the way up.
Forced(m, f) == IF f.latched /\ m # "off" THEN "safety" ELSE m

Allowed(m, f, k) ==
    IF f.latched /\ m = "off" /\ k # "off" THEN "none" ELSE k

VariantPreparesWhenCleared(f, k) == automatic /\ k = "none"

StillAutomatic(f, k) == automatic /\ ~f.latched /\ k = "none"

\* The automatic preparation acts in place of the operator.
PreparedMode(m) == IF m = "off" THEN "home" ELSE m

PreparedKey(m) ==
    CASE m = "home" -> "zero" [] m = "zero" -> "next" [] OTHER -> "none"

\* Step of the manager; fed: sensor_received, done: the state that ran has come to its end.
BaseStep(k, active, request, fed, done) ==
    LET f    == Observe(active)
        m1   == Forced(mode, f)
        k1   == Allowed(m1, f, k)
        acts == StillAutomatic(f, k1) /\ fed
        m2   == IF acts THEN PreparedMode(m1) ELSE m1
        k2   == IF acts THEN PreparedKey(m1) ELSE k1
        m3   == NextMode(m2, k2, m2 = mode /\ settled)
    IN /\ latch' = f /\ key' = k1
       /\ automatic' = (StillAutomatic(f, k1) /\ ~(fed /\ m1 = "trajectory"))
       /\ mode' = m3
       /\ settled' = IF m3 = mode THEN settled \/ done ELSE m3 = "safety" /\ done
       /\ halted' = (halted \/ f.latched \/ k1 # "none")
       /\ IF m3 = "trajectory" /\ mode = "trajectory" THEN RunPlayer(request)
          ELSE player' = Idle /\ target' = 0

\* AcknowledgeFault, of the newest fault.
Acknowledge ==
    /\ mode = "off" /\ latch = [latched |-> TRUE, active |-> FALSE]
    /\ latch' = NoLatch
    /\ UNCHANGED <<mode, automatic, settled, key, player, target, halted>>

BaseInit ==
    /\ mode = "off" /\ automatic \in BOOLEAN /\ settled = FALSE
    /\ latch = NoLatch /\ key = "none" /\ player = Idle /\ target = 0
    /\ halted = FALSE

\* A new request is the only input that matters while TRAJECTORY runs on.
BaseNext ==
    \/ Acknowledge
    \/ \E k \in Keys, active, fed, done \in BOOLEAN :
        BaseStep(k, active, [op |-> "none"], fed, done)
    \/ \E request \in Requests : BaseStep("none", FALSE, request, TRUE, FALSE)

BaseSpec == BaseInit /\ [][BaseNext]_baseVars

-----------------------------------------------------------------------------
(* Properties                                                              *)

\* Once a fault or a key has ended it, the automatic preparation stays ended:
\* the robot leaves POWER_OFF, and goes up towards TRAJECTORY, only in a Step
\* that has a key, however often faults come, are released and confirmed.
Rank == [m \in Modes |->
    CASE m = "damp" -> 1 [] m = "home" -> 2 [] m = "zero" -> 3
      [] m = "trajectory" -> 4 [] OTHER -> 0]

PreparationIsCancelled ==
    [][halted /\ Rank[mode'] > Rank[mode] => key' # "none"]_baseVars

\* The arms move from where they are: no request, cancellation, refusal, end
\* of a motion or of a return makes a target jump, and when no motion is
\* reported as running the target is the ready pose.
ArmIsSteady ==
    [][mode = "trajectory" /\ mode' = "trajectory" =>
        /\ Distance(target, target') <= Jolt
        /\ ~Active(player') => target' = 0]_baseVars
=============================================================================
