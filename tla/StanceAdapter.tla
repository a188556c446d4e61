----------------------------- MODULE StanceAdapter -----------------------------
(***************************************************************************)
(* StanceMotionPolicyAdapter (stance_motion_policy_adapter.cpp): the       *)
(* command selects one of several models, and a gesture of the trajectory  *)
(* adapter is allowed only while the robot stands.                         *)
(*                                                                         *)
(* Abstracted: a command has a forward and a turning axis in small steps;  *)
(* observations keep the entry into RL they belong to.                     *)
(***************************************************************************)
EXTENDS Integers

CONSTANTS
    Gestures,       \* a joint_trajectory is configured
    ReleaseFrames,  \* interaction_release_frames
    Length, BlendIn, BlendOut, MaxHold, Measured

T == INSTANCE TrajectoryAdapter

\* Filtered commands and their thresholds: below Stand an axis is near zero,
\* above First and Second the forward modes begin.
MaxForward == 4
MaxTurn == 2
Stand == 1
First == 2
Second == 3
StepUp == 1
StepDown == 2

Commands == {[forward |-> f, turn |-> t] : f \in {0, MaxForward}, t \in {0, MaxTurn}}
ZeroCommand == [forward |-> 0, turn |-> 0]

Models == {"", "stance", "turn", "motion", "run"}

StanceAdapters ==
    [gesture : T!TrajectoryAdapters, forward : 0..MaxForward, turn : 0..MaxTurn,
     mode : 0..3, name : Models, waits : BOOLEAN, command : Commands,
     number : Nat, release : 0..ReleaseFrames, observed : BOOLEAN,
     neutral : BOOLEAN, memory : {"none", "now", "old"}]

Construct ==
    [gesture |-> T!Construct, forward |-> 0, turn |-> 0, mode |-> 0,
     name |-> "", waits |-> FALSE, command |-> ZeroCommand, number |-> 0,
     release |-> 0, observed |-> FALSE, neutral |-> FALSE, memory |-> "none"]

Leave(adapter) ==
    [adapter EXCEPT !.gesture = T!Leave(@),
                    !.memory = IF @ = "now" THEN "old" ELSE @]

\* The whole history is filled with one observation of the robot.
Reset(adapter) ==
    [Construct EXCEPT !.gesture = T!Reset(adapter.gesture), !.memory = "now"]

Advance(adapter, step) ==
    [adapter EXCEPT !.gesture = T!Advance(@, step)]

InteractionBusy(adapter) == Gestures /\ T!IsBusy(adapter.gesture)

\* SelectExecutor.  A gesture, and what is left of the command after it, keeps
\* the robot in stance until a zero command was seen.
VariantForgetsGesture(adapter, command) ==
    InteractionBusy(adapter)

MustWaitForZero(adapter, command) ==
    IF InteractionBusy(adapter) THEN TRUE
    ELSE adapter.waits /\ command # ZeroCommand

StandStill(adapter) ==
    [adapter EXCEPT !.forward = 0, !.turn = 0, !.mode = 0, !.name = "stance"]

Filtered(current, target) ==
    IF target >= current
    THEN IF target - current > StepUp THEN current + StepUp ELSE target
    ELSE IF current - target > StepDown THEN current - StepDown ELSE target

NextMode(mode, forward, turn) ==
    CASE mode = 0 -> IF forward < Stand /\ turn < Stand THEN 0 ELSE 1
      [] mode = 1 -> IF forward > First THEN 2
                     ELSE IF forward < Stand /\ turn < Stand THEN 0 ELSE 1
      [] mode = 2 -> IF forward < First THEN 1
                     ELSE IF forward > Second THEN 3 ELSE 2
      [] mode = 3 -> IF forward < Second THEN 2 ELSE 3

\* The model is selected with the old mode, the new one counts from the next
\* inference on.
ModelName(mode, forward, turn) ==
    CASE mode = 0 -> "stance"
      [] mode = 1 -> IF forward < Stand /\ turn > Stand THEN "turn" ELSE "motion"
      [] mode = 2 -> "motion"
      [] mode = 3 -> "run"

Walk(adapter, command) ==
    LET forward == Filtered(adapter.forward, command.forward)
        turn == Filtered(adapter.turn, command.turn)
    IN [adapter EXCEPT !.forward = forward, !.turn = turn,
                       !.name = ModelName(adapter.mode, forward, turn),
                       !.mode = NextMode(adapter.mode, forward, turn)]

SelectExecutor(adapter, command) ==
    LET waits == Gestures /\ MustWaitForZero(adapter, command)
        next == [adapter EXCEPT !.command = command, !.waits = waits]
    IN IF waits THEN StandStill(next) ELSE Walk(next, command)

\* HandleInteractionRequest: a gesture begins only while the robot stands with
\* a zero command; a number counts once, accepted or not.
RefusesGesture(adapter, request) ==
    /\ request.operation = "START"
    /\ ~InteractionBusy(adapter)
    /\ \/ adapter.name # "stance" \/ adapter.command # ZeroCommand
       \/ adapter.waits

HandleInteractionRequest(adapter, request) ==
    IF \/ ~Gestures \/ request.operation = "NONE"
       \/ request.number <= adapter.number
    THEN adapter
    ELSE IF RefusesGesture(adapter, request)
    THEN [adapter EXCEPT !.number = request.number]
    ELSE [adapter EXCEPT !.number = request.number,
            !.gesture = T!HandleInteractionRequest(@, request)]

PreparePolicySwitch(adapter, asked) ==
    IF Gestures
    THEN [adapter EXCEPT !.gesture = T!PreparePolicySwitch(@, asked)]
    ELSE adapter

\* PrepareInputs: joints owned by a gesture are neutral in the observation, and
\* for some frames after its weight is back to zero.
PrepareInputs(adapter, entry) ==
    LET gesture == IF Gestures THEN T!PrepareInputs(adapter.gesture, entry)
                   ELSE adapter.gesture
        observed == Gestures /\ T!InteractionWeight(gesture) # "none"
    IN [adapter EXCEPT !.gesture = gesture, !.observed = observed,
            !.release = IF observed THEN ReleaseFrames
                        ELSE IF @ > 0 THEN @ - 1 ELSE 0]

OnAction(adapter) ==
    [adapter EXCEPT !.neutral = adapter.observed \/ adapter.release > 0,
                    !.gesture = IF Gestures THEN T!OnAction(@) ELSE @]

ReadyForPolicySwitch(adapter) ==
    /\ adapter.name = "stance" /\ adapter.mode = 0
    /\ ~InteractionBusy(adapter) /\ ~adapter.waits

\* The robot walks, or a gesture moves its joints.
Walking(adapter) == adapter.name \notin {"", "stance"}

Moving(adapter) == Walking(adapter) \/ T!Moving(adapter.gesture)

Fresh(adapter) == adapter.memory # "old" /\ T!Fresh(adapter.gesture)
=============================================================================
