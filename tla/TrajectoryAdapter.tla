--------------------------- MODULE TrajectoryAdapter ---------------------------
(***************************************************************************)
(* JointTrajectoryPolicyAdapter (joint_trajectory_policy_adapter.cpp): a   *)
(* requested clip takes over some joints, is blended in, played, perhaps   *)
(* held, and blended out.  It advances in OnAction, which a late inference *)
(* leaves out.                                                             *)
(*                                                                         *)
(* Abstracted: positions and gains; a weight is "none", "part" or "full";  *)
(* the applied action keeps the entry into RL it belongs to.               *)
(***************************************************************************)
EXTENDS Integers

CONSTANTS
    Length,    \* inferences from the first to the last frame of a clip
    BlendIn,   \* blend_in_duration in inferences
    BlendOut,  \* blend_out_duration
    MaxHold,   \* max_hold_duration; 0: held until it is cancelled
    Measured   \* measured_entry_max_velocity > 0

\* A clip that ends by itself and one with hold_last_frame.
Clips == {"gesture", "pose"}
Holding == {"pose"}
NoClip == "no clip"

Phases == {"IDLE", "BLEND_IN", "PLAYING", "HOLDING", "BLEND_OUT", "FINISHED",
           "REJECTED"}
Busy == {"BLEND_IN", "PLAYING", "HOLDING", "BLEND_OUT"}

\* Ages saturate above every duration.
AgeLimit == BlendIn + Length + MaxHold + BlendOut + 2

TrajectoryAdapters ==
    [clip : Clips \cup {NoClip}, phase : Phases, age : 0..AgeLimit,
     entry : 0..BlendIn, source : BOOLEAN, weight : {"none", "part", "full"},
     from : {"none", "part", "full"}, number : Nat, begun : Nat,
     applied : {"none", "now", "old"}]

Construct ==
    [clip |-> NoClip, phase |-> "IDLE", age |-> 0, entry |-> 0,
     source |-> FALSE, weight |-> "none", from |-> "none", number |-> 0,
     begun |-> 0, applied |-> "none"]

Leave(adapter) ==
    [adapter EXCEPT !.applied = IF @ = "now" THEN "old" ELSE @]

Reset(adapter) == Construct

\* The age of the phase; playback is older than that by the entry.
Advance(adapter, step) ==
    [adapter EXCEPT !.age = IF adapter.clip = NoClip THEN 0
                            ELSE IF @ + step > AgeLimit THEN AgeLimit
                            ELSE @ + step]

BeginBlendOut(adapter, number) ==
    IF adapter.clip = NoClip
    THEN [adapter EXCEPT !.number = number, !.phase = "IDLE"]
    ELSE [adapter EXCEPT !.number = number, !.phase = "BLEND_OUT", !.age = 0,
                         !.source = TRUE, !.from = adapter.weight]

PreparePolicySwitch(adapter, asked) ==
    IF asked /\ adapter.clip # NoClip /\ adapter.phase # "BLEND_OUT"
    THEN BeginBlendOut(adapter, adapter.number)
    ELSE adapter

Start(adapter, action, number) ==
    IF adapter.clip # NoClip /\ adapter.phase \in Busy
    THEN [adapter EXCEPT !.number = number]
    ELSE IF action \notin Clips
    THEN [adapter EXCEPT !.number = number, !.phase = "REJECTED"]
    ELSE [adapter EXCEPT !.number = number, !.begun = number, !.clip = action,
                         !.phase = "BLEND_IN", !.age = 0, !.entry = BlendIn,
                         !.source = FALSE, !.weight = "none"]

HandleInteractionRequest(adapter, request) ==
    IF request.operation = "NONE" \/ request.number <= adapter.number
    THEN adapter
    ELSE IF request.operation = "CANCEL"
    THEN BeginBlendOut(adapter, request.number)
    ELSE Start(adapter, request.action, request.number)

\* A measured entry takes as long as the distance to the first frame asks for,
\* and is measured once for each start.
PrepareInputs(adapter, entry) ==
    IF /\ adapter.clip # NoClip /\ adapter.phase = "BLEND_IN"
       /\ ~adapter.source /\ Measured
    THEN [adapter EXCEPT !.source = TRUE, !.entry = entry]
    ELSE adapter

\* InteractionWeight, before the observation is built.
BlendedOut(adapter) == adapter.age >= BlendOut

InteractionWeight(adapter) ==
    IF adapter.clip = NoClip THEN "none"
    ELSE IF adapter.phase = "BLEND_OUT"
    THEN IF BlendedOut(adapter) THEN "none" ELSE adapter.from
    ELSE IF adapter.phase = "BLEND_IN" /\ ~Measured
    THEN IF adapter.age >= adapter.entry THEN "full"
         ELSE IF adapter.age = 0 THEN "none" ELSE "part"
    ELSE "full"

\* ComposeAction, phase by phase: each may end within one call.
AfterBlendIn(adapter) ==
    IF adapter.phase = "BLEND_IN" /\ adapter.age >= adapter.entry
    THEN [adapter EXCEPT !.phase = "PLAYING", !.source = TRUE]
    ELSE [adapter EXCEPT !.source = TRUE]

MayHold(adapter) ==
    /\ adapter.clip \in Holding
    /\ MaxHold = 0 \/ adapter.age - adapter.entry - Length < MaxHold

AfterPlaying(adapter) ==
    IF \/ adapter.phase \notin {"PLAYING", "HOLDING"}
       \/ adapter.age < adapter.entry + Length
    THEN adapter
    ELSE IF MayHold(adapter) THEN [adapter EXCEPT !.phase = "HOLDING"]
    ELSE [adapter EXCEPT !.phase = "BLEND_OUT", !.age = 0, !.from = "full"]

AfterBlendOut(adapter) ==
    IF adapter.phase # "BLEND_OUT"
    THEN [adapter EXCEPT !.weight =
            IF adapter.phase = "BLEND_IN" /\ ~Measured
            THEN InteractionWeight(adapter) ELSE "full"]
    ELSE IF BlendedOut(adapter)
    THEN [adapter EXCEPT !.clip = NoClip, !.source = FALSE, !.weight = "none",
                         !.phase = "FINISHED"]
    ELSE [adapter EXCEPT !.weight = IF adapter.age = 0 THEN adapter.from
                                    ELSE IF adapter.from = "none" THEN "none"
                                    ELSE "part"]

ComposeAction(adapter) == AfterBlendOut(AfterPlaying(AfterBlendIn(adapter)))

OnAction(adapter) ==
    LET next == IF adapter.clip = NoClip THEN adapter ELSE ComposeAction(adapter)
    IN [next EXCEPT !.applied = "now"]

ReadyForPolicySwitch(adapter) == adapter.clip = NoClip

IsBusy(adapter) == adapter.phase \in Busy

\* The clip moves joints of the action that is published.
Moving(adapter) == adapter.clip # NoClip

Fresh(adapter) == adapter.applied # "old"
=============================================================================
