----------------------------- MODULE SonicAdapter -----------------------------
(***************************************************************************)
(* SonicPolicyAdapter with a catalogue of clips (policy_adapter.cpp): a    *)
(* request starts a clip, every change of clip is blended, and a handoff   *)
(* or a cancellation blends back to the default clip.                      *)
(*                                                                         *)
(* Abstracted: poses and encoder fields; the heading keeps the entry into  *)
(* RL it belongs to, see ReferenceAdapter.                                 *)
(***************************************************************************)
EXTENDS Integers

CONSTANTS
    Length,      \* inferences that a clip lasts
    Pause,       \* loop_pause in inferences
    Transition   \* transition_duration in inferences

\* The clips besides the default one: one that is played once, one that loops.
\* The default clip, which is played once, may be asked for by its name, too.
Clips == {"wave", "walk"}
Looped == {"walk"}
DefaultClip == "default"

Phases == {"IDLE", "BLEND_IN", "PLAYING", "HOLDING", "BLEND_OUT", "FINISHED",
           "REJECTED"}
Busy == {"BLEND_IN", "PLAYING", "HOLDING", "BLEND_OUT"}

SonicAdapters ==
    [clip : Clips \cup {DefaultClip}, clock : (-Transition)..(Length + Pause),
     playing : BOOLEAN, transition : BOOLEAN, canceling : BOOLEAN,
     phase : Phases, number : Nat, begun : Nat, moving : BOOLEAN,
     heading : {"none", "now", "old"}]

Construct ==
    [clip |-> DefaultClip, clock |-> 0, playing |-> FALSE, transition |-> FALSE,
     canceling |-> FALSE, phase |-> "IDLE", number |-> 0, begun |-> 0,
     moving |-> FALSE, heading |-> "none"]

Leave(adapter) ==
    [adapter EXCEPT !.heading = IF @ = "now" THEN "old" ELSE @]

Reset(adapter) == [Construct EXCEPT !.heading = "now"]

\* PlaybackElapsed: below zero during a transition.
Advance(adapter, step) ==
    [adapter EXCEPT !.clock =
        IF ~adapter.playing /\ ~adapter.transition THEN @
        ELSE IF adapter.clip \in Looped /\ @ + step >= 0
        THEN (@ + step) % (Length + Pause)
        ELSE IF @ + step > Length THEN Length ELSE @ + step]

\* BeginTransition: aligns the new clip with the robot.
BeginTransition(adapter, clip, canceling) ==
    LET over == Transition = 0 /\ canceling
    IN [adapter EXCEPT !.clip = clip, !.heading = "now", !.clock = -Transition,
                       !.transition = (Transition > 0),
                       !.playing = ~canceling, !.canceling = canceling /\ ~over,
                       !.phase = IF over THEN "FINISHED"
                                 ELSE IF canceling THEN "BLEND_OUT"
                                 ELSE IF Transition > 0 THEN "BLEND_IN"
                                 ELSE "PLAYING"]

PreparePolicySwitch(adapter, asked) ==
    IF asked /\ ~adapter.canceling /\ (adapter.playing \/ adapter.transition)
    THEN BeginTransition(adapter, DefaultClip, TRUE)
    ELSE adapter

\* HandleInteractionRequest: only a number above every earlier one counts.
Cancel(adapter, number) ==
    IF adapter.phase \in Busy
    THEN BeginTransition([adapter EXCEPT !.number = number], DefaultClip, TRUE)
    ELSE [adapter EXCEPT !.number = number, !.phase = "REJECTED"]

Start(adapter, action, number) ==
    IF adapter.phase \in Busy THEN [adapter EXCEPT !.number = number]
    ELSE IF action \notin Clips \cup {DefaultClip}
    THEN [adapter EXCEPT !.number = number, !.phase = "REJECTED"]
    ELSE BeginTransition([adapter EXCEPT !.number = number, !.begun = number],
                         action, FALSE)

VariantTakesOlder(adapter, request) ==
    IF request.operation = "NONE" \/ request.number = adapter.number
    THEN adapter
    ELSE IF request.operation = "CANCEL" THEN Cancel(adapter, request.number)
    ELSE Start(adapter, request.action, request.number)

HandleInteractionRequest(adapter, request) ==
    IF request.operation = "NONE" \/ request.number <= adapter.number
    THEN adapter
    ELSE IF request.operation = "CANCEL" THEN Cancel(adapter, request.number)
    ELSE Start(adapter, request.action, request.number)

\* UpdateInteractionStatus.
AfterTransition(adapter) ==
    IF ~adapter.transition \/ adapter.clock < 0 THEN adapter
    ELSE IF adapter.canceling
    THEN [adapter EXCEPT !.transition = FALSE, !.canceling = FALSE,
                         !.playing = FALSE, !.phase = "FINISHED"]
    ELSE [adapter EXCEPT !.transition = FALSE, !.phase = "PLAYING"]

UpdateInteractionStatus(adapter) ==
    LET next == AfterTransition(adapter)
    IN IF next.transition \/ ~next.playing THEN next
       ELSE [next EXCEPT !.phase =
                IF next.clock < Length THEN "PLAYING"
                ELSE IF next.clip \in Looped THEN "HOLDING" ELSE "FINISHED"]

\* The velocities of the clip are zero while it stands or holds its last frame;
\* a transition mixes in those of the pose it started from.
PrepareInputs(adapter) ==
    LET next == UpdateInteractionStatus(adapter)
    IN [next EXCEPT !.moving =
            next.transition \/ (next.playing /\ next.clock < Length)]

ReadyForPolicySwitch(adapter) ==
    ~adapter.transition /\ (~adapter.playing \/ adapter.phase = "FINISHED")

PlaybackFinished(adapter) == adapter.phase = "FINISHED" /\ adapter.playing

Moving(adapter) == adapter.moving

Fresh(adapter) == adapter.heading # "old"
=============================================================================
