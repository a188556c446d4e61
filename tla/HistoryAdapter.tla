----------------------------- MODULE HistoryAdapter -----------------------------
(***************************************************************************)
(* HistoryActorPolicyAdapter (history_actor_policy_adapter.cpp): a gait    *)
(* that stands when its filtered command is small, or a catalogue of       *)
(* latent motions around a standing one, with number zero.                 *)
(*                                                                         *)
(* Abstracted: a filtered command is a small number; latents, anchors and  *)
(* observations keep the entry into RL they belong to.                     *)
(***************************************************************************)
EXTENDS Integers

CONSTANTS
    Length,      \* frames of a motion
    Transition   \* transition_duration in inferences

Motions == {"dance", "bow"}
Standby == "standby"

Phases == {"IDLE", "BLEND_IN", "PLAYING", "BLEND_OUT", "FINISHED"}

TimeLimit == Transition + Length

Commands == {"zero", "move"}
MaxFiltered == 2

HistoryAdapters ==
    [latent : BOOLEAN, current : Motions \cup {Standby},
     pending : Motions \cup {Standby}, switching : BOOLEAN, time : 0..TimeLimit,
     phase : Phases, number : Nat, begun : Nat, filtered : 0..MaxFiltered,
     stationary : BOOLEAN, history : {"none", "now", "old"},
     anchor : {"none", "now", "old"}]

Construct(latent) ==
    [latent |-> latent, current |-> Standby, pending |-> Standby,
     switching |-> FALSE, time |-> 0, phase |-> "IDLE", number |-> 0,
     begun |-> 0, filtered |-> 0, stationary |-> TRUE, history |-> "none",
     anchor |-> "none"]

Older(origin) == IF origin = "now" THEN "old" ELSE origin

Leave(adapter) ==
    [adapter EXCEPT !.history = Older(@), !.anchor = Older(@)]

\* The history is filled with one observation; the anchor is taken anew.
Reset(adapter) == [Construct(adapter.latent) EXCEPT !.history = "now"]

\* SelectExecutor.  A requested motion is selected in the inference after the
\* request, so that the model and its input agree.
Stand(adapter, command) ==
    LET filtered == IF command = "zero"
                    THEN IF adapter.filtered > 0 THEN adapter.filtered - 1 ELSE 0
                    ELSE MaxFiltered
    IN [adapter EXCEPT !.filtered = filtered, !.stationary = (filtered = 0)]

SelectPending(adapter) ==
    [adapter EXCEPT !.current = adapter.pending, !.switching = FALSE,
                    !.time = 0, !.anchor = "none",
                    !.phase = IF adapter.pending = Standby THEN "BLEND_OUT"
                              ELSE "BLEND_IN"]

SelectExecutor(adapter, command) ==
    IF ~adapter.latent THEN Stand(adapter, command)
    ELSE IF adapter.switching THEN SelectPending(adapter)
    ELSE adapter

VariantReadyWhenSelected(adapter) ==
    IF ~adapter.latent THEN adapter.stationary
    ELSE adapter.current = Standby /\ ~adapter.switching

ReadyForPolicySwitch(adapter) ==
    IF ~adapter.latent THEN adapter.stationary
    ELSE /\ adapter.current = Standby /\ ~adapter.switching
         /\ adapter.phase # "BLEND_OUT"

ReturnToStandby(adapter) ==
    [adapter EXCEPT !.pending = Standby, !.switching = TRUE]

PreparePolicySwitch(adapter, asked) ==
    IF asked /\ adapter.latent /\ adapter.current # Standby
    THEN ReturnToStandby(adapter)
    ELSE adapter

\* HandleInteractionRequest.  Cancelling what has not begun, or a return that
\* is under way, changes nothing.
Cancel(adapter) ==
    IF adapter.current # Standby THEN ReturnToStandby(adapter)
    ELSE IF adapter.phase = "BLEND_OUT" THEN adapter
    ELSE [adapter EXCEPT !.pending = Standby, !.switching = FALSE,
                         !.phase = "IDLE"]

Start(adapter, request) ==
    IF ~ReadyForPolicySwitch(adapter) \/ request.action \notin Motions
    THEN adapter
    ELSE [adapter EXCEPT !.pending = request.action, !.switching = TRUE,
                         !.phase = "BLEND_IN", !.begun = request.number]

HandleInteractionRequest(adapter, request) ==
    IF \/ ~adapter.latent \/ request.operation = "NONE"
       \/ request.number <= adapter.number
    THEN adapter
    ELSE LET next == [adapter EXCEPT !.number = request.number]
         IN IF request.operation = "CANCEL" THEN Cancel(next)
            ELSE Start(next, request)

\* PrepareInputs: the latent is blended for a transition, then played; at its
\* last frame the motion asks for the way back itself.
Blended(adapter) == adapter.time >= Transition

LastFrame(adapter) == adapter.time - Transition + 1 >= Length

Play(adapter) ==
    IF ~Blended(adapter) THEN adapter
    ELSE IF adapter.current # Standby
    THEN LET next == [adapter EXCEPT !.phase = "PLAYING"]
         IN IF LastFrame(adapter) THEN ReturnToStandby(next) ELSE next
    ELSE IF adapter.phase = "BLEND_OUT"
    THEN [adapter EXCEPT !.phase = "FINISHED"]
    ELSE adapter

PrepareInputs(adapter) ==
    IF ~adapter.latent THEN adapter
    ELSE LET next == Play(adapter)
         IN [next EXCEPT !.time = IF @ < TimeLimit THEN @ + 1 ELSE @,
                         !.anchor = "now"]

\* The latent handed to the model is not the standing one.
Moving(adapter) ==
    IF ~adapter.latent THEN ~adapter.stationary
    ELSE adapter.current # Standby \/ adapter.phase = "BLEND_OUT"

Fresh(adapter) == adapter.history # "old" /\ adapter.anchor # "old"
=============================================================================
