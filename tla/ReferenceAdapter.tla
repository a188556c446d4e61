--------------------------- MODULE ReferenceAdapter ---------------------------
(***************************************************************************)
(* The adapters that play one reference motion: supermimic, mjlab,         *)
(* protomotions and sonic without a catalogue (policy_adapter.cpp).  They  *)
(* differ in the arrays they build for the model and share the clock of    *)
(* the reference (SamplePlayback) and the handoff (ReferenceHandoff).      *)
(*                                                                         *)
(* An adapter is a record; every operator is one call of the inference     *)
(* thread.  Time is counted in inferences.                                 *)
(*                                                                         *)
(* Abstracted: frames are their index; poses, headings and histories keep  *)
(* only the entry into RL they belong to: "none" yet, this one ("now") or  *)
(* an earlier one ("old").                                                 *)
(***************************************************************************)
EXTENDS Integers

CONSTANTS
    Length,   \* inferences that the reference lasts
    Pause     \* loop_pause in inferences

\* "fixed" is supermimic without a reference file, "loop" and "once" start with
\* RL, the manual ones wait for StartPlayback.
Modes == {"fixed", "loop", "once", "manual", "manual_loop"}
Looped == {"loop", "manual_loop"}
Manual == {"manual", "manual_loop"}

Cycle(adapter) == IF adapter.mode \in Looped THEN Length + Pause ELSE Length + 1

Origins == {"none", "now", "old"}

ReferenceAdapters ==
    [mode : Modes, started : BOOLEAN, position : 0..(Length + Pause),
     requested : BOOLEAN, left : 0..Length, holding : BOOLEAN,
     ready : BOOLEAN, finished : BOOLEAN, moving : BOOLEAN,
     seeded : BOOLEAN, history : Origins, heading : Origins]

\* The adapter as it is constructed, before the first Reset.
Construct(mode) ==
    [mode |-> mode, started |-> TRUE, position |-> 0, requested |-> FALSE,
     left |-> 0, holding |-> FALSE, ready |-> FALSE, finished |-> FALSE,
     moving |-> FALSE, seeded |-> FALSE, history |-> "none",
     heading |-> "none"]

\* Leaving RL makes everything recorded belong to an earlier entry.
Older(origin) == IF origin = "now" THEN "old" ELSE origin

Leave(adapter) == [adapter EXCEPT !.history = Older(@), !.heading = Older(@)]

VariantKeepsHistory(adapter) ==
    [adapter EXCEPT !.requested = FALSE, !.ready = FALSE, !.finished = FALSE,
                    !.holding = FALSE, !.started = (adapter.mode \notin Manual),
                    !.position = 0, !.heading = "now"]

\* ReferenceHandoff::Reset and the Reset of its adapters: the history is filled
\* by the next sample, the heading is aligned with the robot at once.
Reset(adapter) ==
    [adapter EXCEPT !.requested = FALSE, !.ready = FALSE, !.finished = FALSE,
                    !.holding = FALSE, !.started = (adapter.mode \notin Manual),
                    !.position = 0, !.seeded = FALSE, !.heading = "now"]

\* The clock of the reference and the time left until the end the handoff
\* waits for.
Advance(adapter, step) ==
    IF ~adapter.started THEN adapter
    ELSE [adapter EXCEPT
            !.position = IF adapter.mode \in Looped THEN (@ + step) % Cycle(adapter)
                         ELSE IF @ + step > Length THEN Length ELSE @ + step,
            !.left = IF @ > step THEN @ - step ELSE 0]

StartPlayback(adapter) ==
    IF adapter.mode \notin Manual \/ adapter.started THEN adapter
    ELSE [adapter EXCEPT !.started = TRUE, !.position = 0]

\* ReferenceHandoff::Request: the end of the current cycle, once per request.
PreparePolicySwitch(adapter, asked) ==
    IF adapter.mode = "fixed" THEN adapter
    ELSE [adapter EXCEPT
            !.requested = asked,
            !.left = IF ~asked \/ adapter.requested THEN @
                     ELSE IF adapter.position < Length
                          THEN Length - adapter.position ELSE 0]

\* SamplePlayback: the last frame is held between the cycles of a loop and for
\* ever at the end of a reference that is played once.
HoldsLastFrame(adapter) == adapter.position >= Length

\* ReferenceHandoff::Sample: the last frame of the cycle in which the handoff
\* was asked for is kept, even if the request is taken back.
Sample(adapter) ==
    LET holding == /\ adapter.started
                   /\ adapter.holding \/ (adapter.requested /\ adapter.left = 0)
        held == adapter.started /\ (holding \/ HoldsLastFrame(adapter))
    IN [adapter EXCEPT !.holding = holding \/ @,
                       !.ready = ~adapter.started \/ held,
                       !.finished = held /\ adapter.mode \notin Looped,
                       !.moving = adapter.started /\ ~held]

\* The observation history: one more frame, or all of them the first time.
RecordObservation(adapter) ==
    [adapter EXCEPT !.seeded = TRUE,
                    !.history = IF adapter.seeded THEN @ ELSE "now"]

PrepareInputs(adapter) ==
    RecordObservation(IF adapter.mode = "fixed" THEN adapter ELSE Sample(adapter))

ReadyForPolicySwitch(adapter) == adapter.mode = "fixed" \/ adapter.ready

PlaybackFinished(adapter) == adapter.finished

\* The reference handed to the model moves.
Moving(adapter) == adapter.moving

\* Nothing of an earlier entry is handed to the model.
Fresh(adapter) == adapter.history # "old" /\ adapter.heading # "old"
=============================================================================
