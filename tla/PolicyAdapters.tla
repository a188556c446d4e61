---------------------------- MODULE PolicyAdapters ----------------------------
(***************************************************************************)
(* The policy adapters under the inference thread: which adapter a         *)
(* configuration gets (LoadConfig, Create in policy_adapter.cpp), the      *)
(* calls of one inference in the order of StateRL::InferStep, and the      *)
(* handoff as every kind of adapter answers it.  An inference is one       *)
(* action; how it interleaves with the control thread is module            *)
(* RlPipeline, and the planner of sonic is module SonicPlanner.  A handoff *)
(* that cancels an action (cancel_playback_) does not wait for the adapter *)
(* and is left to RlPipeline.                                              *)
(***************************************************************************)
EXTENDS Naturals

CONSTANTS
    Length, Pause,        \* of a reference or clip, in inferences
    Transition,           \* of sonic and history_actor
    BlendIn, BlendOut, MaxHold,
    ReleaseFrames,
    MaxNumber,            \* numbers of requests
    MaxStep               \* periods between two inferences, at most

\* What LoadConfig and the loaders of references enforce; history_actor refuses a
\* transition that takes no time, sonic takes it.
ASSUME DurationAssumption ==
    /\ Length \in Nat \ {0} /\ Pause \in Nat /\ Transition \in Nat
    /\ BlendIn \in Nat /\ BlendOut \in Nat /\ MaxHold \in Nat
    /\ ReleaseFrames \in Nat

ASSUME BoundAssumption == MaxNumber \in Nat /\ MaxStep \in Nat \ {0}

VARIABLES
    kind,      \* the adapter, by its behaviour
    adapter,   \* its state
    wanted,    \* switch_requested_
    still,     \* the last sampled command was zero
    ready,     \* switch_ready_
    kept,      \* history: nothing has moved since ready was published
    fresh,     \* history: the last inputs were of this entry into RL
    owes,      \* history: no zero command was seen since the last gesture
    beat       \* parity of the inferences that were on time

adapterVars == <<kind, adapter, wanted, still, ready, kept, fresh, owes, beat>>

R == INSTANCE ReferenceAdapter
C == INSTANCE SonicAdapter
T == INSTANCE TrajectoryAdapter WITH Measured <- TRUE
S == INSTANCE StanceAdapter WITH Measured <- FALSE, Gestures <- TRUE
H == INSTANCE HistoryAdapter

-----------------------------------------------------------------------------
\* Configurations, as far as they decide on the adapter.
Types == {"supermimic", "mjlab", "protomotions", "sonic", "joint_trajectory",
          "stance_motion", "history_actor"}

Configs == [type : Types, manual : BOOLEAN, loop : BOOLEAN, catalog : BOOLEAN,
            reference : BOOLEAN, latent : BOOLEAN]

\* LoadConfig reads the start mode and the reference only of the types that
\* play one, and wants the reference of all but some.
PlaysReference(config) ==
    config.type \in {"supermimic", "mjlab", "protomotions", "sonic"}

LoadConfig(config) ==
    IF PlaysReference(config) THEN config
    ELSE [config EXCEPT !.manual = FALSE, !.reference = FALSE]

HasSource(config) ==
    \/ ~PlaysReference(config) \/ config.reference
    \/ config.type = "supermimic"
    \/ config.type = "sonic" /\ config.catalog

\* Create, and the constructor of supermimic: who may wait for a start.
MayWait(config) ==
    \/ config.type = "mjlab"
    \/ config.type = "supermimic" /\ config.reference

Creates(config) ==
    HasSource(config) /\ (config.manual => MayWait(config))

KindOf(config) ==
    CASE config.type = "supermimic" /\ ~config.reference -> "fixed"
      [] config.type = "sonic" /\ config.catalog -> "sonic"
      [] config.type = "joint_trajectory" -> "trajectory"
      [] config.type = "stance_motion" -> "stance"
      [] config.type = "history_actor" ->
            IF config.latent THEN "latent" ELSE "gait"
      [] config.manual -> IF config.loop THEN "manual_loop" ELSE "manual"
      [] OTHER -> IF config.loop THEN "loop" ELSE "once"

Kinds == {KindOf(LoadConfig(c)) : c \in {c \in Configs : Creates(LoadConfig(c))}}

References == R!Modes

Construct(k) ==
    CASE k \in References -> R!Construct(k)
      [] k = "sonic" -> C!Construct
      [] k = "trajectory" -> T!Construct
      [] k = "stance" -> S!Construct
      [] k \in {"latent", "gait"} -> H!Construct(k = "latent")

AdapterTypeOK ==
    /\ kind \in Kinds /\ beat \in 0..1
    /\ <<wanted, still, ready, kept, fresh, owes>>
            \in BOOLEAN \X BOOLEAN \X BOOLEAN \X BOOLEAN \X BOOLEAN \X BOOLEAN
    /\ adapter \in CASE kind \in References -> R!ReferenceAdapters
                     [] kind = "sonic" -> C!SonicAdapters
                     [] kind = "trajectory" -> T!TrajectoryAdapters
                     [] kind = "stance" -> S!StanceAdapters
                     [] kind \in {"latent", "gait"} -> H!HistoryAdapters

-----------------------------------------------------------------------------
\* The virtual calls of PolicyAdapter.
Leave(a) ==
    CASE kind \in References -> R!Leave(a)
      [] kind = "sonic" -> C!Leave(a)
      [] kind = "trajectory" -> T!Leave(a)
      [] kind = "stance" -> S!Leave(a)
      [] kind \in {"latent", "gait"} -> H!Leave(a)

Reset(a) ==
    CASE kind \in References -> R!Reset(a)
      [] kind = "sonic" -> C!Reset(a)
      [] kind = "trajectory" -> T!Reset(a)
      [] kind = "stance" -> S!Reset(a)
      [] kind \in {"latent", "gait"} -> H!Reset(a)

Advance(a, step) ==
    CASE kind \in References -> R!Advance(a, step)
      [] kind = "sonic" -> C!Advance(a, step)
      [] kind = "trajectory" -> T!Advance(a, step)
      [] kind = "stance" -> S!Advance(a, step)
      [] kind \in {"latent", "gait"} -> a

SelectExecutor(a, command) ==
    CASE kind = "stance" -> S!SelectExecutor(a, command)
      [] kind \in {"latent", "gait"} ->
            H!SelectExecutor(a, IF command = S!ZeroCommand THEN "zero"
                                ELSE "move")
      [] OTHER -> a

StartPlayback(a) == IF kind \in References THEN R!StartPlayback(a) ELSE a

HandleInteractionRequest(a, request) ==
    CASE kind = "sonic" -> C!HandleInteractionRequest(a, request)
      [] kind = "trajectory" -> T!HandleInteractionRequest(a, request)
      [] kind = "stance" -> S!HandleInteractionRequest(a, request)
      [] kind \in {"latent", "gait"} -> H!HandleInteractionRequest(a, request)
      [] OTHER -> a

PreparePolicySwitch(a, asked) ==
    CASE kind \in References -> R!PreparePolicySwitch(a, asked)
      [] kind = "sonic" -> C!PreparePolicySwitch(a, asked)
      [] kind = "trajectory" -> T!PreparePolicySwitch(a, asked)
      [] kind = "stance" -> S!PreparePolicySwitch(a, asked)
      [] kind \in {"latent", "gait"} -> H!PreparePolicySwitch(a, asked)

PrepareInputs(a, entry) ==
    CASE kind \in References -> R!PrepareInputs(a)
      [] kind = "sonic" -> C!PrepareInputs(a)
      [] kind = "trajectory" -> T!PrepareInputs(a, entry)
      [] kind = "stance" -> S!PrepareInputs(a, entry)
      [] kind \in {"latent", "gait"} -> H!PrepareInputs(a)

OnAction(a) ==
    CASE kind = "trajectory" -> T!OnAction(a)
      [] kind = "stance" -> S!OnAction(a)
      [] OTHER -> a

ReadyForPolicySwitch(a) ==
    CASE kind \in References -> R!ReadyForPolicySwitch(a)
      [] kind = "sonic" -> C!ReadyForPolicySwitch(a)
      [] kind = "trajectory" -> T!ReadyForPolicySwitch(a)
      [] kind = "stance" -> S!ReadyForPolicySwitch(a)
      [] kind \in {"latent", "gait"} -> H!ReadyForPolicySwitch(a)

Moving(a) ==
    CASE kind \in References -> R!Moving(a)
      [] kind = "sonic" -> C!Moving(a)
      [] kind = "trajectory" -> T!Moving(a)
      [] kind = "stance" -> S!Moving(a)
      [] kind \in {"latent", "gait"} -> H!Moving(a)

Fresh(a) ==
    CASE kind \in References -> R!Fresh(a)
      [] kind = "sonic" -> C!Fresh(a)
      [] kind = "trajectory" -> T!Fresh(a)
      [] kind = "stance" -> S!Fresh(a)
      [] kind \in {"latent", "gait"} -> H!Fresh(a)

\* A gesture owns joints of the stance adapter.
Gesturing(a) == kind = "stance" /\ S!InteractionBusy(a)

-----------------------------------------------------------------------------
AdapterInit ==
    /\ kind \in Kinds
    /\ adapter = Reset(Construct(kind))
    /\ wanted = FALSE /\ still = TRUE /\ ready = FALSE
    /\ kept = FALSE /\ fresh = TRUE /\ owes = FALSE
    /\ beat = 0

\* RequestPolicySwitch and its cancellation.
WantHandoff ==
    /\ ~wanted /\ wanted' = TRUE
    /\ UNCHANGED <<kind, adapter, still, ready, kept, fresh, owes, beat>>

CancelHandoff ==
    /\ wanted /\ wanted' = FALSE /\ ready' = FALSE /\ kept' = FALSE
    /\ UNCHANGED <<kind, adapter, still, fresh, owes, beat>>

\* RL is left, and entered again later; the adapter object stays.
EnterAgain ==
    /\ adapter' = Reset(Leave(adapter))
    /\ wanted' = FALSE /\ still' = TRUE /\ ready' = FALSE
    /\ kept' = FALSE /\ fresh' = TRUE /\ owes' = FALSE
    /\ UNCHANGED <<kind, beat>>

\* What the operator may sample: commands and numbered requests that mean
\* something to the adapter; an action may be unknown to it.
Commands == IF kind \in {"stance", "gait", "latent"} THEN S!Commands
            ELSE {c \in S!Commands : c.turn = 0}

Actions ==
    CASE kind = "sonic" -> C!Clips \cup {C!DefaultClip}
      [] kind \in {"trajectory", "stance"} -> T!Clips
      [] kind = "latent" -> {"dance"}
      [] OTHER -> {}

NoRequest == [operation |-> "NONE", action |-> "unknown", number |-> 0]

Requests ==
    IF Actions = {} THEN {NoRequest}
    ELSE {NoRequest}
         \cup [operation : {"START"}, action : Actions \cup {"unknown"},
               number : 1..MaxNumber]
         \cup [operation : {"CANCEL"}, action : {"unknown"},
               number : 1..MaxNumber]

Starts == IF kind \in R!Manual THEN BOOLEAN ELSE {FALSE}

Entries == IF kind = "trajectory" THEN 0..BlendIn ELSE {BlendIn}

\* What the adapter is before the model runs.
Requested(command, start, request, step) ==
    LET selected == SelectExecutor(Advance(adapter, step), command)
        played == IF start /\ ~wanted THEN StartPlayback(selected) ELSE selected
        handled == IF wanted THEN played
                   ELSE HandleInteractionRequest(played, request)
    IN PreparePolicySwitch(handled, wanted)

\* One inference; a late one is discarded before OnAction and publishes nothing.
Inference(command, start, request, step, entry, late) ==
    LET prepared == PrepareInputs(Requested(command, start, request, step),
                                  entry)
        zero == command = S!ZeroCommand
    IN /\ adapter' = IF late THEN prepared ELSE OnAction(prepared)
       /\ ready' = IF late THEN ready
                   ELSE wanted /\ zero /\ ReadyForPolicySwitch(adapter')
       /\ kept' = (ready' /\ zero /\ (late => kept))
       /\ still' = zero
       /\ fresh' = Fresh(prepared)
       /\ owes' = (Gesturing(prepared) \/
                   (owes /\ ~(zero /\ ~Gesturing(adapter))))
       /\ beat' = (IF late THEN beat ELSE 1 - beat)
       /\ UNCHANGED <<kind, wanted>>

InferOnTime ==
    \E command \in Commands, start \in Starts, request \in Requests,
       step \in 1..MaxStep, entry \in Entries :
        Inference(command, start, request, step, entry, FALSE)

InferLate ==
    \E command \in Commands, start \in Starts, request \in Requests,
       step \in 1..MaxStep, entry \in Entries :
        Inference(command, start, request, step, entry, TRUE)

AdapterNext ==
    WantHandoff \/ CancelHandoff \/ EnterAgain \/ InferOnTime \/ InferLate

AdapterSpec == AdapterInit /\ [][AdapterNext]_adapterVars

\* Inferences go on, and are on time again and again: without an action on
\* time the lease of the last one ends RL (module RlPipeline).
AdapterFairness == SF_beat(beat' = 1 - beat)

FairAdapterSpec == AdapterSpec /\ AdapterFairness

-----------------------------------------------------------------------------
(* Properties                                                              *)

Begun ==
    CASE kind \in {"sonic", "trajectory", "latent"} -> adapter.begun
      [] kind = "stance" -> adapter.gesture.begun
      [] OTHER -> 0

Handoff == INSTANCE PolicyHandoff WITH
    wanted <- wanted, still <- still, promised <- ready /\ kept, begun <- Begun

\* Every adapter answers a handoff as PolicyHandoff says: whatever it plays
\* comes to rest and stays at rest, and requests that come late, twice or out
\* of order begin nothing twice.
ImplementsHandoff == Handoff!HandoffSpec

\* A policy that said it may be replaced hands the model a reference that
\* stands still, in every kind of adapter.
PromiseIsRest == ready /\ kept => ~Moving(adapter)

\* The model is never given histories, headings, anchors or actions of an
\* earlier entry into RL.
FreshStart == fresh

\* The legs stand from the start of a gesture until it has ended and a zero
\* command was seen after that: a velocity held during the gesture does not set
\* the robot walking when it ends, whether it ends by itself, is cancelled or is
\* cut short by a handoff.
StandsThroughGesture == kind = "stance" /\ owes => ~S!Walking(adapter)
=============================================================================
