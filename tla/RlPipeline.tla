------------------------------ MODULE RlPipeline ------------------------------
(***************************************************************************)
(* The RL state at the level of its two threads.  The control thread       *)
(* releases sensor samples at the rate of the policy and applies the       *)
(* newest action; the inference thread takes a sample, runs the policy and *)
(* publishes the action.  They share two mutexes, of which the control     *)
(* thread only ever tries to take, a condition variable and some atomics.  *)
(* BehaviorManager sees of this state only its fault and its readiness for *)
(* a handoff; here is how both come about.                                 *)
(*                                                                         *)
(* "cpc" is the next step of the control thread inside the state, "ipc"    *)
(* the next step of the inference thread.  Time is a number of ticks; the  *)
(* control thread is real-time, so no tick passes between two of its steps *)
(* in one cycle, while the inference thread may be descheduled anywhere.   *)
(*                                                                         *)
(* Abstracted: joint vectors, velocities and release numbers; what a       *)
(* policy computes, the keys and whether a sample's velocity is zero are   *)
(* choices.  The policy adapter is at rest or playing; PolicyAdapters has  *)
(* the adapters themselves.                                                *)
(***************************************************************************)
EXTENDS Integers

CONSTANTS
    RlPeriod,      \* control cycles of one policy period (rl_dt / control_dt)
    Deadline,      \* inference_deadline_s in ticks
    FirstTimeout,  \* first_action_timeout_s
    MaxActionAge,  \* max_action_age_s
    DiscardLate,   \* discard_late_inference
    AgeCap,        \* bound: ages saturate here, above every limit
    MaxRequests    \* bound: interaction requests in one behaviour

ASSUME PipelineAssumption ==
    /\ RlPeriod \in Nat \ {0}
    /\ Deadline \in Nat /\ FirstTimeout \in Nat /\ MaxActionAge \in Nat
    /\ DiscardLate \in BOOLEAN
    /\ DiscardLate => Deadline > 0 /\ FirstTimeout > 0 /\ MaxActionAge > 0
    /\ AgeCap \in Nat
    /\ AgeCap > Deadline /\ AgeCap > FirstTimeout /\ AgeCap > MaxActionAge
    /\ MaxRequests \in Nat

VARIABLES
    cpc,          \* control thread: the next step in this state
    command,      \* command_->interaction.sequence
    entrySeq,     \* entry_interaction_sequence_
    since,        \* time_since_last_infer_, in control cycles
    requested,    \* switch_requested_
    cancel,       \* cancel_playback_
    ready,        \* switch_ready_
    readyBy,      \* history: what the last stored readiness rests on
    running,      \* running_
    terminate,    \* RequestInferenceTermination was called
    dataReady,    \* new_data_ready_
    sample,       \* sample_*: what the control thread released last
    ipc,          \* inference thread: the next step of InferStep
    job,          \* the locals of InferStep
    adapter,      \* the adapter: playing or not, last request it took
    hasAction,    \* has_action_
    fresh,        \* action_sequence_ # applied_action_sequence_
    publishedAge, \* age of last_action_published_ns_
    enteredAge,   \* age of entered_at_
    rlFault       \* fault_.latched and safety_triggered_

switchVars == <<requested, cancel, ready, readyBy>>
sampleVars == <<dataReady, sample, since>>
actionVars == <<hasAction, fresh, publishedAge>>
threadVars == <<ipc, job, adapter>>
vars == <<cpc, command, entrySeq, switchVars, running, terminate, sampleVars,
          threadVars, actionVars, enteredAge, rlFault>>

Ages == 0..AgeCap
Requests == 0..MaxRequests

Sample == [age : Ages, req : Requests]
Job == [age : Ages, req : Requests, switching : BOOLEAN, rest : BOOLEAN,
        byCancel : BOOLEAN, valid : BOOLEAN]

NoSample == [age |-> 0, req |-> 0]
JobOf(s) == [age |-> s.age, req |-> s.req, switching |-> FALSE,
             rest |-> FALSE, byCancel |-> FALSE, valid |-> TRUE]
NoJob == JobOf(NoSample)

PipelineTypeOK ==
    /\ cpc \in {"off", "request", "exchange", "clear", "run", "apply",
                "check", "join", "retired", "retireJoin"}
    /\ command \in Requests /\ entrySeq \in Requests
    /\ since \in 0..(RlPeriod - 1)
    /\ <<requested, cancel, ready>> \in BOOLEAN \X BOOLEAN \X BOOLEAN
    /\ readyBy \in {"none", "rest", "cancel"}
    /\ <<running, terminate, dataReady>> \in BOOLEAN \X BOOLEAN \X BOOLEAN
    /\ sample \in Sample
    /\ ipc \in {"off", "wait", "check", "blocked", "snap", "prepare", "infer",
                "deadline", "ready", "store", "publish", "unlock",
                "ended"}
    /\ job \in Job
    /\ adapter \in [playing : BOOLEAN, last : Requests]
    /\ <<hasAction, fresh, rlFault>> \in BOOLEAN \X BOOLEAN \X BOOLEAN
    /\ publishedAge \in Ages /\ enteredAge \in Ages

PipelineInit ==
    /\ cpc = "off"
    /\ command = 0 /\ entrySeq = 0 /\ since = 0
    /\ requested = FALSE /\ cancel = FALSE /\ ready = FALSE /\ readyBy = "none"
    /\ running = FALSE /\ terminate = FALSE
    /\ dataReady = FALSE /\ sample = NoSample
    /\ ipc = "off" /\ job = NoJob
    /\ adapter = [playing |-> FALSE, last |-> 0]
    /\ hasAction = FALSE /\ fresh = FALSE
    /\ publishedAge = 0 /\ enteredAge = 0
    /\ rlFault = FALSE

-----------------------------------------------------------------------------
\* The condition variable and the two mutexes.

SensorLocked == ipc \in {"check", "snap"}
ActionLocked == ipc \in {"publish", "unlock"}

\* notify_one: it wakes the thread only if it is blocked already.
Notified == IF ipc = "blocked" THEN "wait" ELSE ipc

-----------------------------------------------------------------------------
\* The control thread.

\* What OnEnter resets.  Join does it too: nothing reads it in between.
Reset ==
    /\ since' = 0
    /\ requested' = FALSE /\ ready' = FALSE /\ readyBy' = "none"
    /\ hasAction' = FALSE /\ fresh' = FALSE
    /\ publishedAge' = 0 /\ enteredAge' = 0
    /\ dataReady' = FALSE /\ sample' = NoSample /\ job' = NoJob
    /\ adapter' = [playing |-> FALSE, last |-> 0]
    /\ terminate' = FALSE

\* OnEnter: everything of the last entry is reset and the thread started.
OnEnter(ok) ==
    /\ cpc = "off"
    /\ cpc' = "request"
    /\ Reset
    /\ entrySeq' = command
    /\ running' = ok
    /\ rlFault' = ~ok
    /\ ipc' = IF ok THEN "wait" ELSE "off"
    /\ UNCHANGED <<command, cancel>>

\* RequestPolicySwitch: a store, an exchange, and a store if it changed.
StoreCancel(on, playback) ==
    /\ cpc = "request"
    /\ on # requested \/ (on /\ playback) # cancel
    /\ cancel' = (on /\ playback)
    /\ cpc' = IF on # requested THEN "exchange" ELSE "run"
    /\ UNCHANGED <<command, entrySeq, requested, ready, readyBy, running,
                   terminate, sampleVars, threadVars, actionVars,
                   enteredAge, rlFault>>

ExchangeRequest ==
    /\ cpc = "exchange"
    /\ requested' = ~requested
    /\ cpc' = "clear"
    /\ UNCHANGED <<command, entrySeq, cancel, ready, readyBy, running,
                   terminate, sampleVars, threadVars, actionVars,
                   enteredAge, rlFault>>

VariantKeepsReady ==
    /\ cpc = "clear"
    /\ cpc' = "run"
    /\ UNCHANGED <<command, entrySeq, switchVars, running, terminate,
                   sampleVars, threadVars, actionVars,
                   enteredAge, rlFault>>

ClearReady ==
    /\ cpc = "clear"
    /\ ready' = FALSE /\ readyBy' = "none"
    /\ cpc' = "run"
    /\ UNCHANGED <<command, entrySeq, requested, cancel, running, terminate,
                   sampleVars, threadVars, actionVars,
                   enteredAge, rlFault>>

SameRequest ==
    /\ cpc = "request"
    /\ cpc' = "run"
    /\ UNCHANGED <<command, entrySeq, switchVars, running, terminate,
                   sampleVars, threadVars, actionVars,
                   enteredAge, rlFault>>

ReadyForPolicySwitch == requested /\ ready

\* PollPolicyPreparation installs the prepared policy: the old one is
\* suspended, and destroyed by a thread of its own.
SuspendForReplacement ==
    /\ cpc = "run"
    /\ ReadyForPolicySwitch
    /\ running' = FALSE
    /\ ipc' = Notified
    /\ cpc' = "retired"
    /\ UNCHANGED <<command, entrySeq, switchVars, terminate, sampleVars,
                   job, adapter, actionVars, enteredAge, rlFault>>

\* The request that stood when RL was entered is not played again.
SampledRequest == IF command = entrySeq THEN 0 ELSE command

\* Run, first part: the safety check and the release.
Run(safe) ==
    /\ cpc = "run"
    /\ IF ~safe
       THEN /\ rlFault' = TRUE
            /\ cpc' = "check"
            /\ UNCHANGED <<sampleVars, ipc>>
       ELSE /\ cpc' = "apply"
            /\ since' = (since + 1) % RlPeriod
            /\ IF since' = 0 /\ ~SensorLocked
               THEN /\ sample' = [age |-> 0, req |-> SampledRequest]
                    /\ dataReady' = TRUE
                    /\ ipc' = Notified
               ELSE UNCHANGED <<sample, dataReady, ipc>>
            /\ UNCHANGED rlFault
    /\ UNCHANGED <<command, entrySeq, switchVars, running, terminate, job,
                   adapter, actionVars, enteredAge>>

\* A limit of zero is none.
Exceeds(age, limit) == limit > 0 /\ age > limit

VariantNoFirstTimeout == hasAction /\ Exceeds(publishedAge, MaxActionAge)

\* The limit that applies now: the first action, or the age of the newest.
LeaseExpired ==
    IF hasAction THEN Exceeds(publishedAge, MaxActionAge)
    ELSE Exceeds(enteredAge, FirstTimeout)

\* Without the action lock only the published time is looked at.
VariantLockExcuses == FALSE
ContendedLeaseExpired == LeaseExpired

\* Run, second part: the newest action becomes the output, unless its lease
\* is over or the target cannot be clamped.
Apply(clampable) ==
    /\ cpc = "apply"
    /\ cpc' = "check"
    /\ IF ActionLocked
       THEN /\ rlFault' = (rlFault \/ ContendedLeaseExpired)
            /\ UNCHANGED fresh
       ELSE IF LeaseExpired
       THEN /\ rlFault' = TRUE
            /\ UNCHANGED fresh
       ELSE IF hasAction /\ fresh
       THEN /\ rlFault' = (rlFault \/ ~clampable)
            /\ fresh' = ~clampable
       ELSE UNCHANGED <<rlFault, fresh>>
    /\ UNCHANGED <<command, entrySeq, switchVars, running, terminate,
                   sampleVars, threadVars, hasAction, publishedAge,
                   enteredAge>>

\* CheckTransition, and OnExit when the state is left.
CheckTransition(leaveKey) ==
    /\ cpc = "check"
    /\ IF rlFault \/ leaveKey
       THEN /\ cpc' = "join"
            /\ running' = FALSE
            /\ terminate' = TRUE
            /\ ipc' = Notified
       ELSE /\ cpc' = "request"
            /\ UNCHANGED <<running, terminate, ipc>>
    /\ UNCHANGED <<command, entrySeq, switchVars, sampleVars, job, adapter,
                   actionVars, enteredAge, rlFault>>

\* The destructor of a replaced state stops the thread once more.
Retire ==
    /\ cpc = "retired"
    /\ cpc' = "retireJoin"
    /\ terminate' = TRUE
    /\ ipc' = Notified
    /\ UNCHANGED <<command, entrySeq, switchVars, running, sampleVars,
                   job, adapter, actionVars, enteredAge, rlFault>>

\* infer_loop_.Stop() returns when the thread has ended.
Join ==
    /\ cpc \in {"join", "retireJoin"}
    /\ ipc \in {"off", "ended"}
    /\ cpc' = "off"
    /\ ipc' = "off"
    /\ Reset
    /\ entrySeq' = 0 /\ rlFault' = FALSE
    /\ UNCHANGED <<command, cancel, running>>

Control ==
    \/ \E on, playback \in BOOLEAN : StoreCancel(on, playback)
    \/ ExchangeRequest
    \/ ClearReady
    \/ SameRequest
    \/ SuspendForReplacement
    \/ \E safe \in BOOLEAN : Run(safe)
    \/ \E clampable \in BOOLEAN : Apply(clampable)
    \/ \E leaveKey \in BOOLEAN : CheckTransition(leaveKey)
    \/ Retire
    \/ Join

\* SetCommand, between two cycles: an operator asks for an action.
SetCommand ==
    /\ cpc \in {"off", "request"}
    /\ command < MaxRequests
    /\ command' = command + 1
    /\ UNCHANGED <<cpc, entrySeq, switchVars, running, terminate, sampleVars,
                   threadVars, actionVars, enteredAge, rlFault>>

-----------------------------------------------------------------------------
\* The inference thread: one InferStep.

inferVars == <<cpc, command, entrySeq, requested, cancel, running, terminate,
               sample, since, enteredAge>>

\* The predicate that keeps the thread waiting.
VariantWaitsForData == ~dataReady
MustWait == ~dataReady /\ running

\* The wait: under the mutex the predicate is evaluated, ...
EvaluatePredicate ==
    /\ ipc = "wait"
    /\ ipc' = IF MustWait THEN "check" ELSE IF running THEN "snap" ELSE "ended"
    /\ UNCHANGED <<inferVars, ready, readyBy, dataReady, job, adapter,
                   actionVars, rlFault>>

\* ... and only then does the thread release the mutex and block.
Block ==
    /\ ipc = "check"
    /\ ipc' = "blocked"
    /\ UNCHANGED <<inferVars, ready, readyBy, dataReady, job, adapter,
                   actionVars, rlFault>>

SpuriousWakeup ==
    /\ ipc = "blocked"
    /\ ipc' = "wait"
    /\ UNCHANGED <<inferVars, ready, readyBy, dataReady, job, adapter,
                   actionVars, rlFault>>

\* The copy, under the mutex; the sample is not read again.
TakeSnapshot ==
    /\ ipc = "snap"
    /\ dataReady' = FALSE
    /\ job' = JobOf(sample)
    /\ sample' = NoSample
    /\ ipc' = "prepare"
    /\ UNCHANGED <<cpc, command, entrySeq, requested, cancel, running,
                   terminate, since, enteredAge, ready, readyBy, adapter, actionVars,
                   rlFault>>

\* StartPlayback, HandleInteractionRequest, PreparePolicySwitch and
\* PrepareInputs; a motion that plays may reach its end here.
Prepare(startKey, ends) ==
    /\ ipc = "prepare"
    /\ LET takes == ~requested /\ job.req > adapter.last
           plays == \/ ~requested /\ startKey
                    \/ takes
                    \/ adapter.playing /\ ~ends
       IN /\ adapter' = [playing |-> plays,
                         last |-> IF takes THEN job.req ELSE adapter.last]
          /\ job' = [job EXCEPT !.switching = requested]
    /\ ipc' = "infer"
    /\ UNCHANGED <<inferVars, ready, readyBy, dataReady, actionVars, rlFault>>

\* AssembleObs and Infer; the action may be invalid.
Infer(valid) ==
    /\ ipc = "infer"
    /\ ~terminate
    /\ job' = [job EXCEPT !.valid = valid, !.rest = ~adapter.playing]
    /\ ipc' = "deadline"
    /\ UNCHANGED <<inferVars, ready, readyBy, dataReady, adapter,
                   actionVars, rlFault>>

\* An exception, at the latest because termination was requested.
InferThrows ==
    /\ ipc = "infer"
    /\ rlFault' = (rlFault \/ running)
    /\ ipc' = "ended"
    /\ job' = NoJob
    /\ UNCHANGED <<inferVars, ready, readyBy, dataReady, adapter,
                   actionVars>>

Late == Exceeds(job.age, Deadline)

\* The deadline, and the check of the action.
MustNotPublish == Late \/ ~job.valid

CheckDeadline ==
    /\ ipc = "deadline"
    /\ IF MustNotPublish
       THEN IF Late /\ DiscardLate
            THEN ipc' = "wait" /\ UNCHANGED rlFault
            ELSE ipc' = "ended" /\ rlFault' = TRUE
       ELSE ipc' = "ready" /\ UNCHANGED rlFault
    /\ job' = IF ipc' = "ready" THEN job ELSE NoJob
    /\ UNCHANGED <<inferVars, ready, readyBy, dataReady, adapter,
                   actionVars>>

\* switch_ready_ is computed, with the cancellation of this moment, ...
ComputeReady ==
    /\ ipc = "ready"
    /\ job' = [job EXCEPT !.byCancel = cancel]
    /\ ipc' = "store"
    /\ UNCHANGED <<inferVars, ready, readyBy, dataReady, adapter,
                   actionVars, rlFault>>

\* ... and then stored.
StoreReady(zero) ==
    /\ ipc = "store"
    /\ ready' = (job.switching /\ zero /\ (job.rest \/ job.byCancel))
    /\ readyBy' = IF ~ready' THEN "none"
                  ELSE IF job.rest THEN "rest" ELSE "cancel"
    /\ ipc' = "publish"
    /\ job' = NoJob
    /\ UNCHANGED <<inferVars, dataReady, adapter, actionVars, rlFault>>

Publish ==
    /\ ipc = "publish"
    /\ hasAction' = TRUE
    /\ fresh' = TRUE
    /\ publishedAge' = 0
    /\ ipc' = "unlock"
    /\ UNCHANGED <<inferVars, ready, readyBy, dataReady, job, adapter,
                   rlFault>>

Unlock ==
    /\ ipc = "unlock"
    /\ ipc' = "wait"
    /\ UNCHANGED <<inferVars, ready, readyBy, dataReady, job, adapter,
                   actionVars, rlFault>>

InferenceThread ==
    \/ EvaluatePredicate \/ Block \/ TakeSnapshot
    \/ \E startKey, ends \in BOOLEAN : Prepare(startKey, ends)
    \/ CheckDeadline \/ ComputeReady
    \/ \E zero \in BOOLEAN : StoreReady(zero)
    \/ Publish \/ Unlock
    \/ terminate /\ InferThrows

-----------------------------------------------------------------------------
Older(age) == IF age < AgeCap THEN age + 1 ELSE age

\* Time passes between two control cycles, or while a join waits.  An age that
\* nothing reads any more is not counted.
Tick ==
    /\ cpc \in {"off", "request", "join", "retired", "retireJoin"}
    /\ publishedAge' = IF hasAction THEN Older(publishedAge) ELSE 0
    /\ enteredAge' = IF hasAction THEN 0 ELSE Older(enteredAge)
    /\ sample' = IF dataReady THEN [sample EXCEPT !.age = Older(@)] ELSE sample
    /\ job' = [job EXCEPT !.age = Older(@)]
    /\ UNCHANGED <<cpc, command, entrySeq, switchVars, running, terminate,
                   dataReady, since, ipc, adapter, hasAction, fresh,
                   rlFault>>

PipelineNext ==
    \/ \E ok \in BOOLEAN : OnEnter(ok)
    \/ Control
    \/ SetCommand
    \/ InferenceThread
    \/ \E valid \in BOOLEAN : Infer(valid)
    \/ InferThrows
    \/ SpuriousWakeup
    \/ Tick

PipelineSpec == PipelineInit /\ [][PipelineNext]_vars

\* The control loop goes on, and time passes between its cycles (strong
\* fairness: a tick cannot happen within one); so does the inference thread, but
\* the policy itself need not return unless it was asked to terminate, and
\* nobody owes the thread a spurious wake-up.
PipelineFairness ==
    /\ WF_vars(Control)
    /\ SF_vars(Tick)
    /\ WF_vars(InferenceThread)

FairPipelineSpec == PipelineSpec /\ PipelineFairness

-----------------------------------------------------------------------------
(* Properties                                                              *)

\* A control cycle that ends without a fault drives with an action whose
\* lease is not over, or waits for a first action that is not overdue, also
\* when the publisher was descheduled with the action lock in its hands.
LeaseHolds == cpc = "check" /\ ~rlFault => ~LeaseExpired

\* A handoff that is ready because the adapter is at rest finds the adapter
\* at rest, however the request was cancelled and repeated while an
\* inference that saw an earlier request was under way.
ReadyIsAtRest ==
    cpc = "run" /\ ReadyForPolicySwitch /\ readyBy = "rest" => ~adapter.playing

\* Inside RL, with the limits configured, a new action is published, or the
\* entry comes to an end: whatever the inference thread does, control does
\* not go on forever with an old action.
WatchdogBites ==
    cpc = "run" ~>
        (cpc \in {"join", "retired"} \/ (hasAction /\ publishedAge = 0))

\* The control loop, which joins the inference thread when RL is left, gets
\* it back, unless the thread was about to block without having heard of it.
JoinEnds ==
    cpc = "join" /\ ipc \notin {"check", "blocked"} ~> cpc = "off"

\* It always gets it back: policy_adapter.h has inference interrupted before
\* the thread is joined so that the join ends.
JoinReturns == cpc = "join" ~> cpc = "off"
=============================================================================
