--------------------------- MODULE RlPipeline_proofs ---------------------------
(***************************************************************************)
(* Proofs about the two threads of the RL state, for every period, every   *)
(* limit and every number of requests: no cycle drives beyond the lease of *)
(* its action, and a handoff that is ready because the adapter rests finds *)
(* it at rest.                                                             *)
(***************************************************************************)
EXTENDS RlPipeline, TLAPS

-----------------------------------------------------------------------------
(* Types: what the records need, and that ages stay within their bound.    *)

DataOK ==
    /\ command \in Requests /\ entrySeq \in Requests
    /\ sample \in Sample /\ job \in Job
    /\ adapter \in [playing : BOOLEAN, last : Requests]
    /\ requested \in BOOLEAN /\ cancel \in BOOLEAN
    /\ publishedAge \in Ages /\ enteredAge \in Ages

LEMMA Constants ==
    /\ AgeCap \in Nat /\ 0 \in Ages /\ 0 \in Requests
    /\ NoSample \in Sample /\ NoJob \in Job
    /\ \A age \in Ages : Older(age) \in Ages
    /\ \A s \in Sample : JobOf(s) \in Job
  BY PipelineAssumption DEF Ages, Requests, NoSample, NoJob, JobOf, Sample, Job, Older

LEMMA ResetData ==
    ASSUME DataOK, Reset
    PROVE  /\ sample' \in Sample /\ job' \in Job
           /\ adapter' \in [playing : BOOLEAN, last : Requests]
           /\ requested' \in BOOLEAN
           /\ publishedAge' \in Ages /\ enteredAge' \in Ages
  BY Constants DEF Reset

LEMMA DataHolds == PipelineSpec => []DataOK
  <1>1. PipelineInit => DataOK
    <2> SUFFICES ASSUME PipelineInit PROVE DataOK
      OBVIOUS
    <2>1. [playing |-> FALSE, last |-> 0] \in [playing : BOOLEAN, last : Requests]
      BY Constants
    <2>2. adapter = [playing |-> FALSE, last |-> 0]
      BY DEF PipelineInit
    <2>3. requested \in BOOLEAN /\ cancel \in BOOLEAN
      BY DEF PipelineInit
    <2>4. /\ command = 0 /\ entrySeq = 0 /\ publishedAge = 0 /\ enteredAge = 0
          /\ sample = NoSample /\ job = NoJob
      BY DEF PipelineInit
    <2> QED
      BY <2>1, <2>2, <2>3, <2>4, Constants DEF DataOK
  <1>2. DataOK /\ [PipelineNext]_vars => DataOK'
    <2> SUFFICES ASSUME DataOK, [PipelineNext]_vars PROVE DataOK'
      OBVIOUS
    <2>1. ASSUME NEW ok \in BOOLEAN, OnEnter(ok) PROVE DataOK'
      BY <2>1, ResetData DEF OnEnter, DataOK
    <2>2. ASSUME NEW on \in BOOLEAN, NEW playback \in BOOLEAN, StoreCancel(on, playback)
          PROVE  DataOK'
      BY <2>2 DEF StoreCancel, DataOK, sampleVars, threadVars, actionVars
    <2>3. CASE ExchangeRequest
      BY <2>3 DEF ExchangeRequest, DataOK, sampleVars, threadVars, actionVars
    <2>4. CASE ClearReady \/ SameRequest
      BY <2>4 DEF ClearReady, SameRequest, DataOK, switchVars, sampleVars, threadVars,
                  actionVars
    <2>5. CASE SuspendForReplacement \/ Retire
      BY <2>5 DEF SuspendForReplacement, Retire, DataOK, switchVars, sampleVars,
                  actionVars
    <2>6. ASSUME NEW safe \in BOOLEAN, Run(safe) PROVE DataOK'
      <3>1. SampledRequest \in Requests
        BY Constants DEF DataOK, SampledRequest
      <3>2. [age |-> 0, req |-> SampledRequest] \in Sample
        BY <3>1, Constants DEF Sample
      <3>3. sample' \in {sample, [age |-> 0, req |-> SampledRequest]}
        BY <2>6 DEF Run, sampleVars
      <3>4. UNCHANGED <<command, entrySeq, requested, cancel, job, adapter,
                        publishedAge, enteredAge>>
        BY <2>6 DEF Run, switchVars, actionVars
      <3> QED
        BY <3>2, <3>3, <3>4 DEF DataOK
    <2>7. ASSUME NEW clampable \in BOOLEAN, Apply(clampable) PROVE DataOK'
      BY <2>7 DEF Apply, DataOK, switchVars, sampleVars, threadVars
    <2>8. ASSUME NEW leaveKey \in BOOLEAN, CheckTransition(leaveKey) PROVE DataOK'
      BY <2>8 DEF CheckTransition, DataOK, switchVars, sampleVars, actionVars
    <2>9. CASE Join
      BY <2>9, ResetData, Constants DEF Join, DataOK
    <2>10. CASE SetCommand
      BY <2>10, PipelineAssumption
         DEF SetCommand, DataOK, Requests, switchVars, sampleVars, threadVars, actionVars
    <2>11. CASE EvaluatePredicate \/ Block \/ SpuriousWakeup \/ Unlock
      BY <2>11 DEF EvaluatePredicate, Block, SpuriousWakeup, Unlock, DataOK, inferVars,
                   actionVars
    <2>12. CASE TakeSnapshot
      BY <2>12, Constants DEF TakeSnapshot, DataOK, actionVars
    <2>13. ASSUME NEW startKey \in BOOLEAN, NEW ends \in BOOLEAN, Prepare(startKey, ends)
           PROVE  DataOK'
      <3>1. UNCHANGED <<command, entrySeq, requested, cancel, sample, publishedAge,
                        enteredAge>>
        BY <2>13 DEF Prepare, inferVars, actionVars
      <3>2. job' = [job EXCEPT !.switching = requested]
        BY <2>13 DEF Prepare
      <3>3. \E plays \in BOOLEAN, l \in {job.req, adapter.last} :
              adapter' = [playing |-> plays, last |-> l]
        BY <2>13 DEF Prepare, DataOK
      <3>4. job.req \in Requests /\ adapter.last \in Requests
        BY DEF DataOK, Job
      <3> QED
        BY <3>1, <3>2, <3>3, <3>4 DEF DataOK, Job
    <2>14. ASSUME NEW valid \in BOOLEAN, Infer(valid) PROVE DataOK'
      BY <2>14 DEF Infer, DataOK, inferVars, actionVars, Job
    <2>15. CASE InferThrows \/ CheckDeadline
      BY <2>15, Constants DEF InferThrows, CheckDeadline, DataOK, inferVars, actionVars
    <2>16. CASE ComputeReady
      BY <2>16 DEF ComputeReady, DataOK, inferVars, actionVars, Job
    <2>17. ASSUME NEW zero \in BOOLEAN, StoreReady(zero) PROVE DataOK'
      BY <2>17, Constants DEF StoreReady, DataOK, inferVars, actionVars
    <2>18. CASE Publish
      BY <2>18, Constants DEF Publish, DataOK, inferVars
    <2>19. CASE Tick
      <3>1. publishedAge' \in Ages /\ enteredAge' \in Ages
        BY <2>19, Constants DEF Tick, DataOK
      <3>2. sample' \in Sample /\ job' \in Job
        BY <2>19, Constants DEF Tick, DataOK, Sample, Job
      <3> QED
        BY <2>19, <3>1, <3>2 DEF Tick, DataOK, switchVars
    <2>20. CASE UNCHANGED vars
      BY <2>20 DEF vars, DataOK, switchVars, sampleVars, threadVars, actionVars
    <2> QED
      BY <2>1, <2>2, <2>3, <2>4, <2>5, <2>6, <2>7, <2>8, <2>9, <2>10, <2>11, <2>12,
         <2>13, <2>14, <2>15, <2>16, <2>17, <2>18, <2>19, <2>20
         DEF PipelineNext, Control, InferenceThread
  <1> QED
    BY <1>1, <1>2, PTL DEF PipelineSpec

-----------------------------------------------------------------------------
(***************************************************************************)
(* The lease: Apply looks at it in every cycle, with the action lock or    *)
(* without it, and until the cycle has ended the other thread can only     *)
(* publish, which makes the action new.                                    *)
(***************************************************************************)
THEOREM LeaseAlwaysHolds == PipelineSpec => []LeaseHolds
  <1>1. PipelineInit => LeaseHolds
    BY DEF PipelineInit, LeaseHolds
  <1>2. LeaseHolds /\ [PipelineNext]_vars => LeaseHolds'
    <2> SUFFICES ASSUME LeaseHolds, [PipelineNext]_vars, cpc' = "check", ~rlFault'
                 PROVE  ~LeaseExpired'
      BY DEF LeaseHolds
    <2>1. ASSUME NEW clampable \in BOOLEAN, Apply(clampable) PROVE ~LeaseExpired'
      <3>1. UNCHANGED <<hasAction, publishedAge, enteredAge>>
        BY <2>1 DEF Apply
      <3>2. ~LeaseExpired
        BY <2>1 DEF Apply, ContendedLeaseExpired
      <3> QED
        BY <3>1, <3>2 DEF LeaseExpired
    <2>2. CASE Publish
      BY <2>2, PipelineAssumption DEF Publish, LeaseExpired, Exceeds
    <2>3. CASE cpc = "check" /\ ~rlFault /\ UNCHANGED <<hasAction, publishedAge, enteredAge>>
      BY <2>3 DEF LeaseHolds, LeaseExpired
    <2>4. ASSUME NEW ok \in BOOLEAN, NEW on \in BOOLEAN, NEW playback \in BOOLEAN,
                 NEW safe \in BOOLEAN, NEW leaveKey \in BOOLEAN,
                 \/ OnEnter(ok) \/ StoreCancel(on, playback) \/ ExchangeRequest
                 \/ ClearReady \/ SameRequest \/ SuspendForReplacement \/ Run(safe)
                 \/ CheckTransition(leaveKey) \/ Retire \/ Join \/ SetCommand \/ Tick
          PROVE  FALSE
      BY <2>4 DEF OnEnter, StoreCancel, ExchangeRequest, ClearReady, SameRequest,
                  SuspendForReplacement, Run, CheckTransition, Retire, Join, SetCommand,
                  Tick
    <2>5. CASE \/ EvaluatePredicate \/ Block \/ TakeSnapshot \/ ComputeReady \/ Unlock
               \/ CheckDeadline \/ InferThrows \/ SpuriousWakeup
               \/ \E startKey, ends \in BOOLEAN : Prepare(startKey, ends)
               \/ \E zero \in BOOLEAN : StoreReady(zero)
               \/ \E valid \in BOOLEAN : Infer(valid)
      <3>1. cpc = "check" /\ UNCHANGED <<hasAction, publishedAge, enteredAge>>
        BY <2>5 DEF EvaluatePredicate, Block, TakeSnapshot, ComputeReady, Unlock,
                    CheckDeadline, InferThrows, SpuriousWakeup, Prepare, StoreReady,
                    Infer, inferVars, actionVars
      <3>2. ~rlFault
        BY <2>5 DEF EvaluatePredicate, Block, TakeSnapshot, ComputeReady, Unlock,
                    CheckDeadline, InferThrows, SpuriousWakeup, Prepare, StoreReady,
                    Infer, inferVars, actionVars
      <3> QED
        BY <2>3, <3>1, <3>2
    <2>6. CASE UNCHANGED vars
      BY <2>3, <2>6 DEF vars, actionVars
    <2> QED
      BY <2>1, <2>2, <2>4, <2>5, <2>6 DEF PipelineNext, Control, InferenceThread
  <1> QED
    BY <1>1, <1>2, PTL DEF PipelineSpec

-----------------------------------------------------------------------------
(***************************************************************************)
(* The handoff: what the inference thread found at rest stays at rest      *)
(* while the handoff is asked for, because only a request that begins can  *)
(* start a motion; and when it is withdrawn and asked for again, what was  *)
(* ready is cleared before it is looked at.                                *)
(***************************************************************************)
RestInv ==
    /\ ready /\ readyBy = "rest" /\ requested /\ cpc # "clear" => ~adapter.playing
    /\ ipc \in {"deadline", "ready", "store"} /\ job.rest => ~adapter.playing

LEMMA RestKept ==
    ASSUME RestInv, UNCHANGED <<ready, readyBy, requested, adapter, job>>,
           cpc = "clear" => cpc' = "clear",
           ipc' \in {"deadline", "ready", "store"} => ipc' = ipc
    PROVE  RestInv'
  BY DEF RestInv

THEOREM RestIsFound == PipelineSpec => []ReadyIsAtRest
  <1>1. PipelineInit => RestInv
    BY DEF PipelineInit, RestInv
  <1>2. DataOK /\ RestInv /\ [PipelineNext]_vars => RestInv'
    <2> SUFFICES ASSUME DataOK, RestInv, [PipelineNext]_vars PROVE RestInv'
      OBVIOUS
    <2> USE DEF switchVars, sampleVars, threadVars, actionVars, inferVars, Notified
    <2>1. CASE Reset /\ ipc' \in {"wait", "off"}
      BY <2>1 DEF Reset, RestInv
    <2>2. ASSUME NEW ok \in BOOLEAN, OnEnter(ok) PROVE RestInv'
      BY <2>1, <2>2 DEF OnEnter
    <2>3. ASSUME NEW on \in BOOLEAN, NEW playback \in BOOLEAN, StoreCancel(on, playback)
          PROVE  RestInv'
      BY <2>3, RestKept DEF StoreCancel
    <2>4. CASE ExchangeRequest
      BY <2>4 DEF ExchangeRequest, RestInv
    <2>5. CASE ClearReady
      BY <2>5 DEF ClearReady, RestInv
    <2>6. CASE SameRequest
      BY <2>6, RestKept DEF SameRequest
    <2>7. CASE SuspendForReplacement \/ Retire
      BY <2>7, RestKept DEF SuspendForReplacement, Retire
    <2>8. ASSUME NEW safe \in BOOLEAN, Run(safe) PROVE RestInv'
      BY <2>8, RestKept DEF Run
    <2>9. ASSUME NEW clampable \in BOOLEAN, Apply(clampable) PROVE RestInv'
      BY <2>9, RestKept DEF Apply
    <2>10. ASSUME NEW leaveKey \in BOOLEAN, CheckTransition(leaveKey) PROVE RestInv'
      BY <2>10, RestKept DEF CheckTransition
    <2>11. CASE Join
      BY <2>1, <2>11 DEF Join
    <2>12. CASE SetCommand
      BY <2>12, RestKept DEF SetCommand
    <2>13. CASE EvaluatePredicate \/ Block \/ SpuriousWakeup \/ Publish \/ Unlock
      BY <2>13, RestKept DEF EvaluatePredicate, Block, SpuriousWakeup, Publish, Unlock
    <2>14. CASE TakeSnapshot
      BY <2>14 DEF TakeSnapshot, RestInv
    <2>15. ASSUME NEW startKey \in BOOLEAN, NEW ends \in BOOLEAN, Prepare(startKey, ends)
           PROVE  RestInv'
      <3>1. /\ ipc' = "infer" /\ UNCHANGED <<ready, readyBy, requested, cpc>>
            /\ requested /\ ~adapter.playing => ~adapter'.playing
        BY <2>15 DEF Prepare
      <3> QED
        BY <3>1 DEF RestInv
    <2>16. ASSUME NEW valid \in BOOLEAN, Infer(valid) PROVE RestInv'
      <3>1. UNCHANGED <<ready, readyBy, requested, cpc, adapter>>
        BY <2>16 DEF Infer
      <3>2. job'.rest = ~adapter.playing
        BY <2>16 DEF Infer, DataOK, Job
      <3> QED
        BY <3>1, <3>2 DEF RestInv
    <2>17. CASE InferThrows
      BY <2>17 DEF InferThrows, RestInv
    <2>18. CASE CheckDeadline
      BY <2>18 DEF CheckDeadline, RestInv
    <2>19. CASE ComputeReady
      <3>1. UNCHANGED <<ready, readyBy, requested, cpc, adapter>> /\ ipc = "ready"
        BY <2>19 DEF ComputeReady
      <3>2. job'.rest = job.rest
        BY <2>19 DEF ComputeReady, DataOK, Job
      <3> QED
        BY <3>1, <3>2 DEF RestInv
    <2>20. ASSUME NEW zero \in BOOLEAN, StoreReady(zero) PROVE RestInv'
      <3>1. UNCHANGED <<requested, cpc, adapter>> /\ ipc = "store" /\ ipc' = "publish"
        BY <2>20 DEF StoreReady
      <3>2. readyBy' = "rest" => job.rest
        BY <2>20 DEF StoreReady
      <3> QED
        BY <3>1, <3>2 DEF RestInv
    <2>21. CASE Tick
      <3>1. /\ UNCHANGED <<ready, readyBy, requested, cpc, adapter, ipc>>
            /\ job' = [job EXCEPT !.age = Older(@)]
        BY <2>21 DEF Tick
      <3>2. job'.rest = job.rest
        BY <3>1 DEF DataOK, Job
      <3> QED
        BY <3>1, <3>2 DEF RestInv
    <2>22. CASE UNCHANGED vars
      BY <2>22, RestKept DEF vars
    <2> QED
      BY <2>2, <2>3, <2>4, <2>5, <2>6, <2>7, <2>8, <2>9, <2>10, <2>11, <2>12, <2>13,
         <2>14, <2>15, <2>16, <2>17, <2>18, <2>19, <2>20, <2>21, <2>22
         DEF PipelineNext, Control, InferenceThread
  <1>3. RestInv => ReadyIsAtRest
    BY DEF RestInv, ReadyIsAtRest, ReadyForPolicySwitch
  <1> QED
    BY <1>1, <1>2, <1>3, DataHolds, PTL DEF PipelineSpec
=============================================================================
