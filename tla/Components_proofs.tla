--------------------------- MODULE Components_proofs ---------------------------
(***************************************************************************)
(* Proofs about components that keep to themselves: the watch over the     *)
(* driver's stream, the planner thread, the sample queues, the capture of  *)
(* the log, the client of the operator service, the fixed-base profile,    *)
(* the messages and the ring of the shared memory. Each section has an     *)
(* inductive invariant and the property that follows from it.              *)
(***************************************************************************)
EXTENDS ControlRuntime, SonicPlanner, SampleWorkers, LogCapture,
        OperatorClient, FixedBase, Transport, ShmChannel, TLAPS

-----------------------------------------------------------------------------
(* ControlRuntime: a fault of before the first cycle is kept until then.   *)

RuntimeInv ==
    /\ {driverFault, latestFault, startupFault} \subseteq Reports
    /\ owed /\ ~hasControl => startupFault.latched

LEMMA KeptFault ==
    ASSUME RuntimeInv, NEW fault \in Reports
    PROVE  /\ KeepStartupFault(fault) \in Reports
           /\ fault.latched \/ startupFault.latched
                => KeepStartupFault(fault).latched
  BY DEF RuntimeInv, KeepStartupFault, Reports, NoReport, ActiveReport, OverReport

LEMMA RuntimeInvHolds == RuntimeSpec => []RuntimeInv
  <1>1. RuntimeInit => RuntimeInv
    BY DEF RuntimeInit, RuntimeInv, Reports
  <1>2. RuntimeInv /\ [RuntimeNext]_runtimeVars => RuntimeInv'
    <2> SUFFICES ASSUME RuntimeInv, [RuntimeNext]_runtimeVars PROVE RuntimeInv'
      OBVIOUS
    <2>1. ASSUME NEW relation \in Relations, Receive(relation) PROVE RuntimeInv'
      <3>1. driverFault \in Reports
        BY DEF RuntimeInv
      <3>2. latestFault' = driverFault /\ UNCHANGED <<driverFault, hasControl>>
        BY <2>1 DEF Receive
      <3>3. startupFault' = IF stateReady THEN startupFault
                            ELSE KeepStartupFault(driverFault)
        BY <2>1 DEF Receive
      <3>4. owed' = (owed \/ (~stateReady /\ ~hasControl /\ driverFault.latched))
        BY <2>1 DEF Receive
      <3> QED
        BY <3>1, <3>2, <3>3, <3>4, KeptFault DEF RuntimeInv
    <2>2. CASE Step
      BY <2>2 DEF Step, RuntimeInv, Reports
    <2>3. ASSUME NEW fault \in Reports, DriverChanges(fault) PROVE RuntimeInv'
      BY <2>3 DEF DriverChanges, RuntimeInv
    <2>4. CASE DriverRestarts
      BY <2>4 DEF DriverRestarts, RuntimeInv, Reports
    <2>5. CASE Judge \/ Clock \/ UNCHANGED runtimeVars
      BY <2>5 DEF Judge, Clock, runtimeVars, RuntimeInv
    <2> QED
      BY <2>1, <2>2, <2>3, <2>4, <2>5 DEF RuntimeNext
  <1> QED
    BY <1>1, <1>2, PTL DEF RuntimeSpec

(***************************************************************************)
(* For every timeout: what the driver reported before the first cycle      *)
(* reaches the manager in it.                                              *)
(***************************************************************************)
THEOREM StartupFaultIsTold == RuntimeSpec => StartupFaultReaches
  <1> DEFINE Told == hasControl' /\ ~hasControl /\ owed => report'.latched
  <1>1. RuntimeInv /\ [RuntimeNext]_runtimeVars => [Told]_runtimeVars
    <2> SUFFICES ASSUME RuntimeInv, RuntimeNext, hasControl', ~hasControl, owed
                 PROVE  report'.latched
      BY DEF runtimeVars
    <2>1. Step
      BY DEF RuntimeNext, Receive, Judge, DriverChanges, DriverRestarts, Clock
    <2>2. report' = ControlFault
      BY <2>1 DEF Step
    <2>3. startupFault.latched /\ latestFault \in Reports
      BY DEF RuntimeInv
    <2>4. latestFault.active => latestFault.latched
      BY <2>3 DEF Reports, NoReport, ActiveReport, OverReport
    <2> QED
      BY <2>2, <2>3, <2>4 DEF ControlFault
  <1> QED
    BY <1>1, RuntimeInvHolds, PTL DEF RuntimeSpec, StartupFaultReaches

-----------------------------------------------------------------------------
(* SonicPlanner: a plan for standing, and no request after its command.    *)

PlannerInv ==
    /\ requested \in BOOLEAN
    /\ idle => planned <= Epsilon
    /\ upToDate => ~requested

(***************************************************************************)
(* For every set of speeds and every way the updates, the planner, the     *)
(* resets and the stops of the thread interleave.                          *)
(***************************************************************************)
THEOREM RestStands == PlannerSpec => []RestIsStanding
  <1>1. PlannerInit => PlannerInv
    BY DEF PlannerInit, PlannerInv
  <1>2. PlannerInv /\ [PlannerNext]_plannerVars => PlannerInv'
    <2> SUFFICES ASSUME PlannerInv, [PlannerNext]_plannerVars PROVE PlannerInv'
      OBVIOUS
    <2>1. ASSUME NEW command \in Speeds, Update(command) PROVE PlannerInv'
      <3>1. UNCHANGED <<idle, planned>>
        BY <2>1 DEF Update
      <3>2. requested' = (requested \/ CommandChanged(command))
        BY <2>1 DEF Update
      <3>3. upToDate' = (upToDate /\ ~CommandChanged(command))
        BY <2>1 DEF Update
      <3> QED
        BY <3>1, <3>2, <3>3 DEF PlannerInv
    <2>2. CASE TestRequests
      <3>1. UNCHANGED <<idle, planned, upToDate>>
        BY <2>2 DEF TestRequests
      <3>2. requested' = (requested /\ worker' # "infer")
        BY <2>2 DEF TestRequests
      <3> QED
        BY <3>1, <3>2 DEF PlannerInv
    <2>3. ASSUME NEW tail \in 0..PlanTail, NEW now \in BOOLEAN,
                 PublishPlan(tail, now)
          PROVE  PlannerInv'
      <3>1. UNCHANGED requested
        BY <2>3 DEF PublishPlan
      <3>2. CASE ~running
        BY <2>3, <3>1, <3>2 DEF PublishPlan, PlannerInv
      <3>3. CASE running
        <4>1. /\ idle' = (SelectMode(snapshot) = 0)
              /\ planned' = snapshot /\ upToDate' = ~requested
          BY <2>3, <3>3 DEF PublishPlan, AnswersRequest
        <4>2. SelectMode(snapshot) = 0 => snapshot <= Epsilon
          BY DEF SelectMode
        <4> QED
          BY <3>1, <4>1, <4>2 DEF PlannerInv
      <3> QED
        BY <3>2, <3>3
    <2>4. CASE ResetPlanner
      BY <2>4 DEF ResetPlanner, PlannerInv
    <2>5. CASE AskReset \/ RequestStop \/ Load \/ LoadFails \/ WakeUp
      BY <2>5 DEF AskReset, RequestStop, Load, LoadFails, WakeUp, PlannerInv
    <2>6. CASE ReplanClock \/ Generate \/ GenerateFails \/ UNCHANGED plannerVars
      BY <2>6 DEF ReplanClock, Generate, GenerateFails, plannerVars, PlannerInv
    <2>7. ASSUME NEW wanted \in BOOLEAN, WantToLeave(wanted) PROVE PlannerInv'
      BY <2>7 DEF WantToLeave, PlannerInv
    <2> QED
      BY <2>1, <2>2, <2>3, <2>4, <2>5, <2>6, <2>7 DEF PlannerNext
  <1>3. PlannerInv => RestIsStanding
    BY DEF PlannerInv, RestIsStanding, AtRest
  <1> QED
    BY <1>1, <1>2, <1>3, PTL DEF PlannerSpec

-----------------------------------------------------------------------------
(* SampleWorkers: what is not stored, consumed or in hand is counted.      *)

InHand == IF thread = "consume" THEN 1 ELSE 0

WorkerInv ==
    /\ <<size, calls, consumed, dropped>> \in Nat \X Nat \X Nat \X Nat
    /\ capacity \in Nat /\ size <= capacity
    /\ keeps \in {"all", "latest"} /\ (keeps = "latest" => capacity = 1)
    /\ calls = consumed + dropped + size + InHand
    /\ thread \in {"wait", "woken", "consume", "ended"}
    /\ thread = "ended" /\ ~failed => stopped /\ size = 0

(***************************************************************************)
(* For every capacity and both kinds of worker. A stopped queue takes      *)
(* nothing more: that is why a worker that ended empty stays empty.        *)
(***************************************************************************)
THEOREM AllAccounted == WorkersSpec => []SamplesAreAccounted
  <1>1. WorkersInit => WorkerInv
    <2> SUFFICES ASSUME WorkersInit PROVE WorkerInv
      OBVIOUS
    <2>1. /\ size = 0 /\ calls = 0 /\ consumed = 0 /\ dropped = 0
          /\ failed = FALSE /\ thread = "woken"
      BY DEF WorkersInit
    <2>2. /\ keeps \in {"all", "latest"} /\ (keeps = "latest" => capacity = 1)
          /\ capacity \in Nat
      <3>1. Capacities \subseteq Nat
        BY WorkerAssumption
      <3>2. CASE keeps = "all" /\ capacity \in Capacities
        BY <3>1, <3>2
      <3>3. CASE keeps = "latest" /\ capacity = 1
        BY <3>3
      <3> QED
        BY <3>2, <3>3 DEF WorkersInit
    <2>3. size <= capacity
      BY <2>1, <2>2
    <2> QED
      BY <2>1, <2>2, <2>3 DEF WorkerInv, InHand
  <1>2. WorkerInv /\ [WorkersNext]_workerVars => WorkerInv'
    <2> SUFFICES ASSUME WorkerInv, [WorkersNext]_workerVars PROVE WorkerInv'
      OBVIOUS
    <2> USE DEF WorkerInv, InHand
    <2>1. ASSUME NEW locked \in BOOLEAN, PublishSample(locked) PROVE WorkerInv'
      <3>1. /\ calls' = calls + 1
            /\ UNCHANGED <<keeps, capacity, consumed, stopped, failed>>
        BY <2>1 DEF PublishSample
      <3>2. CASE UNCHANGED <<size, thread>> /\ dropped' = dropped + 1
        BY <3>1, <3>2
      <3>3. CASE /\ ~stopped /\ ~failed /\ (keeps = "all" => size < capacity)
                 /\ size' = IF keeps = "latest" THEN 1 ELSE size + 1
                 /\ dropped' = dropped + Replaced
                 /\ thread' = Woken
        <4>1. thread # "ended" /\ thread' \in {"woken", "consume"}
          BY <3>3 DEF Woken
        <4>2. (thread' = "consume") <=> (thread = "consume")
          BY <3>3 DEF Woken
        <4>3. size' - size = 1 - Replaced /\ size' \in Nat /\ size' <= capacity
          BY <3>3 DEF Replaced
        <4>4. Replaced \in {0, 1}
          BY DEF Replaced
        <4> QED
          BY <3>1, <3>3, <4>1, <4>2, <4>3, <4>4
      <3> QED
        BY <2>1, <3>2, <3>3 DEF PublishSample
    <2>2. CASE Stop
      BY <2>2 DEF Stop, Woken
    <2>3. CASE TakeSample
      BY <2>3 DEF TakeSample, NextThread
    <2>4. ASSUME NEW throws \in BOOLEAN, Consume(throws) PROVE WorkerInv'
      BY <2>4 DEF Consume
    <2>5. CASE UNCHANGED workerVars
      BY <2>5 DEF workerVars
    <2> QED
      BY <2>1, <2>2, <2>3, <2>4, <2>5 DEF WorkersNext, WorkerSteps
  <1>3. WorkerInv => SamplesAreAccounted
    BY DEF WorkerInv, SamplesAreAccounted, InHand
  <1> QED
    BY <1>1, <1>2, <1>3, PTL DEF WorkersSpec

-----------------------------------------------------------------------------
(* LogCapture: a capture that is marked complete has all of its rows.      *)

(***************************************************************************)
(* While a capture is open, a row that was lost is remembered in           *)
(* writeFailed, which is what keeps FinishCapture from marking it; and the *)
(* marker is only there in the step that finishes the capture or after it. *)
(***************************************************************************)
CaptureInv ==
    /\ data \in Fates
    /\ session = "off" => logWriter = "none"
    /\ logWriter \in {"finish", "mark"} => capture
    /\ capture /\ data = "lost" => writeFailed
    /\ marker # "no" => /\ data \in {"saved", "unsure"}
                        /\ ~capture \/ logWriter = "mark"

Starting == Results \ {"contended", "throws"}

\* What a request for a capture may do to the captures.
LEMMA RequestStarts ==
    ASSUME NEW trigger, NEW rest, NEW result \in Results,
           RequestCapture(trigger, result, rest)
    PROVE  \/ UNCHANGED captureVars
           \/ result \in Starting /\ StartCapture(result)
  BY DEF RequestCapture, Starting

LEMMA CaptureStarts ==
    ASSUME CaptureInv, logWriter \notin {"finish", "mark"},
           NEW result \in Starting,
           UNCHANGED captureVars \/ StartCapture(result),
           session' = "off" => logWriter' = "none",
           logWriter' \notin {"finish", "mark"}
    PROVE  CaptureInv'
  <1>1. CASE UNCHANGED captureVars
    BY <1>1 DEF CaptureInv, captureVars
  <1>2. CASE /\ result # "refused" /\ capture' = TRUE /\ marker' = "no"
             /\ writeFailed' = (result = "unwritten")
             /\ data' = CASE result = "saved" -> "saved"
                          [] result = "unwritten" -> "lost"
                          [] result = "unsynced" -> "unsure"
    <2>1. result \in {"saved", "unwritten", "unsynced"}
      BY <1>2 DEF Starting, Results
    <2>2. data' \in Fates /\ (data' = "lost" => writeFailed')
      <3>1. CASE result = "saved"
        BY <1>2, <3>1 DEF Fates
      <3>2. CASE result = "unwritten"
        BY <1>2, <3>2 DEF Fates
      <3>3. CASE result = "unsynced"
        BY <1>2, <3>3 DEF Fates
      <3> QED
        BY <2>1, <3>1, <3>2, <3>3
    <2> QED
      BY <1>2, <2>2 DEF CaptureInv
  <1> QED
    BY <1>1, <1>2 DEF StartCapture

LEMMA CaptureAsked ==
    ASSUME CaptureInv, logWriter \notin {"finish", "mark"},
           NEW trigger, NEW rest, NEW result \in Results,
           RequestCapture(trigger, result, rest),
           session' = "off" => logWriter' = "none",
           logWriter' \notin {"finish", "mark"}
    PROVE  CaptureInv'
  <1>1. CASE UNCHANGED captureVars
    BY <1>1 DEF CaptureInv, captureVars
  <1>2. CASE result \in Starting /\ StartCapture(result)
    BY <1>2, CaptureStarts
  <1> QED
    BY <1>1, <1>2, RequestStarts

\* Steps that leave the captures alone and do not bring the writer to the end
\* of one.
LEMMA CaptureKept ==
    ASSUME CaptureInv, UNCHANGED captureVars,
           session' = "off" => logWriter' = "none",
           logWriter' \in {"finish", "mark"} => capture,
           logWriter = "mark" => logWriter' = "mark"
    PROVE  CaptureInv'
  BY DEF CaptureInv, captureVars

LEMMA SyncKeeps ==
    ASSUME CaptureInv, NEW result \in Syncs, SyncCapture(result), capture
    PROVE  /\ data' \in Fates
           /\ data' = "lost" => writeFailed'
           /\ ~writeFailed' /\ result = "done" => data' \in {"saved", "unsure"}
  BY DEF CaptureInv, SyncCapture, Syncs, Fates

LEMMA CaptureInvHolds == LoggerSpec => []CaptureInv
  <1>1. LoggerInit => CaptureInv
    BY DEF LoggerInit, CaptureInv, Fates
  <1>2. CaptureInv /\ [LoggerNext]_loggerVars => CaptureInv'
    <2> SUFFICES ASSUME CaptureInv, [LoggerNext]_loggerVars PROVE CaptureInv'
      OBVIOUS
    <2>1. CASE StartSession
      BY <2>1, CaptureKept DEF StartSession, CaptureInv
    <2>2. CASE Shutdown
      BY <2>2, CaptureKept DEF Shutdown, CaptureInv
    <2>3. CASE WriteRow
      BY <2>3, CaptureKept DEF WriteRow, CaptureInv
    <2>4. ASSUME NEW trigger \in Triggers, NEW locked \in BOOLEAN,
                 Enqueue(trigger, locked)
          PROVE  CaptureInv'
      BY <2>4, CaptureKept DEF Enqueue, CaptureInv
    <2>5. ASSUME NEW s \in SpareSlots, FillSlot(s) PROVE CaptureInv'
      BY <2>5, CaptureKept DEF FillSlot, CaptureInv
    <2>6. CASE Take
      BY <2>6, CaptureKept DEF Take, CaptureInv
    <2>7. CASE Drained
      BY <2>7, CaptureKept DEF Drained, GoOn, CaptureInv
    <2>8. CASE TooSoon
      BY <2>8, CaptureKept DEF TooSoon, CaptureInv
    <2>9. ASSUME NEW s \in SpareSlots, NEW result \in Results,
                 DrainCritical(s, result)
          PROVE  CaptureInv'
      <3>1. UNCHANGED <<session, logWriter>> /\ logWriter = "drain"
        BY <2>9 DEF DrainCritical
      <3>2. CASE RequestCapture(spare[s].what, result, pending)
        BY <3>1, <3>2, CaptureAsked DEF CaptureInv
      <3>3. CASE UNCHANGED captureVars
        BY <3>1, <3>3, CaptureKept DEF CaptureInv
      <3> QED
        BY <2>9, <3>2, <3>3 DEF DrainCritical
    <2>10. ASSUME NEW result \in Syncs, FinishCapture(result) PROVE CaptureInv'
      <3>1. /\ capture /\ capture' = capture /\ SyncCapture(result)
            /\ session' = session /\ session # "off" /\ logWriter' = "mark"
            /\ marker' = IF Marks(result) THEN "pending" ELSE "no"
        BY <2>10 DEF FinishCapture, CaptureInv
      <3>2. marker' # "no" => ~writeFailed /\ result = "done"
        BY <3>1 DEF Marks
      <3>3. result = "done" /\ ~writeFailed => ~writeFailed'
        BY <3>1 DEF SyncCapture
      <3>4. marker' # "no" => data' \in {"saved", "unsure"}
        BY <3>1, <3>2, <3>3, SyncKeeps
      <3>5. data' \in Fates /\ (data' = "lost" => writeFailed')
        BY <3>1, SyncKeeps
      <3> QED
        BY <3>1, <3>4, <3>5 DEF CaptureInv
    <2>11. ASSUME NEW ok \in BOOLEAN, Mark(ok) PROVE CaptureInv'
      BY <2>11 DEF Mark, GoOn, CaptureInv
    <2>12. ASSUME NEW result \in Syncs, SyncOpenCapture(result) PROVE CaptureInv'
      <3>1. /\ capture /\ capture' = capture /\ SyncCapture(result)
            /\ UNCHANGED <<session, logWriter, marker>> /\ logWriter = "retry"
        BY <2>12 DEF SyncOpenCapture
      <3> QED
        BY <3>1, SyncKeeps DEF CaptureInv
    <2>13. ASSUME NEW result \in Results, Retry(result) PROVE CaptureInv'
      BY <2>13, CaptureAsked DEF Retry, CaptureInv
    <2>14. ASSUME NEW result \in Results, Record(result) PROVE CaptureInv'
      BY <2>14, CaptureAsked DEF Record, CaptureInv
    <2>15. ASSUME NEW rowWritten \in BOOLEAN, RecordRow(rowWritten) PROVE CaptureInv'
      BY <2>15 DEF RecordRow, CaptureInv, Fates
    <2>16. CASE DeadlinePasses
      BY <2>16 DEF DeadlinePasses, CaptureInv
    <2>17. CASE CooldownPasses
      BY <2>17, CaptureKept DEF CooldownPasses, CaptureInv
    <2>18. CASE PowerFails
      BY <2>18 DEF PowerFails, CaptureInv, Fates
    <2>19. CASE UNCHANGED loggerVars
      BY <2>19 DEF loggerVars, CaptureInv
    <2> QED
      BY <2>1, <2>2, <2>3, <2>4, <2>5, <2>6, <2>7, <2>8, <2>9, <2>10, <2>11,
         <2>12, <2>13, <2>14, <2>15, <2>16, <2>17, <2>18, <2>19 DEF LoggerNext
  <1> QED
    BY <1>1, <1>2, PTL DEF LoggerSpec

(***************************************************************************)
(* Rows that were never written are never in a complete capture, whatever  *)
(* fails and in whatever order triggers, rows, synchronisations, the end   *)
(* of a session and a loss of power come.                                  *)
(***************************************************************************)
THEOREM CompleteHasItsRows == LoggerSpec => []CompleteIsWritten
  <1>1. CaptureInv => CompleteIsWritten
    BY DEF CaptureInv, CompleteIsWritten
  <1> QED
    BY <1>1, CaptureInvHolds, PTL

-----------------------------------------------------------------------------
(* FixedBase: the preparation that was ended is not on.                    *)

BaseInv == mode \in Modes /\ (halted => ~automatic)

(***************************************************************************)
(* For all motions, blends and limits.                                     *)
(***************************************************************************)
THEOREM PreparationStaysEnded == BaseSpec => PreparationIsCancelled
  <1> DEFINE Needed == halted /\ Rank[mode'] > Rank[mode] => key' # "none"
  <1>1. BaseInit => BaseInv
    BY DEF BaseInit, BaseInv, Modes
  <1>2. ASSUME BaseInv, NEW k \in Keys, NEW active \in BOOLEAN,
               NEW request, NEW fed \in BOOLEAN, NEW done \in BOOLEAN,
               BaseStep(k, active, request, fed, done)
        PROVE  BaseInv' /\ Needed
    <2> DEFINE f    == Observe(active)
               m1   == Forced(mode, f)
               k1   == Allowed(m1, f, k)
               acts == StillAutomatic(f, k1) /\ fed
               m2   == IF acts THEN PreparedMode(m1) ELSE m1
               k2   == IF acts THEN PreparedKey(m1) ELSE k1
               done2 == m2 = mode /\ settled
    <2>1. /\ key' = k1 /\ mode' = NextMode(m2, k2, done2)
          /\ automatic' = (StillAutomatic(f, k1) /\ ~(fed /\ m1 = "trajectory"))
          /\ halted' = (halted \/ f.latched \/ k1 # "none")
      BY <1>2 DEF BaseStep
    <2>2. m1 \in {mode, "safety"} /\ m2 \in Modes
      BY <1>2 DEF BaseInv, Forced, PreparedMode, Modes
    <2>3. mode' \in Modes
      <3> HIDE DEF m2, k2, done2
      <3> QED
        BY <2>1, <2>2 DEF NextMode, Modes
    <2>4. halted' => ~automatic'
      <3> HIDE DEF f, m1, k1
      <3> QED
        BY <1>2, <2>1 DEF BaseInv, StillAutomatic
    <2>5. Needed
      <3> SUFFICES ASSUME halted, key' = "none" PROVE Rank[mode'] <= Rank[mode]
        BY <1>2, <2>2, <2>3 DEF Rank, BaseInv, Modes
      <3>1. ~automatic /\ k1 = "none"
        BY <1>2, <2>1 DEF BaseInv
      <3>2. m2 = m1 /\ k2 = "none"
        BY <3>1 DEF StillAutomatic
      <3>3. mode' \in {m1, "off"}
        <4> HIDE DEF m1, m2, k2, done2
        <4> QED
          BY <2>1, <3>2 DEF NextMode
      <3> QED
        <4> HIDE DEF m1
        <4> QED
          BY <1>2, <2>2, <3>3 DEF Rank, BaseInv, Modes
    <2> QED
      BY <2>3, <2>4, <2>5 DEF BaseInv
  <1>3. BaseInv /\ [BaseNext]_baseVars => BaseInv' /\ [Needed]_baseVars
    <2> SUFFICES ASSUME BaseInv, [BaseNext]_baseVars
                 PROVE  BaseInv' /\ (Needed \/ UNCHANGED baseVars)
      OBVIOUS
    <2>1. CASE Acknowledge
      BY <2>1 DEF Acknowledge, BaseInv, Rank, Modes
    <2>2. CASE \E k \in Keys, active, fed, done \in BOOLEAN :
                 BaseStep(k, active, [op |-> "none"], fed, done)
      BY <1>2, <2>2
    <2>3. CASE \E request \in Requests : BaseStep("none", FALSE, request, TRUE, FALSE)
      BY <1>2, <2>3 DEF Keys
    <2>4. CASE UNCHANGED baseVars
      BY <2>4 DEF baseVars, BaseInv
    <2> QED
      BY <2>1, <2>2, <2>3, <2>4 DEF BaseNext
  <1> QED
    BY <1>1, <1>3, PTL DEF BaseSpec, PreparationIsCancelled

-----------------------------------------------------------------------------
(* FixedBase: quotients, and the points of a straight line of a blend.     *)

\* An order of products by the same factor is the order of what it multiplies.
LEMMA LessByFactor ==
    ASSUME NEW n \in Nat \ {0}, NEW i \in Int, NEW j \in Int, n * i < n * j
    PROVE  i < j
  <1>1. SUFFICES ASSUME j <= i PROVE FALSE
    OBVIOUS
  <1>2. i - j \in Nat
    BY <1>1
  <1>3. n * (i - j) \in Nat
    BY <1>2
  <1>4. n * (i - j) = n * i - n * j
    OBVIOUS
  <1>5. n * i \in Int /\ n * j \in Int
    OBVIOUS
  <1> QED
    BY <1>3, <1>4, <1>5

\* A quotient is the whole number below.
LEMMA Quotient ==
    ASSUME NEW a \in Int, NEW n \in Nat \ {0}
    PROVE  /\ a \div n \in Int
           /\ n * (a \div n) <= a
           /\ a < n * (a \div n) + n
  OBVIOUS

\* The quotient of a multiple is its other factor.
LEMMA QuotientIs ==
    ASSUME NEW a \in Int, NEW n \in Nat \ {0}, NEW q \in Int, n * q = a
    PROVE  a \div n = q
  <1> DEFINE r == a \div n
  <1>1. r \in Int /\ n * r <= a /\ a < n * r + n
    BY Quotient
  <1> HIDE DEF r
  <1>2. n * r < n * (q + 1)
    BY <1>1
  <1>3. n * q < n * (r + 1)
    BY <1>1
  <1>4. r < q + 1 /\ q < r + 1
    BY <1>1, <1>2, <1>3, LessByFactor
  <1>5. r = q
    BY <1>1, <1>4
  <1> QED
    BY <1>5 DEF r

\* A point of a line over n cycles is no farther from the one before than what
\* the line covers in a cycle.
LEMMA LineStep ==
    ASSUME NEW d \in Int, NEW t \in Nat, NEW n \in Nat \ {0}, NEW k \in Nat,
           Distance(0, d) <= n * k
    PROVE  Distance((d * t) \div n, (d * (t + 1)) \div n) <= k
  <1> DEFINE q == (d * t) \div n
             r == (d * (t + 1)) \div n
  <1>1. d * t \in Int /\ d * (t + 1) \in Int /\ d * (t + 1) = d * t + d
    OBVIOUS
  <1>2. q \in Int /\ n * q <= d * t /\ d * t < n * q + n
    BY <1>1, Quotient
  <1>3. r \in Int /\ n * r <= d * (t + 1) /\ d * (t + 1) < n * r + n
    BY <1>1, Quotient
  <1> HIDE DEF q, r
  <1>4. d <= n * k /\ -d <= n * k
    BY DEF Distance
  <1>5. n * r \in Int /\ n * q \in Int /\ n * k \in Int
    BY <1>2, <1>3
  <1>6. n * r < n * q + n + n * k /\ n * q < n * r + n + n * k
    BY <1>1, <1>2, <1>3, <1>4, <1>5
  <1>7. /\ n * (q + 1 + k) = n * q + n + n * k
        /\ n * (r + 1 + k) = n * r + n + n * k
    BY <1>2, <1>3
  <1>8. r < q + 1 + k /\ q < r + 1 + k
    BY <1>2, <1>3, <1>6, <1>7, LessByFactor
  <1>9. Distance(q, r) <= k
    BY <1>2, <1>3, <1>8 DEF Distance
  <1> QED
    BY <1>9 DEF q, r

\* No point of a line lies beyond its end.
LEMMA LineWithin ==
    ASSUME NEW d \in Int, NEW n \in Nat \ {0}, NEW t \in 0 .. n
    PROVE  Distance(0, (d * t) \div n) <= Distance(0, d)
  <1> DEFINE q == (d * t) \div n
  <1>1. d * t \in Int
    OBVIOUS
  <1>2. q \in Int /\ n * q <= d * t /\ d * t < n * q + n
    BY <1>1, Quotient
  <1> HIDE DEF q
  <1>3. CASE d >= 0
    <2>1. 0 <= d * t
      BY <1>3
    <2>2. d * (n - t) >= 0 /\ d * (n - t) = n * d - d * t
      BY <1>3
    <2>3. n * q < n * (d + 1) /\ n * 0 < n * (q + 1)
      BY <1>1, <1>2, <2>1, <2>2
    <2>4. q < d + 1 /\ 0 < q + 1
      BY <1>2, <2>3, LessByFactor
    <2> QED
      BY <1>2, <1>3, <2>4 DEF q, Distance
  <1>4. CASE d < 0
    <2>1. d * t <= 0
      BY <1>4
    <2>2. (-d) * (n - t) >= 0 /\ (-d) * (n - t) = d * t - n * d
      BY <1>4
    <2>3. n * q < n * 1 /\ n * d < n * (q + 1)
      BY <1>1, <1>2, <2>1, <2>2
    <2>4. q < 1 /\ d < q + 1
      BY <1>2, <2>3, LessByFactor
    <2> QED
      BY <1>2, <1>4, <2>4 DEF q, Distance
  <1> QED
    BY <1>3, <1>4

-----------------------------------------------------------------------------
(* FixedBase: the target of the arms in every phase of a motion.           *)

MotionPhases ==
    {"IDLE", "REJECTED", "FINISHED", "BLEND_IN", "PLAYING", "HOLDING", "BLEND_OUT"}

PlayerType ==
    [number : Nat, phase : MotionPhases, clip : Clips \cup {NoClip}, source : Int,
     since : Nat]

\* A return that is not limited in velocity starts near enough to the ready pose.
NearEnough(x) == ReturnVelocity = 0 => Distance(0, x) <= BlendOut * (Jolt - 1)

\* The player between two cycles, and the target it left.
ArmHeld(p, x) ==
    /\ p \in PlayerType /\ x \in Int
    /\ ~Active(p) => x = 0
    /\ Active(p) => p.clip \in Clips /\ x = TargetOf(p)
    /\ p.phase = "BLEND_IN" => p.source = 0 /\ p.since < BlendIn
    /\ p.phase \in {"PLAYING", "HOLDING"} => Played(p) \in 0 .. Len(p.clip.frames) - 1
    /\ p.phase \in {"BLEND_IN", "PLAYING", "HOLDING"} => NearEnough(x)
    /\ p.phase = "BLEND_OUT" => p.since < ReturnTime(p) /\ NearEnough(p.source)

\* The player once it was asked, before its phase is settled: where that phase
\* will put the target is within Jolt of x, where the target is.
BlendInDue(p, x) ==
    /\ p.source = 0 /\ p.since <= BlendIn
    /\ p.since < BlendIn => Distance(x, TargetOf(p)) <= Jolt
    /\ p.since = BlendIn => Distance(x, p.clip.frames[1]) <= Jolt

MotionDue(p, x) ==
    /\ Played(p) >= 0
    /\ Played(p) < Len(p.clip.frames) - 1 =>
        Distance(x, p.clip.frames[Played(p) + 1]) <= Jolt
    /\ Played(p) >= Len(p.clip.frames) - 1 =>
        Distance(x, p.clip.frames[Len(p.clip.frames)]) <= Jolt

BlendOutDue(p, x) ==
    /\ p.since <= ReturnTime(p) /\ NearEnough(p.source)
    /\ Distance(x, TargetOf(p)) <= Jolt

ArmDue(p, x) ==
    /\ p \in PlayerType /\ x \in Int
    /\ ~Active(p) => x = 0
    /\ Active(p) => p.clip \in Clips
    /\ p.phase = "BLEND_IN" => BlendInDue(p, x)
    /\ p.phase \in {"PLAYING", "HOLDING"} => MotionDue(p, x)
    /\ p.phase = "BLEND_OUT" => BlendOutDue(p, x)

\* What the assumption says of the numbers and, below, of each motion.
LEMMA BlendConstants ==
    /\ BlendIn \in Nat /\ BlendOut \in Nat \ {0} /\ ReturnVelocity \in Nat
    /\ Jolt \in Nat \ {0} /\ Jolt - 1 \in Nat /\ ReturnVelocity <= Jolt - 1
  BY BaseAssumption

LEMMA ClipFacts ==
    ASSUME NEW c \in Clips
    PROVE  /\ c.frames \in Seq(Int) /\ Len(c.frames) \in Nat \ {0}
           /\ \A i \in 1 .. Len(c.frames) :
                c.frames[i] \in Int /\ NearEnough(c.frames[i])
           /\ \A i \in 1 .. Len(c.frames) :
                i > 1 => Distance(c.frames[i - 1], c.frames[i]) <= Jolt
           /\ BlendIn = 0 => Distance(0, c.frames[1]) <= Jolt
           /\ BlendIn > 0 => Distance(0, c.frames[1]) <= BlendIn * (Jolt - 1)
  <1>1. c.frames \in Seq(Int) /\ c.frames # <<>>
    BY BaseAssumption DEF Loaded
  <1>2. Len(c.frames) \in Nat \ {0}
    BY <1>1
  <1>3. \A i \in 1 .. Len(c.frames) : c.frames[i] \in Int
    BY <1>1
  <1>4. \A i \in 1 .. Len(c.frames) :
            /\ NearEnough(c.frames[i])
            /\ i > 1 => Distance(c.frames[i - 1], c.frames[i]) <= Jolt
    BY BaseAssumption DEF NearEnough
  <1>5. Distance(0, c.frames[1]) <= (IF BlendIn = 0 THEN 1 ELSE BlendIn) * (Jolt - 1)
    BY BaseAssumption
  <1>6. Distance(0, c.frames[1]) \in Int
    BY <1>2, <1>3 DEF Distance
  <1>7. BlendIn = 0 => Distance(0, c.frames[1]) <= Jolt
    BY <1>5, <1>6, BlendConstants
  <1>8. BlendIn > 0 => Distance(0, c.frames[1]) <= BlendIn * (Jolt - 1)
    BY <1>5, BlendConstants
  <1> QED
    BY <1>1, <1>2, <1>3, <1>4, <1>7, <1>8

\* A return takes as long as its velocity allows.
LEMMA ReturnFacts ==
    ASSUME NEW p \in PlayerType
    PROVE  /\ ReturnTime(p) \in Nat \ {0}
           /\ NearEnough(p.source) =>
                Distance(0, p.source) <= ReturnTime(p) * (Jolt - 1)
  <1> DEFINE d == Distance(0, p.source)
             v == ReturnVelocity
             least == (d + v - 1) \div v
  <1>1. d \in Nat
    BY DEF Distance, PlayerType
  <1>2. CASE v = 0
    <2>1. ReturnTime(p) = BlendOut
      BY <1>2, BlendConstants DEF ReturnTime
    <2> QED
      BY <1>2, <2>1, BlendConstants DEF NearEnough
  <1>3. CASE v # 0
    <2>1. v \in Nat \ {0} /\ d + v - 1 \in Int
      BY <1>1, <1>3, BlendConstants
    <2>2. least \in Int /\ d + v - 1 < v * least + v
      BY <2>1, Quotient
    <2>3. ReturnTime(p) = IF least > BlendOut THEN least ELSE BlendOut
      BY <1>3 DEF ReturnTime
    <2> HIDE DEF least, d, v
    <2>4. ReturnTime(p) \in Nat \ {0} /\ least <= ReturnTime(p)
      BY <2>2, <2>3, BlendConstants
    <2> DEFINE R == ReturnTime(p)
    <2> HIDE DEF R
    <2>5. R \in Nat \ {0} /\ least <= R
      BY <2>4 DEF R
    <2>6. v * least \in Int /\ d <= v * least
      BY <1>1, <2>1, <2>2
    <2>7. v * least <= v * R
      <3>1. v * (R - least) >= 0 /\ v * (R - least) = v * R - v * least
        BY <2>1, <2>2, <2>5
      <3> QED
        BY <2>1, <2>2, <2>5, <3>1
    <2>8. v * R <= R * (Jolt - 1)
      <3>1. (Jolt - 1 - v) \in Nat
        BY <2>1, BlendConstants DEF v
      <3>2. R * (Jolt - 1 - v) >= 0 /\ R * (Jolt - 1 - v) = R * (Jolt - 1) - v * R
        BY <2>1, <2>5, <3>1, BlendConstants
      <3> QED
        BY <2>1, <2>5, <3>2, BlendConstants
    <2>9. d <= R * (Jolt - 1)
      <3>1. v * R \in Int /\ R * (Jolt - 1) \in Int
        BY <2>1, <2>5, BlendConstants
      <3> QED
        BY <1>1, <2>6, <2>7, <2>8, <3>1
    <2> QED
      BY <2>4, <2>9 DEF R, d
  <1> QED
    BY <1>2, <1>3

\* The line of a blend begins at the ready pose and stays near enough to it.
LEMMA BlendInFacts ==
    ASSUME NEW p \in PlayerType, p.phase = "BLEND_IN", p.source = 0,
           p.clip \in Clips, p.since < BlendIn
    PROVE  /\ TargetOf(p) = (p.clip.frames[1] * p.since) \div BlendIn
           /\ TargetOf(p) \in Int /\ NearEnough(TargetOf(p))
           /\ p.since = 0 => TargetOf(p) = 0
  <1> DEFINE d == p.clip.frames[1]
             q == (d * p.since) \div BlendIn
  <1>1. BlendIn \in Nat \ {0} /\ p.since \in Nat /\ p.since \in 0 .. BlendIn
    BY BlendConstants DEF PlayerType
  <1>2. d \in Int /\ NearEnough(d)
    BY ClipFacts
  <1>3. d * p.since \in Int
    BY <1>1, <1>2
  <1>4. q \in Int
    BY <1>1, <1>3, Quotient
  <1>5. TargetOf(p) = p.source + ((d - p.source) * p.since) \div BlendIn
    BY DEF TargetOf
  <1>6. TargetOf(p) = 0 + ((d - 0) * p.since) \div BlendIn
    BY <1>5
  <1>7. d - 0 = d
    BY <1>2
  <1>8. TargetOf(p) = 0 + q
    BY <1>6, <1>7
  <1>9. TargetOf(p) = q
    <2> HIDE DEF q
    <2> QED
      BY <1>4, <1>8
  <1>10. Distance(0, q) <= Distance(0, d)
    BY <1>1, <1>2, LineWithin
  <1>11. NearEnough(q)
    <2>1. BlendOut * (Jolt - 1) \in Int /\ Distance(0, d) \in Int /\ Distance(0, q) \in Int
      <3> HIDE DEF q
      <3> QED
        BY <1>2, <1>4, BlendConstants DEF Distance
    <2> HIDE DEF q, d
    <2> QED
      BY <1>2, <1>10, <2>1 DEF NearEnough
  <1>12. p.since = 0 => q = 0
    <2> SUFFICES ASSUME p.since = 0 PROVE (d * 0) \div BlendIn = 0
      OBVIOUS
    <2>1. d * 0 = 0 /\ BlendIn * 0 = 0
      BY <1>1, <1>2
    <2> QED
      BY <1>1, <2>1, QuotientIs
  <1> QED
    BY <1>4, <1>9, <1>11, <1>12

\* The line of a return begins at its source and ends at the ready pose.
LEMMA BlendOutFacts ==
    ASSUME NEW p \in PlayerType, p.phase = "BLEND_OUT"
    PROVE  /\ TargetOf(p) = p.source - (p.source * p.since) \div ReturnTime(p)
           /\ TargetOf(p) \in Int
           /\ p.since = 0 => TargetOf(p) = p.source
           /\ p.since = ReturnTime(p) => TargetOf(p) = 0
  <1> DEFINE R == ReturnTime(p)
             q == (p.source * p.since) \div R
  <1>1. R \in Nat \ {0} /\ p.source \in Int /\ p.since \in Nat
    BY ReturnFacts DEF PlayerType
  <1>2. p.source * p.since \in Int
    BY <1>1
  <1> HIDE DEF R
  <1>3. q \in Int
    BY <1>1, <1>2, Quotient
  <1>4. TargetOf(p) = p.source - q
    BY DEF TargetOf, R
  <1>5. p.since = 0 => q = 0
    <2> SUFFICES ASSUME p.since = 0 PROVE (p.source * 0) \div R = 0
      OBVIOUS
    <2>1. p.source * 0 = 0 /\ R * 0 = 0
      BY <1>1
    <2> QED
      BY <1>1, <2>1, QuotientIs
  <1>6. p.since = R => q = p.source
    <2> SUFFICES ASSUME p.since = R PROVE (p.source * R) \div R = p.source
      OBVIOUS
    <2>1. R * p.source = p.source * R /\ p.source * R \in Int
      BY <1>1
    <2> QED
      BY <1>1, <2>1, QuotientIs
  <1> HIDE DEF q
  <1>7. /\ TargetOf(p) \in Int
        /\ p.since = 0 => TargetOf(p) = p.source
        /\ p.since = R => TargetOf(p) = 0
    BY <1>1, <1>3, <1>4, <1>5, <1>6
  <1> QED
    BY <1>4, <1>7 DEF R, q

\* A target that stays where it is is steady.
LEMMA NoDistance ==
    ASSUME NEW x \in Int
    PROVE  Distance(x, x) <= Jolt
  BY BlendConstants DEF Distance

\* A cycle later the line, or the motion, is one point further.
LEMMA TickDue ==
    ASSUME NEW p, NEW x, ArmHeld(p, x)
    PROVE  ArmDue(Tick(p), x)
  <1> DEFINE q == Tick(p)
  <1>1. p \in PlayerType /\ x \in Int
    BY DEF ArmHeld
  <1>2. CASE ~Active(p)
    BY <1>1, <1>2 DEF ArmHeld, ArmDue, Tick, Active
  <1>3. CASE Active(p)
    <2>1. q = [p EXCEPT !.since = p.since + 1]
      BY <1>3 DEF Tick
    <2>2. p.since \in Nat /\ p.since + 1 \in Nat
      BY <1>1 DEF PlayerType
    <2>3. /\ q \in PlayerType /\ q.phase = p.phase /\ q.source = p.source
          /\ q.clip = p.clip /\ q.since = p.since + 1
      BY <1>1, <2>1, <2>2 DEF PlayerType
    <2> HIDE DEF q
    <2>4. Active(q) /\ q.clip \in Clips /\ x = TargetOf(p)
      BY <1>3, <2>3 DEF Active, ArmHeld
    <2>5. CASE p.phase = "BLEND_IN"
      <3> DEFINE d == p.clip.frames[1]
      <3>1. p.source = 0 /\ p.since < BlendIn /\ BlendIn \in Nat \ {0}
        BY <2>2, <2>5, BlendConstants DEF ArmHeld
      <3>2. d \in Int /\ Distance(0, d) <= BlendIn * (Jolt - 1)
        BY <2>3, <2>4, <3>1, ClipFacts
      <3>3. Distance((d * p.since) \div BlendIn, (d * (p.since + 1)) \div BlendIn)
              <= Jolt - 1
        BY <2>2, <3>1, <3>2, LineStep, BlendConstants
      <3>4. x = (d * p.since) \div BlendIn
        BY <1>1, <2>3, <2>4, <2>5, <3>1, BlendInFacts
      <3>5. CASE q.since < BlendIn
        <4>1. TargetOf(q) = (d * (p.since + 1)) \div BlendIn /\ TargetOf(q) \in Int
          BY <2>3, <2>4, <2>5, <3>1, <3>5, BlendInFacts
        <4>2. Distance(x, TargetOf(q)) <= Jolt - 1
          BY <3>3, <3>4, <4>1
        <4>3. Distance(x, TargetOf(q)) \in Int
          BY <1>1, <4>1 DEF Distance
        <4>4. BlendInDue(q, x)
          <5>1. Distance(x, TargetOf(q)) <= Jolt
            BY <4>2, <4>3, BlendConstants
          <5> QED
            BY <2>2, <2>3, <3>1, <3>5, <5>1 DEF BlendInDue
        <4> QED
          BY <1>1, <2>3, <2>4, <2>5, <4>4 DEF ArmDue, q
      <3>6. CASE ~(q.since < BlendIn)
        <4>1. q.since = BlendIn
          BY <2>2, <2>3, <3>1, <3>6
        <4>2. BlendIn * d = d * (p.since + 1) /\ d * (p.since + 1) \in Int
          BY <2>3, <3>1, <3>2, <4>1
        <4>3. (d * (p.since + 1)) \div BlendIn = d
          BY <3>1, <3>2, <4>2, QuotientIs
        <4>4. Distance(x, d) <= Jolt - 1
          BY <3>3, <3>4, <4>3
        <4>5. Distance(x, d) \in Int
          BY <1>1, <3>2 DEF Distance
        <4>6. Distance(x, d) <= Jolt
          BY <4>4, <4>5, BlendConstants
        <4>7. BlendInDue(q, x)
          BY <2>3, <3>1, <4>1, <4>6 DEF BlendInDue
        <4> QED
          BY <1>1, <2>3, <2>4, <2>5, <4>7 DEF ArmDue, q
      <3> QED
        BY <3>5, <3>6
    <2>6. CASE p.phase \in {"PLAYING", "HOLDING"}
      <3> DEFINE c == p.clip
                 i == Played(p) + 1
      <3>1. c \in Clips /\ i \in 1 .. Len(c.frames) /\ Len(c.frames) \in Nat \ {0}
        BY <2>3, <2>4, <2>6, ClipFacts DEF ArmHeld
      <3>2. x = c.frames[i]
        BY <2>4, <2>6 DEF TargetOf
      <3>3. Played(q) = i
        BY <2>2, <2>3, BlendConstants DEF Played
      <3> HIDE DEF i
      <3>4. CASE i < Len(c.frames)
        <4>1. i + 1 \in 1 .. Len(c.frames) /\ i + 1 > 1 /\ i + 1 - 1 = i
          BY <3>1, <3>4
        <4>2. Distance(c.frames[i + 1 - 1], c.frames[i + 1]) <= Jolt
          BY <3>1, <4>1, ClipFacts
        <4>3. Distance(x, c.frames[i + 1]) <= Jolt
          BY <3>2, <4>1, <4>2
        <4>4. i < Len(c.frames) - 1 \/ i + 1 = Len(c.frames)
          BY <3>1, <3>4
        <4>5. MotionDue(q, x)
          BY <2>3, <3>1, <3>3, <4>3, <4>4 DEF MotionDue
        <4> QED
          BY <1>1, <2>3, <2>4, <2>6, <4>5 DEF ArmDue, q
      <3>5. CASE ~(i < Len(c.frames))
        <4>1. i = Len(c.frames) /\ ~(i < Len(c.frames) - 1)
          BY <3>1, <3>5
        <4>2. Distance(x, c.frames[Len(c.frames)]) <= Jolt
          BY <1>1, <3>2, <4>1, NoDistance
        <4>3. MotionDue(q, x)
          BY <2>3, <3>1, <3>3, <4>1, <4>2 DEF MotionDue
        <4> QED
          BY <1>1, <2>3, <2>4, <2>6, <4>3 DEF ArmDue, q
      <3> QED
        BY <3>4, <3>5
    <2>7. CASE p.phase = "BLEND_OUT"
      <3> DEFINE s == p.source
                 R == ReturnTime(p)
                 a == (s * p.since) \div R
                 b == (s * (p.since + 1)) \div R
      <3>1. p.since < R /\ NearEnough(s) /\ s \in Int
        BY <1>1, <2>7 DEF ArmHeld, PlayerType
      <3>2. R \in Nat \ {0} /\ Distance(0, s) <= R * (Jolt - 1)
        BY <1>1, <3>1, ReturnFacts
      <3>3. ReturnTime(q) = R
        BY <2>3 DEF ReturnTime
      <3>4. x = s - a
        BY <1>1, <2>4, <2>7, BlendOutFacts
      <3>5. TargetOf(q) = s - b /\ TargetOf(q) \in Int
        BY <2>3, <2>7, <3>3, BlendOutFacts
      <3> HIDE DEF R
      <3>6. Distance(a, b) <= Jolt - 1
        BY <2>2, <3>1, <3>2, LineStep, BlendConstants
      <3>7. a \in Int /\ b \in Int
        <4>1. s * p.since \in Int /\ s * (p.since + 1) \in Int
          BY <2>2, <3>1
        <4> QED
          BY <3>2, <4>1, Quotient
      <3> HIDE DEF a, b
      <3>8. Distance(x, TargetOf(q)) <= Jolt
        BY <3>1, <3>4, <3>5, <3>6, <3>7, BlendConstants DEF Distance
      <3>9. q.since <= ReturnTime(q)
        BY <2>2, <2>3, <3>1, <3>2, <3>3 DEF R
      <3>10. BlendOutDue(q, x)
        BY <2>3, <3>1, <3>8, <3>9 DEF BlendOutDue
      <3> QED
        BY <1>1, <2>3, <2>4, <2>7, <3>10 DEF ArmDue, q
    <2> QED
      BY <1>3, <2>5, <2>6, <2>7 DEF Active, q
  <1> QED
    BY <1>2, <1>3

\* A return starts where the target is.
LEMMA ReturnDue ==
    ASSUME NEW p \in PlayerType, p.clip \in Clips, NEW x \in Int, NearEnough(x)
    PROVE  ArmDue(BeginReturn(p, x), x)
  <1> DEFINE q == BeginReturn(p, x)
  <1>1. /\ q \in PlayerType /\ q.phase = "BLEND_OUT" /\ q.source = x
        /\ q.since = 0 /\ q.clip \in Clips
    BY DEF BeginReturn, PlayerType, MotionPhases
  <1> HIDE DEF q
  <1>2. TargetOf(q) = x /\ ReturnTime(q) \in Nat \ {0}
    BY <1>1, BlendOutFacts, ReturnFacts
  <1>3. Distance(x, TargetOf(q)) <= Jolt
    BY <1>2, NoDistance
  <1>4. BlendOutDue(q, x)
    BY <1>1, <1>2, <1>3 DEF BlendOutDue
  <1>5. ArmDue(q, x)
    BY <1>1, <1>4 DEF ArmDue, Active
  <1> QED
    BY <1>5 DEF q

\* A motion starts, is refused, ends or goes on where the target is.
LEMMA RequestDue ==
    ASSUME NEW p, NEW x, ArmHeld(p, x), NEW request \in Requests
    PROVE  ArmDue(Request(Tick(p), x, request), x)
  <1> DEFINE t == Tick(p)
             q == [t EXCEPT !.number = request.number]
  <1>1. ArmDue(t, x)
    BY TickDue
  <1>2. t \in PlayerType /\ x \in Int
    BY <1>1 DEF ArmDue
  <1>3. t.phase = p.phase
    BY DEF Tick, ArmHeld, PlayerType
  <1> HIDE DEF t
  <1>4. CASE request.op = "none" \/ request.number <= t.number
    BY <1>1, <1>4 DEF Request, t
  <1>5. CASE ~(request.op = "none" \/ request.number <= t.number)
    <2>1. request.number \in Nat
      BY <1>5, BaseAssumption DEF Requests
    <2>2. /\ q \in PlayerType /\ q.phase = t.phase /\ q.source = t.source
          /\ q.clip = t.clip /\ q.since = t.since
      BY <1>2, <2>1 DEF PlayerType
    <2> HIDE DEF q
    <2>3. /\ TargetOf(q) = TargetOf(t) /\ Played(q) = Played(t)
          /\ ReturnTime(q) = ReturnTime(t) /\ (Active(q) <=> Active(t))
      BY <2>2 DEF TargetOf, Played, ReturnTime, Active
    <2>4. ArmDue(q, x)
      <3>1. /\ BlendInDue(t, x) => BlendInDue(q, x)
            /\ MotionDue(t, x) => MotionDue(q, x)
            /\ BlendOutDue(t, x) => BlendOutDue(q, x)
        BY <2>2, <2>3 DEF BlendInDue, MotionDue, BlendOutDue
      <3> QED
        BY <1>1, <2>2, <2>3, <3>1 DEF ArmDue
    <2>5. CASE request.op = "cancel"
      <3>1. CASE ~Active(q)
        <4> DEFINE r == [q EXCEPT !.phase = "IDLE"]
        <4>1. r \in PlayerType /\ r.phase = "IDLE" /\ x = 0
          BY <2>2, <2>4, <3>1 DEF PlayerType, MotionPhases, ArmDue
        <4> HIDE DEF r
        <4>2. ArmDue(r, x)
          BY <4>1 DEF ArmDue, Active
        <4> QED
          BY <1>5, <2>5, <3>1, <4>2 DEF Request, CancelMotion, r, q, t
      <3>2. CASE q.phase = "BLEND_OUT"
        BY <1>5, <2>4, <2>5, <3>2 DEF Request, CancelMotion, Active, q, t
      <3>3. CASE Active(q) /\ q.phase # "BLEND_OUT"
        <4>1. NearEnough(x)
          BY <1>3, <2>2, <3>3 DEF ArmHeld, Active
        <4>2. q.clip \in Clips
          BY <2>4, <3>3 DEF ArmDue
        <4>3. ArmDue(BeginReturn(q, x), x)
          BY <1>2, <2>2, <4>1, <4>2, ReturnDue
        <4> QED
          BY <1>5, <2>5, <3>3, <4>3 DEF Request, CancelMotion, q, t
      <3> QED
        BY <3>1, <3>2, <3>3
    <2>6. CASE request.op # "cancel"
      <3>1. Request(t, x, request) = StartMotion(q, x, request.clip)
        BY <1>5, <2>6 DEF Request, q
      <3>2. CASE Active(q)
        BY <2>4, <3>1, <3>2 DEF StartMotion, t
      <3>3. CASE ~Active(q) /\ request.clip \notin Clips
        <4> DEFINE r == [q EXCEPT !.phase = "REJECTED"]
        <4>1. r \in PlayerType /\ r.phase = "REJECTED" /\ x = 0
          BY <2>2, <2>4, <3>3 DEF PlayerType, MotionPhases, ArmDue
        <4> HIDE DEF r
        <4>2. ArmDue(r, x)
          BY <4>1 DEF ArmDue, Active
        <4> QED
          BY <3>1, <3>3, <4>2 DEF StartMotion, r, t
      <3>4. CASE ~Active(q) /\ request.clip \in Clips
        <4> DEFINE c == request.clip
                   r == [q EXCEPT !.phase = "BLEND_IN", !.clip = c,
                                  !.source = x, !.since = 0]
        <4>1. x = 0 /\ c \in Clips
          BY <2>4, <3>4 DEF ArmDue
        <4>2. /\ r \in PlayerType /\ r.phase = "BLEND_IN" /\ r.clip = c
              /\ r.source = 0 /\ r.since = 0
          BY <1>2, <2>2, <4>1 DEF PlayerType, MotionPhases
        <4> HIDE DEF r
        <4>3. BlendIn = 0 => BlendInDue(r, x)
          <5> SUFFICES ASSUME BlendIn = 0 PROVE BlendInDue(r, x)
            OBVIOUS
          <5>1. Distance(x, c.frames[1]) <= Jolt
            BY <4>1, ClipFacts
          <5>2. r.since = BlendIn /\ ~(r.since < BlendIn)
            BY <4>2
          <5> QED
            BY <4>2, <5>1, <5>2 DEF BlendInDue
        <4>4. BlendIn # 0 => BlendInDue(r, x)
          <5> SUFFICES ASSUME BlendIn # 0 PROVE BlendInDue(r, x)
            OBVIOUS
          <5>1. 0 < BlendIn
            BY BlendConstants
          <5>2. TargetOf(r) = 0
            BY <4>1, <4>2, <5>1, BlendInFacts
          <5>3. Distance(x, TargetOf(r)) <= Jolt
            BY <4>1, <5>2, NoDistance
          <5> QED
            BY <4>2, <5>1, <5>3, BlendConstants DEF BlendInDue
        <4>5. ArmDue(r, x)
          <5> HIDE DEF c
          <5> QED
            BY <4>1, <4>2, <4>3, <4>4 DEF ArmDue, Active
        <4> QED
          BY <3>1, <3>4, <4>5 DEF StartMotion, r, t
      <3> QED
        BY <3>2, <3>3, <3>4
    <2> QED
      BY <2>5, <2>6
  <1> QED
    BY <1>4, <1>5

\* What a cycle does to the target, once the phases are settled into p.
ArmSteady(p, x) ==
    Distance(x, TargetOf(p)) <= Jolt /\ ArmHeld(EndReturn(p), TargetOf(p))

\* A return that begins where the motion ended, or was to be, is steady.
LEMMA BeginReturnSteady ==
    ASSUME NEW p \in PlayerType, p.clip \in Clips, NEW x \in Int, NEW y \in Int,
           NearEnough(y), Distance(x, y) <= Jolt
    PROVE  ArmSteady(BeginReturn(p, y), x)
  <1> DEFINE q == BeginReturn(p, y)
  <1>1. /\ q \in PlayerType /\ q.phase = "BLEND_OUT" /\ q.source = y
        /\ q.since = 0 /\ q.clip \in Clips
    BY DEF BeginReturn, PlayerType, MotionPhases
  <1> HIDE DEF q
  <1>2. TargetOf(q) = y /\ ReturnTime(q) \in Nat \ {0}
    BY <1>1, BlendOutFacts, ReturnFacts
  <1>3. 0 < ReturnTime(q) /\ ~(0 >= ReturnTime(q))
    BY <1>2
  <1>4. EndReturn(q) = q
    BY <1>1, <1>3 DEF EndReturn
  <1>5. ArmHeld(q, y)
    BY <1>1, <1>2, <1>3 DEF ArmHeld, Active
  <1>6. ArmSteady(q, x)
    BY <1>2, <1>4, <1>5 DEF ArmSteady
  <1> QED
    BY <1>6 DEF q

\* A frame, the last one held, or the return from it.
LEMMA MotionSteady ==
    ASSUME NEW p \in PlayerType, p.phase \in {"PLAYING", "HOLDING"},
           p.clip \in Clips, NEW x \in Int, MotionDue(p, x)
    PROVE  ArmSteady(EndPlayback(p), x)
  <1> DEFINE c == p.clip
             n == Len(c.frames)
  <1>1. n \in Nat \ {0} /\ \A i \in 1 .. n : c.frames[i] \in Int /\ NearEnough(c.frames[i])
    BY ClipFacts
  <1>2. p.since \in Nat /\ Played(p) \in Nat
    BY BlendConstants DEF PlayerType, Played, MotionDue
  <1>3. ASSUME NEW q \in PlayerType, q.phase \in {"PLAYING", "HOLDING"}, q.clip = c,
               Played(q) \in 0 .. n - 1, Distance(x, c.frames[Played(q) + 1]) <= Jolt
        PROVE  ArmSteady(q, x)
    <2> DEFINE y == c.frames[Played(q) + 1]
    <2>1. TargetOf(q) = y
      BY <1>3 DEF TargetOf
    <2>2. Played(q) + 1 \in 1 .. n
      BY <1>1, <1>3
    <2>3. y \in Int /\ NearEnough(y)
      BY <1>1, <2>2
    <2>4. EndReturn(q) = q
      BY <1>3 DEF EndReturn
    <2> HIDE DEF y
    <2>5. ArmHeld(q, y)
      BY <1>3, <2>1, <2>3 DEF ArmHeld, Active
    <2> QED
      BY <1>3, <2>1, <2>4, <2>5 DEF ArmSteady, y
  <1>4. CASE Played(p) < n - 1
    <2>1. EndPlayback(p) = p
      BY <1>1, <1>2, <1>4 DEF EndPlayback
    <2>2. Played(p) \in 0 .. n - 1
      BY <1>1, <1>2, <1>4
    <2>3. Distance(x, c.frames[Played(p) + 1]) <= Jolt
      BY <1>4 DEF MotionDue
    <2>4. ArmSteady(p, x)
      BY <1>3, <2>2, <2>3
    <2> QED
      BY <2>1, <2>4
  <1>5. CASE Played(p) >= n - 1 /\ c.hold
    <2> DEFINE q == [p EXCEPT !.phase = "HOLDING", !.since = BlendIn + n - 1]
    <2>1. EndPlayback(p) = q
      BY <1>5 DEF EndPlayback
    <2>2. BlendIn + n - 1 \in Nat /\ BlendIn + n - 1 - BlendIn = n - 1
      BY <1>1, BlendConstants
    <2>3. q \in PlayerType /\ q.phase = "HOLDING" /\ q.clip = c /\ q.since = BlendIn + n - 1
      BY <2>2 DEF PlayerType, MotionPhases
    <2> HIDE DEF q
    <2>4. Played(q) = n - 1 /\ n - 1 \in 0 .. n - 1 /\ n - 1 + 1 = n
      <3> HIDE DEF n, c
      <3>1. n \in Nat \ {0} /\ q.since = BlendIn + n - 1
        BY <1>1, <2>3
      <3>2. Played(q) = BlendIn + n - 1 - BlendIn
        BY <3>1, BlendConstants DEF Played
      <3>3. n - 1 \in 0 .. n - 1 /\ n - 1 + 1 = n
        BY <3>1
      <3> QED
        BY <2>2, <3>2, <3>3
    <2>5. Distance(x, c.frames[n]) <= Jolt
      BY <1>5 DEF MotionDue
    <2>6. Distance(x, c.frames[Played(q) + 1]) <= Jolt
      BY <2>4, <2>5
    <2>7. ArmSteady(q, x)
      BY <1>3, <2>3, <2>4, <2>6
    <2> QED
      BY <2>1, <2>7
  <1>6. CASE Played(p) >= n - 1 /\ ~c.hold
    <2>1. EndPlayback(p) = BeginReturn(p, c.frames[n])
      BY <1>6 DEF EndPlayback
    <2>2. Distance(x, c.frames[n]) <= Jolt
      BY <1>6 DEF MotionDue
    <2>3. n \in 1 .. n
      BY <1>1
    <2>4. c.frames[n] \in Int /\ NearEnough(c.frames[n])
      BY <1>1, <2>3
    <2>5. ArmSteady(BeginReturn(p, c.frames[n]), x)
      BY <2>2, <2>4, BeginReturnSteady
    <2> QED
      BY <2>1, <2>5
  <1>7. Played(p) < n - 1 \/ Played(p) >= n - 1
    BY <1>1, <1>2
  <1> QED
    BY <1>4, <1>5, <1>6, <1>7

\* Whatever phase the cycle plays.
LEMMA SettledSteady ==
    ASSUME NEW p, NEW x, ArmDue(p, x)
    PROVE  ArmSteady(EndPlayback(EndBlendIn(p)), x)
  <1>1. p \in PlayerType /\ x \in Int
    BY DEF ArmDue
  <1>2. ASSUME p.phase \notin {"PLAYING", "HOLDING"},
               ~(p.phase = "BLEND_IN" /\ p.since >= BlendIn)
        PROVE  EndPlayback(EndBlendIn(p)) = p
    BY <1>2 DEF EndBlendIn, EndPlayback
  <1>3. CASE ~Active(p)
    <2>1. x = 0 /\ TargetOf(p) = 0 /\ EndReturn(p) = p
      BY <1>3 DEF ArmDue, Active, TargetOf, EndReturn
    <2>2. ArmHeld(p, 0) /\ Distance(x, 0) <= Jolt
      BY <1>1, <1>3, <2>1, NoDistance DEF ArmHeld, Active
    <2>3. EndPlayback(EndBlendIn(p)) = p
      BY <1>2, <1>3 DEF Active
    <2> QED
      BY <2>1, <2>2, <2>3 DEF ArmSteady
  <1>4. CASE p.phase = "BLEND_IN"
    <2>1. /\ p.source = 0 /\ p.clip \in Clips /\ p.since \in Nat
          /\ BlendInDue(p, x)
      BY <1>1, <1>4 DEF ArmDue, Active, PlayerType, BlendInDue
    <2>2. CASE p.since < BlendIn
      <3>1. ~(p.since >= BlendIn)
        BY <2>1, <2>2, BlendConstants
      <3>2. EndPlayback(EndBlendIn(p)) = p /\ EndReturn(p) = p
        BY <1>2, <1>4, <3>1 DEF EndReturn
      <3>3. TargetOf(p) \in Int /\ NearEnough(TargetOf(p))
        BY <1>1, <1>4, <2>1, <2>2, BlendInFacts
      <3>4. ArmHeld(p, TargetOf(p))
        BY <1>1, <1>4, <2>1, <2>2, <3>3 DEF ArmHeld, Active
      <3> QED
        BY <2>1, <2>2, <3>2, <3>4 DEF ArmSteady, BlendInDue
    <2>3. CASE ~(p.since < BlendIn)
      <3> DEFINE q == [p EXCEPT !.phase = "PLAYING"]
      <3>1. p.since = BlendIn /\ p.since >= BlendIn
        BY <2>1, <2>3, BlendConstants DEF BlendInDue
      <3>2. EndBlendIn(p) = q
        BY <1>4, <3>1 DEF EndBlendIn
      <3>3. /\ q \in PlayerType /\ q.phase = "PLAYING" /\ q.clip = p.clip
            /\ q.since = p.since
        BY <1>1 DEF PlayerType, MotionPhases
      <3> HIDE DEF q
      <3>4. Played(q) = 0
        BY <3>1, <3>3, BlendConstants DEF Played
      <3>5. Len(p.clip.frames) \in Nat \ {0}
        BY <2>1, ClipFacts
      <3>6. Distance(x, p.clip.frames[1]) <= Jolt
        BY <2>1, <3>1 DEF BlendInDue
      <3>7. 0 >= Len(p.clip.frames) - 1 => Len(p.clip.frames) = 1
        <4>1. \A n \in Nat \ {0} : 0 >= n - 1 => n = 1
          OBVIOUS
        <4> QED
          BY <3>5, <4>1
      <3>8. MotionDue(q, x)
        BY <3>3, <3>4, <3>6, <3>7 DEF MotionDue
      <3>9. ArmSteady(EndPlayback(q), x)
        BY <1>1, <2>1, <3>3, <3>8, MotionSteady
      <3> QED
        BY <3>2, <3>9
    <2> QED
      BY <2>2, <2>3
  <1>5. CASE p.phase \in {"PLAYING", "HOLDING"}
    <2>1. EndBlendIn(p) = p
      BY <1>5 DEF EndBlendIn
    <2>2. p.clip \in Clips /\ MotionDue(p, x)
      BY <1>5 DEF ArmDue, Active
    <2> QED
      BY <1>1, <1>5, <2>1, <2>2, MotionSteady
  <1>6. CASE p.phase = "BLEND_OUT"
    <2>1. p.clip \in Clips /\ BlendOutDue(p, x) /\ p.since \in Nat
      BY <1>1, <1>6 DEF ArmDue, Active, PlayerType
    <2>2. EndPlayback(EndBlendIn(p)) = p
      BY <1>2, <1>6
    <2>3. /\ TargetOf(p) \in Int /\ ReturnTime(p) \in Nat \ {0}
          /\ p.since = ReturnTime(p) => TargetOf(p) = 0
      BY <1>1, <1>6, BlendOutFacts, ReturnFacts
    <2>4. ArmHeld(EndReturn(p), TargetOf(p))
      <3>1. CASE p.since < ReturnTime(p)
        <4>1. ~(p.since >= ReturnTime(p))
          BY <2>1, <2>3, <3>1
        <4>2. EndReturn(p) = p
          BY <4>1 DEF EndReturn
        <4>3. ArmHeld(p, TargetOf(p))
          BY <1>1, <1>6, <2>1, <2>3, <3>1 DEF ArmHeld, Active, BlendOutDue
        <4> QED
          BY <4>2, <4>3
      <3>2. CASE ~(p.since < ReturnTime(p))
        <4> DEFINE q == [Idle EXCEPT !.number = p.number, !.phase = "FINISHED"]
        <4>1. p.since = ReturnTime(p) /\ p.since >= ReturnTime(p)
          BY <2>1, <2>3, <3>2 DEF BlendOutDue
        <4>2. EndReturn(p) = q
          BY <1>6, <4>1 DEF EndReturn
        <4>3. q \in PlayerType /\ q.phase = "FINISHED"
          <5>1. p.number \in Nat /\ 0 \in Nat /\ 0 \in Int
            BY <1>1 DEF PlayerType
          <5> QED
            BY <5>1 DEF Idle, PlayerType, MotionPhases
        <4> HIDE DEF q
        <4>4. ArmHeld(q, 0)
          BY <4>3 DEF ArmHeld, Active
        <4> QED
          BY <2>3, <4>1, <4>2, <4>4
      <3> QED
        BY <3>1, <3>2
    <2> QED
      BY <2>1, <2>2, <2>4 DEF ArmSteady, BlendOutDue
  <1> QED
    BY <1>3, <1>4, <1>5, <1>6 DEF Active

\* The arms are steady: for motions of every length, requested, cancelled and
\* cancelled again at every point, held or not, with and without a blend and a
\* limit of the return velocity, no target of TRAJECTORY is farther than Jolt
\* from the one before, and it is the ready pose when no motion is running.
THEOREM ArmStaysSteady == BaseSpec => ArmIsSteady
  <1> DEFINE Moves ==
        mode = "trajectory" /\ mode' = "trajectory" =>
          /\ Distance(target, target') <= Jolt
          /\ ~Active(player') => target' = 0
  <1>1. Idle \in PlayerType /\ ~Active(Idle) /\ Idle.phase = "IDLE"
    BY DEF Idle, PlayerType, MotionPhases, Active
  <1>2. ArmHeld(Idle, 0)
    BY <1>1 DEF ArmHeld
  <1>3. BaseInit => ArmHeld(player, target)
    BY <1>2 DEF BaseInit
  <1>4. ASSUME ArmHeld(player, target), NEW k \in Keys, NEW active \in BOOLEAN,
               NEW request \in Requests, NEW fed \in BOOLEAN, NEW done \in BOOLEAN,
               BaseStep(k, active, request, fed, done)
        PROVE  ArmHeld(player', target') /\ Moves
    <2>1. \/ RunPlayer(request)
          \/ /\ ~(mode = "trajectory" /\ mode' = "trajectory")
             /\ player' = Idle /\ target' = 0
      BY <1>4 DEF BaseStep
    <2>2. CASE RunPlayer(request)
      <3> DEFINE p == EndPlayback(EndBlendIn(Request(Tick(player), target, request)))
      <3>1. ArmSteady(p, target)
        BY <1>4, RequestDue, SettledSteady
      <3>2. target' = TargetOf(p) /\ player' = EndReturn(p)
        BY <2>2 DEF RunPlayer
      <3> HIDE DEF p
      <3>3. ArmHeld(player', target') /\ Distance(target, target') <= Jolt
        BY <3>1, <3>2 DEF ArmSteady
      <3> QED
        BY <3>3 DEF ArmHeld
    <2>3. CASE /\ ~(mode = "trajectory" /\ mode' = "trajectory")
               /\ player' = Idle /\ target' = 0
      BY <1>2, <2>3
    <2> QED
      BY <2>1, <2>2, <2>3
  <1>5. ArmHeld(player, target) /\ [BaseNext]_baseVars
          => ArmHeld(player, target)' /\ [Moves]_baseVars
    <2> SUFFICES ASSUME ArmHeld(player, target), [BaseNext]_baseVars
                 PROVE  ArmHeld(player', target') /\ (Moves \/ UNCHANGED baseVars)
      BY DEF ArmHeld, PlayerType, Active, TargetOf, ReturnTime, Played, NearEnough
    <2>1. CASE Acknowledge
      BY <2>1 DEF Acknowledge
    <2>2. CASE \E k \in Keys, active, fed, done \in BOOLEAN :
                  BaseStep(k, active, [op |-> "none"], fed, done)
      <3>1. [op |-> "none"] \in Requests
        BY DEF Requests
      <3> QED
        BY <1>4, <2>2, <3>1
    <2>3. CASE \E request \in Requests : BaseStep("none", FALSE, request, TRUE, FALSE)
      BY <1>4, <2>3 DEF Keys
    <2>4. CASE UNCHANGED baseVars
      BY <2>4 DEF baseVars
    <2> QED
      BY <2>1, <2>2, <2>3, <2>4 DEF BaseNext
  <1> QED
    BY <1>3, <1>5, PTL DEF BaseSpec, ArmIsSteady

-----------------------------------------------------------------------------
(* OperatorClient: the requests stay in their order.                       *)

Pending == Len(posted) + Len(writes) + Len(sent)
Done == nextId - Pending

\* The numbers of requests that wait in line, after the first n.
InLine(line, n) == \A i \in 1..Len(line) : line[i] = n + i

Confirmable(id) == id \in 0..Done

ClientTypeOK ==
    /\ nextId \in Nat /\ confirmed \in Nat /\ replies \subseteq Nat
    /\ posted \in Seq(Nat) /\ writes \in Seq(Nat) /\ sent \in Seq(Nat)
    /\ answers \in Seq(Nat)

\* Carried out, sent, being written, posted: what was asked, in this order.
ClientOrder ==
    /\ Done >= 0 /\ obeyed = 1..Done
    /\ InLine(sent, Done)
    /\ InLine(writes, Done + Len(sent))
    /\ InLine(posted, Done + Len(sent) + Len(writes))

ClientReplies ==
    /\ \A i \in 1..Len(answers) : answers[i] <= Done
    /\ \A id \in replies : id <= Done
    /\ confirmed <= Done

ClientInv == ClientTypeOK /\ ClientOrder /\ ClientReplies

LEMMA TailInLine ==
    ASSUME NEW line \in Seq(Nat), line # <<>>, NEW n \in Nat, InLine(line, n)
    PROVE  /\ Tail(line) \in Seq(Nat) /\ Len(Tail(line)) = Len(line) - 1
           /\ Head(line) = n + 1 /\ InLine(Tail(line), n + 1)
  BY DEF InLine

LEMMA AppendInLine ==
    ASSUME NEW line \in Seq(Nat), NEW n \in Nat, InLine(line, n),
           NEW id \in Nat, id = n + Len(line) + 1
    PROVE  /\ Append(line, id) \in Seq(Nat) /\ Len(Append(line, id)) = Len(line) + 1
           /\ InLine(Append(line, id), n)
  BY DEF InLine

(***************************************************************************)
(* For every number of calls: a reply that confirms a stop says that       *)
(* everything which was asked before has been carried out as well.         *)
(***************************************************************************)
THEOREM ConfirmationCovers == ClientSpec => []ConfirmedIsDone
  <1>1. ClientInit => ClientInv
    BY DEF ClientInit, ClientInv, ClientTypeOK, ClientOrder, ClientReplies,
           Done, Pending, InLine
  <1>2. ClientInv /\ [ClientNext]_clientVars => ClientInv'
    <2> SUFFICES ASSUME ClientInv, [ClientNext]_clientVars PROVE ClientInv'
      OBVIOUS
    <2> USE DEF ClientInv, ClientTypeOK
    <2>0. /\ Len(posted) \in Nat /\ Len(writes) \in Nat /\ Len(sent) \in Nat
          /\ Done \in Nat
      BY DEF Done, Pending, ClientOrder
    <2>1. CASE Connect
      BY <2>1 DEF Connect, ClientOrder, ClientReplies, Done, Pending, InLine
    <2>2. CASE Call
      <3>1. /\ nextId' = nextId + 1 /\ posted' = Append(posted, nextId + 1)
            /\ UNCHANGED <<writes, sent, answers, replies, obeyed, confirmed>>
        BY <2>2 DEF Call
      <3>2. nextId + 1 = Done + Len(sent) + Len(writes) + Len(posted) + 1
        BY <2>0 DEF Done, Pending
      <3>3. /\ posted' \in Seq(Nat) /\ Len(posted') = Len(posted) + 1
            /\ InLine(posted', Done + Len(sent) + Len(writes))
        BY <2>0, <3>1, <3>2, AppendInLine DEF ClientOrder
      <3>4. Done' = Done
        BY <2>0, <3>1, <3>3 DEF Done, Pending
      <3> HIDE DEF Done
      <3> QED
        BY <3>1, <3>3, <3>4 DEF ClientOrder, ClientReplies, InLine
    <2>3. CASE CallReturns
      <3>1. UNCHANGED <<nextId, posted, writes, sent, answers, obeyed>>
        BY <2>3 DEF CallReturns
      <3>2. Done' = Done
        BY <3>1 DEF Done, Pending
      <3>3. confirmed' \in replies \cup {confirmed} /\ replies' \subseteq replies
        BY <2>3 DEF CallReturns
      <3> QED
        BY <3>1, <3>2, <3>3 DEF ClientOrder, ClientReplies, InLine
    <2>4. CASE TakePosted
      <3>1. /\ posted # <<>> /\ posted' = Tail(posted)
            /\ writes' = Append(writes, Head(posted))
            /\ UNCHANGED <<nextId, sent, answers, replies, obeyed, confirmed>>
        BY <2>4 DEF TakePosted
      <3>2. /\ posted' \in Seq(Nat) /\ Len(posted') = Len(posted) - 1
            /\ Head(posted) = Done + Len(sent) + Len(writes) + 1
            /\ InLine(posted', Done + Len(sent) + Len(writes) + 1)
        BY <2>0, <3>1, TailInLine DEF ClientOrder
      <3>3. /\ writes' \in Seq(Nat) /\ Len(writes') = Len(writes) + 1
            /\ InLine(writes', Done + Len(sent))
        BY <2>0, <3>1, <3>2, AppendInLine DEF ClientOrder
      <3>4. Done' = Done
        BY <2>0, <3>1, <3>2, <3>3 DEF Done, Pending
      <3>5. Done + Len(sent) + Len(writes) + 1 = Done' + Len(sent') + Len(writes')
        BY <2>0, <3>1, <3>3, <3>4
      <3>6. InLine(posted, Done + Len(sent) + Len(writes))' /\ InLine(writes, Done + Len(sent))'
        BY <3>1, <3>2, <3>3, <3>4, <3>5 DEF InLine
      <3> QED
        BY <2>0, <3>1, <3>2, <3>3, <3>4, <3>6 DEF ClientOrder, ClientReplies, InLine
    <2>5. CASE WriteRequest
      <3>1. /\ writes # <<>> /\ writes' = Tail(writes)
            /\ sent' = Append(sent, Head(writes))
            /\ UNCHANGED <<nextId, posted, answers, replies, obeyed, confirmed>>
        BY <2>5 DEF WriteRequest
      <3>2. /\ writes' \in Seq(Nat) /\ Len(writes') = Len(writes) - 1
            /\ Head(writes) = Done + Len(sent) + 1
            /\ InLine(writes', Done + Len(sent) + 1)
        BY <2>0, <3>1, TailInLine DEF ClientOrder
      <3>3. sent' \in Seq(Nat) /\ Len(sent') = Len(sent) + 1 /\ InLine(sent', Done)
        BY <2>0, <3>1, <3>2, AppendInLine DEF ClientOrder
      <3>4. Done' = Done
        BY <2>0, <3>1, <3>2, <3>3 DEF Done, Pending
      <3>5. /\ Done + Len(sent) + 1 = Done' + Len(sent')
            /\ Done + Len(sent) + Len(writes) = Done' + Len(sent') + Len(writes')
        BY <2>0, <3>1, <3>2, <3>3, <3>4
      <3>6. /\ InLine(posted, Done + Len(sent) + Len(writes))'
            /\ InLine(writes, Done + Len(sent))' /\ InLine(sent, Done)'
        BY <3>1, <3>2, <3>3, <3>4, <3>5 DEF InLine, ClientOrder
      <3> QED
        BY <2>0, <3>1, <3>2, <3>3, <3>4, <3>6 DEF ClientOrder, ClientReplies
    <2>6. CASE ReadReply
      <3>1. /\ answers # <<>> /\ answers' = Tail(answers)
            /\ replies' \subseteq replies \cup {Head(answers)}
            /\ UNCHANGED <<nextId, posted, writes, sent, obeyed, confirmed>>
        BY <2>6 DEF ReadReply, Kept
      <3>2. Done' = Done
        BY <3>1 DEF Done, Pending
      <3>3. Head(answers) \in Nat /\ Head(answers) <= Done
        BY <3>1 DEF ClientReplies
      <3>4. /\ answers' \in Seq(Nat)
            /\ \A i \in 1..Len(answers') : answers'[i] <= Done
        BY <3>1 DEF ClientReplies
      <3> QED
        BY <3>1, <3>2, <3>3, <3>4 DEF ClientOrder, ClientReplies, InLine
    <2>7. CASE Fail
      <3>1. /\ answers' = <<>>
            /\ UNCHANGED <<nextId, posted, writes, sent, replies, obeyed, confirmed>>
        BY <2>7 DEF Fail
      <3>2. Done' = Done
        BY <3>1 DEF Done, Pending
      <3> QED
        BY <3>1, <3>2 DEF ClientOrder, ClientReplies, InLine
    <2>8. CASE Obey
      <3>1. /\ sent # <<>> /\ sent' = Tail(sent)
            /\ obeyed' = obeyed \cup {Head(sent)}
            /\ answers' \in {answers, Append(answers, Head(sent))}
            /\ UNCHANGED <<nextId, posted, writes, replies, confirmed>>
        BY <2>8 DEF Obey
      <3>2. /\ sent' \in Seq(Nat) /\ Len(sent') = Len(sent) - 1
            /\ Head(sent) = Done + 1 /\ InLine(sent', Done + 1)
        BY <2>0, <3>1, TailInLine DEF ClientOrder
      <3>3. Done' = Done + 1
        BY <2>0, <3>1, <3>2 DEF Done, Pending
      <3>4. obeyed' = 1..Done'
        <4> DEFINE done == Done
        <4>1. obeyed' = (1..done) \cup {done + 1} /\ done \in Nat
          BY <2>0, <3>1, <3>2 DEF ClientOrder
        <4> HIDE DEF done
        <4>2. obeyed' = 1..(done + 1)
          BY <4>1
        <4> QED
          BY <3>3, <4>2 DEF done
      <3>5. answers' \in Seq(Nat) /\ \A i \in 1..Len(answers') : answers'[i] <= Done'
        <4>1. CASE answers' = answers
          BY <2>0, <3>3, <4>1 DEF ClientReplies
        <4>2. CASE answers' = Append(answers, Done + 1)
          <5>1. Len(answers') = Len(answers) + 1
            BY <2>0, <4>2
          <5>2. \A i \in 1..Len(answers) : answers'[i] = answers[i]
            BY <2>0, <4>2
          <5>3. answers'[Len(answers) + 1] = Done + 1
            BY <2>0, <4>2
          <5>4. answers' \in Seq(Nat)
            BY <2>0, <4>2
          <5> HIDE DEF Done
          <5> QED
            <6>1. SUFFICES ASSUME NEW i \in 1..Len(answers')
                           PROVE  answers'[i] <= Done'
              BY <5>4
            <6>2. CASE i \in 1..Len(answers)
              <7>1. answers[i] \in Nat /\ answers[i] <= Done
                BY <6>2 DEF ClientReplies
              <7> QED
                BY <2>0, <3>3, <5>2, <6>2, <7>1
            <6>3. CASE i = Len(answers) + 1
              BY <2>0, <3>3, <5>3, <6>3
            <6> QED
              BY <5>1, <6>2, <6>3
        <4> QED
          BY <3>1, <3>2, <4>1, <4>2
      <3>6. /\ Done + Len(sent) = Done' + Len(sent')
            /\ Done + Len(sent) + Len(writes) = Done' + Len(sent') + Len(writes')
        BY <2>0, <3>1, <3>2, <3>3
      <3>7. /\ InLine(posted, Done + Len(sent) + Len(writes))'
            /\ InLine(writes, Done + Len(sent))' /\ InLine(sent, Done)'
        BY <3>1, <3>2, <3>3, <3>6 DEF InLine, ClientOrder
      <3>8. (\A id \in replies : id <= Done)' /\ (confirmed <= Done)'
        BY <2>0, <3>1, <3>3 DEF ClientReplies
      <3> QED
        BY <2>0, <3>1, <3>2, <3>3, <3>4, <3>5, <3>7, <3>8 DEF ClientOrder, ClientReplies
    <2>9. CASE UNCHANGED clientVars
      BY <2>9 DEF clientVars, ClientOrder, ClientReplies, Done, Pending, InLine
    <2> QED
      BY <2>1, <2>2, <2>3, <2>4, <2>5, <2>6, <2>7, <2>8, <2>9 DEF ClientNext
  <1>3. ClientInv => ConfirmedIsDone
    BY DEF ClientInv, ClientTypeOK, ClientOrder, ClientReplies, ConfirmedIsDone,
           Done, Pending
  <1> QED
    BY <1>1, <1>2, <1>3, PTL DEF ClientSpec

-----------------------------------------------------------------------------
(* Transport: what is on the wire is what the sender could encode.         *)

Accepted(m) == CanEncode(m) /\ ValidPacket(Encode(m), m.kind)

\* A packet may reach another port; its type and its body stay.
TransportInv ==
    /\ peers \subseteq Roles
    /\ message # NoMessage =>
          \E role \in Roles : /\ message \in MessagesOf(role)
                              /\ message.kind \in Writes(role)
    /\ outcome = "refused" => message # NoMessage /\ ~Accepted(message)
    /\ wire # NoPacket =>
          /\ message # NoMessage /\ CanEncode(message)
          /\ wire.type = message.kind /\ wire.body = Encode(message).body
    /\ received # NoMessage =>
          /\ message # NoMessage /\ CanEncode(message)
          /\ received = Encode(message).body
          /\ \E role \in peers : message.kind \in Reads(role)

LEMMA MessagesHaveKinds ==
    ASSUME NEW m, NEW role \in Roles, m.kind \in Writes(role)
    PROVE  /\ m # NoMessage /\ Encode(m) # NoPacket
           /\ Encode(m).type = m.kind
  <1>1. m.kind \in {"state", "control", "command", "status"}
    BY DEF Writes, Roles
  <1>2. Encode(m).channel = m.kind /\ Encode(m).type = m.kind
    BY DEF Encode
  <1>3. NoMessage.kind = "none" /\ NoPacket.channel = "none"
    BY DEF NoMessage, NoPacket
  <1> QED
    BY <1>1, <1>2, <1>3

\* A text of a fault that is too long is cut, not refused.
LEMMA FaultTextsAreCut ==
    ASSUME NEW f \in Faults,
           \/ f = NoFault
           \/ /\ f.latched /\ f.name = "known" /\ f.number # 0
              /\ f.time # "bad" /\ f.detail # "nul"
    PROVE  CanEncodeFault(f) /\ ValidFaultPacket(EncodeFault(f))
  <1> DEFINE e == EncodeFault(f)
  <1>1. CanEncodeFault(f)
    BY DEF CanEncodeFault, NoFault
  <1>2. e = [f EXCEPT !.detail = DetailForPacket(f.detail)]
    BY DEF EncodeFault
  <1>3. DetailForPacket(f.detail) \in {"empty", "fits"}
    BY DEF Faults, Texts, DetailForPacket, NoFault
  <1>4. /\ e.active = f.active /\ e.latched = f.latched /\ e.name = f.name
        /\ e.number = f.number /\ e.time = f.time
        /\ e.detail = DetailForPacket(f.detail)
    BY <1>2 DEF Faults
  <1>5. CASE f = NoFault
    <2>1. DetailForPacket(f.detail) = f.detail
      BY <1>5 DEF NoFault, DetailForPacket
    <2>2. e = f
      BY <1>2, <2>1 DEF Faults
    <2> QED
      BY <1>1, <1>3, <1>4, <2>2 DEF ValidFaultPacket, Terminated, Short
  <1>6. CASE f # NoFault
    BY <1>1, <1>3, <1>4, <1>6
       DEF CanEncodeFault, ValidFaultPacket, Terminated, Short
  <1> QED
    BY <1>1, <1>5, <1>6

LEMMA SoundReportsAreAccepted ==
    ASSUME NEW role \in Roles, NEW m \in MessagesOf(role),
           m.kind \in Writes(role), SoundReport(m)
    PROVE  Accepted(m)
  <1>1. m.kind = "state"
    BY DEF SoundReport
  <1>2. role = "DRIVER"
    BY <1>1 DEF Roles, Writes
  <1>3. m \in States
    BY <1>2 DEF MessagesOf
  <1>4. m.fault \in Faults
    <2>1. NoFault \in Faults
      BY DEF NoFault, Faults, Texts
    <2>2. CASE \E fault \in Faults : m = StateOf(fault)
      BY <2>2 DEF StateOf
    <2>3. CASE ~\E fault \in Faults : m = StateOf(fault)
      BY <1>3, <2>1, <2>3 DEF States
    <2> QED
      BY <2>2, <2>3
  <1>5. CanEncodeFault(m.fault) /\ ValidFaultPacket(EncodeFault(m.fault))
    BY <1>4, FaultTextsAreCut DEF SoundReport
  <1>6. CanEncode(m)
    BY <1>1, <1>5 DEF CanEncode, CanEncodeRobotState, SoundReport
  <1> DEFINE e == EncodeState(m)
  <1>7. Encode(m).type = "state" /\ Encode(m).body = e
    BY <1>1 DEF Encode
  <1>8. /\ e.dof = m.dof /\ e.numbers = m.numbers /\ e.upright = m.upright
        /\ e.fault = EncodeFault(m.fault)
    <2>1. m = [kind |-> m.kind, dof |-> m.dof, joints |-> m.joints,
               extras |-> m.extras, numbers |-> m.numbers,
               upright |-> m.upright, fault |-> m.fault]
      BY <1>3 DEF States, StateOf
    <2> QED
      BY <2>1 DEF EncodeState
  <1>9. ValidRobotStatePacket(e)
    BY <1>5, <1>8 DEF ValidRobotStatePacket, SoundReport
  <1> QED
    BY <1>1, <1>6, <1>7, <1>9 DEF Accepted, ValidPacket, ValidHeader

(***************************************************************************)
(* Over both media and for every number of joints, whatever is lost,       *)
(* repeated or misdirected: no text of a fault keeps a state from being    *)
(* sent, and what is received is what was sent on that channel.            *)
(***************************************************************************)
THEOREM DeliveryIsFaithful == TransportSpec => []FaithfulDelivery
  <1>1. TransportInit => TransportInv
    BY DEF TransportInit, TransportInv
  <1>2. TransportInv /\ [TransportNext]_transportVars => TransportInv'
    <2> SUFFICES ASSUME TransportInv, [TransportNext]_transportVars
                 PROVE  TransportInv'
      OBVIOUS
    <2>1. ASSUME NEW role \in Roles, InitTransport(role) PROVE TransportInv'
      BY <2>1 DEF InitTransport, TransportInv
    <2>2. ASSUME NEW role \in Roles, NEW m \in MessagesOf(role), Send(role, m)
          PROVE  TransportInv'
      <3>1. /\ m.kind \in Writes(role) /\ message = NoMessage /\ message' = m
            /\ UNCHANGED <<peers, received>>
        BY <2>2 DEF Send
      <3>2. m # NoMessage /\ Encode(m).type = m.kind
        BY <3>1, MessagesHaveKinds
      <3>3. wire = NoPacket /\ received = NoMessage
        BY <3>1 DEF TransportInv
      <3>4. \/ /\ Accepted(m) /\ wire' = Encode(m) /\ outcome' = "sent"
            \/ ~Accepted(m) /\ wire' = wire
        BY <2>2 DEF Send, Accepted
      <3>5. Accepted(m) => CanEncode(m)
        BY DEF Accepted
      <3> QED
        BY <3>1, <3>2, <3>3, <3>4, <3>5 DEF TransportInv
    <2>3. ASSUME NEW role \in Roles, NEW kind \in Kinds, NEW repeated \in BOOLEAN,
                 RecvPacket(role, kind, repeated)
          PROVE  TransportInv'
      <3>1. /\ role \in peers /\ kind \in Reads(role) /\ wire # NoPacket
            /\ received' = IF ValidPacket(wire, kind) THEN wire.body ELSE received
            /\ wire' \in {wire, NoPacket}
            /\ UNCHANGED <<peers, message, outcome>>
        BY <2>3 DEF RecvPacket
      <3>2. ValidPacket(wire, kind) => wire.type = kind
        BY DEF ValidPacket, ValidHeader
      <3> QED
        BY <3>1, <3>2 DEF TransportInv
    <2>4. ASSUME NEW kind \in Kinds, Misdirect(kind) PROVE TransportInv'
      <3>1. /\ wire # NoPacket /\ wire' = [wire EXCEPT !.channel = kind]
            /\ UNCHANGED <<peers, message, outcome, received>>
        BY <2>4 DEF Misdirect
      <3> QED
        BY <3>1 DEF TransportInv
    <2>5. CASE NextMessage
      BY <2>5 DEF NextMessage, TransportInv
    <2>6. CASE UNCHANGED transportVars
      BY <2>6 DEF transportVars, TransportInv
    <2> QED
      BY <2>1, <2>2, <2>3, <2>4, <2>5, <2>6 DEF TransportNext
  <1>3. TransportInv => FaithfulDelivery
    BY SoundReportsAreAccepted DEF TransportInv, FaithfulDelivery
  <1> QED
    BY <1>1, <1>2, <1>3, PTL DEF TransportSpec

-----------------------------------------------------------------------------
(* ShmChannel: unless it goes around the ring, the writer stays clear of   *)
(* the slot that is being read, and what it publishes lies ahead of it.    *)

Newest(s) == ring[s].slot[LatestIndex(ring[s].write)]

\* The index after n packets.
Ahead(write, index, n) == write = index + n \/ write = index + n - Capacity

ChannelEnds ==
    /\ writer.at # "gone" => writer.seg \in Segments
    /\ reader.at # "gone" => reader.seg \in Segments
    /\ writer.at = "reset" => ring[writer.seg].write = 0
    /\ writer.at \in {"open", "copy"} => ring[writer.seg].made
    /\ writer.at = "copy" => ring[writer.seg].write = writer.index

\* A packet that is being written has not been seen by anybody.
Seeable(n) == n <= written /\ (writer.at = "copy" => n < written)

ChannelNumbers ==
    /\ \A s \in Segments, k \in Slots : Seeable(ring[s].slot[k])
    /\ reader.copy <= written /\ Seeable(last) /\ laps <= written
    /\ writer.at = "copy" => written >= 1

\* A ring of one slot never shows anything new.
ChannelLaps == reader.at \in {"copy", "store"} => Capacity > 1

ReaderOpen ==
    reader.at = "open" =>
        /\ reader.copy = 0
        /\ stale = 0 => \/ ring[reader.seg].write = ring[reader.seg].read
                        \/ Newest(reader.seg) > last

\* What the next call finds is new, whatever becomes of this one.
NextIsNew == \/ ring[reader.seg].write = reader.index
             \/ Newest(reader.seg) > last

\* The packet that is copied, n publications behind the newest one.
Copied == ring[reader.seg].slot[LatestIndex(reader.index)]

Writing == writer.at = "copy" /\ Together

WholeCopy ==
    /\ reader.copy = 0
    /\ \E n \in 0..laps : /\ Ahead(ring[reader.seg].write, reader.index, n)
                          /\ Writing => n < laps
    /\ \/ ring[reader.seg].write = reader.index
       \/ Newest(reader.seg) > Copied
    /\ stale = 0 => Copied > last

ReaderCopies ==
    reader.at = "copy" /\ stale < 2 =>
        /\ NextIsNew
        /\ NotLapped => WholeCopy

WholeResult ==
    /\ Seeable(reader.copy)
    /\ \/ ring[reader.seg].write = reader.index
       \/ Newest(reader.seg) > reader.copy
    /\ stale = 0 => reader.copy > last

ReaderStores ==
    reader.at = "store" /\ stale < 2 =>
        /\ NextIsNew
        /\ NotLapped => WholeResult

ChannelInv ==
    /\ ChannelTypeOK /\ ChannelEnds /\ ChannelNumbers /\ ChannelLaps
    /\ ReaderOpen /\ ReaderCopies /\ ReaderStores

Rings == [made : BOOLEAN, write : Slots, read : Slots, slot : [Slots -> Contents]]

LEMMA RingIndex ==
    ASSUME NEW i \in Slots
    PROVE  /\ LatestIndex(i) \in Slots /\ NextIndex(i) \in Slots
           /\ LatestIndex(i) = IF i = 0 THEN Capacity - 1 ELSE i - 1
           /\ NextIndex(i) = IF i = Capacity - 1 THEN 0 ELSE i + 1
           /\ LatestIndex(NextIndex(i)) = i
           /\ Capacity > 1 => LatestIndex(i) # i
           /\ 0 \in Slots
  <1> DEFINE c == Capacity
  <1>1. c \in Nat /\ c > 0 /\ i \in 0..(c - 1)
    BY ChannelAssumption DEF Slots
  <1>2. NextIndex(i) = (i + 1) % c
    BY DEF NextIndex
  <1> HIDE DEF c
  <1>3. CASE i = c - 1
    <2>1. i + 1 = c
      BY <1>1, <1>3
    <2>2. c % c = 0
      BY <1>1
    <2> QED
      BY <1>1, <1>2, <1>3, <2>1, <2>2 DEF c, Slots, LatestIndex
  <1>4. CASE i # c - 1
    <2>1. i + 1 \in 0..(c - 1)
      BY <1>1, <1>4
    <2>2. (i + 1) % c = i + 1
      BY <1>1, <2>1
    <2> QED
      BY <1>1, <1>2, <1>4, <2>1, <2>2 DEF c, Slots, LatestIndex
  <1> QED
    BY <1>3, <1>4

LEMMA NumbersAre ==
    /\ 0 \in 0..MaxPackets /\ 0 \in 0..MaxSegments /\ 0 \in 0..MaxRestarts
    /\ Contents \subseteq Int /\ Torn \in Contents /\ 0 \in Contents
    /\ Torn < 0 /\ 0..MaxPackets \subseteq Contents
    /\ MaxPackets \in Nat /\ MaxSegments \in Nat /\ MaxRestarts \in Nat
  BY ChannelAssumption DEF Contents, Torn

LEMMA ChannelStarts == ChannelInit => ChannelInv
  <1> SUFFICES ASSUME ChannelInit PROVE ChannelInv
    OBVIOUS
  <1>1. 0 \in Slots
    BY ChannelAssumption DEF Slots
  <1>2. \A s \in Segments : ring[s] = NoSegment
    BY DEF ChannelInit
  <1>3. NoSegment \in Rings
    BY <1>1, NumbersAre DEF NoSegment, Rings
  <1>4. ring \in [Segments -> Rings]
    BY <1>3 DEF ChannelInit
  <1>5. ChannelTypeOK
    BY <1>1, <1>4, NumbersAre DEF ChannelInit, ChannelTypeOK, Rings, Absent
  <1>6. \A s \in Segments, k \in Slots : ring[s].slot[k] = 0
    BY <1>2 DEF NoSegment
  <1>7. ChannelNumbers
    BY <1>6 DEF ChannelNumbers, Seeable, ChannelInit, Absent
  <1> QED
    BY <1>5, <1>7, ChannelAssumption
       DEF ChannelInv, ChannelEnds, ChannelLaps, ReaderOpen, ReaderCopies,
           ReaderStores, ChannelInit, Absent

\* One segment changes, the others stay.
Only(s, e) ==
    /\ ring' \in [Segments -> Rings] /\ ring'[s] = e
    /\ \A t \in Segments : t # s => ring'[t] = ring[t]

LEMMA RingChanges ==
    ASSUME ring \in [Segments -> Rings], NEW s \in Segments, NEW e \in Rings,
           ring' = [ring EXCEPT ![s] = e]
    PROVE  Only(s, e)
  BY DEF Only

\* A step that does not touch what the reader looks at keeps its part.
LEMMA ReaderKeeps ==
    ASSUME ReaderOpen, ReaderCopies, ReaderStores,
           UNCHANGED <<reader, last, laps, stale>>,
           reader.at # "gone" => UNCHANGED <<ring[reader.seg].write,
                                             ring[reader.seg].slot,
                                             ring[reader.seg].read>>,
           Writing' => Writing,
           \A n \in Int : Seeable(n) => Seeable(n)',
           reader.copy \in Int
    PROVE  ReaderOpen' /\ ReaderCopies' /\ ReaderStores'
  <1>1. reader.at # "gone" => /\ Newest(reader.seg)' = Newest(reader.seg)
                              /\ Copied' = Copied
                              /\ NextIsNew <=> NextIsNew'
    BY DEF Newest, Copied, NextIsNew
  <1>2. ReaderOpen'
    BY <1>1 DEF ReaderOpen
  <1>3. ReaderCopies'
    <2>1. reader.at # "gone" /\ WholeCopy => WholeCopy'
      BY <1>1 DEF WholeCopy, Ahead
    <2> QED
      BY <1>1, <2>1 DEF ReaderCopies, NotLapped
  <1>4. ReaderStores'
    <2>1. reader.at # "gone" /\ WholeResult => WholeResult'
      BY <1>1 DEF WholeResult
    <2> QED
      BY <1>1, <2>1 DEF ReaderStores, NotLapped
  <1> QED
    BY <1>2, <1>3, <1>4

LEMMA WriterStarts ==
    ASSUME ChannelInv, StartWriter
    PROVE  ChannelInv'
  <1> DEFINE s == Opened
             e == [ring[s] EXCEPT !.write = 0]
  <1>1. /\ writer.at = "gone" /\ starts < MaxRestarts /\ s <= MaxSegments
        /\ linked' = s /\ segments' = (IF linked = 0 THEN segments + 1 ELSE segments)
        /\ writer' = [Absent EXCEPT !.at = "reset", !.seg = s]
        /\ ring' = [ring EXCEPT ![s].write = 0]
        /\ starts' = starts + 1
        /\ stale' = (IF reader.seg # s THEN stale
                     ELSE IF reader.at = "open" THEN 1 ELSE 2)
        /\ UNCHANGED <<closing, reader, written, laps, last, left>>
    BY DEF StartWriter, Open
  <1>2. ChannelTypeOK /\ ring \in [Segments -> Rings]
    BY DEF ChannelInv, ChannelTypeOK, Rings
  <1>3. /\ s \in Segments /\ s \in 0..MaxSegments /\ segments' \in 0..MaxSegments
        /\ starts' \in 0..MaxRestarts /\ 0 \in Slots
    <2>1. linked \in 0..MaxSegments /\ segments \in 0..MaxSegments
          /\ starts \in 0..MaxRestarts
      BY <1>2 DEF ChannelTypeOK
    <2>2. s = (IF linked # 0 THEN linked ELSE segments + 1)
      BY DEF Opened
    <2>3. s \in 1..MaxSegments /\ segments' \in 0..MaxSegments
      <3> HIDE DEF s
      <3> QED
        BY ONLY <1>1, <2>1, <2>2, ChannelAssumption
    <2>4. starts' \in 0..MaxRestarts
      BY <1>1, <2>1, ChannelAssumption
    <2> QED
      BY <2>3, <2>4, ChannelAssumption DEF Segments, Slots
  <1> HIDE DEF s
  <1>4. /\ e \in Rings /\ e.write = 0 /\ e.slot = ring[s].slot
        /\ e.made = ring[s].made /\ e.read = ring[s].read
    BY <1>2, <1>3 DEF Rings
  <1>5. ring' = [ring EXCEPT ![s] = e]
    BY <1>1
  <1> HIDE DEF e
  <1>6. Only(s, e)
    BY <1>2, <1>3, <1>4, <1>5, RingChanges
  <1>7. writer'.at = "reset" /\ writer'.seg = s /\ writer'.index = 0 /\ writer'.copy = 0
    BY <1>1 DEF Absent
  <1>8. writer' \in [at : {"gone", "reset", "open", "copy"},
                     seg : 0..MaxSegments, index : Slots, copy : {0}]
    BY <1>1, <1>3 DEF Absent
  <1>9. ChannelTypeOK'
    <2>1. ring' \in [Segments -> Rings]
      BY <1>6 DEF Only
    <2>2. stale' \in 0..2
      BY <1>1, <1>2 DEF ChannelTypeOK
    <2> QED
      BY <1>1, <1>2, <1>3, <1>8, <2>1, <2>2 DEF ChannelTypeOK, Rings
  <1>10. ChannelEnds'
    BY <1>1, <1>3, <1>4, <1>6, <1>7 DEF ChannelInv, ChannelEnds, Only
  <1>11. ChannelNumbers'
    BY <1>1, <1>4, <1>6, <1>7 DEF ChannelInv, ChannelNumbers, Seeable, Only
  <1>12. ChannelLaps'
    BY <1>1 DEF ChannelInv, ChannelLaps
  <1>13. ReaderOpen' /\ ReaderCopies' /\ ReaderStores'
    <2>1. CASE reader.seg = s
      <3>1. stale' = (IF reader.at = "open" THEN 1 ELSE 2)
        BY <1>1, <2>1
      <3> QED
        BY <1>1, <3>1 DEF ChannelInv, ReaderOpen, ReaderCopies, ReaderStores
    <2>2. CASE reader.seg # s
      <3>1. reader.at # "gone" => ring'[reader.seg] = ring[reader.seg]
        BY <1>6, <2>2 DEF Only, ChannelInv, ChannelEnds
      <3>2. stale' = stale
        BY <1>1, <2>2
      <3>3. ~Writing' /\ \A n \in Int : Seeable(n) => Seeable(n)'
        BY <1>1, <1>7 DEF Writing, Seeable
      <3>4. reader.copy \in Int
        BY <1>2, NumbersAre DEF ChannelTypeOK
      <3> QED
        BY <1>1, <3>1, <3>2, <3>3, <3>4, ReaderKeeps DEF ChannelInv
    <2> QED
      BY <2>1, <2>2
  <1> QED
    BY <1>9, <1>10, <1>11, <1>12, <1>13 DEF ChannelInv

LEMMA WriterResets ==
    ASSUME ChannelInv, ResetReadIndex
    PROVE  ChannelInv'
  <1> DEFINE s == writer.seg
             e == [ring[s] EXCEPT !.read = 0, !.made = TRUE]
  <1>1. /\ writer.at = "reset" /\ writer' = [writer EXCEPT !.at = "open"]
        /\ ring' = [ring EXCEPT ![s].read = 0, ![s].made = TRUE]
        /\ stale' = (IF reader.seg # s THEN stale
                     ELSE IF reader.at = "open" THEN 0 ELSE 2)
        /\ UNCHANGED <<linked, segments, closing, reader, written, starts, laps,
                       last, left>>
    BY DEF ResetReadIndex
  <1>2. ChannelTypeOK /\ ring \in [Segments -> Rings]
    BY DEF ChannelInv, ChannelTypeOK, Rings
  <1>3. s \in Segments /\ ring[s].write = 0 /\ 0 \in Slots
    BY <1>1, ChannelAssumption DEF ChannelInv, ChannelEnds, Slots
  <1>4. /\ e \in Rings /\ e.write = 0 /\ e.slot = ring[s].slot
        /\ e.made = TRUE /\ e.read = 0
    BY <1>2, <1>3 DEF Rings
  <1>5. ring' = [ring EXCEPT ![s] = e]
    BY <1>1, <1>2, <1>3 DEF Rings
  <1> HIDE DEF e
  <1>6. Only(s, e)
    BY <1>2, <1>3, <1>4, <1>5, RingChanges
  <1>7. /\ writer'.at = "open" /\ writer'.seg = s
        /\ writer' \in [at : {"gone", "reset", "open", "copy"},
                        seg : 0..MaxSegments, index : Slots, copy : {0}]
    BY <1>1, <1>2 DEF ChannelTypeOK
  <1> HIDE DEF s
  <1>8. ChannelTypeOK'
    BY <1>1, <1>2, <1>6, <1>7 DEF ChannelTypeOK, Only, Rings
  <1>9. ChannelEnds'
    BY <1>1, <1>3, <1>4, <1>6, <1>7 DEF ChannelInv, ChannelEnds, Only
  <1>10. ChannelNumbers'
    BY <1>1, <1>4, <1>6, <1>7 DEF ChannelInv, ChannelNumbers, Seeable, Only
  <1>11. ChannelLaps'
    BY <1>1 DEF ChannelInv, ChannelLaps
  <1>12. ReaderOpen' /\ ReaderCopies' /\ ReaderStores'
    <2>1. CASE reader.seg = s /\ reader.at = "open"
      <3>1. ring'[s].write = 0 /\ ring'[s].read = 0
        BY <1>3, <1>4, <1>6 DEF Only
      <3>2. reader.copy = 0
        BY <2>1 DEF ChannelInv, ReaderOpen
      <3> QED
        BY <1>1, <2>1, <3>1, <3>2 DEF ReaderOpen, ReaderCopies, ReaderStores
    <2>2. CASE reader.seg = s /\ reader.at # "open"
      <3>1. stale' = 2
        BY <1>1, <2>2
      <3> QED
        BY <1>1, <2>2, <3>1 DEF ReaderOpen, ReaderCopies, ReaderStores
    <2>3. CASE reader.seg # s
      <3>1. reader.at # "gone" => ring'[reader.seg] = ring[reader.seg]
        BY <1>6, <2>3 DEF Only, ChannelInv, ChannelEnds
      <3>2. stale' = stale
        BY <1>1, <2>3
      <3>3. ~Writing' /\ \A n \in Int : Seeable(n) => Seeable(n)'
        BY <1>1, <1>7 DEF Writing, Seeable
      <3>4. reader.copy \in Int
        BY <1>2, NumbersAre DEF ChannelTypeOK
      <3> QED
        BY <1>1, <3>1, <3>2, <3>3, <3>4, ReaderKeeps DEF ChannelInv
    <2> QED
      BY <2>1, <2>2, <2>3
  <1> QED
    BY <1>8, <1>9, <1>10, <1>11, <1>12 DEF ChannelInv

LEMMA ProcessEnds ==
    ASSUME ChannelInv, CloseWriter \/ Unlink \/ WriterDies \/ ReaderEnds
    PROVE  ChannelInv'
  <1>0. /\ 0 \in Slots /\ 0 \in Contents /\ 0 \in 0..MaxSegments
        /\ ChannelTypeOK /\ reader.copy \in Int
    <2>1. 0 \in Slots
      BY ChannelAssumption DEF Slots
    <2>2. ChannelTypeOK
      BY DEF ChannelInv
    <2>3. reader.copy \in Contents
      BY <2>2 DEF ChannelTypeOK
    <2> QED
      BY <2>1, <2>2, <2>3, NumbersAre
  <1>1. CASE CloseWriter \/ WriterDies
    <2>1. /\ writer' = Absent /\ closing' \in {closing, closing + 1}
          /\ UNCHANGED <<linked, segments, ring, reader, written, starts, laps, last,
                         left, stale>>
      BY <1>1 DEF CloseWriter, WriterDies
    <2>3. writer'.at = "gone"
      BY <2>1 DEF Absent
    <2>2. ChannelTypeOK'
      BY <1>0, <2>1 DEF ChannelTypeOK, Absent
    <2>4. ChannelEnds' /\ ChannelLaps'
      BY <2>1, <2>3 DEF ChannelInv, ChannelEnds, ChannelLaps
    <2>5. ChannelNumbers'
      BY <2>1, <2>3 DEF ChannelInv, ChannelNumbers, Seeable
    <2>6. ReaderOpen' /\ ReaderCopies' /\ ReaderStores'
      <3>1. ~Writing' /\ \A n \in Int : Seeable(n) => Seeable(n)'
        BY <2>1, <2>3 DEF Writing, Seeable
      <3> QED
        BY <1>0, <2>1, <3>1, ReaderKeeps DEF ChannelInv
    <2> QED
      BY <2>2, <2>4, <2>5, <2>6 DEF ChannelInv
  <1>2. CASE ReaderEnds
    <2>1. /\ reader' = Absent
          /\ UNCHANGED <<linked, segments, ring, writer, closing, written, starts,
                         laps, last, left, stale>>
      BY <1>2 DEF ReaderEnds
    <2>2. ChannelTypeOK'
      BY <1>0, <2>1 DEF ChannelTypeOK, Absent
    <2>3. reader'.at = "gone" /\ reader'.copy = 0
      BY <2>1 DEF Absent
    <2>4. ChannelEnds' /\ ChannelLaps'
      BY <2>1, <2>3 DEF ChannelInv, ChannelEnds, ChannelLaps
    <2>5. ChannelNumbers'
      <3>1. written \in 0..MaxPackets
        BY <1>0 DEF ChannelTypeOK
      <3> QED
        BY <2>1, <2>3, <3>1 DEF ChannelInv, ChannelNumbers, Seeable
    <2>6. ReaderOpen' /\ ReaderCopies' /\ ReaderStores'
      BY <2>3 DEF ReaderOpen, ReaderCopies, ReaderStores
    <2> QED
      BY <2>2, <2>4, <2>5, <2>6 DEF ChannelInv
  <1>3. CASE Unlink
    <2>1. /\ linked' = 0 /\ closing' = closing - 1 /\ closing > 0
          /\ UNCHANGED <<segments, ring, writer, reader, written, starts, laps, last,
                         left, stale>>
      BY <1>3 DEF Unlink
    <2>2. closing' \in Nat
      BY <1>0, <2>1 DEF ChannelTypeOK
    <2>3. ChannelTypeOK'
      BY <1>0, <2>1, <2>2 DEF ChannelTypeOK
    <2>4. ChannelEnds' /\ ChannelLaps' /\ ChannelNumbers'
      BY <2>1 DEF ChannelInv, ChannelEnds, ChannelLaps, ChannelNumbers, Seeable
    <2>5. ReaderOpen' /\ ReaderCopies' /\ ReaderStores'
      <3>1. (Writing' => Writing) /\ \A n \in Int : Seeable(n) => Seeable(n)'
        BY <2>1 DEF Writing, Together, Seeable
      <3> QED
        BY <1>0, <2>1, <3>1, ReaderKeeps DEF ChannelInv
    <2> QED
      BY <2>3, <2>4, <2>5 DEF ChannelInv
  <1> QED
    BY <1>1, <1>2, <1>3

LEMMA OpenedIsSegment ==
    ASSUME ChannelTypeOK, Open
    PROVE  /\ Opened \in Segments /\ Opened \in 0..MaxSegments
           /\ linked' = Opened /\ segments' \in 0..MaxSegments
  <1> DEFINE s == Opened
  <1>1. linked \in 0..MaxSegments /\ segments \in 0..MaxSegments
    BY DEF ChannelTypeOK
  <1>2. s = (IF linked # 0 THEN linked ELSE segments + 1)
    BY DEF Opened
  <1>3. /\ s <= MaxSegments /\ linked' = s
        /\ segments' = IF linked = 0 THEN segments + 1 ELSE segments
    BY DEF Open
  <1> HIDE DEF s
  <1>4. s \in 1..MaxSegments /\ segments' \in 0..MaxSegments
    BY ONLY <1>1, <1>2, <1>3, ChannelAssumption
  <1> QED
    BY <1>3, <1>4 DEF s, Segments

LEMMA ReaderStarts ==
    ASSUME ChannelInv, StartReader
    PROVE  ChannelInv'
  <1> DEFINE s == Opened
             write == IF ring[s].made THEN ring[s].write ELSE 0
             e == [ring[s] EXCEPT !.read = write, !.write = write, !.made = TRUE]
  <1>1. /\ reader' = [Absent EXCEPT !.at = "open", !.seg = s]
        /\ laps' = 0 /\ left' = Published /\ stale' = 0
        /\ UNCHANGED <<writer, closing, written, starts, last>>
    BY DEF StartReader
  <1>2. ChannelTypeOK /\ ring \in [Segments -> Rings]
    BY DEF ChannelInv, ChannelTypeOK, Rings
  <1>3. /\ s \in Segments /\ s \in 0..MaxSegments /\ linked' = s
        /\ segments' \in 0..MaxSegments
    BY <1>2, OpenedIsSegment DEF StartReader
  <1>4. 0 \in Slots /\ 0 \in 0..MaxPackets /\ 0 \in Contents
    BY NumbersAre, ChannelAssumption DEF Slots
  <1>4a. left' \in 0..MaxPackets
    <2>1. written \in 0..MaxPackets /\ (writer.at = "copy" => written >= 1)
      BY <1>2 DEF ChannelTypeOK, ChannelInv, ChannelNumbers
    <2> QED
      BY <1>1, <2>1, ChannelAssumption DEF Published
  <1>5. ring' = [ring EXCEPT ![s] = e]
    <2>1. ring' = [ring EXCEPT ![s].read =
                        IF ring[s].made THEN ring[s].write ELSE 0,
                               ![s].write = IF ring[s].made THEN @ ELSE 0,
                               ![s].made = TRUE]
      BY DEF StartReader
    <2> HIDE DEF s
    <2> QED
      BY <1>2, <1>3, <2>1 DEF Rings
  <1> HIDE DEF s
  <1>6. /\ write \in Slots
        /\ writer.at # "gone" /\ writer.seg = s => write = ring[s].write
    <2>1. write \in Slots
      BY <1>2, <1>3, <1>4 DEF Rings
    <2> QED
      BY <1>2, <2>1 DEF ChannelInv, ChannelEnds, ChannelTypeOK
  <1> HIDE DEF write
  <1>7. /\ e \in Rings /\ e.write = write /\ e.read = write
        /\ e.slot = ring[s].slot /\ e.made = TRUE
    BY <1>2, <1>3, <1>6 DEF Rings
  <1> HIDE DEF e
  <1>8. Only(s, e)
    BY <1>2, <1>3, <1>5, <1>7, RingChanges
  <1>9. /\ reader'.at = "open" /\ reader'.seg = s /\ reader'.copy = 0
        /\ reader' \in [at : {"gone", "open", "copy", "store"},
                        seg : 0..MaxSegments, index : Slots, copy : Contents]
    BY <1>1, <1>3, <1>4 DEF Absent
  <1>10. ChannelTypeOK'
    BY <1>1, <1>2, <1>3, <1>4, <1>4a, <1>8, <1>9 DEF ChannelTypeOK, Only, Rings
  <1>11. ChannelEnds'
    BY <1>1, <1>3, <1>6, <1>7, <1>8, <1>9 DEF ChannelInv, ChannelEnds, Only
  <1>12. ChannelNumbers'
    <2>1. \A t \in Segments : ring'[t].slot = ring[t].slot
      BY <1>7, <1>8 DEF Only
    <2>2. last \in 0..MaxPackets /\ written \in 0..MaxPackets
      BY <1>2 DEF ChannelTypeOK
    <2>3. /\ writer.at = "copy" => written >= 1
          /\ Seeable(last) /\ \A t \in Segments, k \in Slots : Seeable(ring[t].slot[k])
      BY DEF ChannelInv, ChannelNumbers
    <2> QED
      BY <1>1, <1>9, <2>1, <2>2, <2>3 DEF ChannelNumbers, Seeable
  <1>13. ChannelLaps'
    BY <1>9 DEF ChannelLaps
  <1>14. ReaderOpen' /\ ReaderCopies' /\ ReaderStores'
    BY <1>7, <1>8, <1>9 DEF ReaderOpen, ReaderCopies, ReaderStores, Only
  <1> QED
    BY <1>10, <1>11, <1>12, <1>13, <1>14 DEF ChannelInv

\* Before it has gone around the ring the writer does not get there.
LEMMA WriterStaysClear ==
    ASSUME ChannelInv, reader.at = "copy", stale < 2, laps < Capacity - 1
    PROVE  ring[reader.seg].write # LatestIndex(reader.index)
  <1> DEFINE w == ring[reader.seg].write
             i == reader.index
             c == Capacity
  <1>1. w \in 0..(c - 1) /\ i \in 0..(c - 1) /\ c > 1 /\ c \in Nat
    <2>1. reader.seg \in Segments
      BY DEF ChannelInv, ChannelEnds
    <2>2. c > 1
      BY DEF ChannelInv, ChannelLaps
    <2> QED
      BY <2>1, <2>2, ChannelAssumption DEF ChannelInv, ChannelTypeOK, Slots
  <1>2. laps \in Nat /\ NotLapped
    BY ChannelAssumption DEF ChannelInv, ChannelTypeOK, NotLapped
  <1>2a. PICK n \in 0..laps : Ahead(w, i, n)
    BY <1>2 DEF ChannelInv, ReaderCopies, WholeCopy
  <1>3. n \in Nat /\ n <= laps
    BY <1>2, <1>2a
  <1>4. w = i + n \/ w = i + n - c
    BY <1>2a DEF Ahead
  <1>5. LatestIndex(i) = IF i = 0 THEN c - 1 ELSE i - 1
    BY DEF LatestIndex
  <1> HIDE DEF w, i, c
  <1>6. laps < c - 1
    BY DEF c
  <1> SUFFICES w # LatestIndex(i)
    BY DEF w, i
  <1> QED
    BY <1>1, <1>2, <1>3, <1>4, <1>5, <1>6

LEMMA PacketIsWritten ==
    ASSUME ChannelInv, Write
    PROVE  ChannelInv'
  <1> DEFINE s == writer.seg
             k == ring[s].write
             e == [ring[s] EXCEPT !.slot[k] = Torn]
  <1>1. /\ writer.at = "open" /\ written < MaxPackets
        /\ writer' = [writer EXCEPT !.at = "copy", !.index = k]
        /\ ring' = [ring EXCEPT ![s].slot[k] = Torn]
        /\ reader' = (IF reader.at = "copy" /\ reader.seg = s
                         /\ LatestIndex(reader.index) = writer'.index
                      THEN [reader EXCEPT !.copy = Torn] ELSE reader)
        /\ laps' = (IF reader.at = "copy" /\ reader.seg = s THEN laps + 1 ELSE laps)
        /\ written' = written + 1
        /\ UNCHANGED <<linked, segments, closing, starts, last, left, stale>>
    BY DEF Write, Together
  <1>2. ChannelTypeOK /\ ring \in [Segments -> Rings]
    BY DEF ChannelInv, ChannelTypeOK, Rings
  <1>3. s \in Segments /\ ring[s].made
    BY <1>1 DEF ChannelInv, ChannelEnds
  <1>4. k \in Slots /\ ring[s] \in Rings
    BY <1>2, <1>3 DEF Rings
  <1>5. /\ e.write = k /\ e.read = ring[s].read /\ e.made = ring[s].made
        /\ e.slot = [ring[s].slot EXCEPT ![k] = Torn]
    BY <1>4 DEF Rings
  <1>6. e.slot \in [Slots -> Contents] /\ e \in Rings
    BY <1>4, <1>5, NumbersAre DEF Rings
  <1>7. ring' = [ring EXCEPT ![s] = e]
    BY <1>1
  <1>8. /\ writer'.at = "copy" /\ writer'.seg = s /\ writer'.index = k
        /\ writer' \in [at : {"gone", "reset", "open", "copy"},
                        seg : 0..MaxSegments, index : Slots, copy : {0}]
    BY <1>1, <1>2, <1>4 DEF ChannelTypeOK
  <1> HIDE DEF e
  <1>9. Only(s, e)
    BY <1>2, <1>3, <1>6, <1>7, RingChanges
  <1> HIDE DEF k
  <1>10. reader' \in {reader, [reader EXCEPT !.copy = Torn]}
    BY <1>1
  <1>11. /\ reader'.at = reader.at /\ reader'.seg = reader.seg
         /\ reader'.index = reader.index /\ reader'.copy \in {reader.copy, Torn}
         /\ reader' \in [at : {"gone", "open", "copy", "store"},
                         seg : 0..MaxSegments, index : Slots, copy : Contents]
    BY <1>2, <1>10, NumbersAre DEF ChannelTypeOK
  <1>12. written \in 0..MaxPackets /\ written' \in 0..MaxPackets /\ written' = written + 1
    BY <1>1, <1>2, NumbersAre DEF ChannelTypeOK
  <1>12a. laps \in Nat /\ laps' \in 0..MaxPackets /\ laps' <= written'
    <2>1. laps \in 0..MaxPackets /\ laps <= written
      BY <1>2 DEF ChannelInv, ChannelNumbers, ChannelTypeOK
    <2>2. laps \in Nat /\ laps <= written /\ written \in Nat /\ written' <= MaxPackets
      BY <1>12, <2>1, NumbersAre
    <2>3. CASE laps' = laps
      BY <1>12, <2>2, <2>3, NumbersAre
    <2>4. CASE laps' = laps + 1
      BY <1>12, <2>2, <2>4, NumbersAre
    <2> QED
      BY <1>1, <2>3, <2>4
  <1> HIDE DEF s
  <1>13. ChannelTypeOK'
    BY <1>1, <1>2, <1>8, <1>9, <1>11, <1>12, <1>12a DEF ChannelTypeOK, Only, Rings
  <1>14. ChannelEnds'
    <2>1. ring'[s].write = k /\ ring'[s].made
      BY <1>3, <1>5, <1>9 DEF Only
    <2>2. reader'.at # "gone" => reader'.seg \in Segments
      BY <1>11 DEF ChannelInv, ChannelEnds
    <2> QED
      BY <1>3, <1>8, <2>1, <2>2 DEF ChannelEnds
  <1>15. ChannelNumbers'
    <2>1. \A t \in Segments, j \in Slots : ring'[t].slot[j] \in {ring[t].slot[j], Torn}
      BY <1>4, <1>5, <1>6, <1>9 DEF Only, Rings
    <2>2. \A t \in Segments, j \in Slots : ring[t].slot[j] \in Int
      BY <1>2, NumbersAre DEF Rings
    <2>3. reader.copy \in Int /\ last \in Int
      BY <1>2, NumbersAre DEF ChannelTypeOK
    <2>4. \A n \in Int : Seeable(n) => n < written'
      BY <1>12 DEF Seeable
    <2>5. Torn < written' /\ Torn \in Int
      BY <1>12 DEF Torn
    <2>6. \A n \in Int : n < written' => Seeable(n)'
      BY <1>12 DEF Seeable
    <2>7. \A t \in Segments, j \in Slots : ring'[t].slot[j] < written' /\ ring'[t].slot[j] \in Int
      BY <2>1, <2>2, <2>4, <2>5 DEF ChannelInv, ChannelNumbers
    <2>8. last' < written' /\ last' \in Int
      BY <1>1, <2>3, <2>4 DEF ChannelInv, ChannelNumbers
    <2>9. reader'.copy <= written' /\ written' >= 1
      <3>1. reader.copy <= written
        BY DEF ChannelInv, ChannelNumbers
      <3> QED
        BY <1>11, <1>12, <2>3, <2>5, <3>1
    <2> QED
      BY <1>12a, <2>6, <2>7, <2>8, <2>9 DEF ChannelNumbers
  <1>16. ChannelLaps'
    BY <1>11 DEF ChannelInv, ChannelLaps
  <1>17. ReaderOpen' /\ ReaderCopies' /\ ReaderStores'
    <2>1. reader.at # "gone" => reader.seg \in Segments /\ ring[reader.seg] \in Rings
      BY <1>2 DEF ChannelInv, ChannelEnds
    <2>2. reader.at # "gone" =>
              /\ ring'[reader.seg].write = ring[reader.seg].write
              /\ ring'[reader.seg].read = ring[reader.seg].read
              /\ \A j \in Slots :
                    \/ j = ring[reader.seg].write /\ reader.seg = s
                    \/ ring'[reader.seg].slot[j] = ring[reader.seg].slot[j]
      BY <1>4, <1>5, <1>9, <2>1 DEF Only, Rings, k
    <2>3. reader.at # "gone" /\ Capacity > 1 =>
              /\ LatestIndex(ring[reader.seg].write) \in Slots
              /\ LatestIndex(ring[reader.seg].write) # ring[reader.seg].write
      BY <2>1, RingIndex DEF Rings
    <2>4. reader.at # "gone" /\ Capacity > 1 => Newest(reader.seg)' = Newest(reader.seg)
      BY <1>11, <2>2, <2>3 DEF Newest
    <2>5. reader.at # "gone" /\ Capacity > 1 => (NextIsNew <=> NextIsNew')
      BY <1>1, <1>11, <2>2, <2>4 DEF NextIsNew
    <2>6. reader.at = "open" /\ Capacity = 1
            => ring'[reader.seg].write = ring'[reader.seg].read
      BY <2>1, <2>2 DEF Rings, Slots
    <2>7. Capacity > 1 \/ Capacity = 1
      BY ChannelAssumption
    <2>8. ReaderOpen'
      <3>1. reader.at = "open" => reader' = reader
        BY <1>1
      <3>2. CASE Capacity = 1
        BY <1>1, <2>6, <3>1, <3>2 DEF ReaderOpen, ChannelInv
      <3>3. CASE Capacity > 1
        BY <1>1, <1>11, <2>2, <2>4, <3>1, <3>3 DEF ReaderOpen, ChannelInv
      <3> QED
        BY <2>7, <3>2, <3>3
    <2>9. ReaderCopies'
      <3> SUFFICES ASSUME reader.at = "copy", stale < 2 PROVE ReaderCopies'
        BY <1>1, <1>11 DEF ReaderCopies
      <3>1. Capacity > 1 /\ NextIsNew
        BY DEF ChannelInv, ChannelLaps, ReaderCopies
      <3>2. NextIsNew'
        BY <2>5, <3>1
      <3>3. ASSUME NotLapped' PROVE WholeCopy'
        <4>1. NotLapped
          BY <1>1, <1>12a, <3>3, ChannelAssumption DEF NotLapped
        <4>2. WholeCopy
          BY <4>1 DEF ChannelInv, ReaderCopies
        <4>3. CASE reader.seg = s
          <5>1. laps' = laps + 1 /\ laps < Capacity - 1
            <6>1. laps' = laps + 1
              BY <1>1, <4>3
            <6>2. laps + 1 < Capacity
              BY <3>3, <6>1 DEF NotLapped
            <6> QED
              BY <1>12a, <6>1, <6>2, ChannelAssumption
          <5>2. /\ ring[reader.seg].write # LatestIndex(reader.index)
                /\ LatestIndex(reader.index) \in Slots
            BY <1>2, <5>1, WriterStaysClear, RingIndex DEF ChannelTypeOK
          <5>3. Copied' = Copied /\ reader' = reader
            BY <1>1, <1>8, <1>11, <2>2, <4>3, <5>2 DEF Copied, k
          <5>4. PICK n \in 0..laps : Ahead(ring[reader.seg].write, reader.index, n)
            BY <4>2 DEF WholeCopy
          <5>5. n \in 0..laps' /\ n < laps'
            BY <1>12a, <5>1, <5>4
          <5>6. \E m \in 0..laps' : /\ Ahead(ring'[reader'.seg].write, reader'.index, m)
                                    /\ Writing' => m < laps'
            BY <2>2, <5>3, <5>4, <5>5
          <5> QED
            BY <1>1, <2>2, <2>4, <3>1, <4>2, <5>3, <5>6 DEF WholeCopy, Ahead
        <4>4. CASE reader.seg # s
          <5>1. reader' = reader /\ laps' = laps
            BY <1>1, <4>4
          <5>2. Copied' = Copied
            <6>1. ring'[reader.seg] = ring[reader.seg]
              BY <1>9, <2>1, <4>4 DEF Only
            <6> QED
              BY <5>1, <6>1 DEF Copied
          <5>3. ~Writing'
            BY <1>8, <4>4, <5>1 DEF Writing, Together
          <5> QED
            BY <1>1, <2>2, <2>4, <3>1, <4>2, <5>1, <5>2, <5>3 DEF WholeCopy, Ahead
        <4> QED
          BY <4>3, <4>4
      <3> QED
        BY <3>2, <3>3 DEF ReaderCopies
    <2>10. ReaderStores'
      <3> SUFFICES ASSUME reader.at = "store", stale < 2 PROVE ReaderStores'
        BY <1>1, <1>11 DEF ReaderStores
      <3>1. reader' = reader /\ laps' = laps /\ Capacity > 1 /\ NextIsNew
        BY <1>1 DEF ChannelInv, ChannelLaps, ReaderStores
      <3>2. NextIsNew'
        BY <2>5, <3>1
      <3>3. ASSUME NotLapped' PROVE WholeResult'
        <4>1. WholeResult
          BY <3>1, <3>3 DEF ChannelInv, ReaderStores, NotLapped
        <4>2. reader.copy \in Int
          BY <1>2, NumbersAre DEF ChannelTypeOK
        <4>3. Seeable(reader.copy)'
          BY <1>8, <1>12, <3>1, <4>1, <4>2 DEF WholeResult, Seeable
        <4> QED
          BY <1>1, <2>2, <2>4, <3>1, <4>1, <4>3 DEF WholeResult
      <3> QED
        BY <3>2, <3>3 DEF ReaderStores
    <2> QED
      BY <2>8, <2>9, <2>10
  <1> QED
    BY <1>13, <1>14, <1>15, <1>16, <1>17 DEF ChannelInv

LEMMA PacketIsPublished ==
    ASSUME ChannelInv, Publish
    PROVE  ChannelInv'
  <1> DEFINE s == writer.seg
             k == writer.index
             e == [ring[s] EXCEPT !.slot[k] = written, !.write = NextIndex(k)]
  <1>1. /\ writer.at = "copy" /\ writer' = [writer EXCEPT !.at = "open"]
        /\ ring' = [ring EXCEPT ![s].slot[k] = written, ![s].write = NextIndex(k)]
        /\ UNCHANGED <<linked, segments, closing, reader, written, starts, laps,
                       last, left, stale>>
    BY DEF Publish
  <1>2. ChannelTypeOK /\ ring \in [Segments -> Rings]
    BY DEF ChannelInv, ChannelTypeOK, Rings
  <1>3. s \in Segments /\ ring[s].made /\ ring[s].write = k
    BY <1>1 DEF ChannelInv, ChannelEnds
  <1>4. /\ k \in Slots /\ ring[s] \in Rings /\ NextIndex(k) \in Slots
        /\ LatestIndex(NextIndex(k)) = k
    BY <1>2, <1>3, RingIndex DEF Rings
  <1>5. written \in 0..MaxPackets /\ written \in Contents /\ written \in Int
    BY <1>2, NumbersAre DEF ChannelTypeOK
  <1>6. /\ e.write = NextIndex(k) /\ e.read = ring[s].read /\ e.made = ring[s].made
        /\ e.slot = [ring[s].slot EXCEPT ![k] = written]
    BY <1>4 DEF Rings
  <1>7. e.slot \in [Slots -> Contents] /\ e \in Rings
    BY <1>4, <1>5, <1>6 DEF Rings
  <1>8. ring' = [ring EXCEPT ![s] = e]
    <2> HIDE DEF s, k
    <2> QED
      BY <1>1, <1>2, <1>3 DEF Rings
  <1>9. /\ writer'.at = "open" /\ writer'.seg = s /\ writer'.index = k
        /\ writer' \in [at : {"gone", "reset", "open", "copy"},
                        seg : 0..MaxSegments, index : Slots, copy : {0}]
    BY <1>1, <1>2 DEF ChannelTypeOK
  <1> HIDE DEF e
  <1>10. Only(s, e)
    BY <1>2, <1>3, <1>7, <1>8, RingChanges
  <1>11. /\ last \in Int /\ reader.copy \in Int /\ last < written
         /\ reader.copy <= written /\ laps <= written
    BY <1>1, <1>2, NumbersAre DEF ChannelInv, ChannelNumbers, Seeable, ChannelTypeOK
  <1> HIDE DEF s, k
  <1>13. ChannelTypeOK'
    BY <1>1, <1>2, <1>9, <1>10 DEF ChannelTypeOK, Only, Rings
  <1>14. ChannelEnds'
    <2>1. ring'[s].made
      BY <1>3, <1>6, <1>10 DEF Only
    <2>2. reader'.at # "gone" => reader'.seg \in Segments
      BY <1>1 DEF ChannelInv, ChannelEnds
    <2> QED
      BY <1>3, <1>9, <2>1, <2>2 DEF ChannelEnds
  <1>15. ChannelNumbers'
    <2>1. \A t \in Segments, j \in Slots : ring'[t].slot[j] \in {ring[t].slot[j], written}
      BY <1>4, <1>6, <1>7, <1>10 DEF Only, Rings
    <2>2. \A t \in Segments, j \in Slots : ring[t].slot[j] \in Int /\ ring[t].slot[j] < written
      BY <1>1, <1>2, NumbersAre DEF Rings, ChannelInv, ChannelNumbers, Seeable
    <2>3. \A t \in Segments, j \in Slots : ring'[t].slot[j] <= written
      BY <1>5, <2>1, <2>2
    <2>4. \A n \in Int : n <= written => Seeable(n)'
      BY <1>1, <1>9 DEF Seeable
    <2>5. \A t \in Segments, j \in Slots : ring'[t].slot[j] \in Int
      BY <1>5, <2>1, <2>2
    <2>6. last' \in Int /\ last' <= written
      BY <1>1, <1>5, <1>11
    <2> QED
      BY <1>1, <1>9, <1>11, <2>3, <2>4, <2>5, <2>6 DEF ChannelNumbers
  <1>16. ChannelLaps'
    BY <1>1 DEF ChannelInv, ChannelLaps
  <1>17. ReaderOpen' /\ ReaderCopies' /\ ReaderStores'
    <2>0. reader.at # "gone" => reader.seg \in Segments /\ ring[reader.seg] \in Rings
      BY <1>2 DEF ChannelInv, ChannelEnds
    <2>1. CASE reader.at = "gone"
      BY <1>1, <2>1 DEF ReaderOpen, ReaderCopies, ReaderStores
    <2>2. CASE reader.at # "gone" /\ reader.seg # s
      <3>1. ring'[reader.seg] = ring[reader.seg]
        BY <1>10, <2>0, <2>2 DEF Only
      <3>2. ~Writing'
        BY <1>9 DEF Writing
      <3>3. \A n \in Int : Seeable(n) => Seeable(n)'
        BY <1>1, <1>9 DEF Seeable
      <3> QED
        BY <1>1, <1>11, <3>1, <3>2, <3>3, ReaderKeeps DEF ChannelInv
    <2>3. CASE reader.at # "gone" /\ reader.seg = s
      <3>1. /\ ring'[s].write = NextIndex(k)
            /\ ring'[s].slot[k] = written
            /\ \A j \in Slots : j # k => ring'[s].slot[j] = ring[s].slot[j]
        BY <1>4, <1>6, <1>10 DEF Only, Rings
      <3>2. Newest(reader.seg)' = written
        BY <1>1, <1>4, <2>3, <3>1 DEF Newest
      <3>3. NextIsNew'
        BY <1>1, <1>11, <3>2 DEF NextIsNew
      <3>4. ReaderOpen'
        BY <1>1, <1>11, <3>2 DEF ReaderOpen, ChannelInv
      <3>5. ReaderStores'
        <4> SUFFICES ASSUME reader.at = "store", stale < 2, NotLapped
                     PROVE  WholeResult'
          BY <1>1, <3>3 DEF ReaderStores, NotLapped
        <4>1. WholeResult
          BY DEF ChannelInv, ReaderStores
        <4>2. reader.copy < written
          BY <1>1, <4>1 DEF WholeResult, Seeable
        <4> QED
          BY <1>1, <1>5, <1>9, <1>11, <3>2, <4>1, <4>2 DEF WholeResult, Seeable
      <3>6. ReaderCopies'
        <4> SUFFICES ASSUME reader.at = "copy", stale < 2, NotLapped
                     PROVE  WholeCopy'
          BY <1>1, <3>3 DEF ReaderCopies, NotLapped
        <4>0. WholeCopy
          BY DEF ChannelInv, ReaderCopies
        <4>1. PICK n \in 0..laps : Ahead(k, reader.index, n) /\ n < laps
          BY <1>1, <1>3, <2>3, <4>0 DEF WholeCopy, Writing, Together, s
        <4>2. /\ laps \in Nat /\ laps < Capacity /\ Capacity \in Nat
              /\ k \in 0..(Capacity - 1) /\ reader.index \in 0..(Capacity - 1)
          BY <1>2, <1>4, ChannelAssumption DEF NotLapped, Slots, ChannelTypeOK
        <4>3. n \in Nat /\ n + 1 \in 0..laps /\ n + 1 < Capacity
          BY <4>1, <4>2
        <4>4. k = reader.index + n \/ k = reader.index + n - Capacity
          BY <4>1 DEF Ahead
        <4>5. LatestIndex(reader.index)
                = IF reader.index = 0 THEN Capacity - 1 ELSE reader.index - 1
          BY DEF LatestIndex
        <4>6. LatestIndex(reader.index) # k /\ LatestIndex(reader.index) \in Slots
          <5>1. LatestIndex(reader.index) # k
            BY <4>2, <4>3, <4>4, <4>5
          <5> QED
            BY <1>2, <5>1, RingIndex DEF ChannelTypeOK
        <4>7. Copied' = Copied
          BY <1>1, <2>3, <3>1, <4>6 DEF Copied
        <4>8. Copied < written
          BY <1>1, <2>0, <2>3, <4>6 DEF Copied, ChannelInv, ChannelNumbers, Seeable
        <4>9. Ahead(NextIndex(k), reader.index, n + 1)
          <5>1. NextIndex(k) = IF k = Capacity - 1 THEN 0 ELSE k + 1
            BY <1>4, RingIndex
          <5> QED
            BY <4>2, <4>3, <4>4, <5>1 DEF Ahead
        <4>10. \E m \in 0..laps' : /\ Ahead(ring'[reader'.seg].write, reader'.index, m)
                                   /\ Writing' => m < laps'
          <5>1. ~Writing'
            BY <1>9 DEF Writing
          <5>2. Ahead(ring'[reader'.seg].write, reader'.index, n + 1)
            BY <1>1, <2>3, <3>1, <4>9
          <5>3. n + 1 \in 0..laps'
            BY <1>1, <4>3
          <5> QED
            BY <5>1, <5>2, <5>3
        <4> QED
          BY <1>1, <1>5, <3>2, <4>0, <4>7, <4>8, <4>10 DEF WholeCopy, Ahead
      <3> QED
        BY <3>4, <3>5, <3>6
    <2> QED
      BY <2>1, <2>2, <2>3
  <1> QED
    BY <1>13, <1>14, <1>15, <1>16, <1>17 DEF ChannelInv

LEMMA ReaderReads ==
    ASSUME ChannelInv, Read \/ Copy \/ Return
    PROVE  ChannelInv'
  <1>1. ChannelTypeOK /\ ring \in [Segments -> Rings]
    BY DEF ChannelInv, ChannelTypeOK, Rings
  <1>2. reader.at # "gone" => reader.seg \in Segments /\ ring[reader.seg] \in Rings
    BY <1>1 DEF ChannelInv, ChannelEnds
  <1>3. 0 \in Slots /\ 0 \in Contents /\ 0 \in 0..MaxPackets
    BY NumbersAre, ChannelAssumption DEF Slots
  <1>4. /\ reader.copy \in Contents /\ reader.copy \in Int /\ last \in Int /\ last >= 0
        /\ Seeable(0) /\ reader.index \in Slots /\ stale \in 0..2
        /\ last \in 0..MaxPackets /\ written \in 0..MaxPackets
    <2>1. /\ reader.copy \in Contents /\ last \in 0..MaxPackets
          /\ written \in 0..MaxPackets /\ reader.index \in Slots /\ stale \in 0..2
      BY <1>1 DEF ChannelTypeOK
    <2>2. reader.copy \in Int /\ last \in Int /\ last >= 0
      BY <2>1 DEF Contents, Torn
    <2>3. Seeable(last)
      BY DEF ChannelInv, ChannelNumbers
    <2>4. Seeable(0)
      BY <2>1, <2>2, <2>3, NumbersAre DEF Seeable
    <2> QED
      BY <2>1, <2>2, <2>4
  <1>5. reader \in [at : {"gone", "open", "copy", "store"},
                    seg : 0..MaxSegments, index : Slots, copy : Contents]
    BY <1>1 DEF ChannelTypeOK
  <1>6. CASE Read
    <2> DEFINE w == ring[reader.seg].write
    <2>1. /\ reader.at = "open" /\ w # ring[reader.seg].read
          /\ reader' = [reader EXCEPT !.at = "copy", !.index = w]
          /\ laps' = (IF Writing THEN 1 ELSE 0)
          /\ UNCHANGED <<linked, segments, ring, writer, closing, written, starts,
                         last, left, stale>>
      BY <1>6 DEF Read, Seen, Writing
    <2>1a. Capacity > 1
      <3>1. ring[reader.seg].write \in Slots /\ ring[reader.seg].read \in Slots
        BY <1>2, <2>1 DEF Rings
      <3> QED
        BY <2>1, <3>1, ChannelAssumption DEF Slots
    <2>1b. laps' \in 0..MaxPackets /\ laps' <= written
      BY <1>4, <2>1, NumbersAre DEF ChannelInv, ChannelNumbers, Writing
    <2>2. w \in Slots
      BY <1>2, <2>1 DEF Rings
    <2>3. /\ reader'.at = "copy" /\ reader'.index = w /\ reader'.seg = reader.seg
          /\ reader'.copy = reader.copy
          /\ reader' \in [at : {"gone", "open", "copy", "store"},
                          seg : 0..MaxSegments, index : Slots, copy : Contents]
      BY <1>5, <2>1, <2>2
    <2>4. Copied' = Newest(reader.seg) /\ ring'[reader'.seg].write = w
      BY <2>1, <2>3 DEF Copied, Newest
    <2>5. reader.copy = 0 /\ (stale = 0 => Newest(reader.seg) > last)
      BY <2>1 DEF ChannelInv, ReaderOpen
    <2>6. Ahead(w, w, 0) /\ 0 \in 0..laps' /\ (Writing' => 0 < laps')
      <3>1. w + 0 = w
        BY <2>2 DEF Slots
      <3>2. Writing' <=> Writing
        BY <2>1, <2>3 DEF Writing, Together
      <3> QED
        BY <2>1, <3>1, <3>2 DEF Ahead
    <2> HIDE DEF w
    <2>7. ReaderOpen' /\ ReaderCopies' /\ ReaderStores'
      <3>1. ReaderOpen' /\ ReaderStores'
        BY <2>3 DEF ReaderOpen, ReaderStores
      <3>2. NextIsNew'
        BY <2>3, <2>4 DEF NextIsNew
      <3>3. WholeCopy'
        <4>1. \E n \in 0..laps' : /\ Ahead(ring'[reader'.seg].write, reader'.index, n)
                                  /\ Writing' => n < laps'
          BY <2>3, <2>4, <2>6
        <4> QED
          BY <2>1, <2>3, <2>4, <2>5, <4>1 DEF WholeCopy, Ahead
      <3> QED
        BY <3>1, <3>2, <3>3 DEF ReaderCopies
    <2>8. ChannelTypeOK'
      BY <1>1, <2>1, <2>1b, <2>3 DEF ChannelTypeOK
    <2>9. ChannelEnds'
      BY <1>2, <2>1, <2>3 DEF ChannelInv, ChannelEnds
    <2>10. ChannelNumbers'
      BY <2>1, <2>1b, <2>3 DEF ChannelInv, ChannelNumbers, Seeable
    <2>11. ChannelLaps'
      BY <2>1a DEF ChannelLaps
    <2> QED
      BY <2>7, <2>8, <2>9, <2>10, <2>11 DEF ChannelInv
  <1>7. CASE Copy
    <2>1. /\ reader.at = "copy"
          /\ UNCHANGED <<linked, segments, ring, writer, closing, written, starts,
                         laps, last, left, stale>>
      BY <1>7 DEF Copy
    <2>2. PICK copy \in CopyResults : reader' = [reader EXCEPT !.at = "store", !.copy = copy]
      BY <1>7 DEF Copy
    <2>3. LatestIndex(reader.index) \in Slots
      BY <1>4, RingIndex
    <2>4. Copied \in Contents /\ Seeable(Copied)
      BY <1>2, <2>1, <2>3 DEF Copied, Rings, ChannelInv, ChannelNumbers
    <2>5. copy \in IF reader.copy = Torn THEN {Torn, Copied, written} ELSE {Copied}
      BY <2>2 DEF CopyResults, Copied
    <2> HIDE DEF Copied
    <2>6. copy \in Contents /\ copy <= written
      <3>1. Torn <= written /\ Copied <= written /\ written \in Contents
        BY <1>4, <2>4, NumbersAre DEF Seeable, Torn
      <3> QED
        BY <1>4, <2>4, <2>5, <3>1, NumbersAre
    <2>7. /\ reader'.at = "store" /\ reader'.seg = reader.seg
          /\ reader'.index = reader.index /\ reader'.copy = copy
          /\ reader' \in [at : {"gone", "open", "copy", "store"},
                          seg : 0..MaxSegments, index : Slots, copy : Contents]
      BY <1>5, <2>2, <2>6
    <2>8. ReaderOpen' /\ ReaderCopies'
      BY <2>7 DEF ReaderOpen, ReaderCopies
    <2>9. ReaderStores'
      <3> SUFFICES ASSUME stale < 2 PROVE ReaderStores'
        BY <2>1 DEF ReaderStores
      <3>1. Newest(reader.seg)' = Newest(reader.seg)
        BY <2>1, <2>7 DEF Newest
      <3>2. NextIsNew'
        BY <2>1, <2>7, <3>1 DEF ChannelInv, ReaderCopies, NextIsNew
      <3>3. ASSUME NotLapped PROVE WholeResult'
        <4>1. WholeCopy
          BY <2>1, <3>3 DEF ChannelInv, ReaderCopies
        <4>2. copy = Copied
          BY <2>5, <4>1 DEF WholeCopy, Torn
        <4>3. Seeable(reader.copy)'
          BY <2>1, <2>4, <2>7, <4>2 DEF Seeable
        <4> QED
          BY <2>1, <2>7, <3>1, <4>1, <4>2, <4>3 DEF WholeCopy, WholeResult
      <3> QED
        BY <2>1, <3>2, <3>3 DEF ReaderStores, NotLapped
    <2>10. ChannelTypeOK'
      BY <1>1, <2>1, <2>7 DEF ChannelTypeOK
    <2>11. ChannelEnds'
      BY <1>2, <2>1, <2>7 DEF ChannelInv, ChannelEnds
    <2>12. ChannelNumbers'
      BY <2>1, <2>6, <2>7 DEF ChannelInv, ChannelNumbers, Seeable
    <2>13. ChannelLaps'
      BY <2>1 DEF ChannelInv, ChannelLaps
    <2> QED
      BY <2>8, <2>9, <2>10, <2>11, <2>12, <2>13 DEF ChannelInv
  <1>8. CASE Return
    <2> DEFINE s == reader.seg
               e == [ring[s] EXCEPT !.read = reader.index]
    <2>1. /\ reader.at = "store"
          /\ reader' = [reader EXCEPT !.at = "open", !.index = 0, !.copy = 0]
          /\ ring' = [ring EXCEPT ![s].read = reader.index]
          /\ last' = (IF stale < 2 /\ NotLapped /\ reader.copy > last
                      THEN reader.copy ELSE last)
          /\ laps' = 0
          /\ stale' = (IF stale > 0 THEN stale - 1 ELSE 0)
          /\ UNCHANGED <<linked, segments, writer, closing, written, starts, left>>
      BY <1>8 DEF Return
    <2>2. s \in Segments /\ ring[s] \in Rings
      BY <1>2, <2>1
    <2>3. /\ e \in Rings /\ e.write = ring[s].write /\ e.slot = ring[s].slot
          /\ e.made = ring[s].made /\ e.read = reader.index
      BY <1>4, <2>2 DEF Rings
    <2>4. ring' = [ring EXCEPT ![s] = e]
      BY <2>1
    <2> HIDE DEF e
    <2>5. Only(s, e)
      BY <1>1, <2>2, <2>3, <2>4, RingChanges
    <2>6. /\ reader'.at = "open" /\ reader'.seg = s /\ reader'.copy = 0
          /\ reader' \in [at : {"gone", "open", "copy", "store"},
                          seg : 0..MaxSegments, index : Slots, copy : Contents]
      BY <1>3, <1>5, <2>1
    <2> HIDE DEF s
    <2>7. last' \in 0..MaxPackets /\ Seeable(last')
      <3>1. CASE stale < 2 /\ NotLapped /\ reader.copy > last
        <4>1. reader.copy \in 0..MaxPackets
          BY <1>4, <3>1 DEF Contents, Torn
        <4>2. Seeable(reader.copy)
          BY <2>1, <3>1 DEF ChannelInv, ReaderStores, WholeResult
        <4> QED
          BY <2>1, <3>1, <4>1, <4>2
      <3>2. CASE ~(stale < 2 /\ NotLapped /\ reader.copy > last)
        BY <1>4, <2>1, <3>2 DEF ChannelInv, ChannelNumbers
      <3> QED
        BY <3>1, <3>2
    <2>8. stale' \in 0..2 /\ (stale' = 0 => stale < 2)
      BY <1>4, <2>1
    <2>9. ReaderCopies' /\ ReaderStores'
      BY <2>6 DEF ReaderCopies, ReaderStores
    <2>10. ReaderOpen'
      <3> SUFFICES ASSUME stale' = 0
                   PROVE  ring'[s].write = ring'[s].read \/ Newest(reader.seg)' > last'
        BY <2>6 DEF ReaderOpen
      <3>1. stale < 2 /\ ring'[s] = e
        BY <2>5, <2>8 DEF Only
      <3>2. Newest(reader.seg)' = Newest(s)
        BY <2>3, <2>6, <3>1 DEF Newest
      <3>3. ring[s].write = reader.index \/ Newest(s) > last
        BY <2>1, <3>1 DEF ChannelInv, ReaderStores, NextIsNew, s
      <3>4. NotLapped => ring[s].write = reader.index \/ Newest(s) > reader.copy
        BY <2>1, <3>1 DEF ChannelInv, ReaderStores, WholeResult, s
      <3>5. ring[s].write = reader.index \/ Newest(s) > last'
        BY <2>1, <3>3, <3>4
      <3> QED
        BY <2>3, <3>1, <3>2, <3>5
    <2>11. ChannelTypeOK'
      BY <1>1, <1>3, <2>1, <2>5, <2>6, <2>7, <2>8 DEF ChannelTypeOK, Only, Rings
    <2>12. ChannelEnds'
      BY <2>1, <2>2, <2>3, <2>5, <2>6 DEF ChannelInv, ChannelEnds, Only
    <2>13. ChannelNumbers'
      <3>1. \A t \in Segments : ring'[t].slot = ring[t].slot
        BY <2>3, <2>5 DEF Only
      <3> QED
        BY <1>4, <2>1, <2>6, <2>7, <3>1 DEF ChannelInv, ChannelNumbers, Seeable
    <2>14. ChannelLaps'
      BY <2>6 DEF ChannelLaps
    <2> QED
      BY <2>9, <2>10, <2>11, <2>12, <2>13, <2>14 DEF ChannelInv
  <1> QED
    BY <1>6, <1>7, <1>8

(***************************************************************************)
(* For every capacity, any number of packets, and starts and ends of both  *)
(* processes at any point of Write, Read and Close: a call of Read that    *)
(* the writer does not lap, and under which none starts, hands out a whole *)
(* packet, newer than those of all such calls before.                      *)
(***************************************************************************)
THEOREM ReadsOnlyNewer == ChannelSpec => []OnlyNewer
  <1>1. ChannelInv /\ [ChannelNext]_channelVars => ChannelInv'
    <2> SUFFICES ASSUME ChannelInv, [ChannelNext]_channelVars PROVE ChannelInv'
      OBVIOUS
    <2>1. CASE UNCHANGED channelVars
      BY <2>1 DEF channelVars, ChannelInv, ChannelTypeOK, ChannelEnds,
         ChannelNumbers, Seeable, ChannelLaps, ReaderOpen, ReaderCopies,
         ReaderStores, Newest, Copied, Ahead, NextIsNew, WholeCopy, WholeResult,
         Writing, Together, NotLapped
    <2> QED
      BY <2>1, WriterStarts, WriterResets, ProcessEnds, ReaderStarts,
         PacketIsWritten, PacketIsPublished, ReaderReads DEF ChannelNext
  <1>2. ChannelInv => OnlyNewer
    BY DEF ChannelInv, ReaderStores, WholeResult, OnlyNewer, Undisturbed
  <1> QED
    BY <1>1, <1>2, ChannelStarts, PTL DEF ChannelSpec
=============================================================================
