----------------------------- MODULE SampleWorkers -----------------------------
(***************************************************************************)
(* The two hand-overs from a real-time thread to a background one: a       *)
(* SnapshotWorker keeps up to Capacity samples and drops what does not     *)
(* fit, a LatestSampleWorker keeps one, which a newer one replaces. The    *)
(* publisher never waits: when it cannot have the mutex at once, the       *)
(* sample is dropped.                                                      *)
(*                                                                         *)
(* A step of the worker is what it does while it holds the mutex, and the  *)
(* call of the consumer. A sample is nothing but its place in a count.     *)
(***************************************************************************)
EXTENDS Integers

CONSTANTS
    Capacities,  \* capacities of a SnapshotWorker that are considered
    MaxSamples   \* bound: calls of Publish

ASSUME WorkerAssumption ==
    Capacities \subseteq Nat \ {0} /\ MaxSamples \in Nat

VARIABLES
    keeps,     \* "all": SnapshotWorker, "latest": LatestSampleWorker
    capacity,  \* Capacity, 1 for the latest sample
    size,      \* samples stored: size_, or pending_
    calls,     \* history: calls of Publish
    consumed,  \* history: calls of the consumer that returned
    dropped,   \* dropped_
    stopped,   \* stopped_, stopping_
    failed,    \* failed_
    thread     \* worker: "wait", "woken", "consume", "ended"

workerVars == <<keeps, capacity, size, calls, consumed, dropped, stopped,
                failed, thread>>

WorkersInit ==
    /\ \/ keeps = "all" /\ capacity \in Capacities
       \/ keeps = "latest" /\ capacity = 1
    /\ size = 0 /\ calls = 0 /\ consumed = 0 /\ dropped = 0
    /\ stopped = FALSE /\ failed = FALSE /\ thread = "woken"

Woken == IF thread = "wait" THEN "woken" ELSE thread

\* What is replaced is counted as dropped as well.
VariantUncounted == 0

Replaced == IF keeps = "latest" /\ size = 1 THEN 1 ELSE 0

\* Publish: the mutex may be taken by the worker, or by Stop.
PublishSample(locked) ==
    /\ calls < MaxSamples
    /\ calls' = calls + 1
    /\ IF locked /\ ~stopped /\ ~failed /\ (keeps = "all" => size < capacity)
       THEN /\ size' = IF keeps = "latest" THEN 1 ELSE size + 1
            /\ dropped' = dropped + Replaced
            /\ thread' = Woken
       ELSE dropped' = dropped + 1 /\ UNCHANGED <<size, thread>>
    /\ UNCHANGED <<keeps, capacity, consumed, stopped, failed>>

\* Stop, before it joins the worker.
Stop ==
    /\ stopped' = TRUE /\ thread' = Woken
    /\ UNCHANGED <<keeps, capacity, size, calls, consumed, dropped, failed>>

\* Run: waits for a sample or for Stop, and ends when nothing is left.
VariantWaitsForSample == IF size > 0 THEN "consume" ELSE "wait"

NextThread ==
    IF size > 0 THEN "consume" ELSE IF stopped THEN "ended" ELSE "wait"

TakeSample ==
    /\ thread = "woken"
    /\ thread' = NextThread
    /\ size' = IF NextThread = "consume" THEN size - 1 ELSE size
    /\ UNCHANGED <<keeps, capacity, calls, consumed, dropped, stopped, failed>>

\* An exception is counted; it also ends the worker of the latest sample.
Consume(throws) ==
    /\ thread = "consume"
    /\ consumed' = IF throws THEN consumed ELSE consumed + 1
    /\ dropped' = IF throws THEN dropped + 1 ELSE dropped
    /\ failed' = (throws /\ keeps = "latest")
    /\ thread' = IF failed' THEN "ended" ELSE "woken"
    /\ UNCHANGED <<keeps, capacity, size, calls, stopped>>

WorkerSteps == TakeSample \/ \E throws \in BOOLEAN : Consume(throws)

WorkersNext ==
    \/ \E locked \in BOOLEAN : PublishSample(locked)
    \/ Stop \/ WorkerSteps

WorkersSpec == WorkersInit /\ [][WorkersNext]_workerVars

-----------------------------------------------------------------------------
(* Properties                                                              *)

\* Stop returns, whatever the consumer throws and whoever publishes meanwhile,
\* and nothing that was accepted is left behind: what was not consumed counts
\* as dropped, which is what tells a reader of the log that rows are missing.
\* Only a sample that is stored while the consumer of a LatestSampleWorker
\* throws is neither.
StopDrains ==
    stopped ~> thread = "ended" /\ (failed \/ calls = consumed + dropped)

\* Every sample is accounted for: stored, in the consumer's hands, consumed
\* or counted as dropped, and a worker that ends has nothing left, unless its
\* consumer failed.
SamplesAreAccounted ==
    /\ calls = consumed + dropped + size + (IF thread = "consume" THEN 1 ELSE 0)
    /\ thread = "ended" /\ ~failed => size = 0
=============================================================================
