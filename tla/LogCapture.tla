------------------------------ MODULE LogCapture ------------------------------
(***************************************************************************)
(* The way of a fault trigger through the runtime logger                   *)
(* (runtime_logger.cpp): the queue, the spare slots and the pending flag   *)
(* that a real-time thread may use without waiting, the log writer that    *)
(* takes from all three, the capture that a trigger opens, and the marker  *)
(* that is to say that all of the capture is on the disk.                  *)
(*                                                                         *)
(* One trigger is watched: it is followed wherever it is stored. File      *)
(* operations may fail, another process may hold the lock on the request   *)
(* file, the power may fail.                                               *)
(*                                                                         *)
(* Abstracted: rows and texts; the storage quota is a decision that may go *)
(* either way; a capture is one file; times are whether they have passed.  *)
(***************************************************************************)
EXTENDS Integers, Sequences

CONSTANTS
    QueueCapacity,  \* logging.queue_capacity
    SpareSlots      \* critical_

ASSUME LoggerAssumption ==
    QueueCapacity \in Nat \ {0} /\ SpareSlots \subseteq Nat

VARIABLES
    session,    \* logger: "off", "on", "stopping"
    queue,      \* queue_
    spare,      \* critical_: per slot free, filling or ready, and its trigger
    pending,    \* snapshot_pending_: "no", or the trigger it stands for
    logWriter,     \* log_writer: see Phases
    item,       \* what it has taken from the queue, "end" in the last round
    scan,       \* spare slots it has yet to look at
    capture,    \* capture_ is open
    writeFailed,\* capture_write_failed_
    cooling,    \* a trigger came less than trigger_cooldown_s ago
    due,        \* capture_deadline_ has passed
    data,       \* history: the rows of the last capture, see Fates
    marker,     \* its .complete: "no", "pending", "yes"
    watched     \* history: the watched trigger: "no", "out", "handled", "past"

loggerVars == <<session, queue, spare, pending, logWriter, item, scan, capture,
                writeFailed, cooling, due, data, marker, watched>>

captureVars == <<capture, writeFailed, due, data, marker>>

Triggers == {"fault", "watched"}
Phases == {"none", "wait", "drain", "finish", "mark", "retry", "record"}

\* unsure: a failed fsync may have dropped rows, which no later one reports.
Fates == {"saved", "buffered", "unsure", "lost"}

FreeSlot == [at |-> "free", what |-> "none"]

LoggerTypeOK ==
    /\ session \in {"off", "on", "stopping"}
    /\ queue \in Seq({"row"} \cup Triggers) /\ Len(queue) <= QueueCapacity
    /\ \A s \in SpareSlots : \/ spare[s] = FreeSlot
                            \/ spare[s] \in [at : {"filling", "ready"},
                                             what : Triggers]
    /\ pending \in {"no"} \cup Triggers
    /\ logWriter \in Phases /\ scan \subseteq SpareSlots
    /\ item \in {"none", "row", "end"} \cup Triggers
    /\ <<capture, writeFailed, cooling, due>>
            \in BOOLEAN \X BOOLEAN \X BOOLEAN \X BOOLEAN
    /\ data \in Fates /\ marker \in {"no", "pending", "yes"}
    /\ watched \in {"no", "out", "handled", "past"}

LoggerInit ==
    /\ session = "off" /\ queue = <<>> /\ pending = "no"
    /\ spare = [s \in SpareSlots |-> FreeSlot]
    /\ logWriter = "none" /\ item = "none" /\ scan = {}
    /\ capture = FALSE /\ writeFailed = FALSE /\ cooling = FALSE /\ due = FALSE
    /\ data = "saved" /\ marker = "no" /\ watched = "no"

-----------------------------------------------------------------------------
\* Initialize and the first half of Shutdown. The spare slots are kept; a
\* trigger of the last session that was only pending is not.
StartSession ==
    /\ session = "off"
    /\ session' = "on" /\ logWriter' = "wait"
    /\ pending' = "no" /\ cooling' = FALSE
    /\ watched' = IF watched = "out" THEN "past" ELSE watched
    /\ UNCHANGED <<queue, spare, item, scan, captureVars>>

Shutdown ==
    /\ session = "on"
    /\ session' = "stopping"
    /\ UNCHANGED <<queue, spare, pending, logWriter, item, scan, cooling,
                   captureVars, watched>>

\* WriteCsv: a formatter waits for the mutex, and drops what finds no place.
WriteRow ==
    /\ session = "on" /\ Len(queue) < QueueCapacity
    /\ queue' = Append(queue, "row")
    /\ UNCHANGED <<session, spare, pending, logWriter, item, scan, cooling,
                   captureVars, watched>>

\* The flag holds one trigger; the watched one stands for all it is merged with.
Pended(trigger) == IF pending = "watched" THEN pending ELSE trigger

\* PreserveCritical: a free slot, or the pending flag.
FreeSlots == {s \in SpareSlots : spare[s].at = "free"}

VariantFlagLost(trigger) == UNCHANGED <<spare, pending>>

PreserveCritical(trigger) ==
    \/ /\ \E s \in FreeSlots :
            spare' = [spare EXCEPT ![s] = [at |-> "filling", what |-> trigger]]
       /\ UNCHANGED pending
    \/ /\ FreeSlots = {}
       /\ pending' = Pended(trigger)
       /\ UNCHANGED spare

\* Trigger and WriteLog of an error, by a thread that must not wait: the mutex
\* may be taken. A logger that has stopped takes nothing but for the slots.
Enqueue(trigger, locked) ==
    /\ session # "off"
    /\ locked => session = "on"
    /\ trigger = "watched" => watched = "no"
    /\ IF locked /\ Len(queue) < QueueCapacity
       THEN queue' = Append(queue, trigger) /\ UNCHANGED <<spare, pending>>
       ELSE PreserveCritical(trigger) /\ UNCHANGED queue
    /\ watched' = IF trigger = "watched" THEN "out" ELSE watched
    /\ UNCHANGED <<session, logWriter, item, scan, cooling, captureVars>>

FillSlot(s) ==
    /\ spare[s].at = "filling"
    /\ spare' = [spare EXCEPT ![s].at = "ready"]
    /\ UNCHANGED <<session, queue, pending, logWriter, item, scan, cooling,
                   captureVars, watched>>

-----------------------------------------------------------------------------
(* The log writer                                                          *)

\* Worker: takes an item, or none after 100 ms. Once stopped and empty it makes
\* a last round.
Take ==
    /\ logWriter = "wait"
    /\ logWriter' = "drain" /\ scan' = SpareSlots
    /\ item' = IF queue # <<>> THEN Head(queue)
               ELSE IF session = "stopping" THEN "end" ELSE "none"
    /\ queue' = IF queue # <<>> THEN Tail(queue) ELSE queue
    /\ UNCHANGED <<session, spare, pending, cooling, captureVars, watched>>

Handled(trigger) == watched' = IF trigger = "watched" THEN "handled" ELSE watched

\* StartCapture: nothing while a capture is open; the quota or the directory
\* may refuse; the first rows may not be written, or not be synchronised.
StartCapture(result) ==
    IF capture \/ result = "refused" THEN UNCHANGED captureVars
    ELSE /\ capture' = TRUE /\ due' = FALSE /\ marker' = "no"
         /\ writeFailed' = (result = "unwritten")
         /\ data' = CASE result = "saved" -> "saved"
                      [] result = "unwritten" -> "lost"
                      [] result = "unsynced" -> "unsure"

Results == {"contended", "throws", "refused", "saved", "unwritten", "unsynced"}

\* RequestCapture: merged with a recent trigger, put off while another process
\* holds the lock, or a capture; an exception is counted as a drop. rest is
\* the flag otherwise.
RequestCapture(trigger, result, rest) ==
    \/ /\ cooling
       /\ Handled(trigger) /\ pending' = rest
       /\ UNCHANGED <<cooling, captureVars>>
    \/ /\ ~cooling /\ result = "contended"
       /\ pending' = Pended(trigger)
       /\ UNCHANGED <<cooling, captureVars, watched>>
    \/ /\ ~cooling /\ result # "contended"
       /\ cooling' = TRUE
       /\ Handled(trigger) /\ pending' = rest
       /\ IF result = "throws" THEN UNCHANGED captureVars
          ELSE StartCapture(result)

\* DrainCritical looks at every slot once.
DrainCritical(s, result) ==
    /\ logWriter = "drain" /\ s \in scan
    /\ scan' = scan \ {s}
    /\ IF spare[s].at = "ready"
       THEN /\ spare' = [spare EXCEPT ![s] = FreeSlot]
            /\ RequestCapture(spare[s].what, result, pending)
       ELSE UNCHANGED <<spare, pending, cooling, captureVars, watched>>
    /\ UNCHANGED <<session, queue, logWriter, item>>

\* Then a capture whose time is over, or any in the last round, is finished.
GoOn(phase) ==
    /\ logWriter' = IF item = "end" /\ phase = "retry" THEN "none" ELSE phase
    /\ session' = IF logWriter' = "none" THEN "off" ELSE session
    /\ item' = IF logWriter' = "none" THEN "none" ELSE item

Drained ==
    /\ logWriter = "drain" /\ scan = {}
    /\ GoOn(IF capture /\ (due \/ item = "end") THEN "finish" ELSE "retry")
    /\ UNCHANGED <<queue, spare, pending, scan, cooling, captureVars, watched>>

\* SyncCapture: the streams are flushed, files and directories synchronised.
Syncs == {"done", "unflushed", "unsynced"}

SyncCapture(result) ==
    /\ writeFailed' = (writeFailed \/ result = "unflushed")
    /\ data' = IF data = "lost" \/ result = "unflushed" THEN "lost"
               ELSE IF data # "buffered" THEN data
               ELSE IF result = "done" THEN "saved" ELSE "unsure"

\* FinishCapture: a marker only when the writes and the last synchronisation
\* succeeded.
VariantMarksSynced(result) == result = "done"

Marks(result) == result = "done" /\ ~writeFailed

FinishCapture(result) ==
    /\ logWriter = "finish"
    /\ SyncCapture(result)
    /\ marker' = IF Marks(result) THEN "pending" ELSE "no"
    /\ logWriter' = "mark"
    /\ UNCHANGED <<session, queue, spare, pending, item, scan, capture, cooling,
                   due, watched>>

\* The rename of the synchronised .complete.pending, which may fail.
Mark(ok) ==
    /\ logWriter = "mark"
    /\ marker' = IF marker = "pending" /\ ok THEN "yes" ELSE "no"
    /\ capture' = FALSE
    /\ GoOn("retry")
    /\ UNCHANGED <<queue, spare, pending, scan, writeFailed, cooling, due, data,
                   watched>>

\* The rest of Maintain, at most every 250 ms: a synchronisation once a second,
\* then the trigger that was put off.
TooSoon ==
    /\ logWriter = "retry"
    /\ logWriter' = "record"
    /\ UNCHANGED <<session, queue, spare, pending, item, scan, cooling,
                   captureVars, watched>>

SyncOpenCapture(result) ==
    /\ logWriter = "retry" /\ capture /\ data = "buffered"
    /\ SyncCapture(result)
    /\ UNCHANGED <<session, queue, spare, pending, logWriter, item, scan, capture,
                   cooling, due, marker, watched>>

Retry(result) ==
    /\ logWriter = "retry"
    /\ logWriter' = "record"
    /\ pending # "no"
    /\ RequestCapture(pending, result, "no")
    /\ UNCHANGED <<session, queue, spare, item, scan>>

\* WriteRecord: a trigger, or a row that goes to the open capture.
Record(result) ==
    /\ logWriter = "record" /\ item \in Triggers
    /\ logWriter' = "wait" /\ item' = "none"
    /\ RequestCapture(item, result, pending)
    /\ UNCHANGED <<session, queue, spare, scan>>

RecordRow(written) ==
    /\ logWriter = "record" /\ item \in {"none", "row"}
    /\ logWriter' = "wait" /\ item' = "none"
    /\ IF item = "row" /\ capture
       THEN /\ writeFailed' = (writeFailed \/ ~written)
            /\ data' = IF data = "lost" \/ ~written THEN "lost"
                       ELSE IF data = "unsure" THEN data ELSE "buffered"
       ELSE UNCHANGED <<writeFailed, data>>
    /\ UNCHANGED <<session, queue, spare, scan, pending, capture, cooling, due,
                   marker, watched>>

-----------------------------------------------------------------------------
DeadlinePasses ==
    /\ capture /\ ~due /\ due' = TRUE
    /\ UNCHANGED <<session, queue, spare, pending, logWriter, item, scan, capture,
                   writeFailed, cooling, data, marker, watched>>

CooldownPasses ==
    /\ cooling /\ cooling' = FALSE
    /\ UNCHANGED <<session, queue, spare, pending, logWriter, item, scan,
                   captureVars, watched>>

\* The power fails: what was only buffered is gone, and so are the rows that
\* come with a marker that was not yet renamed.
PowerFails ==
    /\ session # "off"
    /\ session' = "off" /\ logWriter' = "none" /\ item' = "none" /\ scan' = {}
    /\ queue' = <<>> /\ pending' = "no"
    /\ spare' = [s \in SpareSlots |-> FreeSlot]
    /\ capture' = FALSE
    /\ data' = IF data = "buffered" THEN "lost" ELSE data
    /\ watched' = IF watched = "out" THEN "no" ELSE watched
    /\ UNCHANGED <<writeFailed, cooling, due, marker>>

LoggerNext ==
    \/ StartSession \/ Shutdown \/ WriteRow
    \/ \E trigger \in Triggers, locked \in BOOLEAN : Enqueue(trigger, locked)
    \/ \E s \in SpareSlots : FillSlot(s)
    \/ Take \/ Drained \/ TooSoon
    \/ \E s \in SpareSlots, result \in Results : DrainCritical(s, result)
    \/ \E result \in Syncs : FinishCapture(result)
    \/ \E ok \in BOOLEAN : Mark(ok)
    \/ \E result \in Syncs : SyncOpenCapture(result)
    \/ \E result \in Results : Retry(result) \/ Record(result)
    \/ \E written \in BOOLEAN : RecordRow(written)
    \/ DeadlinePasses \/ CooldownPasses \/ PowerFails

LoggerSpec == LoggerInit /\ [][LoggerNext]_loggerVars

\* The writer is scheduled, though in the background; the thread that owns a
\* slot fills it; and another process does not hold the lock whenever the
\* writer tries. Triggers, rows, failures and power are nobody's duty.
WriterStep ==
    \/ Take \/ Drained \/ TooSoon
    \/ \E s \in SpareSlots, result \in Results : DrainCritical(s, result)
    \/ \E result \in Syncs : FinishCapture(result)
    \/ \E ok \in BOOLEAN : Mark(ok)
    \/ \E result \in Results : Record(result)
    \/ \E written \in BOOLEAN : RecordRow(written)

LoggerFairness ==
    /\ WF_loggerVars(WriterStep)
    /\ WF_loggerVars(\E s \in SpareSlots : FillSlot(s))
    /\ SF_loggerVars(\E r \in Results \ {"contended"} : Retry(r))

FairLoggerSpec == LoggerSpec /\ LoggerFairness

-----------------------------------------------------------------------------
(* Properties                                                              *)

\* README.md of the logger: with the queue taken or full and every spare slot
\* occupied the request for a capture is still kept. A trigger is captured,
\* merged with a recent one, refused by the quota or counted as lost, as long
\* as the session lasts.
TriggerIsHandled == watched = "out" ~> (watched # "out" \/ session # "on")

\* A capture marked complete has no row that could not be written, and none
\* that is still to be written when the power fails.
CompleteIsWritten == marker # "no" => data \in {"saved", "unsure"}
=============================================================================
