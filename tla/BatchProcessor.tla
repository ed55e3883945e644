--------------------------- MODULE BatchProcessor ---------------------------
(***************************************************************************)
(* The machinery that sdk/src/trace/batch_span_processor.cc and            *)
(* sdk/src/logs/batch_log_record_processor.cc share: the background worker *)
(* that exports batches, ForceFlush, Shutdown, and the start of OnEnd or   *)
(* OnEmit.  BatchSpanProcessor and BatchLogRecordProcessor add how a       *)
(* producer wakes the worker, where the two differ.                        *)
(*                                                                         *)
(* The buffer is the BoundedQueue that CircularBuffer implements, reduced  *)
(* to its counts: head elements accepted, tail of them claimed.            *)
(* Delivery is first in first out, so exported, the number handed to the   *)
(* exporter, says which elements were: the first ones accepted.            *)
(*                                                                         *)
(* One action per access to state another thread writes.  A section under  *)
(* a mutex is one action when all it touches is accessed under that mutex. *)
(* Waiting on a condition variable is the predicate, then the release of   *)
(* the mutex and the registration as a waiter in one step, then a wakeup   *)
(* (notified, timed out or spurious) and the mutex again.                  *)
(*                                                                         *)
(* A local that has gone out of scope is set back to its initial value.    *)
(***************************************************************************)
EXTENDS Integers, FiniteSets

CONSTANTS Producers,     \* threads that end spans or emit log records
          Flushers,      \* threads that call ForceFlush, once each
          Patient,       \* the flushers that call it without a timeout
          Stoppers,      \* threads that call Shutdown, once each
          MaxQueueSize,  \* max_queue_size_
          BatchSize,     \* max_export_batch_size_, after the constructor
          MaxCalls,      \* bound: calls of OnEnd or OnEmit in a behaviour
          Worker, Nobody \* the worker thread; the holder of a free mutex

ASSUME SizesAssumption ==
  /\ MaxQueueSize \in Nat /\ BatchSize \in Nat \ {0} /\ MaxCalls \in Nat
ASSUME ThreadsAssumption ==
  /\ Patient \subseteq Flushers
  /\ Worker \notin Producers \union Flushers \union Stoppers
  /\ Nobody \notin Producers \union Flushers \union Stoppers \union {Worker}

VARIABLES head, tail, exported,        \* the buffer's counts, the exporter's
          isShutdown, forceWakeup,     \* is_shutdown, is_force_wakeup_background_worker
          pending, notified,           \* force_flush_pending/notified_sequence
          cvM, forceFlushM, shutdownM, \* who holds each mutex
          joined, exporterShutdowns,   \* worker joined; calls of exporter Shutdown
          wpc, timedOut, draining,     \* worker: step, its wait expired, in DrainQueue
          notify, drain, remaining, inflight,  \* locals of Export
          ppc, seen, calls,            \* producers: step, tail_ as read; calls made
          fpc, sequence, expired, flushed, \* flushers: step, current_sequence, result
          spc, already,                \* stoppers: step, already_shutdown
          flushMark, shutdownMark      \* history: head when a flush, the shutdown began

bufferVars == <<head, tail, exported>>
flagVars == <<isShutdown, forceWakeup, pending, notified>>
mutexVars == <<cvM, forceFlushM, shutdownM>>
exportVars == <<notify, drain, remaining, inflight>>
workerVars == <<wpc, timedOut, draining, exportVars>>
producerVars == <<ppc, seen, calls>>
flushVars == <<fpc, sequence, expired, flushed, flushMark>>
stopVars == <<joined, exporterShutdowns, spc, already, shutdownMark>>
vars == <<bufferVars, flagVars, mutexVars, workerVars, producerVars, flushVars, stopVars>>

Min(a, b) == IF a <= b THEN a ELSE b

Init ==
  /\ head = 0 /\ tail = 0 /\ exported = 0
  /\ isShutdown = FALSE /\ forceWakeup = FALSE
  /\ pending = 0 /\ notified = 0
  /\ cvM = Nobody /\ forceFlushM = Nobody /\ shutdownM = Nobody
  /\ joined = FALSE /\ exporterShutdowns = 0
  /\ wpc = "lock" /\ timedOut = FALSE /\ draining = FALSE
  /\ notify = 0 /\ drain = FALSE /\ remaining = 0 /\ inflight = 0
  /\ ppc = [p \in Producers |-> "idle"]
  /\ seen = [p \in Producers |-> 0] /\ calls = 0
  /\ fpc = [f \in Flushers |-> "idle"]
  /\ sequence = [f \in Flushers |-> 0]
  /\ expired = [f \in Flushers |-> FALSE]
  /\ flushed = [f \in Flushers |-> FALSE]
  /\ spc = [s \in Stoppers |-> "idle"]
  /\ already = [s \in Stoppers |-> FALSE]
  /\ flushMark = [f \in Flushers |-> 0] /\ shutdownMark = 0

\* cv.notify_all(): only the worker waits on cv.
NotifyWorker == wpc' = IF wpc = "waiting" THEN "lock" ELSE wpc

\* force_flush_cv.notify_all().
NotifyFlushers ==
  fpc' = [f \in Flushers |-> IF fpc[f] = "waiting" THEN "relock" ELSE fpc[f]]

-----------------------------------------------------------------------------
(* The worker: DoBackgroundWork, Export, NotifyCompletion, DrainQueue.     *)

WGoto(from, to) == wpc = from /\ wpc' = to

WaitLock ==
  /\ cvM = Nobody /\ WGoto("lock", "predFlag")
  /\ cvM' = Worker
  /\ UNCHANGED <<bufferVars, flagVars, forceFlushM, shutdownM, timedOut, draining,
                 exportVars, producerVars, flushVars, stopVars>>

WaitPredFlag ==
  /\ WGoto("predFlag", IF forceWakeup THEN "reset" ELSE "predSize")
  /\ UNCHANGED <<bufferVars, flagVars, mutexVars, timedOut, draining, exportVars,
                 producerVars, flushVars, stopVars>>

\* Mutant: a wait that has expired is not ended by it.
WaitPredSize_NoTimeout ==
  /\ WGoto("predSize", IF head - tail >= BatchSize THEN "reset" ELSE "block")
  /\ UNCHANGED <<bufferVars, flagVars, mutexVars, timedOut, draining, exportVars,
                 producerVars, flushVars, stopVars>>

WaitPredSize ==
  /\ WGoto("predSize", IF head - tail >= BatchSize \/ timedOut THEN "reset" ELSE "block")
  /\ UNCHANGED <<bufferVars, flagVars, mutexVars, timedOut, draining, exportVars,
                 producerVars, flushVars, stopVars>>

WaitBlock ==
  /\ WGoto("block", "waiting")
  /\ cvM' = Nobody
  /\ UNCHANGED <<bufferVars, flagVars, forceFlushM, shutdownM, timedOut, draining,
                 exportVars, producerVars, flushVars, stopVars>>

\* The schedule delay passes (or has passed: the timeout may be negative).
WaitTimeout ==
  /\ WGoto("waiting", "lock")
  /\ timedOut' = TRUE
  /\ UNCHANGED <<bufferVars, flagVars, mutexVars, draining, exportVars,
                 producerVars, flushVars, stopVars>>

WaitSpurious ==
  /\ WGoto("waiting", "lock")
  /\ UNCHANGED <<bufferVars, flagVars, mutexVars, timedOut, draining, exportVars,
                 producerVars, flushVars, stopVars>>

WaitReset ==
  /\ WGoto("reset", "checkShutdown")
  /\ forceWakeup' = FALSE /\ timedOut' = FALSE
  /\ cvM' = Nobody
  /\ UNCHANGED <<bufferVars, isShutdown, pending, notified, forceFlushM, shutdownM,
                 draining, exportVars, producerVars, flushVars, stopVars>>

\* Mutant: the worker leaves without draining the queue.
CheckShutdown_NoDrain ==
  /\ WGoto("checkShutdown", IF isShutdown THEN "exited" ELSE "loadPending")
  /\ UNCHANGED <<bufferVars, flagVars, mutexVars, timedOut, draining, exportVars,
                 producerVars, flushVars, stopVars>>

CheckShutdown ==
  /\ WGoto("checkShutdown", IF isShutdown THEN "drainEmpty" ELSE "loadPending")
  /\ draining' = isShutdown
  /\ UNCHANGED <<bufferVars, flagVars, mutexVars, timedOut, exportVars,
                 producerVars, flushVars, stopVars>>

\* Export: which flushes this cycle will answer is read first.
LoadPending ==
  /\ WGoto("loadPending", "shouldDrain")
  /\ notify' = pending
  /\ UNCHANGED <<bufferVars, flagVars, mutexVars, timedOut, draining, drain,
                 remaining, inflight, producerVars, flushVars, stopVars>>

ShouldDrain ==
  /\ WGoto("shouldDrain", "snapshot")
  /\ drain' = (notify > notified \/ isShutdown)
  /\ UNCHANGED <<bufferVars, flagVars, mutexVars, timedOut, draining, notify,
                 remaining, inflight, producerVars, flushVars, stopVars>>

\* Mutant: a flush is answered after one batch.
SnapshotSize_OneBatch ==
  /\ WGoto("snapshot", "consume")
  /\ remaining' = Min(head - tail, BatchSize)
  /\ drain' = FALSE
  /\ UNCHANGED <<bufferVars, flagVars, mutexVars, timedOut, draining, notify,
                 inflight, producerVars, flushVars, stopVars>>

\* Mutant: a regular cycle takes a full batch, whatever the buffer holds.
SnapshotSize_NoMin ==
  /\ WGoto("snapshot", "consume")
  /\ remaining' = IF drain THEN head - tail ELSE BatchSize
  /\ drain' = FALSE
  /\ UNCHANGED <<bufferVars, flagVars, mutexVars, timedOut, draining, notify,
                 inflight, producerVars, flushVars, stopVars>>

SnapshotSize ==
  /\ WGoto("snapshot", "consume")
  /\ remaining' = IF drain THEN head - tail ELSE Min(head - tail, BatchSize)
  /\ drain' = FALSE
  /\ UNCHANGED <<bufferVars, flagVars, mutexVars, timedOut, draining, notify,
                 inflight, producerVars, flushVars, stopVars>>

Consume ==
  /\ remaining > 0 /\ WGoto("consume", "export")
  /\ inflight' = Min(remaining, BatchSize)
  /\ tail' = tail + inflight'
  /\ UNCHANGED <<head, exported, flagVars, mutexVars, timedOut, draining, notify,
                 drain, remaining, producerVars, flushVars, stopVars>>

ExporterExport ==
  /\ WGoto("export", "consume")
  /\ exported' = exported + inflight
  /\ remaining' = remaining - inflight
  /\ inflight' = 0
  /\ UNCHANGED <<head, tail, flagVars, mutexVars, timedOut, draining, notify, drain,
                 producerVars, flushVars, stopVars>>

\* Where a finished Export returns to.
AfterExport == IF draining THEN "drainEmpty" ELSE "lock"

\* The loop has ended; a flush that waits has the exporter flushed first.
ExporterForceFlush ==
  /\ remaining = 0
  /\ WGoto("consume", IF notify > notified THEN "notify" ELSE AfterExport)
  /\ notify' = IF notify > notified THEN notify ELSE 0
  /\ UNCHANGED <<bufferVars, flagVars, mutexVars, timedOut, draining, drain, remaining, inflight,
                 producerVars, flushVars, stopVars>>

\* Mutant: notified_sequence is published without taking force_flush_cv_m.
NotifyCompletion_NoLock ==
  /\ WGoto("notify", AfterExport)
  /\ notified' = notify /\ notify' = 0
  /\ NotifyFlushers
  /\ UNCHANGED <<bufferVars, isShutdown, forceWakeup, pending, mutexVars, timedOut,
                 draining, drain, remaining, inflight, producerVars, sequence, expired, flushed,
                 flushMark, stopVars>>

NotifyCompletion ==
  /\ forceFlushM = Nobody
  /\ WGoto("notify", AfterExport)
  /\ notified' = notify /\ notify' = 0
  /\ NotifyFlushers
  /\ UNCHANGED <<bufferVars, isShutdown, forceWakeup, pending, mutexVars, timedOut,
                 draining, drain, remaining, inflight, producerVars, sequence, expired, flushed,
                 flushMark, stopVars>>

DrainQueueEmpty ==
  /\ WGoto("drainEmpty", IF head = tail THEN "drainPending" ELSE "loadPending")
  /\ UNCHANGED <<bufferVars, flagVars, mutexVars, timedOut, draining, exportVars,
                 producerVars, flushVars, stopVars>>

DrainQueuePending ==
  /\ WGoto("drainPending", IF pending <= notified THEN "exited" ELSE "loadPending")
  /\ UNCHANGED <<bufferVars, flagVars, mutexVars, timedOut, draining, exportVars,
                 producerVars, flushVars, stopVars>>

Export ==
  \/ LoadPending \/ ShouldDrain \/ SnapshotSize \/ Consume \/ ExporterExport
  \/ ExporterForceFlush \/ NotifyCompletion

DoBackgroundWork ==
  \/ WaitLock \/ WaitPredFlag \/ WaitPredSize \/ WaitBlock \/ WaitReset
  \/ CheckShutdown \/ Export \/ DrainQueueEmpty \/ DrainQueuePending

-----------------------------------------------------------------------------
(* The start of OnEnd and OnEmit: the test of is_shutdown and the Add.     *)

PGoto(p, from, to) == ppc[p] = from /\ ppc' = [ppc EXCEPT ![p] = to]

OnEndCall(p) ==
  /\ calls < MaxCalls
  /\ PGoto(p, "idle", IF isShutdown THEN "idle" ELSE "observe")
  /\ calls' = calls + 1
  /\ UNCHANGED <<bufferVars, flagVars, mutexVars, workerVars, seen, flushVars, stopVars>>

\* BoundedQueue's Observe: the load of tail_.
AddObserve(p) ==
  /\ PGoto(p, "observe", "decide")
  /\ seen' = [seen EXCEPT ![p] = tail]
  /\ UNCHANGED <<bufferVars, flagVars, mutexVars, workerVars, calls, flushVars, stopVars>>

\* BoundedQueue's Reject: the element is dropped.
AddReject(p) ==
  /\ head - seen[p] >= MaxQueueSize
  /\ PGoto(p, "decide", "idle")
  /\ seen' = [seen EXCEPT ![p] = 0]
  /\ UNCHANGED <<bufferVars, flagVars, mutexVars, workerVars, calls, flushVars, stopVars>>

\* BoundedQueue's Accept.
AddAccept(p) ==
  /\ head - seen[p] < MaxQueueSize
  /\ PGoto(p, "decide", "sizeTail")
  /\ head' = head + 1
  /\ seen' = [seen EXCEPT ![p] = 0]
  /\ UNCHANGED <<tail, exported, flagVars, mutexVars, workerVars, calls, flushVars,
                 stopVars>>

\* buffer_.size() loads tail_ first, head_ with the next step.
SizeTail(p) ==
  /\ PGoto(p, "sizeTail", "sizeHead")
  /\ seen' = [seen EXCEPT ![p] = tail]
  /\ UNCHANGED <<bufferVars, flagVars, mutexVars, workerVars, calls, flushVars, stopVars>>

Add(p) == AddObserve(p) \/ AddReject(p) \/ AddAccept(p) \/ SizeTail(p)

-----------------------------------------------------------------------------
(* ForceFlush.                                                             *)

FGoto(f, from, to) == fpc[f] = from /\ fpc' = [fpc EXCEPT ![f] = to]

ForceFlushCall(f) ==
  /\ FGoto(f, "idle", IF isShutdown THEN "done" ELSE "acquire")
  /\ UNCHANGED <<bufferVars, flagVars, mutexVars, workerVars, producerVars, sequence,
                 expired, flushed, flushMark, stopVars>>

FlushAcquire(f) ==
  /\ forceFlushM = Nobody /\ FGoto(f, "acquire", "pred")
  /\ forceFlushM' = f
  /\ pending' = pending + 1
  /\ sequence' = [sequence EXCEPT ![f] = pending + 1]
  /\ flushMark' = [flushMark EXCEPT ![f] = head]
  /\ UNCHANGED <<bufferVars, isShutdown, forceWakeup, notified, cvM, shutdownM,
                 workerVars, producerVars, expired, flushed, stopVars>>

\* break_condition; both sequences are stable under force_flush_cv_m.
FlushPred(f) ==
  /\ FGoto(f, "pred", IF isShutdown THEN "return"
                      ELSE IF pending > notified THEN "wake" ELSE "check")
  /\ UNCHANGED <<bufferVars, flagVars, mutexVars, workerVars, producerVars, sequence,
                 expired, flushed, flushMark, stopVars>>

FlushWake(f) ==
  /\ cvM = Nobody /\ FGoto(f, "wake", "check")
  /\ forceWakeup' = TRUE
  /\ NotifyWorker
  /\ UNCHANGED <<bufferVars, isShutdown, pending, notified, mutexVars, timedOut,
                 draining, exportVars, producerVars, sequence, expired, flushed,
                 flushMark, stopVars>>

\* The predicate's answer; wait_for tests it once more when it has expired.
FlushCheck(f) ==
  /\ FGoto(f, "check", IF notified >= sequence[f] THEN "return"
                       ELSE IF expired[f] THEN "expired" ELSE "block")
  /\ UNCHANGED <<bufferVars, flagVars, mutexVars, workerVars, producerVars, sequence,
                 expired, flushed, flushMark, stopVars>>

FlushBlock(f) ==
  /\ FGoto(f, "block", "waiting")
  /\ forceFlushM' = Nobody
  /\ UNCHANGED <<bufferVars, flagVars, cvM, shutdownM, workerVars, producerVars,
                 sequence, expired, flushed, flushMark, stopVars>>

FlushTimeout(f) ==
  /\ FGoto(f, "waiting", "relock")
  /\ expired' = [expired EXCEPT ![f] = TRUE]
  /\ UNCHANGED <<bufferVars, flagVars, mutexVars, workerVars, producerVars, sequence,
                 flushed, flushMark, stopVars>>

FlushSpurious(f) ==
  /\ FGoto(f, "waiting", "relock")
  /\ UNCHANGED <<bufferVars, flagVars, mutexVars, workerVars, producerVars, sequence,
                 expired, flushed, flushMark, stopVars>>

FlushRelock(f) ==
  /\ forceFlushM = Nobody /\ FGoto(f, "relock", "pred")
  /\ forceFlushM' = f
  /\ UNCHANGED <<bufferVars, flagVars, cvM, shutdownM, workerVars, producerVars,
                 sequence, expired, flushed, flushMark, stopVars>>

\* A wait_for has expired: wait again while some of the timeout is left.
FlushWaitAgain(f) ==
  /\ FGoto(f, "expired", "pred")
  /\ expired' = [expired EXCEPT ![f] = FALSE]
  /\ UNCHANGED <<bufferVars, flagVars, mutexVars, workerVars, producerVars, sequence,
                 flushed, flushMark, stopVars>>

FlushGiveUp(f) ==
  /\ f \notin Patient
  /\ FGoto(f, "expired", "return")
  /\ UNCHANGED <<bufferVars, flagVars, mutexVars, workerVars, producerVars, sequence,
                 expired, flushed, flushMark, stopVars>>

FlushReturn(f) ==
  /\ FGoto(f, "return", "done")
  /\ flushed' = [flushed EXCEPT ![f] = notified >= sequence[f]]
  /\ sequence' = [sequence EXCEPT ![f] = 0] /\ expired' = [expired EXCEPT ![f] = FALSE]
  /\ forceFlushM' = Nobody
  /\ UNCHANGED <<bufferVars, flagVars, cvM, shutdownM, workerVars, producerVars,
                 flushMark, stopVars>>

ForceFlush(f) ==
  \/ FlushAcquire(f) \/ FlushPred(f) \/ FlushWake(f) \/ FlushCheck(f) \/ FlushBlock(f)
  \/ FlushRelock(f) \/ FlushWaitAgain(f) \/ FlushGiveUp(f) \/ FlushReturn(f)

-----------------------------------------------------------------------------
(* Shutdown.  The destructor is not modelled: it makes the same call, but  *)
(* only if is_shutdown is not set, and no other call may be under way.     *)

SGoto(s, from, to) == spc[s] = from /\ spc' = [spc EXCEPT ![s] = to]

ShutdownCall(s) ==
  /\ SGoto(s, "idle", "acquire")
  /\ UNCHANGED <<bufferVars, flagVars, mutexVars, workerVars, producerVars, flushVars,
                 joined, exporterShutdowns, already, shutdownMark>>

\* Mutant: is_shutdown is set, but who set it first is not kept.
ShutdownExchange_Store(s) ==
  /\ shutdownM = Nobody /\ SGoto(s, "acquire", IF joined THEN "exporter" ELSE "wake")
  /\ shutdownM' = s
  /\ isShutdown' = TRUE
  /\ shutdownMark' = IF isShutdown THEN shutdownMark ELSE head
  /\ UNCHANGED <<bufferVars, forceWakeup, pending, notified, cvM, forceFlushM, workerVars,
                 producerVars, flushVars, joined, exporterShutdowns, already>>

ShutdownExchange(s) ==
  /\ shutdownM = Nobody /\ SGoto(s, "acquire", IF joined THEN "exporter" ELSE "wake")
  /\ shutdownM' = s
  /\ already' = [already EXCEPT ![s] = isShutdown]
  /\ isShutdown' = TRUE
  /\ shutdownMark' = IF isShutdown THEN shutdownMark ELSE head
  /\ UNCHANGED <<bufferVars, forceWakeup, pending, notified, cvM, forceFlushM, workerVars,
                 producerVars, flushVars, joined, exporterShutdowns>>

\* Mutant: the wakeup of the worker is left to the timer.
ShutdownWake_Skip(s) ==
  /\ SGoto(s, "wake", "join")
  /\ UNCHANGED <<bufferVars, flagVars, mutexVars, workerVars, producerVars, flushVars,
                 joined, exporterShutdowns, already, shutdownMark>>

ShutdownWake(s) ==
  /\ cvM = Nobody /\ SGoto(s, "wake", "join")
  /\ forceWakeup' = TRUE
  /\ NotifyWorker
  /\ UNCHANGED <<bufferVars, isShutdown, pending, notified, mutexVars, timedOut, draining,
                 exportVars, producerVars, flushVars, joined, exporterShutdowns, already,
                 shutdownMark>>

\* Mutant: the worker is not waited for.
ShutdownJoin_Detach(s) ==
  /\ SGoto(s, "join", "exporter")
  /\ joined' = TRUE
  /\ UNCHANGED <<bufferVars, flagVars, mutexVars, workerVars, producerVars, flushVars,
                 exporterShutdowns, already, shutdownMark>>

ShutdownJoin(s) ==
  /\ wpc = "exited" /\ SGoto(s, "join", "exporter")
  /\ joined' = TRUE
  /\ UNCHANGED <<bufferVars, flagVars, mutexVars, workerVars, producerVars, flushVars,
                 exporterShutdowns, already, shutdownMark>>

ShutdownExporter(s) ==
  /\ SGoto(s, "exporter", "done")
  /\ exporterShutdowns' = exporterShutdowns + (IF already[s] THEN 0 ELSE 1)
  /\ shutdownM' = Nobody
  /\ UNCHANGED <<bufferVars, flagVars, cvM, forceFlushM, workerVars, producerVars,
                 flushVars, joined, already, shutdownMark>>

InternalShutdown(s) ==
  ShutdownExchange(s) \/ ShutdownWake(s) \/ ShutdownJoin(s) \/ ShutdownExporter(s)

-----------------------------------------------------------------------------
\* The steps the two processors share, timers and spurious wakeups apart.
SharedStep ==
  \/ DoBackgroundWork
  \/ \E p \in Producers : OnEndCall(p) \/ Add(p)
  \/ \E f \in Flushers : ForceFlushCall(f) \/ ForceFlush(f)
  \/ \E s \in Stoppers : ShutdownCall(s) \/ InternalShutdown(s)

Wakeups ==
  \/ WaitTimeout \/ WaitSpurious
  \/ \E f \in Flushers : FlushTimeout(f) \/ FlushSpurious(f)

\* Every call has returned and the worker has left.
Quiescent ==
  /\ wpc = "exited"
  /\ calls = MaxCalls /\ \A p \in Producers : ppc[p] = "idle"
  /\ \A f \in Flushers : fpc[f] = "done"
  /\ \A s \in Stoppers : spc[s] = "done"
  /\ UNCHANGED vars
-----------------------------------------------------------------------------
(* Properties of both processors.                                          *)

\* Types: what the members of SynchronizationData and the locals can hold.
TypeOK ==
  /\ head \in Nat /\ tail \in Nat /\ exported \in Nat
  /\ isShutdown \in BOOLEAN /\ forceWakeup \in BOOLEAN
  /\ pending \in Nat /\ notified \in Nat
  /\ cvM \in {Worker, Nobody}
  /\ forceFlushM \in Flushers \union {Nobody}
  /\ shutdownM \in Stoppers \union {Nobody}
  /\ joined \in BOOLEAN /\ exporterShutdowns \in Nat
  /\ wpc \in {"lock", "predFlag", "predSize", "block", "waiting", "reset",
              "checkShutdown", "loadPending", "shouldDrain", "snapshot", "consume",
              "export", "notify", "drainEmpty", "drainPending", "exited"}
  /\ timedOut \in BOOLEAN /\ draining \in BOOLEAN /\ drain \in BOOLEAN
  /\ notify \in Nat /\ remaining \in Nat /\ inflight \in 0..BatchSize
  /\ ppc \in [Producers -> {"idle", "observe", "decide", "sizeTail", "sizeHead",
                            "lockedNotify", "setWakeup", "notify"}]
  /\ seen \in [Producers -> Nat] /\ calls \in Nat
  /\ fpc \in [Flushers -> {"idle", "acquire", "pred", "wake", "check", "block",
                           "waiting", "relock", "expired", "return", "done"}]
  /\ sequence \in [Flushers -> Nat] /\ flushMark \in [Flushers -> Nat]
  /\ expired \in [Flushers -> BOOLEAN] /\ flushed \in [Flushers -> BOOLEAN]
  /\ spc \in [Stoppers -> {"idle", "acquire", "wake", "join", "exporter", "done"}]
  /\ already \in [Stoppers -> BOOLEAN] /\ shutdownMark \in Nat

\* A ForceFlush that returns true has had everything accepted before it
\* took its sequence number handed to the exporter, also when another flush
\* or a shutdown overtook it.
FlushDelivers == \A f \in Flushers : flushed[f] => exported >= flushMark[f]

\* When Shutdown shuts the exporter down, everything accepted before
\* is_shutdown was set has been exported, the exporter is idle, and it is
\* shut down once however many threads call Shutdown.
ShutdownDrains ==
  /\ exporterShutdowns <= 1
  /\ exporterShutdowns = 1 => exported >= shutdownMark /\ wpc = "exited"

\* Nothing is handed to the exporter after its Shutdown.
NoExportAfterShutdown == [][exported' # exported => exporterShutdowns = 0]_vars

\* The worker never claims more than the buffer holds (the assertion of
\* CircularBuffer::Consume), and the buffer never holds more than
\* max_queue_size, whatever stale sizes the producers act on.
QueueBounded ==
  /\ exported <= tail /\ tail <= head /\ head - tail <= MaxQueueSize
  /\ tail = exported + inflight

(***************************************************************************)
(* The inductive invariant behind these.                                   *)
(***************************************************************************)

\* A snapshot of the size is never more than the buffer holds, because only
\* the worker takes elements out.
QueueInv ==
  /\ QueueBounded
  /\ wpc # "export" => inflight = 0
  /\ wpc = "consume" => remaining <= head - tail
  /\ wpc = "export" => inflight <= remaining /\ remaining <= head - exported
  /\ \A p \in Producers : seen[p] <= tail

\* The sequence numbers of the flushes under way, and what is exported once
\* the cycle in progress has answered them.
FlushInv ==
  /\ notified <= pending /\ notify <= pending
  /\ wpc = "snapshot" => drain = TRUE \/ notify <= notified
  /\ \A f \in Flushers :
       /\ fpc[f] \in {"idle", "acquire"} => flushed[f] = FALSE
       /\ fpc[f] \in {"pred", "wake", "check", "block", "waiting", "relock",
                      "expired", "return"} => sequence[f] >= 1
       /\ sequence[f] <= pending /\ flushMark[f] <= head
       /\ flushed[f] = TRUE => flushMark[f] <= exported
       /\ sequence[f] >= 1 =>
            /\ sequence[f] <= notified => flushMark[f] <= exported
            /\ wpc \in {"consume", "export"} /\ sequence[f] <= notify
                 => flushMark[f] <= exported + remaining
            /\ wpc = "notify" /\ sequence[f] <= notify => flushMark[f] <= exported

\* Only the first stopper shuts the exporter down, after the worker has left
\* with nothing older than the shutdown in the buffer.
Stopping == {"wake", "join", "exporter", "done"}
StopInv ==
  /\ shutdownMark <= head
  /\ draining = TRUE => isShutdown = TRUE
  /\ wpc \in {"drainEmpty", "drainPending", "exited"} => isShutdown = TRUE
  /\ wpc \in {"drainPending", "exited"} => shutdownMark <= exported
  /\ joined = TRUE => wpc = "exited"
  /\ isShutdown = FALSE => shutdownMark = 0 /\ \A s \in Stoppers : spc[s] \notin Stopping
  /\ \A s \in Stoppers : spc[s] = "exporter" => wpc = "exited"
  /\ \A s, t \in Stoppers :
       s # t /\ spc[s] \in Stopping /\ spc[t] \in Stopping
         => already[s] = TRUE \/ already[t] = TRUE
  /\ exporterShutdowns \in {0, 1}
  /\ exporterShutdowns = 1 =>
       wpc = "exited" /\ \E s \in Stoppers : spc[s] = "done" /\ already[s] = FALSE

BInv == TypeOK /\ QueueInv /\ FlushInv /\ StopInv

\* ForceFlush without a timeout returns; no wakeup it depends on is lost, so
\* it needs no timer.
FlushReturns == \A f \in Patient : (fpc[f] # "idle") ~> (fpc[f] = "done")

\* Shutdown returns, without the help of a timer.
ShutdownReturns == \A s \in Stoppers : (spc[s] # "idle") ~> (spc[s] = "done")
=============================================================================
