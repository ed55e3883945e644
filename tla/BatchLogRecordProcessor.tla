----------------------- MODULE BatchLogRecordProcessor -----------------------
(***************************************************************************)
(* sdk/src/logs/batch_log_record_processor.cc: BatchProcessor, with        *)
(* OnEmit's way of waking the worker.  OnEmit sets the wakeup flag and     *)
(* notifies without the mutex at any size, so a notification may be lost   *)
(* even when the queue is full, and max_export_batch_size_ is not clamped: *)
(* a batch may be larger than the queue.                                   *)
(***************************************************************************)
EXTENDS BatchProcessor

OnEmitSize(p) ==
  LET buffer_size == head - seen[p]
  IN  /\ PGoto(p, "sizeHead",
            IF buffer_size >= MaxQueueSize \div 2 \/ buffer_size >= BatchSize
            THEN "setWakeup" ELSE "idle")
      /\ seen' = [seen EXCEPT ![p] = 0]
      /\ UNCHANGED <<bufferVars, flagVars, mutexVars, workerVars, calls, flushVars, stopVars>>

OnEmitSetWakeup(p) ==
  /\ PGoto(p, "setWakeup", "notify")
  /\ forceWakeup' = TRUE
  /\ UNCHANGED <<bufferVars, isShutdown, pending, notified, mutexVars, workerVars, seen,
                 calls, flushVars, stopVars>>

OnEmitNotify(p) ==
  /\ PGoto(p, "notify", "idle")
  /\ NotifyWorker
  /\ UNCHANGED <<bufferVars, flagVars, mutexVars, timedOut, draining, exportVars, seen,
                 calls, flushVars, stopVars>>

(* The rest is BatchProcessor's, under the names it has in this file.      *)
OnEmit(p) ==
  OnEndCall(p) \/ Add(p) \/ OnEmitSize(p) \/ OnEmitSetWakeup(p) \/ OnEmitNotify(p)
LogForceFlush(f) == ForceFlushCall(f) \/ ForceFlush(f)
LogDoBackgroundWork == DoBackgroundWork
LogInternalShutdown(s) == ShutdownCall(s) \/ InternalShutdown(s)

Next ==
  \/ LogDoBackgroundWork \/ Wakeups \/ Quiescent
  \/ \E p \in Producers : OnEmit(p)
  \/ \E f \in Flushers : LogForceFlush(f)
  \/ \E s \in Stoppers : LogInternalShutdown(s)

Spec == Init /\ [][Next]_vars
=============================================================================
