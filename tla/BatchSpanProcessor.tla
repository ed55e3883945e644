------------------------- MODULE BatchSpanProcessor -------------------------
(***************************************************************************)
(* sdk/src/trace/batch_span_processor.cc: BatchProcessor, with OnEnd's way *)
(* of waking the worker.  A span that fills the queue notifies under cv_m, *)
(* because later spans are dropped before they can notify; below that the  *)
(* notification is sent without the mutex and may be lost.                 *)
(***************************************************************************)
EXTENDS BatchProcessor

CONSTANT OptionsBatchSize  \* options.max_export_batch_size

ClampMaxExportBatchSize ==
  IF MaxQueueSize > 0 /\ OptionsBatchSize > MaxQueueSize
  THEN MaxQueueSize ELSE OptionsBatchSize

ASSUME ClampAssumption == BatchSize = ClampMaxExportBatchSize

\* buffer_size is the load of head_ minus the earlier load of tail_.
OnEndSize(p) ==
  LET buffer_size == head - seen[p]
  IN  /\ PGoto(p, "sizeHead",
            IF buffer_size >= MaxQueueSize THEN "lockedNotify"
            ELSE IF buffer_size >= MaxQueueSize \div 2 \/ buffer_size >= BatchSize
            THEN "notify" ELSE "idle")
      /\ seen' = [seen EXCEPT ![p] = 0]
      /\ UNCHANGED <<bufferVars, flagVars, mutexVars, workerVars, calls, flushVars, stopVars>>

\* Mutant: the notification of a full queue is sent without the mutex.
OnEndLockedNotify_NoLock(p) ==
  /\ PGoto(p, "lockedNotify", "idle")
  /\ NotifyWorker
  /\ UNCHANGED <<bufferVars, flagVars, mutexVars, timedOut, draining, exportVars, seen,
                 calls, flushVars, stopVars>>

OnEndLockedNotify(p) ==
  /\ cvM = Nobody /\ PGoto(p, "lockedNotify", "idle")
  /\ NotifyWorker
  /\ UNCHANGED <<bufferVars, flagVars, mutexVars, timedOut, draining, exportVars, seen,
                 calls, flushVars, stopVars>>

OnEndNotify(p) ==
  /\ PGoto(p, "notify", "idle")
  /\ NotifyWorker
  /\ UNCHANGED <<bufferVars, flagVars, mutexVars, timedOut, draining, exportVars, seen,
                 calls, flushVars, stopVars>>

OnEnd(p) == Add(p) \/ OnEndSize(p) \/ OnEndLockedNotify(p) \/ OnEndNotify(p)

\* Every step but timers and spurious wakeups.
Step ==
  \/ SharedStep \/ Quiescent
  \/ \E p \in Producers : OnEndSize(p) \/ OnEndLockedNotify(p) \/ OnEndNotify(p)

Next == Step \/ Wakeups

Spec == Init /\ [][Next]_vars

(***************************************************************************)
(* Threads are scheduled, and a mutex that is free is acquired in the end. *)
(* Calls of OnEnd, ForceFlush and Shutdown need not be made.               *)
(***************************************************************************)
Fairness ==
  /\ WF_vars(DoBackgroundWork)
  /\ \A p \in Producers : WF_vars(OnEnd(p))
  /\ \A f \in Flushers : WF_vars(ForceFlush(f))
  /\ \A s \in Stoppers : WF_vars(InternalShutdown(s))

\* No wakeup is spurious, and the schedule delay may pass but need not:
\* what must happen without its help has to be brought about by a
\* notification that is not lost.
LiveSpec == Init /\ [][Step \/ WaitTimeout]_vars /\ Fairness

-----------------------------------------------------------------------------
\* Until shutdown a full queue is exported from without the timer, although
\* OnEnd tests the size after the Add and other spans come and go in between.
FullQueueWakes ==
  (head - tail = MaxQueueSize) ~> (head - tail < MaxQueueSize \/ isShutdown)

\* Every span accepted before shutdown is exported in the end, provided the
\* schedule delay passes, however often the worker is woken before: the
\* deadline of wait_for is fixed when the wait begins.
EventuallyExported ==
  SF_vars(WaitTimeout) =>
    \A n \in 1..MaxCalls : (head >= n) ~> (exported >= n \/ isShutdown)
=============================================================================
