-------------------- MODULE PeriodicExportingMetricReader --------------------
(***************************************************************************)
(* sdk/src/metrics/export/periodic_exporting_metric_reader.cc with its     *)
(* base class, sdk/src/metrics/metric_reader.cc: the worker that collects  *)
(* and exports once per interval, ForceFlush, and Shutdown, which flushes  *)
(* before it stops the worker.                                             *)
(*                                                                         *)
(* The protocol is a relative of the batch processors', and differs where  *)
(* it is hard: notified_sequence is published without force_flush_m_, so   *)
(* its notification can be lost and a flush has to wait in slices of the   *)
(* export interval; the worker collects before its first wait; and a       *)
(* collection that takes longer than the export timeout is thrown away.    *)
(*                                                                         *)
(* Measurements are counted as they are recorded.  A collection covers all *)
(* of them, as with cumulative temporality: exported and lost say how far  *)
(* the latest collection handed to the exporter, or thrown away, reached.  *)
(*                                                                         *)
(* The destructor is not modelled: it calls Shutdown unless shutdown_ is   *)
(* set already, when no other call may be under way any more, so it does   *)
(* what a Shutdown does that is called after all the others.               *)
(*                                                                         *)
(* Sections under cv_m_ are single actions, so that mutex has no variable. *)
(* A local that has gone out of scope is set back to its initial value.    *)
(***************************************************************************)
EXTENDS Integers

CONSTANTS Flushers,   \* threads that call ForceFlush, once each
          Stoppers,   \* threads that call Shutdown, once each
          Patient,    \* those of them that set no timeout
          MaxRecords, \* bound: measurements recorded in a behaviour
          Nobody      \* the holder of a free mutex

Callers == Flushers \union Stoppers

ASSUME ReaderAssumption ==
  /\ MaxRecords \in Nat
  /\ Flushers \intersect Stoppers = {} /\ Patient \subseteq Callers
  /\ Nobody \notin Callers

VARIABLES recorded, collected, exported, lost,  \* how far each has come
          shutdown, stopRequested, forceWakeup, \* shutdown_, is_stop_requested_,
          pending, notified,                    \* ... and the two sequences
          wpc, timedOut, notify,                \* worker: step, its wait expired, local
          forceFlushM, shutdownM,               \* who holds each mutex
          pc, sequence, sliceOver, result,      \* callers: step, locals, returned value
          exporterShutdowns,                    \* calls of the exporter's Shutdown
          mark                                  \* history: recorded when a flush began

dataVars == <<recorded, collected, exported, lost>>
flagVars == <<shutdown, stopRequested, forceWakeup, pending, notified>>
workerVars == <<wpc, timedOut, notify>>
callVars == <<pc, sequence, sliceOver, result, mark>>
vars == <<dataVars, flagVars, workerVars, forceFlushM, shutdownM, callVars, exporterShutdowns>>

\* The reader is constructed; no metric producer is registered yet.
Init ==
  /\ recorded = 0 /\ collected = 0 /\ exported = 0 /\ lost = 0
  /\ shutdown = FALSE /\ stopRequested = FALSE /\ forceWakeup = FALSE
  /\ pending = 0 /\ notified = 0
  /\ wpc = "unborn" /\ timedOut = FALSE /\ notify = 0
  /\ forceFlushM = Nobody /\ shutdownM = Nobody
  /\ pc = [c \in Callers |-> "idle"] /\ sequence = [c \in Callers |-> 0]
  /\ sliceOver = [c \in Callers |-> FALSE] /\ result = [c \in Callers |-> FALSE]
  /\ exporterShutdowns = 0
  /\ mark = [c \in Callers |-> 0]

\* An instrument of the meter provider records a measurement.
Record ==
  /\ recorded < MaxRecords
  /\ recorded' = recorded + 1
  /\ UNCHANGED <<collected, exported, lost, flagVars, workerVars, forceFlushM, shutdownM,
                 callVars, exporterShutdowns>>

-----------------------------------------------------------------------------
(* The worker: DoBackgroundWork and CollectAndExportOnce.                  *)

WGoto(from, to) == wpc = from /\ wpc' = to

\* Assumed of the application, and not tested by the code: a reader is
\* registered with one provider, once, and not after it has been shut down.
Registrable == ~shutdown /\ wpc = "unborn"

\* SetMetricProducer starts the thread, whatever the state of the reader.
OnInitialized ==
  /\ Registrable /\ wpc' = "load"
  /\ UNCHANGED <<dataVars, flagVars, timedOut, notify, forceFlushM, shutdownM, callVars,
                 exporterShutdowns>>

\* Which flushes this cycle will answer is read before anything is collected.
LoadPending ==
  /\ WGoto("load", "produce")
  /\ notify' = pending
  /\ UNCHANGED <<dataVars, flagVars, timedOut, forceFlushM, shutdownM, callVars,
                 exporterShutdowns>>

Produce ==
  /\ WGoto("produce", "export")
  /\ collected' = recorded
  /\ UNCHANGED <<recorded, exported, lost, flagVars, timedOut, notify, forceFlushM,
                 shutdownM, callVars, exporterShutdowns>>

\* The callback of Collect: the exporter's status is not looked at.
ExporterExport ==
  /\ WGoto("export", "publish")
  /\ exported' = collected /\ collected' = 0
  /\ UNCHANGED <<recorded, lost, flagVars, timedOut, notify, forceFlushM,
                 shutdownM, callVars, exporterShutdowns>>

\* The callback of Collect when collecting took longer than the export
\* timeout.  What Collect then returns is ignored.
CollectTimedOut ==
  /\ WGoto("export", "publish")
  /\ lost' = collected /\ collected' = 0
  /\ UNCHANGED <<recorded, exported, flagVars, timedOut, notify, forceFlushM,
                 shutdownM, callVars, exporterShutdowns>>

\* Mutant: whatever is pending by now is answered.
PublishNotified_Latest ==
  /\ WGoto("publish", IF pending > notified THEN "notify" ELSE "wait")
  /\ notified' = pending
  /\ notify' = 0
  /\ UNCHANGED <<dataVars, shutdown, stopRequested, forceWakeup, pending, timedOut,
                 forceFlushM, shutdownM, callVars, exporterShutdowns>>

\* The compare and exchange succeeds: only the worker writes it.
PublishNotified ==
  /\ WGoto("publish", IF notify > notified THEN "notify" ELSE "wait")
  /\ notified' = IF notify > notified THEN notify ELSE notified
  /\ notify' = 0
  /\ UNCHANGED <<dataVars, shutdown, stopRequested, forceWakeup, pending, timedOut,
                 forceFlushM, shutdownM, callVars, exporterShutdowns>>

\* force_flush_cv_.notify_all().  A compare and exchange that succeeds leaves
\* notified_sequence as it was, so the loop runs, and notifies, once more.
NotifyFlushers ==
  /\ \/ WGoto("notify", "notifyAgain")
     \/ WGoto("notifyAgain", "wait")
  /\ pc' = [c \in Callers |-> IF pc[c] = "waiting" THEN "relock" ELSE pc[c]]
  /\ UNCHANGED <<dataVars, flagVars, timedOut, notify, forceFlushM, shutdownM, sequence,
                 sliceOver, result, mark, exporterShutdowns>>

\* Mutant: only a wakeup ends the wait.
WaitPred_NoTimeout ==
  /\ WGoto("wait", IF forceWakeup \/ stopRequested THEN "checkStop" ELSE "waiting")
  /\ forceWakeup' = FALSE /\ timedOut' = FALSE
  /\ UNCHANGED <<dataVars, shutdown, stopRequested, pending, notified, notify,
                 forceFlushM, shutdownM, callVars, exporterShutdowns>>

\* The predicate of cv_.wait_for, which uses up the wakeup flag; if it is
\* false the worker waits, unless the interval is over.
WaitPred ==
  /\ WGoto("wait", IF forceWakeup \/ stopRequested \/ timedOut THEN "checkStop" ELSE "waiting")
  /\ forceWakeup' = FALSE /\ timedOut' = FALSE
  /\ UNCHANGED <<dataVars, shutdown, stopRequested, pending, notified, notify,
                 forceFlushM, shutdownM, callVars, exporterShutdowns>>

\* The interval passes (it may have: the remaining wait can be negative).
WaitTimeout ==
  /\ WGoto("waiting", "wait")
  /\ timedOut' = TRUE
  /\ UNCHANGED <<dataVars, flagVars, notify, forceFlushM, shutdownM, callVars,
                 exporterShutdowns>>

WaitSpurious ==
  /\ WGoto("waiting", "wait")
  /\ UNCHANGED <<dataVars, flagVars, timedOut, notify, forceFlushM, shutdownM, callVars,
                 exporterShutdowns>>

CheckStop ==
  /\ WGoto("checkStop", IF stopRequested THEN "exited" ELSE "load")
  /\ UNCHANGED <<dataVars, flagVars, timedOut, notify, forceFlushM, shutdownM, callVars,
                 exporterShutdowns>>

CollectAndExportOnce ==
  \/ LoadPending \/ Produce \/ ExporterExport \/ CollectTimedOut
  \/ PublishNotified \/ NotifyFlushers

DoBackgroundWork == CollectAndExportOnce \/ WaitPred \/ CheckStop

\* cv_.notify_all(): only the worker waits on cv_.
NotifyWorker == wpc' = IF wpc = "waiting" THEN "wait" ELSE wpc

-----------------------------------------------------------------------------
(* ForceFlush, and OnForceFlush, which OnShutDown calls too.               *)

Goto(c, from, to) == pc[c] = from /\ pc' = [pc EXCEPT ![c] = to]

ForceFlushCall(f) ==
  /\ Goto(f, "idle", IF shutdown THEN "done" ELSE "acquire")
  /\ UNCHANGED <<dataVars, flagVars, workerVars, forceFlushM, shutdownM, sequence,
                 sliceOver, result, mark, exporterShutdowns>>

FlushAcquire(c) ==
  /\ forceFlushM = Nobody /\ Goto(c, "acquire", "pred")
  /\ forceFlushM' = c
  /\ pending' = pending + 1
  /\ sequence' = [sequence EXCEPT ![c] = pending + 1]
  /\ mark' = [mark EXCEPT ![c] = recorded]
  /\ UNCHANGED <<dataVars, shutdown, stopRequested, forceWakeup, notified, workerVars,
                 shutdownM, sliceOver, result, exporterShutdowns>>

\* Mutant: a shutdown does not end the wait.
FlushPredStop_Ignore(c) ==
  /\ Goto(c, "pred", "compare")
  /\ UNCHANGED <<dataVars, flagVars, workerVars, forceFlushM, shutdownM, sequence,
                 sliceOver, result, mark, exporterShutdowns>>

\* break_condition: its load of is_stop_requested_ ...
FlushPredStop(c) ==
  /\ Goto(c, "pred", IF stopRequested THEN "exporter" ELSE "compare")
  /\ UNCHANGED <<dataVars, flagVars, workerVars, forceFlushM, shutdownM, sequence,
                 sliceOver, result, mark, exporterShutdowns>>

\* ... the comparison of the sequences ...
FlushCompare(c) ==
  /\ Goto(c, "compare", IF pending > notified THEN "wake" ELSE "check")
  /\ UNCHANGED <<dataVars, flagVars, workerVars, forceFlushM, shutdownM, sequence,
                 sliceOver, result, mark, exporterShutdowns>>

\* ... the flag, set under cv_m_ ...
FlushSetWakeup(c) ==
  /\ Goto(c, "wake", "notify")
  /\ forceWakeup' = TRUE
  /\ UNCHANGED <<dataVars, shutdown, stopRequested, pending, notified, workerVars,
                 forceFlushM, shutdownM, sequence, sliceOver, result, mark,
                 exporterShutdowns>>

FlushNotify(c) ==
  /\ Goto(c, "notify", "check")
  /\ NotifyWorker
  /\ UNCHANGED <<dataVars, flagVars, timedOut, notify, forceFlushM, shutdownM, sequence,
                 sliceOver, result, mark, exporterShutdowns>>

\* ... and its answer.
FlushCheck(c) ==
  /\ Goto(c, "check", IF notified >= sequence[c] THEN "exporter"
                      ELSE IF sliceOver[c] THEN "sliceOver" ELSE "block")
  /\ UNCHANGED <<dataVars, flagVars, workerVars, forceFlushM, shutdownM, sequence,
                 sliceOver, result, mark, exporterShutdowns>>

\* The worker may publish and notify before this step: it needs no mutex.
FlushBlock(c) ==
  /\ Goto(c, "block", "waiting")
  /\ forceFlushM' = Nobody
  /\ UNCHANGED <<dataVars, flagVars, workerVars, shutdownM, sequence, sliceOver, result,
                 mark, exporterShutdowns>>

\* Mutant: a flush without a timeout does not wait in slices.
FlushSlice_Whole(c) ==
  /\ c \notin Patient /\ Goto(c, "waiting", "relock")
  /\ sliceOver' = [sliceOver EXCEPT ![c] = TRUE]
  /\ UNCHANGED <<dataVars, flagVars, workerVars, forceFlushM, shutdownM, sequence, result,
                 mark, exporterShutdowns>>

\* The wait ends after the export interval, whatever the caller's timeout.
FlushSlice(c) ==
  /\ Goto(c, "waiting", "relock")
  /\ sliceOver' = [sliceOver EXCEPT ![c] = TRUE]
  /\ UNCHANGED <<dataVars, flagVars, workerVars, forceFlushM, shutdownM, sequence, result,
                 mark, exporterShutdowns>>

FlushSpurious(c) ==
  /\ Goto(c, "waiting", "relock")
  /\ UNCHANGED <<dataVars, flagVars, workerVars, forceFlushM, shutdownM, sequence,
                 sliceOver, result, mark, exporterShutdowns>>

FlushRelock(c) ==
  /\ forceFlushM = Nobody /\ Goto(c, "relock", "pred")
  /\ forceFlushM' = c
  /\ UNCHANGED <<dataVars, flagVars, workerVars, shutdownM, sequence, sliceOver, result,
                 mark, exporterShutdowns>>

FlushAgain(c) ==
  /\ Goto(c, "sliceOver", "pred")
  /\ sliceOver' = [sliceOver EXCEPT ![c] = FALSE]
  /\ UNCHANGED <<dataVars, flagVars, workerVars, forceFlushM, shutdownM, sequence, result,
                 mark, exporterShutdowns>>

FlushGiveUp(c) ==
  /\ c \notin Patient /\ Goto(c, "sliceOver", "return")
  /\ UNCHANGED <<dataVars, flagVars, workerVars, forceFlushM, shutdownM, sequence,
                 sliceOver, result, mark, exporterShutdowns>>

\* The exporter's ForceFlush may fail; with no time left it is not called,
\* which is a failure too.
FlushExporter(c) ==
  /\ Goto(c, "exporter", "return")
  /\ \E ok \in BOOLEAN : result' = [result EXCEPT ![c] = ok]
  /\ UNCHANGED <<dataVars, flagVars, workerVars, forceFlushM, shutdownM, sequence,
                 sliceOver, mark, exporterShutdowns>>

FlushReturn(c) ==
  /\ Goto(c, "return", IF c \in Stoppers THEN "setStop" ELSE "done")
  /\ result' = [result EXCEPT ![c] = (result[c] /\ notified >= sequence[c])]
  /\ sequence' = [sequence EXCEPT ![c] = 0] /\ sliceOver' = [sliceOver EXCEPT ![c] = FALSE]
  /\ forceFlushM' = Nobody
  /\ UNCHANGED <<dataVars, flagVars, workerVars, shutdownM, mark, exporterShutdowns>>

OnForceFlush(c) ==
  \/ FlushAcquire(c) \/ FlushPredStop(c) \/ FlushCompare(c) \/ FlushSetWakeup(c)
  \/ FlushNotify(c) \/ FlushCheck(c) \/ FlushBlock(c) \/ FlushRelock(c) \/ FlushAgain(c)
  \/ FlushGiveUp(c) \/ FlushExporter(c) \/ FlushReturn(c)

-----------------------------------------------------------------------------
(* Shutdown and OnShutDown.                                                *)

\* Mutant: the first call is told by a flag, and shutdown_m_ is gone.
ShutdownCall_NoMutex(s) ==
  /\ Goto(s, "idle", IF shutdown THEN "done"
                     ELSE IF wpc = "unborn" THEN "setStop" ELSE "acquire")
  /\ shutdown' = TRUE
  /\ result' = [result EXCEPT ![s] = TRUE]
  /\ UNCHANGED <<dataVars, stopRequested, forceWakeup, pending, notified, workerVars,
                 forceFlushM, shutdownM, sequence, sliceOver, mark, exporterShutdowns>>

\* Mutant: every call is taken for the first.
ShutdownCall_Store(s) ==
  /\ shutdownM = Nobody
  /\ Goto(s, "idle", IF wpc = "unborn" THEN "setStop" ELSE "acquire")
  /\ shutdownM' = s
  /\ shutdown' = TRUE
  /\ result' = [result EXCEPT ![s] = TRUE]
  /\ UNCHANGED <<dataVars, stopRequested, forceWakeup, pending, notified, workerVars,
                 forceFlushM, sequence, sliceOver, mark, exporterShutdowns>>

\* Calls are serialised by shutdown_m_, and only the first does anything;
\* without a worker thread there is nothing to flush.
ShutdownCall(s) ==
  /\ shutdownM = Nobody
  /\ Goto(s, "idle", IF shutdown THEN "done"
                     ELSE IF wpc = "unborn" THEN "setStop" ELSE "acquire")
  /\ shutdownM' = IF shutdown THEN Nobody ELSE s
  /\ shutdown' = TRUE
  /\ result' = [result EXCEPT ![s] = TRUE]
  /\ UNCHANGED <<dataVars, stopRequested, forceWakeup, pending, notified, workerVars,
                 forceFlushM, sequence, sliceOver, mark, exporterShutdowns>>

ShutdownSetStop(s) ==
  /\ Goto(s, "setStop", "notifyStop")
  /\ stopRequested' = TRUE
  /\ UNCHANGED <<dataVars, shutdown, forceWakeup, pending, notified, workerVars,
                 forceFlushM, shutdownM, sequence, sliceOver, result, mark,
                 exporterShutdowns>>

ShutdownNotify(s) ==
  /\ Goto(s, "notifyStop", IF wpc = "unborn" THEN "exporterShutdown" ELSE "join")
  /\ NotifyWorker
  /\ UNCHANGED <<dataVars, flagVars, timedOut, notify, forceFlushM, shutdownM, sequence,
                 sliceOver, result, mark, exporterShutdowns>>

\* Mutant: the worker is not waited for.
ShutdownJoin_Detach(s) ==
  /\ Goto(s, "join", "exporterShutdown")
  /\ UNCHANGED <<dataVars, flagVars, workerVars, forceFlushM, shutdownM, sequence,
                 sliceOver, result, mark, exporterShutdowns>>

ShutdownJoin(s) ==
  /\ wpc = "exited" /\ Goto(s, "join", "exporterShutdown")
  /\ UNCHANGED <<dataVars, flagVars, workerVars, forceFlushM, shutdownM, sequence,
                 sliceOver, result, mark, exporterShutdowns>>

ExporterShutdown(s) ==
  /\ Goto(s, "exporterShutdown", "done")
  /\ exporterShutdowns' = exporterShutdowns + 1
  /\ \E ok \in BOOLEAN : result' = [result EXCEPT ![s] = (result[s] /\ ok)]
  /\ shutdownM' = Nobody
  /\ UNCHANGED <<dataVars, flagVars, workerVars, forceFlushM, sequence, sliceOver, mark>>

OnShutDown(s) ==
  \/ OnForceFlush(s) \/ ShutdownSetStop(s) \/ ShutdownNotify(s) \/ ShutdownJoin(s)
  \/ ExporterShutdown(s)

-----------------------------------------------------------------------------
\* Every call has returned and the worker, if there was one, has left.
Quiescent ==
  /\ recorded = MaxRecords /\ wpc \in {"unborn", "exited"}
  /\ \A c \in Callers : pc[c] = "done"
  /\ UNCHANGED vars

Next ==
  \/ Record \/ OnInitialized \/ DoBackgroundWork \/ WaitTimeout \/ WaitSpurious
  \/ \E f \in Flushers : ForceFlushCall(f) \/ OnForceFlush(f)
  \/ \E s \in Stoppers : ShutdownCall(s) \/ OnShutDown(s)
  \/ \E c \in Callers : FlushSlice(c) \/ FlushSpurious(c)
  \/ Quiescent

Spec == Init /\ [][Next]_vars

(***************************************************************************)
(* Threads are scheduled, a mutex that is free is acquired in the end, and *)
(* a wait_for ends at its deadline, which is fixed when it begins.  No     *)
(* call has to be made, and nothing has to be recorded.                    *)
(***************************************************************************)
Fairness ==
  /\ WF_vars(DoBackgroundWork) /\ SF_vars(WaitTimeout)
  /\ \A f \in Flushers : WF_vars(OnForceFlush(f)) /\ SF_vars(FlushSlice(f))
  /\ \A s \in Stoppers : WF_vars(OnShutDown(s)) /\ SF_vars(FlushSlice(s))

TimedSpec == Spec /\ Fairness

-----------------------------------------------------------------------------
\* Types: what the members of the reader and the locals can hold.
TypeOK ==
  /\ recorded \in Nat /\ collected \in Nat /\ exported \in Nat /\ lost \in Nat
  /\ shutdown \in BOOLEAN /\ stopRequested \in BOOLEAN /\ forceWakeup \in BOOLEAN
  /\ pending \in Nat /\ notified \in Nat
  /\ wpc \in {"unborn", "load", "produce", "export", "publish", "notify", "notifyAgain",
              "wait", "waiting", "checkStop", "exited"}
  /\ timedOut \in BOOLEAN /\ notify \in Nat
  /\ forceFlushM \in Callers \union {Nobody} /\ shutdownM \in Stoppers \union {Nobody}
  /\ pc \in [Callers -> {"idle", "acquire", "pred", "compare", "wake", "notify", "check",
                         "block", "waiting", "relock", "sliceOver", "exporter", "return",
                         "setStop", "notifyStop", "join", "exporterShutdown", "done"}]
  /\ sequence \in [Callers -> Nat] /\ mark \in [Callers -> Nat]
  /\ sliceOver \in [Callers -> BOOLEAN] /\ result \in [Callers -> BOOLEAN]
  /\ exporterShutdowns \in {0, 1}

\* A ForceFlush or Shutdown that returns true was answered by a collection
\* that began after the call, whoever else flushed or stopped meanwhile: all
\* that was recorded before it reached the exporter, or was in a collection
\* that had to be thrown away.
FlushDelivers ==
  \A c \in Callers :
    pc[c] = "done" /\ result[c] => exported >= mark[c] \/ lost >= mark[c]

\* Shutdown is a completion barrier: when any call of it returns, the worker
\* has left and the exporter has been shut down, by one caller only.
ShutdownBarrier ==
  \A s \in Stoppers :
    pc[s] = "done" => exporterShutdowns = 1 /\ wpc \in {"unborn", "exited"}

\* Nothing is handed to the exporter after its Shutdown.
NoExportAfterShutdown == [][exported' # exported => exporterShutdowns = 0]_vars

(***************************************************************************)
(* The inductive invariant behind these.                                   *)
(***************************************************************************)

\* All that was recorded up to n was in a collection that has ended.
Covered(n) == n <= exported \/ n <= lost

Flushing == {"pred", "compare", "wake", "notify", "check", "block", "waiting", "relock",
             "sliceOver", "exporter", "return"}
Stopping == {"setStop", "notifyStop", "join", "exporterShutdown"}

\* A collection never reaches less far than the one before it.
DataInv ==
  /\ exported <= recorded /\ lost <= recorded /\ collected <= recorded
  /\ wpc = "export" => exported <= collected /\ lost <= collected

\* What the cycle in progress covers of the flushes it will answer, and what
\* is covered of those that are answered.
FlushInv ==
  /\ notified <= pending /\ notify <= pending
  /\ \A c \in Callers :
       /\ pc[c] = "idle" => mark[c] = 0 /\ result[c] = FALSE
       /\ pc[c] = "acquire" => mark[c] = 0
       /\ pc[c] \in Flushing => sequence[c] >= 1
       /\ sequence[c] <= pending /\ mark[c] <= recorded
       /\ sequence[c] >= 1 =>
            /\ sequence[c] <= notified => Covered(mark[c])
            /\ wpc = "export" /\ sequence[c] <= notify => mark[c] <= collected
            /\ wpc = "publish" /\ sequence[c] <= notify => Covered(mark[c])
       /\ pc[c] \in Stopping \union {"done"} /\ result[c] = TRUE => Covered(mark[c])

\* One stopper at a time is past shutdown_m_, and the exporter is shut down
\* by the first, when there is no worker any more.
StopInv ==
  /\ shutdown = FALSE =>
       /\ exporterShutdowns = 0 /\ shutdownM = Nobody
       /\ \A s \in Stoppers : pc[s] = "idle"
  /\ shutdown = TRUE => shutdownM # Nobody \/ exporterShutdowns = 1
  /\ shutdownM # Nobody => exporterShutdowns = 0
  /\ exporterShutdowns = 1 => wpc \in {"unborn", "exited"}
  /\ \A s \in Stoppers :
       /\ pc[s] \in Flushing \union Stopping \union {"acquire"} => shutdownM = s
       /\ pc[s] = "exporterShutdown" => wpc \in {"unborn", "exited"}
       /\ pc[s] = "done" => exporterShutdowns = 1

RInv == TypeOK /\ DataInv /\ FlushInv /\ StopInv

(* Liveness.                                                               *)

\* A flush returns, once there is a worker to answer it or a shutdown to end
\* it, although the notification it waits for can be lost.
FlushReturns ==
  \A f \in Flushers :
    (pc[f] # "idle" /\ (wpc # "unborn" \/ stopRequested)) ~> (pc[f] = "done")

\* Shutdown returns, with or without a worker, with other flushes under way.
ShutdownReturns == \A s \in Stoppers : (pc[s] # "idle") ~> (pc[s] = "done")

\* Unless collections keep being thrown away because they take too long, what
\* is recorded is exported without any flush, or the reader is shut down.
EventuallyExported ==
  <>[][~CollectTimedOut]_vars =>
    \A n \in 1..MaxRecords :
      (recorded >= n /\ wpc # "unborn") ~> (exported >= n \/ shutdown)
=============================================================================
