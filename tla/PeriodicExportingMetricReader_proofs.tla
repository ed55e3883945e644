---------------- MODULE PeriodicExportingMetricReader_proofs ----------------
(***************************************************************************)
(* RInv is an invariant of PeriodicExportingMetricReader for any number of *)
(* callers and measurements, and with it FlushDelivers, ShutdownBarrier    *)
(* and NoExportAfterShutdown.                                              *)
(***************************************************************************)
EXTENDS PeriodicExportingMetricReader, TLAPS

USE ReaderAssumption
USE DEF dataVars, flagVars, workerVars, callVars, Callers

\* The invariant holds of a reader that has just been constructed.
LEMMA InitRInv == Init => RInv
<1>1. SUFFICES ASSUME Init PROVE RInv
  OBVIOUS
<1>2. TypeOK
  <2>1. /\ pc \in [Callers -> {"idle", "acquire", "pred", "compare", "wake", "notify",
               "check", "block", "waiting", "relock", "sliceOver", "exporter", "return",
               "setStop", "notifyStop", "join", "exporterShutdown", "done"}]
        /\ sequence \in [Callers -> Nat] /\ mark \in [Callers -> Nat]
        /\ sliceOver \in [Callers -> BOOLEAN] /\ result \in [Callers -> BOOLEAN]
    BY <1>1 DEF Init
  <2>2. QED BY <1>1, <2>1 DEF Init, TypeOK
<1>3. DataInv BY <1>1 DEF Init, DataInv
<1>4. FlushInv BY <1>1 DEF Init, FlushInv, Flushing, Stopping, Covered
<1>5. StopInv BY <1>1 DEF Init, StopInv, Flushing, Stopping
<1>6. QED BY <1>2, <1>3, <1>4, <1>5 DEF RInv

-----------------------------------------------------------------------------
(* The worker's steps, and the recording of a measurement.                 *)

\* Recording a measurement leaves what is covered as it was.
LEMMA RecordInv ==
  ASSUME RInv, Record
  PROVE  RInv'
<1> USE DEF RInv, Record
<1>1. TypeOK' BY DEF TypeOK, StopInv, Stopping, Flushing
<1>2. DataInv' BY DEF DataInv, TypeOK
<1>3. FlushInv' BY DEF FlushInv, DataInv, TypeOK, Covered, Flushing, Stopping
<1>4. StopInv' BY DEF StopInv, TypeOK, Flushing, Stopping
<1>5. QED BY <1>1, <1>2, <1>3, <1>4

\* The thread starts before any shutdown.
LEMMA OnInitializedInv ==
  ASSUME RInv, OnInitialized
  PROVE  RInv'
<1> USE DEF RInv, OnInitialized, Registrable, WGoto
<1>1. TypeOK' BY DEF TypeOK, StopInv, Stopping, Flushing
<1>2. DataInv' BY DEF DataInv, TypeOK
<1>3. FlushInv' BY DEF FlushInv, DataInv, TypeOK, Covered, Flushing, Stopping
<1>4. StopInv' BY DEF StopInv, TypeOK, Flushing, Stopping
<1>5. QED BY <1>1, <1>2, <1>3, <1>4

\* The cycle's sequence number is one that has been given out.
LEMMA LoadPendingInv ==
  ASSUME RInv, LoadPending
  PROVE  RInv'
<1> USE DEF RInv, LoadPending, WGoto
<1>1. TypeOK' BY DEF TypeOK, StopInv, Stopping, Flushing
<1>2. DataInv' BY DEF DataInv, TypeOK
<1>3. FlushInv' BY DEF FlushInv, DataInv, TypeOK, Covered, Flushing, Stopping
<1>4. StopInv' BY DEF StopInv, TypeOK, Flushing, Stopping
<1>5. QED BY <1>1, <1>2, <1>3, <1>4

\* The collection reaches the mark of every flush pending when the cycle began.
LEMMA ProduceInv ==
  ASSUME RInv, Produce
  PROVE  RInv'
<1> USE DEF RInv, Produce, WGoto
<1>1. TypeOK' BY DEF TypeOK, StopInv, Stopping, Flushing
<1>2. DataInv' BY DEF DataInv, TypeOK
<1>3. FlushInv' BY DEF FlushInv, DataInv, TypeOK, Covered, Flushing, Stopping
<1>4. StopInv' BY DEF StopInv, TypeOK, Flushing, Stopping
<1>5. QED BY <1>1, <1>2, <1>3, <1>4

\* An exported collection covers what it collected, and what was covered before.
LEMMA ExporterExportInv ==
  ASSUME RInv, ExporterExport
  PROVE  RInv'
<1> USE DEF RInv, ExporterExport, WGoto
<1>1. TypeOK' BY DEF TypeOK, StopInv, Stopping, Flushing
<1>2. DataInv' BY DEF DataInv, TypeOK
<1>3. FlushInv' BY DEF FlushInv, DataInv, TypeOK, Covered, Flushing, Stopping
<1>4. StopInv' BY DEF StopInv, TypeOK, Flushing, Stopping
<1>5. QED BY <1>1, <1>2, <1>3, <1>4

\* A collection thrown away is accounted for as lost.
LEMMA CollectTimedOutInv ==
  ASSUME RInv, CollectTimedOut
  PROVE  RInv'
<1> USE DEF RInv, CollectTimedOut, WGoto
<1>1. TypeOK' BY DEF TypeOK, StopInv, Stopping, Flushing
<1>2. DataInv' BY DEF DataInv, TypeOK
<1>3. FlushInv' BY DEF FlushInv, DataInv, TypeOK, Covered, Flushing, Stopping
<1>4. StopInv' BY DEF StopInv, TypeOK, Flushing, Stopping
<1>5. QED BY <1>1, <1>2, <1>3, <1>4

\* The flushes answered are the ones the cycle began for.
LEMMA PublishNotifiedInv ==
  ASSUME RInv, PublishNotified
  PROVE  RInv'
<1> USE DEF RInv, PublishNotified, WGoto
<1>1. TypeOK' BY DEF TypeOK, StopInv, Stopping, Flushing
<1>2. DataInv' BY DEF DataInv, TypeOK
<1>3. FlushInv' BY DEF FlushInv, DataInv, TypeOK, Covered, Flushing, Stopping
<1>4. StopInv' BY DEF StopInv, TypeOK, Flushing, Stopping
<1>5. QED BY <1>1, <1>2, <1>3, <1>4

\* Waking the flushers promises nothing.
LEMMA NotifyFlushersInv ==
  ASSUME RInv, NotifyFlushers
  PROVE  RInv'
<1> USE DEF RInv, NotifyFlushers, WGoto
<1>1. TypeOK' BY DEF TypeOK, StopInv, Stopping, Flushing
<1>2. DataInv' BY DEF DataInv, TypeOK
<1>3. FlushInv' BY DEF FlushInv, DataInv, TypeOK, Covered, Flushing, Stopping
<1>4. StopInv' BY DEF StopInv, TypeOK, Flushing, Stopping
<1>5. QED BY <1>1, <1>2, <1>3, <1>4

\* Using up the wakeup flag disturbs nothing.
LEMMA WaitPredInv ==
  ASSUME RInv, WaitPred
  PROVE  RInv'
<1> USE DEF RInv, WaitPred, WGoto
<1>1. TypeOK' BY DEF TypeOK, StopInv, Stopping, Flushing
<1>2. DataInv' BY DEF DataInv, TypeOK
<1>3. FlushInv' BY DEF FlushInv, DataInv, TypeOK, Covered, Flushing, Stopping
<1>4. StopInv' BY DEF StopInv, TypeOK, Flushing, Stopping
<1>5. QED BY <1>1, <1>2, <1>3, <1>4

\* WaitTimeout changes no sequence, no mark and no mutex of Shutdown.
LEMMA WaitTimeoutInv ==
  ASSUME RInv, WaitTimeout
  PROVE  RInv'
<1> USE DEF RInv, WaitTimeout, WGoto
<1>1. TypeOK' BY DEF TypeOK, StopInv, Stopping, Flushing
<1>2. DataInv' BY DEF DataInv, TypeOK
<1>3. FlushInv' BY DEF FlushInv, DataInv, TypeOK, Covered, Flushing, Stopping
<1>4. StopInv' BY DEF StopInv, TypeOK, Flushing, Stopping
<1>5. QED BY <1>1, <1>2, <1>3, <1>4

\* WaitSpurious changes no sequence, no mark and no mutex of Shutdown.
LEMMA WaitSpuriousInv ==
  ASSUME RInv, WaitSpurious
  PROVE  RInv'
<1> USE DEF RInv, WaitSpurious, WGoto
<1>1. TypeOK' BY DEF TypeOK, StopInv, Stopping, Flushing
<1>2. DataInv' BY DEF DataInv, TypeOK
<1>3. FlushInv' BY DEF FlushInv, DataInv, TypeOK, Covered, Flushing, Stopping
<1>4. StopInv' BY DEF StopInv, TypeOK, Flushing, Stopping
<1>5. QED BY <1>1, <1>2, <1>3, <1>4

\* The worker leaves after its cycle.
LEMMA CheckStopInv ==
  ASSUME RInv, CheckStop
  PROVE  RInv'
<1> USE DEF RInv, CheckStop, WGoto
<1>1. TypeOK' BY DEF TypeOK, StopInv, Stopping, Flushing
<1>2. DataInv' BY DEF DataInv, TypeOK
<1>3. FlushInv' BY DEF FlushInv, DataInv, TypeOK, Covered, Flushing, Stopping
<1>4. StopInv' BY DEF StopInv, TypeOK, Flushing, Stopping
<1>5. QED BY <1>1, <1>2, <1>3, <1>4

-----------------------------------------------------------------------------
(* The steps of the callers.                                               *)

\* A flush of a reader that is shut down returns false.
LEMMA ForceFlushCallInv ==
  ASSUME RInv, NEW f \in Flushers, ForceFlushCall(f)
  PROVE  RInv'
<1> USE DEF RInv, ForceFlushCall, Goto
<1>1. TypeOK' BY DEF TypeOK, StopInv, Stopping, Flushing
<1>2. DataInv' BY DEF DataInv, TypeOK
<1>3. FlushInv' BY DEF FlushInv, DataInv, TypeOK, Covered, Flushing, Stopping
<1>4. StopInv' BY DEF StopInv, TypeOK, Flushing, Stopping
<1>5. QED BY <1>1, <1>2, <1>3, <1>4

\* A new flush has a number nobody has answered yet.
LEMMA FlushAcquireInv ==
  ASSUME RInv, NEW c \in Callers, FlushAcquire(c)
  PROVE  RInv'
<1> USE DEF RInv, FlushAcquire, Goto
<1>1. TypeOK' BY DEF TypeOK, StopInv, Stopping, Flushing
<1>2. DataInv' BY DEF DataInv, TypeOK
<1>3. FlushInv' BY DEF FlushInv, DataInv, TypeOK, Covered, Flushing, Stopping
<1>4. StopInv' BY DEF StopInv, TypeOK, Flushing, Stopping
<1>5. QED BY <1>1, <1>2, <1>3, <1>4

\* FlushPredStop changes no sequence, no mark and no mutex of Shutdown.
LEMMA FlushPredStopInv ==
  ASSUME RInv, NEW c \in Callers, FlushPredStop(c)
  PROVE  RInv'
<1> USE DEF RInv, FlushPredStop, Goto
<1>1. TypeOK' BY DEF TypeOK, StopInv, Stopping, Flushing
<1>2. DataInv' BY DEF DataInv, TypeOK
<1>3. FlushInv' BY DEF FlushInv, DataInv, TypeOK, Covered, Flushing, Stopping
<1>4. StopInv' BY DEF StopInv, TypeOK, Flushing, Stopping
<1>5. QED BY <1>1, <1>2, <1>3, <1>4

\* FlushCompare changes no sequence, no mark and no mutex of Shutdown.
LEMMA FlushCompareInv ==
  ASSUME RInv, NEW c \in Callers, FlushCompare(c)
  PROVE  RInv'
<1> USE DEF RInv, FlushCompare, Goto
<1>1. TypeOK' BY DEF TypeOK, StopInv, Stopping, Flushing
<1>2. DataInv' BY DEF DataInv, TypeOK
<1>3. FlushInv' BY DEF FlushInv, DataInv, TypeOK, Covered, Flushing, Stopping
<1>4. StopInv' BY DEF StopInv, TypeOK, Flushing, Stopping
<1>5. QED BY <1>1, <1>2, <1>3, <1>4

\* FlushSetWakeup changes no sequence, no mark and no mutex of Shutdown.
LEMMA FlushSetWakeupInv ==
  ASSUME RInv, NEW c \in Callers, FlushSetWakeup(c)
  PROVE  RInv'
<1> USE DEF RInv, FlushSetWakeup, Goto
<1>1. TypeOK' BY DEF TypeOK, StopInv, Stopping, Flushing
<1>2. DataInv' BY DEF DataInv, TypeOK
<1>3. FlushInv' BY DEF FlushInv, DataInv, TypeOK, Covered, Flushing, Stopping
<1>4. StopInv' BY DEF StopInv, TypeOK, Flushing, Stopping
<1>5. QED BY <1>1, <1>2, <1>3, <1>4

\* FlushNotify changes no sequence, no mark and no mutex of Shutdown.
LEMMA FlushNotifyInv ==
  ASSUME RInv, NEW c \in Callers, FlushNotify(c)
  PROVE  RInv'
<1> USE DEF RInv, FlushNotify, Goto, NotifyWorker
<1>1. TypeOK' BY DEF TypeOK, StopInv, Stopping, Flushing
<1>2. DataInv' BY DEF DataInv, TypeOK
<1>3. FlushInv' BY DEF FlushInv, DataInv, TypeOK, Covered, Flushing, Stopping
<1>4. StopInv' BY DEF StopInv, TypeOK, Flushing, Stopping
<1>5. QED BY <1>1, <1>2, <1>3, <1>4

\* FlushCheck changes no sequence, no mark and no mutex of Shutdown.
LEMMA FlushCheckInv ==
  ASSUME RInv, NEW c \in Callers, FlushCheck(c)
  PROVE  RInv'
<1> USE DEF RInv, FlushCheck, Goto
<1>1. TypeOK' BY DEF TypeOK, StopInv, Stopping, Flushing
<1>2. DataInv' BY DEF DataInv, TypeOK
<1>3. FlushInv' BY DEF FlushInv, DataInv, TypeOK, Covered, Flushing, Stopping
<1>4. StopInv' BY DEF StopInv, TypeOK, Flushing, Stopping
<1>5. QED BY <1>1, <1>2, <1>3, <1>4

\* FlushBlock changes no sequence, no mark and no mutex of Shutdown.
LEMMA FlushBlockInv ==
  ASSUME RInv, NEW c \in Callers, FlushBlock(c)
  PROVE  RInv'
<1> USE DEF RInv, FlushBlock, Goto
<1>1. TypeOK' BY DEF TypeOK, StopInv, Stopping, Flushing
<1>2. DataInv' BY DEF DataInv, TypeOK
<1>3. FlushInv' BY DEF FlushInv, DataInv, TypeOK, Covered, Flushing, Stopping
<1>4. StopInv' BY DEF StopInv, TypeOK, Flushing, Stopping
<1>5. QED BY <1>1, <1>2, <1>3, <1>4

\* FlushSlice changes no sequence, no mark and no mutex of Shutdown.
LEMMA FlushSliceInv ==
  ASSUME RInv, NEW c \in Callers, FlushSlice(c)
  PROVE  RInv'
<1> USE DEF RInv, FlushSlice, Goto
<1>1. TypeOK' BY DEF TypeOK, StopInv, Stopping, Flushing
<1>2. DataInv' BY DEF DataInv, TypeOK
<1>3. FlushInv' BY DEF FlushInv, DataInv, TypeOK, Covered, Flushing, Stopping
<1>4. StopInv' BY DEF StopInv, TypeOK, Flushing, Stopping
<1>5. QED BY <1>1, <1>2, <1>3, <1>4

\* FlushSpurious changes no sequence, no mark and no mutex of Shutdown.
LEMMA FlushSpuriousInv ==
  ASSUME RInv, NEW c \in Callers, FlushSpurious(c)
  PROVE  RInv'
<1> USE DEF RInv, FlushSpurious, Goto
<1>1. TypeOK' BY DEF TypeOK, StopInv, Stopping, Flushing
<1>2. DataInv' BY DEF DataInv, TypeOK
<1>3. FlushInv' BY DEF FlushInv, DataInv, TypeOK, Covered, Flushing, Stopping
<1>4. StopInv' BY DEF StopInv, TypeOK, Flushing, Stopping
<1>5. QED BY <1>1, <1>2, <1>3, <1>4

\* FlushRelock changes no sequence, no mark and no mutex of Shutdown.
LEMMA FlushRelockInv ==
  ASSUME RInv, NEW c \in Callers, FlushRelock(c)
  PROVE  RInv'
<1> USE DEF RInv, FlushRelock, Goto
<1>1. TypeOK' BY DEF TypeOK, StopInv, Stopping, Flushing
<1>2. DataInv' BY DEF DataInv, TypeOK
<1>3. FlushInv' BY DEF FlushInv, DataInv, TypeOK, Covered, Flushing, Stopping
<1>4. StopInv' BY DEF StopInv, TypeOK, Flushing, Stopping
<1>5. QED BY <1>1, <1>2, <1>3, <1>4

\* FlushAgain changes no sequence, no mark and no mutex of Shutdown.
LEMMA FlushAgainInv ==
  ASSUME RInv, NEW c \in Callers, FlushAgain(c)
  PROVE  RInv'
<1> USE DEF RInv, FlushAgain, Goto
<1>1. TypeOK' BY DEF TypeOK, StopInv, Stopping, Flushing
<1>2. DataInv' BY DEF DataInv, TypeOK
<1>3. FlushInv' BY DEF FlushInv, DataInv, TypeOK, Covered, Flushing, Stopping
<1>4. StopInv' BY DEF StopInv, TypeOK, Flushing, Stopping
<1>5. QED BY <1>1, <1>2, <1>3, <1>4

\* FlushGiveUp changes no sequence, no mark and no mutex of Shutdown.
LEMMA FlushGiveUpInv ==
  ASSUME RInv, NEW c \in Callers, FlushGiveUp(c)
  PROVE  RInv'
<1> USE DEF RInv, FlushGiveUp, Goto
<1>1. TypeOK' BY DEF TypeOK, StopInv, Stopping, Flushing
<1>2. DataInv' BY DEF DataInv, TypeOK
<1>3. FlushInv' BY DEF FlushInv, DataInv, TypeOK, Covered, Flushing, Stopping
<1>4. StopInv' BY DEF StopInv, TypeOK, Flushing, Stopping
<1>5. QED BY <1>1, <1>2, <1>3, <1>4

\* FlushExporter changes no sequence, no mark and no mutex of Shutdown.
LEMMA FlushExporterInv ==
  ASSUME RInv, NEW c \in Callers, FlushExporter(c)
  PROVE  RInv'
<1> USE DEF RInv, FlushExporter, Goto
<1>1. TypeOK' BY DEF TypeOK, StopInv, Stopping, Flushing
<1>2. DataInv' BY DEF DataInv, TypeOK
<1>3. FlushInv' BY DEF FlushInv, DataInv, TypeOK, Covered, Flushing, Stopping
<1>4. StopInv' BY DEF StopInv, TypeOK, Flushing, Stopping
<1>5. QED BY <1>1, <1>2, <1>3, <1>4

\* A flush that returns true has been answered.
LEMMA FlushReturnInv ==
  ASSUME RInv, NEW c \in Callers, FlushReturn(c)
  PROVE  RInv'
<1> USE DEF RInv, FlushReturn, Goto
<1>1. TypeOK'
  <2>1. result' \in [Callers -> BOOLEAN] BY DEF TypeOK
  <2>2. QED BY <2>1 DEF TypeOK
<1>2. DataInv' BY DEF DataInv, TypeOK
<1>3. FlushInv'
  <2>1. result'[c] = TRUE => notified >= sequence[c] BY DEF TypeOK
  <2>2. result'[c] = TRUE => Covered(mark[c]) BY <2>1 DEF FlushInv, TypeOK, Flushing
  <2>3. QED BY <2>2 DEF FlushInv, TypeOK, Covered, Flushing, Stopping
<1>4. StopInv' BY DEF StopInv, TypeOK, Flushing, Stopping
<1>5. QED BY <1>1, <1>2, <1>3, <1>4

\* One stopper enters, and later ones find the work done.
LEMMA ShutdownCallInv ==
  ASSUME RInv, NEW s \in Stoppers, ShutdownCall(s)
  PROVE  RInv'
<1> USE DEF RInv, ShutdownCall, Goto
<1>1. TypeOK' BY DEF TypeOK, StopInv, Stopping, Flushing
<1>2. DataInv' BY DEF DataInv, TypeOK
<1>3. FlushInv' BY DEF FlushInv, DataInv, TypeOK, Covered, Flushing, Stopping
<1>4. StopInv' BY DEF StopInv, TypeOK, Flushing, Stopping
<1>5. QED BY <1>1, <1>2, <1>3, <1>4

\* ShutdownSetStop changes no sequence, no mark and no mutex of Shutdown.
LEMMA ShutdownSetStopInv ==
  ASSUME RInv, NEW s \in Stoppers, ShutdownSetStop(s)
  PROVE  RInv'
<1> USE DEF RInv, ShutdownSetStop, Goto
<1>1. TypeOK' BY DEF TypeOK, StopInv, Stopping, Flushing
<1>2. DataInv' BY DEF DataInv, TypeOK
<1>3. FlushInv' BY DEF FlushInv, DataInv, TypeOK, Covered, Flushing, Stopping
<1>4. StopInv' BY DEF StopInv, TypeOK, Flushing, Stopping
<1>5. QED BY <1>1, <1>2, <1>3, <1>4

\* Without a worker thread the exporter can be shut down.
LEMMA ShutdownNotifyInv ==
  ASSUME RInv, NEW s \in Stoppers, ShutdownNotify(s)
  PROVE  RInv'
<1> USE DEF RInv, ShutdownNotify, Goto, NotifyWorker
<1>1. TypeOK' BY DEF TypeOK, StopInv, Stopping, Flushing
<1>2. DataInv' BY DEF DataInv, TypeOK
<1>3. FlushInv' BY DEF FlushInv, DataInv, TypeOK, Covered, Flushing, Stopping
<1>4. StopInv' BY DEF StopInv, TypeOK, Flushing, Stopping
<1>5. QED BY <1>1, <1>2, <1>3, <1>4

\* The worker has left when the join returns.
LEMMA ShutdownJoinInv ==
  ASSUME RInv, NEW s \in Stoppers, ShutdownJoin(s)
  PROVE  RInv'
<1> USE DEF RInv, ShutdownJoin, Goto
<1>1. TypeOK' BY DEF TypeOK, StopInv, Stopping, Flushing
<1>2. DataInv' BY DEF DataInv, TypeOK
<1>3. FlushInv' BY DEF FlushInv, DataInv, TypeOK, Covered, Flushing, Stopping
<1>4. StopInv' BY DEF StopInv, TypeOK, Flushing, Stopping
<1>5. QED BY <1>1, <1>2, <1>3, <1>4

\* The exporter is shut down for the first time.
LEMMA ExporterShutdownInv ==
  ASSUME RInv, NEW s \in Stoppers, ExporterShutdown(s)
  PROVE  RInv'
<1> USE DEF RInv, ExporterShutdown, Goto
<1>1. TypeOK'
  <2>1. result' \in [Callers -> BOOLEAN] BY DEF TypeOK
  <2>2. exporterShutdowns = 0 BY DEF StopInv, Stopping
  <2>3. QED BY <2>1, <2>2 DEF TypeOK
<1>2. DataInv' BY DEF DataInv, TypeOK
<1>3. FlushInv'
  <2>1. result'[s] = TRUE => result[s] = TRUE BY DEF TypeOK
  <2>2. QED BY <2>1 DEF FlushInv, TypeOK, Covered, Flushing, Stopping
<1>4. StopInv' BY DEF StopInv, TypeOK, Flushing, Stopping
<1>5. QED BY <1>1, <1>2, <1>3, <1>4

-----------------------------------------------------------------------------
(* The specification.                                                      *)

\* Doing nothing preserves the invariant.
LEMMA StutterRInv ==
  ASSUME RInv, UNCHANGED vars
  PROVE  RInv'
<1> USE DEF RInv, vars
<1>1. TypeOK' BY DEF TypeOK
<1>2. DataInv' BY DEF DataInv
<1>3. FlushInv' BY DEF FlushInv, Covered
<1>4. StopInv' BY DEF StopInv
<1>5. QED BY <1>1, <1>2, <1>3, <1>4

\* OnForceFlush preserves it, called from ForceFlush or from OnShutDown.
LEMMA OnForceFlushInv ==
  ASSUME RInv, NEW c \in Callers, OnForceFlush(c)
  PROVE  RInv'
BY FlushAcquireInv, FlushPredStopInv, FlushCompareInv, FlushSetWakeupInv,
   FlushNotifyInv, FlushCheckInv, FlushBlockInv, FlushRelockInv, FlushAgainInv,
   FlushGiveUpInv, FlushExporterInv, FlushReturnInv
DEF OnForceFlush

\* Every step preserves the invariant.
LEMMA StepRInv ==
  ASSUME RInv, [Next]_vars
  PROVE  RInv'
<1>1. CASE DoBackgroundWork
  BY <1>1, LoadPendingInv, ProduceInv, ExporterExportInv, CollectTimedOutInv,
     PublishNotifiedInv, NotifyFlushersInv, WaitPredInv, CheckStopInv
  DEF DoBackgroundWork, CollectAndExportOnce
<1>2. CASE Record \/ OnInitialized \/ WaitTimeout \/ WaitSpurious
  BY <1>2, RecordInv, OnInitializedInv, WaitTimeoutInv, WaitSpuriousInv
<1>3. CASE \E f \in Flushers : ForceFlushCall(f) \/ OnForceFlush(f)
  BY <1>3, ForceFlushCallInv, OnForceFlushInv
<1>4. CASE \E s \in Stoppers : ShutdownCall(s) \/ OnShutDown(s)
  BY <1>4, ShutdownCallInv, OnForceFlushInv, ShutdownSetStopInv, ShutdownNotifyInv,
     ShutdownJoinInv, ExporterShutdownInv
  DEF OnShutDown
<1>5. CASE \E c \in Callers : FlushSlice(c) \/ FlushSpurious(c)
  BY <1>5, FlushSliceInv, FlushSpuriousInv
<1>6. CASE Quiescent \/ UNCHANGED vars BY <1>6, StutterRInv DEF Quiescent
<1>7. QED BY <1>1, <1>2, <1>3, <1>4, <1>5, <1>6 DEF Next

\* RInv is an invariant of the reader.
THEOREM ReaderInvariance == Spec => []RInv
<1>1. Init => RInv BY InitRInv
<1>2. RInv /\ [Next]_vars => RInv' BY StepRInv
<1>3. QED BY <1>1, <1>2, PTL DEF Spec

\* The members and locals keep their types.
THEOREM ReaderTypeCorrect == Spec => []TypeOK
<1>1. RInv => TypeOK BY DEF RInv
<1>2. QED BY <1>1, ReaderInvariance, PTL

\* ForceFlush and Shutdown return true only for what a collection begun
\* after the call has covered.
THEOREM ReaderFlushCorrect == Spec => []FlushDelivers
<1>1. RInv => FlushDelivers BY DEF RInv, FlushInv, FlushDelivers, Covered, TypeOK
<1>2. QED BY <1>1, ReaderInvariance, PTL

\* Whichever call of Shutdown returns, the reader is shut down by then.
THEOREM ReaderBarrier == Spec => []ShutdownBarrier
<1>1. RInv => ShutdownBarrier BY DEF RInv, StopInv, ShutdownBarrier
<1>2. QED BY <1>1, ReaderInvariance, PTL

\* Only ExporterExport changes exported, and the worker has left, or never
\* was there, when the exporter is shut down.
LEMMA StepQuiet ==
  ASSUME RInv, [Next]_vars, exported' # exported
  PROVE  exporterShutdowns = 0
<1>1. ExporterExport
  BY DEF Next, vars, Quiescent, DoBackgroundWork, CollectAndExportOnce, OnForceFlush,
         OnShutDown, Record, OnInitialized, LoadPending, Produce, CollectTimedOut,
         PublishNotified, NotifyFlushers, WaitPred, WaitTimeout, WaitSpurious,
         CheckStop, ForceFlushCall, FlushAcquire, FlushPredStop, FlushCompare,
         FlushSetWakeup, FlushNotify, FlushCheck, FlushBlock, FlushSlice, FlushSpurious,
         FlushRelock, FlushAgain, FlushGiveUp, FlushExporter, FlushReturn, ShutdownCall,
         ShutdownSetStop, ShutdownNotify, ShutdownJoin, ExporterShutdown
<1>2. QED BY <1>1 DEF ExporterExport, WGoto, RInv, StopInv, TypeOK

\* Nothing is exported after the exporter's shutdown.
THEOREM ReaderQuiet == Spec => NoExportAfterShutdown
<1>1. RInv /\ [Next]_vars => [exported' # exported => exporterShutdowns = 0]_vars
  BY StepQuiet
<1>2. QED BY <1>1, ReaderInvariance, PTL DEF Spec, NoExportAfterShutdown
=============================================================================
