------------------- MODULE BatchLogRecordProcessor_proofs --------------------
(***************************************************************************)
(* Safety of the batch log record processor, for any threads and sizes.    *)
(***************************************************************************)
EXTENDS BatchLogRecordProcessor, BatchProcessor_proofs

USE SizesAssumption, ThreadsAssumption
USE DEF bufferVars, flagVars, mutexVars, exportVars, workerVars, producerVars,
        flushVars, stopVars

\* OnEmitSize only moves the producer on, and may wake the worker.
LEMMA OnEmitSizeInv ==
  ASSUME BInv, NEW p \in Producers, OnEmitSize(p)
  PROVE  BInv'
<1> USE DEF BInv, OnEmitSize, PGoto
<1>1. TypeOK' BY DEF TypeOK
<1>2. QueueInv' BY DEF QueueInv, QueueBounded, TypeOK
<1>3. FlushInv' BY DEF FlushInv, TypeOK
<1>4. StopInv' BY DEF StopInv, Stopping, TypeOK
<1>5. QED BY <1>1, <1>2, <1>3, <1>4

\* OnEmitSetWakeup only moves the producer on, and may wake the worker.
LEMMA OnEmitSetWakeupInv ==
  ASSUME BInv, NEW p \in Producers, OnEmitSetWakeup(p)
  PROVE  BInv'
<1> USE DEF BInv, OnEmitSetWakeup, PGoto
<1>1. TypeOK' BY DEF TypeOK
<1>2. QueueInv' BY DEF QueueInv, QueueBounded, TypeOK
<1>3. FlushInv' BY DEF FlushInv, TypeOK
<1>4. StopInv' BY DEF StopInv, Stopping, TypeOK
<1>5. QED BY <1>1, <1>2, <1>3, <1>4

\* OnEmitNotify only moves the producer on, and may wake the worker.
LEMMA OnEmitNotifyInv ==
  ASSUME BInv, NEW p \in Producers, OnEmitNotify(p)
  PROVE  BInv'
<1> USE DEF BInv, OnEmitNotify, PGoto, NotifyWorker
<1>1. TypeOK' BY DEF TypeOK
<1>2. QueueInv' BY DEF QueueInv, QueueBounded, TypeOK
<1>3. FlushInv' BY DEF FlushInv, TypeOK
<1>4. StopInv' BY DEF StopInv, Stopping, TypeOK
<1>5. QED BY <1>1, <1>2, <1>3, <1>4

\* A step is one that the two processors share, or the end of OnEmit.
LEMMA NextCases ==
  Next => \/ SharedStep \/ Wakeups \/ Quiescent
          \/ \E p \in Producers : OnEmitSize(p) \/ OnEmitSetWakeup(p) \/ OnEmitNotify(p)
BY DEF Next, LogDoBackgroundWork, OnEmit, LogForceFlush, LogInternalShutdown, SharedStep

\* Every step of the processor preserves the invariant.
LEMMA NextBInv == BInv /\ [Next]_vars => BInv'
<1>1. SUFFICES ASSUME BInv, [Next]_vars PROVE BInv'
  OBVIOUS
<1>2. CASE SharedStep \/ Wakeups \/ Quiescent BY <1>1, <1>2, SharedStepBInv
<1>3. CASE \E p \in Producers : OnEmitSize(p) \/ OnEmitSetWakeup(p) \/ OnEmitNotify(p)
  BY <1>1, <1>3, OnEmitSizeInv, OnEmitSetWakeupInv, OnEmitNotifyInv
<1>4. CASE UNCHANGED vars BY <1>1, <1>4, StutterBInv
<1>5. QED BY <1>1, <1>2, <1>3, <1>4, NextCases

\* The inductive invariant, for any number of threads and any sizes.
THEOREM LogInvariance == Spec => []BInv
BY InitBInv, NextBInv, PTL DEF Spec

\* Type correctness.
THEOREM LogTypeCorrect == Spec => []TypeOK
<1>1. BInv => TypeOK BY DEF BInv
<1>2. QED BY <1>1, LogInvariance, PTL

\* A ForceFlush that returns true has had everything accepted before it
\* exported.
THEOREM LogFlushCorrect == Spec => []FlushDelivers
BY BInvProperties, LogInvariance, PTL

\* Shutdown drains what was accepted before it and shuts the exporter down
\* once, after the worker has left.
THEOREM LogShutdownCorrect == Spec => []ShutdownDrains
BY BInvProperties, LogInvariance, PTL

\* The buffer stays within max_queue_size and the worker within the buffer.
THEOREM LogBounded == Spec => []QueueBounded
BY BInvProperties, LogInvariance, PTL

\* Nothing is exported after the exporter's Shutdown.
THEOREM LogQuiet == Spec => NoExportAfterShutdown
<1>1. BInv /\ [Next]_vars => [exported' # exported => exporterShutdowns = 0]_vars
  <2>1. SUFFICES ASSUME BInv, Next, exported' # exported PROVE exporterShutdowns = 0
    OBVIOUS
  <2>2. CASE SharedStep \/ Wakeups \/ Quiescent BY <2>1, <2>2, SharedStepQuiet
  <2>3. CASE \E p \in Producers : OnEmitSize(p) \/ OnEmitSetWakeup(p) \/ OnEmitNotify(p)
    BY <2>1, <2>3 DEF OnEmitSize, OnEmitSetWakeup, OnEmitNotify
  <2>4. QED BY <2>1, <2>2, <2>3, NextCases
<1>2. QED BY <1>1, LogInvariance, PTL DEF Spec, NoExportAfterShutdown
=============================================================================
