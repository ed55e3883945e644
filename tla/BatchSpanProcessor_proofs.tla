---------------------- MODULE BatchSpanProcessor_proofs ----------------------
(***************************************************************************)
(* Safety of the batch span processor, for any threads, sizes and calls.   *)
(***************************************************************************)
EXTENDS BatchSpanProcessor, BatchProcessor_proofs

USE SizesAssumption, ThreadsAssumption
USE DEF bufferVars, flagVars, mutexVars, exportVars, workerVars, producerVars,
        flushVars, stopVars

\* OnEndSize only moves the producer on, and may wake the worker.
LEMMA OnEndSizeInv ==
  ASSUME BInv, NEW p \in Producers, OnEndSize(p)
  PROVE  BInv'
<1> USE DEF BInv, OnEndSize, PGoto
<1>1. TypeOK' BY DEF TypeOK
<1>2. QueueInv' BY DEF QueueInv, QueueBounded, TypeOK
<1>3. FlushInv' BY DEF FlushInv, TypeOK
<1>4. StopInv' BY DEF StopInv, Stopping, TypeOK
<1>5. QED BY <1>1, <1>2, <1>3, <1>4

\* OnEndLockedNotify only moves the producer on, and may wake the worker.
LEMMA OnEndLockedNotifyInv ==
  ASSUME BInv, NEW p \in Producers, OnEndLockedNotify(p)
  PROVE  BInv'
<1> USE DEF BInv, OnEndLockedNotify, PGoto, NotifyWorker
<1>1. TypeOK' BY DEF TypeOK
<1>2. QueueInv' BY DEF QueueInv, QueueBounded, TypeOK
<1>3. FlushInv' BY DEF FlushInv, TypeOK
<1>4. StopInv' BY DEF StopInv, Stopping, TypeOK
<1>5. QED BY <1>1, <1>2, <1>3, <1>4

\* OnEndNotify only moves the producer on, and may wake the worker.
LEMMA OnEndNotifyInv ==
  ASSUME BInv, NEW p \in Producers, OnEndNotify(p)
  PROVE  BInv'
<1> USE DEF BInv, OnEndNotify, PGoto, NotifyWorker
<1>1. TypeOK' BY DEF TypeOK
<1>2. QueueInv' BY DEF QueueInv, QueueBounded, TypeOK
<1>3. FlushInv' BY DEF FlushInv, TypeOK
<1>4. StopInv' BY DEF StopInv, Stopping, TypeOK
<1>5. QED BY <1>1, <1>2, <1>3, <1>4

\* Every step of the processor preserves the invariant.
LEMMA NextBInv == BInv /\ [Next]_vars => BInv'
<1>1. SUFFICES ASSUME BInv, [Next]_vars PROVE BInv'
  OBVIOUS
<1>2. CASE SharedStep \/ Wakeups \/ Quiescent BY <1>1, <1>2, SharedStepBInv
<1>3. CASE \E p \in Producers : OnEndSize(p) \/ OnEndLockedNotify(p) \/ OnEndNotify(p)
  BY <1>1, <1>3, OnEndSizeInv, OnEndLockedNotifyInv, OnEndNotifyInv
<1>4. CASE UNCHANGED vars BY <1>1, <1>4, StutterBInv
<1>5. QED BY <1>1, <1>2, <1>3, <1>4 DEF Next, Step

\* The inductive invariant, for any number of threads and any sizes.
THEOREM SpanInvariance == Spec => []BInv
BY InitBInv, NextBInv, PTL DEF Spec

\* Type correctness.
THEOREM SpanTypeCorrect == Spec => []TypeOK
<1>1. BInv => TypeOK BY DEF BInv
<1>2. QED BY <1>1, SpanInvariance, PTL

\* A ForceFlush that returns true has had everything accepted before it
\* exported.
THEOREM SpanFlushCorrect == Spec => []FlushDelivers
BY BInvProperties, SpanInvariance, PTL

\* Shutdown drains what was accepted before it and shuts the exporter down
\* once, after the worker has left.
THEOREM SpanShutdownCorrect == Spec => []ShutdownDrains
BY BInvProperties, SpanInvariance, PTL

\* The buffer stays within max_queue_size and the worker within the buffer.
THEOREM SpanBounded == Spec => []QueueBounded
BY BInvProperties, SpanInvariance, PTL

\* Nothing is exported after the exporter's Shutdown.
THEOREM SpanQuiet == Spec => NoExportAfterShutdown
<1>1. BInv /\ [Next]_vars => [exported' # exported => exporterShutdowns = 0]_vars
  <2>1. SUFFICES ASSUME BInv, Next, exported' # exported PROVE exporterShutdowns = 0
    OBVIOUS
  <2>2. CASE SharedStep \/ Wakeups \/ Quiescent BY <2>1, <2>2, SharedStepQuiet
  <2>3. CASE \E p \in Producers : OnEndSize(p) \/ OnEndLockedNotify(p) \/ OnEndNotify(p)
    BY <2>1, <2>3 DEF OnEndSize, OnEndLockedNotify, OnEndNotify
  <2>4. QED BY <2>1, <2>2, <2>3 DEF Next, Step
<1>2. QED BY <1>1, SpanInvariance, PTL DEF Spec, NoExportAfterShutdown
=============================================================================
