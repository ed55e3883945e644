------------------------ MODULE BatchProcessor_proofs ------------------------
(***************************************************************************)
(* The steps BatchSpanProcessor and BatchLogRecordProcessor share preserve *)
(* BInv, for any number of threads and any sizes.                          *)
(***************************************************************************)
EXTENDS BatchProcessor, TLAPS

USE SizesAssumption, ThreadsAssumption
USE DEF bufferVars, flagVars, mutexVars, exportVars, workerVars, producerVars,
        flushVars, stopVars

\* The invariant holds initially.
LEMMA InitBInv == Init => BInv
<1>1. SUFFICES ASSUME Init PROVE BInv
  OBVIOUS
<1>2. TypeOK
  <2>1. /\ ppc \in [Producers -> {"idle", "observe", "decide", "sizeTail", "sizeHead",
                                 "lockedNotify", "setWakeup", "notify"}]
        /\ fpc \in [Flushers -> {"idle", "acquire", "pred", "wake", "check", "block",
                                "waiting", "relock", "expired", "return", "done"}]
        /\ spc \in [Stoppers -> {"idle", "acquire", "wake", "join", "exporter", "done"}]
    BY <1>1 DEF Init
  <2>2. /\ seen \in [Producers -> Nat] /\ sequence \in [Flushers -> Nat]
        /\ flushMark \in [Flushers -> Nat]
        /\ expired \in [Flushers -> BOOLEAN] /\ flushed \in [Flushers -> BOOLEAN]
        /\ already \in [Stoppers -> BOOLEAN]
    BY <1>1 DEF Init
  <2>3. /\ head \in Nat /\ tail \in Nat /\ exported \in Nat /\ pending \in Nat /\ notified \in Nat
        /\ notify \in Nat /\ remaining \in Nat /\ inflight \in 0..BatchSize
        /\ calls \in Nat /\ shutdownMark \in Nat /\ exporterShutdowns \in Nat
    BY <1>1 DEF Init
  <2>4. /\ isShutdown \in BOOLEAN /\ forceWakeup \in BOOLEAN /\ joined \in BOOLEAN
        /\ timedOut \in BOOLEAN /\ draining \in BOOLEAN /\ drain \in BOOLEAN
        /\ wpc = "lock"
        /\ cvM = Nobody /\ forceFlushM = Nobody /\ shutdownM = Nobody
    BY <1>1 DEF Init
  <2>5. QED BY <2>1, <2>2, <2>3, <2>4 DEF TypeOK
<1>3. QueueInv BY <1>1 DEF Init, QueueInv, QueueBounded
<1>4. FlushInv BY <1>1 DEF Init, FlushInv
<1>5. StopInv BY <1>1 DEF Init, StopInv, Stopping
<1>6. QED BY <1>2, <1>3, <1>4, <1>5 DEF BInv

-----------------------------------------------------------------------------
(* The worker's steps.                                                     *)

\* WaitLock changes neither the buffer nor a sequence number.
LEMMA WaitLockInv ==
  ASSUME BInv, WaitLock
  PROVE  BInv'
<1> USE DEF BInv, WaitLock, WGoto
<1>1. TypeOK' BY DEF TypeOK
<1>2. QueueInv' BY DEF QueueInv, QueueBounded, TypeOK
<1>3. FlushInv' BY DEF FlushInv, QueueInv, QueueBounded, TypeOK
<1>4. StopInv' BY DEF StopInv, Stopping, QueueInv, QueueBounded, TypeOK
<1>5. QED BY <1>1, <1>2, <1>3, <1>4

\* WaitPredFlag changes neither the buffer nor a sequence number.
LEMMA WaitPredFlagInv ==
  ASSUME BInv, WaitPredFlag
  PROVE  BInv'
<1> USE DEF BInv, WaitPredFlag, WGoto
<1>1. TypeOK' BY DEF TypeOK
<1>2. QueueInv' BY DEF QueueInv, QueueBounded, TypeOK
<1>3. FlushInv' BY DEF FlushInv, QueueInv, QueueBounded, TypeOK
<1>4. StopInv' BY DEF StopInv, Stopping, QueueInv, QueueBounded, TypeOK
<1>5. QED BY <1>1, <1>2, <1>3, <1>4

\* WaitPredSize changes neither the buffer nor a sequence number.
LEMMA WaitPredSizeInv ==
  ASSUME BInv, WaitPredSize
  PROVE  BInv'
<1> USE DEF BInv, WaitPredSize, WGoto
<1>1. TypeOK' BY DEF TypeOK
<1>2. QueueInv' BY DEF QueueInv, QueueBounded, TypeOK
<1>3. FlushInv' BY DEF FlushInv, QueueInv, QueueBounded, TypeOK
<1>4. StopInv' BY DEF StopInv, Stopping, QueueInv, QueueBounded, TypeOK
<1>5. QED BY <1>1, <1>2, <1>3, <1>4

\* WaitBlock changes neither the buffer nor a sequence number.
LEMMA WaitBlockInv ==
  ASSUME BInv, WaitBlock
  PROVE  BInv'
<1> USE DEF BInv, WaitBlock, WGoto
<1>1. TypeOK' BY DEF TypeOK
<1>2. QueueInv' BY DEF QueueInv, QueueBounded, TypeOK
<1>3. FlushInv' BY DEF FlushInv, QueueInv, QueueBounded, TypeOK
<1>4. StopInv' BY DEF StopInv, Stopping, QueueInv, QueueBounded, TypeOK
<1>5. QED BY <1>1, <1>2, <1>3, <1>4

\* WaitTimeout changes neither the buffer nor a sequence number.
LEMMA WaitTimeoutInv ==
  ASSUME BInv, WaitTimeout
  PROVE  BInv'
<1> USE DEF BInv, WaitTimeout, WGoto
<1>1. TypeOK' BY DEF TypeOK
<1>2. QueueInv' BY DEF QueueInv, QueueBounded, TypeOK
<1>3. FlushInv' BY DEF FlushInv, QueueInv, QueueBounded, TypeOK
<1>4. StopInv' BY DEF StopInv, Stopping, QueueInv, QueueBounded, TypeOK
<1>5. QED BY <1>1, <1>2, <1>3, <1>4

\* WaitSpurious changes neither the buffer nor a sequence number.
LEMMA WaitSpuriousInv ==
  ASSUME BInv, WaitSpurious
  PROVE  BInv'
<1> USE DEF BInv, WaitSpurious, WGoto
<1>1. TypeOK' BY DEF TypeOK
<1>2. QueueInv' BY DEF QueueInv, QueueBounded, TypeOK
<1>3. FlushInv' BY DEF FlushInv, QueueInv, QueueBounded, TypeOK
<1>4. StopInv' BY DEF StopInv, Stopping, QueueInv, QueueBounded, TypeOK
<1>5. QED BY <1>1, <1>2, <1>3, <1>4

\* Clearing the flag and the expiry of the wait disturbs nothing.
LEMMA WaitResetInv ==
  ASSUME BInv, WaitReset
  PROVE  BInv'
<1> USE DEF BInv, WaitReset, WGoto
<1>1. TypeOK' BY DEF TypeOK
<1>2. QueueInv' BY DEF QueueInv, QueueBounded, TypeOK
<1>3. FlushInv' BY DEF FlushInv, QueueInv, QueueBounded, TypeOK
<1>4. StopInv' BY DEF StopInv, Stopping, QueueInv, QueueBounded, TypeOK
<1>5. QED BY <1>1, <1>2, <1>3, <1>4

\* The worker drains only after is_shutdown was set.
LEMMA CheckShutdownInv ==
  ASSUME BInv, CheckShutdown
  PROVE  BInv'
<1> USE DEF BInv, CheckShutdown, WGoto
<1>1. TypeOK' BY DEF TypeOK
<1>2. QueueInv' BY DEF QueueInv, QueueBounded, TypeOK
<1>3. FlushInv' BY DEF FlushInv, QueueInv, QueueBounded, TypeOK
<1>4. StopInv' BY DEF StopInv, Stopping, QueueInv, QueueBounded, TypeOK
<1>5. QED BY <1>1, <1>2, <1>3, <1>4

\* The cycle's sequence number is one that has been given out.
LEMMA LoadPendingInv ==
  ASSUME BInv, LoadPending
  PROVE  BInv'
<1> USE DEF BInv, LoadPending, WGoto
<1>1. TypeOK' BY DEF TypeOK
<1>2. QueueInv' BY DEF QueueInv, QueueBounded, TypeOK
<1>3. FlushInv' BY DEF FlushInv, QueueInv, QueueBounded, TypeOK
<1>4. StopInv' BY DEF StopInv, Stopping, QueueInv, QueueBounded, TypeOK
<1>5. QED BY <1>1, <1>2, <1>3, <1>4

\* A cycle that has a flush to answer takes the whole buffer.
LEMMA ShouldDrainInv ==
  ASSUME BInv, ShouldDrain
  PROVE  BInv'
<1> USE DEF BInv, ShouldDrain, WGoto
<1>1. TypeOK' BY DEF TypeOK
<1>2. QueueInv' BY DEF QueueInv, QueueBounded, TypeOK
<1>3. FlushInv'
  <2>1. notify \in Nat /\ notified \in Nat BY DEF TypeOK
  <2>2. notify > notified => drain' = TRUE OBVIOUS
  <2>3. drain' = TRUE \/ notify <= notified BY <2>1, <2>2
  <2>4. QED BY <2>3 DEF FlushInv, TypeOK
<1>4. StopInv' BY DEF StopInv, Stopping, QueueInv, QueueBounded, TypeOK
<1>5. QED BY <1>1, <1>2, <1>3, <1>4

\* The snapshot reaches the mark of every flush the cycle answers.
LEMMA SnapshotSizeInv ==
  ASSUME BInv, SnapshotSize
  PROVE  BInv'
<1> USE DEF BInv, SnapshotSize, WGoto, Min
<1>1. TypeOK'
  <2>1. remaining' \in Nat BY DEF TypeOK, QueueInv, QueueBounded
  <2>2. QED BY <2>1 DEF TypeOK
<1>2. QueueInv' BY DEF QueueInv, QueueBounded, TypeOK
<1>3. FlushInv' BY DEF FlushInv, QueueInv, QueueBounded, TypeOK
<1>4. StopInv' BY DEF StopInv, Stopping, QueueInv, QueueBounded, TypeOK
<1>5. QED BY <1>1, <1>2, <1>3, <1>4

\* A batch is part of the snapshot, so the buffer holds it.
LEMMA ConsumeInv ==
  ASSUME BInv, Consume
  PROVE  BInv'
<1> USE DEF BInv, Consume, WGoto, Min
<1>1. TypeOK' BY DEF TypeOK
<1>2. QueueInv' BY DEF QueueInv, QueueBounded, TypeOK
<1>3. FlushInv' BY DEF FlushInv, QueueInv, QueueBounded, TypeOK
<1>4. StopInv' BY DEF StopInv, Stopping, QueueInv, QueueBounded, TypeOK
<1>5. QED BY <1>1, <1>2, <1>3, <1>4

\* A batch leaves what remains of the snapshot where it was.
LEMMA ExporterExportInv ==
  ASSUME BInv, ExporterExport
  PROVE  BInv'
<1> USE DEF BInv, ExporterExport, WGoto
<1>1. TypeOK' BY DEF TypeOK, QueueInv, QueueBounded
<1>2. QueueInv' BY DEF QueueInv, QueueBounded, TypeOK
<1>3. FlushInv' BY DEF FlushInv, QueueInv, QueueBounded, TypeOK
<1>4. StopInv' BY DEF StopInv, Stopping, QueueInv, QueueBounded, TypeOK
<1>5. QED BY <1>1, <1>2, <1>3, <1>4

\* When nothing remains, the cycle's flushes are exported.
LEMMA ExporterForceFlushInv ==
  ASSUME BInv, ExporterForceFlush
  PROVE  BInv'
<1> USE DEF BInv, ExporterForceFlush, WGoto, AfterExport
<1>1. TypeOK' BY DEF TypeOK
<1>2. QueueInv' BY DEF QueueInv, QueueBounded, TypeOK
<1>3. FlushInv' BY DEF FlushInv, QueueInv, QueueBounded, TypeOK
<1>4. StopInv' BY DEF StopInv, Stopping, QueueInv, QueueBounded, TypeOK
<1>5. QED BY <1>1, <1>2, <1>3, <1>4

\* The flushes answered are the ones whose elements are exported.
LEMMA NotifyCompletionInv ==
  ASSUME BInv, NotifyCompletion
  PROVE  BInv'
<1> USE DEF BInv, NotifyCompletion, WGoto, AfterExport, NotifyFlushers
<1>1. TypeOK' BY DEF TypeOK
<1>2. QueueInv' BY DEF QueueInv, QueueBounded, TypeOK
<1>3. FlushInv' BY DEF FlushInv, QueueInv, QueueBounded, TypeOK
<1>4. StopInv' BY DEF StopInv, Stopping, QueueInv, QueueBounded, TypeOK
<1>5. QED BY <1>1, <1>2, <1>3, <1>4

\* An empty buffer holds nothing from before the shutdown.
LEMMA DrainQueueEmptyInv ==
  ASSUME BInv, DrainQueueEmpty
  PROVE  BInv'
<1> USE DEF BInv, DrainQueueEmpty, WGoto
<1>1. TypeOK' BY DEF TypeOK
<1>2. QueueInv' BY DEF QueueInv, QueueBounded, TypeOK
<1>3. FlushInv' BY DEF FlushInv, QueueInv, QueueBounded, TypeOK
<1>4. StopInv' BY DEF StopInv, Stopping, QueueInv, QueueBounded, TypeOK
<1>5. QED BY <1>1, <1>2, <1>3, <1>4

\* The worker leaves with everything from before the shutdown exported.
LEMMA DrainQueuePendingInv ==
  ASSUME BInv, DrainQueuePending
  PROVE  BInv'
<1> USE DEF BInv, DrainQueuePending, WGoto
<1>1. TypeOK' BY DEF TypeOK
<1>2. QueueInv' BY DEF QueueInv, QueueBounded, TypeOK
<1>3. FlushInv' BY DEF FlushInv, QueueInv, QueueBounded, TypeOK
<1>4. StopInv' BY DEF StopInv, Stopping, QueueInv, QueueBounded, TypeOK
<1>5. QED BY <1>1, <1>2, <1>3, <1>4

-----------------------------------------------------------------------------
(* The producers' steps.                                                   *)

\* A call that finds the processor shut down does nothing.
LEMMA OnEndCallInv ==
  ASSUME BInv, NEW p \in Producers, OnEndCall(p)
  PROVE  BInv'
<1> USE DEF BInv, OnEndCall, PGoto
<1>1. TypeOK' BY DEF TypeOK
<1>2. QueueInv' BY DEF QueueInv, QueueBounded, TypeOK
<1>3. FlushInv' BY DEF FlushInv, QueueInv, QueueBounded, TypeOK
<1>4. StopInv' BY DEF StopInv, Stopping, QueueInv, QueueBounded, TypeOK
<1>5. QED BY <1>1, <1>2, <1>3, <1>4

\* What is read of tail_ is never ahead of it.
LEMMA AddObserveInv ==
  ASSUME BInv, NEW p \in Producers, AddObserve(p)
  PROVE  BInv'
<1> USE DEF BInv, AddObserve, PGoto
<1>1. TypeOK' BY DEF TypeOK
<1>2. QueueInv' BY DEF QueueInv, QueueBounded, TypeOK
<1>3. FlushInv' BY DEF FlushInv, QueueInv, QueueBounded, TypeOK
<1>4. StopInv' BY DEF StopInv, Stopping, QueueInv, QueueBounded, TypeOK
<1>5. QED BY <1>1, <1>2, <1>3, <1>4

\* A dropped element leaves the buffer alone.
LEMMA AddRejectInv ==
  ASSUME BInv, NEW p \in Producers, AddReject(p)
  PROVE  BInv'
<1> USE DEF BInv, AddReject, PGoto
<1>1. TypeOK' BY DEF TypeOK
<1>2. QueueInv' BY DEF QueueInv, QueueBounded, TypeOK
<1>3. FlushInv' BY DEF FlushInv, QueueInv, QueueBounded, TypeOK
<1>4. StopInv' BY DEF StopInv, Stopping, QueueInv, QueueBounded, TypeOK
<1>5. QED BY <1>1, <1>2, <1>3, <1>4

\* A stale tail_ makes the buffer look fuller, never emptier.
LEMMA AddAcceptInv ==
  ASSUME BInv, NEW p \in Producers, AddAccept(p)
  PROVE  BInv'
<1> USE DEF BInv, AddAccept, PGoto
<1>1. TypeOK' BY DEF TypeOK
<1>2. QueueInv' BY DEF QueueInv, QueueBounded, TypeOK
<1>3. FlushInv' BY DEF FlushInv, QueueInv, QueueBounded, TypeOK
<1>4. StopInv' BY DEF StopInv, Stopping, QueueInv, QueueBounded, TypeOK
<1>5. QED BY <1>1, <1>2, <1>3, <1>4

\* What is read of tail_ is never ahead of it.
LEMMA SizeTailInv ==
  ASSUME BInv, NEW p \in Producers, SizeTail(p)
  PROVE  BInv'
<1> USE DEF BInv, SizeTail, PGoto
<1>1. TypeOK' BY DEF TypeOK
<1>2. QueueInv' BY DEF QueueInv, QueueBounded, TypeOK
<1>3. FlushInv' BY DEF FlushInv, QueueInv, QueueBounded, TypeOK
<1>4. StopInv' BY DEF StopInv, Stopping, QueueInv, QueueBounded, TypeOK
<1>5. QED BY <1>1, <1>2, <1>3, <1>4

-----------------------------------------------------------------------------
(* The flushers' steps.                                                    *)

\* A flush of a processor that is shut down returns false.
LEMMA ForceFlushCallInv ==
  ASSUME BInv, NEW f \in Flushers, ForceFlushCall(f)
  PROVE  BInv'
<1> USE DEF BInv, ForceFlushCall, FGoto
<1>1. TypeOK' BY DEF TypeOK
<1>2. QueueInv' BY DEF QueueInv, QueueBounded, TypeOK
<1>3. FlushInv' BY DEF FlushInv, QueueInv, QueueBounded, TypeOK
<1>4. StopInv' BY DEF StopInv, Stopping, QueueInv, QueueBounded, TypeOK
<1>5. QED BY <1>1, <1>2, <1>3, <1>4

\* A new flush has a number nobody has answered yet.
LEMMA FlushAcquireInv ==
  ASSUME BInv, NEW f \in Flushers, FlushAcquire(f)
  PROVE  BInv'
<1> USE DEF BInv, FlushAcquire, FGoto
<1>1. TypeOK' BY DEF TypeOK
<1>2. QueueInv' BY DEF QueueInv, QueueBounded, TypeOK
<1>3. FlushInv' BY DEF FlushInv, QueueInv, QueueBounded, TypeOK
<1>4. StopInv' BY DEF StopInv, Stopping, QueueInv, QueueBounded, TypeOK
<1>5. QED BY <1>1, <1>2, <1>3, <1>4

\* FlushPred changes neither the buffer nor a sequence number.
LEMMA FlushPredInv ==
  ASSUME BInv, NEW f \in Flushers, FlushPred(f)
  PROVE  BInv'
<1> USE DEF BInv, FlushPred, FGoto
<1>1. TypeOK' BY DEF TypeOK
<1>2. QueueInv' BY DEF QueueInv, QueueBounded, TypeOK
<1>3. FlushInv' BY DEF FlushInv, QueueInv, QueueBounded, TypeOK
<1>4. StopInv' BY DEF StopInv, Stopping, QueueInv, QueueBounded, TypeOK
<1>5. QED BY <1>1, <1>2, <1>3, <1>4

\* FlushWake changes neither the buffer nor a sequence number.
LEMMA FlushWakeInv ==
  ASSUME BInv, NEW f \in Flushers, FlushWake(f)
  PROVE  BInv'
<1> USE DEF BInv, FlushWake, FGoto, NotifyWorker
<1>1. TypeOK' BY DEF TypeOK
<1>2. QueueInv' BY DEF QueueInv, QueueBounded, TypeOK
<1>3. FlushInv' BY DEF FlushInv, QueueInv, QueueBounded, TypeOK
<1>4. StopInv' BY DEF StopInv, Stopping, QueueInv, QueueBounded, TypeOK
<1>5. QED BY <1>1, <1>2, <1>3, <1>4

\* FlushCheck changes neither the buffer nor a sequence number.
LEMMA FlushCheckInv ==
  ASSUME BInv, NEW f \in Flushers, FlushCheck(f)
  PROVE  BInv'
<1> USE DEF BInv, FlushCheck, FGoto
<1>1. TypeOK' BY DEF TypeOK
<1>2. QueueInv' BY DEF QueueInv, QueueBounded, TypeOK
<1>3. FlushInv' BY DEF FlushInv, QueueInv, QueueBounded, TypeOK
<1>4. StopInv' BY DEF StopInv, Stopping, QueueInv, QueueBounded, TypeOK
<1>5. QED BY <1>1, <1>2, <1>3, <1>4

\* FlushBlock changes neither the buffer nor a sequence number.
LEMMA FlushBlockInv ==
  ASSUME BInv, NEW f \in Flushers, FlushBlock(f)
  PROVE  BInv'
<1> USE DEF BInv, FlushBlock, FGoto
<1>1. TypeOK' BY DEF TypeOK
<1>2. QueueInv' BY DEF QueueInv, QueueBounded, TypeOK
<1>3. FlushInv' BY DEF FlushInv, QueueInv, QueueBounded, TypeOK
<1>4. StopInv' BY DEF StopInv, Stopping, QueueInv, QueueBounded, TypeOK
<1>5. QED BY <1>1, <1>2, <1>3, <1>4

\* FlushTimeout changes neither the buffer nor a sequence number.
LEMMA FlushTimeoutInv ==
  ASSUME BInv, NEW f \in Flushers, FlushTimeout(f)
  PROVE  BInv'
<1> USE DEF BInv, FlushTimeout, FGoto
<1>1. TypeOK' BY DEF TypeOK
<1>2. QueueInv' BY DEF QueueInv, QueueBounded, TypeOK
<1>3. FlushInv' BY DEF FlushInv, QueueInv, QueueBounded, TypeOK
<1>4. StopInv' BY DEF StopInv, Stopping, QueueInv, QueueBounded, TypeOK
<1>5. QED BY <1>1, <1>2, <1>3, <1>4

\* FlushSpurious changes neither the buffer nor a sequence number.
LEMMA FlushSpuriousInv ==
  ASSUME BInv, NEW f \in Flushers, FlushSpurious(f)
  PROVE  BInv'
<1> USE DEF BInv, FlushSpurious, FGoto
<1>1. TypeOK' BY DEF TypeOK
<1>2. QueueInv' BY DEF QueueInv, QueueBounded, TypeOK
<1>3. FlushInv' BY DEF FlushInv, QueueInv, QueueBounded, TypeOK
<1>4. StopInv' BY DEF StopInv, Stopping, QueueInv, QueueBounded, TypeOK
<1>5. QED BY <1>1, <1>2, <1>3, <1>4

\* FlushRelock changes neither the buffer nor a sequence number.
LEMMA FlushRelockInv ==
  ASSUME BInv, NEW f \in Flushers, FlushRelock(f)
  PROVE  BInv'
<1> USE DEF BInv, FlushRelock, FGoto
<1>1. TypeOK' BY DEF TypeOK
<1>2. QueueInv' BY DEF QueueInv, QueueBounded, TypeOK
<1>3. FlushInv' BY DEF FlushInv, QueueInv, QueueBounded, TypeOK
<1>4. StopInv' BY DEF StopInv, Stopping, QueueInv, QueueBounded, TypeOK
<1>5. QED BY <1>1, <1>2, <1>3, <1>4

\* FlushWaitAgain changes neither the buffer nor a sequence number.
LEMMA FlushWaitAgainInv ==
  ASSUME BInv, NEW f \in Flushers, FlushWaitAgain(f)
  PROVE  BInv'
<1> USE DEF BInv, FlushWaitAgain, FGoto
<1>1. TypeOK' BY DEF TypeOK
<1>2. QueueInv' BY DEF QueueInv, QueueBounded, TypeOK
<1>3. FlushInv' BY DEF FlushInv, QueueInv, QueueBounded, TypeOK
<1>4. StopInv' BY DEF StopInv, Stopping, QueueInv, QueueBounded, TypeOK
<1>5. QED BY <1>1, <1>2, <1>3, <1>4

\* FlushGiveUp changes neither the buffer nor a sequence number.
LEMMA FlushGiveUpInv ==
  ASSUME BInv, NEW f \in Flushers, FlushGiveUp(f)
  PROVE  BInv'
<1> USE DEF BInv, FlushGiveUp, FGoto
<1>1. TypeOK' BY DEF TypeOK
<1>2. QueueInv' BY DEF QueueInv, QueueBounded, TypeOK
<1>3. FlushInv' BY DEF FlushInv, QueueInv, QueueBounded, TypeOK
<1>4. StopInv' BY DEF StopInv, Stopping, QueueInv, QueueBounded, TypeOK
<1>5. QED BY <1>1, <1>2, <1>3, <1>4

\* A flush that returns true has been answered.
LEMMA FlushReturnInv ==
  ASSUME BInv, NEW f \in Flushers, FlushReturn(f)
  PROVE  BInv'
<1> USE DEF BInv, FlushReturn, FGoto
<1>1. TypeOK' BY DEF TypeOK
<1>2. QueueInv' BY DEF QueueInv, QueueBounded, TypeOK
<1>3. FlushInv' BY DEF FlushInv, QueueInv, QueueBounded, TypeOK
<1>4. StopInv' BY DEF StopInv, Stopping, QueueInv, QueueBounded, TypeOK
<1>5. QED BY <1>1, <1>2, <1>3, <1>4

-----------------------------------------------------------------------------
(* The stoppers' steps.                                                    *)

\* ShutdownCall changes neither the buffer nor a sequence number.
LEMMA ShutdownCallInv ==
  ASSUME BInv, NEW s \in Stoppers, ShutdownCall(s)
  PROVE  BInv'
<1> USE DEF BInv, ShutdownCall, SGoto
<1>1. TypeOK' BY DEF TypeOK
<1>2. QueueInv' BY DEF QueueInv, QueueBounded, TypeOK
<1>3. FlushInv' BY DEF FlushInv, QueueInv, QueueBounded, TypeOK
<1>4. StopInv' BY DEF StopInv, Stopping, QueueInv, QueueBounded, TypeOK
<1>5. QED BY <1>1, <1>2, <1>3, <1>4

\* One stopper finds is_shutdown clear.
LEMMA ShutdownExchangeInv ==
  ASSUME BInv, NEW s \in Stoppers, ShutdownExchange(s)
  PROVE  BInv'
<1> USE DEF BInv, ShutdownExchange, SGoto
<1>1. TypeOK' BY DEF TypeOK
<1>2. QueueInv' BY DEF QueueInv, QueueBounded, TypeOK
<1>3. FlushInv' BY DEF FlushInv, QueueInv, QueueBounded, TypeOK
<1>4. StopInv' BY DEF StopInv, Stopping, QueueInv, QueueBounded, TypeOK
<1>5. QED BY <1>1, <1>2, <1>3, <1>4

\* ShutdownWake changes neither the buffer nor a sequence number.
LEMMA ShutdownWakeInv ==
  ASSUME BInv, NEW s \in Stoppers, ShutdownWake(s)
  PROVE  BInv'
<1> USE DEF BInv, ShutdownWake, SGoto, NotifyWorker
<1>1. TypeOK' BY DEF TypeOK
<1>2. QueueInv' BY DEF QueueInv, QueueBounded, TypeOK
<1>3. FlushInv' BY DEF FlushInv, QueueInv, QueueBounded, TypeOK
<1>4. StopInv' BY DEF StopInv, Stopping, QueueInv, QueueBounded, TypeOK
<1>5. QED BY <1>1, <1>2, <1>3, <1>4

\* The worker has left when the join returns.
LEMMA ShutdownJoinInv ==
  ASSUME BInv, NEW s \in Stoppers, ShutdownJoin(s)
  PROVE  BInv'
<1> USE DEF BInv, ShutdownJoin, SGoto
<1>1. TypeOK' BY DEF TypeOK
<1>2. QueueInv' BY DEF QueueInv, QueueBounded, TypeOK
<1>3. FlushInv' BY DEF FlushInv, QueueInv, QueueBounded, TypeOK
<1>4. StopInv' BY DEF StopInv, Stopping, QueueInv, QueueBounded, TypeOK
<1>5. QED BY <1>1, <1>2, <1>3, <1>4

\* The first stopper alone shuts the exporter down.
LEMMA ShutdownExporterInv ==
  ASSUME BInv, NEW s \in Stoppers, ShutdownExporter(s)
  PROVE  BInv'
<1> USE DEF BInv, ShutdownExporter, SGoto
<1>1. TypeOK' BY DEF TypeOK
<1>2. QueueInv' BY DEF QueueInv, QueueBounded, TypeOK
<1>3. FlushInv' BY DEF FlushInv, QueueInv, QueueBounded, TypeOK
<1>4. StopInv' BY DEF StopInv, Stopping, QueueInv, QueueBounded, TypeOK
<1>5. QED BY <1>1, <1>2, <1>3, <1>4

-----------------------------------------------------------------------------
(* The shared steps together.                                              *)

\* Doing nothing preserves the invariant.
LEMMA StutterBInv ==
  ASSUME BInv, UNCHANGED vars
  PROVE  BInv'
<1> USE DEF BInv, vars
<1>1. TypeOK' BY DEF TypeOK
<1>2. QueueInv' BY DEF QueueInv, QueueBounded
<1>3. FlushInv' BY DEF FlushInv
<1>4. StopInv' BY DEF StopInv, Stopping
<1>5. QED BY <1>1, <1>2, <1>3, <1>4

\* Every step the two processors share preserves the invariant.
LEMMA SharedStepBInv ==
  ASSUME BInv, SharedStep \/ Wakeups \/ Quiescent
  PROVE  BInv'
<1>1. CASE DoBackgroundWork
  BY <1>1, WaitLockInv, WaitPredFlagInv, WaitPredSizeInv, WaitBlockInv, WaitResetInv,
     CheckShutdownInv, LoadPendingInv, ShouldDrainInv, SnapshotSizeInv, ConsumeInv,
     ExporterExportInv, ExporterForceFlushInv, NotifyCompletionInv, DrainQueueEmptyInv,
     DrainQueuePendingInv
  DEF DoBackgroundWork, Export
<1>2. CASE \E p \in Producers : OnEndCall(p) \/ Add(p)
  BY <1>2, OnEndCallInv, AddObserveInv, AddRejectInv, AddAcceptInv, SizeTailInv DEF Add
<1>3. CASE \E f \in Flushers : ForceFlushCall(f) \/ ForceFlush(f)
  BY <1>3, ForceFlushCallInv, FlushAcquireInv, FlushPredInv, FlushWakeInv, FlushCheckInv,
     FlushBlockInv, FlushRelockInv, FlushWaitAgainInv, FlushGiveUpInv, FlushReturnInv
  DEF ForceFlush
<1>4. CASE \E s \in Stoppers : ShutdownCall(s) \/ InternalShutdown(s)
  BY <1>4, ShutdownCallInv, ShutdownExchangeInv, ShutdownWakeInv, ShutdownJoinInv,
     ShutdownExporterInv
  DEF InternalShutdown
<1>5. CASE Wakeups
  BY <1>5, WaitTimeoutInv, WaitSpuriousInv, FlushTimeoutInv, FlushSpuriousInv DEF Wakeups
<1>6. CASE Quiescent BY <1>6, StutterBInv DEF Quiescent
<1>7. QED BY <1>1, <1>2, <1>3, <1>4, <1>5, <1>6 DEF SharedStep

\* What BInv says of the properties.
LEMMA BInvProperties == BInv => FlushDelivers /\ ShutdownDrains /\ QueueBounded
<1>1. SUFFICES ASSUME BInv PROVE FlushDelivers /\ ShutdownDrains /\ QueueBounded
  OBVIOUS
<1>2. FlushDelivers BY <1>1 DEF BInv, FlushInv, FlushDelivers, TypeOK
<1>3. ShutdownDrains BY <1>1 DEF BInv, StopInv, ShutdownDrains, TypeOK
<1>4. QED BY <1>1, <1>2, <1>3 DEF BInv, QueueInv

\* Only ExporterExport changes exported, and not after the worker has left.
LEMMA SharedStepQuiet ==
  ASSUME BInv, SharedStep \/ Wakeups \/ Quiescent, exported' # exported
  PROVE  exporterShutdowns = 0
<1>1. ExporterExport
  BY DEF SharedStep, Wakeups, Quiescent, vars, DoBackgroundWork, Export, Add, ForceFlush,
         InternalShutdown, WaitLock, WaitPredFlag, WaitPredSize, WaitBlock, WaitTimeout,
         WaitSpurious, WaitReset, CheckShutdown, LoadPending, ShouldDrain, SnapshotSize,
         Consume, ExporterForceFlush, NotifyCompletion, DrainQueueEmpty,
         DrainQueuePending, OnEndCall, AddObserve, AddReject, AddAccept, SizeTail,
         ForceFlushCall, FlushAcquire, FlushPred, FlushWake, FlushCheck, FlushBlock,
         FlushTimeout, FlushSpurious, FlushRelock, FlushWaitAgain, FlushGiveUp,
         FlushReturn, ShutdownCall, ShutdownExchange, ShutdownWake, ShutdownJoin,
         ShutdownExporter
<1>2. QED BY <1>1 DEF ExporterExport, WGoto, BInv, StopInv
=============================================================================
