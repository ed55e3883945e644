# A TLA+ verification of the OpenTelemetry C++ SDK's export pipeline

opentelemetry-cpp hands telemetry from application threads to exporters through
a few pieces of hand-written concurrency: a ring of owning pointers, background
workers with condition variables and sequence numbers, metric storages that
several readers share, and an HTTP client whose background thread comes and goes. These are the parts where a test hardly reaches the bad
interleaving. This directory models them from the source, checks them with TLC
on small instances, and proves their safety properties with TLAPS for every
number of threads and every size.

`PROJECT.json` lists every run, property, mutant, theorem and hazard, and maps
each definition to the source lines it stands for.

## 1. The system

| Part | State it keeps | Operations | What makes it correct |
|---|---|---|---|
| `CircularBuffer` (sdk/common) | `head_`, `tail_`, an array of atomic owning pointers | `Add` (many threads), `size`, `Consume` (one thread) | FIFO, no loss or duplicate, one owner per pointer, never more than `max_size`, `Add` returns unless other `Add`s never stop |
| `BatchSpanProcessor` | the buffer, `is_shutdown`, the wakeup flag, the pending and notified flush sequences, three mutexes, two condition variables | `OnEnd`, `ForceFlush`, `Shutdown`, the worker | a flush or a shutdown that reports success has exported what came before it; no wakeup that matters is lost; the exporter is shut down once and not used after |
| `BatchLogRecordProcessor` | the same | `OnEmit`, `ForceFlush`, `Shutdown`, the worker | the same, but the wakeup by a full queue |
| `PeriodicExportingMetricReader` over `MetricReader` | `shutdown_`, stop and wakeup flags, sequences | registration, the worker, `ForceFlush`, `Shutdown` | a flush is answered by a collection that began after it; `Shutdown` is a completion barrier; waits end although notifications can be lost |
| `SyncMetricStorage`, `TemporalMetricStorage`, `AttributesHashMap` | the delta map, the stash by collector, the last reported maps | `Record*`, `Collect`/`buildMetrics` | each collector is told of each measurement once; the cardinality limit holds and overflow loses nothing |
| `Meter`, `MeterContext`, `MetricCollector` | storages, collectors | `Collect`, `AddMetricReader`, creation, `ForceFlush`, `Shutdown` | readers may be added while instruments are in use |
| `AsyncMetricStorage`, `ObservableRegistry` | the round being observed, last observed values, the delta map, callbacks | `Observe`, `Record*`, `Collect`, registration and removal of callbacks | the deltas a collector is told of add up to what was observed last |
| `OtlpHttpClient` with its `ResponseHandler` | running and finished sessions, two counters, two mutexes, `is_shutdown_`; per session `stopping_` | `Export`, `ForceFlush`, `Shutdown`, the destructor, `ReleaseSession`, `cleanupGCSessions` | each result callback runs once; results say what happened; waits end although notifications can be lost; nothing runs into the client after its destructor |
| `HttpClient`, `Session`, `HttpOperation` (curl) | `sessions_`, five containers of pending work, the multi handle, the background thread; per operation its state, flags, promise and easy handle | `CreateSession`, `SendRequest`, `CancelSession`, `FinishSession`, `CancelAllSessions`, the background thread, the destructor | a session that was handed over ends with a report, easy handles have one owner, work does not lie about without a thread |
| tracer, span, logger, their contexts | spans' recordables, processors | span lifecycle, `ForceFlush`, `Shutdown` | a span is ended once |
| samplers, aggregations, propagation, configuration, encoders | none or immutable | pure functions, parsing, I/O | - |

How they interact: application threads call `OnEnd`/`OnEmit`, which `Add` to the
buffer and notify the worker; the worker `Consume`s and calls the exporter.
`ForceFlush` takes a sequence number, wakes the worker and waits until the
worker has published a number as large. `Shutdown` sets a flag, wakes the worker,
joins it and shuts the exporter down. A metric reader's worker calls `Collect`,
which goes through its `MetricCollector` to every `Meter` of the context, with the context's `meter_lock_`
held, so that the collections of several readers follow each other; recorders go on meanwhile.
An OTLP exporter's `Export` creates a session of the HTTP client, adds it to `running_sessions_`,
counts it and sends it; the HTTP client's background thread drives the transfer and calls the
handler, which runs the result callback and `ReleaseSession`; waiters are woken by it, and
whoever comes next finishes the released sessions in `cleanupGCSessions`.

What is hard: the two compare-exchanges of `Add`, with a consumer that frees room
before it empties slots; notifications sent without the mutex of the waiter;
numbers read in one step and used in another (sizes, sequences, flags); several
flushes and shutdowns at once; waits that expire just when they are answered;
maps at their cardinality limit; a session that is in none of the HTTP client's containers while a
thread moves it from one to the other; and a cancel that overtakes the sending of what it
cancels. `PROJECT.json` lists the hazards at their lines.

## 2. Modules

    BoundedQueue  <--refines--  CircularBuffer  <-- CircularBuffer_proofs
         |  (abstracted to its counts)
         v
    BatchProcessor  <--  BatchProcessor_proofs
       ^        ^
       |        +--- BatchLogRecordProcessor  <-- BatchLogRecordProcessor_proofs, MCBatchLogRecordProcessor
       +------------ BatchSpanProcessor       <-- BatchSpanProcessor_proofs
    PeriodicExportingMetricReader  <-- PeriodicExportingMetricReader_proofs, MCPeriodicExportingMetricReader
    AttributesHashMap  <--  SyncMetricStorage  <-- MCSyncMetricStorage
                                 ^
                                 +--- AsyncMetricStorage  <-- AsyncMetricStorage_proofs, MCAsyncMetricStorage
    HttpSessions  <--refines--  HttpClientCurl  <-- HttpClientCurl_proofs, MCHttpClientCurl
         ^
         +--- (instantiated by)  OtlpHttpClient  <-- OtlpHttpClient_proofs, MCOtlpHttpClient

The MC modules only add the symmetry sets for TLC.

**CircularBuffer** has one action per atomic operation. `LoadTail`, `LoadHead`,
`SwapIfNull`, `CasHead` and `UndoSwap` are the five steps of `Add`; each of the two weak
compare-exchanges may also fail, with or without a reason (`SwapIfNullFails`,
`CasHeadFails`). `Size`, `Peek`, `AdvanceTail` and one `Callback` per slot are the
consumer. Elements are distinct objects. `head_` and `tail_` are 64-bit and count
elements, so they are naturals. The atomics are sequentially consistent in the
model; the code's acquire and release orders are not checked.

**BoundedQueue** is the promise. An `Add` observes the room the consumer has released,
later accepts or rejects in one step; `Consume` claims a batch, whose room is
free at once, and delivers it element by element. A rejection may rest on a stale
observation; an acceptance never overfills the queue. The refinement mapping
(`Queue` in CircularBuffer) cuts the sequence of accepted elements at `tail_` and at
what has been delivered.

**BatchProcessor** is what the two batch processors have in common, on top of that
queue reduced to its counts: since delivery is FIFO, the number exported says
which elements were. One action per access to state that another thread writes;
a critical section is one action where all it touches is accessed under its
mutex. Waiting is the predicate, the step that releases the mutex and registers
the waiter, a wakeup (by notification, timeout or spuriously), and the mutex again, so
a notification between predicate and wait is lost, as in the code. How long a
wait lasts is left out: a timed wait may expire at any time, and `Patient` callers are
those without a timeout. `GetWaitAdjustedTime` only computes durations.
**BatchSpanProcessor** and **BatchLogRecordProcessor** add how `OnEnd` and `OnEmit` wake
the worker, where the two differ: spans notify under the mutex when the queue is
full, log records set the wakeup flag and notify without it. The
destructor makes the call that `Shutdown` makes, unless `is_shutdown` is set; no other call of the object may be under way then, so it has no
action of its own. The constructor's clamp of the batch size (spans only) is an
assumption that ties `BatchSize` to the option.

**PeriodicExportingMetricReader** includes `MetricReader::Shutdown` and `ForceFlush`. Both
call `OnForceFlush`, so its actions are shared by flushers and stoppers. The reader
publishes `notified_sequence` without `force_flush_m_`; the model has that step and the
notification apart from the mutex. `shutdown_m_` is held throughout `Shutdown`. Measurements
are counted: a collection covers all recorded so far. A reader is registered once and before its `Shutdown`
(`Registrable`): that is assumed of the application, since `SetMetricProducer` tests neither, and a producer set after `Shutdown` would start a
worker that exports once more. The destructor, which calls `Shutdown` unless it was called, has no action of its own. The handlers for exceptions
in `CollectAndExportOnce` are left out, because `Collect` is `noexcept`.

**AttributesHashMap** and **SyncMetricStorage** model recording and collection with
several collectors. A map is a function from attribute sets to sums. Iteration over an
`unordered_map` has no defined order and past the limit the order matters, so a
merge is the set of results over all orders (`Over`, with a recursive function for the loop). `Meter::Collect` runs under the context's `meter_lock_` and holds `storage_lock_`, so one
collection runs at a time, in steps between which measurements and new readers
arrive. `AddMetricReader` is two steps, as in the code: the collector's constructor starts
the reader, then the collector is added to the list. (The list is a vector without a
lock; that a concurrent reader of it is itself a data race is left out, a collection
works with the list as it was when it began.)

**AsyncMetricStorage** adds observable instruments on the same temporal storage: `instrument` is chosen in the initial
state, and with `"sync"` the behaviours are those of SyncMetricStorage. `Observe` is the registry's round of
callbacks, which `Meter::Collect` makes before it takes `storage_lock_`, and `CollectObserved` the rest of the collection; `observer` holds `meter_lock_` in between, so no other
reader's callbacks run in the same round. A disabled meter skips both, which changes nothing. A callback
reports absolute values for some attribute sets, none if it has been removed. For a monotonic sum each is differenced to `last_observed_hash_map_` at
once (`RecordMonotonicSum`), for others when the round is collected (`BuildDeltaFromRound`).

**HttpSessions** is what an HTTP client promises the owner of a session, as the stages a session goes through. A session
that is cancelled before it is handed to the background thread is *dropped*: no report will come. That is not
what the interface's user would like, but it is what the curl client does, and both modules below are true to it. One that is cancelled after the hand-over is
*flagged*, and *left* once the background thread goes without having seen it (`ThreadLeaves`); the thread of another request takes it up again. The handler is told at least once: later events for a session that was told are not distinguished.

**OtlpHttpClient** has the callers of `Export`, `ForceFlush` and `Shutdown`, the destructor, and the handler on whichever thread calls
it, over the stages of HttpSessions. Critical sections of `session_manager_lock_` are one action, except `cleanupGCSessions`, which waits
for the HTTP client with both mutexes held (`BeginCleanup`, `EndCleanup`). Waiting is test, block, wakeup or timeout, and mutex again.
Exporters are not called concurrently (the specification of exporters), so one `Export` runs at a time, but their sessions overlap.
`ShutdownReturn` follows at once: `while (cleanupGCSessions())` looks at a list that only the swap before it could have left non-empty, under a mutex that is held, so
the loop's body is reached in no behaviour, in the model as in the code.

**HttpClientCurl** models `http_client_curl.cc` and the asynchronous half of `http_operation_curl.cc`, one action per critical section of `sessions_m_` or `session_ids_m_`. The
owner's thread runs `SendRequest` in five steps; any thread cancels (`Scan`, `Abort`, `ScheduleAbortSession`, and `CleanupSession` in two, `EraseSession` and `SettleSession`);
the background thread goes through `Perform`, `PerformCurlMessage`, `DoAbortSessions`, `DoRemoveSessions`, `DoAddSessions` and `DoRetrySessions`, and decides whether to
leave, taking `background_thread_m_` for a last look (`busy`). curl itself is a set of transfers any of which may end, well or badly, in a call of `curl_multi_perform`.
Which retries are due is any subset of those that wait (the code keeps a FIFO and stops at the first that is not due). Sessions with their owner threads are interchangeable, which the symmetry of the run uses.

## 3. Runs

| Run | Instance | Checks | Result |
|---|---|---|---|
| `buffer` | 2 producers, 4 elements, max_size 2 | `FifoDelivery`, `OwnElementBack`, `OneHolder`, `IInv`, `ImplementsQueue`, `AddReturns` | pass, 209,949 states |
| `span` | 1 producer, 1 patient flush, 1 shutdown, queue 2, batch option 5 (clamped to 2), 2 calls | `BInv`, `FullQueueWakes`, `FlushReturns`, `ShutdownReturns`, `EventuallyExported` | pass, 137,172 states |
| `log` | 1 producer, 1 flush, 2 shutdowns, queue 2, batch 1, 3 calls, all wakeups | `FlushDelivers`, `ShutdownDrains`, `QueueBounded`, `BInv`, `NoExportAfterShutdown` | pass, 1.3 million states |
| `reader_safety` | 1 flush, 2 shutdowns, 2 measurements | `FlushDelivers`, `ShutdownBarrier`, `RInv`, `NoExportAfterShutdown` | pass, 1.4 million states |
| `reader_live` | 1 flush, 1 shutdown, both patient, 1 measurement | `FlushReturns`, `ShutdownReturns`, `EventuallyExported` | pass, 233,452 states |
| `storage` | 3 attribute sets, limit 2, 3 collectors (1 from the start, 2 late; 2 delta, 1 cumulative); 3 measurements, or 3 rounds of observations of 1 series | `AsyncTypeOK`, `ReportedOnce`, `WithinLimit`, `SyncNeverOverReports`, `CounterNeverDecreases` | pass, 610,171 states |
| `storage_overflow` | 3 attribute sets, limit 1, 1 cumulative collector | `OverflowCombines` | **violated** (finding) |
| `storage_late` | 1 cumulative collector, 1 late delta collector | `NothingTakenAway` | **violated** (finding) |
| `otlp` | 1 synchronous and 1 asynchronous export, 1 flush or shutdown with a timeout, the destructor | `CallbackOnce`, `SyncExportHonest`, `FlushHonest`, `DestructorBarrier`, `OInv`, `CallsReturn` | pass, 285,588 states |
| `otlp_destructor` | 1 asynchronous export, 1 flush or shutdown, the destructor | `NeverWaitsForever` | **violated** (finding) |
| `http` | 2 sessions, 1 retry each, 1 `CancelAllSessions`, the destructor | `TypeOK`, `HandleOwned`, `WorkHasThread`, `DestructorBarrier`, `ImplementsSessions` | pass, 1.6 million states |
| `http_exit` | as `http`, without retries | `NothingPending` | **violated** (finding) |

Why the bounds are enough. In `buffer` the ring has three slots and four elements
pass through it, so indices wrap, ranges wrap, the buffer fills, and two producers
meet on a slot in every combination. In `span` two spans fill the queue of two, which is what
`FullQueueWakes` needs; the shutdown may overtake the flush and the reverse.
In `log` a third record finds the queue of two full and is dropped, and a batch of one makes a flush take more than one batch. In the
reader two measurements separate what was recorded before and after a flush. In `storage` three
attribute sets pass a limit of two, and the single-collector path is taken before a second
reader comes; three rounds let every collector observe, and a baseline be replaced twice (three series in two rounds pass too, 1.4 million states). In `otlp` two sessions make the asynchronous export exceed its limit of one, let a later session
finish before an earlier one, and let a flush or a shutdown come between any two steps of either. In `http` one session keeps the background
thread alive or lets it leave while the other is sent, cancelled or retried. The bounds on calls and measurements (`MaxCalls`, `MaxRecords`, the
set `Elements`) end behaviours, and for the safety properties do no more than that. For liveness they are an assumption: `AddReturns` is about finitely
many `Add`s, and false of an endless stream. The theorems hold without a bound on the threads and sizes.

Deadlock is checked in the runs of the buffer, the processors and the reader: the only states without a successor but a stutter
are those in which every call has returned and the worker has left (`Finished`, `Quiescent`).
The other systems really come to rest, when every
call has been made and has returned, or, in `storage`, when the bound on rounds is used up; there, that callers are
not stuck is `CallsReturn` and `WorkHasThread`.

### Fairness

Threads get scheduled and a free mutex is acquired in the end: weak fairness on
each thread's steps. No call of the API has to be made. Beyond that:

- `SwapIfNull` and `CasHead` are strongly fair: a weak compare-exchange may fail spuriously,
  but not for ever. `AddReturns` also needs every other thread to be scheduled: a producer
  stopped between its two compare-exchanges blocks the others, so the ring is not lock-free in the technical sense. Nor is it starvation-free: a producer whose
  `head_` is stale each time can swap, lose the compare-exchange and undo for ever while others keep adding. It returns once they stop.
- In `span` no timer and no spurious wakeup helps: `LiveSpec` lets the schedule delay pass but
  does not require it, so `FullQueueWakes`, `FlushReturns` and `ShutdownReturns` hold by notifications alone.
  `EventuallyExported` has the timer's fairness as its premise.
- In the reader `WaitTimeout` and `FlushSlice` are strongly fair: the deadline of a `wait_for` with a
  predicate is fixed when it begins, so wakeups in between do not put it off. The
  reader depends on it, because its notifications can be lost. `EventuallyExported` has as its premise that collections do not
  time out again and again, since a collection that does is thrown away.

- In `otlp` every thread is scheduled, `wait_for` expires, a session that the HTTP client's thread has is reported and let go of (HttpSessions, whose
  promise rests on curl ending each transfer at its timeout; nothing is promised of a session that was left), and `ReleaseSession` gets its mutex (strong fairness, since it competes for it). The client is destroyed only when
  somebody does so. `CallsReturn` excludes the sessions that the HTTP client drops or leaves (`Forgotten`), which are the findings `otlp_destructor` and `http_exit`: the destructor may wait for either for ever.
- `http` checks safety only: with two sessions and a cancel the liveness graph is beyond the time a run should take.

### Mutants

Each property of a passing run has a mutant, an operator named after the definition it
replaces (`SwapIfNull_Store`, `NotifyCompletion_NoLock`, ...) that makes a plausible mistake and breaks it.

## 4. Findings

1. **Overflow entries overwrite each other** (`storage_overflow`). `buildMetrics` merges with `Get(attributes)` and
   `Set(attributes)`; past the limit `Set` redirects to the overflow entry and replaces it, so for
   a collector that goes through the merge all but one contribution are lost.
2. **A reader that is being added takes measurements from another** (`storage_late`). The
   single-collector path tests the length of the list, not that the one in it is
   the caller; a delta reader collects as soon as it is started, before it is in the list.
   (`AddMetricReader` is documented as not thread safe; the other thread here is the reader's own.)

3. **The OTLP HTTP client's destructor can wait for ever** (`otlp_destructor`). If a `Shutdown` on one thread cancels all sessions while an `Export` on another is between
   `createSession` and `SendRequest`, the curl client forgets the session, sends nothing and reports nothing, but the session stays in `running_sessions_`. The destructor, whose
   comment says it should not wait for ever, loops until that set is empty. A session that the curl client's thread leaves behind (4) has the same effect; the property sets it aside, so that the run shows this one.
4. **The curl client's thread leaves while a session is being cancelled** (`http_exit`). The "double check" before it exits is made under `background_thread_m_`, which
   `CancelSession` does not take: a session between its two containers, or moved to `pending_to_abort_sessions_` after that list was looked at, is overlooked, and its
   handler is not told unless a later request spawns a new thread. `FinishSession` on it waits for a promise nobody sets.

`ReportedOnce` states exactly what holds in spite of 1 and 2: within the limit, and with
no reader added during a collection, each collector is told of each measurement once. `WorkHasThread` states what holds in spite of 4: a session that is
still registered is never left behind. The cancel that the destructor itself makes can come during the last look as well, so its `DestructorBarrier` does not say that every handler has been told.

Observations that contradict no document and so have no run of their own: a metric collection slower than the export timeout is thrown away, and the flush or shutdown that asked for
it still reports success (periodic_exporting_metric_reader.cc:171); a cumulative reader that is added later is told of an observable
instrument only how it changed since then, not its value (`skipped` in `ReportedOnce`); `SetMetricProducer` starts the worker of a reader that has been shut down (metric_reader.cc:17); past the limit an observable counter's overflow point grows by the full value in every round
(async_metric_storage.h:177); `ForceFlush` of the OTLP HTTP client counts sessions, so one that was started later and finishes first stands for one still running (`FlushHonest` says
exactly that); the last look of the curl client's thread runs handlers with `background_thread_m_` held, so one that sent a request from there would deadlock.

## 5. Proofs

All theorems are safety properties, for any sets of threads and any sizes allowed by the
named assumptions (`MaxSizeAssumption`, `NullAssumption`, `SizesAssumption`, `ThreadsAssumption`,
`ClampAssumption`, `ReaderAssumption`, `OtlpAssumption`, `CurlAssumption`, `MapAssumption`, `StorageAssumption`, `AsyncAssumption`). Each follows from an inductive invariant that TLC has checked first: in the runs above, but for three. `CInv` of the curl client holds on the instance of `http` too and would make that run take more than its five minutes. `SInv` of the metric storages
speaks of all maps of integers; with the integers cut to a range it holds on the instance of `storage`, and on one with two collectors and two observed series. `CountInv` of the same storages holds on the instance of `storage`, written without the sets of maps.

**CircularBuffer_proofs**: `IInv`. `FifoDelivery` is not inductive: it needs that the slot of every live position (accepted,
not yet emptied) holds the element accepted there (`LiveSlots`), hence that no producer overwrites it. For
that a producer between its two compare-exchanges must own a slot that is no live position's and
no other producer's (`HeldSlots`), which rests on the slot having been null and on `Counters`: live positions,
claimed or not, fit in the ring, so distinct positions have distinct slots. `RangeSlots` says that the two
spans the consumer walks are the next positions, wrapped. The arithmetic of `%` is in lemmas of its own.
Two results rest on `IInv`. `ImplementsBoundedQueue` is the refinement: one lemma per action says which step of `BoundedQueue` it is, under the mapping that
cuts the history of accepted elements at `tail_` and at the elements delivered; the work is in `Segment`, `SegmentAppend` and `SameSeq`, which say what becomes of the
two parts when the history grows or a cut moves. The last compare-exchange is the interesting case: the room that was observed by `LoadTail` must still bound what is in the queue.
`UniqueOwner` is `OneHolder`, a sum of cardinalities: `HolderInv` says that it is 0 or 1, `SlotUpdate`, `CountAppend` and their like what one assignment changes in
each term, and `HolderSum` adds the changes up, so a step is correct when they sum to zero.
Theorems: `Invariance`, `TypeCorrect`, `DeliversInOrder`, `ReturnsOwnElement`, `ImplementsBoundedQueue`, `UniqueOwner`.

**BatchProcessor_proofs**: that every shared step preserves `BInv`, one lemma per group of actions, used by **BatchSpanProcessor_proofs** and
**BatchLogRecordProcessor_proofs** with their own steps. `QueueInv`: only the worker takes elements out, so a snapshot of the size stays
a lower bound. `FlushInv`: for a flush whose number the current cycle has read, all that was accepted before it
is exported or in the rest of the snapshot; this is where the order "sequence first, size second" is used.
`StopInv`: only the first stopper has `already_shutdown` false, and the worker leaves only when the queue has been seen empty after the flag
was set. Theorems, for each of the two: invariance, types, `FlushDelivers`, `ShutdownDrains`, `QueueBounded`, `NoExportAfterShutdown`.

**PeriodicExportingMetricReader_proofs**: `RInv`. `DataInv` orders the collections, `FlushInv` is as above with `Covered` for exported or thrown away, `StopInv` has
`shutdown_m_` as the token of the one stopper that works. Theorems: `ReaderInvariance`, `ReaderTypeCorrect`, `ReaderFlushCorrect`, `ReaderBarrier`, `ReaderQuiet`.

**OtlpHttpClient_proofs**: `OInv`, one lemma per operation, and before them the lemmas named `Keep...`, which say what part of `OInv` survives which changes, since most
steps move one caller on and touch little else. `SessionInv` ties the stage of a session to the step of its `Export`, to `stopping_` and to the calls of its callback: the
exchange of `stopping_` is what makes the callback run once. `CounterInv` says that the two counters are the sizes of two sets of sessions of which one contains the other, so equal
counters mean equal sets. `EventInv` says who may be inside a handler and at which stage of the session, that one thread releases a session, and `FlushInv` what a flush waits for; `FlushHonest` is the
counting argument on top. `LockInv` and `DestroyInv` say what is empty while the session lock is held and at the last steps of the destructor. The proofs use the cardinality lemmas of `FiniteSetTheorems`.
Theorems: `Consistent`, `TypeCorrect`, `OneCallback`, `HonestExport`, `HonestFlush`, `DestructorIsBarrier`.

**HttpClientCurl_proofs**: `CInv`, with one lemma per critical section and in it one step per conjunct. The conjuncts are about one session or caller at a time (`CallerOK`, `OperationOK`,
`HandleOK`, `RegisteredOK`, `ReportOK`), so a step is proved for one arbitrary session `r`. None of the run's invariants is inductive, for the same reason: they say what a container holds, but not what the
thread that is about to change it knows. `OperationOK` follows an operation along `SendRequest`, with what a cancel may have done to it meanwhile. `HandleOK` says that an easy handle in the multi handle
is bound to its operation or is one of those to be freed, and why it is in there: a transfer, a retry, a message being read, or a cleanup (`FreedOnce`). `RegisteredOK` says that a session of `sessions_`
has not been cancelled, and that once handed over it is in one of the places the background thread looks at; `ThreadInv` says what the last look has seen so far, and that ids added behind its back belong to
an owner who will find no thread (`NoneOverlooked`). That the destructor's snapshot of the thread stays right while it cancels rests on no call being under way.
`ClientImplementsSessions` is the refinement of `HttpSessions`, under the mapping `Stage`. It needs `ReportOK`, which says that an operation is cleaned up, unbound, given up or settled only if its handler has been told
(without it a promise could be set on a session that is not `reported`), and that of the threads that cancel a session one holds it, while the background thread does not have it (in `CallerOK`: `Stage`
would otherwise skip from `sending` to `dropped`). Whether a cancelled session is `flagged` or `left` depends on there being a thread, so each step that starts one (`HandOver`) or ends one (`ThreadLeaves`) moves all such sessions at once. There is one lemma per operation: most of them keep every stage (`...KeepStages`), each of the others moves one session (`...Stage`), and `Moves` says which step of
`HttpSessions` such a move is. With `OtlpHttpClient_proofs`, which is about any client that moves sessions along these stages, the two clients are proved one on top of the other.
Theorems: `Consistent`, `TypeCorrect`, `FreedOnce`, `NoneOverlooked`, `DestructorIsBarrier`, `ClientImplementsSessions`.

**AsyncMetricStorage_proofs**: `SInv`, for synchronous and observable instruments. Every collection ends in loops over maps, so a step is about what a loop computes, and that is an
induction over the loop. The library's induction theorems cannot be used here, so the module has its own: `Least` (a set of naturals that is not empty has a least element, since `<` is
well-founded on them), from it `UpTo` (what holds of 0 and is passed on holds up to n, stated with sets in place of predicates), and `RunExists`, that a recursive function on 0..n exists and obeys its equation. `LoopEnds` and `LoopExists`
turn these into a rule for `Over`: what holds at the start and is kept by the step for each key holds of every result, whatever the order. Four loops use it: `MergeMap`, `RecordRound`, `RecordSums` and `DiffRound`. For each of them `...Bounded` says that the
limit is kept, and `...Fits` what the result holds for every key if all the keys fit within the limit (sums, or differences to the baselines); past the limit the order matters and only the first holds. `SumFacts` and `MergeMapsFacts` do the same for the
stash, a sequence of maps.
`ReportedOnce` is not inductive. `FitsInv`: as long as the attribute sets in use fit, no map has an overflow entry or a set that was not recorded, so that no merge is redirected. `BaselineInv`: the baseline of an observed series is what has been accounted for so far, so the differences add up. `RoundInv`: the round holds
each series once, as it was last observed, since `CollectInv` has one holder of `meter_lock_` at a time and the round is empty when it is taken. `ToldInv`: a cumulative collector's last reported map is what it has been told. `CollectInv`: without an overlap a collection works with all collectors that are in the list,
which is what lets the single-collector path pass over the stash. `SType` has the limit, map by map. `Fit` is about the attribute sets in use now; `FitMonotone` carries what is known of the maps over when there is one more.
The assumptions are that the attribute sets and the collectors are finite and `Overflow` is not an attribute set of its own; any limit, 0 included, is allowed. `MaxRecords`, `MaxObserves`, `MaxSeries` and `MaxValue` are arbitrary naturals.
Past the limit `ReportedOnce` says nothing, and with a reader that is added during a collection neither; what is left is that nothing is counted twice. `SyncNeverOverReports` compares totals over the keys of a map, `Total`, which is the fold of the community modules over a set.
`TotalDef`, `SumExists` and `TotalFacts` turn it into a function on the subsets of the keys that takes one key off at a time (`SubsetInduction`, from `UpTo` and the cardinality), and from that follow `TotalAdd`, `TotalMonotone` and `TotalUpdate`: totals add up, are monotone, and change by what one
term changes. With them `MergeCounts` says, of a merge in any order, that the result has in total no more than the two maps: an entry that is redirected to the overflow point replaces what was there, which loses counts and adds none. That needs the lost part not to be negative, so `CounterInv` says that the maps of
an instrument that only goes up hold naturals (`Counts`); of a monotonic observable because no baseline is above the last observed value, which holds past the limit as well, where a series has no baseline. `TotalInv` is the account for each collector, over the delta map, the delta taken, the stash and the reports, and that a cumulative collector's last reported map is
no more than it was told: a collection that reports nothing replaces that map but not the report. `CountInv` is the two together, inductive given `SInv`. `CounterNeverDecreases` follows step by step: a delta that is reported is a `Counts`, and a cumulative report is, by `MergedFits` and `ToldInv`, the one before and the stash; past the limit a merge can lose
counts (the finding of `storage_overflow`), and a cumulative report may decrease.
Theorems: `Consistent`, `TypeCorrect`, `LimitHeld`, `ToldOnce`, `Counted`, `NeverCountedTwice`, `CountersGrow`.

Only model-checked: the liveness properties, since fairness is outside the prover's reach. Every invariant and every safety action property of a passing run is proved.

## 6. Not modelled

Memory orders weaker than sequential consistency; durations and clocks; the contents of spans, records and points; exemplars,
bound instruments and thread instrumentation (preview features); the data race on the list of collectors, and those on an operation's members when
a session is cancelled during `SendRequest`, beyond the orders of the steps; views that merge series, and collections of a disabled meter; the destructors of the batch processors and the metric reader, which are their `Shutdown` made last, and a producer registered after `Shutdown`; the cleanup that `~HttpOperation` makes on the thread that drops the last reference, and one
that falls between `SendAsync`'s making of the promise and its last assignment, after which nobody would set it; a failing `curl_multi_perform`, `FinishAllSessions` called from another thread than the sessions' owner, handlers
that call back into the HTTP client, and its synchronous mode;
and the components marked `not_modelled` in `PROJECT.json`, each with its reason: pure functions of floating-point
numbers, parsing and encoding, I/O around third-party libraries, and forwarding under one lock.

## 7. Plan

Done: the buffer, both batch processors, the metric reader, the storages of synchronous and observable instruments, the OTLP HTTP client and the curl client under it. Next, in this order:

1. Liveness of the curl client on a reduced instance, and `resetMultiHandle`.
2. The contexts' `ForceFlush` and `Shutdown` over several processors and readers, and the span lifecycle.
