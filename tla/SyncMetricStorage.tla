-------------------------- MODULE SyncMetricStorage --------------------------
(***************************************************************************)
(* sdk/metrics/state/sync_metric_storage.h and .cc with the                *)
(* TemporalMetricStorage behind it, and what Meter and MeterContext make   *)
(* of it.  Measurements are added to a delta map.  Meter::Collect runs     *)
(* under the context's meter_lock_ and the meter's storage_lock_, so one   *)
(* collector at a time takes the map (a new one is recorded into at once), *)
(* stashes it for every collector of the context, and reports what is      *)
(* stashed for itself, as deltas or added to what it reported before.  A   *)
(* single delta collector is told without the stash.                       *)
(*                                                                         *)
(* AddMetricReader constructs a collector, which starts the reader and so  *)
(* lets it collect, and then adds it to the list of collectors.  The list  *)
(* has no lock; a collection works with the list as it was when it began.  *)
(***************************************************************************)
EXTENDS AttributesHashMap

CONSTANTS Collectors, \* the metric readers' collectors
          Late,       \* those added when the instrument is in use already
          Delta,      \* those whose temporality is delta, not cumulative
          MaxRecords, \* bound: measurements recorded in a behaviour
          Nobody      \* no collection is in progress

ASSUME StorageAssumption ==
  /\ IsFiniteSet(Collectors) /\ Delta \subseteq Collectors /\ Late \subseteq Collectors
  /\ Nobody \notin Collectors /\ MaxRecords \in Nat

VARIABLES hashmap,             \* attributes_hashmap_
          started, collectors, \* readers that may collect; MeterContext's collectors_
          collecting, step,    \* who is in Meter::Collect, and where
          listed, delta,       \* its arguments: the collectors, delta_metrics
          unreported,          \* unreported_metrics_: a list of maps by collector
          lastReported,        \* last_reported_metrics_
          recorded, reported,  \* history: measurements made; told to each collector,
          skipped, overlap     \* ... made before it was added; see ReportedOnce

collectVars == <<collecting, step, listed, delta>>
vars == <<hashmap, started, collectors, collectVars, unreported, lastReported,
          recorded, reported, skipped, overlap>>

Init ==
  /\ hashmap = EmptyMap
  /\ started = Collectors \ Late /\ collectors = Collectors \ Late
  /\ collecting = Nobody /\ step = "idle" /\ listed = {} /\ delta = EmptyMap
  /\ unreported = <<>>
  /\ lastReported = [c \in Collectors |-> EmptyMap]
  /\ recorded = [a \in Attributes |-> 0]
  /\ reported = [c \in Collectors |-> [k \in Keys |-> 0]]
  /\ skipped = [c \in Collectors |-> [a \in Attributes |-> 0]] /\ overlap = FALSE

Total(f) == FoldFunction(+, 0, f)

\* RecordLong and RecordDouble, under attribute_hashmap_lock_.
Record(a) ==
  /\ Total(recorded) < MaxRecords
  /\ hashmap' = Aggregate(hashmap, a, 1)
  /\ recorded' = [recorded EXCEPT ![a] = @ + 1]
  /\ UNCHANGED <<started, collectors, collectVars, unreported, lastReported, reported,
                 skipped, overlap>>

\* AddMetricReader: the constructor of MetricCollector starts the reader ...
StartReader(c) ==
  /\ c \notin started
  /\ started' = started \union {c}
  /\ UNCHANGED <<hashmap, collectors, collectVars, unreported, lastReported, recorded,
                 reported, skipped, overlap>>

\* ... and then it is added to the list.
PushCollector(c) ==
  /\ c \in started \ collectors
  /\ collectors' = collectors \union {c}
  /\ skipped' = [skipped EXCEPT ![c] = [a \in Attributes |-> recorded[a] - At(hashmap, a)]]
  /\ overlap' = (overlap \/ collecting # Nobody)
  /\ UNCHANGED <<hashmap, started, collectVars, unreported, lastReported, recorded, reported>>

-----------------------------------------------------------------------------
(* Meter::Collect, SyncMetricStorage::Collect and buildMetrics.            *)

\* A synchronous storage is collected whether or not its meter is enabled.
MeterCollect(c) ==
  /\ collecting = Nobody /\ c \in started
  /\ collecting' = c /\ step' = "take" /\ listed' = collectors
  /\ overlap' = (overlap \/ c \notin collectors)
  /\ UNCHANGED <<hashmap, started, collectors, delta, unreported, lastReported, recorded,
                 reported, skipped>>

TakeDelta ==
  /\ step = "take" /\ step' = "build"
  /\ delta' = hashmap /\ hashmap' = EmptyMap
  /\ UNCHANGED <<started, collectors, collecting, listed, unreported, lastReported,
                 recorded, reported, skipped, overlap>>

\* The test for a single collector with delta temporality.
FastPath == Cardinality(listed) = 1 /\ collecting \in Delta

\* What collector c's exporter knows once it is told of the points in m.
Told(c, m) ==
  [k \in Keys |-> IF c \in Delta THEN reported[c][k] + At(m, k) ELSE At(m, k)]

Return ==
  /\ collecting' = Nobody /\ step' = "idle" /\ listed' = {} /\ delta' = EmptyMap
  /\ UNCHANGED <<hashmap, started, collectors, recorded, skipped, overlap>>

BuildFast ==
  /\ step = "build" /\ FastPath
  /\ reported' = [reported EXCEPT ![collecting] = Told(collecting, delta)]
  /\ Return
  /\ UNCHANGED <<unreported, lastReported>>

\* What is stashed for c.
StashOf(c) == IF c \in DOMAIN unreported THEN unreported[c] ELSE <<>>

\* Mutant: the delta is stashed for the collecting collector only.
StashDelta_Own ==
  IF DOMAIN delta = {} THEN unreported
  ELSE (collecting :> Append(StashOf(collecting), delta)) @@ unreported

\* Mutant: an empty delta is stashed like any other.
StashDelta_Always ==
  [d \in listed |-> Append(StashOf(d), delta)] @@ unreported

\* unreported_metrics_ with the delta added for every collector of the list.
StashDelta ==
  IF DOMAIN delta = {} THEN unreported
  ELSE [d \in listed \union DOMAIN unreported |->
          IF d \in listed THEN Append(StashOf(d), delta) ELSE StashOf(d)]

\* Nothing has ever been stashed for the collector.
BuildNothing ==
  /\ step = "build" /\ ~FastPath
  /\ collecting \notin DOMAIN StashDelta
  /\ unreported' = StashDelta
  /\ Return
  /\ UNCHANGED <<lastReported, reported>>

\* Mutant: a cumulative collector is told of the stash only.
MergedMetrics_Forget == MergeMaps(StashDelta[collecting])

\* The stash merged; the previous result merged in too if it is cumulative.
MergedMetrics ==
  LET merged == MergeMaps(StashDelta[collecting])
  IN  IF collecting \in Delta THEN merged
      ELSE UNION {MergeMap(m, lastReported[collecting]) : m \in merged}

\* Mutant: what is reported stays in the stash.
BuildMetrics_KeepStash ==
  /\ step = "build" /\ ~FastPath
  /\ collecting \in DOMAIN StashDelta
  /\ unreported' = StashDelta
  /\ \E m \in MergedMetrics :
       /\ lastReported' = [lastReported EXCEPT ![collecting] = m]
       /\ reported' = IF DOMAIN m = {} THEN reported
                      ELSE [reported EXCEPT ![collecting] = Told(collecting, m)]
  /\ Return

BuildMetrics ==
  /\ step = "build" /\ ~FastPath
  /\ collecting \in DOMAIN StashDelta
  /\ unreported' = [StashDelta EXCEPT ![collecting] = <<>>]
  /\ \E m \in MergedMetrics :
       /\ lastReported' = [lastReported EXCEPT ![collecting] = m]
       /\ reported' = IF DOMAIN m = {} THEN reported
                      ELSE [reported EXCEPT ![collecting] = Told(collecting, m)]
  /\ Return

Next ==
  \/ \E a \in Attributes : Record(a)
  \/ \E c \in Collectors : StartReader(c) \/ PushCollector(c) \/ MeterCollect(c)
  \/ TakeDelta \/ BuildFast \/ BuildNothing \/ BuildMetrics

Spec == Init /\ [][Next]_vars

-----------------------------------------------------------------------------
\* What several maps hold together for a key.
SumOf(list, k) ==
  LET sum[i \in 0 .. Len(list)] == IF i = 0 THEN 0 ELSE sum[i - 1] + At(list[i], k)
  IN  sum[Len(list)]

\* What has been recorded and collector c has yet to be told of, by key.
Pending(c, k) == At(hashmap, k) + At(delta, k) + SumOf(StashOf(c), k)

\* Types: what the maps and the stash can hold; no empty map is stashed.
TypeOK ==
  /\ IsMap(hashmap) /\ IsMap(delta)
  /\ collectors \subseteq started /\ started \subseteq Collectors
  /\ listed \subseteq collectors /\ DOMAIN unreported \subseteq collectors
  /\ collecting \in Collectors \union {Nobody} /\ step \in {"idle", "take", "build"}
  /\ \A c \in Collectors :
       /\ IsMap(lastReported[c]) /\ IsMap(reported[c])
       /\ \A i \in DOMAIN StashOf(c) : IsMap(StashOf(c)[i]) /\ DOMAIN StashOf(c)[i] # {}

\* The attribute sets in use fit within the cardinality limit.
Fits == Cardinality({a \in Attributes : recorded[a] > 0}) <= Limit

\* Every collector is told of every measurement made since it was added
\* exactly once, under its own attributes, whatever the temporalities, in
\* whatever order collectors collect and measurements arrive meanwhile, with
\* and without the single-collector path; as long as the attribute sets fit
\* and no reader is added while a collection runs.  Of an observable instrument
\* (AsyncMetricStorage) what it is told of a series adds up to the last value
\* observed less the value when the collector was added (skipped): a collector
\* that is there from the start is told the value itself, one that is added
\* later, with cumulative temporality too, only the change since then.
ReportedOnce ==
  Fits /\ ~overlap =>
    \A c \in collectors, a \in Attributes :
      recorded[a] - skipped[c][a] = Pending(c, a) + reported[c][a]

\* No map ever has more attribute sets than the limit, the overflow set not
\* counted: neither the one recorded into nor one that is reported.
WithinLimit ==
  \A m \in {hashmap, delta} \union {lastReported[c] : c \in Collectors} :
    Cardinality(DOMAIN m \ {Overflow}) <= Limit

\* No measurement is counted twice, past the limit and when readers are
\* added during a collection too.
NeverOverReports ==
  \A c \in Collectors :
    Total([k \in Keys |-> Pending(c, k) + reported[c][k]]) <= Total(recorded)

\* What a test says of the limit: attribute sets past it combine into the
\* overflow point and no contribution is dropped.
OverflowCombines ==
  \A c \in Collectors \ Late :
    Total([k \in Keys |-> Pending(c, k) + reported[c][k]]) = Total(recorded)

\* What the comment on the single-collector path relies on: no other reader
\* is configured to collect the same data.  A reader that was there from the
\* start is told of every measurement, whoever is added later.
NothingTakenAway ==
  Fits => \A c \in Collectors \ Late, a \in Attributes :
            recorded[a] = Pending(c, a) + reported[c][a]
=============================================================================
