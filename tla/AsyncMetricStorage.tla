-------------------------- MODULE AsyncMetricStorage --------------------------
(***************************************************************************)
(* sdk/metrics/state/async_metric_storage.h with the part of Meter and     *)
(* ObservableRegistry that feeds it.  The callbacks of an observable       *)
(* instrument report absolute values; the storage turns them into the      *)
(* deltas that the temporal storage of SyncMetricStorage takes.  A         *)
(* monotonic sum is differenced as it is observed, any other instrument    *)
(* when it is collected.                                                   *)
(*                                                                         *)
(* What makes it hard: Meter::Collect observes before it takes             *)
(* storage_lock_, so that only meter_lock_, which ForEachMeter of the      *)
(* context holds around it, keeps a second collector from observing into   *)
(* the same round; a reader can be added between the two; and the          *)
(* baselines are kept in a map that has the cardinality limit as well.     *)
(*                                                                         *)
(* An instrument has one callback, which observes some attribute sets each *)
(* time, none if it is removed.  The same behaviours with a synchronous    *)
(* instrument are those of SyncMetricStorage.  A collection while the      *)
(* meter is disabled, which it reads once, neither observes nor collects   *)
(* an observable instrument: it changes nothing here and has no action.    *)
(***************************************************************************)
EXTENDS SyncMetricStorage

CONSTANTS MaxObserves, \* bound: rounds of callbacks in a behaviour
          MaxSeries,   \* bound: attribute sets that are observed in a behaviour
          MaxValue     \* bound: values that are observed

ASSUME AsyncAssumption == MaxObserves \in Nat /\ MaxSeries \in Nat /\ MaxValue \in Nat

VARIABLES instrument,            \* "sync", "monotonic" or another kind, "updown"
          lastObserved, round,   \* last_observed_hash_map_, round_hash_map_
          observer,              \* who holds meter_lock_ and is yet to take storage_lock_
          observed, observes     \* history: last value of each series; rounds so far

asyncVars == <<lastObserved, round, observer, observed, observes>>
allVars == <<vars, instrument, asyncVars>>

InitAny ==
  /\ Init
  /\ instrument \in {"sync", "monotonic", "updown"}
  /\ lastObserved = EmptyMap /\ round = EmptyMap /\ observer = Nobody
  /\ observed = [a \in Attributes |-> 0] /\ observes = 0

-----------------------------------------------------------------------------
(* Record, under hashmap_lock_; a state of the maps is <<baselines, other>>. *)

\* Mutant: the baseline of a series is what it was first observed at.
RecordMonotonicSum_FirstBaseline(maps, a, v) ==
  <<IF a \in DOMAIN maps[1] THEN maps[1] ELSE SetEntry(maps[1], a, v),
    Aggregate(maps[2], a, v - At(maps[1], a))>>

\* The difference to the baseline is added to the delta map.
RecordMonotonicSum(maps, a, v) ==
  <<SetEntry(maps[1], a, v), Aggregate(maps[2], a, v - At(maps[1], a))>>

\* Where the observations of a callback can take the maps: of a monotonic sum,
\* and of another instrument.
RecordSums(maps, new) ==
  Over(LAMBDA m, a : RecordMonotonicSum(m, a, new[a]), maps, DOMAIN new)
RecordRound(m, new) == Over(LAMBDA acc, a : Aggregate(acc, a, new[a]), m, DOMAIN new)

\* What a callback can report.  That of an observable counter never goes back.
Reports ==
  LET Few(s) == Cardinality(s \union {a \in Attributes : observed[a] > 0}) <= MaxSeries
  IN  {new \in UNION {[s -> 1 .. MaxValue] : s \in {t \in SUBSET Attributes : Few(t)}} :
         instrument = "monotonic" => \A a \in DOMAIN new : new[a] >= observed[a]}

\* What the callbacks report is recorded.
Callbacks ==
  \E new \in Reports :
    /\ observed' = [a \in Attributes |-> IF a \in DOMAIN new THEN new[a] ELSE observed[a]]
    /\ IF instrument = "monotonic"
       THEN /\ \E maps \in RecordSums(<<lastObserved, hashmap>>, new) :
                 lastObserved' = maps[1] /\ hashmap' = maps[2]
            /\ recorded' = observed'
            /\ UNCHANGED round
       ELSE /\ round' \in RecordRound(round, new)
            /\ UNCHANGED <<lastObserved, hashmap, recorded>>

\* Mutant: the context's meters are visited without meter_lock_.
Observe_NoMeterLock(c) ==
  /\ instrument # "sync" /\ observes < MaxObserves /\ c \in started
  /\ observer' = c /\ observes' = observes + 1
  /\ Callbacks
  /\ UNCHANGED <<started, collectors, collectVars, unreported, lastReported, reported, skipped,
                 overlap, instrument>>

\* Produce visits the meters under meter_lock_, and Collect of a meter begins
\* with Observe: the callbacks run before storage_lock_ is taken.
Observe(c) ==
  /\ instrument # "sync" /\ observes < MaxObserves
  /\ c \in started /\ observer = Nobody /\ collecting = Nobody
  /\ observer' = c /\ observes' = observes + 1
  /\ Callbacks
  /\ UNCHANGED <<started, collectors, collectVars, unreported, lastReported, reported, skipped,
                 overlap, instrument>>

\* Then Collect goes on with the storages.
CollectObserved(c) ==
  /\ observer = c /\ observer' = Nobody
  /\ MeterCollect(c)
  /\ UNCHANGED <<instrument, lastObserved, round, observed, observes>>

\* Mutant: what was observed is reported as it is.
DiffEntry_Absolute(maps, k) ==
  <<SetEntry(maps[1], k, round[k]), SetEntry(maps[2], k, round[k])>>

\* One entry of the round.
DiffEntry(maps, k) ==
  <<SetEntry(maps[1], k, round[k]), SetEntry(maps[2], k, round[k] - At(maps[1], k))>>

DiffRound(maps) == Over(DiffEntry, maps, DOMAIN round)

\* Collect of another instrument: BuildDeltaFromRound, and the delta is taken.
BuildDeltaFromRound ==
  /\ instrument = "updown" /\ step = "take" /\ step' = "build"
  /\ \E maps \in DiffRound(<<lastObserved, hashmap>>) :
       lastObserved' = maps[1] /\ delta' = maps[2]
  /\ hashmap' = EmptyMap /\ round' = EmptyMap
  /\ recorded' = observed
  /\ UNCHANGED <<started, collectors, collecting, listed, unreported, lastReported, reported,
                 skipped, overlap, instrument, observer, observed, observes>>

\* What does not depend on the kind of instrument.
Shared ==
  /\ \/ \E c \in Collectors : StartReader(c) \/ PushCollector(c)
     \/ BuildFast \/ BuildNothing \/ BuildMetrics
     \/ instrument # "updown" /\ TakeDelta
     \/ instrument = "sync" /\ (\E a \in Attributes : Record(a))
     \/ instrument = "sync" /\ (\E c \in Collectors : MeterCollect(c))
  /\ UNCHANGED <<instrument, asyncVars>>

NextAny ==
  \/ Shared
  \/ \E c \in Collectors : Observe(c) \/ CollectObserved(c)
  \/ BuildDeltaFromRound

SpecAny == InitAny /\ [][NextAny]_allVars

-----------------------------------------------------------------------------
\* Types, and that the baselines and the round stay within the limit.
AsyncTypeOK ==
  /\ TypeOK /\ instrument \in {"sync", "monotonic", "updown"}
  /\ observer \in started \union {Nobody} /\ observes \in 0 .. MaxObserves
  /\ \A m \in {lastObserved, round} :
       IsMap(m) /\ Cardinality(DOMAIN m \ {Overflow}) <= Limit

\* Of an instrument that only goes up, what a collector's exporter knows goes
\* up too: no delta that is reported is negative, past the limit too, and no
\* cumulative value that is reported falls behind an earlier one as long as the
\* attribute sets fit; when readers are added during a collection as well.
CounterNeverDecreases ==
  [][instrument # "updown" =>
       \A c \in Collectors : c \in Delta \/ Fits' =>
         \A k \in Keys : reported'[c][k] >= reported[c][k]]_allVars

\* A synchronous instrument's measurement is never counted twice.
SyncNeverOverReports == instrument = "sync" => NeverOverReports
=============================================================================
