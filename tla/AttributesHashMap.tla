-------------------------- MODULE AttributesHashMap --------------------------
(***************************************************************************)
(* sdk/metrics/state/attributes_hashmap.h: the aggregations of one         *)
(* instrument by attribute set, with the cardinality limit.  A map is a    *)
(* function from the attribute sets it has to their aggregations; an       *)
(* aggregation is a sum, its Merge an addition.                            *)
(***************************************************************************)
EXTENDS Integers, FiniteSets, SequencesExt, TLC

CONSTANTS Attributes, \* attribute sets, after the view's filter
          Overflow,   \* the attribute set otel.metric.overflow = true
          Limit       \* cardinality_limit_

ASSUME MapAssumption ==
  IsFiniteSet(Attributes) /\ Overflow \notin Attributes /\ Limit \in Nat

Keys == Attributes \union {Overflow}
IsMap(m) == DOMAIN m \subseteq Keys /\ \A k \in DOMAIN m : m[k] \in Int
EmptyMap == [k \in {} |-> 0]

\* What a map holds for a key.
At(m, k) == IF k \in DOMAIN m THEN m[k] ELSE 0

\* Mutant: the limit is off by one.
IsOverflowAttributes_OffByOne(m, a) ==
  a = Overflow \/ Cardinality(DOMAIN m \ {Overflow}) > Limit

IsOverflowAttributes(m, a) ==
  a = Overflow \/ Cardinality(DOMAIN m \ {Overflow}) >= Limit

\* The key under which an attribute set is found or entered.
KeyOf(m, a) ==
  IF a \notin DOMAIN m /\ IsOverflowAttributes(m, a) THEN Overflow ELSE a

\* Set(a, v): what the key held is overwritten.
SetEntry(m, a, v) ==
  [k \in DOMAIN m \union {KeyOf(m, a)} |-> IF k = KeyOf(m, a) THEN v ELSE m[k]]

\* GetOrSetDefault(a), and Aggregate(v) on what it returns.
Aggregate(m, a, v) == SetEntry(m, a, At(m, KeyOf(m, a)) + v)

\* How TemporalMetricStorage adds an entry to the merged map: Get(a), then
\* Set(a) with the merged or the new aggregation.
MergeEntry(m, a, v) == SetEntry(m, a, At(m, a) + v)

\* Where a loop that does Step for each of the keys, in any order, can lead.
Over(Step(_, _), start, keys) ==
  LET Run(order) ==
        LET after[i \in 0 .. Cardinality(keys)] ==
              IF i = 0 THEN start ELSE Step(after[i - 1], order[i])
        IN  after[Cardinality(keys)]
  IN  {Run(order) : order \in SetToSeqs(keys)}

\* GetAllEntries(src) merging each entry into m.  An unordered_map iterates
\* in any order, and past the limit the order matters.
MergeMap(m, src) == Over(LAMBDA acc, k : MergeEntry(acc, k, src[k]), m, DOMAIN src)

\* The same for several maps, one after the other.
MergeMaps(list) ==
  LET merged[i \in 0 .. Len(list)] ==
        IF i = 0 THEN {EmptyMap} ELSE UNION {MergeMap(m, list[i]) : m \in merged[i - 1]}
  IN  merged[Len(list)]
=============================================================================
