---------------------- MODULE AsyncMetricStorage_proofs ----------------------
(***************************************************************************)
(* Proofs about the metric storages of synchronous and observable          *)
(* instruments, for any attribute sets, collectors and limit.  The loops   *)
(* over the entries of a map are recursive functions over an order of the  *)
(* keys; that they are defined, and what they lead to, is proved by        *)
(* induction over the steps, from the least-number principle.  Then the    *)
(* inductive invariant SInv, with one lemma per action; and on top of it   *)
(* CountInv, of what is counted in total, which holds past the limit too.  *)
(***************************************************************************)
EXTENDS AsyncMetricStorage, FiniteSetTheorems, TLAPS

USE MapAssumption, StorageAssumption, AsyncAssumption

-----------------------------------------------------------------------------
(* The inductive invariant of which the invariants are consequences.       *)

Maps == UNION {[D -> Int] : D \in SUBSET Keys}
Bounded == {m \in Maps : Cardinality(DOMAIN m \ {Overflow}) <= Limit}
Stashed == {m \in Maps : DOMAIN m # {}}

\* The maps without entries other than for P, and when P fits.
Fitting(P) == {m \in Maps : DOMAIN m \subseteq P}
Fit(P) == P \subseteq Attributes /\ Cardinality(P) <= Limit
InUse(f) == {a \in Attributes : f[a] > 0}

SType ==
  /\ recorded \in [Attributes -> Nat] /\ observed \in [Attributes -> Nat]
  /\ reported \in [Collectors -> [Keys -> Int]]
  /\ skipped \in [Collectors -> [Attributes -> Int]] /\ overlap \in BOOLEAN
  /\ hashmap \in Bounded /\ delta \in Bounded /\ lastObserved \in Bounded /\ round \in Bounded
  /\ lastReported \in [Collectors -> Bounded]
  /\ collectors \subseteq started /\ started \subseteq Collectors
  /\ listed \subseteq collectors /\ observer \in started \union {Nobody}
  /\ DOMAIN unreported \subseteq collectors
  /\ unreported \in [DOMAIN unreported -> Seq(Stashed)]
  /\ collecting \in Collectors \union {Nobody} /\ step \in {"idle", "take", "build"}
  /\ instrument \in {"sync", "monotonic", "updown"} /\ observes \in 0 .. MaxObserves

\* A collection has nothing before it takes the delta; a reader that is
\* added during one, or collects before it is added, is an overlap.  Nobody
\* collects while another holds meter_lock_, and who has observed a round holds
\* the lock until the round is taken.
CollectInv ==
  /\ collecting = Nobody <=> step = "idle"
  /\ step # "build" => delta = EmptyMap
  /\ ~overlap /\ step # "idle" => listed = collectors /\ collecting \in collectors
  /\ observer # Nobody => collecting = Nobody /\ instrument # "sync"
  /\ round # EmptyMap => instrument = "updown" /\ (observer # Nobody \/ step = "take")

\* What kind of instrument uses which of the maps.
InstrumentInv ==
  /\ instrument = "monotonic" => observed = recorded
  /\ instrument = "updown" => hashmap = EmptyMap /\ InUse(recorded) \subseteq InUse(observed)

\* As long as the attribute sets fit, none is in a map before it is recorded,
\* and there is no overflow entry.
FitsInv ==
  Fit(InUse(recorded)) =>
    /\ hashmap \in Fitting(InUse(recorded)) /\ delta \in Fitting(InUse(recorded))
    /\ lastObserved \in Fitting(InUse(recorded))
    /\ \A c \in Collectors : /\ lastReported[c] \in Fitting(InUse(recorded))
                             /\ StashOf(c) \in Seq(Fitting(InUse(recorded)))

\* The baseline of a series is what the collectors have been, or will be, told
\* of it in sum.
BaselineInv ==
  instrument # "sync" /\ Fit(InUse(recorded)) =>
    \A a \in Attributes : At(lastObserved, a) = recorded[a]

\* The round has what was observed since the last collection, once.
RoundInv ==
  instrument = "updown" /\ Fit(InUse(observed)) =>
    /\ round \in Fitting(InUse(observed))
    /\ \A a \in Attributes :
         observed[a] = IF a \in DOMAIN round THEN round[a] ELSE recorded[a]

\* What a collector has been told: nothing before it is added; and with
\* cumulative temporality, what it was told last.
ToldInv ==
  \A c \in Collectors : \A k \in Keys :
    /\ ~overlap /\ c \notin collectors => reported[c][k] = 0
    /\ Fit(InUse(recorded)) /\ c \notin Delta => reported[c][k] = At(lastReported[c], k)

SInv == SType /\ CollectInv /\ InstrumentInv /\ FitsInv /\ BaselineInv /\ RoundInv /\ ToldInv
        /\ ReportedOnce

-----------------------------------------------------------------------------
(* Induction up to a number, from the least-number principle.              *)

\* A set of numbers that is not empty has a least one.
LEMMA Least ==
  ASSUME NEW T, T \subseteq Nat, T # {}
  PROVE  \E x \in T : \A y \in T : x <= y
<1> DEFINE R == {p \in Nat \X Nat : p[1] < p[2]}
<1>1. IsWellFoundedOn(OpToRel(<, Nat), Nat) BY NatLessThanWellFounded
<1>2. OpToRel(<, Nat) = R BY DEF OpToRel
<1>3. IsWellFoundedOn(R, Nat) BY <1>1, <1>2
<1>4. PICK x \in T : \A y \in T : ~ (<<y, x>> \in R) BY <1>3, WFMin
<1>5. ASSUME NEW y \in T PROVE x <= y
  <2>1. x \in Nat /\ y \in Nat OBVIOUS
  <2>2. y < x => <<y, x>> \in R BY <2>1
  <2>3. QED BY <1>4, <2>1, <2>2
<1>6. QED BY <1>5

\* T holds the numbers of which a claim is true.
LEMMA UpTo ==
  ASSUME NEW n \in Nat, NEW T, 0 \in T, \A i \in 1 .. n : i - 1 \in T => i \in T
  PROVE  0 .. n \subseteq T
<1> DEFINE Rest == (0 .. n) \ T
<1>1. SUFFICES ASSUME Rest # {} PROVE FALSE OBVIOUS
<1>2. Rest \subseteq Nat OBVIOUS
<1> HIDE DEF Rest
<1>3. PICK x \in Rest : \A y \in Rest : x <= y BY <1>1, <1>2, Least
<1>4. x \in 1 .. n /\ x - 1 \in 0 .. n BY <1>3 DEF Rest
<1>5. x - 1 \in T BY <1>3, <1>4 DEF Rest
<1>6. QED BY <1>3, <1>4, <1>5 DEF Rest

\* The values of a recursive definition with n steps, the i-th of which is g[i].
IsRun(f, start, n, g) == f[0] = start /\ \A i \in 1 .. n : f[i] = g[i][f[i - 1]]

\* A recursive definition whose steps stay in X is one, with values in X.
LEMMA RunExists ==
  ASSUME NEW X, NEW start \in X, NEW n \in Nat, NEW g \in [1 .. n -> [X -> X]]
  PROVE  \E f \in [0 .. n -> X] : IsRun(f, start, n, g)
<1> USE DEF IsRun
<1> DEFINE T == {k \in 0 .. n : \E f \in [0 .. k -> X] : IsRun(f, start, k, g)}
<1>1. 0 \in T
  <2> DEFINE f == [i \in 0 .. 0 |-> start]
  <2>1. f \in [0 .. 0 -> X] /\ IsRun(f, start, 0, g) OBVIOUS
  <2>2. 0 \in 0 .. n OBVIOUS
  <2> HIDE DEF f
  <2>3. QED BY <2>1, <2>2
<1>2. ASSUME NEW k \in 1 .. n, k - 1 \in T PROVE k \in T
  <2>1. PICK f \in [0 .. k - 1 -> X] : IsRun(f, start, k - 1, g) BY <1>2
  <2> DEFINE h == [i \in 0 .. k |-> IF i < k THEN f[i] ELSE g[k][f[k - 1]]]
  <2>2. f[k - 1] \in X /\ g[k] \in [X -> X] OBVIOUS
  <2>3. h \in [0 .. k -> X] BY <2>2
  <2>4. h[0] = start BY <2>1
  <2>5. ASSUME NEW i \in 1 .. k PROVE h[i] = g[i][h[i - 1]]
    <3>1. h[i - 1] = f[i - 1] OBVIOUS
    <3>2. CASE i < k
      <4>1. i \in 1 .. k - 1 BY <3>2
      <4>2. h[i] = f[i] BY <3>2
      <4>3. QED BY <2>1, <3>1, <4>1, <4>2
    <3>3. CASE i = k
      <4>1. h[k] = g[k][f[k - 1]] OBVIOUS
      <4>2. QED BY <3>1, <3>3, <4>1
    <3>4. QED BY <3>2, <3>3
  <2> HIDE DEF h
  <2>6. k \in 0 .. n OBVIOUS
  <2>7. QED BY <2>3, <2>4, <2>5, <2>6
<1>3. 0 .. n \subseteq T
  <2> HIDE DEF T
  <2>1. QED BY <1>1, <1>2, UpTo
<1>4. QED BY <1>3

-----------------------------------------------------------------------------
(* One entry of a map.                                                     *)

\* What being a map means.
LEMMA MapFacts ==
  ASSUME NEW m \in Maps
  PROVE  /\ IsMap(m) /\ m = [k \in DOMAIN m |-> m[k]] /\ IsFiniteSet(DOMAIN m)
         /\ \A k : At(m, k) \in Int
<1>1. PICK D \in SUBSET Keys : m \in [D -> Int] BY DEF Maps
<1>2. IsFiniteSet(Keys) BY FS_AddElement DEF Keys
<1>3. IsFiniteSet(DOMAIN m) BY <1>1, <1>2, FS_Subset
<1>4. QED BY <1>1, <1>3 DEF IsMap, At

\* Map s is m but for one entry.
EntryIs(s, m, a, v) == At(s, a) = v /\ \A k : k # a => At(s, k) = At(m, k)

\* Set leaves the other entries alone.
LEMMA EntryMap ==
  ASSUME NEW m \in Maps, NEW a \in Keys, NEW v \in Int
  PROVE  /\ SetEntry(m, a, v) \in Maps
         /\ DOMAIN SetEntry(m, a, v) = DOMAIN m \union {KeyOf(m, a)}
         /\ EntryIs(SetEntry(m, a, v), m, KeyOf(m, a), v)
<1>1. KeyOf(m, a) \in Keys BY DEF KeyOf, Keys
<1>2. DOMAIN m \subseteq Keys /\ \A k \in DOMAIN m : m[k] \in Int BY MapFacts DEF IsMap
<1> DEFINE D == DOMAIN m \union {KeyOf(m, a)}
<1>3. SetEntry(m, a, v) \in [D -> Int] BY <1>2 DEF SetEntry
<1>4. D \in SUBSET Keys BY <1>1, <1>2
<1>5. SetEntry(m, a, v) \in Maps BY <1>3, <1>4 DEF Maps
<1>6. DOMAIN SetEntry(m, a, v) = D BY <1>3
<1>7. EntryIs(SetEntry(m, a, v), m, KeyOf(m, a), v) BY DEF SetEntry, At, EntryIs
<1>8. QED BY <1>5, <1>6, <1>7

\* A new entry is made only below the limit.
LEMMA EntryBounded ==
  ASSUME NEW m \in Bounded, NEW a \in Keys, NEW v \in Int
  PROVE  SetEntry(m, a, v) \in Bounded
<1> DEFINE D == DOMAIN m \ {Overflow}
<1>1. m \in Maps /\ Cardinality(D) <= Limit BY DEF Bounded
<1>2. IsFiniteSet(D) BY <1>1, MapFacts, FS_RemoveElement
<1>3. Cardinality(D) \in Nat BY <1>2, FS_CardinalityType
<1>4. DOMAIN SetEntry(m, a, v) = DOMAIN m \union {KeyOf(m, a)} BY <1>1, EntryMap
<1>5. CASE KeyOf(m, a) \in DOMAIN m \union {Overflow}
  <2>1. DOMAIN SetEntry(m, a, v) \ {Overflow} = D BY <1>4, <1>5
  <2>2. QED BY <1>1, <2>1, EntryMap DEF Bounded
<1>6. CASE KeyOf(m, a) \notin DOMAIN m \union {Overflow}
  <2>1. KeyOf(m, a) = a /\ ~(Cardinality(D) >= Limit)
    BY <1>6 DEF KeyOf, IsOverflowAttributes
  <2>2. DOMAIN SetEntry(m, a, v) \ {Overflow} = D \union {a} BY <1>4, <1>6, <2>1
  <2>3. Cardinality(D \union {a}) = Cardinality(D) + 1 BY <1>2, <1>6, <2>1, FS_AddElement
  <2>4. Cardinality(D) + 1 <= Limit BY <1>3, <2>1
  <2>5. QED BY <1>1, <2>2, <2>3, <2>4, EntryMap DEF Bounded
<1>7. QED BY <1>5, <1>6

\* An attribute set that is in use finds, or gets, an entry of its own.
LEMMA EntryFits ==
  ASSUME NEW P, Fit(P), NEW m \in Fitting(P), NEW a \in P
  PROVE  KeyOf(m, a) = a
<1>1. P \subseteq Attributes /\ Cardinality(P) <= Limit /\ m \in Maps /\ DOMAIN m \subseteq P
  BY DEF Fit, Fitting
<1>2. IsFiniteSet(P) BY <1>1, FS_Subset
<1>3. DOMAIN m \ {Overflow} = DOMAIN m BY <1>1
<1>4. SUFFICES ASSUME a \notin DOMAIN m PROVE ~(Cardinality(DOMAIN m) >= Limit)
  BY <1>1, <1>3 DEF KeyOf, IsOverflowAttributes
<1>5. /\ IsFiniteSet(DOMAIN m) /\ Cardinality(DOMAIN m) <= Cardinality(P)
      /\ Cardinality(P) = Cardinality(DOMAIN m) => P = DOMAIN m
  BY <1>1, <1>2, FS_Subset
<1>6. Cardinality(P) \in Nat /\ Cardinality(DOMAIN m) \in Nat BY <1>2, <1>5, FS_CardinalityType
<1>7. Cardinality(P) # Cardinality(DOMAIN m) BY <1>4, <1>5
<1>8. QED BY <1>1, <1>5, <1>6, <1>7

\* As long as the attribute sets in use fit, each has an entry of its own.
LEMMA FittingEntry ==
  ASSUME NEW P, Fit(P), NEW m \in Fitting(P), NEW a \in P, NEW v \in Int
  PROVE  /\ SetEntry(m, a, v) \in Fitting(P)
         /\ DOMAIN SetEntry(m, a, v) = DOMAIN m \union {a}
         /\ EntryIs(SetEntry(m, a, v), m, a, v)
<1>1. KeyOf(m, a) = a BY EntryFits
<1>2. m \in Maps /\ a \in Keys /\ DOMAIN m \subseteq P BY DEF Fitting, Fit, Keys
<1>3. /\ SetEntry(m, a, v) \in Maps /\ DOMAIN SetEntry(m, a, v) = DOMAIN m \union {KeyOf(m, a)}
      /\ EntryIs(SetEntry(m, a, v), m, KeyOf(m, a), v)
  BY <1>2, EntryMap
<1>4. SetEntry(m, a, v) \in Fitting(P) BY <1>1, <1>2, <1>3 DEF Fitting
<1>5. QED BY <1>1, <1>3, <1>4

-----------------------------------------------------------------------------
(* A loop over keys in some order.                                         *)

\* An order of keys has each of them once.
LEMMA OrderFacts ==
  ASSUME NEW keys, IsFiniteSet(keys), NEW order \in SetToSeqs(keys)
  PROVE  /\ Cardinality(keys) \in Nat /\ order \in [1 .. Cardinality(keys) -> keys]
         /\ \A i, j \in 1 .. Cardinality(keys) : i # j => order[i] # order[j]
         /\ \A k \in keys : \E i \in 1 .. Cardinality(keys) : order[i] = k
<1> DEFINE n == Cardinality(keys)
<1>1. n \in Nat BY FS_CardinalityType
<1>2. order \in [1 .. n -> keys] /\ \A i, j \in 1 .. n : i # j => order[i] # order[j]
  BY DEF SetToSeqs
<1>3. order \in Injection(1 .. n, keys) BY <1>2 DEF Injection, IsInjective
<1>4. IsFiniteSet(1 .. n) /\ Cardinality(1 .. n) = n BY <1>1, FS_Interval
<1> HIDE DEF n
<1>5. order \in Surjection(1 .. n, keys) BY <1>3, <1>4, FS_Injection DEF n
<1>6. \A k \in keys : \E i \in 1 .. n : order[i] = k BY <1>5 DEF Surjection
<1>7. QED BY <1>1, <1>2, <1>6 DEF n

\* What a step for a key does to a state in X is G[k].  T holds pairs of the
\* keys done and a state of which a claim is true.
LoopStarts(f, keys, order, X, start, G) ==
  /\ f[0] = start
  /\ \A i \in 1 .. Cardinality(keys) : f[i - 1] \in X => f[i] = G[order[i]][f[i - 1]]

LoopKeeps(T, keys, X, start, G) ==
  /\ <<{}, start>> \in T
  /\ \A seen \in SUBSET keys, x \in X : \A k \in keys \ seen :
       <<seen, x>> \in T => <<seen \union {k}, G[k][x]>> \in T

LEMMA LoopEnds ==
  ASSUME NEW keys, IsFiniteSet(keys), NEW order \in SetToSeqs(keys),
         NEW X, NEW start \in X, NEW G \in [keys -> [X -> X]],
         NEW T, LoopKeeps(T, keys, X, start, G),
         NEW f, LoopStarts(f, keys, order, X, start, G)
  PROVE  f[Cardinality(keys)] \in X /\ <<keys, f[Cardinality(keys)]>> \in T
<1> USE DEF LoopKeeps, LoopStarts
<1> DEFINE n == Cardinality(keys)
           Seen(i) == {order[j] : j \in 1 .. i}
           U == {i \in 0 .. n : f[i] \in X /\ <<Seen(i), f[i]>> \in T}
<1>1. /\ n \in Nat /\ order \in [1 .. n -> keys]
      /\ \A i, j \in 1 .. n : i # j => order[i] # order[j]
      /\ \A k \in keys : \E i \in 1 .. n : order[i] = k
  BY OrderFacts
<1> HIDE DEF n
<1>2. 0 \in U
  <2>1. Seen(0) = {} OBVIOUS
  <2>2. <<Seen(0), f[0]>> \in T BY <2>1
  <2>3. 0 \in 0 .. n BY <1>1
  <2> HIDE DEF Seen
  <2>4. QED BY <2>2, <2>3
<1>3. ASSUME NEW i \in 1 .. n, i - 1 \in U PROVE i \in U
  <2>1. f[i - 1] \in X /\ <<Seen(i - 1), f[i - 1]>> \in T BY <1>3
  <2>2. Seen(i - 1) \in SUBSET keys BY <1>1
  <2>3. order[i] \in keys /\ \A j \in 1 .. i - 1 : order[j] # order[i] BY <1>1
  <2>4. order[i] \notin Seen(i - 1) BY <2>3
  <2>5. Seen(i) = Seen(i - 1) \union {order[i]}
    <3>1. 1 .. i = (1 .. i - 1) \union {i} BY <1>1
    <3>2. QED BY <3>1
  <2>6. f[i] = G[order[i]][f[i - 1]] BY <2>1 DEF n
  <2>7. G[order[i]] \in [X -> X] BY <2>3
  <2>8. f[i] \in X BY <2>1, <2>6, <2>7
  <2> DEFINE before == Seen(i - 1)
  <2>9. before \in SUBSET keys /\ order[i] \in keys \ before /\ <<before, f[i - 1]>> \in T
    BY <2>1, <2>2, <2>3, <2>4
  <2> HIDE DEF before
  <2>10. <<before \union {order[i]}, f[i]>> \in T BY <2>1, <2>6, <2>9
  <2>11. <<Seen(i), f[i]>> \in T BY <2>5, <2>10 DEF before
  <2>12. i \in 0 .. n BY <1>1
  <2>13. QED BY <2>8, <2>11, <2>12
<1>4. 0 .. n \subseteq U
  <2> HIDE DEF U
  <2>1. QED BY <1>1, <1>2, <1>3, UpTo
<1>5. n \in U BY <1>1, <1>4
<1>6. Seen(n) = keys BY <1>1
<1>7. QED BY <1>5, <1>6 DEF n

\* The loop is well defined.
LEMMA LoopExists ==
  ASSUME NEW keys, IsFiniteSet(keys), NEW order \in SetToSeqs(keys),
         NEW X, NEW start \in X, NEW G \in [keys -> [X -> X]]
  PROVE  \E f \in [0 .. Cardinality(keys) -> X] :
           f[0] = start /\ \A i \in 1 .. Cardinality(keys) : f[i] = G[order[i]][f[i - 1]]
<1> DEFINE n == Cardinality(keys)
           g == [i \in 1 .. n |-> G[order[i]]]
<1>1. n \in Nat /\ order \in [1 .. n -> keys] BY OrderFacts
<1> HIDE DEF n
<1>2. g \in [1 .. n -> [X -> X]] BY <1>1
<1>3. \A i \in 1 .. n : g[i] = G[order[i]] OBVIOUS
<1> HIDE DEF g
<1>4. PICK f \in [0 .. n -> X] : IsRun(f, start, n, g) BY <1>1, <1>2, RunExists
<1>5. f[0] = start /\ \A i \in 1 .. n : f[i] = G[order[i]][f[i - 1]] BY <1>3, <1>4 DEF IsRun
<1>6. QED BY <1>5 DEF n

-----------------------------------------------------------------------------
(* The four loops over the entries of a map.  Each is well defined, and    *)
(* what its steps keep holds of its result.                                *)

MergeStep(f, start, src, order) ==
  [i \in 0 .. Cardinality(DOMAIN src) |->
     IF i = 0 THEN start ELSE MergeEntry(f[i - 1], order[i], src[order[i]])]

\* MergeMap: an order of the keys, and the value the recursion has at the end.
LEMMA MergeLoop ==
  ASSUME NEW start, NEW src, NEW r \in MergeMap(start, src)
  PROVE  \E order \in SetToSeqs(DOMAIN src) :
           r = (CHOOSE f : f = MergeStep(f, start, src, order))[Cardinality(DOMAIN src)]
BY DEF MergeMap, Over, MergeStep

\* What holds at first and is kept by each entry holds at the end.
LEMMA MergeInduction ==
  ASSUME NEW start, NEW src, IsFiniteSet(DOMAIN src), NEW X, NEW T,
         start \in X, <<{}, start>> \in T,
         \A x \in X : \A k \in DOMAIN src : MergeEntry(x, k, src[k]) \in X,
         \A seen \in SUBSET DOMAIN src, x \in X : \A k \in (DOMAIN src) \ seen :
           <<seen, x>> \in T => <<seen \union {k}, MergeEntry(x, k, src[k])>> \in T,
         NEW r \in MergeMap(start, src)
  PROVE  r \in X /\ <<DOMAIN src, r>> \in T
<1> DEFINE keys == DOMAIN src
           n == Cardinality(keys)
           G == [k \in keys |-> [x \in X |-> MergeEntry(x, k, src[k])]]
<1>1. PICK order \in SetToSeqs(keys) : r = (CHOOSE f : f = MergeStep(f, start, src, order))[n]
  BY MergeLoop
<1>2. n \in Nat /\ order \in [1 .. n -> keys] BY OrderFacts
<1>3. G \in [keys -> [X -> X]] OBVIOUS
<1>4. \A k \in keys, x \in X : G[k][x] = MergeEntry(x, k, src[k]) OBVIOUS
<1>5. LoopKeeps(T, keys, X, start, G) BY DEF LoopKeeps
<1>6. IsFiniteSet(keys) OBVIOUS
<1> HIDE DEF G, keys
<1>7. \E h \in [0 .. n -> X] : h[0] = start /\ \A i \in 1 .. n : h[i] = G[order[i]][h[i - 1]]
  BY <1>3, <1>6, LoopExists
<1> HIDE DEF n
<1>8. PICK h \in [0 .. n -> X] : h[0] = start /\ \A i \in 1 .. n : h[i] = G[order[i]][h[i - 1]]
  BY <1>7
<1>9. h = MergeStep(h, start, src, order)
  <2>1. \A i \in 1 .. n : h[i] = MergeEntry(h[i - 1], order[i], src[order[i]])
    BY <1>2, <1>4, <1>8
  <2>2. \A i \in 0 .. n : i # 0 => i \in 1 .. n BY <1>2
  <2>3. h = [i \in 0 .. n |-> IF i = 0 THEN start ELSE MergeEntry(h[i - 1], order[i], src[order[i]])]
    BY <1>8, <2>1, <2>2
  <2>4. QED BY <2>3 DEF MergeStep, n, keys
<1> DEFINE f == CHOOSE f : f = MergeStep(f, start, src, order)
<1>10. f = MergeStep(f, start, src, order) BY <1>9
<1> HIDE DEF f
<1>11. f[0] = start /\ \A i \in 1 .. n : f[i] = MergeEntry(f[i - 1], order[i], src[order[i]])
  BY <1>2, <1>10 DEF MergeStep, n, keys
<1>12. \A i \in 1 .. n : f[i - 1] \in X => f[i] = G[order[i]][f[i - 1]] BY <1>2, <1>4, <1>11
<1>13. LoopStarts(f, keys, order, X, start, G) BY <1>11, <1>12 DEF LoopStarts, n
<1>14. f[n] \in X /\ <<keys, f[n]>> \in T BY <1>3, <1>5, <1>6, <1>13, LoopEnds DEF n
<1>15. QED BY <1>1, <1>14 DEF f, n, keys

RoundStep(f, start, src, order) ==
  [i \in 0 .. Cardinality(DOMAIN src) |->
     IF i = 0 THEN start ELSE Aggregate(f[i - 1], order[i], src[order[i]])]

\* The round: an order of the keys, and the value the recursion has at the end.
LEMMA RoundLoop ==
  ASSUME NEW start, NEW src, NEW r \in RecordRound(start, src)
  PROVE  \E order \in SetToSeqs(DOMAIN src) :
           r = (CHOOSE f : f = RoundStep(f, start, src, order))[Cardinality(DOMAIN src)]
BY DEF RecordRound, Over, RoundStep

\* What holds at first and is kept by each entry holds at the end.
LEMMA RoundInduction ==
  ASSUME NEW start, NEW src, IsFiniteSet(DOMAIN src), NEW X, NEW T,
         start \in X, <<{}, start>> \in T,
         \A x \in X : \A k \in DOMAIN src : Aggregate(x, k, src[k]) \in X,
         \A seen \in SUBSET DOMAIN src, x \in X : \A k \in (DOMAIN src) \ seen :
           <<seen, x>> \in T => <<seen \union {k}, Aggregate(x, k, src[k])>> \in T,
         NEW r \in RecordRound(start, src)
  PROVE  r \in X /\ <<DOMAIN src, r>> \in T
<1> DEFINE keys == DOMAIN src
           n == Cardinality(keys)
           G == [k \in keys |-> [x \in X |-> Aggregate(x, k, src[k])]]
<1>1. PICK order \in SetToSeqs(keys) : r = (CHOOSE f : f = RoundStep(f, start, src, order))[n]
  BY RoundLoop
<1>2. n \in Nat /\ order \in [1 .. n -> keys] BY OrderFacts
<1>3. G \in [keys -> [X -> X]] OBVIOUS
<1>4. \A k \in keys, x \in X : G[k][x] = Aggregate(x, k, src[k]) OBVIOUS
<1>5. LoopKeeps(T, keys, X, start, G) BY DEF LoopKeeps
<1>6. IsFiniteSet(keys) OBVIOUS
<1> HIDE DEF G, keys
<1>7. \E h \in [0 .. n -> X] : h[0] = start /\ \A i \in 1 .. n : h[i] = G[order[i]][h[i - 1]]
  BY <1>3, <1>6, LoopExists
<1> HIDE DEF n
<1>8. PICK h \in [0 .. n -> X] : h[0] = start /\ \A i \in 1 .. n : h[i] = G[order[i]][h[i - 1]]
  BY <1>7
<1>9. h = RoundStep(h, start, src, order)
  <2>1. \A i \in 1 .. n : h[i] = Aggregate(h[i - 1], order[i], src[order[i]])
    BY <1>2, <1>4, <1>8
  <2>2. \A i \in 0 .. n : i # 0 => i \in 1 .. n BY <1>2
  <2>3. h = [i \in 0 .. n |-> IF i = 0 THEN start ELSE Aggregate(h[i - 1], order[i], src[order[i]])]
    BY <1>8, <2>1, <2>2
  <2>4. QED BY <2>3 DEF RoundStep, n, keys
<1> DEFINE f == CHOOSE f : f = RoundStep(f, start, src, order)
<1>10. f = RoundStep(f, start, src, order) BY <1>9
<1> HIDE DEF f
<1>11. f[0] = start /\ \A i \in 1 .. n : f[i] = Aggregate(f[i - 1], order[i], src[order[i]])
  BY <1>2, <1>10 DEF RoundStep, n, keys
<1>12. \A i \in 1 .. n : f[i - 1] \in X => f[i] = G[order[i]][f[i - 1]] BY <1>2, <1>4, <1>11
<1>13. LoopStarts(f, keys, order, X, start, G) BY <1>11, <1>12 DEF LoopStarts, n
<1>14. f[n] \in X /\ <<keys, f[n]>> \in T BY <1>3, <1>5, <1>6, <1>13, LoopEnds DEF n
<1>15. QED BY <1>1, <1>14 DEF f, n, keys

SumsStep(f, start, src, order) ==
  [i \in 0 .. Cardinality(DOMAIN src) |->
     IF i = 0 THEN start ELSE RecordMonotonicSum(f[i - 1], order[i], src[order[i]])]

\* The observations of a monotonic sum: an order of the keys, and the value the recursion has at the end.
LEMMA SumsLoop ==
  ASSUME NEW start, NEW src, NEW r \in RecordSums(start, src)
  PROVE  \E order \in SetToSeqs(DOMAIN src) :
           r = (CHOOSE f : f = SumsStep(f, start, src, order))[Cardinality(DOMAIN src)]
BY DEF RecordSums, Over, SumsStep

\* What holds at first and is kept by each entry holds at the end.
LEMMA SumsInduction ==
  ASSUME NEW start, NEW src, IsFiniteSet(DOMAIN src), NEW X, NEW T,
         start \in X, <<{}, start>> \in T,
         \A x \in X : \A k \in DOMAIN src : RecordMonotonicSum(x, k, src[k]) \in X,
         \A seen \in SUBSET DOMAIN src, x \in X : \A k \in (DOMAIN src) \ seen :
           <<seen, x>> \in T => <<seen \union {k}, RecordMonotonicSum(x, k, src[k])>> \in T,
         NEW r \in RecordSums(start, src)
  PROVE  r \in X /\ <<DOMAIN src, r>> \in T
<1> DEFINE keys == DOMAIN src
           n == Cardinality(keys)
           G == [k \in keys |-> [x \in X |-> RecordMonotonicSum(x, k, src[k])]]
<1>1. PICK order \in SetToSeqs(keys) : r = (CHOOSE f : f = SumsStep(f, start, src, order))[n]
  BY SumsLoop
<1>2. n \in Nat /\ order \in [1 .. n -> keys] BY OrderFacts
<1>3. G \in [keys -> [X -> X]] OBVIOUS
<1>4. \A k \in keys, x \in X : G[k][x] = RecordMonotonicSum(x, k, src[k]) OBVIOUS
<1>5. LoopKeeps(T, keys, X, start, G) BY DEF LoopKeeps
<1>6. IsFiniteSet(keys) OBVIOUS
<1> HIDE DEF G, keys
<1>7. \E h \in [0 .. n -> X] : h[0] = start /\ \A i \in 1 .. n : h[i] = G[order[i]][h[i - 1]]
  BY <1>3, <1>6, LoopExists
<1> HIDE DEF n
<1>8. PICK h \in [0 .. n -> X] : h[0] = start /\ \A i \in 1 .. n : h[i] = G[order[i]][h[i - 1]]
  BY <1>7
<1>9. h = SumsStep(h, start, src, order)
  <2>1. \A i \in 1 .. n : h[i] = RecordMonotonicSum(h[i - 1], order[i], src[order[i]])
    BY <1>2, <1>4, <1>8
  <2>2. \A i \in 0 .. n : i # 0 => i \in 1 .. n BY <1>2
  <2>3. h = [i \in 0 .. n |-> IF i = 0 THEN start ELSE RecordMonotonicSum(h[i - 1], order[i], src[order[i]])]
    BY <1>8, <2>1, <2>2
  <2>4. QED BY <2>3 DEF SumsStep, n, keys
<1> DEFINE f == CHOOSE f : f = SumsStep(f, start, src, order)
<1>10. f = SumsStep(f, start, src, order) BY <1>9
<1> HIDE DEF f
<1>11. f[0] = start /\ \A i \in 1 .. n : f[i] = RecordMonotonicSum(f[i - 1], order[i], src[order[i]])
  BY <1>2, <1>10 DEF SumsStep, n, keys
<1>12. \A i \in 1 .. n : f[i - 1] \in X => f[i] = G[order[i]][f[i - 1]] BY <1>2, <1>4, <1>11
<1>13. LoopStarts(f, keys, order, X, start, G) BY <1>11, <1>12 DEF LoopStarts, n
<1>14. f[n] \in X /\ <<keys, f[n]>> \in T BY <1>3, <1>5, <1>6, <1>13, LoopEnds DEF n
<1>15. QED BY <1>1, <1>14 DEF f, n, keys

DiffStep(f, start, order) ==
  [i \in 0 .. Cardinality(DOMAIN round) |->
     IF i = 0 THEN start ELSE DiffEntry(f[i - 1], order[i])]

\* BuildDeltaFromRound: an order of the keys, and the value the recursion has at the end.
LEMMA DiffLoop ==
  ASSUME NEW start, NEW r \in DiffRound(start)
  PROVE  \E order \in SetToSeqs(DOMAIN round) :
           r = (CHOOSE f : f = DiffStep(f, start, order))[Cardinality(DOMAIN round)]
BY DEF DiffRound, Over, DiffStep

\* What holds at first and is kept by each entry holds at the end.
LEMMA DiffInduction ==
  ASSUME NEW start, IsFiniteSet(DOMAIN round), NEW X, NEW T,
         start \in X, <<{}, start>> \in T,
         \A x \in X : \A k \in DOMAIN round : DiffEntry(x, k) \in X,
         \A seen \in SUBSET DOMAIN round, x \in X : \A k \in (DOMAIN round) \ seen :
           <<seen, x>> \in T => <<seen \union {k}, DiffEntry(x, k)>> \in T,
         NEW r \in DiffRound(start)
  PROVE  r \in X /\ <<DOMAIN round, r>> \in T
<1> DEFINE keys == DOMAIN round
           n == Cardinality(keys)
           G == [k \in keys |-> [x \in X |-> DiffEntry(x, k)]]
<1>1. PICK order \in SetToSeqs(keys) : r = (CHOOSE f : f = DiffStep(f, start, order))[n]
  BY DiffLoop
<1>2. n \in Nat /\ order \in [1 .. n -> keys] BY OrderFacts
<1>3. G \in [keys -> [X -> X]] OBVIOUS
<1>4. \A k \in keys, x \in X : G[k][x] = DiffEntry(x, k) OBVIOUS
<1>5. LoopKeeps(T, keys, X, start, G) BY DEF LoopKeeps
<1>6. IsFiniteSet(keys) OBVIOUS
<1> HIDE DEF G, keys
<1>7. \E h \in [0 .. n -> X] : h[0] = start /\ \A i \in 1 .. n : h[i] = G[order[i]][h[i - 1]]
  BY <1>3, <1>6, LoopExists
<1> HIDE DEF n
<1>8. PICK h \in [0 .. n -> X] : h[0] = start /\ \A i \in 1 .. n : h[i] = G[order[i]][h[i - 1]]
  BY <1>7
<1>9. h = DiffStep(h, start, order)
  <2>1. \A i \in 1 .. n : h[i] = DiffEntry(h[i - 1], order[i])
    BY <1>2, <1>4, <1>8
  <2>2. \A i \in 0 .. n : i # 0 => i \in 1 .. n BY <1>2
  <2>3. h = [i \in 0 .. n |-> IF i = 0 THEN start ELSE DiffEntry(h[i - 1], order[i])]
    BY <1>8, <2>1, <2>2
  <2>4. QED BY <2>3 DEF DiffStep, n, keys
<1> DEFINE f == CHOOSE f : f = DiffStep(f, start, order)
<1>10. f = DiffStep(f, start, order) BY <1>9
<1> HIDE DEF f
<1>11. f[0] = start /\ \A i \in 1 .. n : f[i] = DiffEntry(f[i - 1], order[i])
  BY <1>2, <1>10 DEF DiffStep, n, keys
<1>12. \A i \in 1 .. n : f[i - 1] \in X => f[i] = G[order[i]][f[i - 1]] BY <1>2, <1>4, <1>11
<1>13. LoopStarts(f, keys, order, X, start, G) BY <1>11, <1>12 DEF LoopStarts, n
<1>14. f[n] \in X /\ <<keys, f[n]>> \in T BY <1>3, <1>5, <1>6, <1>13, LoopEnds DEF n
<1>15. QED BY <1>1, <1>14 DEF f, n, keys

-----------------------------------------------------------------------------
(* What the loops do to maps within the limit, and to maps that fit.       *)

SumsTo(r, m, src) ==
  DOMAIN r = DOMAIN m \union DOMAIN src /\ \A k : At(r, k) = At(m, k) + At(src, k)

\* MergeMap keeps the limit.
LEMMA MergeBounded ==
  ASSUME NEW start \in Bounded, NEW src \in Maps, NEW r \in MergeMap(start, src)
  PROVE  r \in Bounded
<1> DEFINE T == (SUBSET DOMAIN src) \X Bounded
<1>1. IsFiniteSet(DOMAIN src) /\ DOMAIN src \subseteq Keys /\ \A k \in DOMAIN src : src[k] \in Int
  BY MapFacts DEF IsMap
<1>2. ASSUME NEW x \in Bounded, NEW k \in DOMAIN src PROVE MergeEntry(x, k, src[k]) \in Bounded
  <2>1. At(x, k) \in Int BY MapFacts DEF Bounded
  <2>2. At(x, k) + src[k] \in Int BY <1>1, <2>1
  <2>3. QED BY <1>1, <2>2, EntryBounded DEF MergeEntry
<1>3. <<{}, start>> \in T OBVIOUS
<1>4. \A seen \in SUBSET DOMAIN src, x \in Bounded : \A k \in (DOMAIN src) \ seen :
        <<seen, x>> \in T => <<seen \union {k}, MergeEntry(x, k, src[k])>> \in T
  BY <1>2
<1> HIDE DEF T
<1>5. QED BY <1>1, <1>2, <1>3, <1>4, MergeInduction

\* MergeMap, while the attribute sets fit.
LEMMA MergeFits ==
  ASSUME NEW P, Fit(P), NEW start \in Fitting(P), NEW src \in Fitting(P), NEW r \in MergeMap(start, src)
  PROVE  r \in Fitting(P) /\ SumsTo(r, start, src)
<1>1. src \in Maps /\ DOMAIN src \subseteq P /\ start \in Maps BY DEF Fitting
<1>2. /\ IsFiniteSet(DOMAIN src) /\ \A k \in DOMAIN src : src[k] \in Int
      /\ \A k : At(src, k) \in Int /\ At(start, k) \in Int
  BY <1>1, MapFacts DEF IsMap
<1>3. ASSUME NEW x \in Fitting(P), NEW k \in DOMAIN src
      PROVE  /\ MergeEntry(x, k, src[k]) \in Fitting(P)
             /\ DOMAIN MergeEntry(x, k, src[k]) = DOMAIN x \union {k}
             /\ EntryIs(MergeEntry(x, k, src[k]), x, k, At(x, k) + src[k])
  <2>1. At(x, k) \in Int BY MapFacts DEF Fitting
  <2> DEFINE v == At(x, k) + src[k]
  <2>2. v \in Int /\ k \in P BY <1>1, <1>2, <2>1
  <2>3. MergeEntry(x, k, src[k]) = SetEntry(x, k, v) BY <2>2, EntryFits DEF MergeEntry
  <2> HIDE DEF v
  <2>4. SetEntry(x, k, v) \in Fitting(P) BY <2>2, FittingEntry
  <2>5. DOMAIN SetEntry(x, k, v) = DOMAIN x \union {k} BY <2>2, EntryFits DEF SetEntry
  <2>6. EntryIs(SetEntry(x, k, v), x, k, v) BY <2>2, FittingEntry
  <2>7. QED BY <2>3, <2>4, <2>5, <2>6 DEF v
<1>4. SUFFICES ASSUME NEW k
               PROVE  /\ r \in Fitting(P) /\ DOMAIN r = DOMAIN start \union DOMAIN src
                      /\ At(r, k) = At(start, k) + At(src, k)
  BY DEF SumsTo
<1> DEFINE T == {p \in (SUBSET DOMAIN src) \X Fitting(P) :
                   /\ DOMAIN p[2] = DOMAIN start \union p[1]
                   /\ At(p[2], k) = At(start, k) + (IF k \in p[1] THEN src[k] ELSE 0)}
<1>5. <<{}, start>> \in T BY <1>2
<1>6. ASSUME NEW seen \in SUBSET DOMAIN src, NEW x \in Fitting(P), NEW l \in (DOMAIN src) \ seen,
             <<seen, x>> \in T
      PROVE  <<seen \union {l}, MergeEntry(x, l, src[l])>> \in T
  <2>1. /\ DOMAIN x = DOMAIN start \union seen
        /\ At(x, k) = At(start, k) + (IF k \in seen THEN src[k] ELSE 0)
    BY <1>6
  <2> DEFINE y == MergeEntry(x, l, src[l])
  <2>2. /\ y \in Fitting(P) /\ DOMAIN y = DOMAIN x \union {l}
        /\ EntryIs(y, x, l, At(x, l) + src[l])
    BY <1>3
  <2> HIDE DEF y
  <2>3. At(y, k) = At(start, k) + (IF k \in seen \union {l} THEN src[k] ELSE 0)
    BY <1>2, <2>1, <2>2 DEF EntryIs
  <2>4. DOMAIN y = DOMAIN start \union (seen \union {l}) BY <2>1, <2>2
  <2>5. seen \union {l} \in SUBSET DOMAIN src OBVIOUS
  <2>6. QED BY <2>2, <2>3, <2>4, <2>5 DEF y
<1>7. r \in Fitting(P) /\ <<DOMAIN src, r>> \in T
  <2> HIDE DEF T
  <2>1. \A x \in Fitting(P) : \A l \in DOMAIN src : MergeEntry(x, l, src[l]) \in Fitting(P)
    BY <1>3
  <2>2. QED BY <1>2, <1>5, <1>6, <2>1, MergeInduction
<1>8. QED BY <1>7 DEF At

\* The round keeps the limit.
LEMMA RoundBounded ==
  ASSUME NEW start \in Bounded, NEW src \in Maps, NEW r \in RecordRound(start, src)
  PROVE  r \in Bounded
<1> DEFINE T == (SUBSET DOMAIN src) \X Bounded
<1>1. IsFiniteSet(DOMAIN src) /\ DOMAIN src \subseteq Keys /\ \A k \in DOMAIN src : src[k] \in Int
  BY MapFacts DEF IsMap
<1>2. ASSUME NEW x \in Bounded, NEW k \in DOMAIN src PROVE Aggregate(x, k, src[k]) \in Bounded
  <2>1. At(x, KeyOf(x, k)) \in Int BY MapFacts DEF Bounded
  <2>2. At(x, KeyOf(x, k)) + src[k] \in Int BY <1>1, <2>1
  <2>3. QED BY <1>1, <2>2, EntryBounded DEF Aggregate
<1>3. <<{}, start>> \in T OBVIOUS
<1>4. \A seen \in SUBSET DOMAIN src, x \in Bounded : \A k \in (DOMAIN src) \ seen :
        <<seen, x>> \in T => <<seen \union {k}, Aggregate(x, k, src[k])>> \in T
  BY <1>2
<1> HIDE DEF T
<1>5. QED BY <1>1, <1>2, <1>3, <1>4, RoundInduction

\* The round, while the attribute sets fit.
LEMMA RoundFits ==
  ASSUME NEW P, Fit(P), NEW start \in Fitting(P), NEW src \in Fitting(P), NEW r \in RecordRound(start, src)
  PROVE  r \in Fitting(P) /\ SumsTo(r, start, src)
<1>1. src \in Maps /\ DOMAIN src \subseteq P /\ start \in Maps BY DEF Fitting
<1>2. /\ IsFiniteSet(DOMAIN src) /\ \A k \in DOMAIN src : src[k] \in Int
      /\ \A k : At(src, k) \in Int /\ At(start, k) \in Int
  BY <1>1, MapFacts DEF IsMap
<1>3. ASSUME NEW x \in Fitting(P), NEW k \in DOMAIN src
      PROVE  /\ Aggregate(x, k, src[k]) \in Fitting(P)
             /\ DOMAIN Aggregate(x, k, src[k]) = DOMAIN x \union {k}
             /\ EntryIs(Aggregate(x, k, src[k]), x, k, At(x, k) + src[k])
  <2>1. At(x, k) \in Int BY MapFacts DEF Fitting
  <2> DEFINE v == At(x, k) + src[k]
  <2>2. v \in Int /\ k \in P BY <1>1, <1>2, <2>1
  <2>3. Aggregate(x, k, src[k]) = SetEntry(x, k, v) BY <2>2, EntryFits DEF Aggregate
  <2> HIDE DEF v
  <2>4. SetEntry(x, k, v) \in Fitting(P) BY <2>2, FittingEntry
  <2>5. DOMAIN SetEntry(x, k, v) = DOMAIN x \union {k} BY <2>2, EntryFits DEF SetEntry
  <2>6. EntryIs(SetEntry(x, k, v), x, k, v) BY <2>2, FittingEntry
  <2>7. QED BY <2>3, <2>4, <2>5, <2>6 DEF v
<1>4. SUFFICES ASSUME NEW k
               PROVE  /\ r \in Fitting(P) /\ DOMAIN r = DOMAIN start \union DOMAIN src
                      /\ At(r, k) = At(start, k) + At(src, k)
  BY DEF SumsTo
<1> DEFINE T == {p \in (SUBSET DOMAIN src) \X Fitting(P) :
                   /\ DOMAIN p[2] = DOMAIN start \union p[1]
                   /\ At(p[2], k) = At(start, k) + (IF k \in p[1] THEN src[k] ELSE 0)}
<1>5. <<{}, start>> \in T BY <1>2
<1>6. ASSUME NEW seen \in SUBSET DOMAIN src, NEW x \in Fitting(P), NEW l \in (DOMAIN src) \ seen,
             <<seen, x>> \in T
      PROVE  <<seen \union {l}, Aggregate(x, l, src[l])>> \in T
  <2>1. /\ DOMAIN x = DOMAIN start \union seen
        /\ At(x, k) = At(start, k) + (IF k \in seen THEN src[k] ELSE 0)
    BY <1>6
  <2> DEFINE y == Aggregate(x, l, src[l])
  <2>2. /\ y \in Fitting(P) /\ DOMAIN y = DOMAIN x \union {l}
        /\ EntryIs(y, x, l, At(x, l) + src[l])
    BY <1>3
  <2> HIDE DEF y
  <2>3. At(y, k) = At(start, k) + (IF k \in seen \union {l} THEN src[k] ELSE 0)
    BY <1>2, <2>1, <2>2 DEF EntryIs
  <2>4. DOMAIN y = DOMAIN start \union (seen \union {l}) BY <2>1, <2>2
  <2>5. seen \union {l} \in SUBSET DOMAIN src OBVIOUS
  <2>6. QED BY <2>2, <2>3, <2>4, <2>5 DEF y
<1>7. r \in Fitting(P) /\ <<DOMAIN src, r>> \in T
  <2> HIDE DEF T
  <2>1. \A x \in Fitting(P) : \A l \in DOMAIN src : Aggregate(x, l, src[l]) \in Fitting(P)
    BY <1>3
  <2>2. QED BY <1>2, <1>5, <1>6, <2>1, RoundInduction
<1>8. QED BY <1>7 DEF At

\* What an instrument's maps are after the observations src: the new value is
\* the baseline, and the other map has the difference to the old one added.
Differenced(r, start, src) ==
  \A k : /\ At(r[1], k) = IF k \in DOMAIN src THEN src[k] ELSE At(start[1], k)
         /\ At(r[2], k) + At(start[1], k) = At(start[2], k) + At(r[1], k)

\* The observations of a monotonic sum keeps the limit.
LEMMA SumsBounded ==
  ASSUME NEW start \in Bounded \X Bounded, NEW src, src \in Maps, NEW r \in RecordSums(start, src)
  PROVE  r \in Bounded \X Bounded
<1> DEFINE X == Bounded \X Bounded
           T == (SUBSET DOMAIN src) \X X
<1>1. /\ IsFiniteSet(DOMAIN src) /\ DOMAIN src \subseteq Keys
      /\ \A k \in DOMAIN src : src[k] \in Int
  BY MapFacts DEF IsMap
<1>2. ASSUME NEW x \in X, NEW k \in DOMAIN src PROVE RecordMonotonicSum(x, k, src[k]) \in X
  <2>1. x[1] \in Bounded /\ x[2] \in Bounded /\ k \in Keys /\ src[k] \in Int BY <1>1
  <2>2. \A l : At(x[1], l) \in Int /\ At(x[2], l) \in Int BY <2>1, MapFacts DEF Bounded
  <2> DEFINE d == src[k] - At(x[1], k)
             e == At(x[2], KeyOf(x[2], k)) + d
  <2>3. d \in Int /\ e \in Int BY <2>1, <2>2
  <2>4. RecordMonotonicSum(x, k, src[k]) = <<SetEntry(x[1], k, src[k]), SetEntry(x[2], k, e)>>
    BY DEF RecordMonotonicSum, Aggregate
  <2> HIDE DEF d, e
  <2>5. SetEntry(x[1], k, src[k]) \in Bounded /\ SetEntry(x[2], k, e) \in Bounded
    BY <2>1, <2>3, EntryBounded
  <2>6. QED BY <2>4, <2>5
<1>3. <<{}, start>> \in T OBVIOUS
<1>4. \A seen \in SUBSET DOMAIN src, x \in X : \A k \in (DOMAIN src) \ seen :
        <<seen, x>> \in T => <<seen \union {k}, RecordMonotonicSum(x, k, src[k])>> \in T
  BY <1>2
<1> HIDE DEF T, X
<1>5. start \in X BY DEF X
<1>6. r \in X BY <1>1, <1>2, <1>3, <1>4, <1>5, SumsInduction
<1>7. QED BY <1>6 DEF X

\* The observations of a monotonic sum, while the attribute sets fit.
LEMMA SumsFits ==
  ASSUME NEW P, Fit(P), NEW start \in Fitting(P) \X Fitting(P), NEW src, src \in Fitting(P),
         NEW r \in RecordSums(start, src)
  PROVE  r \in Fitting(P) \X Fitting(P) /\ Differenced(r, start, src)
<1> DEFINE X == Fitting(P) \X Fitting(P)
<1>1. src \in Maps /\ DOMAIN src \subseteq P BY DEF Fitting
<1>2. IsFiniteSet(DOMAIN src) /\ \A k \in DOMAIN src : src[k] \in Int
  BY <1>1, MapFacts DEF IsMap
<1>3. ASSUME NEW x \in X, NEW l PROVE At(x[1], l) \in Int /\ At(x[2], l) \in Int
  BY MapFacts DEF Fitting
<1>4. ASSUME NEW x \in X, NEW k \in DOMAIN src
      PROVE  /\ RecordMonotonicSum(x, k, src[k]) \in X
             /\ EntryIs(RecordMonotonicSum(x, k, src[k])[1], x[1], k, src[k])
             /\ EntryIs(RecordMonotonicSum(x, k, src[k])[2], x[2], k, At(x[2], k) + (src[k] - At(x[1], k)))
  <2>1. x[1] \in Fitting(P) /\ x[2] \in Fitting(P) /\ k \in P /\ src[k] \in Int BY <1>1, <1>2
  <2>2. At(x[1], k) \in Int /\ At(x[2], k) \in Int BY <1>3
  <2>3. KeyOf(x[2], k) = k BY <2>1, EntryFits
  <2> DEFINE e == At(x[2], k) + (src[k] - At(x[1], k))
  <2>4. e \in Int BY <2>1, <2>2
  <2>5. RecordMonotonicSum(x, k, src[k]) = <<SetEntry(x[1], k, src[k]), SetEntry(x[2], k, e)>>
    BY <2>3 DEF RecordMonotonicSum, Aggregate
  <2> HIDE DEF e
  <2>6. /\ SetEntry(x[1], k, src[k]) \in Fitting(P)
        /\ EntryIs(SetEntry(x[1], k, src[k]), x[1], k, src[k])
    BY <2>1, FittingEntry
  <2>7. SetEntry(x[2], k, e) \in Fitting(P) /\ EntryIs(SetEntry(x[2], k, e), x[2], k, e)
    BY <2>1, <2>4, FittingEntry
  <2>8. QED BY <2>5, <2>6, <2>7 DEF e
<1>5. SUFFICES ASSUME NEW k
               PROVE  /\ r \in X
                      /\ At(r[1], k) = IF k \in DOMAIN src THEN src[k] ELSE At(start[1], k)
                      /\ At(r[2], k) + At(start[1], k) = At(start[2], k) + At(r[1], k)
  BY DEF Differenced
<1> DEFINE T == {p \in (SUBSET DOMAIN src) \X X :
                   /\ k \in p[1] => At(p[2][1], k) = src[k]
                   /\ k \notin p[1] => At(p[2][1], k) = At(start[1], k)
                   /\ At(p[2][2], k) + At(start[1], k) = At(start[2], k) + At(p[2][1], k)}
<1>6. <<{}, start>> \in T BY <1>3
<1>7. ASSUME NEW seen \in SUBSET DOMAIN src, NEW x \in X, NEW l \in (DOMAIN src) \ seen,
             <<seen, x>> \in T
      PROVE  <<seen \union {l}, RecordMonotonicSum(x, l, src[l])>> \in T
  <2>1. /\ k \in seen => At(x[1], k) = src[k]
        /\ k \notin seen => At(x[1], k) = At(start[1], k)
        /\ At(x[2], k) + At(start[1], k) = At(start[2], k) + At(x[1], k)
    BY <1>7
  <2> DEFINE y == RecordMonotonicSum(x, l, src[l])
  <2>2. y \in X /\ EntryIs(y[1], x[1], l, src[l]) /\ EntryIs(y[2], x[2], l, At(x[2], l) + (src[l] - At(x[1], l)))
    BY <1>4
  <2>3. /\ At(start[1], k) \in Int /\ At(start[2], k) \in Int /\ src[l] \in Int
        /\ At(x[1], k) \in Int /\ At(x[2], k) \in Int
    BY <1>2, <1>3
  <2> HIDE DEF y
  <2>4. CASE k = l
    <3>1. At(y[1], k) = src[k] /\ At(y[2], k) = At(x[2], k) + (src[k] - At(x[1], k)) BY <2>2, <2>4 DEF EntryIs
    <3>2. k \notin seen /\ At(x[1], k) = At(start[1], k) BY <2>1, <2>4
    <3>3. At(y[2], k) + At(start[1], k) = At(start[2], k) + At(y[1], k)
      BY <2>1, <2>3, <2>4, <3>1, <3>2
    <3>4. seen \union {l} \in SUBSET DOMAIN src /\ k \in seen \union {l} BY <2>4
    <3>5. QED BY <2>2, <3>1, <3>3, <3>4 DEF y
  <2>5. CASE k # l
    <3>1. At(y[1], k) = At(x[1], k) /\ At(y[2], k) = At(x[2], k) BY <2>2, <2>5 DEF EntryIs
    <3>2. seen \union {l} \in SUBSET DOMAIN src /\ (k \in seen \union {l} <=> k \in seen)
      BY <2>5
    <3>3. QED BY <2>1, <2>2, <3>1, <3>2 DEF y
  <2>6. QED BY <2>4, <2>5
<1>8. r \in X /\ <<DOMAIN src, r>> \in T
  <2>1. start \in X /\ \A x \in X : \A l \in DOMAIN src : RecordMonotonicSum(x, l, src[l]) \in X BY <1>4
  <2> HIDE DEF T, X
  <2>2. QED BY <1>2, <1>6, <1>7, <2>1, SumsInduction
<1>9. QED BY <1>8

\* BuildDeltaFromRound keeps the limit.
LEMMA DiffBounded ==
  ASSUME NEW start \in Bounded \X Bounded, round \in Maps, NEW r \in DiffRound(start)
  PROVE  r \in Bounded \X Bounded
<1> DEFINE X == Bounded \X Bounded
           T == (SUBSET DOMAIN round) \X X
<1>1. /\ IsFiniteSet(DOMAIN round) /\ DOMAIN round \subseteq Keys
      /\ \A k \in DOMAIN round : round[k] \in Int
  BY MapFacts DEF IsMap
<1>2. ASSUME NEW x \in X, NEW k \in DOMAIN round PROVE DiffEntry(x, k) \in X
  <2>1. x[1] \in Bounded /\ x[2] \in Bounded /\ k \in Keys /\ round[k] \in Int BY <1>1
  <2>2. \A l : At(x[1], l) \in Int /\ At(x[2], l) \in Int BY <2>1, MapFacts DEF Bounded
  <2> DEFINE d == round[k] - At(x[1], k)
             e == d
  <2>3. d \in Int /\ e \in Int BY <2>1, <2>2
  <2>4. DiffEntry(x, k) = <<SetEntry(x[1], k, round[k]), SetEntry(x[2], k, e)>>
    BY DEF DiffEntry
  <2> HIDE DEF d, e
  <2>5. SetEntry(x[1], k, round[k]) \in Bounded /\ SetEntry(x[2], k, e) \in Bounded
    BY <2>1, <2>3, EntryBounded
  <2>6. QED BY <2>4, <2>5
<1>3. <<{}, start>> \in T OBVIOUS
<1>4. \A seen \in SUBSET DOMAIN round, x \in X : \A k \in (DOMAIN round) \ seen :
        <<seen, x>> \in T => <<seen \union {k}, DiffEntry(x, k)>> \in T
  BY <1>2
<1> HIDE DEF T, X
<1>5. start \in X BY DEF X
<1>6. r \in X BY <1>1, <1>2, <1>3, <1>4, <1>5, DiffInduction
<1>7. QED BY <1>6 DEF X

\* BuildDeltaFromRound, while the attribute sets fit.
LEMMA DiffFits ==
  ASSUME NEW P, Fit(P), NEW start \in Fitting(P) \X Fitting(P), round \in Fitting(P),
         start[2] = EmptyMap, NEW r \in DiffRound(start)
  PROVE  r \in Fitting(P) \X Fitting(P) /\ Differenced(r, start, round)
<1> DEFINE X == Fitting(P) \X Fitting(P)
<1>1. round \in Maps /\ DOMAIN round \subseteq P BY DEF Fitting
<1>2. IsFiniteSet(DOMAIN round) /\ \A k \in DOMAIN round : round[k] \in Int
  BY <1>1, MapFacts DEF IsMap
<1>3. ASSUME NEW x \in X, NEW l PROVE At(x[1], l) \in Int /\ At(x[2], l) \in Int
  BY MapFacts DEF Fitting
<1>4. ASSUME NEW x \in X, NEW k \in DOMAIN round
      PROVE  /\ DiffEntry(x, k) \in X
             /\ EntryIs(DiffEntry(x, k)[1], x[1], k, round[k])
             /\ EntryIs(DiffEntry(x, k)[2], x[2], k, round[k] - At(x[1], k))
  <2>1. x[1] \in Fitting(P) /\ x[2] \in Fitting(P) /\ k \in P /\ round[k] \in Int BY <1>1, <1>2
  <2>2. At(x[1], k) \in Int /\ At(x[2], k) \in Int BY <1>3
  <2>3. KeyOf(x[2], k) = k BY <2>1, EntryFits
  <2> DEFINE e == round[k] - At(x[1], k)
  <2>4. e \in Int BY <2>1, <2>2
  <2>5. DiffEntry(x, k) = <<SetEntry(x[1], k, round[k]), SetEntry(x[2], k, e)>>
    BY <2>3 DEF DiffEntry
  <2> HIDE DEF e
  <2>6. /\ SetEntry(x[1], k, round[k]) \in Fitting(P)
        /\ EntryIs(SetEntry(x[1], k, round[k]), x[1], k, round[k])
    BY <2>1, FittingEntry
  <2>7. SetEntry(x[2], k, e) \in Fitting(P) /\ EntryIs(SetEntry(x[2], k, e), x[2], k, e)
    BY <2>1, <2>4, FittingEntry
  <2>8. QED BY <2>5, <2>6, <2>7 DEF e
<1>5. SUFFICES ASSUME NEW k
               PROVE  /\ r \in X
                      /\ At(r[1], k) = IF k \in DOMAIN round THEN round[k] ELSE At(start[1], k)
                      /\ At(r[2], k) + At(start[1], k) = At(start[2], k) + At(r[1], k)
  BY DEF Differenced
<1> DEFINE T == {p \in (SUBSET DOMAIN round) \X X :
                   /\ k \in p[1] => At(p[2][1], k) = round[k]
                   /\ k \notin p[1] => At(p[2][1], k) = At(start[1], k)
                   /\ At(p[2][2], k) + At(start[1], k) = At(start[2], k) + At(p[2][1], k)}
<1>6. <<{}, start>> \in T BY <1>3
<1>7. ASSUME NEW seen \in SUBSET DOMAIN round, NEW x \in X, NEW l \in (DOMAIN round) \ seen,
             <<seen, x>> \in T
      PROVE  <<seen \union {l}, DiffEntry(x, l)>> \in T
  <2>1. /\ k \in seen => At(x[1], k) = round[k]
        /\ k \notin seen => At(x[1], k) = At(start[1], k)
        /\ At(x[2], k) + At(start[1], k) = At(start[2], k) + At(x[1], k)
    BY <1>7
  <2> DEFINE y == DiffEntry(x, l)
  <2>2. y \in X /\ EntryIs(y[1], x[1], l, round[l]) /\ EntryIs(y[2], x[2], l, round[l] - At(x[1], l))
    BY <1>4
  <2>3. /\ At(start[1], k) \in Int /\ At(start[2], k) \in Int /\ round[l] \in Int
        /\ At(x[1], k) \in Int /\ At(x[2], k) \in Int
    BY <1>2, <1>3
  <2> HIDE DEF y
  <2>4. CASE k = l
    <3>1. At(y[1], k) = round[k] /\ At(y[2], k) = round[k] - At(x[1], k) BY <2>2, <2>4 DEF EntryIs
    <3>2. k \notin seen /\ At(x[1], k) = At(start[1], k) BY <2>1, <2>4
    <3>3. At(y[2], k) + At(start[1], k) = At(start[2], k) + At(y[1], k)
      BY <2>1, <2>3, <2>4, <3>1, <3>2 DEF At, EmptyMap
    <3>4. seen \union {l} \in SUBSET DOMAIN round /\ k \in seen \union {l} BY <2>4
    <3>5. QED BY <2>2, <3>1, <3>3, <3>4 DEF y
  <2>5. CASE k # l
    <3>1. At(y[1], k) = At(x[1], k) /\ At(y[2], k) = At(x[2], k) BY <2>2, <2>5 DEF EntryIs
    <3>2. seen \union {l} \in SUBSET DOMAIN round /\ (k \in seen \union {l} <=> k \in seen)
      BY <2>5
    <3>3. QED BY <2>1, <2>2, <3>1, <3>2 DEF y
  <2>6. QED BY <2>4, <2>5
<1>8. r \in X /\ <<DOMAIN round, r>> \in T
  <2>1. start \in X /\ \A x \in X : \A l \in DOMAIN round : DiffEntry(x, l) \in X BY <1>4
  <2> HIDE DEF T, X
  <2>2. QED BY <1>2, <1>6, <1>7, <2>1, DiffInduction
<1>9. QED BY <1>8

-----------------------------------------------------------------------------
(* Lists of maps.                                                          *)

IsSum(f, n, list, k) == f[0] = 0 /\ \A i \in 1 .. n : f[i] = f[i - 1] + At(list[i], k)

\* SumOf is a sum, term by term.
LEMMA SumFacts ==
  ASSUME NEW list \in Seq(Maps), NEW k
  PROVE  \E f \in [0 .. Len(list) -> Int] :
           IsSum(f, Len(list), list, k) /\ SumOf(list, k) = f[Len(list)]
<1> DEFINE n == Len(list)
           g == [i \in 1 .. n |-> [y \in Int |-> y + At(list[i], k)]]
           Body(f) == [i \in 0 .. n |-> IF i = 0 THEN 0 ELSE f[i - 1] + At(list[i], k)]
           f == CHOOSE f : f = Body(f)
<1>1. n \in Nat OBVIOUS
<1>2. \A i \in 1 .. n : At(list[i], k) \in Int
  <2>1. \A i \in 1 .. n : list[i] \in Maps OBVIOUS
  <2>2. QED BY <2>1, MapFacts
<1>3. g \in [1 .. n -> [Int -> Int]] BY <1>2
<1>4. \A i \in 1 .. n, y \in Int : g[i][y] = y + At(list[i], k) OBVIOUS
<1>5. SumOf(list, k) = f[n] BY DEF SumOf
<1> HIDE DEF n, g
<1>6. PICK h \in [0 .. n -> Int] : IsRun(h, 0, n, g)
  <2> DEFINE X == Int
             zero == 0
  <2>1. zero \in X /\ g \in [1 .. n -> [X -> X]] BY <1>3
  <2> HIDE DEF X, zero
  <2>2. \E h \in [0 .. n -> X] : IsRun(h, zero, n, g) BY <1>1, <2>1, RunExists
  <2>3. QED BY <2>2 DEF X, zero
<1>7. \A i \in 1 .. n : h[i] = h[i - 1] + At(list[i], k)
  <2>1. ASSUME NEW i \in 1 .. n PROVE h[i] = h[i - 1] + At(list[i], k)
    <3>1. i - 1 \in 0 .. n BY <1>1
    <3>2. h[i - 1] \in Int BY <1>6, <3>1
    <3>3. h[i] = g[i][h[i - 1]] BY <1>6 DEF IsRun
    <3>4. QED BY <1>4, <3>2, <3>3
  <2>2. QED BY <2>1
<1>8. h = Body(h)
  <2>1. \A i \in 0 .. n : i # 0 => i \in 1 .. n BY <1>1
  <2>2. QED BY <1>6, <1>7, <2>1 DEF IsRun
<1> HIDE DEF f
<1>9. f = Body(f) BY <1>8 DEF f
<1>10. f[0] = 0 /\ \A i \in 1 .. n : f[i] = f[i - 1] + At(list[i], k) BY <1>1, <1>9
<1> DEFINE T == {i \in 0 .. n : f[i] \in Int}
<1>11. 0 \in T BY <1>1, <1>10
<1>12. ASSUME NEW i \in 1 .. n, i - 1 \in T PROVE i \in T
  <2>1. f[i] = f[i - 1] + At(list[i], k) /\ f[i - 1] \in Int /\ At(list[i], k) \in Int
    BY <1>2, <1>10, <1>12
  <2>2. i \in 0 .. n BY <1>1
  <2>3. QED BY <2>1, <2>2
<1>13. 0 .. n \subseteq T
  <2> HIDE DEF T
  <2>1. QED BY <1>1, <1>11, <1>12, UpTo
<1>14. DOMAIN f = 0 .. n /\ f = [i \in 0 .. n |-> f[i]] BY <1>9
<1>15. f \in [0 .. n -> Int] BY <1>13, <1>14
<1>16. IsSum(f, n, list, k) BY <1>10 DEF IsSum
<1>17. QED BY <1>5, <1>15, <1>16 DEF n

\* Two sums over lists that begin alike.
Alike(s, t, n) == \A i \in 1 .. n : s[i] = t[i]

LEMMA SumUnique ==
  ASSUME NEW n \in Nat, NEW s, NEW t, NEW k, Alike(s, t, n),
         NEW f, IsSum(f, n, s, k), NEW g, IsSum(g, n, t, k)
  PROVE  f[n] = g[n]
<1> USE DEF IsSum, Alike
<1> DEFINE T == {i \in 0 .. n : f[i] = g[i]}
<1>1. 0 \in T OBVIOUS
<1>2. ASSUME NEW i \in 1 .. n, i - 1 \in T PROVE i \in T
  <2>1. f[i] = f[i - 1] + At(s[i], k) /\ g[i] = g[i - 1] + At(t[i], k) OBVIOUS
  <2>2. f[i - 1] = g[i - 1] /\ s[i] = t[i] BY <1>2
  <2>3. i \in 0 .. n OBVIOUS
  <2>4. QED BY <2>1, <2>2, <2>3
<1>3. 0 .. n \subseteq T
  <2> HIDE DEF T
  <2>1. QED BY <1>1, <1>2, UpTo
<1>4. QED BY <1>3

\* SumOf is a number.
LEMMA SumType ==
  ASSUME NEW list \in Seq(Maps), NEW k
  PROVE  SumOf(list, k) \in Int
<1>1. PICK f \in [0 .. Len(list) -> Int] : SumOf(list, k) = f[Len(list)] BY SumFacts
<1>2. Len(list) \in 0 .. Len(list) OBVIOUS
<1>3. QED BY <1>1, <1>2

\* Of no maps it is zero.
LEMMA SumEmpty ==
  ASSUME NEW k
  PROVE  SumOf(<<>>, k) = 0
<1> DEFINE s == <<>>
<1>1. s \in Seq(Maps) /\ Len(s) = 0 OBVIOUS
<1> HIDE DEF s
<1>2. PICK f \in [0 .. Len(s) -> Int] : IsSum(f, Len(s), s, k) /\ SumOf(s, k) = f[Len(s)]
  BY <1>1, SumFacts
<1>3. QED BY <1>1, <1>2 DEF IsSum, s

\* A map that is appended adds what it holds.
LEMMA SumAppend ==
  ASSUME NEW list \in Seq(Maps), NEW m \in Maps, NEW k
  PROVE  SumOf(Append(list, m), k) = SumOf(list, k) + At(m, k)
<1> DEFINE n == Len(list)
           t == Append(list, m)
<1>1. /\ n \in Nat /\ t \in Seq(Maps) /\ Len(t) = n + 1 /\ t[n + 1] = m
      /\ \A i \in 1 .. n : t[i] = list[i]
  OBVIOUS
<1>2. PICK f \in [0 .. n -> Int] : IsSum(f, n, list, k) /\ SumOf(list, k) = f[n] BY SumFacts
<1> HIDE DEF t
<1>3. \E g \in [0 .. Len(t) -> Int] : IsSum(g, Len(t), t, k) /\ SumOf(t, k) = g[Len(t)]
  BY <1>1, SumFacts
<1> HIDE DEF n
<1>4. PICK g \in [0 .. n + 1 -> Int] : IsSum(g, n + 1, t, k) /\ SumOf(t, k) = g[n + 1]
  BY <1>1, <1>3
<1>5. g[n + 1] = g[n] + At(m, k)
  <2>1. n + 1 \in 1 .. n + 1 /\ (n + 1) - 1 = n BY <1>1
  <2>2. QED BY <1>1, <1>4, <2>1 DEF IsSum
<1>6. IsSum(g, n, t, k)
  <2>1. 1 .. n \subseteq 1 .. n + 1 BY <1>1
  <2>2. QED BY <1>4, <2>1 DEF IsSum
<1>7. g[n] = f[n]
  <2>1. n \in Nat /\ Alike(t, list, n) /\ IsSum(f, n, list, k) BY <1>1, <1>2 DEF Alike
  <2>2. QED BY <1>6, <2>1, SumUnique, SMTT(30)
<1>8. QED BY <1>2, <1>4, <1>5, <1>7 DEF t

\* The empty map.
LEMMA EmptyMapFacts ==
  /\ EmptyMap \in Bounded /\ DOMAIN EmptyMap = {} /\ (\A P : EmptyMap \in Fitting(P))
  /\ \A k : At(EmptyMap, k) = 0
<1>1. DOMAIN EmptyMap = {} /\ EmptyMap \in [{} -> Int] BY DEF EmptyMap
<1>2. EmptyMap \in Maps BY <1>1 DEF Maps
<1>3. Cardinality(DOMAIN EmptyMap \ {Overflow}) = 0 BY <1>1, FS_EmptySet
<1>4. EmptyMap \in Bounded BY <1>2, <1>3 DEF Bounded
<1>5. QED BY <1>1, <1>2, <1>4 DEF Fitting, At

\* The results of merging the maps of a list one by one.
AreMerged(f, list) ==
  /\ f[0] = {EmptyMap}
  /\ \A i \in 1 .. Len(list) : f[i] = UNION {MergeMap(m, list[i]) : m \in f[i - 1]}

\* MergeMaps is well defined.
LEMMA MergeMapsFacts ==
  ASSUME NEW list \in Seq(Maps)
  PROVE  \E f : AreMerged(f, list) /\ MergeMaps(list) = f[Len(list)]
<1> DEFINE n == Len(list)
           X == SUBSET Bounded
           One == {EmptyMap}
           g == [i \in 1 .. n |-> [S \in X |-> UNION {MergeMap(m, list[i]) : m \in S}]]
           Body(f) ==
             [i \in 0 .. n |->
                IF i = 0 THEN {EmptyMap} ELSE UNION {MergeMap(m, list[i]) : m \in f[i - 1]}]
           f == CHOOSE f : f = Body(f)
<1>1. n \in Nat /\ \A i \in 1 .. n : list[i] \in Maps OBVIOUS
<1>2. MergeMaps(list) = f[n] BY DEF MergeMaps
<1>3. ASSUME NEW i \in 1 .. n, NEW S \in X PROVE UNION {MergeMap(m, list[i]) : m \in S} \in X
  BY <1>1, MergeBounded
<1>4. g \in [1 .. n -> [X -> X]] BY <1>3
<1>5. \A i \in 1 .. n, S \in X : g[i][S] = UNION {MergeMap(m, list[i]) : m \in S} OBVIOUS
<1>6. One \in X BY EmptyMapFacts
<1> HIDE DEF n, g, X, One
<1>7. PICK h \in [0 .. n -> X] : IsRun(h, One, n, g) BY <1>1, <1>4, <1>6, RunExists
<1>8. \A i \in 1 .. n : h[i] = UNION {MergeMap(m, list[i]) : m \in h[i - 1]}
  <2>1. SUFFICES ASSUME NEW i \in 1 .. n PROVE h[i] = UNION {MergeMap(m, list[i]) : m \in h[i - 1]}
    OBVIOUS
  <2>2. h[i] = g[i][h[i - 1]] /\ h[i - 1] \in X BY <1>1, <1>7 DEF IsRun
  <2>3. QED BY <1>5, <2>2
<1>9. h = Body(h)
  <2>1. \A i \in 0 .. n : i # 0 => i \in 1 .. n BY <1>1
  <2>2. \A i \in 0 .. n : h[i] = Body(h)[i] BY <1>7, <1>8, <2>1 DEF IsRun, One
  <2>3. h \in [0 .. n -> X] /\ DOMAIN Body(h) = 0 .. n OBVIOUS
  <2>4. QED BY <2>2, <2>3
<1> HIDE DEF f
<1>10. f = Body(f) BY <1>9 DEF f
<1>11. f[0] = {EmptyMap} /\ \A i \in 1 .. n : f[i] = UNION {MergeMap(m, list[i]) : m \in f[i - 1]}
  <2>1. \A i \in 0 .. n : f[i] = Body(f)[i] BY <1>10
  <2>2. 0 \in 0 .. n /\ \A i \in 1 .. n : i \in 0 .. n /\ i # 0 BY <1>1
  <2>3. f[0] = {EmptyMap} BY <2>1, <2>2
  <2>4. ASSUME NEW i \in 1 .. n PROVE f[i] = UNION {MergeMap(m, list[i]) : m \in f[i - 1]}
    BY <2>1, <2>2
  <2>5. QED BY <2>3, <2>4
<1>12. AreMerged(f, list) BY <1>11 DEF AreMerged, n
<1>13. QED BY <1>2, <1>12 DEF n

\* Merging a list of maps keeps the limit.
LEMMA MergeMapsBounded ==
  ASSUME NEW list \in Seq(Maps), NEW r \in MergeMaps(list)
  PROVE  r \in Bounded
<1> DEFINE n == Len(list)
<1>1. n \in Nat /\ \A i \in 1 .. n : list[i] \in Maps OBVIOUS
<1>2. PICK f : AreMerged(f, list) /\ MergeMaps(list) = f[n] BY MergeMapsFacts
<1> DEFINE T == {i \in 0 .. n : f[i] \subseteq Bounded}
<1>3. 0 \in T BY <1>1, <1>2, EmptyMapFacts DEF AreMerged
<1>4. ASSUME NEW i \in 1 .. n, i - 1 \in T PROVE i \in T
  <2>1. f[i] = UNION {MergeMap(m, list[i]) : m \in f[i - 1]} BY <1>2 DEF AreMerged
  <2>2. f[i - 1] \subseteq Bounded /\ i \in 0 .. n BY <1>1, <1>4
  <2>3. ASSUME NEW x \in f[i] PROVE x \in Bounded
    <3>1. PICK m \in f[i - 1] : x \in MergeMap(m, list[i]) BY <2>1
    <3>2. QED BY <1>1, <2>2, <3>1, MergeBounded
  <2>4. QED BY <2>2, <2>3
<1>5. 0 .. n \subseteq T
  <2> HIDE DEF T, n
  <2>1. QED BY <1>1, <1>3, <1>4, UpTo
<1>6. QED BY <1>1, <1>2, <1>5

SumsOf(r, list) == \A k : At(r, k) = SumOf(list, k)

\* While the attribute sets fit, it adds them up.
LEMMA MergeMapsFits ==
  ASSUME NEW P, Fit(P), NEW list \in Seq(Fitting(P)), NEW r \in MergeMaps(list)
  PROVE  r \in Fitting(P) /\ SumsOf(r, list)
<1>1. SUFFICES ASSUME NEW k PROVE r \in Fitting(P) /\ At(r, k) = SumOf(list, k) BY DEF SumsOf
<1> DEFINE n == Len(list)
<1>2. /\ n \in Nat /\ (\A i \in 1 .. n : list[i] \in Fitting(P)) /\ Fitting(P) \subseteq Maps
  BY DEF Fitting
<1>3. list \in Seq(Maps) BY <1>2
<1>4. PICK f : AreMerged(f, list) /\ MergeMaps(list) = f[n] BY <1>3, MergeMapsFacts
<1>5. PICK s \in [0 .. n -> Int] : IsSum(s, n, list, k) /\ SumOf(list, k) = s[n]
  BY <1>3, SumFacts
<1> DEFINE T == {i \in 0 .. n : \A m \in f[i] : m \in Fitting(P) /\ At(m, k) = s[i]}
<1>6. 0 \in T
  <2>1. f[0] = {EmptyMap} /\ s[0] = 0 BY <1>4, <1>5 DEF AreMerged, IsSum
  <2>2. EmptyMap \in Fitting(P) /\ At(EmptyMap, k) = 0 BY EmptyMapFacts
  <2>3. QED BY <1>2, <2>1, <2>2
<1>7. ASSUME NEW i \in 1 .. n, i - 1 \in T PROVE i \in T
  <2>1. f[i] = UNION {MergeMap(m, list[i]) : m \in f[i - 1]} BY <1>4 DEF AreMerged
  <2>2. s[i] = s[i - 1] + At(list[i], k) BY <1>5 DEF IsSum
  <2>3. i \in 0 .. n /\ \A m \in f[i - 1] : m \in Fitting(P) /\ At(m, k) = s[i - 1] BY <1>2, <1>7
  <2>4. ASSUME NEW x \in f[i] PROVE x \in Fitting(P) /\ At(x, k) = s[i]
    <3>1. PICK m \in f[i - 1] : x \in MergeMap(m, list[i]) BY <2>1
    <3>2. m \in Fitting(P) /\ At(m, k) = s[i - 1] /\ list[i] \in Fitting(P) BY <1>2, <2>3
    <3>3. x \in Fitting(P) /\ SumsTo(x, m, list[i]) BY <3>1, <3>2, MergeFits
    <3>4. At(x, k) = At(m, k) + At(list[i], k) BY <3>3 DEF SumsTo
    <3>5. QED BY <2>2, <3>2, <3>3, <3>4
  <2>5. QED BY <2>3, <2>4
<1>8. 0 .. n \subseteq T
  <2> HIDE DEF T, n
  <2>1. QED BY <1>2, <1>6, <1>7, UpTo
<1>9. n \in T BY <1>2, <1>8
<1>10. QED BY <1>4, <1>5, <1>9

-----------------------------------------------------------------------------
(* Totals over the keys of a map.                                          *)

\* What the sum over a set of keys is, given the sums over smaller sets.
SumStep(f, h) ==
  [s \in SUBSET DOMAIN f |->
     IF s = {} THEN 0 ELSE f[CHOOSE x \in s : TRUE] + h[s \ {CHOOSE x \in s : TRUE}]]

\* Total is a sum over the domain.
LEMMA TotalDef ==
  ASSUME NEW f
  PROVE  Total(f) = (CHOOSE h : h = SumStep(f, h))[DOMAIN f]
BY DEF Total, FoldFunction, FoldFunctionOnSet, MapThenFoldSet, SumStep

\* An induction over the subsets of a finite set: T holds those of which a
\* claim is true.
LEMMA SubsetInduction ==
  ASSUME NEW S, IsFiniteSet(S), NEW T, {} \in T,
         \A s \in SUBSET S : s # {} /\ s \ {CHOOSE x \in s : TRUE} \in T => s \in T
  PROVE  SUBSET S \subseteq T
<1> DEFINE N == Cardinality(S)
           U == {n \in 0 .. N : \A s \in SUBSET S : Cardinality(s) = n => s \in T}
<1>1. N \in Nat BY FS_CardinalityType
<1>2. \A s \in SUBSET S : IsFiniteSet(s) /\ Cardinality(s) \in 0 .. N
  <2>1. ASSUME NEW s \in SUBSET S PROVE IsFiniteSet(s) /\ Cardinality(s) \in 0 .. N
    <3>1. IsFiniteSet(s) /\ Cardinality(s) <= N BY FS_Subset
    <3>2. Cardinality(s) \in Nat BY <3>1, FS_CardinalityType
    <3>3. QED BY <1>1, <3>1, <3>2
  <2>2. QED BY <2>1
<1> HIDE DEF N
<1>3. 0 \in U
  <2>1. \A s \in SUBSET S : Cardinality(s) = 0 => s = {} BY <1>2, FS_EmptySet
  <2>2. QED BY <1>1, <2>1
<1>4. ASSUME NEW n \in 1 .. N, n - 1 \in U PROVE n \in U
  <2>1. SUFFICES ASSUME NEW s \in SUBSET S, Cardinality(s) = n PROVE s \in T BY <1>1
  <2> DEFINE x == CHOOSE x \in s : TRUE
  <2>2. s # {}
    <3>1. Cardinality(s) # 0 BY <1>1, <2>1
    <3>2. QED BY <3>1, FS_EmptySet
  <2>3. x \in s BY <2>2
  <2> HIDE DEF x
  <2>4. Cardinality(s \ {x}) = n - 1
    <3>1. Cardinality(s \ {x}) = Cardinality(s) - 1 BY <1>2, <2>3, FS_RemoveElement
    <3>2. QED BY <2>1, <3>1
  <2>5. s \ {x} \in T BY <1>4, <2>4
  <2>6. QED BY <2>2, <2>5 DEF x
<1>5. 0 .. N \subseteq U
  <2> HIDE DEF U
  <2>1. QED BY <1>1, <1>3, <1>4, UpTo
<1>6. QED BY <1>2, <1>5

\* The recursion has a solution.
LEMMA SumExists ==
  ASSUME NEW S, IsFiniteSet(S), NEW f \in [S -> Int]
  PROVE  \E h \in [SUBSET S -> Int] : h = SumStep(f, h)
<1> DEFINE X == [SUBSET S -> Int]
           zero == [s \in SUBSET S |-> 0]
           N == Cardinality(S)
           g == [i \in 1 .. N + 1 |-> [h \in X |-> SumStep(f, h)]]
<1>1. N \in Nat BY FS_CardinalityType
<1>2. \A s \in SUBSET S : s # {} => (CHOOSE x \in s : TRUE) \in s OBVIOUS
<1>3. ASSUME NEW h \in X PROVE SumStep(f, h) \in X BY <1>2 DEF SumStep
<1>4. g \in [1 .. N + 1 -> [X -> X]] BY <1>3
<1>5. zero \in X OBVIOUS
<1>6. \A i \in 1 .. N + 1, h \in X : g[i][h] = SumStep(f, h) OBVIOUS
<1> HIDE DEF g, N, X, zero
<1>7. N + 1 \in Nat BY <1>1
<1>8. PICK F \in [0 .. N + 1 -> X] : IsRun(F, zero, N + 1, g) BY <1>4, <1>5, <1>7, RunExists
<1>9. \A i \in 1 .. N + 1 : F[i] = SumStep(f, F[i - 1]) BY <1>1, <1>6, <1>8 DEF IsRun
<1> DEFINE U == {n \in 0 .. N : \A s \in SUBSET S : Cardinality(s) <= n => F[n + 1][s] = F[n][s]}
<1>10. \A s \in SUBSET S : IsFiniteSet(s) /\ Cardinality(s) \in Nat /\ Cardinality(s) <= N
  BY FS_Subset, FS_CardinalityType DEF N
<1>11. 0 \in U
  <2>1. \A s \in SUBSET S : Cardinality(s) <= 0 => s = {} BY <1>10, FS_EmptySet
  <2>2. F[1] = SumStep(f, F[0]) /\ F[0] = zero
    <3>1. 1 \in 1 .. N + 1 /\ 1 - 1 = 0 BY <1>1
    <3>2. QED BY <1>8, <1>9, <3>1 DEF IsRun
  <2>3. F[1][{}] = 0 /\ F[0][{}] = 0 BY <2>2 DEF SumStep, zero
  <2>4. \A s \in SUBSET S : Cardinality(s) <= 0 => F[1][s] = F[0][s]
    <3>1. SUFFICES ASSUME NEW s \in SUBSET S, Cardinality(s) <= 0 PROVE F[1][s] = F[0][s] OBVIOUS
    <3>2. s = {} BY <2>1, <3>1
    <3>3. QED BY <2>3, <3>2
  <2>5. 0 \in 0 .. N /\ 0 + 1 = 1 BY <1>1
  <2>6. QED BY <2>4, <2>5
<1>12. ASSUME NEW n \in 1 .. N, n - 1 \in U PROVE n \in U
  <2>1. SUFFICES ASSUME NEW s \in SUBSET S, Cardinality(s) <= n PROVE F[n + 1][s] = F[n][s]
    BY <1>1
  <2>2. F[n + 1] = SumStep(f, F[n]) /\ F[n] = SumStep(f, F[n - 1])
    <3>1. n + 1 \in 1 .. N + 1 /\ (n + 1) - 1 = n /\ n \in 1 .. N + 1 BY <1>1
    <3>2. QED BY <1>9, <3>1
  <2>3. CASE s = {} BY <2>2, <2>3 DEF SumStep
  <2>4. CASE s # {}
    <3> DEFINE x == CHOOSE x \in s : TRUE
    <3>1. x \in s BY <2>4
    <3>2. /\ F[n + 1][s] = f[x] + F[n][s \ {x}]
          /\ F[n][s] = f[x] + F[n - 1][s \ {x}]
      BY <2>2, <2>4 DEF SumStep
    <3> HIDE DEF x
    <3>3. Cardinality(s \ {x}) = Cardinality(s) - 1 BY <1>10, <3>1, FS_RemoveElement
    <3>4. Cardinality(s \ {x}) <= n - 1 BY <1>10, <2>1, <3>3
    <3>5. F[n][s \ {x}] = F[n - 1][s \ {x}] BY <1>12, <3>4
    <3>6. QED BY <3>2, <3>5
  <2>5. QED BY <2>3, <2>4
<1>13. 0 .. N \subseteq U
  <2> HIDE DEF U
  <2>1. QED BY <1>1, <1>11, <1>12, UpTo
<1>14. \A s \in SUBSET S : F[N + 1][s] = F[N][s] BY <1>1, <1>10, <1>13
<1>15. F[N] \in X /\ F[N + 1] \in X /\ F[N + 1] = SumStep(f, F[N])
  <2>1. N \in 0 .. N + 1 /\ N + 1 \in 0 .. N + 1 /\ N + 1 \in 1 .. N + 1 /\ (N + 1) - 1 = N BY <1>1
  <2>2. QED BY <1>8, <1>9, <2>1
<1>16. F[N + 1] = F[N] BY <1>14, <1>15 DEF X
<1>17. QED BY <1>15, <1>16 DEF X

\* Total, as the value for the whole set of a function on its subsets.
IsTotal(h, f, S) ==
  /\ h[{}] = 0
  /\ \A s \in SUBSET S :
       s # {} => h[s] = f[CHOOSE x \in s : TRUE] + h[s \ {CHOOSE x \in s : TRUE}]

LEMMA TotalFacts ==
  ASSUME NEW S, IsFiniteSet(S), NEW f \in [S -> Int]
  PROVE  \E h : Total(f) = h[S] /\ IsTotal(h, f, S) /\ \A s \in SUBSET S : h[s] \in Int
<1> DEFINE h == CHOOSE h : h = SumStep(f, h)
<1>1. DOMAIN f = S OBVIOUS
<1>2. h = SumStep(f, h) BY SumExists
<1>3. Total(f) = h[S] BY <1>1, TotalDef
<1> HIDE DEF h
<1>4. IsTotal(h, f, S)
  <2>1. \A s \in SUBSET S : h[s] = IF s = {} THEN 0 ELSE f[CHOOSE x \in s : TRUE] + h[s \ {CHOOSE x \in s : TRUE}]
    BY <1>1, <1>2 DEF SumStep
  <2>2. QED BY <2>1 DEF IsTotal
<1> DEFINE T == {s \in SUBSET S : h[s] \in Int}
<1>5. {} \in T BY <1>4 DEF IsTotal
<1>6. ASSUME NEW s \in SUBSET S, s # {}, s \ {CHOOSE x \in s : TRUE} \in T PROVE s \in T
  <2> DEFINE x == CHOOSE x \in s : TRUE
  <2>1. x \in s BY <1>6
  <2>2. h[s] = f[x] + h[s \ {x}] BY <1>4, <1>6 DEF IsTotal
  <2>3. h[s \ {x}] \in Int BY <1>6
  <2> HIDE DEF x
  <2>4. f[x] \in Int BY <2>1
  <2>5. QED BY <2>2, <2>3, <2>4
<1>7. SUBSET S \subseteq T
  <2> HIDE DEF T
  <2>1. QED BY <1>5, <1>6, SubsetInduction
<1>8. QED BY <1>3, <1>4, <1>7

\* A total is a number.
LEMMA TotalType ==
  ASSUME NEW S, IsFiniteSet(S), NEW f \in [S -> Int]
  PROVE  Total(f) \in Int
<1>1. PICK h : Total(f) = h[S] /\ \A s \in SUBSET S : h[s] \in Int BY TotalFacts
<1>2. QED BY <1>1

\* Totals add up.
Adds(e, f, g, S) ==
  /\ e \in [S -> Int] /\ f \in [S -> Int] /\ g \in [S -> Int]
  /\ \A k \in S : e[k] = f[k] + g[k]

LEMMA TotalAdd ==
  ASSUME NEW S, IsFiniteSet(S), NEW e, NEW f, NEW g, Adds(e, f, g, S)
  PROVE  Total(e) = Total(f) + Total(g)
<1>0. f \in [S -> Int] /\ g \in [S -> Int] /\ e \in [S -> Int] BY DEF Adds
<1>1. PICK hf : Total(f) = hf[S] /\ IsTotal(hf, f, S) /\ \A s \in SUBSET S : hf[s] \in Int BY <1>0, TotalFacts
<1>2. PICK hg : Total(g) = hg[S] /\ IsTotal(hg, g, S) /\ \A s \in SUBSET S : hg[s] \in Int BY <1>0, TotalFacts
<1>3. PICK he : Total(e) = he[S] /\ IsTotal(he, e, S) /\ \A s \in SUBSET S : he[s] \in Int BY <1>0, TotalFacts
<1> DEFINE T == {s \in SUBSET S : he[s] = hf[s] + hg[s]}
<1>4. {} \in T BY <1>1, <1>2, <1>3 DEF IsTotal
<1>5. ASSUME NEW s \in SUBSET S, s # {}, s \ {CHOOSE x \in s : TRUE} \in T PROVE s \in T
  <2> DEFINE x == CHOOSE x \in s : TRUE
             r == s \ {x}
  <2>1. x \in s BY <1>5
  <2>2. he[s] = e[x] + he[r] /\ hf[s] = f[x] + hf[r] /\ hg[s] = g[x] + hg[r]
    BY <1>1, <1>2, <1>3, <1>5 DEF IsTotal
  <2>3. he[r] = hf[r] + hg[r] BY <1>5
  <2>4. r \in SUBSET S OBVIOUS
  <2> HIDE DEF x, r
  <2>5. hf[r] \in Int /\ hg[r] \in Int /\ f[x] \in Int /\ g[x] \in Int /\ e[x] = f[x] + g[x]
    BY <1>0, <1>1, <1>2, <2>1, <2>4 DEF Adds
  <2>6. QED BY <2>2, <2>3, <2>5
<1>6. SUBSET S \subseteq T
  <2> HIDE DEF T
  <2>1. QED BY <1>4, <1>5, SubsetInduction
<1>7. QED BY <1>1, <1>2, <1>3, <1>6

\* A total of larger numbers is larger.
LEMMA TotalMonotone ==
  ASSUME NEW S, IsFiniteSet(S), NEW f \in [S -> Int], NEW g \in [S -> Int],
         \A k \in S : f[k] <= g[k]
  PROVE  Total(f) <= Total(g)
<1>1. PICK hf : Total(f) = hf[S] /\ IsTotal(hf, f, S) /\ \A s \in SUBSET S : hf[s] \in Int BY TotalFacts
<1>2. PICK hg : Total(g) = hg[S] /\ IsTotal(hg, g, S) /\ \A s \in SUBSET S : hg[s] \in Int BY TotalFacts
<1> DEFINE T == {s \in SUBSET S : hf[s] <= hg[s]}
<1>4. {} \in T BY <1>1, <1>2 DEF IsTotal
<1>5. ASSUME NEW s \in SUBSET S, s # {}, s \ {CHOOSE x \in s : TRUE} \in T PROVE s \in T
  <2> DEFINE x == CHOOSE x \in s : TRUE
             r == s \ {x}
  <2>1. x \in s BY <1>5
  <2>2. hf[s] = f[x] + hf[r] /\ hg[s] = g[x] + hg[r]
    BY <1>1, <1>2, <1>5 DEF IsTotal
  <2>3. hf[r] <= hg[r] BY <1>5
  <2>4. r \in SUBSET S OBVIOUS
  <2> HIDE DEF x, r
  <2>5. hf[r] \in Int /\ hg[r] \in Int /\ f[x] \in Int /\ g[x] \in Int /\ f[x] <= g[x]
    BY <1>1, <1>2, <2>1, <2>4
  <2>6. QED BY <2>2, <2>3, <2>5
<1>6. SUBSET S \subseteq T
  <2> HIDE DEF T
  <2>1. QED BY <1>4, <1>5, SubsetInduction
<1>7. QED BY <1>1, <1>2, <1>6

\* One term that changes.
LEMMA TotalUpdate ==
  ASSUME NEW S, IsFiniteSet(S), NEW f \in [S -> Int], NEW g \in [S -> Int], NEW a \in S,
         \A k \in S \ {a} : g[k] = f[k]
  PROVE  Total(g) = Total(f) + (g[a] - f[a])
<1>1. PICK hf : Total(f) = hf[S] /\ IsTotal(hf, f, S) /\ \A s \in SUBSET S : hf[s] \in Int BY TotalFacts
<1>2. PICK hg : Total(g) = hg[S] /\ IsTotal(hg, g, S) /\ \A s \in SUBSET S : hg[s] \in Int BY TotalFacts
<1>3. f[a] \in Int /\ g[a] \in Int OBVIOUS
<1> DEFINE T == {s \in SUBSET S : hg[s] = hf[s] + (IF a \in s THEN g[a] - f[a] ELSE 0)}
<1>4. {} \in T BY <1>1, <1>2 DEF IsTotal
<1>5. ASSUME NEW s \in SUBSET S, s # {}, s \ {CHOOSE x \in s : TRUE} \in T PROVE s \in T
  <2> DEFINE x == CHOOSE x \in s : TRUE
             r == s \ {x}
  <2>1. x \in s BY <1>5
  <2>2. hf[s] = f[x] + hf[r] /\ hg[s] = g[x] + hg[r]
    BY <1>1, <1>2, <1>5 DEF IsTotal
  <2>3. hg[r] = hf[r] + (IF a \in r THEN g[a] - f[a] ELSE 0) BY <1>5
  <2>4. r \in SUBSET S /\ (a \in r <=> a \in s /\ a # x) OBVIOUS
  <2> HIDE DEF x, r
  <2>5. hf[r] \in Int /\ hg[r] \in Int /\ f[x] \in Int /\ g[x] \in Int /\ (x # a => f[x] = g[x])
    BY <1>1, <1>2, <2>1, <2>4
  <2>6. hg[s] = hf[s] + (IF a \in s THEN g[a] - f[a] ELSE 0)
    <3>1. CASE x = a BY <1>3, <2>1, <2>2, <2>3, <2>4, <2>5, <3>1
    <3>2. CASE x # a /\ a \in s BY <1>3, <2>2, <2>3, <2>4, <2>5, <3>2
    <3>3. CASE a \notin s BY <1>3, <2>1, <2>2, <2>3, <2>4, <2>5, <3>3
    <3>4. QED BY <3>1, <3>2, <3>3
  <2>7. QED BY <2>6
<1>6. SUBSET S \subseteq T
  <2> HIDE DEF T
  <2>1. QED BY <1>4, <1>5, SubsetInduction
<1>7. QED BY <1>1, <1>2, <1>6

\* The total of zeros.
LEMMA TotalZero ==
  ASSUME NEW S, IsFiniteSet(S), NEW f \in [S -> Int], \A k \in S : f[k] = 0
  PROVE  Total(f) = 0
<1>1. Adds(f, f, f, S) BY DEF Adds
<1>2. PICK t \in Int : t = Total(f) BY TotalType
<1>3. Total(f) = Total(f) + Total(f) BY <1>1, TotalAdd
<1>4. t = t + t BY <1>2, <1>3
<1>5. t = 0 BY <1>4
<1>6. QED BY <1>2, <1>5

\* A function with nothing negative has a total that is not.
LEMMA TotalNat ==
  ASSUME NEW S, IsFiniteSet(S), NEW f \in [S -> Nat]
  PROVE  Total(f) \in Nat
<1> DEFINE z == [k \in S |-> 0]
<1>1. z \in [S -> Int] /\ \A k \in S : z[k] = 0 OBVIOUS
<1>2. f \in [S -> Int] /\ \A k \in S : z[k] <= f[k] OBVIOUS
<1> HIDE DEF z
<1>3. Total(z) = 0 BY <1>1, TotalZero
<1>4. Total(z) <= Total(f) BY <1>1, <1>2, TotalMonotone
<1>5. Total(f) \in Int BY <1>2, TotalType
<1>6. QED BY <1>3, <1>4, <1>5

-----------------------------------------------------------------------------
(* Maps of an instrument that only goes up: nothing in them is negative,   *)
(* and a merge never adds to the total, past the limit neither.            *)

Counts == UNION {[D -> Nat] : D \in SUBSET Keys}
MapTotal(m) == Total([k \in Keys |-> At(m, k)])
ListTotal(list) == Total([k \in Keys |-> SumOf(list, k)])

\* The keys are finitely many.
LEMMA KeysFinite == IsFiniteSet(Keys)
BY FS_AddElement DEF Keys

\* What being such a map means.
LEMMA CountsFacts ==
  ASSUME NEW m \in Counts
  PROVE  m \in Maps /\ DOMAIN m \subseteq Keys /\ \A k : At(m, k) \in Nat
<1>1. PICK D \in SUBSET Keys : m \in [D -> Nat] BY DEF Counts
<1>2. m \in [D -> Int] /\ DOMAIN m = D BY <1>1
<1>3. m \in Maps BY <1>2 DEF Maps
<1>4. \A k : At(m, k) \in Nat BY <1>1, <1>2 DEF At
<1>5. QED BY <1>2, <1>3, <1>4

\* The empty map is one.
LEMMA EmptyCounts == EmptyMap \in Counts /\ MapTotal(EmptyMap) = 0
<1>1. EmptyMap \in [{} -> Nat] BY DEF EmptyMap
<1>2. EmptyMap \in Counts BY <1>1 DEF Counts
<1> DEFINE z == [k \in Keys |-> At(EmptyMap, k)]
<1>3. z \in [Keys -> Int] /\ \A k \in Keys : z[k] = 0 BY EmptyMapFacts
<1> HIDE DEF z
<1>4. Total(z) = 0 BY <1>3, KeysFinite, TotalZero
<1>5. QED BY <1>2, <1>4 DEF MapTotal, z

\* Set with a number that is not negative.
LEMMA CountsEntry ==
  ASSUME NEW m \in Counts, NEW a \in Keys, NEW v \in Nat
  PROVE  SetEntry(m, a, v) \in Counts
<1>1. PICK D \in SUBSET Keys : m \in [D -> Nat] BY DEF Counts
<1>2. KeyOf(m, a) \in Keys BY DEF KeyOf, Keys
<1> DEFINE E == DOMAIN m \union {KeyOf(m, a)}
<1>3. SetEntry(m, a, v) \in [E -> Nat] BY <1>1 DEF SetEntry
<1>4. E \in SUBSET Keys BY <1>1, <1>2
<1>5. QED BY <1>3, <1>4 DEF Counts

\* The total of a map is a number.
LEMMA MapTotalType ==
  ASSUME NEW m \in Maps
  PROVE  MapTotal(m) \in Int /\ [k \in Keys |-> At(m, k)] \in [Keys -> Int]
<1> DEFINE f == [k \in Keys |-> At(m, k)]
<1>1. f \in [Keys -> Int] BY MapFacts
<1> HIDE DEF f
<1>2. Total(f) \in Int BY <1>1, KeysFinite, TotalType
<1>3. QED BY <1>1, <1>2 DEF MapTotal, f

\* What Set does to the total.
LEMMA EntryTotal ==
  ASSUME NEW m \in Maps, NEW a \in Keys, NEW v \in Int
  PROVE  MapTotal(SetEntry(m, a, v)) = MapTotal(m) + (v - At(m, KeyOf(m, a)))
<1> DEFINE s == SetEntry(m, a, v)
           key == KeyOf(m, a)
           f == [k \in Keys |-> At(m, k)]
           g == [k \in Keys |-> At(s, k)]
<1>1. s \in Maps /\ EntryIs(s, m, key, v) BY EntryMap
<1>2. key \in Keys BY DEF KeyOf, Keys
<1> HIDE DEF s, key
<1>3. f \in [Keys -> Int] /\ g \in [Keys -> Int] BY <1>1, MapTotalType
<1>4. (\A k \in Keys \ {key} : g[k] = f[k]) /\ g[key] = v /\ f[key] = At(m, key)
  BY <1>1, <1>2 DEF EntryIs
<1> HIDE DEF f, g
<1>5. Total(g) = Total(f) + (g[key] - f[key]) BY <1>2, <1>3, <1>4, KeysFinite, TotalUpdate
<1>6. QED BY <1>4, <1>5 DEF MapTotal, f, g, s, key

\* Merging an entry adds no more than the entry: what the overflow entry
\* held is lost if it is overwritten.
LEMMA MergeEntryCounts ==
  ASSUME NEW m \in Counts, NEW a \in Keys, NEW v \in Nat
  PROVE  /\ MergeEntry(m, a, v) \in Counts
         /\ MapTotal(MergeEntry(m, a, v)) <= MapTotal(m) + v
<1>1. m \in Maps /\ \A k : At(m, k) \in Nat BY CountsFacts
<1> DEFINE w == At(m, a) + v
<1>2. w \in Nat /\ w \in Int BY <1>1
<1>3. MergeEntry(m, a, v) = SetEntry(m, a, w) BY DEF MergeEntry
<1>4. KeyOf(m, a) = a \/ At(m, a) = 0 BY DEF KeyOf, At
<1>5. MapTotal(m) \in Int BY <1>1, MapTotalType
<1> HIDE DEF w
<1>6. SetEntry(m, a, w) \in Counts BY <1>2, CountsEntry
<1>7. MapTotal(SetEntry(m, a, w)) = MapTotal(m) + (w - At(m, KeyOf(m, a))) BY <1>1, <1>2, EntryTotal
<1>8. w - At(m, KeyOf(m, a)) <= v
  <2>1. CASE KeyOf(m, a) = a BY <1>1, <2>1 DEF w
  <2>2. CASE At(m, a) = 0
    <3>1. At(m, KeyOf(m, a)) \in Nat BY <1>1
    <3>2. QED BY <2>2, <3>1 DEF w
  <2>3. QED BY <1>4, <2>1, <2>2
<1>9. At(m, KeyOf(m, a)) \in Nat BY <1>1
<1>10. QED BY <1>2, <1>3, <1>5, <1>6, <1>7, <1>8, <1>9

\* MergeMap adds no more than the map that is merged.
LEMMA MergeCounts ==
  ASSUME NEW start \in Counts, NEW src \in Counts, NEW r \in MergeMap(start, src)
  PROVE  r \in Counts /\ MapTotal(r) <= MapTotal(start) + MapTotal(src)
<1> DEFINE Done(seen) == [k \in Keys |-> IF k \in seen THEN At(src, k) ELSE 0]
           T == {p \in (SUBSET DOMAIN src) \X Counts :
                   MapTotal(p[2]) <= MapTotal(start) + Total(Done(p[1]))}
<1>1. /\ src \in Maps /\ start \in Maps /\ DOMAIN src \subseteq Keys /\ IsFiniteSet(DOMAIN src)
      /\ \A k : At(src, k) \in Nat
  BY CountsFacts, MapFacts
<1>2. \A k \in DOMAIN src : src[k] = At(src, k) /\ src[k] \in Nat BY <1>1 DEF At
<1>3. MapTotal(start) \in Int BY <1>1, MapTotalType
<1>4. ASSUME NEW seen PROVE Done(seen) \in [Keys -> Int] /\ Total(Done(seen)) \in Int
  <2>1. Done(seen) \in [Keys -> Int] BY <1>1
  <2>2. QED BY <2>1, KeysFinite, TotalType
<1>5. ASSUME NEW seen \in SUBSET DOMAIN src, NEW l \in (DOMAIN src) \ seen
      PROVE  Total(Done(seen \union {l})) = Total(Done(seen)) + src[l]
  <2> DEFINE f == Done(seen)
             g == Done(seen \union {l})
  <2>1. f \in [Keys -> Int] /\ g \in [Keys -> Int] /\ Total(f) \in Int BY <1>4
  <2>2. l \in Keys /\ \A k \in Keys \ {l} : g[k] = f[k] BY <1>1
  <2>3. g[l] = src[l] /\ f[l] = 0 /\ src[l] \in Nat BY <1>1, <1>2
  <2> HIDE DEF f, g
  <2>4. Total(g) = Total(f) + (g[l] - f[l]) BY <2>1, <2>2, KeysFinite, TotalUpdate
  <2>5. Total(g) = Total(f) + src[l] BY <2>1, <2>3, <2>4
  <2>6. QED BY <2>5 DEF f, g
<1>6. <<{}, start>> \in T
  <2> DEFINE z == Done({})
  <2>1. z \in [Keys -> Int] /\ \A k \in Keys : z[k] = 0 OBVIOUS
  <2> HIDE DEF z
  <2>4. Total(z) = 0 BY <2>1, KeysFinite, TotalZero
  <2>5. MapTotal(start) <= MapTotal(start) + Total(Done({})) BY <1>3, <2>4 DEF z
  <2>6. QED BY <2>5
<1>7. ASSUME NEW x \in Counts, NEW l \in DOMAIN src
      PROVE  /\ MergeEntry(x, l, src[l]) \in Counts
             /\ MapTotal(MergeEntry(x, l, src[l])) <= MapTotal(x) + src[l]
             /\ MapTotal(x) \in Int /\ MapTotal(MergeEntry(x, l, src[l])) \in Int
  <2>1. l \in Keys /\ src[l] \in Nat BY <1>1, <1>2
  <2>2. /\ MergeEntry(x, l, src[l]) \in Counts
        /\ MapTotal(MergeEntry(x, l, src[l])) <= MapTotal(x) + src[l]
    BY <2>1, MergeEntryCounts
  <2>3. QED BY <2>2, CountsFacts, MapTotalType
<1>8. ASSUME NEW seen \in SUBSET DOMAIN src, NEW x \in Counts, NEW l \in (DOMAIN src) \ seen,
             <<seen, x>> \in T
      PROVE  <<seen \union {l}, MergeEntry(x, l, src[l])>> \in T
  <2> DEFINE y == MergeEntry(x, l, src[l])
             old == Total(Done(seen))
             new == Total(Done(seen \union {l}))
  <2>1. MapTotal(x) <= MapTotal(start) + old BY <1>8
  <2>2. y \in Counts /\ MapTotal(y) <= MapTotal(x) + src[l] /\ MapTotal(x) \in Int /\ MapTotal(y) \in Int
    BY <1>7
  <2>3. new = old + src[l] /\ old \in Int /\ src[l] \in Int BY <1>2, <1>4, <1>5
  <2> HIDE DEF y, old, new, Done
  <2>4. MapTotal(y) <= MapTotal(start) + new BY <1>3, <2>1, <2>2, <2>3
  <2>5. seen \union {l} \in SUBSET DOMAIN src OBVIOUS
  <2>6. QED BY <2>2, <2>4, <2>5 DEF y, new
<1>9. r \in Counts /\ <<DOMAIN src, r>> \in T
  <2> HIDE DEF T
  <2>1. \A x \in Counts : \A l \in DOMAIN src : MergeEntry(x, l, src[l]) \in Counts BY <1>7
  <2>2. QED BY <1>1, <1>6, <1>8, <2>1, MergeInduction
<1>10. Done(DOMAIN src) = [k \in Keys |-> At(src, k)] BY DEF At
<1>11. QED BY <1>9, <1>10 DEF MapTotal

\* What lists of such maps hold together is not negative.
LEMMA SumCounts ==
  ASSUME NEW list \in Seq(Counts), NEW k
  PROVE  list \in Seq(Maps) /\ SumOf(list, k) \in Nat
<1> DEFINE n == Len(list)
<1>1. n \in Nat /\ \A i \in 1 .. n : list[i] \in Counts OBVIOUS
<1>2. list \in Seq(Maps)
  <2>1. Counts \subseteq Maps BY CountsFacts
  <2>2. QED BY <2>1
<1>3. PICK f \in [0 .. n -> Int] : IsSum(f, n, list, k) /\ SumOf(list, k) = f[n] BY <1>2, SumFacts
<1> DEFINE T == {i \in 0 .. n : f[i] \in Nat}
<1>4. 0 \in T BY <1>1, <1>3 DEF IsSum
<1>5. ASSUME NEW i \in 1 .. n, i - 1 \in T PROVE i \in T
  <2>1. f[i] = f[i - 1] + At(list[i], k) /\ i \in 0 .. n BY <1>1, <1>3 DEF IsSum
  <2>2. At(list[i], k) \in Nat BY <1>1, CountsFacts
  <2>3. f[i - 1] \in Nat BY <1>5
  <2>4. QED BY <2>1, <2>2, <2>3
<1>6. 0 .. n \subseteq T
  <2> HIDE DEF T, n
  <2>1. QED BY <1>1, <1>4, <1>5, UpTo
<1>7. n \in T BY <1>1, <1>6
<1>8. QED BY <1>2, <1>3, <1>7

\* The total of a list is a number.
LEMMA ListTotalType ==
  ASSUME NEW list \in Seq(Maps)
  PROVE  ListTotal(list) \in Int /\ [k \in Keys |-> SumOf(list, k)] \in [Keys -> Int]
<1> DEFINE f == [k \in Keys |-> SumOf(list, k)]
<1>1. f \in [Keys -> Int] BY SumType
<1> HIDE DEF f
<1>2. Total(f) \in Int BY <1>1, KeysFinite, TotalType
<1>3. QED BY <1>1, <1>2 DEF ListTotal, f

\* Of no maps it is zero.
LEMMA ListTotalEmpty == ListTotal(<<>>) = 0
<1> DEFINE z == [k \in Keys |-> SumOf(<<>>, k)]
<1>1. z \in [Keys -> Int] /\ \A k \in Keys : z[k] = 0 BY SumEmpty
<1> HIDE DEF z
<1>2. Total(z) = 0 BY <1>1, KeysFinite, TotalZero
<1>3. QED BY <1>2 DEF ListTotal, z

\* A map that is appended adds its total.
LEMMA ListTotalAppend ==
  ASSUME NEW list \in Seq(Maps), NEW m \in Maps
  PROVE  ListTotal(Append(list, m)) = ListTotal(list) + MapTotal(m)
<1> DEFINE e == [k \in Keys |-> SumOf(Append(list, m), k)]
           f == [k \in Keys |-> SumOf(list, k)]
           g == [k \in Keys |-> At(m, k)]
<1>1. Append(list, m) \in Seq(Maps) OBVIOUS
<1>2. f \in [Keys -> Int] /\ g \in [Keys -> Int] BY ListTotalType, MapTotalType
<1>3. e \in [Keys -> Int] BY <1>1, ListTotalType
<1>4. Adds(e, f, g, Keys) BY <1>2, <1>3, SumAppend DEF Adds
<1> HIDE DEF e, f, g
<1>5. Total(e) = Total(f) + Total(g) BY <1>4, KeysFinite, TotalAdd
<1>6. QED BY <1>5 DEF ListTotal, MapTotal, e, f, g

\* A map with nothing negative has a total that is not.
LEMMA MapTotalNat ==
  ASSUME NEW m \in Counts
  PROVE  MapTotal(m) \in Nat
<1> DEFINE f == [k \in Keys |-> At(m, k)]
<1>1. f \in [Keys -> Nat] BY CountsFacts
<1> HIDE DEF f
<1>2. Total(f) \in Nat BY <1>1, KeysFinite, TotalNat
<1>3. QED BY <1>2 DEF MapTotal, f

\* So has a list of maps with nothing negative.
LEMMA ListTotalNat ==
  ASSUME NEW list \in Seq(Counts)
  PROVE  ListTotal(list) \in Nat
<1> DEFINE f == [k \in Keys |-> SumOf(list, k)]
<1>1. f \in [Keys -> Nat] BY SumCounts
<1> HIDE DEF f
<1>2. Total(f) \in Nat BY <1>1, KeysFinite, TotalNat
<1>3. QED BY <1>2 DEF ListTotal, f

\* Merging the maps of a list adds no more than they hold.
LEMMA MergeMapsCounts ==
  ASSUME NEW list \in Seq(Counts), NEW r \in MergeMaps(list)
  PROVE  r \in Counts /\ MapTotal(r) <= ListTotal(list)
<1> DEFINE n == Len(list)
           IsPart(f, k) == f \in [0 .. n -> Int] /\ IsSum(f, n, list, k) /\ SumOf(list, k) = f[n]
           S == [k \in Keys |-> CHOOSE f : IsPart(f, k)]
           Part(i) == [k \in Keys |-> S[k][i]]
<1>1. n \in Nat /\ \A i \in 1 .. n : list[i] \in Counts OBVIOUS
<1>2. list \in Seq(Maps) BY SumCounts
<1>3. \A k \in Keys : \E f : IsPart(f, k) BY <1>2, SumFacts
<1>4. \A k \in Keys : IsPart(S[k], k)
  <2> HIDE DEF IsPart
  <2>1. QED BY <1>3
<1> HIDE DEF S
<1>5. ASSUME NEW i \in 0 .. n PROVE Part(i) \in [Keys -> Int] /\ Total(Part(i)) \in Int
  <2>1. Part(i) \in [Keys -> Int] BY <1>4
  <2> HIDE DEF Part
  <2>2. QED BY <2>1, KeysFinite, TotalType
<1>6. ASSUME NEW i \in 1 .. n PROVE Total(Part(i)) = Total(Part(i - 1)) + MapTotal(list[i])
  <2> DEFINE e == Part(i)
             f == Part(i - 1)
             g == [k \in Keys |-> At(list[i], k)]
  <2>1. i \in 0 .. n /\ i - 1 \in 0 .. n BY <1>1
  <2>2. e \in [Keys -> Int] /\ f \in [Keys -> Int] BY <1>5, <2>1
  <2>3. g \in [Keys -> Int]
    <3>1. list[i] \in Maps BY <1>1, CountsFacts
    <3>2. QED BY <3>1, MapTotalType
  <2>4. \A k \in Keys : S[k][i] = S[k][i - 1] + At(list[i], k) BY <1>4 DEF IsSum
  <2>5. Adds(e, f, g, Keys) BY <2>2, <2>3, <2>4 DEF Adds
  <2> HIDE DEF e, f, g
  <2>6. Total(e) = Total(f) + Total(g) BY <2>5, KeysFinite, TotalAdd
  <2>7. QED BY <2>6 DEF MapTotal, e, f, g
<1>7. PICK f : AreMerged(f, list) /\ MergeMaps(list) = f[n] BY <1>2, MergeMapsFacts
<1> DEFINE T == {i \in 0 .. n : \A m \in f[i] : m \in Counts /\ MapTotal(m) <= Total(Part(i))}
<1>8. 0 \in T
  <2>1. f[0] = {EmptyMap} BY <1>7 DEF AreMerged
  <2>2. 0 \in 0 .. n BY <1>1
  <2> DEFINE z == Part(0)
  <2>3. z \in [Keys -> Int] /\ \A k \in Keys : z[k] = 0 BY <1>4, <1>5, <2>2 DEF IsSum
  <2> HIDE DEF z
  <2>4. Total(z) = 0 BY <2>3, KeysFinite, TotalZero
  <2>5. EmptyMap \in Counts /\ MapTotal(EmptyMap) <= Total(z) BY <2>4, EmptyCounts
  <2>6. QED BY <2>1, <2>2, <2>5 DEF z
<1>9. ASSUME NEW i \in 1 .. n, i - 1 \in T PROVE i \in T
  <2>1. f[i] = UNION {MergeMap(m, list[i]) : m \in f[i - 1]} BY <1>7 DEF AreMerged
  <2>2. i \in 0 .. n /\ i - 1 \in 0 .. n BY <1>1
  <2>3. \A m \in f[i - 1] : m \in Counts /\ MapTotal(m) <= Total(Part(i - 1)) BY <1>9
  <2>4. /\ Total(Part(i - 1)) \in Int /\ Total(Part(i)) = Total(Part(i - 1)) + MapTotal(list[i])
    BY <1>5, <1>6, <2>2
  <2> HIDE DEF Part
  <2>5. ASSUME NEW x \in f[i] PROVE x \in Counts /\ MapTotal(x) <= Total(Part(i))
    <3>1. PICK m \in f[i - 1] : x \in MergeMap(m, list[i]) BY <2>1
    <3>2. m \in Counts /\ list[i] \in Counts /\ MapTotal(m) <= Total(Part(i - 1)) BY <1>1, <2>3
    <3>3. x \in Counts /\ MapTotal(x) <= MapTotal(m) + MapTotal(list[i])
      BY <3>1, <3>2, MergeCounts
    <3>4. MapTotal(x) \in Nat /\ MapTotal(m) \in Nat /\ MapTotal(list[i]) \in Nat
      BY <3>2, <3>3, MapTotalNat
    <3>5. QED BY <2>4, <3>2, <3>3, <3>4
  <2>6. QED BY <2>2, <2>5
<1>10. 0 .. n \subseteq T
  <2> HIDE DEF T, n
  <2>1. QED BY <1>1, <1>8, <1>9, UpTo
<1>11. n \in T BY <1>1, <1>10
<1>12. Part(n) = [k \in Keys |-> SumOf(list, k)] BY <1>4
<1>13. QED BY <1>7, <1>11, <1>12 DEF ListTotal

\* The observations of a monotonic sum: no difference is negative if no value
\* is below the one before, and the baselines follow.
LEMMA SumsCounts ==
  ASSUME NEW start \in Bounded \X Counts, NEW src \in Maps, DOMAIN src \subseteq Attributes,
         NEW before \in [Attributes -> Nat], \A a \in DOMAIN src : src[a] >= before[a],
         \A a \in Attributes : At(start[1], a) <= before[a],
         NEW r \in RecordSums(start, src)
  PROVE  /\ r[2] \in Counts
         /\ \A a \in Attributes :
              At(r[1], a) <= IF a \in DOMAIN src THEN src[a] ELSE before[a]
<1> DEFINE X == Maps \X Maps
           Top(seen, a) == IF a \in seen THEN src[a] ELSE before[a]
           T == {p \in (SUBSET DOMAIN src) \X X :
                   /\ p[2][2] \in Counts
                   /\ \A a \in Attributes : At(p[2][1], a) <= Top(p[1], a)}
<1>1. /\ IsFiniteSet(DOMAIN src) /\ DOMAIN src \subseteq Keys
      /\ \A k \in DOMAIN src : src[k] \in Nat /\ k \in Attributes
  <2>1. IsFiniteSet(DOMAIN src) /\ \A k \in DOMAIN src : src[k] \in Int BY MapFacts DEF IsMap
  <2>2. ASSUME NEW k \in DOMAIN src PROVE src[k] \in Nat
    <3>1. src[k] \in Int /\ before[k] \in Nat /\ src[k] >= before[k] BY <2>1
    <3>2. QED BY <3>1
  <2>3. QED BY <2>1, <2>2 DEF Keys
<1>2. ASSUME NEW x \in X, NEW k \in DOMAIN src
      PROVE  /\ RecordMonotonicSum(x, k, src[k]) \in X
             /\ RecordMonotonicSum(x, k, src[k])[1] = SetEntry(x[1], k, src[k])
             /\ x[2] \in Counts /\ At(x[1], k) <= src[k] =>
                  RecordMonotonicSum(x, k, src[k])[2] \in Counts
  <2>1. x[1] \in Maps /\ x[2] \in Maps /\ k \in Keys /\ src[k] \in Nat /\ src[k] \in Int BY <1>1
  <2>2. \A l : At(x[1], l) \in Int /\ At(x[2], l) \in Int BY <2>1, MapFacts
  <2> DEFINE d == src[k] - At(x[1], k)
             e == At(x[2], KeyOf(x[2], k)) + d
  <2>3. d \in Int /\ e \in Int BY <2>1, <2>2
  <2>4. RecordMonotonicSum(x, k, src[k]) = <<SetEntry(x[1], k, src[k]), SetEntry(x[2], k, e)>>
    BY DEF RecordMonotonicSum, Aggregate
  <2>5. ASSUME x[2] \in Counts, At(x[1], k) <= src[k] PROVE e \in Nat
    <3>1. At(x[2], KeyOf(x[2], k)) \in Nat BY <2>5, CountsFacts
    <3>2. d \in Nat BY <2>1, <2>2, <2>5
    <3>3. QED BY <3>1, <3>2
  <2> HIDE DEF d, e
  <2>6. SetEntry(x[1], k, src[k]) \in Maps /\ SetEntry(x[2], k, e) \in Maps
    BY <2>1, <2>3, EntryMap
  <2>7. ASSUME x[2] \in Counts, At(x[1], k) <= src[k] PROVE SetEntry(x[2], k, e) \in Counts
    BY <2>1, <2>5, <2>7, CountsEntry
  <2>8. QED BY <2>4, <2>6, <2>7
<1>3. start \in X /\ start[2] \in Counts
  <2>1. Counts \subseteq Maps BY CountsFacts
  <2>2. QED BY <2>1 DEF Bounded
<1>4. <<{}, start>> \in T BY <1>3
<1>5. ASSUME NEW seen \in SUBSET DOMAIN src, NEW x \in X, NEW l \in (DOMAIN src) \ seen,
             <<seen, x>> \in T
      PROVE  <<seen \union {l}, RecordMonotonicSum(x, l, src[l])>> \in T
  <2> DEFINE y == RecordMonotonicSum(x, l, src[l])
  <2>1. x[2] \in Counts /\ \A a \in Attributes : At(x[1], a) <= Top(seen, a) BY <1>5
  <2>2. l \in Attributes /\ l \in Keys /\ src[l] \in Nat /\ before[l] \in Nat /\ src[l] >= before[l]
    BY <1>1
  <2>3. x[1] \in Maps /\ src[l] \in Int BY <2>2
  <2>4. At(x[1], l) \in Int /\ At(x[1], l) <= before[l] BY <2>1, <2>2, <2>3, MapFacts
  <2>5. At(x[1], l) <= src[l] BY <2>2, <2>4
  <2>6. y \in X /\ y[1] = SetEntry(x[1], l, src[l]) /\ y[2] \in Counts BY <1>2, <2>1, <2>5
  <2> HIDE DEF y
  <2>7. EntryIs(y[1], x[1], KeyOf(x[1], l), src[l])
    <3>1. EntryIs(SetEntry(x[1], l, src[l]), x[1], KeyOf(x[1], l), src[l]) BY <2>2, <2>3, EntryMap
    <3>2. QED BY <2>6, <3>1
  <2>8. KeyOf(x[1], l) = l \/ (KeyOf(x[1], l) = Overflow /\ At(x[1], l) = 0) BY DEF KeyOf, At
  <2>9. ASSUME NEW a \in Attributes PROVE At(y[1], a) <= Top(seen \union {l}, a)
    <3>1. a # Overflow OBVIOUS
    <3>2. CASE a = l
      <4>1. Top(seen \union {l}, a) = src[l] BY <3>2
      <4>2. At(y[1], a) = src[l] \/ At(y[1], a) = At(x[1], l) BY <2>7, <3>2 DEF EntryIs
      <4>3. QED BY <2>2, <2>5, <4>1, <4>2
    <3>3. CASE a # l
      <4>1. Top(seen \union {l}, a) = Top(seen, a) BY <3>3
      <4>2. At(y[1], a) = At(x[1], a) BY <2>7, <2>8, <3>1, <3>3 DEF EntryIs
      <4>3. QED BY <2>1, <4>1, <4>2
    <3>4. QED BY <3>2, <3>3
  <2>10. seen \union {l} \in SUBSET DOMAIN src OBVIOUS
  <2> HIDE DEF Top
  <2>11. <<seen \union {l}, y>> \in T BY <2>6, <2>9, <2>10
  <2>12. QED BY <2>11 DEF y
<1>6. \A x \in X : \A l \in DOMAIN src : RecordMonotonicSum(x, l, src[l]) \in X BY <1>2
<1>7. <<DOMAIN src, r>> \in T
  <2> HIDE DEF T, X
  <2>1. QED BY <1>1, <1>3, <1>4, <1>5, <1>6, SumsInduction
<1>8. QED BY <1>7

-----------------------------------------------------------------------------
(* The inductive invariant.                                                *)

\* Fewer attribute sets fit as well.
LEMMA FitMonotone ==
  ASSUME NEW P, NEW Q, P \subseteq Q, Fit(Q)
  PROVE  Fit(P) /\ Fitting(P) \subseteq Fitting(Q) /\ Seq(Fitting(P)) \subseteq Seq(Fitting(Q))
<1>1. IsFiniteSet(Q) /\ Cardinality(Q) <= Limit BY FS_Subset DEF Fit
<1>2. IsFiniteSet(P) /\ Cardinality(P) <= Cardinality(Q) BY <1>1, FS_Subset
<1>3. Cardinality(P) \in Nat /\ Cardinality(Q) \in Nat BY <1>1, <1>2, FS_CardinalityType
<1>4. Fit(P) BY <1>1, <1>2, <1>3 DEF Fit
<1>5. Fitting(P) \subseteq Fitting(Q) BY DEF Fitting
<1>6. QED BY <1>4, <1>5

\* The condition of ReportedOnce, in terms of the attribute sets in use.
LEMMA FitsIsFit == Fits <=> Fit(InUse(recorded))
BY DEF Fits, Fit, InUse

\* What a collector has been told of and will be told of a series adds up.
AddsUp(c, a) == recorded[a] - skipped[c][a] = Pending(c, a) + reported[c][a]

\* ReportedOnce for one collector and one series at a time ...
LEMMA OnceIsAddsUp ==
  ReportedOnce <=> (Fit(InUse(recorded)) /\ ~overlap =>
                      \A c \in collectors, a \in Attributes : AddsUp(c, a))
BY FitsIsFit DEF ReportedOnce, AddsUp

\* ... and in the next state.
LEMMA OnceNext ==
  ReportedOnce' <=> (Fit(InUse(recorded')) /\ ~overlap' =>
                       \A c \in collectors', a \in Attributes : AddsUp(c, a)')
<1>1. Fits' <=> Fit(InUse(recorded')) BY DEF Fits, Fit, InUse
<1>2. QED BY <1>1 DEF ReportedOnce, AddsUp

\* What is stashed for a collector is a list of maps.
LEMMA StashType ==
  ASSUME SType, NEW c
  PROVE  StashOf(c) \in Seq(Stashed) /\ StashOf(c) \in Seq(Maps)
<1>1. Seq(Stashed) \subseteq Seq(Maps)
  <2>1. Stashed \subseteq Maps BY DEF Stashed
  <2>2. QED BY <2>1
<1>2. StashOf(c) \in Seq(Stashed) BY DEF StashOf, SType
<1>3. QED BY <1>1, <1>2

\* The numbers that have to add up.
LEMMA PendingType ==
  ASSUME SType, NEW c, NEW k
  PROVE  At(hashmap, k) \in Int /\ At(delta, k) \in Int /\ SumOf(StashOf(c), k) \in Int
<1>1. hashmap \in Maps /\ delta \in Maps BY DEF SType, Bounded
<1>2. At(hashmap, k) \in Int /\ At(delta, k) \in Int BY <1>1, MapFacts
<1>3. SumOf(StashOf(c), k) \in Int BY StashType, SumType
<1>4. QED BY <1>2, <1>3

\* The invariant holds at first.
LEMMA SInvInit ==
  ASSUME InitAny
  PROVE  SInv
<1> USE DEF InitAny, Init
<1>1. EmptyMap \in Bounded /\ (\A P : EmptyMap \in Fitting(P)) /\ \A k : At(EmptyMap, k) = 0
  BY EmptyMapFacts
<1>2. \A c : StashOf(c) = <<>> BY DEF StashOf
<1>3. SType
  <2>1. DOMAIN unreported = {} /\ unreported \in [DOMAIN unreported -> Seq(Stashed)] OBVIOUS
  <2>2. lastReported \in [Collectors -> Bounded] BY <1>1
  <2>3. recorded \in [Attributes -> Nat] /\ observed \in [Attributes -> Nat] OBVIOUS
  <2>4. /\ reported \in [Collectors -> [Keys -> Int]]
        /\ skipped \in [Collectors -> [Attributes -> Int]] /\ overlap \in BOOLEAN
    <3>1. reported \in [Collectors -> [Keys -> Int]] OBVIOUS
    <3>2. skipped \in [Collectors -> [Attributes -> Int]] OBVIOUS
    <3>3. overlap \in BOOLEAN OBVIOUS
    <3>4. QED BY <3>1, <3>2, <3>3
  <2>5. observes \in 0 .. MaxObserves OBVIOUS
  <2>6. hashmap \in Bounded /\ delta \in Bounded /\ lastObserved \in Bounded /\ round \in Bounded
    BY <1>1
  <2>7. /\ collectors \subseteq started /\ started \subseteq Collectors
        /\ listed \subseteq collectors /\ observer \in started \union {Nobody}
        /\ collecting \in Collectors \union {Nobody} /\ step \in {"idle", "take", "build"}
        /\ instrument \in {"sync", "monotonic", "updown"}
    OBVIOUS
  <2>8. QED BY ONLY <2>1, <2>2, <2>3, <2>4, <2>5, <2>6, <2>7 DEF SType
<1>4. CollectInv BY DEF CollectInv
<1>5. InstrumentInv BY DEF InstrumentInv, InUse
<1>6. FitsInv
  <2>1. \A P : <<>> \in Seq(Fitting(P)) OBVIOUS
  <2>2. \A c \in Collectors : lastReported[c] = EmptyMap OBVIOUS
  <2>3. QED BY <1>1, <1>2, <2>1, <2>2 DEF FitsInv
<1>7. BaselineInv BY <1>1 DEF BaselineInv
<1>8. RoundInv
  <2>1. \A a : a \notin DOMAIN round BY EmptyMapFacts
  <2>2. QED BY <1>1, <2>1 DEF RoundInv
<1>9. ToldInv BY <1>1 DEF ToldInv
<1>10. ASSUME NEW c \in collectors, NEW a \in Attributes PROVE AddsUp(c, a)
  <2>1. Pending(c, a) = 0 BY <1>1, <1>2, SumEmpty DEF Pending
  <2>2. recorded[a] = 0 /\ skipped[c][a] = 0 /\ reported[c][a] = 0 BY DEF Keys
  <2>3. QED BY <2>1, <2>2 DEF AddsUp
<1>11. QED BY <1>3, <1>4, <1>5, <1>6, <1>7, <1>8, <1>9, <1>10, OnceIsAddsUp DEF SInv

\* What is stashed and what was reported last stay fitting as more is recorded.
LEMMA StashKept ==
  ASSUME FitsInv, UNCHANGED <<lastReported, unreported>>,
         InUse(recorded) \subseteq InUse(recorded'), Fit(InUse(recorded'))
  PROVE  /\ Fit(InUse(recorded)) /\ Fitting(InUse(recorded)) \subseteq Fitting(InUse(recorded'))
         /\ \A c \in Collectors : /\ lastReported'[c] \in Fitting(InUse(recorded'))
                                  /\ StashOf(c)' \in Seq(Fitting(InUse(recorded')))
<1> DEFINE P == InUse(recorded)
           Q == InUse(recorded')
<1>1. Fit(P) /\ Fitting(P) \subseteq Fitting(Q) /\ Seq(Fitting(P)) \subseteq Seq(Fitting(Q))
  BY FitMonotone
<1>2. \A c \in Collectors : StashOf(c)' = StashOf(c) BY DEF StashOf
<1>3. \A c \in Collectors : lastReported[c] \in Fitting(P) /\ StashOf(c) \in Seq(Fitting(P))
  BY <1>1 DEF FitsInv
<1> HIDE DEF P, Q
<1>4. \A c \in Collectors : lastReported'[c] \in Fitting(Q) /\ StashOf(c)' \in Seq(Fitting(Q))
  BY <1>1, <1>2, <1>3
<1>5. QED BY <1>1, <1>4 DEF P, Q

\* Steps that leave the maps and the measurements alone.
mapVars == <<hashmap, delta, unreported, lastReported, lastObserved, round, recorded, observed,
             reported, instrument>>

\* They keep what is said of the maps ...
LEMMA MapsKept ==
  ASSUME SInv, UNCHANGED mapVars, overlap \in BOOLEAN, overlap' \in BOOLEAN, overlap => overlap'
  PROVE  InstrumentInv' /\ FitsInv' /\ BaselineInv' /\ RoundInv'
<1> USE DEF mapVars
<1>1. \A c : StashOf(c)' = StashOf(c) BY DEF StashOf
<1>2. InstrumentInv' BY DEF SInv, InstrumentInv
<1>3. FitsInv'
  <2>1. FitsInv BY DEF SInv
  <2>2. QED BY <1>1, <2>1 DEF FitsInv
<1>4. BaselineInv' BY DEF SInv, BaselineInv
<1>5. RoundInv' BY DEF SInv, RoundInv
<1>6. QED BY <1>2, <1>3, <1>4, <1>5

\* ... and what has been reported.
LEMMA AddsUpKept ==
  ASSUME NEW c, NEW a, AddsUp(c, a), UNCHANGED mapVars, skipped'[c] = skipped[c]
  PROVE  AddsUp(c, a)'
<1>1. StashOf(c)' = StashOf(c) BY DEF StashOf, mapVars
<1>2. Pending(c, a)' = Pending(c, a) BY <1>1 DEF Pending, mapVars
<1>3. QED BY <1>2 DEF AddsUp, mapVars

\* AddMetricReader starts the reader.
LEMMA StartReaderKeeps ==
  ASSUME SInv, NEW c \in Collectors, StartReader(c), UNCHANGED <<instrument, asyncVars>>
  PROVE  SInv'
<1> USE DEF StartReader, asyncVars, collectVars
<1>1. UNCHANGED mapVars BY DEF mapVars
<1>2. SType /\ overlap \in BOOLEAN BY DEF SInv, SType
<1>3. SType' BY <1>2 DEF SType
<1>4. CollectInv' BY DEF SInv, CollectInv
<1>5. InstrumentInv' /\ FitsInv' /\ BaselineInv' /\ RoundInv' BY <1>1, <1>2, MapsKept
<1>6. ToldInv' BY DEF SInv, ToldInv
<1>7. ReportedOnce'
  <2>1. ASSUME Fit(InUse(recorded)) /\ ~overlap, NEW d \in collectors, NEW a \in Attributes
        PROVE  AddsUp(d, a)'
    BY <1>1, <2>1, OnceIsAddsUp, AddsUpKept DEF SInv
  <2>2. QED BY <2>1, OnceNext
<1>8. QED BY <1>3, <1>4, <1>5, <1>6, <1>7 DEF SInv

\* AddMetricReader adds the collector: nothing is stashed or reported for it yet.
LEMMA PushCollectorKeeps ==
  ASSUME SInv, NEW c \in Collectors, PushCollector(c), UNCHANGED <<instrument, asyncVars>>
  PROVE  SInv'
<1> USE DEF PushCollector, asyncVars, collectVars
<1>1. UNCHANGED mapVars BY DEF mapVars
<1>2. SType /\ CollectInv /\ ToldInv BY DEF SInv
<1>3. overlap \in BOOLEAN /\ overlap' \in BOOLEAN /\ (overlap => overlap') BY <1>2 DEF SType
<1> DEFINE old == [a \in Attributes |-> recorded[a] - At(hashmap, a)]
<1>4. old \in [Attributes -> Int]
  <2>1. \A a \in Attributes : recorded[a] \in Int BY <1>2 DEF SType
  <2>2. \A a \in Attributes : At(hashmap, a) \in Int BY <1>2, PendingType
  <2>3. QED BY <2>1, <2>2
<1>5. skipped' = [skipped EXCEPT ![c] = old] OBVIOUS
<1>6. SType'
  <2> HIDE DEF old
  <2>1. skipped' \in [Collectors -> [Attributes -> Int]] BY <1>2, <1>4, <1>5 DEF SType
  <2>2. collectors \subseteq collectors' /\ collectors' \subseteq started' BY <1>2 DEF SType
  <2>3. QED BY <1>2, <1>3, <2>1, <2>2 DEF SType
<1>7. CollectInv' BY <1>2, <1>3 DEF CollectInv
<1>8. InstrumentInv' /\ FitsInv' /\ BaselineInv' /\ RoundInv' BY <1>1, <1>3, MapsKept
<1>9. ToldInv' BY <1>2, <1>3 DEF ToldInv
<1>10. ASSUME Fit(InUse(recorded)), ~overlap', NEW d \in collectors', NEW a \in Attributes
       PROVE  AddsUp(d, a)'
  <2>1. CASE d # c
    <3>1. d \in collectors /\ ~overlap BY <1>3, <1>10, <2>1
    <3>2. AddsUp(d, a) BY <1>10, <3>1, OnceIsAddsUp DEF SInv
    <3>3. d \in Collectors BY <1>2, <3>1 DEF SType
    <3>4. skipped'[d] = skipped[d] BY <1>2, <1>5, <2>1, <3>3 DEF SType
    <3>5. QED BY <1>1, <3>2, <3>4, AddsUpKept
  <2>2. CASE d = c
    <3>1. collecting = Nobody /\ ~overlap BY <1>3, <1>10
    <3>2. At(delta, a) = 0 BY <1>2, <3>1, EmptyMapFacts DEF CollectInv
    <3>3. StashOf(c) = <<>> BY <1>2 DEF StashOf, SType
    <3>4. SumOf(StashOf(c), a) = 0 BY <3>3, SumEmpty
    <3>5. reported[c][a] = 0 BY <1>2, <3>1 DEF ToldInv, Keys
    <3>6. At(hashmap, a) \in Int /\ recorded[a] \in Int
      <4>1. recorded[a] \in Int BY <1>2 DEF SType
      <4>2. QED BY <1>2, <4>1, PendingType
    <3>7. skipped'[c][a] = recorded[a] - At(hashmap, a) BY <1>2, <1>5 DEF SType
    <3>8. StashOf(c)' = StashOf(c) BY DEF StashOf
    <3>9. Pending(c, a)' = At(hashmap, a) + 0 + 0 BY <3>2, <3>4, <3>8 DEF Pending
    <3>10. QED BY <2>2, <3>5, <3>6, <3>7, <3>9 DEF AddsUp
  <2>3. QED BY <2>1, <2>2
<1>11. ReportedOnce' BY <1>10, OnceNext
<1>12. QED BY <1>6, <1>7, <1>8, <1>9, <1>11 DEF SInv

\* Meter::Collect, of an observable instrument or not.
LEMMA MeterCollectKeeps ==
  ASSUME SInv, NEW c \in Collectors, MeterCollect(c),
         UNCHANGED <<instrument, lastObserved, round, observed, observes>>,
         observer' = Nobody, round # EmptyMap => instrument = "updown"
  PROVE  SInv'
<1> USE DEF MeterCollect
<1>1. UNCHANGED mapVars BY DEF mapVars
<1>2. SType /\ CollectInv /\ ToldInv BY DEF SInv
<1>3. overlap \in BOOLEAN /\ overlap' \in BOOLEAN /\ (overlap => overlap') BY <1>2 DEF SType
<1>4. SType' BY <1>2, <1>3 DEF SType
<1>5. CollectInv' BY <1>2, <1>3 DEF CollectInv
<1>6. InstrumentInv' /\ FitsInv' /\ BaselineInv' /\ RoundInv' BY <1>1, <1>3, MapsKept
<1>7. ToldInv' BY <1>2, <1>3 DEF ToldInv
<1>8. ASSUME Fit(InUse(recorded)), ~overlap', NEW d \in collectors, NEW a \in Attributes
      PROVE  AddsUp(d, a)'
  <2>1. AddsUp(d, a) BY <1>3, <1>8, OnceIsAddsUp DEF SInv
  <2>2. QED BY <1>1, <2>1, AddsUpKept
<1>9. ReportedOnce' BY <1>8, OnceNext
<1>10. QED BY <1>4, <1>5, <1>6, <1>7, <1>9 DEF SInv

\* A measurement of a synchronous instrument.
LEMMA RecordKeeps ==
  ASSUME SInv, instrument = "sync", NEW a \in Attributes, Record(a),
         UNCHANGED <<instrument, asyncVars>>
  PROVE  SInv'
<1> USE DEF asyncVars, collectVars
<1>1. SType /\ CollectInv /\ ToldInv /\ FitsInv BY DEF SInv
<1> DEFINE v == At(hashmap, KeyOf(hashmap, a)) + 1
           P == InUse(recorded)
           Q == InUse(recorded')
<1>2. /\ hashmap' = SetEntry(hashmap, a, v) /\ recorded' = [recorded EXCEPT ![a] = @ + 1]
      /\ UNCHANGED <<started, collectors, collecting, step, listed, delta, unreported,
                     lastReported, reported, skipped, overlap>>
  BY DEF Record, Aggregate
<1>3. /\ recorded \in [Attributes -> Nat] /\ hashmap \in Bounded /\ hashmap \in Maps
      /\ a \in Keys
  BY <1>1 DEF SType, Bounded, Keys
<1>4. v \in Int
  <2>1. At(hashmap, KeyOf(hashmap, a)) \in Int BY <1>3, MapFacts
  <2>2. QED BY <2>1
<1>5. P \subseteq Q /\ a \in Q BY <1>2, <1>3 DEF InUse
<1> HIDE DEF v
<1>6. SType'
  <2>1. hashmap' \in Bounded BY <1>2, <1>3, <1>4, EntryBounded
  <2>2. recorded' \in [Attributes -> Nat] BY <1>2, <1>3
  <2>3. QED BY <1>1, <1>2, <2>1, <2>2 DEF SType
<1>7. CollectInv' BY <1>1, <1>2 DEF CollectInv
<1>8. InstrumentInv' /\ BaselineInv' /\ RoundInv' BY DEF InstrumentInv, BaselineInv, RoundInv
<1>9. ASSUME Fit(Q)
      PROVE  /\ Fit(P) /\ Fitting(P) \subseteq Fitting(Q) /\ hashmap \in Fitting(Q)
             /\ \A c \in Collectors : /\ lastReported'[c] \in Fitting(Q)
                                      /\ StashOf(c)' \in Seq(Fitting(Q))
  <2>1. /\ Fit(P) /\ Fitting(P) \subseteq Fitting(Q)
        /\ \A c \in Collectors : /\ lastReported'[c] \in Fitting(Q)
                                 /\ StashOf(c)' \in Seq(Fitting(Q))
    BY <1>1, <1>2, <1>5, <1>9, StashKept
  <2>2. hashmap \in Fitting(P) BY <1>1, <2>1 DEF FitsInv
  <2>3. QED BY <2>1, <2>2
<1>10. FitsInv'
  <2>1. SUFFICES ASSUME Fit(Q)
                 PROVE  /\ hashmap' \in Fitting(Q) /\ delta' \in Fitting(Q)
                        /\ lastObserved' \in Fitting(Q)
                        /\ \A c \in Collectors : /\ lastReported'[c] \in Fitting(Q)
                                                 /\ StashOf(c)' \in Seq(Fitting(Q))
    BY DEF FitsInv
  <2>2. delta \in Fitting(P) /\ lastObserved \in Fitting(P) BY <1>1, <1>9, <2>1 DEF FitsInv
  <2> HIDE DEF P, Q
  <2>3. hashmap' \in Fitting(Q) BY <1>2, <1>4, <1>5, <1>9, <2>1, FittingEntry
  <2>4. QED BY <1>2, <1>9, <2>1, <2>2, <2>3
<1>11. ToldInv' BY <1>1, <1>2, <1>9 DEF ToldInv
<1>12. ASSUME Fit(Q), ~overlap, NEW d \in collectors, NEW b \in Attributes PROVE AddsUp(d, b)'
  <2>1. AddsUp(d, b) BY <1>9, <1>12, OnceIsAddsUp DEF SInv
  <2>2. KeyOf(hashmap, a) = a
    <3> HIDE DEF P, Q
    <3>1. QED BY <1>5, <1>9, <1>12, EntryFits
  <2>3. EntryIs(hashmap', hashmap, a, v)
    <3>1. EntryIs(SetEntry(hashmap, a, v), hashmap, KeyOf(hashmap, a), v) BY <1>3, <1>4, EntryMap
    <3>2. QED BY <1>2, <2>2, <3>1
  <2>4. /\ At(hashmap, b) \in Int /\ At(delta, b) \in Int /\ SumOf(StashOf(d), b) \in Int
    BY <1>1, PendingType
  <2>5. d \in Collectors /\ skipped[d][b] \in Int /\ reported[d][b] \in Int /\ recorded[b] \in Int
    BY <1>1 DEF SType, Keys
  <2>6. recorded'[b] = recorded[b] + (IF a = b THEN 1 ELSE 0) BY <1>2, <1>3
  <2>7. At(hashmap', b) = At(hashmap, b) + (IF a = b THEN 1 ELSE 0)
    BY <2>2, <2>3, <2>4 DEF EntryIs, v
  <2>8. StashOf(d)' = StashOf(d) BY <1>2 DEF StashOf
  <2>9. Pending(d, b)' = At(hashmap', b) + At(delta, b) + SumOf(StashOf(d), b)
    BY <1>2, <2>8 DEF Pending
  <2>10. QED BY <1>2, <2>1, <2>4, <2>5, <2>6, <2>7, <2>9 DEF AddsUp, Pending
<1>13. ReportedOnce' BY <1>2, <1>12, OnceNext
<1>14. QED BY <1>6, <1>7, <1>8, <1>10, <1>11, <1>13 DEF SInv

\* The delta map is taken.
LEMMA TakeDeltaKeeps ==
  ASSUME SInv, instrument # "updown", TakeDelta, UNCHANGED <<instrument, asyncVars>>
  PROVE  SInv'
<1> USE DEF asyncVars, collectVars
<1>1. SType /\ CollectInv /\ ToldInv /\ FitsInv BY DEF SInv
<1>2. /\ step = "take" /\ step' = "build" /\ delta' = hashmap /\ hashmap' = EmptyMap
      /\ UNCHANGED <<started, collectors, collecting, listed, unreported,
                     lastReported, recorded, reported, skipped, overlap>>
  BY DEF TakeDelta
<1>3. delta = EmptyMap /\ collecting # Nobody BY <1>1, <1>2 DEF CollectInv
<1>4. \A c : StashOf(c)' = StashOf(c) BY <1>2 DEF StashOf
<1>5. SType' BY <1>1, <1>2, EmptyMapFacts DEF SType
<1>6. CollectInv' BY <1>1, <1>2, <1>3 DEF CollectInv
<1>7. InstrumentInv' BY <1>2 DEF SInv, InstrumentInv
<1>8. FitsInv' BY <1>1, <1>2, <1>4, EmptyMapFacts DEF FitsInv
<1>9. BaselineInv' BY <1>2 DEF SInv, BaselineInv
<1>10. RoundInv' BY <1>2 DEF SInv, RoundInv
<1>11. ToldInv' BY <1>1, <1>2 DEF ToldInv
<1>12. ASSUME Fit(InUse(recorded)), ~overlap, NEW d \in collectors, NEW b \in Attributes
       PROVE  AddsUp(d, b)'
  <2>1. AddsUp(d, b) BY <1>12, OnceIsAddsUp DEF SInv
  <2>2. At(EmptyMap, b) = 0 BY EmptyMapFacts
  <2>3. At(hashmap, b) \in Int /\ SumOf(StashOf(d), b) \in Int BY <1>1, PendingType
  <2>4. Pending(d, b)' = 0 + At(hashmap, b) + SumOf(StashOf(d), b)
    BY <1>2, <1>4, <2>2 DEF Pending
  <2>5. Pending(d, b) = At(hashmap, b) + 0 + SumOf(StashOf(d), b) BY <1>3, <2>2 DEF Pending
  <2>6. Pending(d, b)' = Pending(d, b) BY <2>3, <2>4, <2>5
  <2>7. QED BY <1>2, <2>1, <2>6 DEF AddsUp
<1>13. ReportedOnce' BY <1>2, <1>12, OnceNext
<1>14. QED BY <1>5, <1>6, <1>7, <1>8, <1>9, <1>10, <1>11, <1>13 DEF SInv

-----------------------------------------------------------------------------
(* buildMetrics.                                                           *)

\* What an exporter knows are numbers.
LEMMA ToldType ==
  ASSUME SType, NEW c \in Collectors, NEW m \in Maps
  PROVE  Told(c, m) \in [Keys -> Int]
<1>1. \A k \in Keys : reported[c][k] \in Int BY DEF SType
<1>2. \A k \in Keys : At(m, k) \in Int BY MapFacts
<1>3. \A k \in Keys : (IF c \in Delta THEN reported[c][k] + At(m, k) ELSE At(m, k)) \in Int
  BY <1>1, <1>2
<1>4. QED BY <1>3 DEF Told

\* What is stashed for d with the delta.
StashedFor(d) == IF d \in DOMAIN StashDelta THEN StashDelta[d] ELSE <<>>

\* The stash with the delta added.
LEMMA StashDeltaFacts ==
  ASSUME SType
  PROVE  /\ DOMAIN StashDelta \subseteq collectors
         /\ StashDelta \in [DOMAIN StashDelta -> Seq(Stashed)]
         /\ \A d : StashedFor(d) = IF DOMAIN delta # {} /\ d \in listed
                                   THEN Append(StashOf(d), delta) ELSE StashOf(d)
<1>1. delta \in Maps BY DEF SType, Bounded
<1>2. \A d : StashOf(d) \in Seq(Stashed) BY StashType
<1>3. listed \subseteq collectors /\ DOMAIN unreported \subseteq collectors
      /\ unreported \in [DOMAIN unreported -> Seq(Stashed)]
  BY DEF SType
<1>4. CASE DOMAIN delta = {}
  <2>1. StashDelta = unreported BY <1>4 DEF StashDelta
  <2>2. \A d : StashedFor(d) = StashOf(d) BY <2>1 DEF StashedFor, StashOf
  <2>3. QED BY <1>3, <1>4, <2>1, <2>2
<1>5. CASE DOMAIN delta # {}
  <2> DEFINE D == listed \union DOMAIN unreported
             V(d) == IF d \in listed THEN Append(StashOf(d), delta) ELSE StashOf(d)
  <2>1. StashDelta = [d \in D |-> V(d)] BY <1>5 DEF StashDelta
  <2>2. delta \in Stashed BY <1>1, <1>5 DEF Stashed
  <2>3. \A d : V(d) \in Seq(Stashed)
    <3>1. \A d : Append(StashOf(d), delta) \in Seq(Stashed) BY <1>2, <2>2
    <3>2. QED BY <1>2, <3>1
  <2>4. \A d : d \notin D => V(d) = <<>> BY DEF StashOf
  <2>5. \A d : StashedFor(d) = V(d)
    <3> HIDE DEF V, D
    <3>1. QED BY <2>1, <2>4 DEF StashedFor
  <2>6. DOMAIN StashDelta = D /\ D \subseteq collectors BY <1>3, <2>1
  <2>7. StashDelta \in [DOMAIN StashDelta -> Seq(Stashed)]
    <3> HIDE DEF V, D
    <3>1. QED BY <2>1, <2>3, <2>6
  <2>8. QED BY <1>5, <2>5, <2>6, <2>7
<1>6. QED BY <1>4, <1>5

\* While the attribute sets fit, the delta is added for each collector of the list.
LEMMA StashDeltaFits ==
  ASSUME SType, FitsInv, Fit(InUse(recorded)), NEW d \in Collectors
  PROVE  /\ StashedFor(d) \in Seq(Fitting(InUse(recorded))) /\ StashedFor(d) \in Seq(Maps)
         /\ \A k : d \in listed => SumOf(StashedFor(d), k) = SumOf(StashOf(d), k) + At(delta, k)
<1> DEFINE P == InUse(recorded)
<1>1. StashOf(d) \in Seq(Fitting(P)) /\ delta \in Fitting(P) BY DEF FitsInv
<1> HIDE DEF P
<1>2. /\ StashedFor(d) = IF DOMAIN delta # {} /\ d \in listed
                         THEN Append(StashOf(d), delta) ELSE StashOf(d)
  BY StashDeltaFacts
<1>3. StashedFor(d) \in Seq(Fitting(P)) BY <1>1, <1>2
<1>4. StashOf(d) \in Seq(Maps) /\ delta \in Maps BY StashType DEF SType, Bounded
<1>5. Append(StashOf(d), delta) \in Seq(Maps) BY <1>4
<1>6. ASSUME d \in listed, NEW k
      PROVE  SumOf(StashedFor(d), k) = SumOf(StashOf(d), k) + At(delta, k)
  <2>1. CASE DOMAIN delta # {}
    <3>1. StashedFor(d) = Append(StashOf(d), delta) BY <1>2, <1>6, <2>1
    <3>2. QED BY <1>4, <3>1, SumAppend
  <2>2. CASE DOMAIN delta = {}
    <3>1. StashedFor(d) = StashOf(d) /\ At(delta, k) = 0 BY <1>2, <2>2 DEF At
    <3>2. SumOf(StashOf(d), k) \in Int BY <1>4, SumType
    <3>3. QED BY <3>1, <3>2
  <2>3. QED BY <2>1, <2>2
<1>7. QED BY <1>2, <1>3, <1>4, <1>5, <1>6 DEF P

\* The end of a collection.
LEMMA ReturnKeeps ==
  ASSUME SInv, step = "build", Return, UNCHANGED <<instrument, asyncVars>>,
         reported' \in [Collectors -> [Keys -> Int]], lastReported' \in [Collectors -> Bounded],
         DOMAIN unreported' \subseteq collectors,
         unreported' \in [DOMAIN unreported' -> Seq(Stashed)]
  PROVE  SType' /\ CollectInv' /\ InstrumentInv' /\ BaselineInv' /\ RoundInv'
<1> USE DEF Return, asyncVars
<1>1. SType BY DEF SInv
<1>2. SType' BY <1>1, EmptyMapFacts DEF SType
<1>3. CollectInv' BY DEF SInv, CollectInv
<1>4. InstrumentInv' BY DEF SInv, InstrumentInv
<1>5. BaselineInv' BY DEF SInv, BaselineInv
<1>6. RoundInv' BY DEF SInv, RoundInv
<1>7. QED BY <1>2, <1>3, <1>4, <1>5, <1>6

\* The single delta collector is told of the delta.
LEMMA BuildFastKeeps ==
  ASSUME SInv, BuildFast, UNCHANGED <<instrument, asyncVars>>
  PROVE  SInv'
<1>1. SType /\ CollectInv /\ ToldInv /\ FitsInv BY DEF SInv
<1> DEFINE c == collecting
<1>2. /\ step = "build" /\ Cardinality(listed) = 1 /\ c \in Delta
      /\ reported' = [reported EXCEPT ![c] = Told(c, delta)]
      /\ Return /\ UNCHANGED <<unreported, lastReported>>
  BY DEF BuildFast, FastPath
<1>3. c \in Collectors /\ delta \in Maps BY <1>1, <1>2 DEF SType, Bounded
<1>4. /\ delta' = EmptyMap
      /\ UNCHANGED <<hashmap, started, collectors, recorded, skipped, overlap>>
  BY <1>2 DEF Return
<1>5. \A d : StashOf(d)' = StashOf(d) BY <1>2 DEF StashOf
<1>6. reported' \in [Collectors -> [Keys -> Int]]
  <2>1. Told(c, delta) \in [Keys -> Int] BY <1>1, <1>3, ToldType
  <2>2. QED BY <1>1, <1>2, <2>1 DEF SType
<1>7. SType' /\ CollectInv' /\ InstrumentInv' /\ BaselineInv' /\ RoundInv'
  <2>1. /\ lastReported' \in [Collectors -> Bounded] /\ DOMAIN unreported' \subseteq collectors
        /\ unreported' \in [DOMAIN unreported' -> Seq(Stashed)]
    BY <1>1, <1>2 DEF SType
  <2>2. QED BY <1>2, <1>6, <2>1, ReturnKeeps
<1>8. FitsInv' BY <1>1, <1>2, <1>4, <1>5, EmptyMapFacts DEF FitsInv, asyncVars
<1>9. \A d \in Collectors : d # c => reported'[d] = reported[d] BY <1>1, <1>2 DEF SType
<1>10. ToldInv'
  <2>1. SUFFICES ASSUME NEW d \in Collectors, NEW k \in Keys
                 PROVE  /\ ~overlap /\ d \notin collectors => reported'[d][k] = 0
                        /\ Fit(InUse(recorded)) /\ d \notin Delta =>
                             reported'[d][k] = At(lastReported[d], k)
    BY <1>2, <1>4 DEF ToldInv
  <2>2. CASE d # c BY <1>1, <1>9, <2>2 DEF ToldInv
  <2>3. CASE d = c BY <1>1, <1>2, <2>3 DEF CollectInv
  <2>4. QED BY <2>2, <2>3
<1>11. ASSUME Fit(InUse(recorded)), ~overlap, NEW d \in collectors, NEW a \in Attributes
       PROVE  AddsUp(d, a)'
  <2>1. AddsUp(d, a) BY <1>11, OnceIsAddsUp DEF SInv
  <2>2. d = c
    <3>1. listed = collectors /\ c \in collectors BY <1>1, <1>2, <1>11 DEF CollectInv
    <3>2. PICK x : listed = {x}
      <4>1. IsFiniteSet(listed) BY <1>1, FS_Subset DEF SType
      <4>2. QED BY <1>2, <4>1, FS_Singleton
    <3>3. QED BY <3>1, <3>2
  <2>3. a \in Keys BY DEF Keys
  <2>4. reported'[c][a] = reported[c][a] + At(delta, a)
    BY <1>1, <1>2, <1>3, <2>3 DEF SType, Told
  <2>5. reported[c][a] \in Int BY <1>1, <1>3, <2>3 DEF SType
  <2>6. At(hashmap, a) \in Int /\ At(delta, a) \in Int /\ SumOf(StashOf(d), a) \in Int
    BY <1>1, PendingType
  <2>7. Pending(d, a)' = At(hashmap, a) + 0 + SumOf(StashOf(d), a)
    BY <1>4, <1>5, EmptyMapFacts DEF Pending
  <2>8. Pending(d, a) = At(hashmap, a) + At(delta, a) + SumOf(StashOf(d), a) BY DEF Pending
  <2>9. Pending(d, a)' + reported'[d][a] = Pending(d, a) + reported[d][a]
    BY <2>2, <2>4, <2>5, <2>6, <2>7, <2>8
  <2>10. QED BY <1>4, <2>1, <2>9 DEF AddsUp
<1>12. ReportedOnce' BY <1>4, <1>11, OnceNext
<1>13. QED BY <1>7, <1>8, <1>10, <1>12 DEF SInv

\* Nothing has ever been stashed for the collector.
LEMMA BuildNothingKeeps ==
  ASSUME SInv, BuildNothing, UNCHANGED <<instrument, asyncVars>>
  PROVE  SInv'
<1>1. SType /\ CollectInv /\ ToldInv /\ FitsInv BY DEF SInv
<1>2. /\ step = "build" /\ unreported' = StashDelta /\ Return
      /\ UNCHANGED <<lastReported, reported>>
  BY DEF BuildNothing
<1>3. /\ delta' = EmptyMap
      /\ UNCHANGED <<hashmap, started, collectors, recorded, skipped, overlap>>
  BY <1>2 DEF Return
<1>4. \A d : StashOf(d)' = StashedFor(d) BY <1>2 DEF StashOf, StashedFor
<1>5. SType' /\ CollectInv' /\ InstrumentInv' /\ BaselineInv' /\ RoundInv'
  <2>1. /\ lastReported' \in [Collectors -> Bounded] /\ reported' \in [Collectors -> [Keys -> Int]]
    BY <1>1, <1>2 DEF SType
  <2>2. DOMAIN unreported' \subseteq collectors /\ unreported' \in [DOMAIN unreported' -> Seq(Stashed)]
    BY <1>1, <1>2, StashDeltaFacts
  <2>3. QED BY <1>2, <2>1, <2>2, ReturnKeeps
<1>6. FitsInv'
  <2>1. ASSUME Fit(InUse(recorded)), NEW d \in Collectors
        PROVE  StashOf(d)' \in Seq(Fitting(InUse(recorded)))
    BY <1>1, <1>4, <2>1, StashDeltaFits
  <2>2. QED BY <1>1, <1>2, <1>3, <2>1, EmptyMapFacts DEF FitsInv, asyncVars
<1>7. ToldInv' BY <1>1, <1>2, <1>3 DEF ToldInv
<1>8. ASSUME Fit(InUse(recorded)), ~overlap, NEW d \in collectors, NEW a \in Attributes
      PROVE  AddsUp(d, a)'
  <2>1. AddsUp(d, a) BY <1>8, OnceIsAddsUp DEF SInv
  <2>2. d \in listed /\ d \in Collectors BY <1>1, <1>2, <1>8 DEF CollectInv, SType
  <2>3. SumOf(StashedFor(d), a) = SumOf(StashOf(d), a) + At(delta, a)
    BY <1>1, <1>8, <2>2, StashDeltaFits
  <2>4. At(hashmap, a) \in Int /\ At(delta, a) \in Int /\ SumOf(StashOf(d), a) \in Int
    BY <1>1, PendingType
  <2>5. Pending(d, a)' = At(hashmap, a) + 0 + SumOf(StashedFor(d), a)
    BY <1>3, <1>4, EmptyMapFacts DEF Pending
  <2>6. Pending(d, a) = At(hashmap, a) + At(delta, a) + SumOf(StashOf(d), a) BY DEF Pending
  <2>7. Pending(d, a)' = Pending(d, a) BY <2>3, <2>4, <2>5, <2>6
  <2>8. QED BY <1>2, <1>3, <2>1, <2>7 DEF AddsUp
<1>9. ReportedOnce' BY <1>3, <1>8, OnceNext
<1>10. QED BY <1>5, <1>6, <1>7, <1>9 DEF SInv

\* What the stash of the collecting collector is merged to.
LEMMA MergedFacts ==
  ASSUME SType, collecting \in Collectors, collecting \in DOMAIN StashDelta,
         NEW m \in MergedMetrics
  PROVE  m \in Bounded
<1>1. StashDelta[collecting] \in Seq(Maps)
  <2>1. StashDelta[collecting] \in Seq(Stashed) BY StashDeltaFacts
  <2>2. Stashed \subseteq Maps BY DEF Stashed
  <2>3. QED BY <2>1, <2>2
<1>2. CASE collecting \in Delta BY <1>1, <1>2, MergeMapsBounded DEF MergedMetrics
<1>3. CASE collecting \notin Delta
  <2>1. PICK x \in MergeMaps(StashDelta[collecting]) : m \in MergeMap(x, lastReported[collecting])
    BY <1>3 DEF MergedMetrics
  <2>2. x \in Bounded BY <1>1, MergeMapsBounded
  <2>3. lastReported[collecting] \in Maps BY DEF SType, Bounded
  <2>4. QED BY <2>1, <2>2, <2>3, MergeBounded
<1>4. QED BY <1>2, <1>3

\* While the attribute sets fit, it is what was stashed in sum, and what was reported
\* before if the collector is cumulative.
LEMMA MergedFits ==
  ASSUME SType, FitsInv, Fit(InUse(recorded)), collecting \in Collectors,
         collecting \in DOMAIN StashDelta, NEW m \in MergedMetrics, NEW k
  PROVE  /\ m \in Fitting(InUse(recorded))
         /\ collecting \in Delta => At(m, k) = SumOf(StashedFor(collecting), k)
         /\ collecting \notin Delta =>
              /\ At(m, k) = SumOf(StashedFor(collecting), k) + At(lastReported[collecting], k)
              /\ DOMAIN lastReported[collecting] \subseteq DOMAIN m
<1> DEFINE P == InUse(recorded)
           list == StashDelta[collecting]
<1>1. list = StashedFor(collecting) BY DEF StashedFor
<1>2. list \in Seq(Fitting(P)) BY <1>1, StashDeltaFits
<1>3. lastReported[collecting] \in Fitting(P) BY DEF FitsInv
<1> HIDE DEF P
<1>4. CASE collecting \in Delta
  <2>1. m \in MergeMaps(list) BY <1>4 DEF MergedMetrics
  <2> HIDE DEF list
  <2>2. m \in Fitting(P) /\ SumsOf(m, list) BY <1>2, <2>1, MergeMapsFits DEF P
  <2>3. QED BY <1>1, <1>4, <2>2 DEF SumsOf, P
<1>5. CASE collecting \notin Delta
  <2>1. PICK x \in MergeMaps(list) : m \in MergeMap(x, lastReported[collecting])
    BY <1>5 DEF MergedMetrics
  <2> HIDE DEF list
  <2>2. x \in Fitting(P) /\ SumsOf(x, list) BY <1>2, <2>1, MergeMapsFits DEF P
  <2>3. m \in Fitting(P) /\ SumsTo(m, x, lastReported[collecting])
    <3> DEFINE last == lastReported[collecting]
    <3>1. last \in Fitting(P) /\ Fit(P) /\ m \in MergeMap(x, last) BY <1>3, <2>1 DEF P
    <3> HIDE DEF last
    <3>2. m \in Fitting(P) /\ SumsTo(m, x, last) BY <2>2, <3>1, MergeFits
    <3>3. QED BY <3>2 DEF last
  <2>4. QED BY <1>1, <1>5, <2>2, <2>3 DEF SumsOf, SumsTo, P
<1>6. QED BY <1>4, <1>5

\* The stash is merged and reported, and emptied.
LEMMA BuildMetricsKeeps ==
  ASSUME SInv, BuildMetrics, UNCHANGED <<instrument, asyncVars>>
  PROVE  SInv'
<1>1. SType /\ CollectInv /\ ToldInv /\ FitsInv BY DEF SInv
<1>2. PICK m \in MergedMetrics :
        /\ lastReported' = [lastReported EXCEPT ![collecting] = m]
        /\ reported' = IF DOMAIN m = {} THEN reported
                       ELSE [reported EXCEPT ![collecting] = Told(collecting, m)]
  BY DEF BuildMetrics
<1>3. /\ step = "build" /\ Return /\ collecting \in DOMAIN StashDelta
      /\ unreported' = [StashDelta EXCEPT ![collecting] = <<>>]
  BY DEF BuildMetrics
<1>4. PICK c \in Collectors : c = collecting BY <1>1, <1>3 DEF SType, CollectInv
<1>5. /\ delta' = EmptyMap
      /\ UNCHANGED <<hashmap, started, collectors, recorded, skipped, overlap>>
  BY <1>3 DEF Return
<1>6. m \in Bounded /\ m \in Maps BY <1>1, <1>3, <1>4, MergedFacts DEF Bounded
<1>7. lastReported' \in [Collectors -> Bounded] /\ reported' \in [Collectors -> [Keys -> Int]]
  <2>1. Told(c, m) \in [Keys -> Int] BY <1>1, <1>6, ToldType
  <2>2. lastReported' \in [Collectors -> Bounded] BY <1>1, <1>2, <1>6 DEF SType
  <2>3. QED BY <1>1, <1>2, <1>4, <2>1, <2>2 DEF SType
<1>8. DOMAIN unreported' \subseteq collectors /\ unreported' \in [DOMAIN unreported' -> Seq(Stashed)]
  <2>1. /\ DOMAIN StashDelta \subseteq collectors
        /\ StashDelta \in [DOMAIN StashDelta -> Seq(Stashed)]
    BY <1>1, StashDeltaFacts
  <2>2. <<>> \in Seq(Stashed) OBVIOUS
  <2>3. QED BY <1>3, <2>1, <2>2
<1>9. SType' /\ CollectInv' /\ InstrumentInv' /\ BaselineInv' /\ RoundInv'
  BY <1>3, <1>7, <1>8, ReturnKeeps
<1>10. StashOf(c)' = <<>> /\ \A d : d # c => StashOf(d)' = StashedFor(d)
  BY <1>3, <1>4 DEF StashOf, StashedFor
<1>11. lastReported'[c] = m /\ \A d \in Collectors : d # c => lastReported'[d] = lastReported[d]
  BY <1>1, <1>2, <1>4 DEF SType
<1>12. \A d \in Collectors : d # c => reported'[d] = reported[d]
  BY <1>1, <1>2, <1>4 DEF SType
<1>13. FitsInv'
  <2>1. SUFFICES ASSUME Fit(InUse(recorded)), NEW d \in Collectors
                 PROVE  /\ lastReported'[d] \in Fitting(InUse(recorded))
                        /\ StashOf(d)' \in Seq(Fitting(InUse(recorded)))
    BY <1>1, <1>5, EmptyMapFacts DEF FitsInv, asyncVars
  <2>2. CASE d = c
    <3>1. m \in Fitting(InUse(recorded)) BY <1>1, <1>3, <1>4, <2>1, MergedFits
    <3>2. <<>> \in Seq(Fitting(InUse(recorded))) OBVIOUS
    <3>3. QED BY <1>10, <1>11, <2>2, <3>1, <3>2
  <2>3. CASE d # c
    <3>1. lastReported[d] \in Fitting(InUse(recorded)) BY <1>1, <2>1 DEF FitsInv
    <3>2. StashedFor(d) \in Seq(Fitting(InUse(recorded))) BY <1>1, <2>1, StashDeltaFits
    <3>3. QED BY <1>10, <1>11, <2>3, <3>1, <3>2
  <2>4. QED BY <2>2, <2>3
<1>14. ASSUME Fit(InUse(recorded)), NEW k \in Keys
       PROVE  /\ reported'[c][k] = reported[c][k] + SumOf(StashedFor(c), k)
              /\ c \notin Delta => reported'[c][k] = At(m, k)
  <2>1. /\ c \in Delta => At(m, k) = SumOf(StashedFor(c), k)
        /\ c \notin Delta => /\ At(m, k) = SumOf(StashedFor(c), k) + At(lastReported[c], k)
                             /\ DOMAIN lastReported[c] \subseteq DOMAIN m
    BY <1>1, <1>3, <1>4, <1>14, MergedFits
  <2>2. reported[c][k] \in Int /\ lastReported[c] \in Maps
    <3>1. reported[c][k] \in Int BY <1>1 DEF SType
    <3>2. lastReported[c] \in Bounded BY <1>1 DEF SType
    <3>3. QED BY <3>1, <3>2 DEF Bounded
  <2>3. At(lastReported[c], k) \in Int /\ At(m, k) \in Int BY <1>6, <2>2, MapFacts
  <2>4. SumOf(StashedFor(c), k) \in Int
    <3>1. StashedFor(c) \in Seq(Maps) BY <1>1, <1>14, StashDeltaFits
    <3>2. QED BY <3>1, SumType
  <2>5. c \notin Delta => reported[c][k] = At(lastReported[c], k) BY <1>1, <1>14 DEF ToldInv
  <2>6. DOMAIN m = {} => At(m, k) = 0 /\ reported'[c][k] = reported[c][k] BY <1>2 DEF At
  <2>7. DOMAIN m = {} /\ c \notin Delta => At(lastReported[c], k) = 0 BY <2>1 DEF At
  <2>8. DOMAIN m # {} => reported'[c][k] = IF c \in Delta THEN reported[c][k] + At(m, k) ELSE At(m, k)
    BY <1>1, <1>2, <1>4 DEF Told, SType
  <2>9. CASE c \in Delta
    <3>1. reported'[c][k] = reported[c][k] + At(m, k)
      <4>1. CASE DOMAIN m = {} BY <2>2, <2>6, <4>1
      <4>2. CASE DOMAIN m # {} BY <2>8, <2>9, <4>2
      <4>3. QED BY <4>1, <4>2
    <3>2. QED BY <2>1, <2>9, <3>1
  <2>10. CASE c \notin Delta
    <3>1. reported'[c][k] = At(m, k) BY <2>5, <2>6, <2>7, <2>8, <2>10
    <3>2. At(m, k) = SumOf(StashedFor(c), k) + reported[c][k] BY <2>1, <2>5, <2>10
    <3>3. QED BY <2>2, <2>4, <2>10, <3>1, <3>2
  <2>11. QED BY <2>9, <2>10
<1>15. ToldInv'
  <2>1. SUFFICES ASSUME NEW d \in Collectors, NEW k \in Keys
                 PROVE  /\ ~overlap /\ d \notin collectors => reported'[d][k] = 0
                        /\ Fit(InUse(recorded)) /\ d \notin Delta =>
                             reported'[d][k] = At(lastReported'[d], k)
    BY <1>5 DEF ToldInv
  <2>2. CASE d # c BY <1>1, <1>11, <1>12, <2>2 DEF ToldInv
  <2>3. CASE d = c
    <3>1. ~overlap => c \in collectors BY <1>1, <1>3, <1>4 DEF CollectInv
    <3>2. QED BY <1>11, <1>14, <2>3, <3>1
  <2>4. QED BY <2>2, <2>3
<1>16. ASSUME Fit(InUse(recorded)), ~overlap, NEW d \in collectors, NEW a \in Attributes
       PROVE  AddsUp(d, a)'
  <2>1. AddsUp(d, a) BY <1>16, OnceIsAddsUp DEF SInv
  <2>2. d \in listed /\ d \in Collectors /\ a \in Keys
    BY <1>1, <1>3, <1>16 DEF CollectInv, SType, Keys
  <2>3. SumOf(StashedFor(d), a) = SumOf(StashOf(d), a) + At(delta, a)
    BY <1>1, <1>16, <2>2, StashDeltaFits
  <2>4. At(hashmap, a) \in Int /\ At(delta, a) \in Int /\ SumOf(StashOf(d), a) \in Int
    BY <1>1, PendingType
  <2>5. reported[d][a] \in Int BY <1>1, <2>2 DEF SType
  <2>6. SumOf(StashOf(d)', a) + reported'[d][a] = SumOf(StashedFor(d), a) + reported[d][a]
    <3>1. CASE d = c
      <4>1. SumOf(StashOf(d)', a) = 0 BY <1>10, <3>1, SumEmpty
      <4>2. reported'[d][a] = reported[d][a] + SumOf(StashedFor(d), a)
        BY <1>14, <1>16, <2>2, <3>1
      <4>3. QED BY <2>3, <2>4, <2>5, <4>1, <4>2
    <3>2. CASE d # c
      <4>1. StashOf(d)' = StashedFor(d) /\ reported'[d] = reported[d] BY <1>10, <1>12, <2>2, <3>2
      <4>2. QED BY <4>1
    <3>3. QED BY <3>1, <3>2
  <2>7. Pending(d, a)' = At(hashmap, a) + 0 + SumOf(StashOf(d)', a)
    BY <1>5, EmptyMapFacts DEF Pending
  <2>8. Pending(d, a) = At(hashmap, a) + At(delta, a) + SumOf(StashOf(d), a) BY DEF Pending
  <2>9. SumOf(StashOf(d)', a) \in Int /\ reported'[d][a] \in Int
    <3>1. StashOf(d)' \in Seq(Maps)
      <4>1. StashedFor(d) \in Seq(Maps) BY <1>1, <1>16, <2>2, StashDeltaFits
      <4>2. <<>> \in Seq(Maps) OBVIOUS
      <4>3. QED BY <1>10, <4>1, <4>2
    <3>2. QED BY <1>7, <2>2, <3>1, SumType
  <2>10. Pending(d, a)' + reported'[d][a] = Pending(d, a) + reported[d][a]
    BY <2>3, <2>4, <2>5, <2>6, <2>7, <2>8, <2>9
  <2>11. QED BY <1>5, <2>1, <2>10 DEF AddsUp
<1>17. ReportedOnce' BY <1>5, <1>16, OnceNext
<1>18. QED BY <1>9, <1>13, <1>15, <1>17 DEF SInv

-----------------------------------------------------------------------------
(* Observable instruments.                                                 *)

\* The last value of each series with what a callback reports.
Updated(new) == [a \in Attributes |-> IF a \in DOMAIN new THEN new[a] ELSE observed[a]]

\* What a callback reports are positive numbers for some attribute sets.
LEMMA ReportFacts ==
  ASSUME SType, NEW new \in Reports
  PROVE  /\ new \in Maps /\ DOMAIN new \subseteq Attributes
         /\ \A a \in DOMAIN new : new[a] \in Nat /\ new[a] > 0
         /\ Updated(new) \in [Attributes -> Nat] /\ InUse(observed) \subseteq InUse(Updated(new))
         /\ DOMAIN new \subseteq InUse(Updated(new))
<1>1. PICK s \in SUBSET Attributes : new \in [s -> 1 .. MaxValue] BY DEF Reports
<1>2. DOMAIN new = s /\ \A a \in s : new[a] \in Nat /\ new[a] > 0 BY <1>1
<1>3. new \in Maps
  <2>1. new \in [s -> Int] /\ s \in SUBSET Keys BY <1>1 DEF Keys
  <2>2. QED BY <2>1 DEF Maps
<1>4. observed \in [Attributes -> Nat] BY DEF SType
<1>5. Updated(new) \in [Attributes -> Nat] BY <1>2, <1>4 DEF Updated
<1>6. InUse(observed) \subseteq InUse(Updated(new)) BY <1>2, <1>4 DEF InUse, Updated
<1>7. s \subseteq InUse(Updated(new)) BY <1>2 DEF InUse, Updated
<1>8. QED BY <1>2, <1>3, <1>5, <1>6, <1>7

\* The callbacks of a monotonic sum: the delta map gets the differences.
LEMMA ObserveMonotonicKeeps ==
  ASSUME SInv, NEW c \in Collectors, Observe(c), instrument = "monotonic"
  PROVE  SInv'
<1>1. SType /\ CollectInv /\ InstrumentInv /\ ToldInv /\ FitsInv /\ BaselineInv BY DEF SInv
<1>2. PICK new \in Reports :
        /\ observed' = Updated(new) /\ recorded' = observed' /\ UNCHANGED round
        /\ \E maps \in RecordSums(<<lastObserved, hashmap>>, new) :
             lastObserved' = maps[1] /\ hashmap' = maps[2]
  BY DEF Observe, Callbacks, Updated
<1>3. PICK maps \in RecordSums(<<lastObserved, hashmap>>, new) :
        lastObserved' = maps[1] /\ hashmap' = maps[2]
  BY <1>2
<1>4. /\ c \in started /\ observer' = c /\ observer = Nobody /\ collecting = Nobody
      /\ observes < MaxObserves /\ observes' = observes + 1
      /\ UNCHANGED <<started, collectors, collecting, step, listed, delta, unreported,
                     lastReported, reported, skipped, overlap, instrument>>
  BY DEF Observe, collectVars
<1> DEFINE start == <<lastObserved, hashmap>>
           P == InUse(recorded)
           Q == InUse(recorded')
<1>5. /\ new \in Maps /\ DOMAIN new \subseteq Attributes
      /\ (\A a \in DOMAIN new : new[a] \in Nat /\ new[a] > 0)
      /\ recorded' \in [Attributes -> Nat] /\ InUse(observed) \subseteq Q /\ DOMAIN new \subseteq Q
  BY <1>1, <1>2, ReportFacts
<1>6. observed = recorded BY <1>1 DEF InstrumentInv
<1>7. P \subseteq Q BY <1>5, <1>6
<1>8. SType'
  <2>1. start \in Bounded \X Bounded BY <1>1 DEF SType
  <2>2. maps \in Bounded \X Bounded
    <3> HIDE DEF start
    <3>1. maps \in RecordSums(start, new) BY <1>3 DEF start
    <3>2. QED BY <1>5, <2>1, <3>1, SumsBounded
  <2>3. lastObserved' \in Bounded /\ hashmap' \in Bounded BY <1>3, <2>2
  <2>4. observer' \in started' \union {Nobody} /\ observes' \in 0 .. MaxObserves BY <1>1, <1>4 DEF SType
  <2>5. QED BY <1>1, <1>2, <1>4, <1>5, <2>3, <2>4 DEF SType
<1>9. CollectInv' BY <1>1, <1>2, <1>4 DEF CollectInv, SInv
<1>10. InstrumentInv' BY <1>2, <1>4 DEF InstrumentInv
<1>11. RoundInv' BY <1>4 DEF RoundInv
<1>12. ASSUME Fit(Q)
       PROVE  /\ Fit(P) /\ Fitting(P) \subseteq Fitting(Q)
              /\ lastObserved' \in Fitting(Q) /\ hashmap' \in Fitting(Q)
              /\ Differenced(maps, start, new)
              /\ \A d \in Collectors : /\ lastReported'[d] \in Fitting(Q)
                                       /\ StashOf(d)' \in Seq(Fitting(Q))
  <2>1. /\ Fit(P) /\ Fitting(P) \subseteq Fitting(Q)
        /\ \A d \in Collectors : /\ lastReported'[d] \in Fitting(Q)
                                 /\ StashOf(d)' \in Seq(Fitting(Q))
    BY <1>1, <1>4, <1>7, <1>12, StashKept
  <2>2. lastObserved \in Fitting(P) /\ hashmap \in Fitting(P) BY <1>1, <2>1 DEF FitsInv
  <2> HIDE DEF P, Q
  <2>3. start \in Fitting(Q) \X Fitting(Q) BY <2>1, <2>2
  <2>4. new \in Fitting(Q) BY <1>5 DEF Fitting
  <2>5. maps \in Fitting(Q) \X Fitting(Q) /\ Differenced(maps, start, new)
    <3> HIDE DEF start
    <3>1. maps \in RecordSums(start, new) BY <1>3 DEF start
    <3>2. QED BY <1>12, <2>3, <2>4, <3>1, SumsFits
  <2>6. QED BY <1>3, <2>1, <2>5
<1>13. FitsInv'
  <2>1. SUFFICES ASSUME Fit(Q)
                 PROVE  /\ hashmap' \in Fitting(Q) /\ delta' \in Fitting(Q)
                        /\ lastObserved' \in Fitting(Q)
                        /\ \A d \in Collectors : /\ lastReported'[d] \in Fitting(Q)
                                                 /\ StashOf(d)' \in Seq(Fitting(Q))
    BY DEF FitsInv
  <2>2. delta \in Fitting(P) BY <1>1, <1>12, <2>1 DEF FitsInv
  <2> HIDE DEF P, Q
  <2>3. QED BY <1>4, <1>12, <2>1, <2>2
<1>14. ASSUME Fit(Q), NEW a \in Attributes
       PROVE  /\ At(lastObserved, a) = recorded[a] /\ At(lastObserved', a) = recorded'[a]
              /\ At(hashmap', a) + recorded[a] = At(hashmap, a) + recorded'[a]
  <2>1. At(lastObserved, a) = recorded[a] BY <1>1, <1>12, <1>14 DEF BaselineInv
  <2>2. /\ At(lastObserved', a) = IF a \in DOMAIN new THEN new[a] ELSE At(lastObserved, a)
        /\ At(hashmap', a) + At(lastObserved, a) = At(hashmap, a) + At(lastObserved', a)
    BY <1>3, <1>12, <1>14 DEF Differenced
  <2>3. recorded'[a] = IF a \in DOMAIN new THEN new[a] ELSE recorded[a] BY <1>2, <1>6 DEF Updated
  <2>4. QED BY <2>1, <2>2, <2>3
<1>15. BaselineInv' BY <1>2, <1>14 DEF BaselineInv
<1>16. ToldInv' BY <1>1, <1>2, <1>4, <1>12 DEF ToldInv
<1>17. ASSUME Fit(Q), ~overlap, NEW d \in collectors, NEW a \in Attributes
       PROVE  AddsUp(d, a)'
  <2>1. AddsUp(d, a) BY <1>12, <1>17, OnceIsAddsUp DEF SInv
  <2>2. At(hashmap, a) \in Int /\ At(delta, a) \in Int /\ SumOf(StashOf(d), a) \in Int
    BY <1>1, PendingType
  <2>3. d \in Collectors /\ skipped[d][a] \in Int /\ reported[d][a] \in Int /\ recorded[a] \in Int
    BY <1>1 DEF SType, Keys
  <2>4. recorded'[a] \in Int BY <1>5
  <2>5. StashOf(d)' = StashOf(d) BY <1>4 DEF StashOf
  <2>6. Pending(d, a)' = At(hashmap', a) + At(delta, a) + SumOf(StashOf(d), a)
    BY <1>4, <2>5 DEF Pending
  <2>7. At(hashmap', a) \in Int
    <3>1. hashmap' \in Maps BY <1>8 DEF SType, Bounded
    <3>2. QED BY <3>1, MapFacts
  <2>8. At(hashmap', a) + recorded[a] = At(hashmap, a) + recorded'[a] BY <1>14, <1>17
  <2>9. Pending(d, a) = At(hashmap, a) + At(delta, a) + SumOf(StashOf(d), a) BY DEF Pending
  <2>10. recorded[a] - skipped[d][a] = Pending(d, a) + reported[d][a] BY <2>1 DEF AddsUp
  <2>11. recorded'[a] - skipped[d][a] = Pending(d, a)' + reported[d][a]
    BY <2>2, <2>3, <2>4, <2>6, <2>7, <2>8, <2>9, <2>10
  <2>12. QED BY <1>4, <2>11 DEF AddsUp
<1>18. ReportedOnce' BY <1>2, <1>4, <1>17, OnceNext
<1>19. QED BY <1>8, <1>9, <1>10, <1>11, <1>13, <1>15, <1>16, <1>18 DEF SInv

\* The callbacks of another instrument: the round gets the values.
LEMMA ObserveRoundKeeps ==
  ASSUME SInv, NEW c \in Collectors, Observe(c), instrument = "updown"
  PROVE  SInv'
<1>1. SType /\ CollectInv /\ InstrumentInv /\ ToldInv /\ FitsInv /\ BaselineInv /\ RoundInv
  BY DEF SInv
<1>2. PICK new \in Reports :
        /\ observed' = Updated(new) /\ round' \in RecordRound(round, new)
        /\ UNCHANGED <<lastObserved, hashmap, recorded>>
  BY DEF Observe, Callbacks, Updated
<1>3. /\ c \in started /\ observer' = c /\ observer = Nobody /\ collecting = Nobody
      /\ observes < MaxObserves /\ observes' = observes + 1
      /\ UNCHANGED <<started, collectors, collecting, step, listed, delta, unreported,
                     lastReported, reported, skipped, overlap, instrument>>
  BY DEF Observe, collectVars
<1>4. round = EmptyMap /\ DOMAIN round = {} BY <1>1, <1>3, EmptyMapFacts DEF CollectInv
<1>5. /\ new \in Maps /\ DOMAIN new \subseteq Attributes
      /\ (\A a \in DOMAIN new : new[a] \in Nat /\ new[a] > 0)
      /\ observed' \in [Attributes -> Nat] /\ InUse(observed) \subseteq InUse(observed')
      /\ DOMAIN new \subseteq InUse(observed')
  BY <1>1, <1>2, ReportFacts
<1>6. \A d : StashOf(d)' = StashOf(d) BY <1>3 DEF StashOf
<1>7. SType'
  <2>1. round \in Bounded BY <1>1 DEF SType
  <2>2. round' \in Bounded BY <1>2, <1>5, <2>1, RoundBounded
  <2>3. observer' \in started' \union {Nobody} /\ observes' \in 0 .. MaxObserves BY <1>1, <1>3 DEF SType
  <2>4. QED BY <1>1, <1>2, <1>3, <1>5, <2>2, <2>3 DEF SType
<1>8. CollectInv' BY <1>1, <1>2, <1>3 DEF CollectInv
<1>9. InstrumentInv' BY <1>1, <1>2, <1>3, <1>5 DEF InstrumentInv
<1>10. FitsInv' BY <1>1, <1>2, <1>3, <1>6 DEF FitsInv
<1>11. BaselineInv' BY <1>1, <1>2, <1>3 DEF BaselineInv
<1>12. RoundInv'
  <2> DEFINE P == InUse(observed)
             Q == InUse(observed')
  <2>1. SUFFICES ASSUME Fit(Q)
                 PROVE  /\ round' \in Fitting(Q)
                        /\ \A a \in Attributes :
                             observed'[a] = IF a \in DOMAIN round' THEN round'[a] ELSE recorded'[a]
    BY DEF RoundInv
  <2>2. Fit(P) /\ Fitting(P) \subseteq Fitting(Q) BY <1>5, <2>1, FitMonotone
  <2>3. round \in Fitting(P) BY <1>1, <2>2 DEF RoundInv
  <2>4. new \in Fitting(Q) BY <1>5 DEF Fitting
  <2>5. round' \in Fitting(Q) /\ SumsTo(round', round, new)
    <3> HIDE DEF P, Q
    <3>1. round \in Fitting(Q) BY <2>2, <2>3
    <3>2. QED BY <1>2, <2>1, <2>4, <3>1, RoundFits
  <2>6. ASSUME NEW a \in Attributes
        PROVE  observed'[a] = IF a \in DOMAIN round' THEN round'[a] ELSE recorded'[a]
    <3>1. observed[a] = recorded[a] BY <1>1, <1>3, <1>4, <2>2 DEF RoundInv, Observe
    <3>2. DOMAIN round' = DOMAIN new /\ At(round', a) = At(round, a) + At(new, a) /\ At(round, a) = 0
      BY <1>4, <2>5, EmptyMapFacts DEF SumsTo
    <3>3. observed'[a] = IF a \in DOMAIN new THEN new[a] ELSE observed[a] BY <1>2 DEF Updated
    <3>4. CASE a \in DOMAIN new
      <4>1. At(new, a) = new[a] /\ At(round', a) = round'[a] /\ new[a] \in Nat
        BY <1>5, <3>2, <3>4 DEF At
      <4>2. QED BY <3>2, <3>3, <3>4, <4>1
    <3>5. CASE a \notin DOMAIN new BY <1>2, <3>1, <3>2, <3>3, <3>5
    <3>6. QED BY <3>4, <3>5
  <2>7. QED BY <2>5, <2>6
<1>13. ToldInv' BY <1>1, <1>2, <1>3 DEF ToldInv
<1>14. ASSUME Fit(InUse(recorded)), ~overlap, NEW d \in collectors, NEW a \in Attributes
       PROVE  AddsUp(d, a)'
  <2>1. AddsUp(d, a) BY <1>14, OnceIsAddsUp DEF SInv
  <2>2. Pending(d, a)' = Pending(d, a) BY <1>2, <1>3, <1>6 DEF Pending
  <2>3. QED BY <1>2, <1>3, <2>1, <2>2 DEF AddsUp
<1>15. ReportedOnce' BY <1>2, <1>3, <1>14, OnceNext
<1>16. QED BY <1>7, <1>8, <1>9, <1>10, <1>11, <1>12, <1>13, <1>15 DEF SInv

\* BuildDeltaFromRound: the differences become the delta.
LEMMA BuildDeltaKeeps ==
  ASSUME SInv, BuildDeltaFromRound
  PROVE  SInv'
<1>1. SType /\ CollectInv /\ InstrumentInv /\ ToldInv /\ FitsInv /\ BaselineInv /\ RoundInv
  BY DEF SInv
<1>2. /\ instrument = "updown" /\ step = "take" /\ step' = "build"
      /\ hashmap' = EmptyMap /\ round' = EmptyMap /\ recorded' = observed
      /\ UNCHANGED <<started, collectors, collecting, listed, unreported, lastReported, reported,
                     skipped, overlap, instrument, observer, observed, observes>>
  BY DEF BuildDeltaFromRound
<1> DEFINE start == <<lastObserved, hashmap>>
           P == InUse(recorded)
           Q == InUse(recorded')
<1>3. PICK maps \in DiffRound(start) : lastObserved' = maps[1] /\ delta' = maps[2]
  BY DEF BuildDeltaFromRound
<1>4. hashmap = EmptyMap /\ P \subseteq Q BY <1>1, <1>2 DEF InstrumentInv
<1>5. delta = EmptyMap /\ collecting # Nobody BY <1>1, <1>2 DEF CollectInv
<1>6. SType'
  <2>1. start \in Bounded \X Bounded /\ round \in Maps BY <1>1 DEF SType, Bounded
  <2>2. maps \in Bounded \X Bounded
    <3> HIDE DEF start
    <3>1. QED BY <1>3, <2>1, DiffBounded
  <2>3. lastObserved' \in Bounded /\ delta' \in Bounded BY <1>3, <2>2
  <2>4. recorded' \in [Attributes -> Nat] BY <1>1, <1>2 DEF SType
  <2>5. QED BY <1>1, <1>2, <2>3, <2>4, EmptyMapFacts DEF SType
<1>7. CollectInv' BY <1>1, <1>2, <1>5 DEF CollectInv
<1>8. InstrumentInv' BY <1>2 DEF InstrumentInv
<1>9. ASSUME Fit(Q)
      PROVE  /\ Fit(P) /\ lastObserved' \in Fitting(Q) /\ delta' \in Fitting(Q)
             /\ Differenced(maps, start, round)
             /\ \A d \in Collectors : /\ lastReported'[d] \in Fitting(Q)
                                      /\ StashOf(d)' \in Seq(Fitting(Q))
  <2>1. /\ Fit(P) /\ Fitting(P) \subseteq Fitting(Q)
        /\ \A d \in Collectors : /\ lastReported'[d] \in Fitting(Q)
                                 /\ StashOf(d)' \in Seq(Fitting(Q))
    BY <1>1, <1>2, <1>4, <1>9, StashKept
  <2>2. lastObserved \in Fitting(P) /\ hashmap \in Fitting(P) BY <1>1, <2>1 DEF FitsInv
  <2>3. round \in Fitting(Q) BY <1>1, <1>2, <1>9 DEF RoundInv
  <2> HIDE DEF P, Q
  <2>4. start \in Fitting(Q) \X Fitting(Q) /\ start[2] = EmptyMap BY <1>4, <2>1, <2>2
  <2>5. maps \in Fitting(Q) \X Fitting(Q) /\ Differenced(maps, start, round)
    <3> HIDE DEF start
    <3>1. QED BY <1>3, <1>9, <2>3, <2>4, DiffFits
  <2>6. QED BY <1>3, <2>1, <2>5
<1>10. FitsInv'
  <2>1. SUFFICES ASSUME Fit(Q)
                 PROVE  /\ hashmap' \in Fitting(Q) /\ delta' \in Fitting(Q)
                        /\ lastObserved' \in Fitting(Q)
                        /\ \A d \in Collectors : /\ lastReported'[d] \in Fitting(Q)
                                                 /\ StashOf(d)' \in Seq(Fitting(Q))
    BY DEF FitsInv
  <2> HIDE DEF P, Q
  <2>2. QED BY <1>2, <1>9, <2>1, EmptyMapFacts
<1>11. ASSUME Fit(Q), NEW a \in Attributes
       PROVE  At(lastObserved', a) = recorded'[a] /\ At(delta', a) + recorded[a] = recorded'[a]
  <2>1. At(lastObserved, a) = recorded[a] BY <1>1, <1>2, <1>9, <1>11 DEF BaselineInv
  <2>2. observed[a] = IF a \in DOMAIN round THEN round[a] ELSE recorded[a]
    BY <1>1, <1>2, <1>11 DEF RoundInv
  <2>3. /\ At(lastObserved', a) = IF a \in DOMAIN round THEN round[a] ELSE At(lastObserved, a)
        /\ At(delta', a) + At(lastObserved, a) = At(hashmap, a) + At(lastObserved', a)
    BY <1>3, <1>9, <1>11 DEF Differenced
  <2>4. At(hashmap, a) = 0 BY <1>4, EmptyMapFacts
  <2>5. recorded'[a] = observed[a] /\ observed[a] \in Nat BY <1>1, <1>2 DEF SType
  <2>6. At(lastObserved', a) = recorded'[a] BY <2>1, <2>2, <2>3, <2>5
  <2>7. QED BY <2>1, <2>3, <2>4, <2>5, <2>6
<1>12. BaselineInv' BY <1>2, <1>11 DEF BaselineInv
<1>13. RoundInv'
  <2>1. EmptyMap \in Fitting(Q) /\ DOMAIN EmptyMap = {} BY EmptyMapFacts
  <2>2. QED BY <1>2, <2>1 DEF RoundInv
<1>14. ToldInv' BY <1>1, <1>2, <1>9 DEF ToldInv
<1>15. ASSUME Fit(Q), ~overlap, NEW d \in collectors, NEW a \in Attributes
       PROVE  AddsUp(d, a)'
  <2>1. AddsUp(d, a) BY <1>9, <1>15, OnceIsAddsUp DEF SInv
  <2>2. SumOf(StashOf(d), a) \in Int BY <1>1, PendingType
  <2>3. d \in Collectors /\ skipped[d][a] \in Int /\ reported[d][a] \in Int /\ recorded[a] \in Int
    BY <1>1 DEF SType, Keys
  <2>4. recorded'[a] \in Int BY <1>1, <1>2 DEF SType
  <2>5. At(EmptyMap, a) = 0 BY EmptyMapFacts
  <2>6. StashOf(d)' = StashOf(d) BY <1>2 DEF StashOf
  <2>7. Pending(d, a)' = 0 + At(delta', a) + SumOf(StashOf(d), a) BY <1>2, <2>5, <2>6 DEF Pending
  <2>8. Pending(d, a) = 0 + 0 + SumOf(StashOf(d), a) BY <1>4, <1>5, <2>5 DEF Pending
  <2>9. At(delta', a) \in Int
    <3>1. delta' \in Maps BY <1>6 DEF SType, Bounded
    <3>2. QED BY <3>1, MapFacts
  <2>10. recorded[a] - skipped[d][a] = Pending(d, a) + reported[d][a] BY <2>1 DEF AddsUp
  <2>11. At(delta', a) + recorded[a] = recorded'[a] BY <1>11, <1>15
  <2>12. recorded'[a] - skipped[d][a] = Pending(d, a)' + reported[d][a]
    BY <2>2, <2>3, <2>4, <2>7, <2>8, <2>9, <2>10, <2>11
  <2>13. QED BY <1>2, <2>12 DEF AddsUp
<1>16. ReportedOnce' BY <1>2, <1>15, OnceNext
<1>17. QED BY <1>6, <1>7, <1>8, <1>10, <1>12, <1>13, <1>14, <1>16 DEF SInv

-----------------------------------------------------------------------------
\* Every step keeps the invariant.
LEMMA SInvNext ==
  ASSUME SInv, [NextAny]_allVars
  PROVE  SInv'
<1>1. CASE Shared
  <2>1. UNCHANGED <<instrument, asyncVars>> BY <1>1 DEF Shared
  <2>2. CASE \E c \in Collectors : StartReader(c) \/ PushCollector(c)
    BY <2>1, <2>2, StartReaderKeeps, PushCollectorKeeps
  <2>3. CASE BuildFast BY <2>1, <2>3, BuildFastKeeps
  <2>4. CASE BuildNothing BY <2>1, <2>4, BuildNothingKeeps
  <2>5. CASE BuildMetrics BY <2>1, <2>5, BuildMetricsKeeps
  <2>6. CASE instrument # "updown" /\ TakeDelta BY <2>1, <2>6, TakeDeltaKeeps
  <2>7. CASE instrument = "sync" /\ \E a \in Attributes : Record(a) BY <2>1, <2>7, RecordKeeps
  <2>8. CASE instrument = "sync" /\ \E c \in Collectors : MeterCollect(c)
    <3>1. observer = Nobody /\ round = EmptyMap BY <2>8 DEF SInv, CollectInv
    <3>2. QED BY <2>1, <2>8, <3>1, MeterCollectKeeps DEF asyncVars
  <2>9. QED BY <1>1, <2>2, <2>3, <2>4, <2>5, <2>6, <2>7, <2>8 DEF Shared
<1>2. ASSUME NEW c \in Collectors, Observe(c) PROVE SInv'
  <2>1. instrument = "monotonic" \/ instrument = "updown" BY <1>2 DEF Observe, SInv, SType
  <2>2. QED BY <1>2, <2>1, ObserveMonotonicKeeps, ObserveRoundKeeps
<1>3. ASSUME NEW c \in Collectors, CollectObserved(c) PROVE SInv'
  <2>1. /\ MeterCollect(c) /\ observer' = Nobody /\ (round # EmptyMap => instrument = "updown")
        /\ UNCHANGED <<instrument, lastObserved, round, observed, observes>>
    BY <1>3 DEF CollectObserved, SInv, CollectInv
  <2>2. QED BY <2>1, MeterCollectKeeps
<1>4. CASE BuildDeltaFromRound BY <1>4, BuildDeltaKeeps
<1>5. CASE UNCHANGED allVars
  <2> USE <1>5 DEF allVars, vars, asyncVars, collectVars
  <2>1. SType' BY DEF SInv, SType
  <2>2. CollectInv' BY DEF SInv, CollectInv
  <2>3. UNCHANGED mapVars BY DEF mapVars
  <2>4. InstrumentInv' /\ FitsInv' /\ BaselineInv' /\ RoundInv'
    BY <2>3, MapsKept DEF SInv, SType
  <2>5. ToldInv' BY DEF SInv, ToldInv
  <2>6. ASSUME Fit(InUse(recorded)), ~overlap, NEW d \in collectors, NEW a \in Attributes
        PROVE  AddsUp(d, a)'
    <3>1. AddsUp(d, a) BY <2>6, OnceIsAddsUp DEF SInv
    <3>2. QED BY <2>3, <3>1, AddsUpKept
  <2>7. ReportedOnce' BY <2>6, OnceNext
  <2>8. QED BY <2>1, <2>2, <2>4, <2>5, <2>7 DEF SInv
<1>6. QED BY <1>1, <1>2, <1>3, <1>4, <1>5 DEF NextAny

\* SInv is an invariant of the storages of synchronous and observable
\* instruments: the types, what each map holds between the steps of a
\* collection, and that every measurement is told once.
THEOREM Consistent == SpecAny => []SInv
<1>1. InitAny => SInv BY SInvInit
<1>2. SInv /\ [NextAny]_allVars => SInv' BY SInvNext
<1>3. QED BY <1>1, <1>2, PTL DEF SpecAny

\* The maps, the stash and the collections have their types, no empty map is
\* stashed, and the baselines and the round of an observable instrument stay
\* within the cardinality limit.
THEOREM TypeCorrect == SpecAny => []AsyncTypeOK
<1>1. ASSUME SInv PROVE AsyncTypeOK
  <2>1. SType BY <1>1 DEF SInv
  <2>2. \A m \in Bounded : m \in Maps /\ IsMap(m) /\ Cardinality(DOMAIN m \ {Overflow}) <= Limit
    BY MapFacts DEF Bounded
  <2>3. hashmap \in Bounded /\ delta \in Bounded /\ lastObserved \in Bounded /\ round \in Bounded
    BY <2>1 DEF SType
  <2>4. ASSUME NEW c \in Collectors
        PROVE  /\ IsMap(lastReported[c]) /\ IsMap(reported[c])
               /\ \A i \in DOMAIN StashOf(c) : IsMap(StashOf(c)[i]) /\ DOMAIN StashOf(c)[i] # {}
    <3>1. lastReported[c] \in Bounded BY <2>1 DEF SType
    <3>2. reported[c] \in [Keys -> Int] BY <2>1 DEF SType
    <3>3. StashOf(c) \in Seq(Stashed) BY <2>1, StashType
    <3>4. ASSUME NEW i \in DOMAIN StashOf(c)
          PROVE  IsMap(StashOf(c)[i]) /\ DOMAIN StashOf(c)[i] # {}
      <4>1. StashOf(c)[i] \in Stashed BY <3>3
      <4>2. QED BY <4>1, MapFacts DEF Stashed
    <3>5. IsMap(reported[c]) BY <3>2 DEF IsMap
    <3>6. QED BY <2>2, <3>1, <3>4, <3>5
  <2>5. TypeOK BY <2>1, <2>2, <2>3, <2>4 DEF TypeOK, SType
  <2>6. \A m \in {lastObserved, round} : IsMap(m) /\ Cardinality(DOMAIN m \ {Overflow}) <= Limit
    BY <2>2, <2>3
  <2>7. QED BY <2>1, <2>5, <2>6 DEF AsyncTypeOK, SType
<1>2. QED BY <1>1, Consistent, PTL

\* The map recorded into, the delta and what was last reported to each
\* collector never have more attribute sets than the cardinality limit.
THEOREM LimitHeld == SpecAny => []WithinLimit
<1>1. SInv => WithinLimit BY DEF SInv, SType, Bounded, WithinLimit
<1>2. QED BY <1>1, Consistent, PTL

\* Every collector is told exactly once of every measurement made since it was
\* added, however its temporality, the collections and the measurements
\* interleave, while the attribute sets fit and no collection overlaps.
THEOREM ToldOnce == SpecAny => []ReportedOnce
<1>1. SInv => ReportedOnce BY DEF SInv
<1>2. QED BY <1>1, Consistent, PTL

-----------------------------------------------------------------------------
(* Nothing is counted twice.                                               *)

\* What the maps of an instrument that only goes up hold is never negative,
\* past the limit neither, and no baseline is above the last observed value.
CounterInv ==
  instrument # "updown" =>
    /\ hashmap \in Counts /\ delta \in Counts /\ reported \in [Collectors -> [Keys -> Nat]]
    /\ \A c \in Collectors : lastReported[c] \in Counts /\ StashOf(c) \in Seq(Counts)
    /\ instrument = "monotonic" =>
         \A a \in Attributes : At(lastObserved, a) <= observed[a]

\* What has been counted for a collector, reported or not.
Accounted(c) ==
  MapTotal(hashmap) + MapTotal(delta) + ListTotal(StashOf(c)) + Total(reported[c])

\* It is never more than was recorded; and what a cumulative collector adds to
\* is never more than it has been told.
TotalInv ==
  instrument = "sync" =>
    \A c \in Collectors :
      /\ Accounted(c) <= Total(recorded)
      /\ c \notin Delta => MapTotal(lastReported[c]) <= Total(reported[c])

CountInv == CounterInv /\ TotalInv

\* The numbers that are compared.
LEMMA AccountedType ==
  ASSUME SType, NEW c \in Collectors
  PROVE  /\ MapTotal(hashmap) \in Int /\ MapTotal(delta) \in Int
         /\ ListTotal(StashOf(c)) \in Int /\ Total(reported[c]) \in Int
         /\ Total(recorded) \in Int /\ MapTotal(lastReported[c]) \in Int
<1>1. hashmap \in Maps /\ delta \in Maps /\ lastReported[c] \in Maps BY DEF SType, Bounded
<1>2. MapTotal(hashmap) \in Int /\ MapTotal(delta) \in Int /\ MapTotal(lastReported[c]) \in Int
  BY <1>1, MapTotalType
<1>3. ListTotal(StashOf(c)) \in Int BY StashType, ListTotalType
<1>4. Total(reported[c]) \in Int
  <2>1. reported[c] \in [Keys -> Int] BY DEF SType
  <2>2. QED BY <2>1, KeysFinite, TotalType
<1>5. Total(recorded) \in Int
  <2>1. recorded \in [Attributes -> Int] BY DEF SType
  <2>2. QED BY <2>1, TotalType
<1>6. QED BY <1>2, <1>3, <1>4, <1>5

\* What NeverOverReports sums up by key is the sum of the parts.
LEMMA AccountedSplit ==
  ASSUME SType, NEW c \in Collectors
  PROVE  Total([k \in Keys |-> Pending(c, k) + reported[c][k]]) = Accounted(c)
<1> DEFINE h == [k \in Keys |-> At(hashmap, k)]
           d == [k \in Keys |-> At(delta, k)]
           s == [k \in Keys |-> SumOf(StashOf(c), k)]
           r == reported[c]
           hd == [k \in Keys |-> At(hashmap, k) + At(delta, k)]
           p == [k \in Keys |-> Pending(c, k)]
           e == [k \in Keys |-> Pending(c, k) + reported[c][k]]
<1>1. \A k \in Keys : /\ At(hashmap, k) \in Int /\ At(delta, k) \in Int
                      /\ SumOf(StashOf(c), k) \in Int
  BY PendingType
<1>2. r \in [Keys -> Int] BY DEF SType
<1>3. h \in [Keys -> Int] /\ d \in [Keys -> Int] /\ s \in [Keys -> Int] BY <1>1
<1>4. hd \in [Keys -> Int] BY <1>1
<1>5. \A k \in Keys : Pending(c, k) \in Int BY <1>1 DEF Pending
<1>6. p \in [Keys -> Int] BY <1>5
<1>7. \A k \in Keys : Pending(c, k) + reported[c][k] \in Int BY <1>2, <1>5
<1>8. e \in [Keys -> Int] BY <1>7
<1>9. Adds(hd, h, d, Keys) BY <1>3, <1>4 DEF Adds
<1>10. Adds(p, hd, s, Keys)
  <2>1. \A k \in Keys : p[k] = hd[k] + s[k] BY DEF Pending
  <2>2. QED BY <1>3, <1>4, <1>6, <2>1 DEF Adds
<1>11. Adds(e, p, r, Keys) BY <1>2, <1>6, <1>8 DEF Adds
<1>12. MapTotal(hashmap) = Total(h) /\ MapTotal(delta) = Total(d) /\ ListTotal(StashOf(c)) = Total(s)
  BY DEF MapTotal, ListTotal
<1> HIDE DEF h, d, s, r, hd, p, e
<1>13. Total(hd) = Total(h) + Total(d) BY <1>9, KeysFinite, TotalAdd
<1>14. Total(p) = Total(hd) + Total(s) BY <1>10, KeysFinite, TotalAdd
<1>15. Total(e) = Total(p) + Total(r) BY <1>11, KeysFinite, TotalAdd
<1>16. Total(e) = Accounted(c) BY <1>12, <1>13, <1>14, <1>15 DEF Accounted, r
<1>17. QED BY <1>16 DEF e

\* What is counted in the next state.
LEMMA AccountedNext ==
  ASSUME NEW c
  PROVE  Accounted(c)' = MapTotal(hashmap') + MapTotal(delta') + ListTotal(StashOf(c)')
                         + Total(reported'[c])
BY DEF Accounted

\* It holds at first: there is nothing in the maps.
LEMMA CountInit ==
  ASSUME InitAny
  PROVE  CountInv
<1>1. SType BY SInvInit DEF SInv
<1>2. /\ hashmap = EmptyMap /\ delta = EmptyMap /\ unreported = <<>>
      /\ lastReported = [c \in Collectors |-> EmptyMap]
      /\ recorded = [a \in Attributes |-> 0] /\ lastObserved = EmptyMap
      /\ reported = [c \in Collectors |-> [k \in Keys |-> 0]]
      /\ observed = [a \in Attributes |-> 0]
  BY DEF InitAny, Init
<1>3. \A c : StashOf(c) = <<>> BY <1>2 DEF StashOf
<1>4. CounterInv
  <2>1. reported \in [Collectors -> [Keys -> Nat]] BY <1>2
  <2>2. \A a \in Attributes : At(lastObserved, a) <= observed[a] BY <1>2, EmptyMapFacts
  <2>3. <<>> \in Seq(Counts) OBVIOUS
  <2>4. \A c \in Collectors : lastReported[c] = EmptyMap BY <1>2
  <2>5. QED BY <1>2, <1>3, <2>1, <2>2, <2>3, <2>4, EmptyCounts DEF CounterInv
<1>5. ASSUME NEW c \in Collectors
      PROVE  /\ Accounted(c) <= Total(recorded)
             /\ MapTotal(lastReported[c]) <= Total(reported[c])
  <2>1. Total(reported[c]) = 0
    <3>1. reported[c] \in [Keys -> Int] /\ \A k \in Keys : reported[c][k] = 0 BY <1>2
    <3>2. QED BY <3>1, KeysFinite, TotalZero
  <2>2. Total(recorded) = 0
    <3>1. recorded \in [Attributes -> Int] /\ \A a \in Attributes : recorded[a] = 0 BY <1>2
    <3>2. QED BY <3>1, TotalZero
  <2>3. lastReported[c] = EmptyMap BY <1>2
  <2>4. Accounted(c) = 0 + 0 + 0 + 0
    BY <1>2, <1>3, <2>1, EmptyCounts, ListTotalEmpty DEF Accounted
  <2>5. QED BY <2>1, <2>2, <2>3, <2>4, EmptyCounts
<1>6. QED BY <1>4, <1>5 DEF CountInv, TotalInv

\* Steps that leave the maps and the measurements alone keep it.
LEMMA CountKept ==
  ASSUME CountInv, UNCHANGED mapVars
  PROVE  CountInv'
<1>1. \A c : StashOf(c)' = StashOf(c) BY DEF StashOf, mapVars
<1>2. CounterInv' BY <1>1 DEF CountInv, CounterInv, mapVars
<1>3. ASSUME NEW c \in Collectors PROVE Accounted(c)' = Accounted(c)
  BY <1>1, AccountedNext DEF Accounted, mapVars
<1>4. TotalInv' BY <1>3 DEF CountInv, TotalInv, mapVars
<1>5. QED BY <1>2, <1>4 DEF CountInv

\* A measurement adds one to the delta map, under its key or the overflow key.
LEMMA RecordCounts ==
  ASSUME SInv, CountInv, instrument = "sync", NEW a \in Attributes, Record(a),
         UNCHANGED <<instrument, asyncVars>>
  PROVE  CountInv'
<1>1. SType /\ CounterInv /\ TotalInv BY DEF SInv, CountInv
<1> DEFINE old == At(hashmap, KeyOf(hashmap, a))
<1>2. /\ hashmap' = SetEntry(hashmap, a, old + 1) /\ recorded' = [recorded EXCEPT ![a] = @ + 1]
      /\ UNCHANGED <<delta, unreported, lastReported, reported>>
  BY DEF Record, Aggregate, collectVars
<1>3. hashmap \in Counts /\ a \in Keys BY <1>1 DEF CounterInv, Keys
<1>4. hashmap \in Maps /\ old \in Nat BY <1>3, CountsFacts
<1> HIDE DEF old
<1>5. old + 1 \in Nat /\ old + 1 \in Int BY <1>4
<1>6. hashmap' \in Counts BY <1>2, <1>3, <1>5, CountsEntry
<1>7. MapTotal(hashmap') = MapTotal(hashmap) + 1
  <2>1. MapTotal(SetEntry(hashmap, a, old + 1)) = MapTotal(hashmap) + (old + 1 - old)
    BY <1>3, <1>4, <1>5, EntryTotal DEF old
  <2>2. QED BY <1>2, <1>4, <2>1
<1>8. Total(recorded') = Total(recorded) + 1
  <2>1. recorded \in [Attributes -> Nat] BY <1>1 DEF SType
  <2>2. /\ recorded \in [Attributes -> Int] /\ recorded' \in [Attributes -> Int]
        /\ (\A k \in Attributes \ {a} : recorded'[k] = recorded[k])
        /\ recorded'[a] - recorded[a] = 1
    BY <1>2, <2>1
  <2>3. Total(recorded') = Total(recorded) + (recorded'[a] - recorded[a])
    BY <2>2, TotalUpdate
  <2>4. QED BY <2>2, <2>3
<1>9. \A c : StashOf(c)' = StashOf(c) BY <1>2 DEF StashOf
<1>10. CounterInv' BY <1>1, <1>2, <1>6, <1>9 DEF CounterInv, asyncVars
<1>11. ASSUME NEW c \in Collectors PROVE Accounted(c)' <= Total(recorded')
  <2>1. Accounted(c)' = MapTotal(hashmap) + 1 + MapTotal(delta) + ListTotal(StashOf(c))
                        + Total(reported[c])
    BY <1>2, <1>7, <1>9, AccountedNext
  <2>2. Accounted(c) <= Total(recorded) BY <1>1 DEF TotalInv
  <2>3. QED BY <1>1, <1>8, <2>1, <2>2, AccountedType DEF Accounted
<1>12. TotalInv' BY <1>1, <1>2, <1>11 DEF TotalInv
<1>13. QED BY <1>10, <1>12 DEF CountInv

\* The delta map is taken.
LEMMA TakeDeltaCounts ==
  ASSUME SInv, CountInv, TakeDelta, UNCHANGED <<instrument, asyncVars>>
  PROVE  CountInv'
<1>1. SType /\ CounterInv /\ TotalInv /\ CollectInv BY DEF SInv, CountInv
<1>2. /\ step = "take" /\ delta' = hashmap /\ hashmap' = EmptyMap
      /\ UNCHANGED <<unreported, lastReported, recorded, reported>>
  BY DEF TakeDelta
<1>3. delta = EmptyMap BY <1>1, <1>2 DEF CollectInv
<1>4. \A c : StashOf(c)' = StashOf(c) BY <1>2 DEF StashOf
<1>5. CounterInv' BY <1>1, <1>2, <1>4, EmptyCounts DEF CounterInv, asyncVars
<1>6. ASSUME NEW c \in Collectors PROVE Accounted(c)' = Accounted(c)
  <2>1. Accounted(c)' = 0 + MapTotal(hashmap) + ListTotal(StashOf(c)) + Total(reported[c])
    BY <1>2, <1>4, AccountedNext, EmptyCounts
  <2>2. Accounted(c) = MapTotal(hashmap) + 0 + ListTotal(StashOf(c)) + Total(reported[c])
    BY <1>3, EmptyCounts DEF Accounted
  <2>3. QED BY <1>1, <2>1, <2>2, AccountedType
<1>7. TotalInv' BY <1>1, <1>2, <1>6 DEF TotalInv
<1>8. QED BY <1>5, <1>7 DEF CountInv

\* What a collector's exporter knows once it is told of m.
LEMMA ToldCounts ==
  ASSUME NEW c \in Collectors, NEW m \in Counts, reported[c] \in [Keys -> Nat]
  PROVE  /\ Told(c, m) \in [Keys -> Nat]
         /\ Total(Told(c, m)) = MapTotal(m) + IF c \in Delta THEN Total(reported[c]) ELSE 0
<1>1. \A k \in Keys : At(m, k) \in Nat BY CountsFacts
<1>2. Told(c, m) \in [Keys -> Nat]
  <2>1. \A k \in Keys : (IF c \in Delta THEN reported[c][k] + At(m, k) ELSE At(m, k)) \in Nat
    BY <1>1
  <2>2. QED BY <2>1 DEF Told
<1> DEFINE f == [k \in Keys |-> At(m, k)]
<1>3. f \in [Keys -> Int] BY <1>1
<1>4. MapTotal(m) = Total(f) BY DEF MapTotal
<1>5. CASE c \in Delta
  <2>1. Adds(Told(c, m), f, reported[c], Keys)
    <3>1. \A k \in Keys : Told(c, m)[k] = f[k] + reported[c][k] BY <1>1, <1>5 DEF Told
    <3>2. Told(c, m) \in [Keys -> Int] /\ reported[c] \in [Keys -> Int] BY <1>2
    <3>3. QED BY <1>3, <3>1, <3>2 DEF Adds
  <2> HIDE DEF f
  <2>2. Total(Told(c, m)) = Total(f) + Total(reported[c]) BY <2>1, KeysFinite, TotalAdd
  <2>3. QED BY <1>2, <1>4, <1>5, <2>2
<1>6. CASE c \notin Delta
  <2>1. Told(c, m) = f BY <1>6 DEF Told
  <2> HIDE DEF f
  <2>2. Total(f) \in Int BY <1>3, KeysFinite, TotalType
  <2>3. QED BY <1>2, <1>4, <1>6, <2>1, <2>2
<1>7. QED BY <1>5, <1>6

\* What the invariant says of a collector.
LEMMA CounterFacts ==
  ASSUME CounterInv, instrument # "updown", NEW c \in Collectors
  PROVE  /\ hashmap \in Counts /\ delta \in Counts /\ lastReported[c] \in Counts
         /\ StashOf(c) \in Seq(Counts) /\ reported[c] \in [Keys -> Nat]
         /\ MapTotal(hashmap) \in Int /\ ListTotal(StashOf(c)) \in Int
         /\ MapTotal(delta) \in Int /\ MapTotal(delta) >= 0
         /\ MapTotal(lastReported[c]) \in Int /\ MapTotal(lastReported[c]) >= 0
         /\ Total(reported[c]) \in Int /\ Total(reported[c]) >= 0
<1>1. /\ hashmap \in Counts /\ delta \in Counts /\ lastReported[c] \in Counts
      /\ StashOf(c) \in Seq(Counts) /\ reported[c] \in [Keys -> Nat]
  BY DEF CounterInv
<1>2. MapTotal(hashmap) \in Nat /\ MapTotal(delta) \in Nat /\ MapTotal(lastReported[c]) \in Nat
  BY <1>1, MapTotalNat
<1>3. ListTotal(StashOf(c)) \in Nat BY <1>1, ListTotalNat
<1>4. Total(reported[c]) \in Nat BY <1>1, KeysFinite, TotalNat
<1>5. QED BY <1>1, <1>2, <1>3, <1>4

\* The delta is added to what is stashed, or not at all.
LEMMA StashedCounts ==
  ASSUME SType, CounterInv, instrument # "updown", NEW d \in Collectors
  PROVE  /\ StashedFor(d) \in Seq(Counts)
         /\ ListTotal(StashedFor(d)) \in Int /\ ListTotal(StashedFor(d)) >= 0
         /\ ListTotal(StashedFor(d)) <= ListTotal(StashOf(d)) + MapTotal(delta)
<1>1. /\ StashOf(d) \in Seq(Counts) /\ delta \in Counts
      /\ ListTotal(StashOf(d)) \in Int /\ MapTotal(delta) \in Int /\ MapTotal(delta) >= 0
  BY CounterFacts
<1>2. StashedFor(d) = Append(StashOf(d), delta) \/ StashedFor(d) = StashOf(d)
  BY StashDeltaFacts
<1>3. StashedFor(d) \in Seq(Counts)
  <2>1. Append(StashOf(d), delta) \in Seq(Counts) BY <1>1
  <2>2. QED BY <1>1, <1>2, <2>1
<1>4. ListTotal(StashedFor(d)) \in Nat BY <1>3, ListTotalNat
<1>5. ListTotal(Append(StashOf(d), delta)) = ListTotal(StashOf(d)) + MapTotal(delta)
  <2>1. StashOf(d) \in Seq(Maps) /\ delta \in Maps BY StashType DEF SType, Bounded
  <2>2. QED BY <2>1, ListTotalAppend
<1>6. ListTotal(StashedFor(d)) <= ListTotal(StashOf(d)) + MapTotal(delta)
  <2>1. CASE StashedFor(d) = Append(StashOf(d), delta)
    <3>1. ListTotal(StashedFor(d)) = ListTotal(StashOf(d)) + MapTotal(delta) BY <1>5, <2>1
    <3>2. QED BY <1>1, <1>4, <3>1
  <2>2. CASE StashedFor(d) = StashOf(d)
    <3>1. ListTotal(StashedFor(d)) = ListTotal(StashOf(d)) BY <2>2
    <3>2. QED BY <1>1, <3>1
  <2>3. QED BY <1>2, <2>1, <2>2
<1>7. QED BY <1>3, <1>4, <1>6

\* The merged map has no more than was stashed, and was reported before if the
\* collector is cumulative.
LEMMA MergedCounts ==
  ASSUME SType, CounterInv, instrument # "updown", collecting \in Collectors,
         collecting \in DOMAIN StashDelta, NEW m \in MergedMetrics
  PROVE  /\ m \in Counts /\ MapTotal(m) \in Int /\ MapTotal(m) >= 0
         /\ MapTotal(m) <= ListTotal(StashedFor(collecting))
                           + IF collecting \in Delta THEN 0 ELSE MapTotal(lastReported[collecting])
<1> DEFINE list == StashedFor(collecting)
           last == lastReported[collecting]
<1>1. list = StashDelta[collecting] BY DEF StashedFor
<1>2. list \in Seq(Counts) /\ ListTotal(list) \in Int BY StashedCounts
<1>3. last \in Counts /\ MapTotal(last) \in Int BY CounterFacts
<1>4. MergedMetrics = IF collecting \in Delta THEN MergeMaps(list)
                      ELSE UNION {MergeMap(x, last) : x \in MergeMaps(list)}
  BY <1>1 DEF MergedMetrics
<1> HIDE DEF list, last
<1>5. m \in Counts /\ MapTotal(m) <= ListTotal(list) + IF collecting \in Delta THEN 0 ELSE MapTotal(last)
  <2>1. CASE collecting \in Delta
    <3>1. m \in Counts /\ MapTotal(m) <= ListTotal(list) BY <1>2, <1>4, <2>1, MergeMapsCounts
    <3>2. QED BY <1>2, <2>1, <3>1
  <2>2. CASE collecting \notin Delta
    <3>1. PICK x \in MergeMaps(list) : m \in MergeMap(x, last) BY <1>4, <2>2
    <3>2. x \in Counts /\ MapTotal(x) <= ListTotal(list) BY <1>2, MergeMapsCounts
    <3>3. m \in Counts /\ MapTotal(m) <= MapTotal(x) + MapTotal(last)
      BY <1>3, <3>1, <3>2, MergeCounts
    <3>4. MapTotal(x) \in Nat /\ MapTotal(m) \in Nat BY <3>2, <3>3, MapTotalNat
    <3>5. QED BY <1>2, <1>3, <2>2, <3>2, <3>3, <3>4
  <2>3. QED BY <2>1, <2>2
<1>6. MapTotal(m) \in Nat BY <1>5, MapTotalNat
<1>7. QED BY <1>5, <1>6 DEF list, last

\* The end of a collection: what is stashed and reported in the next state.
Ends ==
  /\ step = "build" /\ delta' = EmptyMap
  /\ UNCHANGED <<hashmap, recorded, observed, lastObserved, instrument>>

\* Every collector's count stays within bounds if none gains more than it loses.
LEMMA EndCounts ==
  ASSUME SInv, CountInv, Ends,
         instrument # "updown" =>
           /\ reported' \in [Collectors -> [Keys -> Nat]]
           /\ \A d \in Collectors : lastReported'[d] \in Counts /\ StashOf(d)' \in Seq(Counts),
         instrument = "sync" =>
           \A d \in Collectors :
             /\ ListTotal(StashOf(d)') + Total(reported'[d])
                  <= ListTotal(StashOf(d)) + MapTotal(delta) + Total(reported[d])
             /\ d \notin Delta => MapTotal(lastReported'[d]) <= Total(reported'[d])
  PROVE  CountInv'
<1>1. SType /\ CounterInv /\ TotalInv BY DEF SInv, CountInv
<1>2. CounterInv' BY <1>1, EmptyCounts DEF CounterInv, Ends
<1>3. ASSUME instrument = "sync", NEW d \in Collectors
      PROVE  Accounted(d)' <= Total(recorded')
  <2>1. Accounted(d)' = MapTotal(hashmap) + 0 + ListTotal(StashOf(d)') + Total(reported'[d])
    BY AccountedNext, EmptyCounts DEF Ends
  <2>2. Accounted(d) <= Total(recorded) BY <1>1, <1>3 DEF TotalInv
  <2>3. /\ MapTotal(hashmap) \in Int /\ MapTotal(delta) \in Int /\ Total(recorded) \in Int
        /\ ListTotal(StashOf(d)) \in Int /\ Total(reported[d]) \in Int
    BY <1>1, AccountedType
  <2>4. ListTotal(StashOf(d)') \in Int /\ Total(reported'[d]) \in Int
    <3>1. StashOf(d)' \in Seq(Counts) /\ reported'[d] \in [Keys -> Nat] BY <1>3
    <3>2. ListTotal(StashOf(d)') \in Nat BY <3>1, ListTotalNat
    <3>3. Total(reported'[d]) \in Nat BY <3>1, KeysFinite, TotalNat
    <3>4. QED BY <3>2, <3>3
  <2>5. ListTotal(StashOf(d)') + Total(reported'[d])
          <= ListTotal(StashOf(d)) + MapTotal(delta) + Total(reported[d])
    BY <1>3
  <2>6. Accounted(d)' <= Accounted(d) BY <2>1, <2>3, <2>4, <2>5 DEF Accounted
  <2>7. Accounted(d) \in Int /\ Accounted(d)' \in Int BY <2>1, <2>3, <2>4 DEF Accounted
  <2>8. QED BY <2>2, <2>3, <2>6, <2>7 DEF Ends
<1>4. TotalInv' BY <1>3 DEF TotalInv, Ends
<1>5. QED BY <1>2, <1>4 DEF CountInv

\* The single delta collector is told of the delta; another one loses it.
LEMMA BuildFastCounts ==
  ASSUME SInv, CountInv, BuildFast, UNCHANGED <<instrument, asyncVars>>
  PROVE  CountInv'
<1>1. SType /\ CounterInv /\ TotalInv /\ CollectInv BY DEF SInv, CountInv
<1>2. /\ step = "build" /\ collecting \in Delta /\ Return
      /\ reported' = [reported EXCEPT ![collecting] = Told(collecting, delta)]
      /\ UNCHANGED <<unreported, lastReported>>
  BY DEF BuildFast, FastPath
<1>3. Ends BY <1>2 DEF Ends, Return, asyncVars
<1>4. PICK c \in Collectors : c = collecting BY <1>1, <1>2 DEF SType, CollectInv
<1>5. \A d : StashOf(d)' = StashOf(d) BY <1>2 DEF StashOf
<1>6. reported'[c] = Told(c, delta) /\ \A d \in Collectors \ {c} : reported'[d] = reported[d]
  BY <1>1, <1>2, <1>4 DEF SType
<1>7. ASSUME instrument # "updown"
      PROVE  /\ reported' \in [Collectors -> [Keys -> Nat]]
             /\ Total(reported'[c]) = MapTotal(delta) + Total(reported[c])
  <2>1. delta \in Counts /\ reported[c] \in [Keys -> Nat] BY <1>1, <1>7, CounterFacts
  <2>2. /\ Told(c, delta) \in [Keys -> Nat]
        /\ Total(Told(c, delta)) = MapTotal(delta) + IF c \in Delta THEN Total(reported[c]) ELSE 0
    BY <2>1, ToldCounts
  <2>3. reported \in [Collectors -> [Keys -> Nat]] BY <1>1, <1>7 DEF CounterInv
  <2>4. reported' \in [Collectors -> [Keys -> Nat]] BY <1>2, <1>4, <2>2, <2>3
  <2>5. QED BY <1>2, <1>4, <1>6, <2>2, <2>4
<1>8. ASSUME instrument # "updown", NEW d \in Collectors
      PROVE  /\ lastReported'[d] \in Counts /\ StashOf(d)' \in Seq(Counts)
             /\ ListTotal(StashOf(d)') + Total(reported'[d])
                  <= ListTotal(StashOf(d)) + MapTotal(delta) + Total(reported[d])
  <2>1. /\ lastReported[d] \in Counts /\ StashOf(d) \in Seq(Counts)
        /\ ListTotal(StashOf(d)) \in Int /\ Total(reported[d]) \in Int
        /\ MapTotal(delta) \in Int /\ MapTotal(delta) >= 0
    BY <1>1, <1>8, CounterFacts
  <2>2. Total(reported'[d]) = MapTotal(delta) + Total(reported[d])
        \/ Total(reported'[d]) = Total(reported[d])
    BY <1>6, <1>7, <1>8
  <2>3. QED BY <1>2, <1>5, <2>1, <2>2
<1>9. ASSUME instrument = "sync", NEW d \in Collectors, d \notin Delta
      PROVE  MapTotal(lastReported'[d]) <= Total(reported'[d])
  <2>1. reported'[d] = reported[d] /\ lastReported' = lastReported BY <1>2, <1>4, <1>6, <1>9
  <2>2. QED BY <1>1, <1>9, <2>1 DEF TotalInv
<1>10. QED BY <1>3, <1>7, <1>8, <1>9, EndCounts

\* Nothing has ever been stashed for the collector.
LEMMA BuildNothingCounts ==
  ASSUME SInv, CountInv, BuildNothing, UNCHANGED <<instrument, asyncVars>>
  PROVE  CountInv'
<1>1. SType /\ CounterInv /\ TotalInv BY DEF SInv, CountInv
<1>2. /\ step = "build" /\ unreported' = StashDelta /\ Return
      /\ UNCHANGED <<lastReported, reported>>
  BY DEF BuildNothing
<1>3. Ends BY <1>2 DEF Ends, Return, asyncVars
<1>4. \A d : StashOf(d)' = StashedFor(d) BY <1>2 DEF StashOf, StashedFor
<1>5. ASSUME instrument # "updown", NEW d \in Collectors
      PROVE  /\ lastReported'[d] \in Counts /\ StashOf(d)' \in Seq(Counts)
             /\ ListTotal(StashOf(d)') + Total(reported'[d])
                  <= ListTotal(StashOf(d)) + MapTotal(delta) + Total(reported[d])
  <2>1. /\ lastReported[d] \in Counts /\ Total(reported[d]) \in Int
        /\ ListTotal(StashOf(d)) \in Int /\ MapTotal(delta) \in Int
    BY <1>1, <1>5, CounterFacts
  <2>2. /\ StashedFor(d) \in Seq(Counts) /\ ListTotal(StashedFor(d)) \in Int
        /\ ListTotal(StashedFor(d)) <= ListTotal(StashOf(d)) + MapTotal(delta)
    BY <1>1, <1>5, StashedCounts
  <2>3. QED BY <1>2, <1>4, <2>1, <2>2
<1>6. instrument # "updown" => reported' \in [Collectors -> [Keys -> Nat]]
  BY <1>1, <1>2 DEF CounterInv
<1>7. instrument = "sync" =>
        \A d \in Collectors : d \notin Delta => MapTotal(lastReported'[d]) <= Total(reported'[d])
  BY <1>1, <1>2 DEF TotalInv
<1>8. QED BY <1>3, <1>5, <1>6, <1>7, EndCounts

\* The stash is merged and reported, and emptied: what is reported, if anything,
\* is no more than what was stashed, and was reported before if the collector is
\* cumulative.
LEMMA BuildMetricsCounts ==
  ASSUME SInv, CountInv, BuildMetrics, UNCHANGED <<instrument, asyncVars>>
  PROVE  CountInv'
<1>1. SType /\ CounterInv /\ TotalInv /\ CollectInv BY DEF SInv, CountInv
<1>2. PICK m \in MergedMetrics :
        /\ lastReported' = [lastReported EXCEPT ![collecting] = m]
        /\ reported' = IF DOMAIN m = {} THEN reported
                       ELSE [reported EXCEPT ![collecting] = Told(collecting, m)]
  BY DEF BuildMetrics
<1>3. /\ step = "build" /\ Return /\ collecting \in DOMAIN StashDelta
      /\ unreported' = [StashDelta EXCEPT ![collecting] = <<>>]
  BY DEF BuildMetrics
<1>4. PICK c \in Collectors : c = collecting BY <1>1, <1>3 DEF SType, CollectInv
<1>5. Ends BY <1>3 DEF Ends, Return, asyncVars
<1>6. StashOf(c)' = <<>> /\ \A d : d # c => StashOf(d)' = StashedFor(d)
  BY <1>3, <1>4 DEF StashOf, StashedFor
<1>7. /\ lastReported'[c] = m
      /\ \A d \in Collectors : d # c => lastReported'[d] = lastReported[d] /\ reported'[d] = reported[d]
  BY <1>1, <1>2, <1>4 DEF SType
<1>8. reported'[c] = IF DOMAIN m = {} THEN reported[c] ELSE Told(c, m)
  BY <1>1, <1>2, <1>4 DEF SType
<1>9. ASSUME instrument # "updown"
      PROVE  /\ m \in Counts /\ MapTotal(m) \in Int /\ MapTotal(m) >= 0
             /\ MapTotal(m) <= ListTotal(StashedFor(c))
                               + IF c \in Delta THEN 0 ELSE MapTotal(lastReported[c])
             /\ Told(c, m) \in [Keys -> Nat] /\ reported \in [Collectors -> [Keys -> Nat]]
             /\ Total(Told(c, m)) = MapTotal(m) + IF c \in Delta THEN Total(reported[c]) ELSE 0
  <2>1. /\ m \in Counts /\ MapTotal(m) \in Int /\ MapTotal(m) >= 0
        /\ MapTotal(m) <= ListTotal(StashedFor(c))
                          + IF c \in Delta THEN 0 ELSE MapTotal(lastReported[c])
    BY <1>1, <1>3, <1>4, <1>9, MergedCounts
  <2>2. reported[c] \in [Keys -> Nat] BY <1>1, <1>9, CounterFacts
  <2>3. /\ Told(c, m) \in [Keys -> Nat]
        /\ Total(Told(c, m)) = MapTotal(m) + IF c \in Delta THEN Total(reported[c]) ELSE 0
    BY <2>1, <2>2, ToldCounts
  <2>4. QED BY <1>1, <1>9, <2>1, <2>3 DEF CounterInv
<1>10. instrument # "updown" => reported' \in [Collectors -> [Keys -> Nat]]
  BY <1>2, <1>4, <1>9
<1>11. ASSUME NEW d \in Collectors, instrument # "updown"
       PROVE  lastReported'[d] \in Counts /\ StashOf(d)' \in Seq(Counts)
  <2>1. lastReported[d] \in Counts /\ StashedFor(d) \in Seq(Counts)
    BY <1>1, <1>11, CounterFacts, StashedCounts
  <2>2. <<>> \in Seq(Counts) OBVIOUS
  <2>3. QED BY <1>6, <1>7, <1>9, <1>11, <2>1, <2>2
<1>12. ASSUME NEW d \in Collectors, instrument = "sync"
       PROVE  /\ ListTotal(StashOf(d)') + Total(reported'[d])
                   <= ListTotal(StashOf(d)) + MapTotal(delta) + Total(reported[d])
              /\ d \notin Delta => MapTotal(lastReported'[d]) <= Total(reported'[d])
  <2>1. /\ MapTotal(lastReported[d]) \in Int /\ MapTotal(lastReported[d]) >= 0
        /\ Total(reported[d]) \in Int /\ Total(reported[d]) >= 0
        /\ ListTotal(StashOf(d)) \in Int /\ MapTotal(delta) \in Int
    BY <1>1, <1>12, CounterFacts
  <2>2. /\ ListTotal(StashedFor(d)) \in Int /\ ListTotal(StashedFor(d)) >= 0
        /\ ListTotal(StashedFor(d)) <= ListTotal(StashOf(d)) + MapTotal(delta)
    BY <1>1, <1>12, StashedCounts
  <2>3. d \notin Delta => MapTotal(lastReported[d]) <= Total(reported[d])
    BY <1>1, <1>12 DEF TotalInv
  <2>4. CASE d # c BY <1>6, <1>7, <2>1, <2>2, <2>3, <2>4
  <2>5. CASE d = c
    <3>1. ListTotal(StashOf(d)') = 0 BY <1>6, <2>5, ListTotalEmpty
    <3>2. CASE DOMAIN m = {}
      <4>1. MapTotal(m) = 0
        <5>1. MapTotal(EmptyMap) = 0 /\ \A k : At(EmptyMap, k) = 0
          BY EmptyCounts, EmptyMapFacts
        <5>2. \A k \in Keys : At(m, k) = At(EmptyMap, k) BY <3>2, <5>1 DEF At
        <5>3. [k \in Keys |-> At(m, k)] = [k \in Keys |-> At(EmptyMap, k)] BY <5>2
        <5>4. QED BY <5>1, <5>3 DEF MapTotal
      <4>2. reported'[d] = reported[d] BY <1>8, <2>5, <3>2
      <4>3. MapTotal(lastReported'[d]) = 0 BY <1>7, <2>5, <4>1
      <4>4. QED BY <2>1, <2>2, <3>1, <4>2, <4>3
    <3>3. CASE DOMAIN m # {}
      <4>1. Total(reported'[d]) = MapTotal(m) + IF d \in Delta THEN Total(reported[d]) ELSE 0
        BY <1>8, <1>9, <1>12, <2>5, <3>3
      <4>2. /\ MapTotal(m) \in Int
            /\ MapTotal(m) <= ListTotal(StashedFor(d))
                              + IF d \in Delta THEN 0 ELSE MapTotal(lastReported[d])
        BY <1>9, <1>12, <2>5
      <4>3. lastReported'[d] = m BY <1>7, <2>5
      <4>4. QED BY <2>1, <2>2, <2>3, <3>1, <4>1, <4>2, <4>3
    <3>4. QED BY <3>2, <3>3
  <2>6. QED BY <2>4, <2>5
<1>13. QED BY <1>5, <1>10, <1>11, <1>12, EndCounts

\* The callbacks of a monotonic sum: no value is below the one before, and so
\* no difference is negative.
LEMMA ObserveCounts ==
  ASSUME SInv, CountInv, NEW c \in Collectors, Observe(c)
  PROVE  CountInv'
<1>1. SType /\ CounterInv BY DEF SInv, CountInv
<1>2. instrument' = instrument /\ instrument # "sync" BY DEF Observe
<1>3. TotalInv' BY <1>2 DEF TotalInv
<1>4. CASE instrument = "monotonic"
  <2>1. PICK new \in Reports :
          /\ observed' = Updated(new)
          /\ \E maps \in RecordSums(<<lastObserved, hashmap>>, new) :
               lastObserved' = maps[1] /\ hashmap' = maps[2]
    BY <1>4 DEF Observe, Callbacks, Updated
  <2>2. PICK maps \in RecordSums(<<lastObserved, hashmap>>, new) :
          lastObserved' = maps[1] /\ hashmap' = maps[2]
    BY <2>1
  <2>3. UNCHANGED <<delta, unreported, lastReported, reported, instrument>>
    BY DEF Observe, collectVars
  <2>4. new \in Maps /\ DOMAIN new \subseteq Attributes BY <1>1, ReportFacts
  <2>5. \A a \in DOMAIN new : new[a] >= observed[a] BY <1>4 DEF Reports
  <2>6. /\ observed \in [Attributes -> Nat] /\ lastObserved \in Bounded /\ hashmap \in Counts
        /\ \A a \in Attributes : At(lastObserved, a) <= observed[a]
    BY <1>1, <1>4 DEF SType, CounterInv
  <2> DEFINE start == <<lastObserved, hashmap>>
  <2>7. /\ start \in Bounded \X Counts /\ maps \in RecordSums(start, new)
        /\ \A a \in Attributes : At(start[1], a) <= observed[a]
    BY <2>2, <2>6
  <2> HIDE DEF start
  <2>8. /\ maps[2] \in Counts
        /\ \A a \in Attributes :
             At(maps[1], a) <= IF a \in DOMAIN new THEN new[a] ELSE observed[a]
    BY <2>4, <2>5, <2>6, <2>7, SumsCounts
  <2>9. \A a \in Attributes : At(lastObserved', a) <= observed'[a]
    BY <2>1, <2>2, <2>8 DEF Updated
  <2>10. \A d : StashOf(d)' = StashOf(d) BY <2>3 DEF StashOf
  <2>11. CounterInv' BY <1>1, <1>4, <2>2, <2>3, <2>8, <2>9, <2>10 DEF CounterInv
  <2>12. QED BY <1>3, <2>11 DEF CountInv
<1>5. CASE instrument # "monotonic"
  <2>1. instrument = "updown" BY <1>1, <1>2, <1>5 DEF SType
  <2>2. QED BY <1>2, <1>3, <2>1 DEF CountInv, CounterInv
<1>6. QED BY <1>4, <1>5

\* Every step keeps it.
LEMMA CountNext ==
  ASSUME SInv, CountInv, [NextAny]_allVars
  PROVE  CountInv'
<1>1. CASE Shared
  <2>1. UNCHANGED <<instrument, asyncVars>> BY <1>1 DEF Shared
  <2>2. CASE \E c \in Collectors : StartReader(c) \/ PushCollector(c)
    <3>1. UNCHANGED mapVars
      BY <2>1, <2>2 DEF StartReader, PushCollector, mapVars, asyncVars, collectVars
    <3>2. QED BY <3>1, CountKept
  <2>3. CASE BuildFast BY <2>1, <2>3, BuildFastCounts
  <2>4. CASE BuildNothing BY <2>1, <2>4, BuildNothingCounts
  <2>5. CASE BuildMetrics BY <2>1, <2>5, BuildMetricsCounts
  <2>6. CASE instrument # "updown" /\ TakeDelta BY <2>1, <2>6, TakeDeltaCounts
  <2>7. CASE instrument = "sync" /\ \E a \in Attributes : Record(a) BY <2>1, <2>7, RecordCounts
  <2>8. CASE instrument = "sync" /\ \E c \in Collectors : MeterCollect(c)
    <3>1. UNCHANGED mapVars BY <2>1, <2>8 DEF MeterCollect, mapVars, asyncVars
    <3>2. QED BY <3>1, CountKept
  <2>9. QED BY <1>1, <2>2, <2>3, <2>4, <2>5, <2>6, <2>7, <2>8 DEF Shared
<1>2. ASSUME NEW c \in Collectors, Observe(c) PROVE CountInv' BY <1>2, ObserveCounts
<1>3. ASSUME NEW c \in Collectors, CollectObserved(c) PROVE CountInv'
  <2>1. UNCHANGED mapVars BY <1>3 DEF CollectObserved, MeterCollect, mapVars
  <2>2. QED BY <2>1, CountKept
<1>4. CASE BuildDeltaFromRound
  <2>1. instrument' = "updown" BY <1>4 DEF BuildDeltaFromRound
  <2>2. QED BY <2>1 DEF CountInv, CounterInv, TotalInv
<1>5. CASE UNCHANGED allVars
  <2>1. UNCHANGED mapVars BY <1>5 DEF allVars, vars, asyncVars, collectVars, mapVars
  <2>2. QED BY <2>1, CountKept
<1>6. QED BY <1>1, <1>2, <1>3, <1>4, <1>5 DEF NextAny

\* Only a collection tells an exporter anything, and then only its own.
LEMMA ToldOnly ==
  ASSUME SInv, [NextAny]_allVars, reported' # reported
  PROVE  (BuildFast \/ BuildMetrics) /\ UNCHANGED <<instrument, asyncVars>>
<1>1. CASE Shared
  <2>1. ASSUME NEW c \in Collectors, StartReader(c) \/ PushCollector(c) \/ MeterCollect(c)
        PROVE  FALSE
    BY <2>1 DEF StartReader, PushCollector, MeterCollect
  <2>2. ASSUME NEW a \in Attributes, Record(a) PROVE FALSE BY <2>2 DEF Record
  <2>3. ~TakeDelta /\ ~BuildNothing BY DEF TakeDelta, BuildNothing
  <2>4. QED BY <1>1, <2>1, <2>2, <2>3 DEF Shared
<1>2. ASSUME NEW c \in Collectors, Observe(c) \/ CollectObserved(c) PROVE FALSE
  BY <1>2 DEF Observe, CollectObserved, MeterCollect
<1>3. CASE BuildDeltaFromRound BY <1>3 DEF BuildDeltaFromRound
<1>4. CASE UNCHANGED allVars BY <1>4 DEF allVars, vars
<1>5. QED BY <1>1, <1>2, <1>3, <1>4 DEF NextAny

\* What is told is at least what was known: deltas are not negative, and a
\* cumulative value has the one before in it while the attribute sets fit.
LEMMA Grows ==
  ASSUME SInv, CountInv, [NextAny]_allVars, instrument # "updown",
         NEW d \in Collectors, d \in Delta \/ Fits', NEW k \in Keys
  PROVE  reported'[d][k] >= reported[d][k]
<1>1. SType /\ CounterInv /\ CollectInv /\ FitsInv /\ ToldInv BY DEF SInv, CountInv
<1>2. reported[d][k] \in Nat BY <1>1 DEF CounterInv
<1>3. CASE reported' = reported BY <1>2, <1>3
<1>4. CASE BuildFast
  <2>1. /\ step = "build" /\ collecting \in Delta
        /\ reported' = [reported EXCEPT ![collecting] = Told(collecting, delta)]
    BY <1>4 DEF BuildFast, FastPath
  <2>2. delta \in Counts BY <1>1 DEF CounterInv
  <2>3. At(delta, k) \in Nat BY <2>2, CountsFacts
  <2>4. CASE d = collecting
    <3>1. reported'[d] = Told(d, delta) BY <1>1, <2>1, <2>4 DEF SType
    <3>2. reported'[d][k] = reported[d][k] + At(delta, k) BY <2>1, <2>4, <3>1 DEF Told
    <3>3. QED BY <1>2, <2>3, <3>2
  <2>5. CASE d # collecting
    <3>1. reported'[d] = reported[d] BY <1>1, <2>1, <2>5 DEF SType
    <3>2. QED BY <1>2, <3>1
  <2>6. QED BY <2>4, <2>5
<1>5. CASE BuildMetrics
  <2>1. PICK m \in MergedMetrics :
          reported' = IF DOMAIN m = {} THEN reported
                      ELSE [reported EXCEPT ![collecting] = Told(collecting, m)]
    BY <1>5 DEF BuildMetrics
  <2>2. step = "build" /\ collecting \in DOMAIN StashDelta /\ recorded' = recorded
    BY <1>5 DEF BuildMetrics, Return
  <2>3. collecting \in Collectors BY <1>1, <2>2 DEF SType, CollectInv
  <2>4. CASE DOMAIN m = {} \/ d # collecting
    <3>1. reported'[d] = reported[d] BY <1>1, <2>1, <2>4 DEF SType
    <3>2. QED BY <1>2, <3>1
  <2>5. CASE DOMAIN m # {} /\ d = collecting
    <3>1. reported'[d] = Told(d, m) BY <1>1, <2>1, <2>5 DEF SType
    <3>2. reported'[d][k] = IF d \in Delta THEN reported[d][k] + At(m, k) ELSE At(m, k)
      BY <3>1 DEF Told
    <3>3. CASE d \in Delta
      <4>1. m \in Counts BY <1>1, <2>2, <2>3, MergedCounts
      <4>2. At(m, k) \in Nat BY <4>1, CountsFacts
      <4>3. QED BY <1>2, <3>2, <3>3, <4>2
    <3>4. CASE d \notin Delta
      <4>1. Fit(InUse(recorded))
        <5>1. Fits' BY <3>4
        <5>2. QED BY <2>2, <5>1 DEF Fits, Fit, InUse
      <4>2. At(m, k) = SumOf(StashedFor(d), k) + At(lastReported[d], k)
        BY <1>1, <2>2, <2>3, <2>5, <3>4, <4>1, MergedFits
      <4>3. reported[d][k] = At(lastReported[d], k) BY <1>1, <3>4, <4>1 DEF ToldInv
      <4>4. SumOf(StashedFor(d), k) \in Nat
        <5>1. StashedFor(d) \in Seq(Counts) BY <1>1, StashedCounts
        <5>2. QED BY <5>1, SumCounts
      <4>5. QED BY <1>2, <3>2, <3>4, <4>2, <4>3, <4>4
    <3>5. QED BY <3>3, <3>4
  <2>6. QED BY <2>4, <2>5
<1>6. QED BY <1>3, <1>4, <1>5, ToldOnly

\* CountInv is an invariant: the maps of an instrument that only goes up hold
\* nothing negative, and what is counted for a collector of a synchronous
\* instrument, in whatever map, is never more than was recorded.
THEOREM Counted == SpecAny => []CountInv
<1>1. InitAny => CountInv BY CountInit
<1>2. SInv /\ CountInv /\ [NextAny]_allVars => CountInv' BY CountNext
<1>3. QED BY <1>1, <1>2, Consistent, PTL DEF SpecAny

\* No measurement of a synchronous instrument is counted twice for a collector:
\* past the cardinality limit, where entries are merged into the overflow point,
\* and when a reader is added or collects during a collection too.
THEOREM NeverCountedTwice == SpecAny => []SyncNeverOverReports
<1>1. ASSUME SInv, CountInv PROVE SyncNeverOverReports
  <2>1. SType /\ TotalInv BY <1>1 DEF SInv, CountInv
  <2>2. ASSUME instrument = "sync", NEW c \in Collectors
        PROVE  Total([k \in Keys |-> Pending(c, k) + reported[c][k]]) <= Total(recorded)
    <3>1. Accounted(c) <= Total(recorded) BY <2>1, <2>2 DEF TotalInv
    <3>2. QED BY <2>1, <3>1, AccountedSplit
  <2>3. QED BY <2>2 DEF SyncNeverOverReports, NeverOverReports
<1>2. QED BY <1>1, Consistent, Counted, PTL

\* What the exporter of a collector knows of an instrument that only goes up
\* never decreases: of a delta collector always, of a cumulative one as long as
\* the attribute sets fit within the limit.
THEOREM CountersGrow == SpecAny => CounterNeverDecreases
<1>1. SInv /\ CountInv /\ [NextAny]_allVars =>
        [instrument # "updown" =>
           \A c \in Collectors : c \in Delta \/ Fits' =>
             \A k \in Keys : reported'[c][k] >= reported[c][k]]_allVars
  BY Grows
<1>2. QED BY <1>1, Consistent, Counted, PTL DEF SpecAny, CounterNeverDecreases
=============================================================================
