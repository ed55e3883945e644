------------------------ MODULE CircularBuffer_proofs ------------------------
(***************************************************************************)
(* Proofs about CircularBuffer, for any number of producers, any set of    *)
(* elements and any max_size: the buffer delivers the accepted elements in *)
(* the order of acceptance, and a producer that loses a race gets its own  *)
(* element back.  Both follow from the inductive invariant IInv.           *)
(***************************************************************************)
EXTENDS CircularBuffer, FiniteSetTheorems, TLAPS

-----------------------------------------------------------------------------
(* Arithmetic of the ring.                                                 *)

\* Division with remainder.
LEMMA DivMod ==
  ASSUME NEW n \in Nat \ {0}, NEW a \in Nat
  PROVE  /\ a % n \in 0..(n - 1) /\ a \div n \in Nat
         /\ a = n * (a \div n) + (a % n)
OBVIOUS

\* No multiple of n lies strictly between 0 and n.
LEMMA NoMultiple ==
  ASSUME NEW n \in Nat \ {0}, NEW k \in Int, 0 < n * k, n * k < n
  PROVE  FALSE
<1>1. CASE k <= 0 BY <1>1
<1>2. CASE k >= 1 BY <1>2
<1>3. QED BY <1>1, <1>2

\* Two positions less than a ring apart have different slots.
LEMMA ApartMod ==
  ASSUME NEW n \in Nat \ {0}, NEW a \in Nat, NEW b \in Nat, a < b, b - a < n
  PROVE  a % n # b % n
<1>1. SUFFICES ASSUME a % n = b % n PROVE FALSE
  OBVIOUS
<1>2. PICK k \in Int : b - a = n * k
  <2>1. PICK x \in Nat, r \in Nat : a = n * x + r /\ r = a % n BY DivMod
  <2>2. PICK y \in Nat : b = n * y + r BY <1>1, <2>1, DivMod
  <2>3. b - a = n * (y - x) /\ y - x \in Int BY <2>1, <2>2
  <2>4. QED BY <2>3
<1>3. QED BY <1>2, NoMultiple

\* The remainder is the only decomposition.
LEMMA ModUnique ==
  ASSUME NEW n \in Nat \ {0}, NEW a \in Nat, NEW r \in 0..(n - 1), NEW q \in Nat,
         a = n * q + r
  PROVE  a % n = r
<1> DEFINE k == q - (a \div n)
<1>1. k \in Int /\ a % n \in 0..(n - 1) BY DivMod
<1>2. (a % n) - r = n * k BY DivMod
<1>3. CASE k <= -1 BY <1>1, <1>2, <1>3
<1>4. CASE k >= 1 BY <1>1, <1>2, <1>4
<1>5. CASE k = 0 BY <1>1, <1>2, <1>5
<1>6. QED BY <1>1, <1>3, <1>4, <1>5

\* Walking i slots on from a position wraps at most once.
LEMMA WalkMod ==
  ASSUME NEW n \in Nat \ {0}, NEW a \in Nat, NEW i \in 0..(n - 1)
  PROVE  /\ (a % n) + i < n => (a + i) % n = (a % n) + i
         /\ (a % n) + i >= n => (a + i) % n = (a % n) + i - n
<1>1. /\ a % n \in 0..(n - 1) /\ a \div n \in Nat
      /\ a = n * (a \div n) + (a % n)
  BY DivMod
<1>2. ASSUME (a % n) + i < n PROVE (a + i) % n = (a % n) + i
  <2>1. a + i = n * (a \div n) + ((a % n) + i) BY <1>1
  <2>2. (a % n) + i \in 0..(n - 1) BY <1>1, <1>2
  <2>3. a + i \in Nat OBVIOUS
  <2>4. QED BY <2>1, <2>2, <2>3, <1>1, ModUnique
<1>3. ASSUME (a % n) + i >= n PROVE (a + i) % n = (a % n) + i - n
  <2>1. PICK r \in 0..(n - 1) : r = (a % n) + i - n BY <1>1, <1>3
  <2>2. PICK q \in Nat : q = (a \div n) + 1 BY <1>1
  <2>3. a + i = n * q + r BY <1>1, <2>1, <2>2
  <2>4. a + i \in Nat OBVIOUS
  <2>5. (a + i) % n = r BY <2>3, <2>4, ModUnique
  <2>6. QED BY <2>1, <2>5
<1>4. QED BY <1>2, <1>3

\* data_ has at least one slot.
LEMMA CapacityPositive == capacity \in Nat \ {0}
BY MaxSizeAssumption DEF capacity

\* The slot of a position is an index of data_.
LEMMA SlotInRing == \A i \in Nat : Slot(i) \in Slots
BY CapacityPositive, DivMod DEF Slot, Slots

\* Two positions less than capacity apart do not share a slot.
LEMMA SlotsApart ==
  ASSUME NEW a \in Nat, NEW b \in Nat, a < b, b - a < capacity
  PROVE  Slot(a) # Slot(b)
BY CapacityPositive, ApartMod DEF Slot

\* PeekImpl().Take(n) is the next n positions, in order, wrapped or not.
LEMMA PeekTake ==
  ASSUME NEW t \in Nat, NEW h \in Nat, NEW n \in Nat,
         1 <= n, n <= h - t, h - t <= MaxSize
  PROVE  LET r == Take(PeekImpl(t, h), n)
         IN  /\ r \in [first : Span, second : Span]
             /\ RangeSize(r) = n
             /\ \A i \in 0..(n - 1) : ForEach(r, i) = Slot(t + i)
<1> DEFINE r == Take(PeekImpl(t, h), n)
<1> DEFINE ti == t % capacity
<1> DEFINE hi == h % capacity
<1>1. capacity \in Nat \ {0} /\ capacity = MaxSize + 1
  BY CapacityPositive DEF capacity
<1>2. ti \in 0..(capacity - 1) /\ hi \in 0..(capacity - 1)
  BY <1>1, DivMod
<1>3. MaxSize \in Nat BY MaxSizeAssumption
<1>4. h - t \in 0..(capacity - 1) /\ h = t + (h - t)
  BY <1>1, <1>3
<1>5. /\ ti + (h - t) < capacity => hi = ti + (h - t)
      /\ ti + (h - t) >= capacity => hi = ti + (h - t) - capacity
  <2>1. PICK d \in 0..(capacity - 1) : d = h - t BY <1>4
  <2>2. h = t + d BY <2>1
  <2>3. /\ (t % capacity) + d < capacity => (t + d) % capacity = (t % capacity) + d
        /\ (t % capacity) + d >= capacity => (t + d) % capacity = (t % capacity) + d - capacity
    BY <1>1, WalkMod
  <2>4. QED BY <2>1, <2>2, <2>3
<1>6. \A i \in 0..(n - 1) :
        /\ ti + i < capacity => Slot(t + i) = ti + i
        /\ ti + i >= capacity => Slot(t + i) = ti + i - capacity
  <2>1. TAKE i \in 0..(n - 1)
  <2>2. i \in 0..(capacity - 1) BY <1>1, <1>3
  <2>3. QED BY <1>1, <2>2, WalkMod DEF Slot
<1>7. PeekImpl(t, h) =
        IF hi = ti THEN [first |-> NoSpan, second |-> NoSpan]
        ELSE IF ti < hi THEN [first |-> span(ti, hi - ti), second |-> NoSpan]
        ELSE [first |-> span(ti, capacity - ti), second |-> span(0, hi)]
  BY DEF PeekImpl
<1> HIDE DEF ti, hi
<1>8. CASE ti + (h - t) < capacity
  <2>1. PeekImpl(t, h) = [first |-> span(ti, hi - ti), second |-> NoSpan]
    <3>1. ti < hi /\ hi # ti BY <1>2, <1>4, <1>5, <1>8
    <3>2. QED BY <1>7, <3>1
  <2>2. hi - ti >= n BY <1>2, <1>4, <1>5, <1>8
  <2>3. r = [first |-> span(ti, n), second |-> NoSpan]
    BY <2>1, <2>2 DEF Take, span
  <2>4. QED BY SMTT(30), <1>1, <1>2, <1>3, <1>6, <1>8, <2>3
          DEF RangeSize, ForEach, span, NoSpan, Span, Slots
<1>9. CASE ti + (h - t) >= capacity
  <2>1. PeekImpl(t, h) = [first |-> span(ti, capacity - ti), second |-> span(0, hi)]
    <3>1. hi < ti BY <1>1, <1>2, <1>3, <1>4, <1>5, <1>9
    <3>2. ~(ti < hi) /\ hi # ti BY <1>2, <3>1
    <3>3. QED BY <1>7, <3>2
  <2>2. CASE capacity - ti >= n
    <3>1. r = [first |-> span(ti, n), second |-> NoSpan]
      BY <2>1, <2>2 DEF Take, span
    <3>2. QED BY SMTT(30), <1>1, <1>2, <1>3, <1>6, <2>2, <3>1
            DEF RangeSize, ForEach, span, NoSpan, Span, Slots
  <2>3. CASE capacity - ti < n
    <3>1. r = [first |-> span(ti, capacity - ti), second |-> span(0, n - (capacity - ti))]
      <4>1. ~(capacity - ti >= n) BY <1>1, <1>2, <2>3
      <4>2. QED BY <2>1, <4>1 DEF Take, span
    <3>2. QED BY <1>1, <1>2, <1>3, <1>4, <1>6, <2>3, <3>1
            DEF RangeSize, ForEach, span, NoSpan, Span, Slots
  <2>4. QED BY <1>1, <1>2, <2>2, <2>3
<1>10. QED BY <1>1, <1>2, <1>4, <1>8, <1>9

-----------------------------------------------------------------------------
(* The invariant holds initially and every step preserves it.              *)

\* The invariant holds of an empty buffer.
LEMMA InitInv == Init => IInv
<1>1. SUFFICES ASSUME Init PROVE IInv
  OBVIOUS
<1>2. capacity \in Nat \ {0} /\ MaxSize \in Nat /\ capacity = MaxSize + 1
  BY CapacityPositive, MaxSizeAssumption DEF capacity
<1>3. TypeOK
  BY <1>1, <1>2 DEF Init, TypeOK, Pointer, Span, Slots, NoSpan, span
<1>4. Counters /\ FifoDelivery /\ OwnElementBack /\ Locals
  BY <1>1, <1>2 DEF Init, Counters, Claimed, FifoDelivery, OwnElementBack, Locals
<1>5. LiveSlots /\ HeldSlots /\ RangeSlots
  BY <1>1, <1>2 DEF Init, LiveSlots, Live, HeldSlots, Holding, RangeSlots
<1>6. QED BY <1>3, <1>4, <1>5 DEF IInv

\* AddCall only starts a call: the ring is untouched.
LEMMA AddCallInv ==
  ASSUME IInv, NEW p \in Producers, NEW e \in Elements, AddCall(p, e)
  PROVE  IInv'
<1> USE DEF IInv, AddCall, Goto, bufferVars, consumerVars, historyVars
<1>1. TypeOK' BY DEF TypeOK, Pointer
<1>2. Counters' /\ FifoDelivery' BY DEF Counters, Claimed, FifoDelivery
<1>3. Locals' BY DEF Locals, TypeOK
<1>4. LiveSlots' /\ RangeSlots' BY DEF LiveSlots, Live, RangeSlots
<1>5. HeldSlots' BY DEF HeldSlots, Holding, head_index, Live, TypeOK
<1>6. OwnElementBack' BY DEF OwnElementBack, TypeOK
<1>7. QED BY <1>1, <1>2, <1>3, <1>4, <1>5, <1>6

\* LoadTail takes a value of tail_ that can only grow stale.
LEMMA LoadTailInv ==
  ASSUME IInv, NEW p \in Producers, LoadTail(p)
  PROVE  IInv'
<1> USE DEF IInv, LoadTail, Goto, bufferVars, consumerVars, historyVars
<1>1. TypeOK' BY DEF TypeOK
<1>2. Counters' /\ FifoDelivery' BY DEF Counters, Claimed, FifoDelivery
<1>3. Locals' BY DEF Locals, TypeOK
<1>4. LiveSlots' /\ RangeSlots' BY DEF LiveSlots, Live, RangeSlots
<1>5. HeldSlots' BY DEF HeldSlots, Holding, head_index, Live, TypeOK
<1>6. OwnElementBack' BY DEF OwnElementBack, TypeOK
<1>7. QED BY <1>1, <1>2, <1>3, <1>4, <1>5, <1>6

\* LoadHead refuses, or records that there was room.
LEMMA LoadHeadInv ==
  ASSUME IInv, NEW p \in Producers, LoadHead(p)
  PROVE  IInv'
<1> USE DEF IInv, LoadHead, Goto, bufferVars, consumerVars
<1>1. owner[p] \in Elements
  BY DEF OwnElementBack, Locals
<1>2. TypeOK' BY <1>1 DEF TypeOK, Pointer
<1>3. Counters' /\ FifoDelivery' BY DEF Counters, Claimed, FifoDelivery
<1>4. Locals'
  <2>1. ~IsFull(head, rtail[p]) => head - rtail[p] < MaxSize
    BY MaxSizeAssumption DEF IsFull, capacity, TypeOK
  <2>2. QED BY <2>1 DEF Locals, TypeOK
<1>5. LiveSlots' /\ RangeSlots' BY DEF LiveSlots, Live, RangeSlots
<1>6. HeldSlots' BY DEF HeldSlots, Holding, head_index, Live, TypeOK
<1>7. OwnElementBack' BY DEF OwnElementBack, TypeOK
<1>8. QED BY <1>2, <1>3, <1>4, <1>5, <1>6, <1>7

\* The slots that matter are not null, so a slot found null is nobody's.
LEMMA SwapIfNullInv ==
  ASSUME IInv, NEW p \in Producers, SwapIfNull(p)
  PROVE  IInv'
<1> USE DEF IInv, SwapIfNull, Goto, consumerVars, historyVars
<1>1. owner[p] = elem[p] /\ elem[p] \in Elements
  BY DEF OwnElementBack, Locals
<1>2. head_index(p) \in Slots
  BY SlotInRing DEF head_index, Slot, TypeOK
<1>3. \A i \in Live : Slot(i) \in Slots /\ Slot(i) # head_index(p)
  <2>1. TAKE i \in Live
  <2>2. i \in Nat /\ accepted[i + 1] \in Elements
    BY DEF Live, Counters, TypeOK
  <2>3. QED BY <2>2, SlotInRing, NullAssumption DEF LiveSlots
<1>4. \A q \in Producers : Holding(q) => head_index(q) \in Slots /\ head_index(q) # head_index(p)
  <2>1. SUFFICES ASSUME NEW q \in Producers, Holding(q)
                 PROVE  head_index(q) \in Slots /\ head_index(q) # head_index(p)
    OBVIOUS
  <2>2. elem[q] \in Elements BY <2>1 DEF Locals, Holding
  <2>3. data[head_index(q)] # NULL BY <2>1, <2>2, NullAssumption DEF HeldSlots
  <2>4. head_index(q) \in Slots BY SlotInRing DEF head_index, Slot, TypeOK
  <2>5. QED BY <2>3, <2>4
<1>5. TypeOK' BY <1>1, <1>2 DEF TypeOK, Pointer
<1>6. Counters' /\ FifoDelivery' BY DEF Counters, Claimed, FifoDelivery
<1>7. Locals' BY DEF Locals, TypeOK
<1>8. LiveSlots' BY <1>3 DEF LiveSlots, Live, TypeOK
<1>9. RangeSlots' BY DEF RangeSlots
<1>10. HeldSlots'
  <2>1. head_index(p)' = head_index(p) /\ \A q \in Producers : head_index(q)' = head_index(q)
    BY DEF head_index
  <2>2. Live' = Live BY DEF Live
  <2>3. SUFFICES ASSUME NEW q \in Producers, Holding(q)'
        PROVE /\ data'[head_index(q)] = elem[q] /\ owner'[q] = NULL
              /\ \A i \in Live : Slot(i) # head_index(q)
              /\ \A x \in Producers : x # q /\ Holding(x)' => head_index(x) # head_index(q)
    BY <2>1, <2>2 DEF HeldSlots
  <2>4. CASE q = p
    BY <1>1, <1>2, <1>3, <1>4, <2>3, <2>4 DEF TypeOK, Holding
  <2>5. CASE q # p
    BY <1>2, <1>4, <2>3, <2>5 DEF HeldSlots, TypeOK, Holding
  <2>6. QED BY <2>4, <2>5
<1>11. OwnElementBack' BY DEF OwnElementBack, TypeOK
<1>12. QED BY <1>5, <1>6, <1>7, <1>8, <1>9, <1>10, <1>11

\* A failed exchange of either kind only moves the program counter.
LEMMA ExchangeFailsInv ==
  ASSUME IInv, NEW p \in Producers, SwapIfNullFails(p) \/ CasHeadFails(p)
  PROVE  IInv'
<1> USE DEF IInv, SwapIfNullFails, CasHeadFails, Goto, bufferVars, consumerVars, historyVars
<1>1. TypeOK' BY DEF TypeOK
<1>2. Counters' /\ FifoDelivery' BY DEF Counters, Claimed, FifoDelivery
<1>3. Locals' BY DEF Locals, TypeOK
<1>4. LiveSlots' /\ RangeSlots' BY DEF LiveSlots, Live, RangeSlots
<1>5. HeldSlots'
  <2>1. \A q \in Producers : Holding(q)' => Holding(q)
    BY DEF Holding, TypeOK
  <2>2. Live' = Live /\ \A q \in Producers : head_index(q)' = head_index(q)
    BY DEF Live, head_index
  <2>3. QED BY <2>1, <2>2 DEF HeldSlots
<1>6. OwnElementBack' BY DEF OwnElementBack, TypeOK
<1>7. QED BY <1>1, <1>2, <1>3, <1>4, <1>5, <1>6

\* The successful exchange on head_ turns the held slot into a live one.
LEMMA CasHeadInv ==
  ASSUME IInv, NEW p \in Producers, CasHead(p)
  PROVE  IInv'
<1> USE DEF IInv
<1>0. /\ pc[p] = "casHead" /\ pc' = [pc EXCEPT ![p] = "idle"]
      /\ head = rhead[p] /\ head' = head + 1
      /\ accepted' = Append(accepted, elem[p])
      /\ UNCHANGED <<tail, data, owner, rtail, rhead, elem, unsent, cpc, want, range, idx,
                     consumed, rejected>>
  BY DEF CasHead, Goto, consumerVars, TypeOK
<1>1. elem[p] \in Elements /\ head \in Nat /\ MaxSize \in Nat /\ capacity = MaxSize + 1
  BY <1>0, MaxSizeAssumption DEF Locals, TypeOK, capacity
<1>A. /\ accepted \in Seq(Elements) /\ consumed \in Seq(Elements)
      /\ head = Len(accepted) /\ Len(consumed) \in Nat /\ Len(consumed) <= head
      /\ tail \in Nat /\ rtail[p] \in Nat
  BY <1>1 DEF Counters, TypeOK, FifoDelivery
<1>B. /\ Len(accepted') = head + 1 /\ accepted'[head + 1] = elem[p]
      /\ \A i \in 1..head : accepted'[i] = accepted[i]
      /\ accepted' \in Seq(Elements)
  BY <1>0, <1>1, <1>A
<1>C. \A i \in Live' : i \in Nat /\ (i \in Live \/ i = head) /\ (i \in Live => i < head)
  BY <1>0, <1>1, <1>A DEF Live
<1>2. data[Slot(head)] = elem[p] /\ \A i \in Live : Slot(i) # Slot(head)
  BY <1>0 DEF HeldSlots, Holding, head_index, Slot
<1>3. head - Len(consumed) # capacity
  <2>1. SUFFICES ASSUME head - Len(consumed) = capacity PROVE FALSE
    OBVIOUS
  <2>2. PICK d \in Nat : d = Len(consumed) /\ head = d + capacity
    BY <1>1, <1>A, <2>1
  <2>3. d \in Live BY <1>1, <2>2 DEF Live
  <2>4. Slot(d) = Slot(head)
    <3>1. PICK x \in Nat, r \in 0..(capacity - 1) : d = capacity * x + r /\ r = d % capacity
      BY CapacityPositive, DivMod
    <3>2. head = capacity * (x + 1) + r BY <1>1, <2>2, <3>1
    <3>3. x + 1 \in Nat OBVIOUS
    <3>4. head % capacity = r BY <1>1, <3>2, <3>3, CapacityPositive, ModUnique
    <3>5. QED BY <3>1, <3>4 DEF Slot
  <2>5. QED BY <1>2, <2>3, <2>4
<1>4. TypeOK' BY <1>0, <1>1, <1>B DEF TypeOK
<1>5. Counters'
  <2>1. head - rtail[p] < MaxSize /\ rtail[p] <= tail
    BY <1>0 DEF Locals
  <2>2. head + 1 - tail <= MaxSize
    BY <1>1, <1>A, <2>1
  <2>3. head + 1 - Len(consumed) <= capacity
    BY <1>1, <1>3, <1>A DEF Counters
  <2>4. QED BY <1>0, <1>1, <1>A, <1>B, <2>2, <2>3 DEF Counters, Claimed, TypeOK
<1>6. FifoDelivery' BY <1>0, <1>A, <1>B DEF FifoDelivery
<1>7. Locals' BY <1>0, <1>1 DEF Locals, TypeOK
<1>8. LiveSlots'
  <2>1. SUFFICES ASSUME NEW i \in Live' PROVE data[Slot(i)] = accepted'[i + 1]
    BY <1>0 DEF LiveSlots
  <2>2. CASE i = head BY <1>2, <1>B, <2>2
  <2>3. CASE i \in Live
    <3>1. i + 1 \in 1..head BY <1>1, <1>C, <2>3
    <3>2. QED BY <1>B, <2>3, <3>1 DEF LiveSlots
  <2>4. QED BY <1>C, <2>2, <2>3
<1>9. RangeSlots' BY <1>0 DEF RangeSlots
<1>10. HeldSlots'
  <2>1. \A q \in Producers : head_index(q)' = head_index(q) BY <1>0 DEF head_index
  <2>2. SUFFICES ASSUME NEW q \in Producers, Holding(q)'
        PROVE /\ data[head_index(q)] = elem[q] /\ owner[q] = NULL
              /\ \A i \in Live' : Slot(i) # head_index(q)
              /\ \A x \in Producers : x # q /\ Holding(x)' => head_index(x) # head_index(q)
    BY <1>0, <2>1 DEF HeldSlots
  <2>3. q # p /\ Holding(q) /\ \A x \in Producers : Holding(x)' => Holding(x)
    BY <1>0, <2>2 DEF Holding, TypeOK
  <2>4. Holding(p) BY <1>0 DEF Holding
  <2>5. head_index(q) # Slot(head) BY <1>0, <2>3, <2>4 DEF HeldSlots, head_index, Slot
  <2>6. QED BY <1>C, <2>3, <2>5 DEF HeldSlots
<1>11. OwnElementBack' BY <1>0 DEF OwnElementBack, TypeOK
<1>12. QED BY <1>4, <1>5, <1>6, <1>7, <1>8, <1>9, <1>10, <1>11

\* Undoing the swap takes out what this producer put in.
LEMMA UndoSwapInv ==
  ASSUME IInv, NEW p \in Producers, UndoSwap(p)
  PROVE  IInv'
<1> USE DEF IInv, UndoSwap, Goto, consumerVars, historyVars
<1>1. /\ Holding(p) /\ elem[p] \in Elements /\ owner[p] = NULL
      /\ data[head_index(p)] = elem[p]
  BY DEF Holding, HeldSlots, Locals
<1>2. head_index(p) \in Slots
  BY SlotInRing DEF head_index, Slot, TypeOK
<1>3. TypeOK' BY <1>1, <1>2 DEF TypeOK, Pointer
<1>4. Counters' /\ FifoDelivery' BY DEF Counters, Claimed, FifoDelivery
<1>5. Locals' BY DEF Locals, TypeOK
<1>6. LiveSlots'
  <2>1. \A i \in Live : Slot(i) # head_index(p) BY <1>1 DEF HeldSlots
  <2>2. QED BY <2>1 DEF LiveSlots, Live, TypeOK
<1>7. RangeSlots' BY DEF RangeSlots
<1>8. HeldSlots'
  <2>1. \A q \in Producers : head_index(q)' = head_index(q) BY DEF head_index
  <2>2. Live' = Live BY DEF Live
  <2>3. SUFFICES ASSUME NEW q \in Producers, Holding(q)'
        PROVE /\ data'[head_index(q)] = elem[q] /\ owner'[q] = NULL
              /\ \A i \in Live : Slot(i) # head_index(q)
              /\ \A x \in Producers : x # q /\ Holding(x)' => head_index(x) # head_index(q)
    BY <2>1, <2>2 DEF HeldSlots
  <2>4. q # p /\ Holding(q) /\ \A x \in Producers : Holding(x)' => Holding(x)
    BY <2>3 DEF Holding, TypeOK
  <2>5. head_index(q) # head_index(p) BY <1>1, <2>4 DEF HeldSlots
  <2>6. data'[head_index(q)] = data[head_index(q)] BY <2>5 DEF TypeOK
  <2>7. QED BY <2>4, <2>6 DEF HeldSlots, TypeOK
<1>9. OwnElementBack' BY <1>1 DEF OwnElementBack, TypeOK
<1>10. QED BY <1>3, <1>4, <1>5, <1>6, <1>7, <1>8, <1>9

\* size() and PeekImpl only fill the consumer's locals.
LEMMA SizeInv ==
  ASSUME IInv, NEW n \in 1..(head - tail), Size(n)
  PROVE  IInv'
<1> USE DEF IInv, Size, bufferVars, producerVars, historyVars
<1>1. head \in Nat /\ tail \in Nat /\ MaxSize \in Nat /\ head - tail <= MaxSize
  BY MaxSizeAssumption DEF TypeOK, Counters
<1>2. TypeOK' BY <1>1 DEF TypeOK
<1>3. Counters' /\ FifoDelivery' BY <1>1 DEF Counters, Claimed, FifoDelivery
<1>4. Locals' BY DEF Locals
<1>5. LiveSlots' /\ RangeSlots' BY DEF LiveSlots, Live, RangeSlots
<1>6. HeldSlots' BY DEF HeldSlots, Holding, head_index, Live
<1>7. OwnElementBack' BY DEF OwnElementBack
<1>8. QED BY <1>2, <1>3, <1>4, <1>5, <1>6, <1>7

\* Peek looks at live slots only.
LEMMA PeekInv ==
  ASSUME IInv, Peek
  PROVE  IInv'
<1> USE DEF IInv, Peek, bufferVars, producerVars, historyVars
<1>1. /\ head \in Nat /\ tail \in Nat /\ want \in Nat
      /\ 1 <= want /\ want <= head - tail /\ head - tail <= MaxSize
  BY MaxSizeAssumption DEF TypeOK, Counters
<1>2. /\ range' \in [first : Span, second : Span]
      /\ RangeSize(range') = want
      /\ \A i \in 0..(want - 1) : ForEach(range', i) = Slot(tail + i)
  BY <1>1, PeekTake
<1>3. TypeOK' BY <1>2 DEF TypeOK
<1>4. Counters' /\ FifoDelivery' BY <1>1 DEF Counters, Claimed, FifoDelivery
<1>5. Locals' BY DEF Locals
<1>6. LiveSlots' BY DEF LiveSlots, Live
<1>7. RangeSlots' BY <1>2 DEF RangeSlots
<1>8. HeldSlots' BY DEF HeldSlots, Holding, head_index, Live
<1>9. OwnElementBack' BY DEF OwnElementBack
<1>10. QED BY <1>3, <1>4, <1>5, <1>6, <1>7, <1>8, <1>9

\* Advancing tail_ frees room, yet every claimed position stays live.
LEMMA AdvanceTailInv ==
  ASSUME IInv, AdvanceTail
  PROVE  IInv'
<1> USE DEF IInv, AdvanceTail, producerVars, historyVars
<1>1. /\ head \in Nat /\ tail \in Nat /\ want \in Nat /\ MaxSize \in Nat
      /\ 1 <= want /\ want <= head - tail /\ head - tail <= MaxSize
      /\ tail = Len(consumed)
  BY MaxSizeAssumption DEF TypeOK, Counters, Claimed
<1>2. TypeOK' BY <1>1 DEF TypeOK
<1>3. Counters' /\ FifoDelivery' BY <1>1 DEF Counters, Claimed, FifoDelivery
<1>4. Locals' BY <1>1 DEF Locals, TypeOK
<1>5. LiveSlots' BY DEF LiveSlots, Live
<1>6. RangeSlots'
  <2>1. \A i \in 0..(want - 1) : tail' - want + i = tail + i BY <1>1
  <2>2. QED BY <2>1 DEF RangeSlots
<1>7. HeldSlots' BY DEF HeldSlots, Holding, head_index, Live
<1>8. OwnElementBack' BY DEF OwnElementBack
<1>9. QED BY <1>2, <1>3, <1>4, <1>5, <1>6, <1>7, <1>8

\* The callback empties the slot of the oldest live position, and no other.
LEMMA CallbackInv ==
  ASSUME IInv, Callback
  PROVE  IInv'
<1> USE DEF IInv
<1> DEFINE d == Len(consumed)
<1>1. /\ cpc = "callback" /\ idx' = idx + 1
      /\ cpc' = IF idx + 1 = want THEN "idle" ELSE "callback"
      /\ UNCHANGED <<head, tail, pc, owner, rtail, rhead, elem, unsent, want, range,
                     accepted, rejected>>
  BY DEF Callback, RangeSlots, producerVars
<1>2. /\ head \in Nat /\ tail \in Nat /\ want \in 0..MaxSize /\ idx \in 0..MaxSize
      /\ MaxSize \in Nat /\ capacity = MaxSize + 1
      /\ accepted \in Seq(Elements) /\ consumed \in Seq(Elements) /\ d \in Nat
      /\ head = Len(accepted) /\ head - d <= capacity /\ tail <= head
      /\ idx < want /\ tail = d + want - idx /\ head - tail <= MaxSize
  BY <1>1, MaxSizeAssumption DEF TypeOK, Counters, Claimed, capacity
<1>3. d \in Live /\ d + 1 \in 1..Len(accepted) BY <1>2 DEF Live
<1>4. ForEach(range, idx) = Slot(d) /\ Slot(d) \in Slots
  <2>1. idx \in 0..(want - 1) /\ tail - want + idx = d BY <1>2
  <2>2. QED BY <1>1, <1>2, <2>1, SlotInRing DEF RangeSlots
<1>5. data[Slot(d)] = accepted[d + 1] /\ accepted[d + 1] \in Elements
  BY <1>2, <1>3 DEF LiveSlots
<1>6. /\ data' = [data EXCEPT ![Slot(d)] = NULL]
      /\ consumed' = Append(consumed, accepted[d + 1])
  BY <1>4, <1>5 DEF Callback
<1>7. /\ consumed' \in Seq(Elements) /\ Len(consumed') = d + 1
      /\ consumed'[d + 1] = accepted[d + 1]
      /\ \A i \in 1..d : consumed'[i] = consumed[i]
  BY <1>2, <1>5, <1>6
<1>8. \A i \in Live' : i \in Live /\ Slot(i) # Slot(d)
  <2>1. TAKE i \in Live'
  <2>2. i \in Nat /\ d < i /\ i - d < capacity /\ i \in Live
    BY <1>1, <1>2, <1>7 DEF Live
  <2>3. QED BY <1>2, <2>2, SlotsApart
<1>9. TypeOK' BY <1>1, <1>2, <1>4, <1>6, <1>7 DEF TypeOK, Pointer
<1>10. Counters'
  <2>1. Claimed' = want - idx - 1
    BY <1>1, <1>2 DEF Claimed
  <2>2. tail = Len(consumed') + Claimed' BY <1>2, <1>7, <2>1
  <2>3. head - Len(consumed') <= capacity BY <1>2, <1>7
  <2>4. cpc' = "callback" => idx' < want BY <1>1, <1>2
  <2>5. QED BY <1>1, <1>2, <2>2, <2>3, <2>4 DEF Counters
<1>11. FifoDelivery'
  <2>1. \A i \in 1..(d + 1) : i \in 1..d \/ i = d + 1 BY <1>2
  <2>2. \A i \in 1..(d + 1) : consumed'[i] = accepted[i]
    BY <1>7, <2>1 DEF FifoDelivery
  <2>3. Len(consumed') <= Len(accepted) BY <1>2, <1>3, <1>7
  <2>4. QED BY <1>1, <1>7, <2>2, <2>3 DEF FifoDelivery
<1>12. Locals' BY <1>1 DEF Locals
<1>13. LiveSlots' BY <1>1, <1>4, <1>6, <1>8 DEF LiveSlots, TypeOK
<1>14. RangeSlots' BY <1>1 DEF RangeSlots
<1>15. HeldSlots'
  <2>1. \A q \in Producers : head_index(q)' = head_index(q) /\ Holding(q)' = Holding(q)
    BY <1>1 DEF head_index, Holding
  <2>2. \A q \in Producers : Holding(q) => data'[head_index(q)] = data[head_index(q)]
    <3>1. \A q \in Producers : Holding(q) => head_index(q) # Slot(d)
      BY <1>3 DEF HeldSlots
    <3>2. QED BY <1>6, <3>1 DEF TypeOK
  <2>3. QED BY <1>1, <1>8, <2>1, <2>2 DEF HeldSlots
<1>16. OwnElementBack' BY <1>1 DEF OwnElementBack
<1>17. QED BY <1>9, <1>10, <1>11, <1>12, <1>13, <1>14, <1>15, <1>16

\* Doing nothing preserves the invariant.
LEMMA StutterInv ==
  ASSUME IInv, UNCHANGED vars
  PROVE  IInv'
<1> USE DEF IInv, vars
<1>1. TypeOK' BY DEF TypeOK
<1>2. Counters' /\ FifoDelivery' BY DEF Counters, Claimed, FifoDelivery
<1>3. Locals' /\ OwnElementBack' BY DEF Locals, OwnElementBack
<1>4. LiveSlots' /\ RangeSlots' BY DEF LiveSlots, Live, RangeSlots
<1>5. HeldSlots' BY DEF HeldSlots, Holding, head_index, Live
<1>6. QED BY <1>1, <1>2, <1>3, <1>4, <1>5

\* Every step preserves the invariant.
LEMMA NextInv == IInv /\ [Next]_vars => IInv'
<1>1. SUFFICES ASSUME IInv, [Next]_vars PROVE IInv'
  OBVIOUS
<1>2. CASE \E p \in Producers, e \in Elements : AddCall(p, e)
  BY <1>1, <1>2, AddCallInv
<1>3. CASE \E p \in Producers : AddStep(p)
  <2>1. PICK p \in Producers : AddStep(p) BY <1>3
  <2>2. QED BY <1>1, <2>1, LoadTailInv, LoadHeadInv, SwapIfNullInv, ExchangeFailsInv,
               CasHeadInv, UndoSwapInv DEF AddStep
<1>4. CASE ConsumeStep
  BY <1>1, <1>4, SizeInv, PeekInv, AdvanceTailInv, CallbackInv DEF ConsumeStep
<1>5. CASE UNCHANGED vars BY <1>1, <1>5, StutterInv
<1>6. QED BY <1>1, <1>2, <1>3, <1>4, <1>5 DEF Next, Finished

-----------------------------------------------------------------------------
\* IInv is an invariant of the buffer, for every max_size and any number of
\* producers.
THEOREM Invariance == Spec => []IInv
BY InitInv, NextInv, PTL DEF Spec

\* Type correctness; in particular a batch never exceeds max_size.
THEOREM TypeCorrect == Spec => []TypeOK
<1>1. IInv => TypeOK BY DEF IInv
<1>2. QED BY <1>1, Invariance, PTL

\* Consume hands over exactly what Add accepted, in the order of acceptance.
THEOREM DeliversInOrder == Spec => []FifoDelivery
<1>1. IInv => FifoDelivery BY DEF IInv
<1>2. QED BY <1>1, Invariance, PTL

\* Add retries with the element it was called with.
THEOREM ReturnsOwnElement == Spec => []OwnElementBack
<1>1. IInv => OwnElementBack BY DEF IInv
<1>2. QED BY <1>1, Invariance, PTL

-----------------------------------------------------------------------------
(* The ring implements BoundedQueue: a step of Add or Consume is a step of *)
(* the queue under the mapping of Queue, or leaves the queue as it is.     *)

\* The part of a sequence after its first m elements, up to the n-th.
LEMMA Segment ==
  ASSUME NEW S, NEW s \in Seq(S), NEW m \in Nat, NEW n \in Nat, m <= n, n <= Len(s)
  PROVE  /\ SubSeq(s, m + 1, n) \in Seq(S) /\ Len(SubSeq(s, m + 1, n)) = n - m
         /\ \A i \in 1..(n - m) : SubSeq(s, m + 1, n)[i] = s[m + i]
OBVIOUS

\* Sequences with the same elements in the same places are equal.
LEMMA SameSeq ==
  ASSUME NEW S, NEW s \in Seq(S), NEW t \in Seq(S), Len(s) = Len(t),
         \A i \in 1..Len(s) : s[i] = t[i]
  PROVE  s = t
OBVIOUS

\* A segment followed by the next element is the longer segment.
LEMMA SegmentAppend ==
  ASSUME NEW S, NEW s \in Seq(S), NEW m \in Nat, m <= Len(s), NEW e \in S
  PROVE  SubSeq(Append(s, e), m + 1, Len(s) + 1) = Append(SubSeq(s, m + 1, Len(s)), e)
<1> DEFINE n == Len(s)
<1> DEFINE long == SubSeq(Append(s, e), m + 1, n + 1)
<1> DEFINE ext == Append(SubSeq(s, m + 1, n), e)
<1>1. /\ n \in Nat /\ Append(s, e) \in Seq(S) /\ Len(Append(s, e)) = n + 1
      /\ Append(s, e)[n + 1] = e /\ \A i \in 1..n : Append(s, e)[i] = s[i]
  OBVIOUS
<1>2. /\ long \in Seq(S) /\ Len(long) = n + 1 - m
      /\ \A i \in 1..(n + 1 - m) : long[i] = Append(s, e)[m + i]
  BY <1>1, Segment
<1>3. /\ SubSeq(s, m + 1, n) \in Seq(S) /\ Len(SubSeq(s, m + 1, n)) = n - m
      /\ \A i \in 1..(n - m) : SubSeq(s, m + 1, n)[i] = s[m + i]
  BY <1>1, Segment
<1>4. /\ ext \in Seq(S) /\ Len(ext) = n - m + 1 /\ ext[n - m + 1] = e
      /\ \A i \in 1..(n - m) : ext[i] = s[m + i]
  BY <1>1, <1>3
<1>5. \A i \in 1..Len(long) : long[i] = ext[i]
  <2>1. TAKE i \in 1..Len(long)
  <2>2. CASE i = n + 1 - m BY <1>1, <1>2, <1>4, <2>2
  <2>3. CASE i # n + 1 - m
    <3>1. i \in 1..(n - m) /\ i \in 1..(n + 1 - m) /\ m + i \in 1..n BY <1>1, <1>2, <2>3
    <3>2. QED BY <1>1, <1>2, <1>4, <3>1
  <2>4. QED BY <2>2, <2>3
<1>6. Len(long) = Len(ext) BY <1>1, <1>2, <1>4
<1>7. QED BY <1>2, <1>4, <1>5, <1>6, SameSeq

\* The queue's sequences are the accepted elements from the first one that is
\* not claimed on, and those that are claimed and not delivered.
Unclaimed == SubSeq(accepted, tail + 1, head)
ClaimedPart == SubSeq(accepted, Len(consumed) + 1, tail)

\* The phase of a call of Add.
Phase ==
  [p \in Producers |-> CASE pc[p] = "idle" -> "idle" [] pc[p] = "loadTail" -> "called"
                         [] OTHER -> "decided"]

\* What the counters say of the two sequences.
LEMMA QueueLengths ==
  ASSUME IInv
  PROVE  /\ accepted \in Seq(Elements) /\ consumed \in Seq(Elements)
         /\ head \in Nat /\ tail \in Nat /\ Len(consumed) \in Nat /\ MaxSize \in Nat
         /\ head = Len(accepted) /\ Len(consumed) <= tail /\ tail <= head
         /\ Unclaimed \in Seq(Elements) /\ Len(Unclaimed) = head - tail
         /\ \A i \in 1..(head - tail) : Unclaimed[i] = accepted[tail + i]
         /\ ClaimedPart \in Seq(Elements) /\ Len(ClaimedPart) = tail - Len(consumed)
         /\ \A i \in 1..(tail - Len(consumed)) : ClaimedPart[i] = accepted[Len(consumed) + i]
<1>1. /\ accepted \in Seq(Elements) /\ consumed \in Seq(Elements)
      /\ head \in Nat /\ tail \in Nat /\ Len(consumed) \in Nat /\ MaxSize \in Nat
      /\ head = Len(accepted) /\ Len(consumed) <= tail /\ tail <= head
  BY MaxSizeAssumption DEF IInv, TypeOK, Counters, Claimed
<1>2. /\ Unclaimed \in Seq(Elements) /\ Len(Unclaimed) = head - tail
      /\ \A i \in 1..(head - tail) : Unclaimed[i] = accepted[tail + i]
  BY SMTT(30), <1>1, Segment DEF Unclaimed
<1>3. /\ ClaimedPart \in Seq(Elements) /\ Len(ClaimedPart) = tail - Len(consumed)
      /\ \A i \in 1..(tail - Len(consumed)) : ClaimedPart[i] = accepted[Len(consumed) + i]
  <2>1. tail <= Len(accepted) BY <1>1
  <2>2. QED BY <1>1, <2>1, Segment DEF ClaimedPart
<1>4. QED BY <1>1, <1>2, <1>3

\* An empty ring is an empty queue.
LEMMA InitQueue == Init => Queue!Init
BY DEF Init, Queue!Init

\* A step that moves no counter and changes neither history nor phase.
LEMMA QueueStutter ==
  ASSUME UNCHANGED <<head, tail, accepted, consumed, rejected, unsent, elem, rtail>>,
         Phase' = Phase
  PROVE  UNCHANGED Queue!vars
BY DEF Queue!vars, Phase

\* AddCall begins a call of the queue.
LEMMA AddCallQueue ==
  ASSUME IInv, NEW p \in Producers, NEW e \in Elements, AddCall(p, e)
  PROVE  Queue!Call(p, e)
<1>1. Phase[p] = "idle" /\ Phase' = [Phase EXCEPT ![p] = "called"]
  BY DEF AddCall, Goto, Phase, IInv, TypeOK
<1>2. QED BY <1>1 DEF AddCall, Queue!Call, Phase, bufferVars, historyVars

\* LoadTail observes the room that the consumer has released.
LEMMA LoadTailQueue ==
  ASSUME IInv, NEW p \in Producers, LoadTail(p)
  PROVE  Queue!Observe(p)
<1>1. Phase[p] = "called" /\ Phase' = [Phase EXCEPT ![p] = "decided"]
  BY DEF LoadTail, Goto, Phase, IInv, TypeOK
<1>2. Queue!Released = tail
  BY QueueLengths DEF Queue!Released, ClaimedPart
<1>3. QED BY <1>1, <1>2 DEF LoadTail, Queue!Observe, Phase, bufferVars, historyVars

\* LoadHead rejects by what was observed, or only looks.
LEMMA LoadHeadQueue ==
  ASSUME IInv, NEW p \in Producers, LoadHead(p)
  PROVE  Queue!Reject(p) \/ UNCHANGED Queue!vars
<1>1. CASE IsFull(head, rtail[p])
  <2>1. Phase[p] = "decided" /\ Phase' = [Phase EXCEPT ![p] = "idle"]
    BY <1>1 DEF LoadHead, Goto, Phase, IInv, TypeOK
  <2>2. Queue!Outstanding(p) = head - rtail[p] /\ rtail[p] \in Nat
    BY SMTT(30), QueueLengths
       DEF Queue!Outstanding, Queue!Released, ClaimedPart, Unclaimed, IInv, TypeOK
  <2>3. Queue!Outstanding(p) >= MaxSize
    BY <1>1, <2>2, QueueLengths DEF IsFull, capacity
  <2>4. rejected' = rejected \union {elem[p]}
    BY <1>1 DEF LoadHead, Goto, IInv, OwnElementBack
  <2>5. QED BY <1>1, <2>1, <2>3, <2>4 DEF LoadHead, Queue!Reject, Phase, bufferVars
<1>2. CASE ~IsFull(head, rtail[p])
  <2>1. Phase' = Phase BY <1>2 DEF LoadHead, Goto, Phase, IInv, TypeOK
  <2>2. QED BY <1>2, <2>1, QueueStutter DEF LoadHead, bufferVars
<1>3. QED BY <1>1, <1>2

\* A compare-exchange that fails makes the call observe again in the end.
LEMMA RetryQueue ==
  ASSUME IInv, NEW p \in Producers, SwapIfNullFails(p) \/ UndoSwap(p)
  PROVE  Queue!Retry(p)
<1>1. Phase[p] = "decided" /\ Phase' = [Phase EXCEPT ![p] = "called"]
  BY DEF SwapIfNullFails, UndoSwap, Goto, Phase, IInv, TypeOK
<1>2. QED
  BY <1>1 DEF SwapIfNullFails, UndoSwap, Queue!Retry, Phase, bufferVars, historyVars

\* The steps between are not seen by the users of the queue.
LEMMA HiddenQueue ==
  ASSUME IInv, NEW p \in Producers, SwapIfNull(p) \/ CasHeadFails(p)
  PROVE  UNCHANGED Queue!vars
<1>1. Phase' = Phase
  BY DEF SwapIfNull, CasHeadFails, Goto, Phase, IInv, TypeOK
<1>2. QED BY <1>1, QueueStutter DEF SwapIfNull, CasHeadFails, bufferVars, historyVars

\* The successful exchange on head_ accepts.
LEMMA CasHeadQueue ==
  ASSUME IInv, NEW p \in Producers, CasHead(p)
  PROVE  Queue!Accept(p)
<1>1. Phase[p] = "decided" /\ Phase' = [Phase EXCEPT ![p] = "idle"]
  BY DEF CasHead, Goto, Phase, IInv, TypeOK
<1>2. Queue!Outstanding(p) = head - rtail[p] /\ rtail[p] \in Nat
  BY SMTT(30), QueueLengths
     DEF Queue!Outstanding, Queue!Released, ClaimedPart, Unclaimed, IInv, TypeOK
<1>3. Queue!Outstanding(p) < MaxSize /\ elem[p] \in Elements
  BY <1>2 DEF CasHead, Goto, IInv, Locals
<1>4. Unclaimed' = Append(Unclaimed, elem[p])
  <2>1. accepted \in Seq(Elements) /\ head = Len(accepted) /\ tail \in Nat /\ tail <= Len(accepted)
    BY QueueLengths
  <2>2. SubSeq(Append(accepted, elem[p]), tail + 1, Len(accepted) + 1)
          = Append(SubSeq(accepted, tail + 1, Len(accepted)), elem[p])
    BY <1>3, <2>1, SegmentAppend
  <2>3. QED BY <2>1, <2>2 DEF CasHead, Unclaimed
<1>5. ClaimedPart' = ClaimedPart
  <2>1. accepted' \in Seq(Elements) /\ Len(accepted') = head + 1
    BY SMTT(30), <1>3, QueueLengths DEF CasHead
  <2>2. \A i \in 1..head : accepted'[i] = accepted[i]
    BY SMTT(30), <1>3, QueueLengths DEF CasHead
  <2>3. /\ ClaimedPart' \in Seq(Elements) /\ Len(ClaimedPart') = tail - Len(consumed)
        /\ \A i \in 1..(tail - Len(consumed)) : ClaimedPart'[i] = accepted'[Len(consumed) + i]
    <3>1. ClaimedPart' = SubSeq(accepted', Len(consumed) + 1, tail)
      BY DEF CasHead, ClaimedPart
    <3>2. /\ Len(consumed) \in Nat /\ tail \in Nat /\ Len(consumed) <= tail
          /\ tail <= Len(accepted')
      BY <2>1, QueueLengths
    <3>3. QED BY <2>1, <3>1, <3>2, Segment
  <2>4. \A i \in 1..(tail - Len(consumed)) : Len(consumed) + i \in 1..head
    BY QueueLengths
  <2>5. \A i \in 1..(tail - Len(consumed)) : ClaimedPart'[i] = ClaimedPart[i]
    BY <2>2, <2>3, <2>4, QueueLengths
  <2>6. QED BY <2>3, <2>5, QueueLengths, SameSeq
<1>6. QED BY <1>1, <1>3, <1>4, <1>5 DEF CasHead, Queue!Accept, Phase, Unclaimed, ClaimedPart

\* size() and PeekImpl only read.
LEMMA ReadQueue ==
  ASSUME IInv, (\E n \in 1..(head - tail) : Size(n)) \/ Peek
  PROVE  UNCHANGED Queue!vars
<1>1. Phase' = Phase BY DEF Size, Peek, Phase, producerVars
<1>2. QED BY <1>1, QueueStutter DEF Size, Peek, bufferVars, producerVars, historyVars

\* Advancing tail_ claims a batch.
LEMMA AdvanceTailQueue ==
  ASSUME IInv, AdvanceTail
  PROVE  \E n \in 1..Len(Unclaimed) : Queue!Claim(n)
<1>1. /\ want \in Nat /\ 1 <= want /\ want <= head - tail /\ tail = Len(consumed)
      /\ tail' = tail + want /\ UNCHANGED <<head, accepted, consumed>>
  BY QueueLengths DEF AdvanceTail, IInv, TypeOK, Counters, Claimed, historyVars
<1>2. ClaimedPart = <<>>
  BY <1>1, QueueLengths
<1>3. ClaimedPart' = SubSeq(Unclaimed, 1, want)
  <2>1. /\ ClaimedPart' \in Seq(Elements) /\ Len(ClaimedPart') = want
        /\ \A i \in 1..want : ClaimedPart'[i] = accepted[tail + i]
    <3>1. /\ tail \in Nat /\ tail + want \in Nat /\ tail <= tail + want
          /\ tail + want <= Len(accepted) /\ (tail + want) - tail = want
          /\ accepted \in Seq(Elements)
      BY <1>1, QueueLengths
    <3>2. ClaimedPart' = SubSeq(accepted, tail + 1, tail + want)
      BY <1>1 DEF ClaimedPart
    <3>3. /\ SubSeq(accepted, tail + 1, tail + want) \in Seq(Elements)
          /\ Len(SubSeq(accepted, tail + 1, tail + want)) = (tail + want) - tail
          /\ \A i \in 1..((tail + want) - tail) :
               SubSeq(accepted, tail + 1, tail + want)[i] = accepted[tail + i]
      BY <3>1, Segment
    <3>4. QED BY <3>1, <3>2, <3>3
  <2>2. /\ SubSeq(Unclaimed, 1, want) \in Seq(Elements) /\ Len(SubSeq(Unclaimed, 1, want)) = want
        /\ \A i \in 1..want : SubSeq(Unclaimed, 1, want)[i] = Unclaimed[i]
    <3>1. Unclaimed \in Seq(Elements) /\ want <= Len(Unclaimed) BY <1>1, QueueLengths
    <3> HIDE DEF Unclaimed
    <3>2. QED BY <1>1, <3>1
  <2>3. \A i \in 1..want : Unclaimed[i] = accepted[tail + i]
    <3>1. TAKE i \in 1..want
    <3>2. i \in 1..(head - tail) BY <1>1, QueueLengths
    <3>3. QED BY <3>2, QueueLengths
  <2>4. \A i \in 1..Len(ClaimedPart') : ClaimedPart'[i] = SubSeq(Unclaimed, 1, want)[i]
    BY <2>1, <2>2, <2>3
  <2>5. QED BY <2>1, <2>2, <2>4, SameSeq
<1>4. Unclaimed' = SubSeq(Unclaimed, want + 1, Len(Unclaimed))
  <2>1. /\ Unclaimed' \in Seq(Elements) /\ Len(Unclaimed') = head - tail - want
        /\ \A i \in 1..(head - tail - want) : Unclaimed'[i] = accepted[tail + want + i]
    <3>1. /\ tail + want \in Nat /\ tail + want <= head /\ head - (tail + want) = head - tail - want
          /\ accepted \in Seq(Elements) /\ head = Len(accepted) /\ head \in Nat
      BY <1>1, QueueLengths
    <3>2. Unclaimed' = SubSeq(accepted, (tail + want) + 1, head)
      BY <1>1 DEF Unclaimed
    <3>3. QED BY <3>1, <3>2, Segment
  <2> DEFINE rest == SubSeq(Unclaimed, want + 1, Len(Unclaimed))
  <2>2. /\ rest \in Seq(Elements) /\ Len(rest) = head - tail - want
        /\ \A i \in 1..(head - tail - want) : rest[i] = Unclaimed[want + i]
    <3>1. want <= Len(Unclaimed) /\ Len(Unclaimed) - want = head - tail - want
      BY <1>1, QueueLengths
    <3>2. QED BY <1>1, <3>1, QueueLengths, Segment
  <2>3. \A i \in 1..(head - tail - want) : Unclaimed[want + i] = accepted[tail + want + i]
    <3>1. TAKE i \in 1..(head - tail - want)
    <3>2. want + i \in 1..(head - tail) /\ tail + (want + i) = tail + want + i
      BY <1>1, QueueLengths
    <3>3. QED BY <3>2, QueueLengths
  <2> HIDE DEF rest
  <2>4. \A i \in 1..Len(Unclaimed') : Unclaimed'[i] = rest[i] BY <2>1, <2>2, <2>3
  <2>5. Unclaimed' = rest BY <2>1, <2>2, <2>4, SameSeq
  <2>6. QED BY <2>5 DEF rest
<1>5. Phase' = Phase BY DEF AdvanceTail, Phase, producerVars
<1>6. want \in 1..Len(Unclaimed) BY <1>1, QueueLengths
<1>7. Queue!Claim(want)
  BY <1>2, <1>3, <1>4, <1>5, <1>6
     DEF AdvanceTail, Queue!Claim, Phase, Unclaimed, ClaimedPart, producerVars, historyVars
<1>8. QED BY <1>6, <1>7

\* The callback delivers the oldest claimed element.
LEMMA CallbackQueue ==
  ASSUME IInv, Callback
  PROVE  Queue!Deliver
<1> DEFINE d == Len(consumed)
<1>1. /\ d \in Nat /\ d < tail /\ UNCHANGED <<head, tail, accepted>>
  BY SMTT(30), QueueLengths DEF Callback, IInv, Counters, Claimed, TypeOK
<1>2. consumed' = Append(consumed, accepted[d + 1]) /\ accepted[d + 1] \in Elements
  <2>1. ForEach(range, idx) = Slot(d)
    <3>1. idx \in 0..(want - 1) /\ tail - want + idx = d
      BY QueueLengths DEF Callback, IInv, Counters, Claimed, TypeOK
    <3>2. QED BY <3>1 DEF Callback, IInv, RangeSlots
  <2>2. d \in Live /\ d + 1 \in 1..Len(accepted) BY <1>1, QueueLengths DEF Live
  <2>3. data[Slot(d)] = accepted[d + 1] BY <2>2 DEF IInv, LiveSlots
  <2>4. QED BY <2>1, <2>2, <2>3, QueueLengths DEF Callback
<1>3. ClaimedPart # <<>> /\ Head(ClaimedPart) = accepted[d + 1]
  BY <1>1, QueueLengths
<1>4. ClaimedPart' = Tail(ClaimedPart)
  <2>1. Len(consumed') = d + 1 BY <1>2, QueueLengths
  <2>2. /\ ClaimedPart' \in Seq(Elements) /\ Len(ClaimedPart') = tail - d - 1
        /\ \A i \in 1..(tail - d - 1) : ClaimedPart'[i] = accepted[d + 1 + i]
    <3>1. d + 1 \in Nat /\ d + 1 <= tail /\ tail <= Len(accepted) /\ tail - (d + 1) = tail - d - 1
      BY <1>1, QueueLengths
    <3>2. ClaimedPart' = SubSeq(accepted, (d + 1) + 1, tail)
      BY <1>1, <2>1 DEF ClaimedPart
    <3>3. accepted \in Seq(Elements) /\ tail \in Nat BY QueueLengths
    <3>4. /\ ClaimedPart' \in Seq(Elements) /\ Len(ClaimedPart') = tail - (d + 1)
          /\ \A i \in 1..(tail - (d + 1)) : ClaimedPart'[i] = accepted[d + 1 + i]
      BY <3>1, <3>2, <3>3, Segment
    <3>5. QED BY <3>1, <3>4
  <2>3. /\ Tail(ClaimedPart) \in Seq(Elements) /\ Len(Tail(ClaimedPart)) = tail - d - 1
        /\ \A i \in 1..(tail - d - 1) : Tail(ClaimedPart)[i] = ClaimedPart[i + 1]
    BY <1>1, <1>3, QueueLengths
  <2>4. \A i \in 1..(tail - d - 1) : ClaimedPart[i + 1] = accepted[d + 1 + i]
    <3>1. TAKE i \in 1..(tail - d - 1)
    <3>2. i + 1 \in 1..(tail - d) /\ d + (i + 1) = d + 1 + i BY <1>1, QueueLengths
    <3>3. QED BY <3>2, QueueLengths
  <2>5. \A i \in 1..Len(ClaimedPart') : ClaimedPart'[i] = Tail(ClaimedPart)[i]
    BY <2>2, <2>3, <2>4
  <2>6. QED BY <2>2, <2>3, <2>5, SameSeq
<1>5. Phase' = Phase BY DEF Callback, Phase, producerVars
<1>6. QED BY <1>1, <1>2, <1>3, <1>4, <1>5
         DEF Callback, Queue!Deliver, Phase, Unclaimed, ClaimedPart, producerVars

\* The buffer implements the queue that its users rely on, for every max_size
\* and any number of producers: Add takes effect at its exchange on head_, or
\* where it finds no room, and Consume claims at tail_ += n.
THEOREM ImplementsBoundedQueue == Spec => ImplementsQueue
<1>1. ASSUME IInv, [Next]_vars
      PROVE  [Queue!Next]_(Queue!vars)
  <2>1. CASE \E p \in Producers, e \in Elements : AddCall(p, e)
    BY <1>1, <2>1, AddCallQueue DEF Queue!Next
  <2>2. CASE \E p \in Producers : AddStep(p)
    <3>1. PICK p \in Producers : AddStep(p) BY <2>2
    <3>2. \/ Queue!Observe(p) \/ Queue!Retry(p) \/ Queue!Accept(p) \/ Queue!Reject(p)
          \/ UNCHANGED Queue!vars
      BY <1>1, <3>1, LoadTailQueue, LoadHeadQueue, RetryQueue, HiddenQueue, CasHeadQueue
         DEF AddStep
    <3>3. QED BY <3>2 DEF Queue!Next
  <2>3. CASE ConsumeStep
    <3>1. CASE AdvanceTail BY <1>1, <3>1, AdvanceTailQueue DEF Queue!Next, Unclaimed
    <3>2. CASE Callback BY <1>1, <3>2, CallbackQueue DEF Queue!Next
    <3>3. QED BY <1>1, <2>3, <3>1, <3>2, ReadQueue DEF ConsumeStep
  <2>4. CASE UNCHANGED vars
    <3>1. Phase' = Phase BY <2>4 DEF vars, Phase
    <3>2. UNCHANGED Queue!vars BY <2>4, <3>1, QueueStutter DEF vars
    <3>3. QED BY <3>2
  <2>5. QED BY <1>1, <2>1, <2>2, <2>3, <2>4 DEF Next, Finished
<1>2. QED BY <1>1, InitQueue, Invariance, PTL DEF Spec, ImplementsQueue, Queue!Spec

-----------------------------------------------------------------------------
(* Unique ownership: OneHolder, with the elements no Add was called with,  *)
(* which nobody holds, and calls that are over, which hold nothing.        *)

Places(f, D, e) == {i \in D : f[i] = e}
Same(x, e) == IF x = e THEN 1 ELSE 0
In(e, S) == IF e \in S THEN 1 ELSE 0
Updated(n, x, y, e) == n - Same(x, e) + Same(y, e)

\* Overwriting an entry of a function takes away what it held, and adds the
\* new value.
LEMMA CountUpdate ==
  ASSUME NEW D, NEW f, NEW g, NEW d \in D, NEW e,
         \A i \in D : i # d => g[i] = f[i], IsFiniteSet(Places(f, D, e))
  PROVE  /\ IsFiniteSet(Places(g, D, e))
         /\ Cardinality(Places(g, D, e)) = Updated(Cardinality(Places(f, D, e)), f[d], g[d], e)
<1> DEFINE x == g[d]
<1>1. d \in Places(f, D, e) <=> f[d] = e BY DEF Places
<1>2. Cardinality(Places(f, D, e)) \in Nat BY FS_CardinalityType
<1>3. PICK F : F = Places(f, D, e) OBVIOUS
<1>4. /\ IsFiniteSet(F \ {d})
      /\ Cardinality(F \ {d}) = IF d \in F THEN Cardinality(F) - 1 ELSE Cardinality(F)
  BY <1>3, FS_RemoveElement
<1>5. Cardinality(F \ {d}) = Cardinality(F) - Same(f[d], e)
  BY <1>1, <1>2, <1>3, <1>4 DEF Same
<1>6. CASE x = e
  <2>1. Places(g, D, e) = (F \ {d}) \cup {d} BY <1>3, <1>6 DEF Places
  <2>2. /\ IsFiniteSet((F \ {d}) \cup {d})
        /\ Cardinality((F \ {d}) \cup {d}) = Cardinality(F \ {d}) + 1
    BY <1>4, FS_AddElement
  <2>3. Same(x, e) = 1 BY <1>6 DEF Same
  <2>4. Same(f[d], e) \in Int BY DEF Same
  <2>5. QED BY <1>2, <1>3, <1>5, <2>1, <2>2, <2>3, <2>4 DEF Updated
<1>7. CASE x # e
  <2>1. Places(g, D, e) = F \ {d} BY <1>3, <1>7 DEF Places
  <2>2. Same(x, e) = 0 BY <1>7 DEF Same
  <2>3. Cardinality(F \ {d}) \in Nat BY <1>4, FS_CardinalityType
  <2>4. Cardinality(F \ {d}) + 0 = Cardinality(F \ {d}) BY <2>3
  <2>5. QED BY <1>3, <1>4, <1>5, <2>1, <2>2, <2>4 DEF Updated
<1>8. QED BY <1>6, <1>7

\* ... of the producers' pointers, and of the slots'.
LEMMA CountPlaces ==
  ASSUME NEW g, NEW e
  PROVE  /\ \A p \in Producers :
              (\A i \in Producers : i # p => g[i] = owner[i])
              /\ IsFiniteSet(Places(owner, Producers, e))
              => /\ IsFiniteSet(Places(g, Producers, e))
                 /\ Cardinality(Places(g, Producers, e))
                      = Updated(Cardinality(Places(owner, Producers, e)), owner[p], g[p], e)
         /\ \A d \in Slots :
              (\A i \in Slots : i # d => g[i] = data[i]) /\ IsFiniteSet(Places(data, Slots, e))
              => Cardinality(Places(g, Slots, e))
                   = Updated(Cardinality(Places(data, Slots, e)), data[d], g[d], e)
<1>1. ASSUME NEW p \in Producers, \A i \in Producers : i # p => g[i] = owner[i],
             IsFiniteSet(Places(owner, Producers, e))
      PROVE  /\ IsFiniteSet(Places(g, Producers, e))
             /\ Cardinality(Places(g, Producers, e))
                  = Updated(Cardinality(Places(owner, Producers, e)), owner[p], g[p], e)
  BY <1>1, CountUpdate
<1>2. ASSUME NEW d \in Slots, \A i \in Slots : i # d => g[i] = data[i],
             IsFiniteSet(Places(data, Slots, e))
      PROVE  /\ IsFiniteSet(Places(g, Slots, e))
             /\ Cardinality(Places(g, Slots, e))
                  = Updated(Cardinality(Places(data, Slots, e)), data[d], g[d], e)
  BY <1>2, CountUpdate
<1>3. QED BY <1>1, <1>2

\* How often an element occurs in a sequence, and that appending adds a place.
Occurrences(s, e) == Places(s, 1..Len(s), e)

LEMMA CountAppend ==
  ASSUME NEW S, NEW s \in Seq(S), NEW x \in S, NEW e, NEW t, t = Append(s, x)
  PROVE  /\ Cardinality(Occurrences(s, e)) \in Nat
         /\ Cardinality(Occurrences(t, e)) = Cardinality(Occurrences(s, e)) + Same(x, e)
<1>1. PICK n \in Nat : n = Len(s) OBVIOUS
<1>2. /\ Len(t) = n + 1 /\ t[n + 1] = x /\ \A i \in 1..n : t[i] = s[i]
  BY <1>1
<1>3. PICK F : F = Occurrences(s, e) OBVIOUS
<1>4. IsFiniteSet(F) /\ Cardinality(F) \in Nat /\ n + 1 \notin F
  <2>1. IsFiniteSet(1..n) BY <1>1, FS_Interval
  <2>2. F \in SUBSET (1..n) /\ n + 1 \notin F BY <1>1, <1>3 DEF Occurrences, Places
  <2>3. QED BY <2>1, <2>2, FS_Subset, FS_CardinalityType
<1>5. CASE x = e
  <2>1. Occurrences(t, e) = F \cup {n + 1} BY <1>1, <1>2, <1>3, <1>5 DEF Occurrences, Places
  <2>2. Cardinality(F \cup {n + 1}) = Cardinality(F) + 1 BY <1>4, FS_AddElement
  <2>3. Same(x, e) = 1 BY <1>5 DEF Same
  <2>4. QED BY <1>3, <1>4, <2>1, <2>2, <2>3
<1>6. CASE x # e
  <2>1. Occurrences(t, e) = F BY <1>1, <1>2, <1>3, <1>6 DEF Occurrences, Places
  <2>2. Same(x, e) = 0 BY <1>6 DEF Same
  <2>3. QED BY <1>3, <1>4, <2>1, <2>2
<1>7. QED BY <1>5, <1>6

\* The number of holders of each element, and that the sets counted are finite.
HolderInv ==
  /\ \A p \in Producers : pc[p] = "idle" => owner[p] = NULL
  /\ \A e \in Elements :
       /\ IsFiniteSet(Places(owner, Producers, e))
       /\ Holders(e) = IF e \in unsent THEN 0 ELSE 1

\* Holders, with names for the sets it counts.
LEMMA HoldersAre ==
  ASSUME NEW e
  PROVE  /\ Holders(e) = Cardinality(Places(owner, Producers, e))
                         + Cardinality(Places(data, Slots, e))
                         + Cardinality(Occurrences(consumed, e)) + In(e, rejected)
         /\ Holders(e)' = Cardinality(Places(owner', Producers, e))
                          + Cardinality(Places(data', Slots, e))
                          + Cardinality(Occurrences(consumed', e)) + In(e, rejected')
<1>1. /\ {p \in Producers : owner[p] = e} = Places(owner, Producers, e)
      /\ {s \in Slots : data[s] = e} = Places(data, Slots, e)
      /\ {i \in 1..Len(consumed) : consumed[i] = e} = Occurrences(consumed, e)
  BY DEF Places, Occurrences
<1>2. /\ {p \in Producers : owner'[p] = e} = Places(owner', Producers, e)
      /\ {s \in Slots : data'[s] = e} = Places(data', Slots, e)
      /\ {i \in 1..Len(consumed') : consumed'[i] = e} = Occurrences(consumed', e)
  BY DEF Places, Occurrences
<1>3. QED BY <1>1, <1>2, Zenon DEF Holders, In

\* What is counted is finite.
LEMMA HolderCounts ==
  ASSUME IInv, HolderInv, NEW e \in Elements
  PROVE  /\ IsFiniteSet(Places(owner, Producers, e)) /\ IsFiniteSet(Places(data, Slots, e))
         /\ Cardinality(Places(owner, Producers, e)) \in Nat
         /\ Cardinality(Places(data, Slots, e)) \in Nat
         /\ Cardinality(Occurrences(consumed, e)) \in Nat /\ In(e, rejected) \in 0..1
         /\ Holders(e) = IF e \in unsent THEN 0 ELSE 1
<1>1. /\ IsFiniteSet(Places(owner, Producers, e))
      /\ Holders(e) = IF e \in unsent THEN 0 ELSE 1
  BY DEF HolderInv
<1>2. IsFiniteSet(Places(data, Slots, e))
  <2>1. IsFiniteSet(Slots) BY CapacityPositive, FS_Interval DEF Slots
  <2>2. Places(data, Slots, e) \in SUBSET Slots BY DEF Places
  <2>3. QED BY <2>1, <2>2, FS_Subset
<1>3. Cardinality(Occurrences(consumed, e)) \in Nat
  <2>1. consumed \in Seq(Elements) BY DEF IInv, TypeOK
  <2>2. QED BY <2>1, CountAppend
<1>4. QED BY <1>1, <1>2, <1>3, FS_CardinalityType DEF In

\* What a step adds to the parts of Holders it adds to the sum.
LEMMA HolderSum ==
  ASSUME IInv, HolderInv, NEW e \in Elements,
         NEW o \in Int, NEW s \in Int, NEW c \in Int, NEW r \in Int,
         Cardinality(Places(owner', Producers, e)) = Cardinality(Places(owner, Producers, e)) + o,
         Cardinality(Places(data', Slots, e)) = Cardinality(Places(data, Slots, e)) + s,
         Cardinality(Occurrences(consumed', e)) = Cardinality(Occurrences(consumed, e)) + c,
         In(e, rejected') = In(e, rejected) + r
  PROVE  Holders(e)' = Holders(e) + (o + s + c + r)
<1>1. PICK i \in Nat : i = Cardinality(Places(owner, Producers, e)) BY HolderCounts
<1>2. PICK j \in Nat : j = Cardinality(Places(data, Slots, e)) BY HolderCounts
<1>3. PICK k \in Nat : k = Cardinality(Occurrences(consumed, e)) BY HolderCounts
<1>4. PICK l \in Nat : l = In(e, rejected) BY DEF In
<1>5. Holders(e) = i + j + k + l BY <1>1, <1>2, <1>3, <1>4, HoldersAre
<1>6. Holders(e)' = (i + o) + (j + s) + (k + c) + (l + r)
  BY <1>1, <1>2, <1>3, <1>4, HoldersAre
<1>7. QED BY <1>5, <1>6

\* A producer's pointer is overwritten.
LEMMA OwnerUpdate ==
  ASSUME IInv, HolderInv, NEW e \in Elements, NEW p \in Producers, NEW x \in Pointer,
         owner' = [owner EXCEPT ![p] = x]
  PROVE  /\ IsFiniteSet(Places(owner', Producers, e))
         /\ Cardinality(Places(owner', Producers, e))
              = Cardinality(Places(owner, Producers, e)) + (Same(x, e) - Same(owner[p], e))
<1>0. PICK g : g = owner' OBVIOUS
<1>1. \A i \in Producers : i # p => g[i] = owner[i]
  BY <1>0 DEF IInv, TypeOK
<1>2. IsFiniteSet(Places(owner, Producers, e)) BY DEF HolderInv
<1>3. /\ IsFiniteSet(Places(g, Producers, e))
      /\ Cardinality(Places(g, Producers, e))
           = Updated(Cardinality(Places(owner, Producers, e)), owner[p], g[p], e)
  BY <1>1, <1>2, CountPlaces
<1>4. PICK i \in Nat : i = Cardinality(Places(owner, Producers, e)) BY HolderCounts
<1>5. Same(owner[p], e) \in Int /\ Same(x, e) \in Int BY DEF Same
<1>6. g[p] = x BY <1>0 DEF IInv, TypeOK
<1>7. QED BY <1>0, <1>3, <1>4, <1>5, <1>6 DEF Updated

\* A slot's pointer is overwritten.
LEMMA SlotUpdate ==
  ASSUME IInv, HolderInv, NEW e \in Elements, NEW d \in Slots, NEW x \in Pointer,
         data' = [data EXCEPT ![d] = x]
  PROVE  Cardinality(Places(data', Slots, e))
           = Cardinality(Places(data, Slots, e)) + (Same(x, e) - Same(data[d], e))
<1>0. PICK g : g = data' OBVIOUS
<1>1. \A i \in Slots : i # d => g[i] = data[i] BY <1>0 DEF IInv, TypeOK
<1>2. IsFiniteSet(Places(data, Slots, e)) BY HolderCounts
<1>3. Cardinality(Places(g, Slots, e))
        = Updated(Cardinality(Places(data, Slots, e)), data[d], g[d], e)
  BY <1>1, <1>2, CountPlaces
<1>4. PICK i \in Nat : i = Cardinality(Places(data, Slots, e)) BY HolderCounts
<1>5. Same(data[d], e) \in Int /\ Same(x, e) \in Int BY DEF Same
<1>6. g[d] = x BY <1>0 DEF IInv, TypeOK
<1>7. QED BY <1>0, <1>3, <1>4, <1>5, <1>6 DEF Updated

\* What a step does not touch it adds nothing to.
LEMMA SameCounts ==
  ASSUME IInv, HolderInv, NEW e \in Elements
  PROVE  /\ owner' = owner => Cardinality(Places(owner', Producers, e))
                               = Cardinality(Places(owner, Producers, e)) + 0
         /\ data' = data => Cardinality(Places(data', Slots, e))
                             = Cardinality(Places(data, Slots, e)) + 0
         /\ consumed' = consumed => Cardinality(Occurrences(consumed', e))
                                     = Cardinality(Occurrences(consumed, e)) + 0
         /\ rejected' = rejected => In(e, rejected') = In(e, rejected) + 0
<1>1. PICK i \in Nat : i = Cardinality(Places(owner, Producers, e)) BY HolderCounts
<1>2. PICK j \in Nat : j = Cardinality(Places(data, Slots, e)) BY HolderCounts
<1>3. PICK k \in Nat : k = Cardinality(Occurrences(consumed, e)) BY HolderCounts
<1>4. PICK l \in Nat : l = In(e, rejected) BY DEF In
<1>5. i + 0 = i /\ j + 0 = j /\ k + 0 = k /\ l + 0 = l OBVIOUS
<1>6. QED BY <1>1, <1>2, <1>3, <1>4, <1>5

\* A step that leaves owners, slots, deliveries and rejections alone.
LEMMA SameHolders ==
  ASSUME HolderInv, UNCHANGED <<owner, data, consumed, rejected, unsent>>,
         \A p \in Producers : pc'[p] = "idle" => owner[p] = NULL
  PROVE  HolderInv'
<1>1. ASSUME NEW e \in Elements PROVE Holders(e)' = Holders(e)
  BY HoldersAre
<1>2. QED BY <1>1 DEF HolderInv, Places

\* The argument of a call goes to its unique_ptr.
LEMMA AddCallHolder ==
  ASSUME IInv, HolderInv, NEW p \in Producers, NEW x \in Elements, AddCall(p, x)
  PROVE  HolderInv'
<1>1. /\ owner[p] = NULL /\ owner \in [Producers -> Pointer] /\ x \in Pointer /\ x \in unsent
      /\ owner' = [owner EXCEPT ![p] = x] /\ unsent' = unsent \ {x}
      /\ UNCHANGED <<data, consumed, rejected>>
  BY DEF AddCall, Goto, HolderInv, IInv, TypeOK, Pointer, bufferVars, historyVars
<1>2. \A q \in Producers : pc'[q] = "idle" => owner'[q] = NULL
  BY <1>1 DEF AddCall, Goto, HolderInv, IInv, TypeOK
<1>3. ASSUME NEW e \in Elements
      PROVE  /\ IsFiniteSet(Places(owner, Producers, e))'
             /\ Holders(e)' = IF e \in unsent' THEN 0 ELSE 1
  <2>1. PICK o \in Int : o = Same(x, e) - Same(owner[p], e) BY DEF Same
  <2>2. /\ IsFiniteSet(Places(owner', Producers, e))
        /\ Cardinality(Places(owner', Producers, e))
             = Cardinality(Places(owner, Producers, e)) + o
    BY <1>1, <2>1, OwnerUpdate
  <2>3. Holders(e)' = Holders(e) + Same(x, e)
    <3>1. o = Same(x, e) /\ Same(x, e) \in Int BY <1>1, <2>1, NullAssumption DEF Same
    <3>2. /\ Cardinality(Places(data', Slots, e)) = Cardinality(Places(data, Slots, e)) + 0
          /\ Cardinality(Occurrences(consumed', e)) = Cardinality(Occurrences(consumed, e)) + 0
          /\ In(e, rejected') = In(e, rejected) + 0
      BY <1>1, SameCounts
    <3>3. Holders(e)' = Holders(e) + (o + 0 + 0 + 0) BY <2>2, <3>2, HolderSum
    <3>4. Holders(e) \in Int BY HolderCounts
    <3>5. QED BY <3>1, <3>3, <3>4
  <2>4. Holders(e)' = IF e \in unsent' THEN 0 ELSE 1
    BY <1>1, <2>3, HolderCounts DEF Same
  <2>5. IsFiniteSet(Places(owner, Producers, e))' BY <2>2 DEF Places
  <2>6. QED BY <2>4, <2>5
<1>4. QED BY <1>2, <1>3 DEF HolderInv

\* A rejected element passes from the call to the dropped ones.
LEMMA LoadHeadHolder ==
  ASSUME IInv, HolderInv, NEW p \in Producers, LoadHead(p)
  PROVE  HolderInv'
<1>1. CASE ~IsFull(head, rtail[p])
  <2>1. \A q \in Producers : pc'[q] = "idle" => owner[q] = NULL
    BY <1>1 DEF LoadHead, Goto, HolderInv, IInv, TypeOK
  <2>2. QED BY <1>1, <2>1, SameHolders DEF LoadHead, bufferVars
<1>2. CASE IsFull(head, rtail[p])
  <2>1. /\ owner[p] \in Elements /\ owner \in [Producers -> Pointer] /\ NULL \in Pointer
        /\ owner' = [owner EXCEPT ![p] = NULL] /\ rejected' = rejected \union {owner[p]}
        /\ UNCHANGED <<data, consumed, unsent>>
    BY <1>2 DEF LoadHead, Goto, IInv, TypeOK, Pointer, OwnElementBack, Locals, bufferVars
  <2>2. \A q \in Producers : pc'[q] = "idle" => owner'[q] = NULL
    BY <1>2, <2>1 DEF LoadHead, Goto, HolderInv, IInv, TypeOK
  <2>3. ASSUME NEW e \in Elements
        PROVE  /\ IsFiniteSet(Places(owner, Producers, e))'
               /\ Holders(e)' = IF e \in unsent' THEN 0 ELSE 1
    <3>1. PICK o \in Int : o = Same(NULL, e) - Same(owner[p], e) BY DEF Same
    <3>2. /\ IsFiniteSet(Places(owner', Producers, e))
          /\ Cardinality(Places(owner', Producers, e))
               = Cardinality(Places(owner, Producers, e)) + o
      BY <2>1, <3>1, OwnerUpdate
    <3>3. owner[p] = e => e \notin rejected
      <4>1. SUFFICES ASSUME owner[p] = e PROVE e \notin rejected
        OBVIOUS
      <4>2. Places(owner, Producers, e) # {} BY <4>1 DEF Places
      <4>3. Cardinality(Places(owner, Producers, e)) # 0 BY <4>2, HolderCounts, FS_EmptySet
      <4>4. PICK i \in Nat : i = Cardinality(Places(owner, Producers, e)) BY HolderCounts
      <4>5. PICK j \in Nat : j = Cardinality(Places(data, Slots, e)) BY HolderCounts
      <4>6. PICK k \in Nat : k = Cardinality(Occurrences(consumed, e)) BY HolderCounts
      <4>7. Holders(e) = i + j + k + In(e, rejected) /\ Holders(e) \in 0..1
        BY <4>4, <4>5, <4>6, HoldersAre, HolderCounts
      <4>8. QED BY <4>3, <4>4, <4>7 DEF In
    <3>4. PICK r \in Int : r = Same(owner[p], e) BY DEF Same
    <3>5. In(e, rejected') = In(e, rejected) + r
      BY <2>1, <3>3, <3>4 DEF In, Same
    <3>6. Holders(e)' = Holders(e)
      <4>1. /\ Cardinality(Places(data', Slots, e)) = Cardinality(Places(data, Slots, e)) + 0
            /\ Cardinality(Occurrences(consumed', e)) = Cardinality(Occurrences(consumed, e)) + 0
        BY <2>1, SameCounts
      <4>2. Holders(e)' = Holders(e) + (o + 0 + 0 + r) BY <3>2, <3>5, <4>1, HolderSum
      <4>3. o + 0 + 0 + r = 0 BY <3>1, <3>4, NullAssumption DEF Same
      <4>4. Holders(e) \in Int BY HolderCounts
      <4>5. QED BY <4>2, <4>3, <4>4
    <3>7. IsFiniteSet(Places(owner, Producers, e))' BY <3>2 DEF Places
    <3>8. QED BY <2>1, <3>6, <3>7, HolderCounts
  <2>4. QED BY <2>2, <2>3 DEF HolderInv
<1>3. QED BY <1>1, <1>2

\* SwapIfNull and UndoSwap exchange the pointers of the call and the slot,
\* one of which is null.
LEMMA SwapHolder ==
  ASSUME IInv, HolderInv, NEW p \in Producers, SwapIfNull(p) \/ UndoSwap(p)
  PROVE  HolderInv'
<1> DEFINE h == head_index(p)
<1>1. /\ h \in Slots /\ owner \in [Producers -> Pointer] /\ data \in [Slots -> Pointer]
      /\ owner[p] \in Pointer /\ data[h] \in Pointer
  BY SlotInRing DEF head_index, Slot, IInv, TypeOK
<1>2. /\ owner' = [owner EXCEPT ![p] = data[h]] /\ data' = [data EXCEPT ![h] = owner[p]]
      /\ UNCHANGED <<consumed, rejected, unsent>>
  BY DEF SwapIfNull, UndoSwap, historyVars
<1>3. \A q \in Producers : pc'[q] = "idle" => owner'[q] = NULL
  BY <1>2 DEF SwapIfNull, UndoSwap, Goto, HolderInv, IInv, TypeOK
<1>4. ASSUME NEW e \in Elements
      PROVE  /\ IsFiniteSet(Places(owner, Producers, e))'
             /\ Holders(e)' = IF e \in unsent' THEN 0 ELSE 1
  <2>1. PICK o \in Int : o = Same(data[h], e) - Same(owner[p], e) BY DEF Same
  <2>2. /\ IsFiniteSet(Places(owner', Producers, e))
        /\ Cardinality(Places(owner', Producers, e))
             = Cardinality(Places(owner, Producers, e)) + o
    BY <1>1, <1>2, <2>1, OwnerUpdate
  <2>3. PICK s \in Int : s = Same(owner[p], e) - Same(data[h], e) BY DEF Same
  <2>4. Cardinality(Places(data', Slots, e)) = Cardinality(Places(data, Slots, e)) + s
    BY <1>1, <1>2, <2>3, SlotUpdate
  <2>5. Holders(e)' = Holders(e)
    <3>1. /\ Cardinality(Occurrences(consumed', e)) = Cardinality(Occurrences(consumed, e)) + 0
          /\ In(e, rejected') = In(e, rejected) + 0
      BY <1>2, SameCounts
    <3>2. Holders(e)' = Holders(e) + (o + s + 0 + 0) BY <2>2, <2>4, <3>1, HolderSum
    <3>3. o + s + 0 + 0 = 0 BY <2>1, <2>3 DEF Same
    <3>4. Holders(e) \in Int BY HolderCounts
    <3>5. QED BY <3>2, <3>3, <3>4
  <2>6. IsFiniteSet(Places(owner, Producers, e))' BY <2>2 DEF Places
  <2>7. QED BY <1>2, <2>5, <2>6, HolderCounts
<1>5. QED BY <1>3, <1>4 DEF HolderInv

\* The callback takes the pointer out of the slot.
LEMMA CallbackHolder ==
  ASSUME IInv, HolderInv, Callback
  PROVE  HolderInv'
<1> DEFINE d == ForEach(range, idx)
<1> DEFINE x == data[d]
<1>1. d \in Slots /\ x \in Elements
  <2>1. d = Slot(Len(consumed)) /\ Len(consumed) \in Live /\ Len(consumed) + 1 \in 1..Len(accepted)
    <3>1. /\ idx \in 0..(want - 1) /\ tail - want + idx = Len(consumed)
          /\ Len(consumed) < head /\ Len(consumed) \in Nat /\ head = Len(accepted)
      BY SMTT(30), QueueLengths DEF Callback, IInv, Counters, Claimed, TypeOK
    <3>2. QED BY <3>1, QueueLengths DEF Callback, IInv, RangeSlots, Live
  <2>2. x = accepted[Len(consumed) + 1] BY <2>1 DEF IInv, LiveSlots
  <2>3. QED BY <2>1, <2>2, QueueLengths, SlotInRing
<1>2. /\ data \in [Slots -> Pointer] /\ NULL \in Pointer /\ consumed \in Seq(Elements)
      /\ data' = [data EXCEPT ![d] = NULL] /\ consumed' = Append(consumed, x)
      /\ UNCHANGED <<owner, pc, rejected, unsent>>
  BY DEF Callback, IInv, TypeOK, Pointer, producerVars
<1> HIDE DEF d
<1>3. ASSUME NEW e \in Elements
      PROVE  Holders(e)' = IF e \in unsent' THEN 0 ELSE 1
  <2>1. PICK s \in Int : s = Same(NULL, e) - Same(x, e) BY DEF Same
  <2>2. Cardinality(Places(data', Slots, e)) = Cardinality(Places(data, Slots, e)) + s
    BY <1>1, <1>2, <2>1, SlotUpdate
  <2>3. PICK c \in Int : c = Same(x, e) BY DEF Same
  <2>4. Cardinality(Occurrences(consumed', e)) = Cardinality(Occurrences(consumed, e)) + c
    BY ZenonT(60), <1>1, <1>2, <2>3, CountAppend
  <2>5. Holders(e)' = Holders(e)
    <3>1. /\ Cardinality(Places(owner', Producers, e)) = Cardinality(Places(owner, Producers, e)) + 0
          /\ In(e, rejected') = In(e, rejected) + 0
      BY <1>2, SameCounts
    <3>2. Holders(e)' = Holders(e) + (0 + s + c + 0) BY <2>2, <2>4, <3>1, HolderSum
    <3>3. 0 + s + c + 0 = 0 BY <2>1, <2>3, NullAssumption DEF Same
    <3>4. Holders(e) \in Int BY HolderCounts
    <3>5. QED BY <3>2, <3>3, <3>4
  <2>6. QED BY <1>2, <2>5, HolderCounts
<1>4. QED BY <1>2, <1>3 DEF HolderInv, Places

\* No element is leaked or owned twice, whatever the races between producers
\* and with the consumer.
THEOREM UniqueOwner == Spec => []OneHolder
<1>1. Init => HolderInv
  <2>1. SUFFICES ASSUME Init PROVE HolderInv
    OBVIOUS
  <2>2. ASSUME NEW e \in Elements
        PROVE  /\ IsFiniteSet(Places(owner, Producers, e))
               /\ Holders(e) = IF e \in unsent THEN 0 ELSE 1
    <3>1. /\ Places(owner, Producers, e) = {} /\ Places(data, Slots, e) = {}
          /\ Occurrences(consumed, e) = {}
      BY <2>1, NullAssumption DEF Init, Places, Occurrences
    <3>2. In(e, rejected) = 0 /\ e \in unsent BY <2>1 DEF Init, In
    <3>3. QED BY <3>1, <3>2, FS_EmptySet, HoldersAre
  <2>3. QED BY <2>1, <2>2 DEF HolderInv, Init
<1>2. ASSUME IInv, HolderInv, [Next]_vars
      PROVE  HolderInv'
  <2>1. CASE \E p \in Producers, e \in Elements : AddCall(p, e)
    BY <1>2, <2>1, AddCallHolder
  <2>2. CASE \E p \in Producers : AddStep(p)
    <3>1. PICK p \in Producers : AddStep(p) BY <2>2
    <3>2. CASE LoadTail(p) \/ SwapIfNullFails(p) \/ CasHeadFails(p) \/ CasHead(p)
      <4>1. \A q \in Producers : pc'[q] = "idle" => owner[q] = NULL
        BY <1>2, <3>2 DEF LoadTail, SwapIfNullFails, CasHeadFails, CasHead, Goto, HolderInv,
                          IInv, TypeOK, HeldSlots, Holding
      <4>2. QED BY <1>2, <3>2, <4>1, SameHolders
                DEF LoadTail, SwapIfNullFails, CasHeadFails, CasHead, bufferVars, historyVars
    <3>3. QED BY <1>2, <3>1, <3>2, LoadHeadHolder, SwapHolder DEF AddStep
  <2>3. CASE ConsumeStep
    <3>1. CASE Callback BY <1>2, <3>1, CallbackHolder
    <3>2. CASE Peek \/ AdvanceTail \/ \E n \in 1..(head - tail) : Size(n)
      BY <1>2, <3>2, SameHolders
         DEF Peek, AdvanceTail, Size, bufferVars, producerVars, historyVars, HolderInv
    <3>3. QED BY <2>3, <3>1, <3>2 DEF ConsumeStep
  <2>4. CASE UNCHANGED vars BY <1>2, <2>4, SameHolders DEF vars, HolderInv
  <2>5. QED BY <1>2, <2>1, <2>2, <2>3, <2>4 DEF Next, Finished
<1>3. HolderInv => OneHolder BY DEF HolderInv, OneHolder
<1>4. QED BY <1>1, <1>2, <1>3, Invariance, PTL DEF Spec
=============================================================================
