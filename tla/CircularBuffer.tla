--------------------------- MODULE CircularBuffer ---------------------------
(***************************************************************************)
(* sdk/common/circular_buffer.h, with circular_buffer_range.h and          *)
(* atomic_unique_ptr.h: the multi-producer, single-consumer ring of owning *)
(* pointers under every batch processor.                                   *)
(*                                                                         *)
(* One action per atomic operation of the code.  Add reads tail_, reads    *)
(* head_, swaps its pointer into the slot of head_ if that slot is null,   *)
(* and publishes it by advancing head_ with a compare-exchange; when that  *)
(* fails it swaps the pointer back out and starts again.  Consume computes *)
(* the (possibly wrapped) range of slots, frees the room by advancing      *)
(* tail_, and only then lets the callback empty the slots one by one, so   *)
(* producers run into slots that are free by count but not yet null.       *)
(*                                                                         *)
(* head_ and tail_ are 64-bit counters that count elements; they cannot    *)
(* wrap in the life of a process and are naturals here.  Atomics are       *)
(* sequentially consistent.                                                *)
(***************************************************************************)
EXTENDS Integers, Sequences, FiniteSets

CONSTANTS Producers,  \* threads that call Add
          Elements,   \* the distinct objects passed to Add
          MaxSize,    \* the constructor's max_size
          NULL        \* the null pointer

ASSUME MaxSizeAssumption == MaxSize \in Nat
ASSUME NullAssumption == NULL \notin Elements

VARIABLES head, tail, data,         \* the buffer's members
          pc, owner, rtail, rhead,  \* an Add call: step, ptr, locals
          cpc, want, range, idx,    \* the Consume call: step and locals
          elem, unsent,             \* the argument of each call, unused ones
          accepted, consumed, rejected  \* history: what Add and Consume did

bufferVars == <<head, tail, data>>
producerVars == <<pc, owner, rtail, rhead, elem, unsent>>
consumerVars == <<cpc, want, range, idx>>
historyVars == <<accepted, consumed, rejected>>
vars == <<head, tail, data, pc, owner, rtail, rhead, cpc, want, range, idx,
          elem, unsent, accepted, consumed, rejected>>

-----------------------------------------------------------------------------
capacity == MaxSize + 1
Slots == 0..(capacity - 1)

\* A CircularBufferRange: two spans of slots, walked one after the other.
span(off, len) == [off |-> off, len |-> len]
NoSpan == span(0, 0)
RangeSize(r) == r.first.len + r.second.len

PeekImpl(t, h) ==
  LET tail_index == t % capacity
      head_index == h % capacity
  IN  IF head_index = tail_index THEN [first |-> NoSpan, second |-> NoSpan]
      ELSE IF tail_index < head_index
      THEN [first |-> span(tail_index, head_index - tail_index), second |-> NoSpan]
      ELSE [first |-> span(tail_index, capacity - tail_index),
            second |-> span(0, head_index)]

\* Mutant: the second span is not shortened by what the first one covers.
Take_LongSecond(r, n) ==
  IF r.first.len >= n
  THEN [first |-> span(r.first.off, n), second |-> NoSpan]
  ELSE [first |-> r.first, second |-> span(r.second.off, n)]

Take(r, n) ==
  IF r.first.len >= n
  THEN [first |-> span(r.first.off, n), second |-> NoSpan]
  ELSE [first |-> r.first, second |-> span(r.second.off, n - r.first.len)]

\* ForEach: the slot visited after i others.
ForEach(r, i) ==
  IF i < r.first.len THEN r.first.off + i
                     ELSE r.second.off + (i - r.first.len)

Init ==
  /\ head = 0 /\ tail = 0
  /\ data = [s \in Slots |-> NULL]
  /\ pc = [p \in Producers |-> "idle"]
  /\ owner = [p \in Producers |-> NULL]
  /\ rtail = [p \in Producers |-> 0]
  /\ rhead = [p \in Producers |-> 0]
  /\ cpc = "idle" /\ want = 0 /\ idx = 0
  /\ range = [first |-> NoSpan, second |-> NoSpan]
  /\ elem = [p \in Producers |-> NULL]
  /\ unsent = Elements
  /\ accepted = <<>> /\ consumed = <<>> /\ rejected = {}

-----------------------------------------------------------------------------
(* Add, one action per atomic operation.                                   *)

Goto(p, from, to) == pc[p] = from /\ pc' = [pc EXCEPT ![p] = to]

AddCall(p, e) ==
  /\ e \in unsent
  /\ Goto(p, "idle", "loadTail")
  /\ owner' = [owner EXCEPT ![p] = e]
  /\ elem' = [elem EXCEPT ![p] = e]
  /\ unsent' = unsent \ {e}
  /\ UNCHANGED <<bufferVars, rtail, rhead, consumerVars, historyVars>>

LoadTail(p) ==
  /\ Goto(p, "loadTail", "loadHead")
  /\ rtail' = [rtail EXCEPT ![p] = tail]
  /\ UNCHANGED <<bufferVars, owner, rhead, elem, unsent, consumerVars, historyVars>>

IsFull(h, t) == h - t >= capacity - 1

\* A call that finds the buffer full returns false; its pointer is destroyed.
LoadHead(p) ==
  /\ rhead' = [rhead EXCEPT ![p] = head]
  /\ \/ /\ IsFull(head, rtail[p])
        /\ Goto(p, "loadHead", "idle")
        /\ owner' = [owner EXCEPT ![p] = NULL]
        /\ rejected' = rejected \union {owner[p]}
     \/ /\ ~IsFull(head, rtail[p])
        /\ Goto(p, "loadHead", "swapIfNull")
        /\ UNCHANGED <<owner, rejected>>
  /\ UNCHANGED <<bufferVars, rtail, elem, unsent, consumerVars, accepted, consumed>>

head_index(p) == rhead[p] % capacity

\* Mutant: a plain store into the slot, without the test for null.
SwapIfNull_Store(p) ==
  /\ Goto(p, "swapIfNull", "casHead")
  /\ data' = [data EXCEPT ![head_index(p)] = owner[p]]
  /\ owner' = [owner EXCEPT ![p] = NULL]
  /\ UNCHANGED <<head, tail, rtail, rhead, elem, unsent, consumerVars, historyVars>>

SwapIfNull(p) ==
  /\ data[head_index(p)] = NULL
  /\ Goto(p, "swapIfNull", "casHead")
  /\ data' = [data EXCEPT ![head_index(p)] = owner[p]]
  /\ owner' = [owner EXCEPT ![p] = NULL]
  /\ UNCHANGED <<head, tail, rtail, rhead, elem, unsent, consumerVars, historyVars>>

\* The slot is taken, or compare_exchange_weak fails spuriously.
SwapIfNullFails(p) ==
  /\ Goto(p, "swapIfNull", "loadTail")
  /\ UNCHANGED <<bufferVars, owner, rtail, rhead, elem, unsent, consumerVars, historyVars>>

\* Mutant: head_ is stored instead of compared and exchanged.
CasHead_Store(p) ==
  /\ Goto(p, "casHead", "idle")
  /\ head' = rhead[p] + 1
  /\ accepted' = Append(accepted, elem[p])
  /\ UNCHANGED <<tail, data, owner, rtail, rhead, elem, unsent, consumerVars,
                 consumed, rejected>>

CasHead(p) ==
  /\ head = rhead[p]
  /\ Goto(p, "casHead", "idle")
  /\ head' = head + 1
  /\ accepted' = Append(accepted, elem[p])
  /\ UNCHANGED <<tail, data, owner, rtail, rhead, elem, unsent, consumerVars,
                 consumed, rejected>>

\* Mutant: a lost race retries without taking the pointer back out.
CasHeadFails_NoUndo(p) ==
  /\ Goto(p, "casHead", "loadTail")
  /\ UNCHANGED <<bufferVars, owner, rtail, rhead, elem, unsent, consumerVars, historyVars>>

\* head_ has moved on, or compare_exchange_weak fails spuriously.
CasHeadFails(p) ==
  /\ Goto(p, "casHead", "undoSwap")
  /\ UNCHANGED <<bufferVars, owner, rtail, rhead, elem, unsent, consumerVars, historyVars>>

\* Mutant: the pointer is copied back but left in the slot.
UndoSwap_Copy(p) ==
  /\ Goto(p, "undoSwap", "loadTail")
  /\ owner' = [owner EXCEPT ![p] = data[head_index(p)]]
  /\ UNCHANGED <<bufferVars, rtail, rhead, elem, unsent, consumerVars, historyVars>>

UndoSwap(p) ==
  /\ Goto(p, "undoSwap", "loadTail")
  /\ owner' = [owner EXCEPT ![p] = data[head_index(p)]]
  /\ data' = [data EXCEPT ![head_index(p)] = owner[p]]
  /\ UNCHANGED <<head, tail, rtail, rhead, elem, unsent, consumerVars, historyVars>>

-----------------------------------------------------------------------------
(* The consumer: size(), then Consume(n) for some n up to that size.       *)

Size(n) ==
  /\ cpc = "idle" /\ n \in 1..(head - tail)
  /\ cpc' = "peek" /\ want' = n
  /\ UNCHANGED <<bufferVars, producerVars, range, idx, historyVars>>

Peek ==
  /\ cpc = "peek"
  /\ cpc' = "advance"
  /\ range' = Take(PeekImpl(tail, head), want)
  /\ UNCHANGED <<bufferVars, producerVars, want, idx, historyVars>>

AdvanceTail ==
  /\ cpc = "advance"
  /\ cpc' = "callback"
  /\ tail' = tail + want /\ idx' = 0
  /\ UNCHANGED <<head, data, producerVars, want, range, historyVars>>

\* Mutant: the callback reads the pointer and does not null the slot.
Callback_KeepSlot ==
  /\ cpc = "callback"
  /\ consumed' = Append(consumed, data[ForEach(range, idx)])
  /\ idx' = idx + 1
  /\ cpc' = IF idx + 1 = RangeSize(range) THEN "idle" ELSE "callback"
  /\ UNCHANGED <<bufferVars, producerVars, want, range, accepted, rejected>>

\* The callback swaps a null pointer into the slot and keeps what was there.
Callback ==
  /\ cpc = "callback"
  /\ consumed' = Append(consumed, data[ForEach(range, idx)])
  /\ data' = [data EXCEPT ![ForEach(range, idx)] = NULL]
  /\ idx' = idx + 1
  /\ cpc' = IF idx + 1 = RangeSize(range) THEN "idle" ELSE "callback"
  /\ UNCHANGED <<head, tail, producerVars, want, range, accepted, rejected>>

-----------------------------------------------------------------------------
AddStep(p) ==
  \/ LoadTail(p) \/ LoadHead(p) \/ SwapIfNull(p) \/ SwapIfNullFails(p)
  \/ CasHead(p) \/ CasHeadFails(p) \/ UndoSwap(p)

ConsumeStep == (\E n \in 1..(head - tail) : Size(n)) \/ Peek \/ AdvanceTail \/ Callback

\* Every element has been passed to Add and every accepted one consumed.
Finished ==
  /\ unsent = {} /\ \A p \in Producers : pc[p] = "idle"
  /\ cpc = "idle" /\ head = tail
  /\ UNCHANGED vars

Next ==
  \/ \E p \in Producers : (\E e \in Elements : AddCall(p, e)) \/ AddStep(p)
  \/ ConsumeStep
  \/ Finished

Spec == Init /\ [][Next]_vars

(***************************************************************************)
(* Threads are scheduled; the two weak compare-exchanges may fail          *)
(* spuriously, but not every time one is tried with the expected value in  *)
(* place.                                                                  *)
(***************************************************************************)
Fairness ==
  /\ \A p \in Producers :
        WF_vars(AddStep(p)) /\ SF_vars(SwapIfNull(p)) /\ SF_vars(CasHead(p))
  /\ WF_vars(ConsumeStep)

FairSpec == Spec /\ Fairness

-----------------------------------------------------------------------------
(* Properties.                                                             *)

Pointer == Elements \union {NULL}
Span == [off : Slots, len : 0..capacity]

\* Types: what each member and local of Add and Consume can hold.  The
\* batch the consumer asks for never exceeds max_size.
TypeOK ==
  /\ head \in Nat /\ tail \in Nat
  /\ data \in [Slots -> Pointer]
  /\ pc \in [Producers -> {"idle", "loadTail", "loadHead", "swapIfNull",
                           "casHead", "undoSwap"}]
  /\ owner \in [Producers -> Pointer] /\ elem \in [Producers -> Pointer]
  /\ rtail \in [Producers -> Nat] /\ rhead \in [Producers -> Nat]
  /\ cpc \in {"idle", "peek", "advance", "callback"}
  /\ want \in 0..MaxSize /\ idx \in 0..MaxSize
  /\ range \in [first : Span, second : Span]
  /\ unsent \in SUBSET Elements /\ rejected \in SUBSET Elements
  /\ accepted \in Seq(Elements) /\ consumed \in Seq(Elements)

\* The elements the callback receives are the accepted ones, in the order
\* in which their Add succeeded: none is lost, repeated, reordered or null,
\* although Consume frees the room before it empties the slots.
FifoDelivery ==
  /\ Len(consumed) <= Len(accepted)
  /\ \A i \in 1..Len(consumed) : consumed[i] = accepted[i]

\* A producer that loses the race on head_ gets its own pointer back out of
\* the slot, never another producer's and never null, so the retry of Add
\* adds the element it was called with.
OwnElementBack ==
  \A p \in Producers :
     pc[p] \in {"loadTail", "loadHead", "swapIfNull"} => owner[p] = elem[p]

(***************************************************************************)
(* The inductive invariant behind the two properties above.  Positions are *)
(* counted from the first element accepted: a position is live from the    *)
(* compare-exchange that accepts it until the callback empties its slot.   *)
(***************************************************************************)
Live == Len(consumed)..(head - 1)
Slot(i) == i % capacity
Holding(p) == pc[p] \in {"casHead", "undoSwap"}
Claimed == IF cpc = "callback" THEN want - idx ELSE 0

\* The counters count what the history records, the unclaimed elements fit
\* in max_size and the live ones, claimed or not, in the ring.
Counters ==
  /\ head = Len(accepted)
  /\ tail = Len(consumed) + Claimed
  /\ tail <= head /\ head - tail <= MaxSize
  /\ head - Len(consumed) <= capacity
  /\ cpc = "callback" => idx < want
  /\ cpc \in {"peek", "advance"} => want >= 1 /\ want <= head - tail

\* Every live position's slot holds the element accepted at that position.
LiveSlots == \A i \in Live : data[Slot(i)] = accepted[i + 1]

\* A producer between its two compare-exchanges has its element in a slot
\* that is no live position's and no other producer's.
HeldSlots ==
  \A p \in Producers : Holding(p) =>
    /\ data[head_index(p)] = elem[p] /\ owner[p] = NULL
    /\ \A i \in Live : Slot(i) # head_index(p)
    /\ \A q \in Producers : q # p /\ Holding(q) => head_index(q) # head_index(p)

\* The locals of Add are old values of head_ and tail_ that left room.
Locals ==
  \A p \in Producers :
    /\ rtail[p] <= tail /\ rhead[p] <= head
    /\ pc[p] \in {"swapIfNull", "casHead", "undoSwap"} => rhead[p] - rtail[p] < MaxSize
    /\ pc[p] # "idle" => elem[p] \in Elements

\* The range in the consumer's hands is the next want positions, wrapped.
RangeSlots ==
  /\ cpc \in {"advance", "callback"} => RangeSize(range) = want
  /\ cpc = "advance" =>
       \A i \in 0..(want - 1) : ForEach(range, i) = Slot(tail + i)
  /\ cpc = "callback" =>
       \A i \in 0..(want - 1) : ForEach(range, i) = Slot(tail - want + i)

IInv ==
  /\ TypeOK /\ Counters /\ Locals
  /\ LiveSlots /\ HeldSlots /\ RangeSlots
  /\ OwnElementBack /\ FifoDelivery

\* Unique ownership across the raw-pointer exchanges: an element passed to
\* Add is held by exactly one of a call's unique_ptr, a slot, the consumer
\* or the dropped ones.  No leak and no double delete.
Holders(e) ==
  Cardinality({p \in Producers : owner[p] = e})
  + Cardinality({s \in Slots : data[s] = e})
  + Cardinality({i \in 1..Len(consumed) : consumed[i] = e})
  + (IF e \in rejected THEN 1 ELSE 0)
OneHolder == \A e \in Elements \ unsent : Holders(e) = 1

\* Add returns, if only finitely many other Adds compete with it (Elements is
\* finite) and every thread is scheduled: no producer spins for ever on a slot
\* that another one, or the consumer's callback, has yet to empty.  Against an
\* endless stream of Adds it need not return: its compare-exchange of head_ can
\* lose to another producer every time.
AddReturns == \A p \in Producers : (pc[p] # "idle") ~> (pc[p] = "idle")

\* The ring implements the bounded queue its users rely on: an Add takes
\* effect at its successful compare-exchange or at the load of head_ that
\* finds no room, Consume claims at tail_ += n and delivers slot by slot.
Queue == INSTANCE BoundedQueue WITH
  queue <- SubSeq(accepted, tail + 1, head),
  claimed <- SubSeq(accepted, Len(consumed) + 1, tail),
  delivered <- consumed,
  phase <- [p \in Producers |->
              CASE pc[p] = "idle" -> "idle" [] pc[p] = "loadTail" -> "called"
                [] OTHER -> "decided"],
  seen <- rtail
ImplementsQueue == Queue!Spec
=============================================================================
