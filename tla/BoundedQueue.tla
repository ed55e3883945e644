---------------------------- MODULE BoundedQueue ----------------------------
(***************************************************************************)
(* What sdk/common/circular_buffer.h promises its users: a bounded FIFO    *)
(* queue with many producers and one consumer.                             *)
(*                                                                         *)
(* An Add is a call that observes how far the consumer has released room,  *)
(* and later takes effect in one step: it accepts its element, or rejects  *)
(* it.  The decision compares the elements accepted by then with the room  *)
(* released at the earlier observation, so a rejection may be stale, an    *)
(* acceptance never overfills the queue.  The consumer claims a batch      *)
(* (its room is free at once) and receives the elements one by one.        *)
(***************************************************************************)
EXTENDS Naturals, Sequences

CONSTANTS Producers,  \* threads that call Add
          Elements,   \* the distinct objects passed to Add
          MaxSize,    \* max_size(): how many elements may be unclaimed
          NULL        \* no element

VARIABLES queue,      \* accepted and not yet claimed
          claimed,    \* claimed by the consumer, not yet handed over
          delivered,  \* handed over to the consumer, in order
          rejected,   \* elements whose Add returned false
          unsent,     \* elements no Add has been called with yet
          phase,      \* phase[p]: "idle", "called" or "decided"
          elem,       \* elem[p]: the argument of p's current call
          seen        \* seen[p]: the released room p last observed

vars == <<queue, claimed, delivered, rejected, unsent, phase, elem, seen>>

Released == Len(delivered) + Len(claimed)

Init ==
  /\ queue = <<>> /\ claimed = <<>> /\ delivered = <<>>
  /\ rejected = {} /\ unsent = Elements
  /\ phase = [p \in Producers |-> "idle"]
  /\ elem = [p \in Producers |-> NULL]
  /\ seen = [p \in Producers |-> 0]

Call(p, e) ==
  /\ phase[p] = "idle" /\ e \in unsent
  /\ phase' = [phase EXCEPT ![p] = "called"]
  /\ elem' = [elem EXCEPT ![p] = e]
  /\ unsent' = unsent \ {e}
  /\ UNCHANGED <<queue, claimed, delivered, rejected, seen>>

\* The released room is read, then compared with what is accepted by then.
Observe(p) ==
  /\ phase[p] = "called"
  /\ phase' = [phase EXCEPT ![p] = "decided"]
  /\ seen' = [seen EXCEPT ![p] = Released]
  /\ UNCHANGED <<queue, claimed, delivered, rejected, unsent, elem>>

\* An attempt that lost a race observes again.
Retry(p) ==
  /\ phase[p] = "decided"
  /\ phase' = [phase EXCEPT ![p] = "called"]
  /\ UNCHANGED <<queue, claimed, delivered, rejected, unsent, elem, seen>>

Outstanding(p) == Released + Len(queue) - seen[p]

Accept(p) ==
  /\ phase[p] = "decided" /\ Outstanding(p) < MaxSize
  /\ phase' = [phase EXCEPT ![p] = "idle"]
  /\ queue' = Append(queue, elem[p])
  /\ UNCHANGED <<claimed, delivered, rejected, unsent, elem, seen>>

Reject(p) ==
  /\ phase[p] = "decided" /\ Outstanding(p) >= MaxSize
  /\ phase' = [phase EXCEPT ![p] = "idle"]
  /\ rejected' = rejected \union {elem[p]}
  /\ UNCHANGED <<queue, claimed, delivered, unsent, elem, seen>>

Claim(n) ==
  /\ claimed = <<>> /\ n \in 1..Len(queue)
  /\ claimed' = SubSeq(queue, 1, n)
  /\ queue' = SubSeq(queue, n + 1, Len(queue))
  /\ UNCHANGED <<delivered, rejected, unsent, phase, elem, seen>>

Deliver ==
  /\ claimed # <<>>
  /\ delivered' = Append(delivered, Head(claimed))
  /\ claimed' = Tail(claimed)
  /\ UNCHANGED <<queue, rejected, unsent, phase, elem, seen>>

Next ==
  \/ \E p \in Producers :
        \/ \E e \in Elements : Call(p, e)
        \/ Observe(p) \/ Retry(p) \/ Accept(p) \/ Reject(p)
  \/ \E n \in 1..Len(queue) : Claim(n)
  \/ Deliver

Spec == Init /\ [][Next]_vars
=============================================================================
