----------------------------- MODULE EventQueue -----------------------------
(***************************************************************************)
(* What src/fifo.c promises to its callers: a bounded queue of events and  *)
(* the one event a caller has taken out of it.  The operators are those of *)
(* module Fifo, which module Neb2Amqp is built on.                         *)
(***************************************************************************)
EXTENDS Fifo

VARIABLES q,    \* the events in the queue, oldest first
          hand  \* the event a caller holds, as a sequence

qvars == <<q, hand>>

Init == q = <<>> /\ hand = <<>>

Accept(e) == q' = Push(q, e) /\ UNCHANGED hand

TakeOldest == hand = <<>> /\ q # <<>> /\ hand' = <<Head(q)>> /\ q' = Shift(q)

TakeNewest == hand = <<>> /\ q # <<>> /\ hand' = <<q[Len(q)]>> /\ q' = Pop(q)

PutBack == hand # <<>> /\ q' = Prepend(q, hand[1]) /\ hand' = <<>>

AcceptFirst(e) == q' = Prepend(q, e) /\ UNCHANGED hand

Discard == hand' = <<>> /\ UNCHANGED q

Reset == q' = <<>> /\ UNCHANGED hand

Next == \/ \E e \in Event : Accept(e) \/ AcceptFirst(e)
        \/ TakeOldest \/ TakeNewest \/ PutBack \/ Discard \/ Reset

Spec == Init /\ [][Next]_qvars
=============================================================================
