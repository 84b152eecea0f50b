------------------------------ MODULE FifoList ------------------------------
(***************************************************************************)
(* The doubly linked list of src/fifo.c, with the memory it is made of.    *)
(* Its callers are the agent (src/neb2amqp.c), which pushes, shifts, and   *)
(* puts back or frees what it shifted, and test/fifo-bench.c, which also   *)
(* pops and prepends new events, to a list with two events or more.        *)
(*                                                                         *)
(* That bound is a promise the list needs: taking the only event off one   *)
(* end leaves the pointer to the other end dangling.                       *)
(***************************************************************************)
EXTENDS Integers, Sequences, FiniteSets

CONSTANTS Node,     \* the memory blocks an event may be allocated in
          Null,
          CacheSize \* max_size of the fifo

ASSUME ListAssumption == Null \notin Node /\ CacheSize \in Nat \ {0}

VARIABLES list,       \* the struct sFifo, and the links of the events
          allocated,  \* the blocks that hold an event
          held        \* the event a caller took off the list and still has

vars == <<list, allocated, held>>

Pointer == Node \cup {Null}

List == [first : Pointer, last : Pointer, size : 0..CacheSize, full : BOOLEAN,
         pNext : [Node -> Pointer], pPrev : [Node -> Pointer]]

TypeOK == list \in List /\ allocated \subseteq Node /\ held \in Pointer

(* What n2a_fifo_init makes, before n2a_load pushes into it.               *)
EmptyList == [first |-> Null, last |-> Null, size |-> 0, full |-> FALSE,
              pNext |-> [n \in Node |-> Null], pPrev |-> [n \in Node |-> Null]]

-----------------------------------------------------------------------------
(* The functions of fifo.c, on the list l.                                 *)

FullTooLate(l) == [l EXCEPT !.full = l.size > CacheSize]   \* defect: off by one

(* n2a_check_size.                                                         *)
CheckSize(l) == [l EXCEPT !.full = l.size >= CacheSize]

(* An event is created, or leaves the list, with no neighbours.            *)
Unlinked(l, n) == [l EXCEPT !.pNext[n] = Null, !.pPrev[n] = Null]

ShiftKeepsLink(l) ==   \* defect: the new first event points to the old one
    IF l.first = Null THEN l
    ELSE LET rest == l.pNext[l.first]
         IN  [l EXCEPT !.first = rest, !.pNext[l.first] = Null, !.size = @ - 1]

(* n2a_shift.  An only event leaves `last' behind, pointing to it.         *)
ShiftFirst(l) ==
    IF l.first = Null THEN l
    ELSE LET rest == l.pNext[l.first]
             cut  == IF rest = Null THEN l ELSE [l EXCEPT !.pPrev[rest] = Null]
         IN  Unlinked([cut EXCEPT !.first = rest, !.size = @ - 1], l.first)

(* n2a_pop.  An only event leaves `first' behind, pointing to it.          *)
PopLast(l) ==
    IF l.last = Null THEN l
    ELSE LET rest == l.pPrev[l.last]
             cut  == IF rest = Null THEN l ELSE [l EXCEPT !.pNext[rest] = Null]
         IN  Unlinked([cut EXCEPT !.last = rest, !.size = @ - 1], l.last)

(* The first event of an empty list.                                       *)
Alone(l, n) == [l EXCEPT !.first = n, !.last = n, !.size = @ + 1]

(* The second halves of n2a_push and n2a_prepend.                          *)
LinkLast(l, n) ==
    IF l.first = Null THEN Alone(l, n)
    ELSE [l EXCEPT !.pPrev[n] = l.last, !.pNext[l.last] = n, !.last = n, !.size = @ + 1]

LinkFirst(l, n) ==
    IF l.first = Null THEN Alone(l, n)
    ELSE [l EXCEPT !.pPrev[n] = Null, !.pNext[n] = l.first,
                   !.pPrev[l.first] = n, !.first = n, !.size = @ + 1]

(* The event a full list loses to a push, and to a prepend.                *)
LostToPush(l)    == IF CheckSize(l).full THEN {l.first} ELSE {}
LostToPrepend(l) == IF CheckSize(l).full THEN {l.last} ELSE {}

PushNode(l, n) ==
    LET c == CheckSize(l) IN LinkLast(IF c.full THEN ShiftFirst(c) ELSE c, n)

PrependDropsFirst(l, n) ==   \* defect: n2a_shift in the place of n2a_pop
    LET c == CheckSize(l) IN LinkFirst(IF c.full THEN ShiftFirst(c) ELSE c, n)

PrependNode(l, n) ==
    LET c == CheckSize(l) IN LinkFirst(IF c.full THEN PopLast(c) ELSE c, n)

-----------------------------------------------------------------------------
(* The calls.                                                              *)

Init == list = EmptyList /\ allocated = {} /\ held = Null

PushKeepsLost(n) ==   \* defect: the event that was pushed out is not freed
    /\ held = Null
    /\ list' = PushNode(Unlinked(list, n), n)
    /\ allocated' = allocated \cup {n}
    /\ UNCHANGED held

(* n2a_push of a new event.                                                *)
PushNew(n) ==
    /\ held = Null
    /\ list' = PushNode(Unlinked(list, n), n)
    /\ allocated' = (allocated \ LostToPush(list)) \cup {n}
    /\ UNCHANGED held

(* n2a_prepend of a new event, by test/fifo-bench.c.                       *)
PrependNew(n) ==
    /\ held = Null /\ list.size >= 2
    /\ list' = PrependNode(Unlinked(list, n), n)
    /\ allocated' = (allocated \ LostToPrepend(list)) \cup {n}
    /\ UNCHANGED held

(* n2a_shift: NULL when the list is empty.                                 *)
TakeFirst ==
    /\ held = Null
    /\ held' = list.first
    /\ list' = ShiftFirst(list)
    /\ UNCHANGED allocated

(* n2a_pop, by test/fifo-bench.c.                                          *)
TakeLast ==
    /\ held = Null /\ list.size >= 2
    /\ held' = list.last
    /\ list' = PopLast(list)
    /\ UNCHANGED allocated

(* n2a_free_event of the event that was taken.                             *)
FreeHeld ==
    /\ held # Null
    /\ allocated' = allocated \ {held}
    /\ held' = Null
    /\ UNCHANGED list

(* n2a_prepend of the event that was taken.                                *)
PutBackHeld ==
    /\ held # Null
    /\ list' = PrependNode(list, held)
    /\ allocated' = allocated \ LostToPrepend(list)
    /\ held' = Null

(* The events of the list l by following pNext, and by following pPrev.    *)
Forward(l) ==
    LET at[k \in 1..l.size] == IF k = 1 THEN l.first ELSE l.pNext[at[k - 1]]
    IN  [k \in 1..l.size |-> at[k]]

Backward(l) ==
    LET at[k \in 1..l.size] == IF k = l.size THEN l.last ELSE l.pPrev[at[k + 1]]
    IN  [k \in 1..l.size |-> at[k]]

NodesOf(l) == {Forward(l)[k] : k \in 1..l.size}

(* n2a_free_fifo frees every event; the next fifo starts empty.            *)
FreeFifo ==
    /\ held = Null
    /\ allocated' = allocated \ NodesOf(list)
    /\ list' = EmptyList
    /\ UNCHANGED held

Next == \/ \E n \in Node \ allocated : PushNew(n) \/ PrependNew(n)
        \/ TakeFirst \/ TakeLast \/ FreeHeld \/ PutBackHeld \/ FreeFifo

Spec == Init /\ [][Next]_vars

-----------------------------------------------------------------------------
(***************************************************************************)
(* The two chains of pointers are those of one list: as long as `size'     *)
(* says, ending in NULL at both ends, the same events in both directions.  *)
(* The agent tests size where fifo.c tests first, and n2a_csync and        *)
(* n2a_free_fifo walk until NULL: they agree only on such a list.          *)
(***************************************************************************)
WellLinked ==
    /\ list.size = 0 <=> list.first = Null
    /\ list.size > 0 =>
         /\ Forward(list) = Backward(list)
         /\ list.pNext[list.last] = Null /\ list.pPrev[list.first] = Null

(***************************************************************************)
(* Memory: an event is allocated exactly while it is in the list or in the *)
(* hands of a caller, so no function reads an event that was freed, and    *)
(* none is leaked when the queue is full.                                  *)
(***************************************************************************)
NoLeakNoDangling ==
    /\ allocated = NodesOf(list) \cup ({held} \ {Null})
    /\ held \notin NodesOf(list)

(* The list is the bounded queue of module Fifo.                           *)
Q == INSTANCE EventQueue WITH
       Event <- Node, Bogus <- Null, q <- Forward(list),
       hand <- IF held = Null THEN <<>> ELSE <<held>>

ImplementsQueue == Q!Spec
=============================================================================
