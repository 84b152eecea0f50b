----------------------------- MODULE FifoProofs -----------------------------
(***************************************************************************)
(* Proofs about the event queue of fifo.c.                                 *)
(*                                                                         *)
(* The linked list, for any memory and any size of the queue: the pointers *)
(* are those of one list, the list is the queue of module Fifo, and no     *)
(* event is leaked or used after it was freed.                             *)
(*                                                                         *)
(* The cache file, for all characters, events, buffer sizes and contents   *)
(* of uninitialised memory: what a load reads from a file that was         *)
(* written, or cut, by a save.                                             *)
(***************************************************************************)
EXTENDS FifoList, CacheFile, NaturalSets, SequenceTheorems

-----------------------------------------------------------------------------
(* The linked list.                                                        *)

(***************************************************************************)
(* The fields of l are those of a list of the events s, in that order.     *)
(***************************************************************************)
Represents(l, s) ==
    /\ s \in Seq(Node) /\ Len(s) = l.size
    /\ \A j, k \in 1..Len(s) : s[j] = s[k] => j = k
    /\ s = <<>> => l.first = Null
    /\ s # <<>> => l.first = s[1] /\ l.last = s[Len(s)]
    /\ \A k \in 1..Len(s) : l.pNext[s[k]] = IF k = Len(s) THEN Null ELSE s[k + 1]
    /\ \A k \in 1..Len(s) : l.pPrev[s[k]] = IF k = 1 THEN Null ELSE s[k - 1]

-----------------------------------------------------------------------------
(* Following the pointers gives the sequence.                              *)

LEMMA ForwardIsSequence ==
    ASSUME NEW l, NEW s, Represents(l, s)
    PROVE  Forward(l) = s
<1> DEFINE n == Len(s)
           Follows(f) == f = [k \in 1..n |-> IF k = 1 THEN l.first ELSE l.pNext[f[k - 1]]]
<1>1. s \in Seq(Node) /\ n = l.size /\ n \in Nat /\ s = [k \in 1..n |-> s[k]]
  BY LenProperties DEF Represents
<1>2. Follows(s)
  <2>1. ASSUME NEW k \in 1..n
        PROVE  s[k] = IF k = 1 THEN l.first ELSE l.pNext[s[k - 1]]
    <3>1. CASE k = 1
      <4>1. s # <<>>
        BY <1>1, EmptySeq
      <4> QED BY <3>1, <4>1 DEF Represents
    <3>2. CASE k # 1
      <4>1. k - 1 \in 1..n /\ k - 1 # n /\ (k - 1) + 1 = k
        BY <1>1, <3>2
      <4> QED BY <3>2, <4>1 DEF Represents
    <3> QED BY <3>1, <3>2
  <2> QED BY <1>1, <2>1
<1> HIDE DEF n
<1>3. ASSUME NEW f, Follows(f) PROVE [k \in 1..n |-> f[k]] = s
  <2> DEFINE A == {k \in Nat : k \in 1..n => f[k] = s[k]}
  <2>1. \A k \in 1..n : f[k] = IF k = 1 THEN l.first ELSE l.pNext[f[k - 1]]
    BY <1>3
  <2>2. \A k \in 1..n : s[k] = IF k = 1 THEN l.first ELSE l.pNext[s[k - 1]]
    BY <1>2
  <2> HIDE DEF Follows
  <2>3. 1 \in A
    BY <2>1, <2>2
  <2>4. \A k \in Nat : k >= 1 /\ k \in A => k + 1 \in A
    <3> SUFFICES ASSUME NEW k \in Nat, k >= 1, k \in A, k + 1 \in 1..n
                 PROVE  f[k + 1] = s[k + 1]
      OBVIOUS
    <3>1. k \in 1..n /\ f[k] = s[k] /\ k + 1 # 1 /\ (k + 1) - 1 = k
      BY <1>1
    <3>2. f[k + 1] = l.pNext[f[k]] /\ s[k + 1] = l.pNext[s[k]]
      BY <2>1, <2>2, <3>1
    <3> QED BY <3>1, <3>2
  <2> HIDE DEF A
  <2>5. \A k \in Nat : k >= 1 => k \in A
    BY <2>3, <2>4, InductionOnSet
  <2>6. ASSUME NEW k \in 1..n PROVE f[k] = s[k]
    <3>1. k \in Nat /\ k >= 1
      BY <1>1
    <3> QED BY <2>5, <3>1 DEF A
  <2> QED BY <1>1, <2>6
<1>4. Forward(l) = [k \in 1..n |-> (CHOOSE f : Follows(f))[k]]
  <2>1. l.size = n
    BY <1>1
  <2> QED BY <2>1 DEF Forward
<1> HIDE DEF Follows
<1>5. Follows(CHOOSE f : Follows(f))
  BY <1>2, Zenon
<1> QED BY <1>3, <1>4, <1>5

LEMMA BackwardIsSequence ==
    ASSUME NEW l, NEW s, Represents(l, s)
    PROVE  Backward(l) = s
<1> DEFINE n == Len(s)
           Follows(f) == f = [k \in 1..n |-> IF k = n THEN l.last ELSE l.pPrev[f[k + 1]]]
<1>1. s \in Seq(Node) /\ n = l.size /\ n \in Nat /\ s = [k \in 1..n |-> s[k]]
  BY LenProperties DEF Represents
<1>2. \A k \in 1..n : s[k] = IF k = n THEN l.last ELSE l.pPrev[s[k + 1]]
  <2>1. ASSUME NEW k \in 1..n
        PROVE  s[k] = IF k = n THEN l.last ELSE l.pPrev[s[k + 1]]
    <3>1. CASE k = n
      <4>1. s # <<>>
        BY <1>1, EmptySeq
      <4> QED BY <3>1, <4>1 DEF Represents
    <3>2. CASE k # n
      <4>1. k + 1 \in 1..n /\ k + 1 # 1 /\ (k + 1) - 1 = k
        BY <1>1, <3>2
      <4> QED BY <3>2, <4>1 DEF Represents
    <3> QED BY <3>1, <3>2
  <2> QED BY <2>1
<1> HIDE DEF n
<1>3. ASSUME NEW f, Follows(f) PROVE [k \in 1..n |-> f[k]] = s
  <2> DEFINE A == {d \in Nat : n - d \in 1..n => f[n - d] = s[n - d]}
  <2>1. \A k \in 1..n : f[k] = IF k = n THEN l.last ELSE l.pPrev[f[k + 1]]
    BY <1>3
  <2> HIDE DEF Follows
  <2>3. 0 \in A
    <3>1. n - 0 = n
      BY <1>1
    <3> QED BY <1>2, <2>1, <3>1
  <2>4. \A d \in Nat : d >= 0 /\ d \in A => d + 1 \in A
    <3> SUFFICES ASSUME NEW d \in Nat, d \in A, n - (d + 1) \in 1..n
                 PROVE  f[n - (d + 1)] = s[n - (d + 1)]
      OBVIOUS
    <3>0. n \in Nat
      BY <1>1
    <3> DEFINE k == n - (d + 1)
    <3>1. k \in 1..n /\ k # n /\ k + 1 = n - d /\ n - d \in 1..n
      BY <3>0
    <3>2. f[k + 1] = s[k + 1]
      BY <3>1
    <3> HIDE DEF k
    <3>3. f[k] = l.pPrev[f[k + 1]] /\ s[k] = l.pPrev[s[k + 1]]
      BY <1>2, <2>1, <3>1
    <3> QED BY <3>2, <3>3 DEF k
  <2> HIDE DEF A
  <2>5. \A d \in Nat : d >= 0 => d \in A
    BY <2>3, <2>4, InductionOnSet
  <2>6. ASSUME NEW k \in 1..n PROVE f[k] = s[k]
    <3>1. n - k \in Nat /\ n - k >= 0 /\ n - (n - k) = k
      BY <1>1
    <3> QED BY <2>5, <3>1 DEF A
  <2> QED BY <1>1, <2>6
<1>4. Backward(l) = [k \in 1..n |-> (CHOOSE f : Follows(f))[k]]
  <2>1. l.size = n
    BY <1>1
  <2> QED BY <2>1 DEF Backward
<1>5. Follows(s)
  BY <1>1, <1>2
<1> HIDE DEF Follows
<1>6. Follows(CHOOSE f : Follows(f))
  BY <1>5, Zenon
<1> QED BY <1>3, <1>4, <1>6

-----------------------------------------------------------------------------
(* The functions of fifo.c, field by field.                                *)

LEMMA UnlinkedFields ==
    ASSUME NEW l \in List, NEW n \in Node
    PROVE  /\ Unlinked(l, n) \in List
           /\ Unlinked(l, n).first = l.first /\ Unlinked(l, n).last = l.last
           /\ Unlinked(l, n).size = l.size
           /\ Unlinked(l, n).pNext = [l.pNext EXCEPT ![n] = Null]
           /\ Unlinked(l, n).pPrev = [l.pPrev EXCEPT ![n] = Null]
BY DEF Unlinked, List, Pointer

LEMMA CheckSizeFields ==
    ASSUME NEW l \in List
    PROVE  /\ CheckSize(l) \in List
           /\ CheckSize(l).full = (l.size >= CacheSize)
           /\ CheckSize(l).first = l.first /\ CheckSize(l).last = l.last
           /\ CheckSize(l).size = l.size
           /\ CheckSize(l).pNext = l.pNext /\ CheckSize(l).pPrev = l.pPrev
<1> DEFINE full == l.size >= CacheSize
<1>1. CheckSize(l) = [l EXCEPT !.full = full]
  BY DEF CheckSize
<1>2. full \in BOOLEAN
  BY ListAssumption DEF List
<1> HIDE DEF full
<1>3. /\ CheckSize(l) \in List /\ CheckSize(l).full = full
      /\ CheckSize(l).first = l.first /\ CheckSize(l).last = l.last
      /\ CheckSize(l).size = l.size
      /\ CheckSize(l).pNext = l.pNext /\ CheckSize(l).pPrev = l.pPrev
  BY <1>1, <1>2 DEF List
<1> QED BY <1>3 DEF full

LEMMA ShiftFirstFields ==
    ASSUME NEW l \in List, l.first \in Node, l.size > 0
    PROVE  /\ ShiftFirst(l) \in List
           /\ ShiftFirst(l).first = l.pNext[l.first] /\ ShiftFirst(l).last = l.last
           /\ ShiftFirst(l).size = l.size - 1
           /\ ShiftFirst(l).pNext = [l.pNext EXCEPT ![l.first] = Null]
           /\ ShiftFirst(l).pPrev =
                 [n \in Node |-> IF n = l.first \/ n = l.pNext[l.first] THEN Null
                                 ELSE l.pPrev[n]]
<1> DEFINE rest == l.pNext[l.first]
           cut  == IF rest = Null THEN l ELSE [l EXCEPT !.pPrev[rest] = Null]
           new  == [cut EXCEPT !.first = rest, !.size = @ - 1]
<1>1. /\ rest \in Pointer /\ l.first # Null /\ l.size - 1 \in 0..CacheSize
      /\ l.pPrev \in [Node -> Pointer]
  BY ListAssumption DEF List, Pointer
<1>2. /\ cut \in List /\ cut.first = l.first /\ cut.last = l.last /\ cut.size = l.size
      /\ cut.pNext = l.pNext
      /\ cut.pPrev = [n \in Node |-> IF n = rest THEN Null ELSE l.pPrev[n]]
  <2>1. CASE rest = Null
    <3>1. l.pPrev = [n \in Node |-> IF n = rest THEN Null ELSE l.pPrev[n]]
      BY <1>1, <2>1, ListAssumption
    <3> QED BY <2>1, <3>1
  <2>2. CASE rest # Null
    BY <1>1, <2>2 DEF List, Pointer
  <2> QED BY <2>1, <2>2
<1> HIDE DEF cut
<1>3. /\ new \in List /\ new.first = rest /\ new.last = l.last /\ new.size = l.size - 1
      /\ new.pNext = l.pNext /\ new.pPrev = cut.pPrev
  BY <1>1, <1>2 DEF List
<1>4. ShiftFirst(l) = Unlinked(new, l.first)
  BY <1>1 DEF ShiftFirst, cut
<1> HIDE DEF new, rest
<1>5. [cut.pPrev EXCEPT ![l.first] = Null]
        = [n \in Node |-> IF n = l.first \/ n = rest THEN Null ELSE l.pPrev[n]]
  BY <1>2
<1>6. /\ Unlinked(new, l.first) \in List
      /\ Unlinked(new, l.first).first = new.first
      /\ Unlinked(new, l.first).last = new.last
      /\ Unlinked(new, l.first).size = new.size
      /\ Unlinked(new, l.first).pNext = [new.pNext EXCEPT ![l.first] = Null]
      /\ Unlinked(new, l.first).pPrev = [new.pPrev EXCEPT ![l.first] = Null]
  BY <1>3, UnlinkedFields
<1> QED BY <1>3, <1>4, <1>5, <1>6 DEF rest

LEMMA PopLastFields ==
    ASSUME NEW l \in List, l.last \in Node, l.size > 0
    PROVE  /\ PopLast(l) \in List
           /\ PopLast(l).last = l.pPrev[l.last] /\ PopLast(l).first = l.first
           /\ PopLast(l).size = l.size - 1
           /\ PopLast(l).pPrev = [l.pPrev EXCEPT ![l.last] = Null]
           /\ PopLast(l).pNext =
                 [n \in Node |-> IF n = l.last \/ n = l.pPrev[l.last] THEN Null
                                 ELSE l.pNext[n]]
<1> DEFINE rest == l.pPrev[l.last]
           cut  == IF rest = Null THEN l ELSE [l EXCEPT !.pNext[rest] = Null]
           new  == [cut EXCEPT !.last = rest, !.size = @ - 1]
<1>1. /\ rest \in Pointer /\ l.last # Null /\ l.size - 1 \in 0..CacheSize
      /\ l.pNext \in [Node -> Pointer]
  BY ListAssumption DEF List, Pointer
<1>2. /\ cut \in List /\ cut.first = l.first /\ cut.last = l.last /\ cut.size = l.size
      /\ cut.pPrev = l.pPrev
      /\ cut.pNext = [n \in Node |-> IF n = rest THEN Null ELSE l.pNext[n]]
  <2>1. CASE rest = Null
    <3>1. l.pNext = [n \in Node |-> IF n = rest THEN Null ELSE l.pNext[n]]
      BY <1>1, <2>1, ListAssumption
    <3> QED BY <2>1, <3>1
  <2>2. CASE rest # Null
    BY <1>1, <2>2 DEF List, Pointer
  <2> QED BY <2>1, <2>2
<1> HIDE DEF cut
<1>3. /\ new \in List /\ new.last = rest /\ new.first = l.first /\ new.size = l.size - 1
      /\ new.pPrev = l.pPrev /\ new.pNext = cut.pNext
  BY <1>1, <1>2 DEF List
<1>4. PopLast(l) = Unlinked(new, l.last)
  BY <1>1 DEF PopLast, cut
<1> HIDE DEF new, rest
<1>5. [cut.pNext EXCEPT ![l.last] = Null]
        = [n \in Node |-> IF n = l.last \/ n = rest THEN Null ELSE l.pNext[n]]
  BY <1>2
<1>6. /\ Unlinked(new, l.last) \in List
      /\ Unlinked(new, l.last).first = new.first
      /\ Unlinked(new, l.last).last = new.last
      /\ Unlinked(new, l.last).size = new.size
      /\ Unlinked(new, l.last).pNext = [new.pNext EXCEPT ![l.last] = Null]
      /\ Unlinked(new, l.last).pPrev = [new.pPrev EXCEPT ![l.last] = Null]
  BY <1>3, UnlinkedFields
<1> QED BY <1>3, <1>4, <1>5, <1>6 DEF rest

LEMMA AloneFields ==
    ASSUME NEW l \in List, NEW n \in Node, l.size < CacheSize
    PROVE  /\ Alone(l, n) \in List
           /\ Alone(l, n).first = n /\ Alone(l, n).last = n
           /\ Alone(l, n).size = l.size + 1
           /\ Alone(l, n).pNext = l.pNext /\ Alone(l, n).pPrev = l.pPrev
<1>1. l.size + 1 \in 0..CacheSize /\ n \in Pointer
  BY ListAssumption DEF List, Pointer
<1> QED BY <1>1 DEF Alone, List

LEMMA LinkLastFields ==
    ASSUME NEW l \in List, NEW n \in Node, l.size < CacheSize,
           l.first # Null, l.last \in Node
    PROVE  /\ LinkLast(l, n) \in List
           /\ LinkLast(l, n).first = l.first /\ LinkLast(l, n).last = n
           /\ LinkLast(l, n).size = l.size + 1
           /\ LinkLast(l, n).pNext = [l.pNext EXCEPT ![l.last] = n]
           /\ LinkLast(l, n).pPrev = [l.pPrev EXCEPT ![n] = l.last]
<1>1. l.size + 1 \in 0..CacheSize /\ n \in Pointer /\ l.last \in Pointer
  BY ListAssumption DEF List, Pointer
<1> QED BY <1>1 DEF LinkLast, List

LEMMA LinkFirstFields ==
    ASSUME NEW l \in List, NEW n \in Node, l.size < CacheSize,
           l.first \in Node, l.first # n
    PROVE  /\ LinkFirst(l, n) \in List
           /\ LinkFirst(l, n).first = n /\ LinkFirst(l, n).last = l.last
           /\ LinkFirst(l, n).size = l.size + 1
           /\ LinkFirst(l, n).pNext = [l.pNext EXCEPT ![n] = l.first]
           /\ LinkFirst(l, n).pPrev = [l.pPrev EXCEPT ![n] = Null, ![l.first] = n]
<1>1. l.size + 1 \in 0..CacheSize /\ n \in Pointer /\ l.first \in Pointer /\ Null \in Pointer
      /\ l.first # Null
  BY ListAssumption DEF List, Pointer
<1> QED BY <1>1 DEF LinkFirst, List

-----------------------------------------------------------------------------
(* What they do to the sequence.                                           *)

(* The members of s are blocks, and its ends are where first and last say. *)
LEMMA RepresentedFacts ==
    ASSUME NEW l \in List, NEW s, Represents(l, s)
    PROVE  /\ s \in Seq(Node) /\ Len(s) = l.size /\ Len(s) \in 0..CacheSize
           /\ \A k \in 1..Len(s) : s[k] \in Node /\ s[k] # Null
           /\ s = <<>> <=> Len(s) = 0
           /\ l.first = Null <=> s = <<>>
           /\ s # <<>> => /\ Len(s) \in 1..Len(s) /\ 1 \in 1..Len(s)
                          /\ l.first = s[1] /\ l.last = s[Len(s)]
<1>1. s \in Seq(Node) /\ Len(s) = l.size /\ Len(s) \in 0..CacheSize
  BY DEF Represents, List
<1>2. \A k \in 1..Len(s) : s[k] \in Node /\ s[k] # Null
  BY <1>1, ElementOfSeq, ListAssumption
<1>3. s = <<>> <=> Len(s) = 0
  BY <1>1, EmptySeq
<1>4. s # <<>> => Len(s) \in 1..Len(s) /\ 1 \in 1..Len(s)
  BY <1>1, <1>3
<1>5. s # <<>> => l.first = s[1] /\ l.last = s[Len(s)]
  BY DEF Represents
<1>6. l.first = Null <=> s = <<>>
  BY <1>2, <1>4, <1>5 DEF Represents
<1> QED BY <1>1, <1>2, <1>3, <1>4, <1>5, <1>6

LEMMA ShiftRepresents ==
    ASSUME NEW l \in List, NEW s, Represents(l, s), s # <<>>
    PROVE  /\ Represents(ShiftFirst(l), Tail(s)) /\ ShiftFirst(l) \in List
           /\ ShiftFirst(l).size = l.size - 1
           /\ ShiftFirst(l).pNext[s[1]] = Null /\ ShiftFirst(l).pPrev[s[1]] = Null
           /\ \A n \in Node : (\A k \in 1..Len(s) : s[k] # n) =>
                 /\ ShiftFirst(l).pNext[n] = l.pNext[n]
                 /\ ShiftFirst(l).pPrev[n] = l.pPrev[n]
<1> DEFINE r == ShiftFirst(l)
           t == Tail(s)
           rest == l.pNext[s[1]]
<1>1. /\ s \in Seq(Node) /\ Len(s) = l.size /\ Len(s) \in Nat \ {0} /\ Len(s) <= CacheSize
      /\ \A k \in 1..Len(s) : s[k] \in Node /\ s[k] # Null
      /\ l.first = s[1] /\ l.last = s[Len(s)] /\ 1 \in 1..Len(s)
  BY RepresentedFacts, ListAssumption
<1>2. /\ \A j, k \in 1..Len(s) : s[j] = s[k] => j = k
      /\ \A k \in 1..Len(s) : l.pNext[s[k]] = IF k = Len(s) THEN Null ELSE s[k + 1]
      /\ \A k \in 1..Len(s) : l.pPrev[s[k]] = IF k = 1 THEN Null ELSE s[k - 1]
  BY DEF Represents
<1>3. /\ t \in Seq(Node) /\ Len(t) = Len(s) - 1
      /\ \A k \in 1..Len(t) : t[k] = s[k + 1] /\ k + 1 \in 1..Len(s)
  BY <1>1, HeadTailProperties
<1>4. /\ r \in List /\ r.first = rest /\ r.last = l.last /\ r.size = l.size - 1
      /\ r.pNext = [l.pNext EXCEPT ![s[1]] = Null]
      /\ r.pPrev = [n \in Node |-> IF n = s[1] \/ n = rest THEN Null ELSE l.pPrev[n]]
  <2>1. l.first \in Node /\ l.size > 0
    BY <1>1
  <2>2. /\ r \in List /\ r.first = l.pNext[l.first] /\ r.last = l.last
        /\ r.size = l.size - 1
        /\ r.pNext = [l.pNext EXCEPT ![l.first] = Null]
        /\ r.pPrev = [n \in Node |-> IF n = l.first \/ n = l.pNext[l.first] THEN Null
                                     ELSE l.pPrev[n]]
    BY <2>1, ShiftFirstFields
  <2> HIDE DEF r
  <2> QED BY <1>1, <2>2
<1>5. rest = IF Len(s) = 1 THEN Null ELSE s[2]
  BY <1>1, <1>2
<1>6. l.pNext \in [Node -> Pointer]
  BY DEF List
<1> HIDE DEF r, t, rest
<1>7. \A n \in Node : /\ r.pNext[n] = IF n = s[1] THEN Null ELSE l.pNext[n]
                      /\ r.pPrev[n] = IF n = s[1] \/ n = rest THEN Null ELSE l.pPrev[n]
  BY <1>4, <1>6
<1>8. Represents(r, t)
  <2>1. \A j, k \in 1..Len(t) : t[j] = t[k] => j = k
    <3> SUFFICES ASSUME NEW j \in 1..Len(t), NEW k \in 1..Len(t), t[j] = t[k]
                 PROVE  j = k
      OBVIOUS
    <3>1. j + 1 = k + 1
      BY <1>2, <1>3
    <3> QED BY <1>1, <1>3, <3>1
  <2>2. t = <<>> => r.first = Null
    <3>1. t = <<>> => Len(s) = 1
      BY <1>1, <1>3, EmptySeq
    <3> QED BY <1>4, <1>5, <3>1
  <2>3. t # <<>> => r.first = t[1] /\ r.last = t[Len(t)]
    <3> SUFFICES ASSUME t # <<>> PROVE r.first = t[1] /\ r.last = t[Len(t)]
      OBVIOUS
    <3>1. Len(t) \in Nat \ {0}
      BY <1>3, EmptySeq
    <3>2. Len(s) # 1 /\ 1 \in 1..Len(t) /\ Len(t) \in 1..Len(t) /\ Len(t) + 1 = Len(s)
      BY <1>1, <1>3, <3>1
    <3>3. t[1] = s[2] /\ t[Len(t)] = s[Len(s)]
      BY <1>3, <3>2
    <3> QED BY <1>1, <1>4, <1>5, <3>2, <3>3
  <2>4. ASSUME NEW k \in 1..Len(t)
        PROVE  /\ r.pNext[t[k]] = IF k = Len(t) THEN Null ELSE t[k + 1]
               /\ r.pPrev[t[k]] = IF k = 1 THEN Null ELSE t[k - 1]
    <3>1. /\ t[k] = s[k + 1] /\ k + 1 \in 1..Len(s) /\ k + 1 # 1 /\ t[k] \in Node
          /\ k \in Nat /\ Len(t) \in Nat
      BY <1>1, <1>3
    <3>2. t[k] # s[1]
      BY <1>1, <1>2, <3>1
    <3>3. r.pNext[t[k]] = IF k + 1 = Len(s) THEN Null ELSE s[(k + 1) + 1]
      BY <1>2, <1>7, <3>1, <3>2, SMTT(20)
    <3>4. k # Len(t) => k + 1 \in 1..Len(t) /\ k + 1 # Len(s)
      BY <1>1, <1>3, <3>1
    <3>5. r.pNext[t[k]] = IF k = Len(t) THEN Null ELSE t[k + 1]
      BY <1>1, <1>3, <3>1, <3>3, <3>4, SMTT(20)
    <3>6. CASE k = 1
      <4>1. t[k] = rest
        BY <1>1, <1>3, <1>5, <3>1, <3>6
      <4> QED BY <1>7, <3>1, <3>5, <3>6, <4>1
    <3>7. CASE k # 1
      <4>1. 2 \in 1..Len(s) /\ k + 1 # 2 /\ k - 1 \in 1..Len(t) /\ (k + 1) - 1 = (k - 1) + 1
        BY <1>1, <1>3, <3>1, <3>7
      <4>2. t[k] # rest
        BY <1>1, <1>2, <1>5, <3>1, <4>1
      <4>3. r.pPrev[t[k]] = s[(k + 1) - 1]
        BY <1>2, <1>7, <3>1, <3>2, <4>2
      <4>4. t[k - 1] = s[(k - 1) + 1]
        BY <1>3, <4>1
      <4> QED BY <3>5, <3>7, <4>1, <4>3, <4>4
    <3> QED BY <3>6, <3>7
  <2> QED BY <1>1, <1>3, <1>4, <2>1, <2>2, <2>3, <2>4 DEF Represents
<1>9. r.pNext[s[1]] = Null /\ r.pPrev[s[1]] = Null
  BY <1>1, <1>7
<1>10. ASSUME NEW n \in Node, \A k \in 1..Len(s) : s[k] # n
       PROVE  r.pNext[n] = l.pNext[n] /\ r.pPrev[n] = l.pPrev[n]
  <2>1. n # s[1] /\ (n = rest => l.pPrev[n] = Null)
    <3>1. n = rest => Len(s) = 1 \/ 2 \in 1..Len(s)
      BY <1>1
    <3> QED BY <1>1, <1>5, <1>10, <3>1, ListAssumption
  <2> QED BY <1>7, <2>1
<1> QED BY <1>4, <1>8, <1>9, <1>10 DEF r, t

LEMMA PopRepresents ==
    ASSUME NEW l \in List, NEW s, Represents(l, s), Len(s) >= 2
    PROVE  LET t == SubSeq(s, 1, Len(s) - 1)
           IN  /\ Represents(PopLast(l), t) /\ PopLast(l) \in List
               /\ PopLast(l).size = l.size - 1
               /\ PopLast(l).pNext[s[Len(s)]] = Null /\ PopLast(l).pPrev[s[Len(s)]] = Null
               /\ \A n \in Node : (\A k \in 1..Len(s) : s[k] # n) =>
                     /\ PopLast(l).pNext[n] = l.pNext[n]
                     /\ PopLast(l).pPrev[n] = l.pPrev[n]
<1> DEFINE r == PopLast(l)
           t == SubSeq(s, 1, Len(s) - 1)
           old == s[Len(s)]
           rest == l.pPrev[old]
           m == Len(s) - 1
<1>1. /\ s \in Seq(Node) /\ Len(s) = l.size /\ Len(s) \in Nat /\ Len(s) <= CacheSize
      /\ \A k \in 1..Len(s) : s[k] \in Node /\ s[k] # Null
      /\ s # <<>> /\ l.first = s[1] /\ l.last = s[Len(s)] /\ l.size > 0
  BY RepresentedFacts, ListAssumption
<1>2. /\ \A j, k \in 1..Len(s) : s[j] = s[k] => j = k
      /\ \A k \in 1..Len(s) : l.pNext[s[k]] = IF k = Len(s) THEN Null ELSE s[k + 1]
      /\ \A k \in 1..Len(s) : l.pPrev[s[k]] = IF k = 1 THEN Null ELSE s[k - 1]
  BY DEF Represents
<1>3. /\ m \in Nat /\ m >= 1 /\ 1..m \subseteq 1..Len(s) /\ Len(s) \in 1..Len(s)
      /\ Len(s) \notin 1..m /\ m \in 1..Len(s) /\ Len(s) # 1
  BY <1>1
<1>4. t \in Seq(Node) /\ Len(t) = m /\ \A k \in 1..m : t[k] = s[k]
  <2>1. \A k \in 1..m : s[k] \in Node
    BY <1>1, <1>3
  <2> QED BY <1>3, <2>1, SubSeqProperties
<1>5. old \in Node /\ old = l.last
  BY <1>1, <1>3
<1>6. /\ r \in List /\ r.last = l.pPrev[l.last] /\ r.first = l.first /\ r.size = l.size - 1
      /\ r.pPrev = [l.pPrev EXCEPT ![l.last] = Null]
      /\ r.pNext = [n \in Node |-> IF n = l.last \/ n = l.pPrev[l.last] THEN Null
                                   ELSE l.pNext[n]]
  BY <1>1, <1>5, PopLastFields
<1>7. rest = s[m]
  BY <1>2, <1>3
<1>8. l.pPrev \in [Node -> Pointer]
  BY DEF List
<1> HIDE DEF r, t, rest, old
<1>9. \A n \in Node : /\ r.pPrev[n] = IF n = old THEN Null ELSE l.pPrev[n]
                      /\ r.pNext[n] = IF n = old \/ n = rest THEN Null ELSE l.pNext[n]
  BY <1>5, <1>6, <1>8 DEF rest
<1>10. \A k \in 1..m : t[k] \in Node /\ t[k] # old
  BY <1>1, <1>2, <1>3, <1>4 DEF old
<1>11. Represents(r, t)
  <2>1. \A j, k \in 1..Len(t) : t[j] = t[k] => j = k
    BY <1>2, <1>3, <1>4
  <2>2. t # <<>> /\ r.first = t[1] /\ r.last = t[Len(t)]
    <3>1. 1 \in 1..m /\ m \in 1..m
      BY <1>3
    <3>2. t # <<>>
      BY <1>3, <1>4, EmptySeq
    <3> QED BY <1>1, <1>4, <1>5, <1>6, <1>7, <3>1, <3>2 DEF rest
  <2>3. ASSUME NEW k \in 1..m
        PROVE  /\ r.pNext[t[k]] = IF k = m THEN Null ELSE t[k + 1]
               /\ r.pPrev[t[k]] = IF k = 1 THEN Null ELSE t[k - 1]
    <3>1. k \in 1..Len(s) /\ t[k] = s[k] /\ k # Len(s)
      BY <1>3, <1>4
    <3>2. r.pPrev[t[k]] = IF k = 1 THEN Null ELSE s[k - 1]
      BY <1>2, <1>9, <1>10, <3>1
    <3>3. k # 1 => k - 1 \in 1..m
      BY <1>3
    <3>4. r.pPrev[t[k]] = IF k = 1 THEN Null ELSE t[k - 1]
      BY <1>4, <3>2, <3>3
    <3>5. k # m => k + 1 \in 1..m /\ t[k] # rest
      BY <1>2, <1>3, <1>7, <3>1
    <3>6. k = m => t[k] = rest
      BY <1>7, <3>1
    <3>7. r.pNext[t[k]] = IF k = m THEN Null ELSE s[k + 1]
      BY <1>2, <1>9, <1>10, <3>1, <3>5, <3>6
    <3> QED BY <1>4, <3>4, <3>5, <3>7
  <2> QED BY <1>1, <1>3, <1>4, <1>6, <2>1, <2>2, <2>3 DEF Represents
<1>12. r.pNext[old] = Null /\ r.pPrev[old] = Null
  BY <1>5, <1>9
<1>13. ASSUME NEW n \in Node, \A k \in 1..Len(s) : s[k] # n
       PROVE  r.pNext[n] = l.pNext[n] /\ r.pPrev[n] = l.pPrev[n]
  <2>1. n # old /\ n # rest
    BY <1>3, <1>7, <1>13 DEF old
  <2> QED BY <1>9, <2>1
<1> QED BY <1>6, <1>11, <1>12, <1>13 DEF r, t, old

(* A block that is not in the list.                                        *)
Fresh(l, s, n) == /\ n \in Node /\ \A k \in 1..Len(s) : s[k] # n
                  /\ l.pNext[n] = Null /\ l.pPrev[n] = Null

LEMMA AloneRepresents ==
    ASSUME NEW l \in List, Represents(l, <<>>), NEW n, Fresh(l, <<>>, n)
    PROVE  Represents(Alone(l, n), <<n>>) /\ Alone(l, n) \in List
<1>1. n \in Node /\ l.size = 0 /\ l.size < CacheSize /\ l.pNext[n] = Null /\ l.pPrev[n] = Null
  BY ListAssumption, EmptySeq DEF Represents, Fresh
<1>2. /\ Alone(l, n) \in List
      /\ Alone(l, n).first = n /\ Alone(l, n).last = n /\ Alone(l, n).size = l.size + 1
      /\ Alone(l, n).pNext = l.pNext /\ Alone(l, n).pPrev = l.pPrev
  BY <1>1, AloneFields
<1>3. <<n>> \in Seq(Node) /\ Len(<<n>>) = 1 /\ <<n>>[1] = n /\ <<n>> # <<>>
  BY <1>1
<1>4. 1..1 = {1} /\ 0 + 1 = 1
  OBVIOUS
<1> QED BY <1>1, <1>2, <1>3, <1>4 DEF Represents

LEMMA LinkLastRepresents ==
    ASSUME NEW l \in List, NEW s, Represents(l, s), l.size < CacheSize,
           NEW n, Fresh(l, s, n)
    PROVE  Represents(LinkLast(l, n), Append(s, n)) /\ LinkLast(l, n) \in List
<1> DEFINE r == LinkLast(l, n)
           t == Append(s, n)
           m == Len(s) + 1
<1>1. /\ s \in Seq(Node) /\ Len(s) = l.size /\ Len(s) \in Nat /\ n \in Node
      /\ \A k \in 1..Len(s) : s[k] \in Node /\ s[k] # Null /\ s[k] # n
      /\ s = <<>> <=> l.first = Null
      /\ l.pNext[n] = Null /\ l.pPrev[n] = Null
  BY RepresentedFacts, ListAssumption DEF Fresh
<1>2. CASE s = <<>>
  <2>1. r = Alone(l, n) /\ t = <<n>>
    BY <1>1, <1>2 DEF LinkLast
  <2> QED BY <1>2, <2>1, AloneRepresents
<1>3. CASE s # <<>>
  <2>1. /\ l.first = s[1] /\ l.last = s[Len(s)] /\ l.last \in Node
        /\ Len(s) \in 1..Len(s) /\ 1 \in 1..Len(s) /\ l.first # Null
    BY <1>1, <1>3, RepresentedFacts
  <2>2. /\ r \in List /\ r.first = l.first /\ r.last = n /\ r.size = l.size + 1
        /\ r.pNext = [l.pNext EXCEPT ![l.last] = n]
        /\ r.pPrev = [l.pPrev EXCEPT ![n] = l.last]
    BY <1>1, <2>1, LinkLastFields
  <2>3. /\ t \in Seq(Node) /\ Len(t) = m /\ t # <<>> /\ t[m] = n
        /\ \A k \in 1..Len(s) : t[k] = s[k]
    BY <1>1, AppendProperties
  <2>4. /\ \A j, k \in 1..Len(s) : s[j] = s[k] => j = k
        /\ \A k \in 1..Len(s) : l.pNext[s[k]] = IF k = Len(s) THEN Null ELSE s[k + 1]
        /\ \A k \in 1..Len(s) : l.pPrev[s[k]] = IF k = 1 THEN Null ELSE s[k - 1]
    BY DEF Represents
  <2>5. l.pNext \in [Node -> Pointer] /\ l.pPrev \in [Node -> Pointer]
    BY DEF List
  <2> HIDE DEF r, t
  <2>6. \A b \in Node : /\ r.pNext[b] = IF b = l.last THEN n ELSE l.pNext[b]
                        /\ r.pPrev[b] = IF b = n THEN l.last ELSE l.pPrev[b]
    BY <2>2, <2>5
  <2>7. \A j, k \in 1..m : t[j] = t[k] => j = k
    <3>1. \A k \in 1..m : k \in 1..Len(s) \/ k = m
      BY <1>1
    <3> QED BY <1>1, <2>3, <2>4, <3>1
  <2>8. r.first = t[1] /\ r.last = t[m]
    BY <2>1, <2>2, <2>3
  <2>9. ASSUME NEW k \in 1..m
        PROVE  /\ r.pNext[t[k]] = IF k = m THEN Null ELSE t[k + 1]
               /\ r.pPrev[t[k]] = IF k = 1 THEN Null ELSE t[k - 1]
    <3>1. CASE k = m
      <4>1. t[k] = n /\ n # l.last /\ k # 1 /\ k - 1 = Len(s)
        BY <1>1, <2>1, <2>3, <3>1
      <4>2. t[k - 1] = l.last
        BY <2>1, <2>3, <4>1
      <4> QED BY <1>1, <2>6, <3>1, <4>1, <4>2
    <3>2. CASE k # m
      <4>1. k \in 1..Len(s) /\ t[k] = s[k] /\ s[k] \in Node /\ s[k] # n /\ k + 1 \in 1..m
        BY <1>1, <2>3, <3>2
      <4>2. r.pPrev[t[k]] = IF k = 1 THEN Null ELSE s[k - 1]
        BY <2>4, <2>6, <4>1
      <4>3. k # 1 => k - 1 \in 1..Len(s)
        BY <1>1, <4>1
      <4>4. r.pPrev[t[k]] = IF k = 1 THEN Null ELSE t[k - 1]
        BY <2>3, <4>2, <4>3
      <4>5. CASE k = Len(s)
        <5>1. t[k] = l.last /\ t[k + 1] = n
          BY <2>1, <2>3, <4>1, <4>5
        <5> QED BY <2>6, <3>2, <4>1, <4>4, <5>1
      <4>6. CASE k # Len(s)
        <5>1. k + 1 \in 1..Len(s) /\ s[k] # l.last
          BY <1>1, <2>1, <2>4, <4>1, <4>6
        <5> QED BY <2>3, <2>4, <2>6, <3>2, <4>1, <4>4, <4>6, <5>1
      <4> QED BY <4>5, <4>6
    <3> QED BY <3>1, <3>2
  <2>10. Represents(r, t)
    BY <1>1, <2>2, <2>3, <2>7, <2>8, <2>9 DEF Represents
  <2> QED BY <2>2, <2>10 DEF r, t
<1> QED BY <1>2, <1>3

LEMMA LinkFirstRepresents ==
    ASSUME NEW l \in List, NEW s, Represents(l, s), l.size < CacheSize,
           NEW n, Fresh(l, s, n)
    PROVE  Represents(LinkFirst(l, n), <<n>> \o s) /\ LinkFirst(l, n) \in List
<1> DEFINE r == LinkFirst(l, n)
           t == <<n>> \o s
           m == Len(s) + 1
<1>1. /\ s \in Seq(Node) /\ Len(s) = l.size /\ Len(s) \in Nat /\ n \in Node
      /\ \A k \in 1..Len(s) : s[k] \in Node /\ s[k] # Null /\ s[k] # n
      /\ s = <<>> <=> l.first = Null
      /\ l.pNext[n] = Null /\ l.pPrev[n] = Null
  BY RepresentedFacts, ListAssumption DEF Fresh
<1>2. CASE s = <<>>
  <2>1. r = Alone(l, n) /\ t = <<n>>
    BY <1>1, <1>2 DEF LinkFirst
  <2> QED BY <1>2, <2>1, AloneRepresents
<1>3. CASE s # <<>>
  <2>1. /\ l.first = s[1] /\ l.last = s[Len(s)] /\ l.first \in Node
        /\ Len(s) \in 1..Len(s) /\ 1 \in 1..Len(s) /\ l.first # n
    BY <1>1, <1>3, RepresentedFacts
  <2>2. /\ r \in List /\ r.first = n /\ r.last = l.last /\ r.size = l.size + 1
        /\ r.pNext = [l.pNext EXCEPT ![n] = l.first]
        /\ r.pPrev = [l.pPrev EXCEPT ![n] = Null, ![l.first] = n]
    BY <1>1, <2>1, LinkFirstFields
  <2>3. /\ t \in Seq(Node) /\ Len(t) = m /\ t # <<>> /\ t[1] = n
        /\ \A k \in 2..m : t[k] = s[k - 1] /\ k - 1 \in 1..Len(s)
    <3>1. <<n>> \in Seq(Node) /\ Len(<<n>>) = 1 /\ <<n>>[1] = n
      BY <1>1
    <3>2. t \in Seq(Node) /\ Len(t) = 1 + Len(s)
          /\ \A k \in 1..(1 + Len(s)) : t[k] = IF k <= 1 THEN <<n>>[k] ELSE s[k - 1]
      BY <1>1, <3>1, ConcatProperties
    <3>3. t # <<>>
      BY <1>1, <3>2, EmptySeq
    <3> QED BY <1>1, <3>1, <3>2, <3>3
  <2>4. /\ \A j, k \in 1..Len(s) : s[j] = s[k] => j = k
        /\ \A k \in 1..Len(s) : l.pNext[s[k]] = IF k = Len(s) THEN Null ELSE s[k + 1]
        /\ \A k \in 1..Len(s) : l.pPrev[s[k]] = IF k = 1 THEN Null ELSE s[k - 1]
    BY DEF Represents
  <2>5. l.pNext \in [Node -> Pointer] /\ l.pPrev \in [Node -> Pointer]
    BY DEF List
  <2> HIDE DEF r, t
  <2>6. \A b \in Node : /\ r.pNext[b] = IF b = n THEN l.first ELSE l.pNext[b]
                        /\ r.pPrev[b] = IF b = l.first THEN n
                                        ELSE IF b = n THEN Null ELSE l.pPrev[b]
    BY <2>2, <2>5
  <2>7. \A j, k \in 1..m : t[j] = t[k] => j = k
    <3>1. \A k \in 1..m : k \in 2..m \/ k = 1
      BY <1>1
    <3>2. \A k \in 2..m : t[k] # n
      BY <1>1, <2>3
    <3>3. \A j, k \in 2..m : t[j] = t[k] => j = k
      <4> SUFFICES ASSUME NEW j \in 2..m, NEW k \in 2..m, t[j] = t[k] PROVE j = k
        OBVIOUS
      <4>1. j - 1 = k - 1
        BY <2>3, <2>4
      <4> QED BY <1>1, <4>1
    <3> QED BY <2>3, <3>1, <3>2, <3>3
  <2>8. r.first = t[1] /\ r.last = t[m]
    BY <1>1, <2>1, <2>2, <2>3
  <2>9. ASSUME NEW k \in 1..m
        PROVE  /\ r.pNext[t[k]] = IF k = m THEN Null ELSE t[k + 1]
               /\ r.pPrev[t[k]] = IF k = 1 THEN Null ELSE t[k - 1]
    <3>1. CASE k = 1
      <4>1. k # m /\ k + 1 \in 2..m /\ (k + 1) - 1 = 1
        BY <1>1, <2>1, <3>1
      <4>2. t[k] = n /\ t[k + 1] = l.first
        BY <2>1, <2>3, <3>1, <4>1
      <4> QED BY <1>1, <2>1, <2>6, <3>1, <4>1, <4>2
    <3>2. CASE k # 1
      <4> DEFINE i == k - 1
      <4>1. i \in 1..Len(s) /\ k = i + 1 /\ t[k] = s[i] /\ s[i] \in Node /\ s[i] # n
        BY <1>1, <2>3, <3>2
      <4> HIDE DEF i
      <4>2. r.pNext[t[k]] = IF i = Len(s) THEN Null ELSE s[i + 1]
        BY <2>4, <2>6, <4>1
      <4>3. i # Len(s) => k + 1 \in 2..m /\ (k + 1) - 1 = i + 1
        BY <1>1, <4>1
      <4>4. r.pNext[t[k]] = IF k = m THEN Null ELSE t[k + 1]
        BY <1>1, <2>3, <4>1, <4>2, <4>3
      <4>5. CASE i = 1
        BY <2>1, <2>3, <2>6, <3>2, <4>1, <4>4, <4>5
      <4>6. CASE i # 1
        <5>1. k - 1 \in 2..m /\ (k - 1) - 1 = i - 1
          BY <1>1, <4>1, <4>6
        <5>2. s[i] # l.first
          BY <2>1, <2>4, <4>1, <4>6
        <5>3. r.pPrev[s[i]] = l.pPrev[s[i]] /\ l.pPrev[s[i]] = s[i - 1]
          BY <2>4, <2>6, <4>1, <4>6, <5>2
        <5>4. t[k - 1] = s[i - 1]
          BY <2>3, <5>1
        <5> QED BY <3>2, <4>1, <4>4, <5>3, <5>4
      <4> QED BY <4>5, <4>6
    <3> QED BY <3>1, <3>2
  <2>10. Represents(r, t)
    <3>1. t \in Seq(Node) /\ Len(t) = r.size /\ t # <<>> /\ Len(t) = m
      BY <1>1, <2>2, <2>3
    <3> HIDE DEF m
    <3> QED BY <2>7, <2>8, <2>9, <3>1 DEF Represents
  <2> QED BY <2>2, <2>10 DEF r, t
<1> QED BY <1>2, <1>3

(* Clearing the links of a block outside the list makes it fresh.          *)
LEMMA UnlinkedRepresents ==
    ASSUME NEW l \in List, NEW s, Represents(l, s),
           NEW n \in Node, \A k \in 1..Len(s) : s[k] # n
    PROVE  /\ Represents(Unlinked(l, n), s) /\ Unlinked(l, n) \in List
           /\ Fresh(Unlinked(l, n), s, n)
<1> DEFINE r == Unlinked(l, n)
<1>1. /\ r \in List /\ r.first = l.first /\ r.last = l.last /\ r.size = l.size
      /\ r.pNext = [l.pNext EXCEPT ![n] = Null] /\ r.pPrev = [l.pPrev EXCEPT ![n] = Null]
  BY UnlinkedFields
<1>2. l.pNext \in [Node -> Pointer] /\ l.pPrev \in [Node -> Pointer]
  BY DEF List
<1>3. \A k \in 1..Len(s) : s[k] \in Node
  BY RepresentedFacts
<1> HIDE DEF r
<1>4. /\ r.pNext[n] = Null /\ r.pPrev[n] = Null
      /\ \A k \in 1..Len(s) : r.pNext[s[k]] = l.pNext[s[k]] /\ r.pPrev[s[k]] = l.pPrev[s[k]]
  BY <1>1, <1>2, <1>3
<1>5. Represents(r, s)
  BY <1>1, <1>4 DEF Represents
<1>6. Fresh(r, s, n)
  BY <1>4 DEF Fresh
<1> QED BY <1>1, <1>5, <1>6 DEF r

(* n2a_check_size leaves the list as it is.                                *)
LEMMA CheckSizeRepresents ==
    ASSUME NEW l \in List, NEW s, Represents(l, s)
    PROVE  Represents(CheckSize(l), s) /\ CheckSize(l) \in List
<1> DEFINE r == CheckSize(l)
<1>1. /\ r \in List /\ r.first = l.first /\ r.last = l.last /\ r.size = l.size
      /\ r.pNext = l.pNext /\ r.pPrev = l.pPrev
  BY CheckSizeFields
<1> HIDE DEF r
<1>2. Represents(r, s)
  BY <1>1 DEF Represents
<1> QED BY <1>1, <1>2 DEF r

-----------------------------------------------------------------------------
(* n2a_push and n2a_prepend whole, and what a full list loses to them.     *)

Members(s) == {s[k] : k \in 1..Len(s)}

LEMMA MembersOf ==
    ASSUME NEW s \in Seq(Node), \A j, k \in 1..Len(s) : s[j] = s[k] => j = k
    PROVE  /\ Members(s) \subseteq Node
           /\ \A n \in Node : Members(Append(s, n)) = Members(s) \cup {n}
           /\ \A n \in Node : Members(<<n>> \o s) = Members(s) \cup {n}
           /\ s # <<>> => Members(Tail(s)) = Members(s) \ {s[1]}
           /\ s # <<>> => Members(SubSeq(s, 1, Len(s) - 1)) = Members(s) \ {s[Len(s)]}
<1>1. Len(s) \in Nat /\ \A k \in 1..Len(s) : s[k] \in Node
  BY LenProperties, ElementOfSeq
<1>2. Members(s) \subseteq Node
  BY <1>1 DEF Members
<1>3. ASSUME NEW n \in Node PROVE Members(Append(s, n)) = Members(s) \cup {n}
  <2> DEFINE t == Append(s, n)
  <2>1. Len(t) = Len(s) + 1 /\ t[Len(s) + 1] = n /\ \A k \in 1..Len(s) : t[k] = s[k]
    BY AppendProperties
  <2> HIDE DEF t
  <2>2. \A k \in 1..(Len(s) + 1) : k \in 1..Len(s) \/ k = Len(s) + 1
    BY <1>1
  <2>3. 1..Len(s) \subseteq 1..(Len(s) + 1) /\ Len(s) + 1 \in 1..(Len(s) + 1)
    BY <1>1
  <2>4. Members(t) = Members(s) \cup {n}
    BY <2>1, <2>2, <2>3 DEF Members
  <2> QED BY <2>4 DEF t
<1>4. ASSUME NEW n \in Node PROVE Members(<<n>> \o s) = Members(s) \cup {n}
  <2> DEFINE t == <<n>> \o s
  <2>1. <<n>> \in Seq(Node) /\ Len(<<n>>) = 1 /\ <<n>>[1] = n
    OBVIOUS
  <2>2. /\ Len(t) = 1 + Len(s)
        /\ \A k \in 1..(1 + Len(s)) : t[k] = IF k <= 1 THEN <<n>>[k] ELSE s[k - 1]
    BY <2>1, ConcatProperties
  <2> HIDE DEF t
  <2>3. t[1] = n /\ 1 \in 1..Len(t)
    BY <1>1, <2>1, <2>2
  <2>4. \A k \in 1..Len(s) : k + 1 \in 1..Len(t) /\ t[k + 1] = s[k]
    BY <1>1, <2>2
  <2>5. \A k \in 1..Len(t) : k = 1 \/ (k - 1 \in 1..Len(s) /\ t[k] = s[k - 1])
    BY <1>1, <2>2
  <2>6. n \in Members(t) /\ \A k \in 1..Len(s) : s[k] \in Members(t)
    <3>1. \A k \in 1..Len(t) : t[k] \in Members(t)
      BY DEF Members
    <3> QED BY <2>3, <2>4, <3>1
  <2>7. \A k \in 1..Len(t) : t[k] \in Members(s) \cup {n}
    <3>1. \A k \in 1..Len(s) : s[k] \in Members(s)
      BY DEF Members
    <3> QED BY <2>3, <2>5, <3>1
  <2>8. Members(t) = Members(s) \cup {n}
    BY <2>6, <2>7, SMTT(20) DEF Members
  <2> QED BY <2>8 DEF t
<1>5. ASSUME s # <<>> PROVE Members(Tail(s)) = Members(s) \ {s[1]}
  <2> DEFINE t == Tail(s)
  <2>1. Len(t) = Len(s) - 1 /\ \A k \in 1..Len(t) : t[k] = s[k + 1]
    BY <1>5, HeadTailProperties
  <2>2. Len(s) # 0
    BY <1>5, EmptySeq
  <2> HIDE DEF t
  <2>3. \A k \in 1..Len(t) : k + 1 \in 1..Len(s) /\ t[k] = s[k + 1] /\ k + 1 # 1
    BY <1>1, <2>1
  <2>4. \A k \in 1..Len(s) : k = 1 \/ (k - 1 \in 1..Len(t) /\ t[k - 1] = s[k])
    BY <1>1, <2>1
  <2>5. 1 \in 1..Len(s)
    BY <1>1, <2>2
  <2>6. \A k \in 1..Len(s) : s[k] \in Members(t) \cup {s[1]}
    <3>1. \A k \in 1..Len(t) : t[k] \in Members(t)
      BY DEF Members
    <3> QED BY <2>4, <3>1
  <2>7. \A k \in 1..Len(t) : t[k] \in Members(s) /\ t[k] # s[1]
    <3>1. \A k \in 1..Len(s) : s[k] \in Members(s)
      BY DEF Members
    <3> QED BY <2>3, <2>5, <3>1
  <2>8. Members(t) = Members(s) \ {s[1]}
    BY <2>6, <2>7, SMTT(20) DEF Members
  <2> QED BY <2>8 DEF t
<1>6. ASSUME s # <<>>
      PROVE  Members(SubSeq(s, 1, Len(s) - 1)) = Members(s) \ {s[Len(s)]}
  <2> DEFINE m == Len(s) - 1
             t == SubSeq(s, 1, m)
  <2>1. m \in Nat /\ Len(s) \in 1..Len(s) /\ 1..m \subseteq 1..Len(s) /\ Len(s) \notin 1..m
    BY <1>1, <1>6, EmptySeq
  <2>2. \A k \in 1..Len(s) : k = Len(s) \/ k \in 1..m
    BY <1>1
  <2>3. \A k \in 1..m : s[k] \in Node
    BY <1>1, <2>1
  <2> HIDE DEF m
  <2>4. Len(t) = m /\ \A k \in 1..m : t[k] = s[k]
    BY <2>1, <2>3, SubSeqProperties
  <2> HIDE DEF t
  <2>5. Members(t) = Members(s) \ {s[Len(s)]}
    BY <2>1, <2>2, <2>4 DEF Members
  <2> QED BY <2>5 DEF t, m
<1> QED BY <1>2, <1>3, <1>4, <1>5, <1>6

(* Removing an end of the list keeps the events that stay in it.           *)
LEMMA FewerMembers ==
    ASSUME NEW s \in Seq(Node), s # <<>>, NEW n,
           \A k \in 1..Len(s) : s[k] # n
    PROVE  /\ \A k \in 1..Len(Tail(s)) : Tail(s)[k] # n
           /\ \A k \in 1..Len(SubSeq(s, 1, Len(s) - 1)) :
                 SubSeq(s, 1, Len(s) - 1)[k] # n
<1>1. Len(s) \in Nat /\ Len(s) - 1 \in Nat /\ \A k \in 1..Len(s) : s[k] \in Node
  BY LenProperties, ElementOfSeq, EmptySeq
<1>2. ASSUME NEW k \in 1..Len(Tail(s)) PROVE Tail(s)[k] # n
  <2>1. Len(Tail(s)) = Len(s) - 1 /\ Tail(s)[k] = s[k + 1]
    BY HeadTailProperties
  <2> HIDE <1>2
  <2>2. k + 1 \in 1..Len(s)
    BY <1>1, <1>2, <2>1
  <2> QED BY <2>1, <2>2
<1>3. \A k \in 1..(Len(s) - 1) : s[k] \in Node /\ k \in 1..Len(s)
  BY <1>1
<1>4. /\ Len(SubSeq(s, 1, Len(s) - 1)) = Len(s) - 1
      /\ \A k \in 1..(Len(s) - 1) : SubSeq(s, 1, Len(s) - 1)[k] = s[k]
  <2> DEFINE m == Len(s) - 1
  <2>1. m \in Nat /\ \A k \in 1..m : s[k] \in Node
    BY <1>1, <1>3
  <2> HIDE DEF m
  <2>2. Len(SubSeq(s, 1, m)) = m /\ \A k \in 1..m : SubSeq(s, 1, m)[k] = s[k]
    BY <2>1, SubSeqProperties
  <2> QED BY <2>2 DEF m
<1> QED BY <1>2, <1>3, <1>4

LEMMA PushRepresents ==
    ASSUME NEW l \in List, NEW s, Represents(l, s), NEW n, Fresh(l, s, n)
    PROVE  /\ Represents(PushNode(l, n), Q!Push(s, n)) /\ PushNode(l, n) \in List
           /\ Members(Q!Push(s, n)) = (Members(s) \ LostToPush(l)) \cup {n}
<1> DEFINE c == CheckSize(l)
<1>1. /\ c \in List /\ c.full = (l.size >= CacheSize) /\ c.size = l.size
      /\ c.pNext = l.pNext /\ c.pPrev = l.pPrev
  BY CheckSizeFields
<1>2. Represents(c, s)
  BY CheckSizeRepresents
<1>3. /\ s \in Seq(Node) /\ Len(s) = l.size /\ Len(s) \in Nat /\ CacheSize \in Nat \ {0}
      /\ Len(s) <= CacheSize /\ \A j, k \in 1..Len(s) : s[j] = s[k] => j = k
      /\ s # <<>> => l.first = s[1]
  BY RepresentedFacts, ListAssumption, SMTT(20) DEF Represents
<1>4. n \in Node /\ Fresh(c, s, n)
  BY <1>1 DEF Fresh
<1>5. CASE l.size >= CacheSize
  <2>1. s # <<>> /\ Q!Push(s, n) = Append(Tail(s), n) /\ LostToPush(l) = {s[1]}
    <3>1. c.full
      BY <1>1, <1>5, Zenon
    <3>2. s # <<>> /\ Len(s) >= CacheSize
      BY <1>3, <1>5, EmptySeq
    <3>3. Q!Push(s, n) = Append(Tail(s), n)
      BY <3>2 DEF Q!Push, Q!Full, Q!Shift
    <3> QED BY <1>3, <3>1, <3>2, <3>3 DEF LostToPush
  <2>2. PushNode(l, n) = LinkLast(ShiftFirst(c), n)
    BY <1>1, <1>5 DEF PushNode
  <2> HIDE DEF c
  <2> DEFINE d == ShiftFirst(c)
  <2>3. /\ Represents(d, Tail(s)) /\ d \in List /\ d.size = c.size - 1
        /\ d.pNext[n] = c.pNext[n] /\ d.pPrev[n] = c.pPrev[n]
    BY <1>1, <1>2, <1>4, <2>1, ShiftRepresents DEF Fresh
  <2> HIDE DEF d
  <2>4. Fresh(d, Tail(s), n)
    BY <1>3, <1>4, <2>1, <2>3, FewerMembers DEF Fresh
  <2>5. d.size < CacheSize
    BY <1>1, <1>3, <2>3
  <2>6. Represents(LinkLast(d, n), Append(Tail(s), n)) /\ LinkLast(d, n) \in List
    BY <2>3, <2>4, <2>5, LinkLastRepresents
  <2>7. Members(Tail(s)) = Members(s) \ {s[1]}
    BY <1>3, <2>1, MembersOf
  <2>8. Members(Append(Tail(s), n)) = Members(Tail(s)) \cup {n}
    <3> DEFINE u == Tail(s)
    <3>1. u \in Seq(Node) /\ (\A j, k \in 1..Len(u) : u[j] = u[k] => j = k) /\ n \in Node
      BY <1>4, <2>3 DEF Represents
    <3> HIDE DEF u
    <3>2. Members(Append(u, n)) = Members(u) \cup {n}
      BY <3>1, MembersOf
    <3> QED BY <3>2 DEF u
  <2> QED BY <2>1, <2>2, <2>6, <2>7, <2>8 DEF d
<1>6. CASE ~(l.size >= CacheSize)
  <2>1. Q!Push(s, n) = Append(s, n) /\ LostToPush(l) = {}
    BY <1>1, <1>3, <1>6 DEF Q!Push, Q!Full, LostToPush
  <2>2. PushNode(l, n) = LinkLast(c, n) /\ c.size < CacheSize
    <3>1. ~c.full
      BY <1>1, <1>6, Zenon
    <3>2. c.size < CacheSize
      BY <1>1, <1>3, <1>6
    <3> QED BY <3>1, <3>2 DEF PushNode
  <2> HIDE DEF c
  <2>3. Represents(LinkLast(c, n), Append(s, n)) /\ LinkLast(c, n) \in List
    BY <1>1, <1>2, <1>4, <2>2, LinkLastRepresents
  <2>4. Members(Append(s, n)) = Members(s) \cup {n}
    BY <1>3, <1>4, MembersOf
  <2> QED BY <2>1, <2>2, <2>3, <2>4
<1> QED BY <1>5, <1>6

(* A full list that loses its last event keeps one event at least.         *)
LEMMA PrependRepresents ==
    ASSUME NEW l \in List, NEW s, Represents(l, s), NEW n, Fresh(l, s, n),
           l.size >= 2 \/ l.size < CacheSize
    PROVE  /\ Represents(PrependNode(l, n), Q!Prepend(s, n))
           /\ PrependNode(l, n) \in List
           /\ Members(Q!Prepend(s, n)) = (Members(s) \ LostToPrepend(l)) \cup {n}
<1> DEFINE c == CheckSize(l)
<1>1. /\ c \in List /\ c.full = (l.size >= CacheSize) /\ c.size = l.size
      /\ c.pNext = l.pNext /\ c.pPrev = l.pPrev
  BY CheckSizeFields
<1>2. Represents(c, s)
  BY CheckSizeRepresents
<1>3. /\ s \in Seq(Node) /\ Len(s) = l.size /\ Len(s) \in Nat /\ CacheSize \in Nat \ {0}
      /\ Len(s) <= CacheSize /\ \A j, k \in 1..Len(s) : s[j] = s[k] => j = k
      /\ s # <<>> => l.last = s[Len(s)]
  BY RepresentedFacts, ListAssumption, SMTT(20) DEF Represents
<1>4. n \in Node /\ Fresh(c, s, n)
  BY <1>1 DEF Fresh
<1>5. CASE l.size >= CacheSize
  <2> DEFINE t == SubSeq(s, 1, Len(s) - 1)
  <2>1. s # <<>> /\ Len(s) >= 2
    BY <1>3, <1>5, EmptySeq
  <2>2. Q!Prepend(s, n) = <<n>> \o t /\ LostToPrepend(l) = {s[Len(s)]}
    BY <1>1, <1>3, <1>5, <2>1 DEF Q!Prepend, Q!Full, Q!Pop, LostToPrepend
  <2>3. PrependNode(l, n) = LinkFirst(PopLast(c), n)
    BY <1>1, <1>5 DEF PrependNode
  <2> HIDE DEF c
  <2> DEFINE d == PopLast(c)
  <2>4. /\ Represents(d, t) /\ d \in List /\ d.size = c.size - 1
        /\ d.pNext[n] = c.pNext[n] /\ d.pPrev[n] = c.pPrev[n]
    BY <1>1, <1>2, <1>4, <2>1, PopRepresents DEF Fresh
  <2>5. \A k \in 1..Len(t) : t[k] # n
    BY <1>3, <1>4, <2>1, FewerMembers DEF Fresh
  <2>6. Members(t) = Members(s) \ {s[Len(s)]}
    BY <1>3, <2>1, MembersOf
  <2> HIDE DEF d, t
  <2>7. Fresh(d, t, n)
    BY <1>4, <2>4, <2>5 DEF Fresh
  <2>8. d.size < CacheSize
    BY <1>1, <1>3, <2>4
  <2>9. Represents(LinkFirst(d, n), <<n>> \o t) /\ LinkFirst(d, n) \in List
    BY <2>4, <2>7, <2>8, LinkFirstRepresents
  <2>10. Members(<<n>> \o t) = Members(t) \cup {n}
    BY <1>4, <2>4, MembersOf DEF Represents
  <2> QED BY <2>2, <2>3, <2>6, <2>9, <2>10 DEF d
<1>6. CASE ~(l.size >= CacheSize)
  <2>1. Q!Prepend(s, n) = <<n>> \o s /\ LostToPrepend(l) = {}
    BY <1>1, <1>3, <1>6 DEF Q!Prepend, Q!Full, LostToPrepend
  <2>2. PrependNode(l, n) = LinkFirst(c, n) /\ c.size < CacheSize
    <3>1. ~c.full
      BY <1>1, <1>6, Zenon
    <3>2. c.size < CacheSize
      BY <1>1, <1>3, <1>6
    <3> QED BY <3>1, <3>2 DEF PrependNode
  <2> HIDE DEF c
  <2>3. Represents(LinkFirst(c, n), <<n>> \o s) /\ LinkFirst(c, n) \in List
    BY <1>1, <1>2, <1>4, <2>2, LinkFirstRepresents
  <2>4. Members(<<n>> \o s) = Members(s) \cup {n}
    BY <1>3, <1>4, MembersOf
  <2> QED BY <2>1, <2>2, <2>3, <2>4
<1> QED BY <1>5, <1>6

-----------------------------------------------------------------------------
(***************************************************************************)
(* The inductive invariant.  The pointers are those of the sequence they   *)
(* lead through, the blocks in use are its members and the event held, and *)
(* an event that was taken is out of the list, which has room for it: the  *)
(* list loses nothing when it is put back.                                 *)
(***************************************************************************)
Holds(l, s, blocks, h) ==
    /\ l \in List /\ Represents(l, s)
    /\ h \in Pointer
    /\ blocks = Members(s) \cup ({h} \ {Null})
    /\ h # Null => Fresh(l, s, h) /\ l.size < CacheSize

ListInv == Holds(list, Forward(list), allocated, held)

(* What holds of some sequence holds of the one the pointers lead through. *)
LEMMA HoldsIsForward ==
    ASSUME NEW l, NEW s, NEW blocks, NEW h, Holds(l, s, blocks, h)
    PROVE  Forward(l) = s /\ Backward(l) = s /\ NodesOf(l) = Members(s)
<1>1. Forward(l) = s /\ Backward(l) = s /\ Len(s) = l.size
  BY ForwardIsSequence, BackwardIsSequence DEF Holds, Represents
<1> QED BY <1>1 DEF NodesOf, Members

LEMMA EmptyHolds == Holds(EmptyList, <<>>, {}, Null)
<1>1. EmptyList \in List
  BY ListAssumption DEF EmptyList, List, Pointer
<1>2. Represents(EmptyList, <<>>)
  BY EmptySeq DEF EmptyList, Represents
<1>3. Members(<<>>) = {}
  BY EmptySeq DEF Members
<1> QED BY <1>1, <1>2, <1>3 DEF Holds, Pointer

-----------------------------------------------------------------------------
(* Each call, with the sequence it leaves.                                 *)

LEMMA PushNewHolds ==
    ASSUME NEW s, Holds(list, s, allocated, held),
           NEW n \in Node \ allocated, PushNew(n)
    PROVE  Holds(list', Q!Push(s, n), allocated', held')
<1>1. list \in List /\ Represents(list, s) /\ n \in Node /\ held = Null
      /\ allocated = Members(s) /\ \A k \in 1..Len(s) : s[k] # n
  BY DEF Holds, PushNew, Members
<1> DEFINE u == Unlinked(list, n)
<1>2. Represents(u, s) /\ u \in List /\ Fresh(u, s, n) /\ LostToPush(u) = LostToPush(list)
  <2>1. u.first = list.first /\ u.size = list.size
    BY <1>1, UnlinkedFields
  <2>2. CheckSize(u).full = CheckSize(list).full
    <3>1. u \in List
      BY <1>1, UnlinkedFields
    <3> HIDE DEF u
    <3>2. /\ CheckSize(u).full = (u.size >= CacheSize)
          /\ CheckSize(list).full = (list.size >= CacheSize)
      BY <1>1, <3>1, CheckSizeFields
    <3> QED BY <2>1, <3>2, Zenon
  <2> QED BY <1>1, <2>1, <2>2, UnlinkedRepresents DEF LostToPush
<1> HIDE DEF u
<1>3. /\ Represents(PushNode(u, n), Q!Push(s, n)) /\ PushNode(u, n) \in List
      /\ Members(Q!Push(s, n)) = (Members(s) \ LostToPush(u)) \cup {n}
  BY <1>2, PushRepresents
<1>4. /\ list' = PushNode(u, n) /\ held' = Null
      /\ allocated' = (allocated \ LostToPush(list)) \cup {n}
  BY DEF PushNew, u
<1> QED BY <1>1, <1>2, <1>3, <1>4 DEF Holds, Pointer

LEMMA PrependNewHolds ==
    ASSUME NEW s, Holds(list, s, allocated, held),
           NEW n \in Node \ allocated, PrependNew(n)
    PROVE  Holds(list', Q!Prepend(s, n), allocated', held')
<1>1. list \in List /\ Represents(list, s) /\ n \in Node /\ held = Null
      /\ allocated = Members(s) /\ \A k \in 1..Len(s) : s[k] # n
  BY DEF Holds, PrependNew, Members
<1> DEFINE u == Unlinked(list, n)
<1>2. /\ Represents(u, s) /\ u \in List /\ Fresh(u, s, n) /\ u.size = list.size
      /\ LostToPrepend(u) = LostToPrepend(list)
  <2>1. u.last = list.last /\ u.size = list.size
    BY <1>1, UnlinkedFields
  <2>2. CheckSize(u).full = CheckSize(list).full
    <3>1. u \in List
      BY <1>1, UnlinkedFields
    <3> HIDE DEF u
    <3>2. /\ CheckSize(u).full = (u.size >= CacheSize)
          /\ CheckSize(list).full = (list.size >= CacheSize)
      BY <1>1, <3>1, CheckSizeFields
    <3> QED BY <2>1, <3>2, Zenon
  <2> QED BY <1>1, <2>1, <2>2, UnlinkedRepresents DEF LostToPrepend
<1> HIDE DEF u
<1>3. u.size >= 2
  BY <1>2 DEF PrependNew
<1>4. /\ Represents(PrependNode(u, n), Q!Prepend(s, n)) /\ PrependNode(u, n) \in List
      /\ Members(Q!Prepend(s, n)) = (Members(s) \ LostToPrepend(u)) \cup {n}
  BY <1>2, <1>3, PrependRepresents
<1>5. /\ list' = PrependNode(u, n) /\ held' = Null
      /\ allocated' = (allocated \ LostToPrepend(list)) \cup {n}
  BY DEF PrependNew, u
<1> QED BY <1>1, <1>2, <1>4, <1>5 DEF Holds, Pointer

LEMMA PutBackHeldHolds ==
    ASSUME NEW s, Holds(list, s, allocated, held), PutBackHeld
    PROVE  Holds(list', Q!Prepend(s, held), allocated', held')
<1>1. /\ list \in List /\ Represents(list, s) /\ held # Null /\ Fresh(list, s, held)
      /\ list.size < CacheSize /\ allocated = Members(s) \cup {held}
  BY DEF Holds, PutBackHeld
<1>2. /\ Represents(PrependNode(list, held), Q!Prepend(s, held))
      /\ PrependNode(list, held) \in List
      /\ Members(Q!Prepend(s, held)) = (Members(s) \ LostToPrepend(list)) \cup {held}
  BY <1>1, PrependRepresents
<1>3. LostToPrepend(list) = {}
  <2>1. list.size \in Nat /\ CacheSize \in Nat
    BY <1>1, ListAssumption DEF List
  <2>2. ~(list.size >= CacheSize)
    BY <1>1, <2>1
  <2>3. CheckSize(list).full = (list.size >= CacheSize)
    BY <1>1, CheckSizeFields
  <2>4. ~CheckSize(list).full
    BY <2>2, <2>3, Zenon
  <2> QED BY <2>4 DEF LostToPrepend
<1>4. list' = PrependNode(list, held) /\ allocated' = allocated /\ held' = Null
  BY <1>3 DEF PutBackHeld
<1> QED BY <1>1, <1>2, <1>3, <1>4 DEF Holds, Pointer

LEMMA TakeFirstHolds ==
    ASSUME NEW s, Holds(list, s, allocated, held), TakeFirst, s # <<>>
    PROVE  Holds(list', Tail(s), allocated', held') /\ held' = s[1] /\ s[1] \in Node
<1>1. /\ list \in List /\ Represents(list, s) /\ held = Null /\ allocated = Members(s)
      /\ s \in Seq(Node) /\ \A j, k \in 1..Len(s) : s[j] = s[k] => j = k
  BY DEF Holds, TakeFirst, Represents
<1>2. /\ Len(s) = list.size /\ Len(s) \in 0..CacheSize /\ 1 \in 1..Len(s)
      /\ s[1] \in Node /\ list.first = s[1] /\ CacheSize \in Nat
  BY <1>1, RepresentedFacts, ListAssumption
<1> DEFINE r == ShiftFirst(list)
<1>3. /\ Represents(r, Tail(s)) /\ r \in List /\ r.size = list.size - 1
      /\ r.pNext[s[1]] = Null /\ r.pPrev[s[1]] = Null
  BY <1>1, ShiftRepresents
<1>4. list' = r /\ held' = s[1] /\ allocated' = allocated
  BY <1>2 DEF TakeFirst
<1> HIDE DEF r
<1>5. Members(Tail(s)) = Members(s) \ {s[1]}
  BY <1>1, MembersOf
<1>6. s[1] \in Members(s)
  BY <1>2 DEF Members
<1>7. r.size < CacheSize
  BY <1>2, <1>3
<1>8. Fresh(r, Tail(s), s[1])
  BY <1>2, <1>3, <1>5 DEF Fresh, Members
<1> QED BY <1>1, <1>2, <1>3, <1>4, <1>5, <1>6, <1>7, <1>8, ListAssumption DEF Holds, Pointer

LEMMA TakeLastHolds ==
    ASSUME NEW s, Holds(list, s, allocated, held), TakeLast
    PROVE  /\ Holds(list', Q!Pop(s), allocated', held')
           /\ s # <<>> /\ held' = s[Len(s)] /\ s[Len(s)] \in Node
<1> DEFINE old == s[Len(s)]
<1>1. /\ list \in List /\ Represents(list, s) /\ held = Null /\ allocated = Members(s)
      /\ s \in Seq(Node) /\ \A j, k \in 1..Len(s) : s[j] = s[k] => j = k
  BY DEF Holds, TakeLast, Represents
<1>2. /\ Len(s) = list.size /\ Len(s) \in 0..CacheSize /\ Len(s) >= 2
      /\ CacheSize \in Nat /\ s # <<>>
  BY <1>1, RepresentedFacts, ListAssumption DEF TakeLast
<1>3. Len(s) \in 1..Len(s) /\ old \in Node /\ list.last = old
  BY <1>1, <1>2, RepresentedFacts
<1> DEFINE r == PopLast(list)
           t == SubSeq(s, 1, Len(s) - 1)
<1>4. /\ Represents(r, t) /\ r \in List /\ r.size = list.size - 1
      /\ r.pNext[old] = Null /\ r.pPrev[old] = Null
  BY <1>1, <1>2, PopRepresents
<1>5. list' = r /\ held' = old /\ allocated' = allocated
  BY <1>3 DEF TakeLast
<1>6. Members(t) = Members(s) \ {old}
  BY <1>1, <1>2, MembersOf
<1>7. old \in Members(s)
  BY <1>3 DEF Members
<1>8. Q!Pop(s) = t
  BY DEF Q!Pop
<1> HIDE DEF r, t, old
<1>9. r.size < CacheSize
  BY <1>2, <1>4
<1>10. Fresh(r, t, old)
  BY <1>3, <1>4, <1>6 DEF Fresh, Members
<1>11. Holds(r, t, allocated, old)
  BY <1>1, <1>3, <1>4, <1>6, <1>7, <1>9, <1>10, ListAssumption DEF Holds, Pointer
<1> QED BY <1>2, <1>3, <1>5, <1>8, <1>11 DEF old

LEMMA FreeHeldHolds ==
    ASSUME NEW s, Holds(list, s, allocated, held), FreeHeld
    PROVE  Holds(list', s, allocated', held')
<1>1. held \notin Members(s)
  BY DEF Holds, FreeHeld, Fresh, Members
<1> QED BY <1>1 DEF Holds, FreeHeld, Pointer

LEMMA FreeFifoHolds ==
    ASSUME NEW s, Holds(list, s, allocated, held), FreeFifo
    PROVE  Holds(list', <<>>, allocated', held')
<1>1. NodesOf(list) = Members(s)
  BY HoldsIsForward
<1>2. allocated' = {} /\ held' = Null /\ list' = EmptyList
  BY <1>1 DEF Holds, FreeFifo
<1> QED BY <1>2, EmptyHolds

-----------------------------------------------------------------------------
(* The queue the list implements takes the same steps.                     *)

hand == IF held = Null THEN <<>> ELSE <<held>>

LEMMA StepHolds ==
    ASSUME NEW s, Holds(list, s, allocated, held), [Next]_vars
    PROVE  \E t : /\ Holds(list', t, allocated', held')
                  /\ \/ \E n \in Node : /\ t = Q!Push(s, n) \/ t = Q!Prepend(s, n)
                                        /\ hand' = hand
                     \/ hand = <<>> /\ s # <<>> /\ hand' = <<Head(s)>> /\ t = Tail(s)
                     \/ hand = <<>> /\ s # <<>> /\ hand' = <<s[Len(s)]>> /\ t = Q!Pop(s)
                     \/ hand # <<>> /\ t = Q!Prepend(s, hand[1]) /\ hand' = <<>>
                     \/ hand' = <<>> /\ t = s
                     \/ t = <<>> /\ hand' = hand
                     \/ t = s /\ hand' = hand
<1>1. ASSUME NEW n \in Node \ allocated, PushNew(n)
      PROVE  hand' = hand
  BY <1>1 DEF PushNew, hand
<1>2. ASSUME NEW n \in Node \ allocated, PrependNew(n)
      PROVE  hand' = hand
  BY <1>2 DEF PrependNew, hand
<1>3. ASSUME TakeFirst, s # <<>>
      PROVE  hand = <<>> /\ hand' = <<Head(s)>>
  <2>1. held = Null /\ held' = s[1] /\ s[1] # Null
    BY <1>3, TakeFirstHolds, ListAssumption DEF TakeFirst
  <2> QED BY <2>1 DEF hand
<1>4. ASSUME TakeFirst, s = <<>>
      PROVE  Holds(list', s, allocated', held') /\ hand' = hand
  <2>1. list.first = Null
    BY <1>4 DEF Holds, Represents
  <2>2. UNCHANGED <<list, allocated, held>>
    BY <1>4, <2>1 DEF TakeFirst, ShiftFirst
  <2> QED BY <2>2 DEF hand
<1>5. ASSUME TakeLast
      PROVE  hand = <<>> /\ s # <<>> /\ hand' = <<s[Len(s)]>>
  <2>1. held = Null /\ s # <<>> /\ held' = s[Len(s)] /\ s[Len(s)] # Null
    BY <1>5, TakeLastHolds, ListAssumption DEF TakeLast
  <2> QED BY <2>1 DEF hand
<1>6. ASSUME PutBackHeld
      PROVE  hand # <<>> /\ hand[1] = held /\ hand' = <<>>
  BY <1>6 DEF PutBackHeld, hand
<1>7. ASSUME FreeHeld PROVE hand' = <<>>
  BY <1>7 DEF FreeHeld, hand
<1>8. ASSUME FreeFifo PROVE hand' = hand
  BY <1>8 DEF FreeFifo, hand
<1>9. ASSUME UNCHANGED vars
      PROVE  Holds(list', s, allocated', held') /\ hand' = hand
  BY <1>9 DEF vars, hand
<1>10. CASE \E n \in Node \ allocated : PushNew(n)
  BY <1>1, <1>10, PushNewHolds
<1>11. CASE \E n \in Node \ allocated : PrependNew(n)
  BY <1>2, <1>11, PrependNewHolds
<1>12. CASE TakeFirst
  BY <1>3, <1>4, <1>12, TakeFirstHolds
<1>13. CASE TakeLast
  BY <1>5, <1>13, TakeLastHolds
<1>14. CASE PutBackHeld
  BY <1>6, <1>14, PutBackHeldHolds
<1>15. CASE FreeHeld
  BY <1>7, <1>15, FreeHeldHolds
<1>16. CASE FreeFifo
  BY <1>8, <1>16, FreeFifoHolds
<1>17. CASE UNCHANGED vars
  BY <1>9, <1>17
<1> QED
  BY <1>10, <1>11, <1>12, <1>13, <1>14, <1>15, <1>16, <1>17 DEF Next

LEMMA InitHolds == Init => ListInv
<1> SUFFICES ASSUME Init PROVE ListInv
  OBVIOUS
<1>1. list = EmptyList /\ allocated = {} /\ held = Null
  BY DEF Init
<1>2. Forward(EmptyList) = <<>>
  BY EmptyHolds, HoldsIsForward
<1> QED BY <1>1, <1>2, EmptyHolds DEF ListInv

LEMMA NextHolds == ListInv /\ [Next]_vars => ListInv'
<1> SUFFICES ASSUME ListInv, [Next]_vars PROVE ListInv'
  OBVIOUS
<1>1. PICK t : Holds(list', t, allocated', held')
  BY StepHolds DEF ListInv
<1>2. Forward(list') = t
  BY <1>1, HoldsIsForward
<1> QED BY <1>1, <1>2 DEF ListInv

(* The list is always one, and its memory is what its events occupy.       *)
THEOREM ListInvariance == Spec => []ListInv
<1> QED BY InitHolds, NextHolds, PTL DEF Spec

(* Every reachable state is of the declared types.                         *)
THEOREM ListIsTyped == Spec => []TypeOK
<1>1. ListInv => TypeOK
  <2> SUFFICES ASSUME ListInv PROVE TypeOK
    OBVIOUS
  <2> DEFINE s == Forward(list)
  <2>1. list \in List /\ held \in Pointer /\ allocated = Members(s) \cup ({held} \ {Null})
    BY DEF ListInv, Holds
  <2>2. Members(s) \subseteq Node
    BY MembersOf DEF ListInv, Holds, Represents
  <2> QED BY <2>1, <2>2 DEF TypeOK, Pointer
<1> QED BY <1>1, ListInvariance, PTL

(* n2a_push, n2a_prepend, n2a_shift and n2a_pop keep the two chains of     *)
(* pointers those of one list, and its size their length.                  *)
THEOREM ListStaysLinked == Spec => []WellLinked
<1>1. ListInv => WellLinked
  <2> SUFFICES ASSUME ListInv PROVE WellLinked
    OBVIOUS
  <2> DEFINE s == Forward(list)
  <2>1. /\ Backward(list) = s /\ list \in List /\ Represents(list, s)
    BY HoldsIsForward DEF ListInv, Holds
  <2> HIDE DEF s
  <2>2. /\ Len(s) = list.size
        /\ list.first = Null <=> s = <<>>
        /\ s = <<>> <=> Len(s) = 0
        /\ s # <<>> => /\ Len(s) \in 1..Len(s) /\ 1 \in 1..Len(s)
                       /\ list.first = s[1] /\ list.last = s[Len(s)]
    BY <2>1, RepresentedFacts
  <2>3. list.size # 0 => list.pNext[list.last] = Null /\ list.pPrev[list.first] = Null
    BY <2>1, <2>2 DEF Represents
  <2>4. list.size \in Nat
    BY <2>1 DEF List
  <2>5. Forward(list) = Backward(list)
    BY <2>1 DEF s
  <2>6. list.size = 0 <=> list.first = Null
    BY <2>2
  <2> QED BY <2>3, <2>4, <2>5, <2>6 DEF WellLinked
<1> QED BY <1>1, ListInvariance, PTL

(* No event is freed while the list or a caller has it, and none is lost.  *)
THEOREM MemoryIsKept == Spec => []NoLeakNoDangling
<1>1. ListInv => NoLeakNoDangling
  <2> SUFFICES ASSUME ListInv PROVE NoLeakNoDangling
    OBVIOUS
  <2> DEFINE s == Forward(list)
  <2>1. NodesOf(list) = Members(s) /\ Holds(list, s, allocated, held)
    BY HoldsIsForward DEF ListInv
  <2>2. held \notin Members(s)
    <3>1. \A k \in 1..Len(s) : s[k] # Null
      BY <2>1, RepresentedFacts DEF Holds
    <3> QED BY <2>1, <3>1 DEF Holds, Fresh, Members
  <2> QED BY <2>1, <2>2 DEF Holds, NoLeakNoDangling
<1> QED BY <1>1, ListInvariance, PTL

(* The linked list implements the bounded queue the agent is modelled on.  *)
THEOREM QueueImplemented == Spec => ImplementsQueue
<1>1. Init => Q!Init
  <2>1. Forward(EmptyList) = <<>>
    BY EmptyHolds, HoldsIsForward
  <2> QED BY <2>1 DEF Init, Q!Init
<1>2. ListInv /\ [Next]_vars => [Q!Next]_(Q!qvars)
  <2> SUFFICES ASSUME ListInv, [Next]_vars PROVE [Q!Next]_(Q!qvars)
    OBVIOUS
  <2> DEFINE s == Forward(list)
  <2>1. PICK t : /\ Holds(list', t, allocated', held')
                 /\ \/ \E n \in Node : /\ t = Q!Push(s, n) \/ t = Q!Prepend(s, n)
                                       /\ hand' = hand
                    \/ hand = <<>> /\ s # <<>> /\ hand' = <<Head(s)>> /\ t = Tail(s)
                    \/ hand = <<>> /\ s # <<>> /\ hand' = <<s[Len(s)]>> /\ t = Q!Pop(s)
                    \/ hand # <<>> /\ t = Q!Prepend(s, hand[1]) /\ hand' = <<>>
                    \/ hand' = <<>> /\ t = s
                    \/ t = <<>> /\ hand' = hand
                    \/ t = s /\ hand' = hand
    BY StepHolds DEF ListInv
  <2>2. Forward(list') = t
    BY <2>1, HoldsIsForward
  <2>3. Forward(list)' = t
    BY <2>2
  <2> QED BY <2>1, <2>3
          DEF hand, Q!Next, Q!Accept, Q!AcceptFirst, Q!TakeOldest, Q!TakeNewest,
              Q!PutBack, Q!Discard, Q!Reset, Q!Shift, Q!qvars
<1> QED BY <1>1, <1>2, ListInvariance, PTL DEF Spec, ImplementsQueue, Q!Spec

-----------------------------------------------------------------------------
(* The cache file.                                                         *)

(* The inductive invariant.                                                *)

(* The bytes of the first j events of q.                                   *)
Until(q, j) == Content(SubSeq(q, 1, j))

FileTypes ==
    /\ phase \in {"load", "run"}
    /\ queue \in Seq(Event) /\ saved \in Seq(Event) /\ read \in Seq(Event)
    /\ file \in Seq(Byte) /\ rk \in Seq(Byte) /\ msg \in Seq(Byte)
    /\ pos \in Nat /\ written \in Nat /\ eof \in BOOLEAN /\ oldTail \in BOOLEAN

(* The file begins with what the last save has written of its queue.       *)
Begins ==
    /\ written <= Len(file) /\ written <= Len(Content(saved))
    /\ \A i \in 1..written : file[i] = Content(saved)[i]
    /\ ~oldTail => written = Len(file)

(* The loop of n2a_load: behind the last event it read, as long as the     *)
(* file is intact; afterwards it ends at once, if all can be read.         *)
Behind(n) ==
    LET k == Len(read) IN
    /\ ~eof /\ pos = Len(Until(saved, k))
    /\ k > 0 => rk = saved[k].rk /\ msg = saved[k].msg

Loading ==
    /\ \A j \in 1..Len(read) : j <= Intact => read[j] = saved[j]
    /\ Len(read) <= Intact => Behind(Intact)
    /\ Len(read) > Intact /\ ~oldTail /\ (\A j \in DOMAIN saved : Readable(saved[j])) =>
          eof /\ Len(read) = Intact + 1 /\ Damaged(Intact, read[Len(read)])

FileInv == FileTypes /\ Begins /\ (phase = "load" => Loading)

-----------------------------------------------------------------------------
(* The bytes of a queue.                                                   *)

Before(q, before, j) == IF j = 0 THEN <<>> ELSE before \o Lines(q[j])

Written(r, q, n) == r = [j \in 0..n |-> Before(q, r[j - 1], j)]

LEMMA WrittenExists ==
    ASSUME NEW q, NEW last \in Nat
    PROVE  \E r : Written(r, q, last)
<1> DEFINE A == {n \in Nat : \E r : Written(r, q, n)}
<1>1. 0 \in A
  <2> DEFINE r == [j \in 0..0 |-> <<>>]
  <2>1. \A x : Before(q, x, 0) = <<>>
    BY DEF Before
  <2>2. Written(r, q, 0)
    BY <2>1 DEF Written
  <2> QED BY <2>2
<1>2. ASSUME NEW n \in Nat, n \in A PROVE n + 1 \in A
  <2>1. PICK f : Written(f, q, n)
    BY <1>2
  <2> DEFINE r == [j \in 0..n + 1 |-> IF j = n + 1 THEN Before(q, f[n], n + 1) ELSE f[j]]
  <2>2. \A j \in 0..n : f[j] = Before(q, f[j - 1], j)
    BY <2>1 DEF Written
  <2>3. ASSUME NEW j \in 0..n + 1 PROVE r[j] = Before(q, r[j - 1], j)
    <3>1. CASE j = n + 1
      <4>1. r[j] = Before(q, f[n], n + 1) /\ j - 1 \in 0..n + 1 /\ j - 1 # n + 1 /\ j - 1 = n
        BY <3>1
      <4>2. r[j - 1] = f[n]
        BY <4>1
      <4> QED BY <3>1, <4>1, <4>2
    <3>2. CASE j # n + 1 /\ j # 0
      <4>1. j \in 0..n /\ j - 1 \in 0..n + 1 /\ j - 1 # n + 1
        BY <3>2
      <4>2. r[j] = f[j] /\ r[j - 1] = f[j - 1]
        BY <3>2, <4>1
      <4> QED BY <2>2, <4>1, <4>2
    <3>3. CASE j = 0
      <4>1. r[0] = f[0] /\ 0 \in 0..n
        OBVIOUS
      <4>2. f[0] = Before(q, f[0 - 1], 0)
        BY <2>2, <4>1
      <4>3. \A x, y : Before(q, x, 0) = Before(q, y, 0)
        BY DEF Before
      <4> QED BY <3>3, <4>1, <4>2, <4>3
    <3> QED BY <3>1, <3>2, <3>3
  <2>4. r = [j \in 0..n + 1 |-> Before(q, r[j - 1], j)]
    BY <2>3
  <2>5. Written(r, q, n + 1)
    BY <2>4 DEF Written
  <2> HIDE DEF r
  <2>6. \E g : Written(g, q, n + 1)
    BY <2>5
  <2> QED BY <2>6
<1> HIDE DEF A
<1>3. \A n \in Nat : n >= 0 => n \in A
  BY <1>1, <1>2, InductionOnSet
<1>4. last \in A
  BY <1>3
<1> QED BY <1>4 DEF A

LEMMA ContentIsWritten ==
    ASSUME NEW q \in Seq(Event)
    PROVE  \E r : Written(r, q, Len(q)) /\ Content(q) = r[Len(q)]
<1> DEFINE n == Len(q)
           Good(r) == r = [j \in 0..n |-> IF j = 0 THEN <<>> ELSE r[j - 1] \o Lines(q[j])]
<1>1. n \in Nat
  OBVIOUS
<1>2. \A r : Good(r) <=> Written(r, q, n)
  BY DEF Written, Before
<1>3. \E r : Good(r)
  BY <1>1, <1>2, WrittenExists
<1>4. Content(q) = (CHOOSE r : Good(r))[n]
  BY DEF Content
<1> HIDE DEF Good
<1> QED BY <1>2, <1>3, <1>4

(* Only the events before a place matter for the bytes before it.          *)
LEMMA UntilIsWritten ==
    ASSUME NEW q \in Seq(Event), NEW r, Written(r, q, Len(q)), NEW j \in 0..Len(q)
    PROVE  Until(q, j) = r[j]
<1> DEFINE p == SubSeq(q, 1, j)
<1>1. p \in Seq(Event) /\ Len(p) = j /\ \A i \in 1..j : p[i] = q[i]
  OBVIOUS
<1> HIDE DEF p
<1>2. PICK f : Written(f, p, j) /\ Content(p) = f[j]
  BY <1>1, ContentIsWritten
<1> DEFINE A == {n \in Nat : n <= j => f[n] = r[n]}
<1>3. \A n \in 0..j : f[n] = Before(p, f[n - 1], n)
  BY <1>2 DEF Written
<1>4. \A n \in 0..Len(q) : r[n] = Before(q, r[n - 1], n)
  BY DEF Written
<1>5. 0 \in A
  <2>1. 0 \in 0..j /\ 0 \in 0..Len(q)
    OBVIOUS
  <2>2. f[0] = Before(p, f[0 - 1], 0) /\ r[0] = Before(q, r[0 - 1], 0)
    BY <1>3, <1>4, <2>1
  <2> QED BY <2>2 DEF Before
<1>6. ASSUME NEW n \in Nat, n \in A PROVE n + 1 \in A
  <2> SUFFICES ASSUME n + 1 <= j PROVE f[n + 1] = r[n + 1]
    OBVIOUS
  <2>1. n + 1 \in 0..j /\ n + 1 \in 0..Len(q) /\ n + 1 \in 1..j /\ (n + 1) - 1 = n /\ n + 1 # 0
    OBVIOUS
  <2>2. f[n] = r[n]
    BY <1>6
  <2>3. f[n + 1] = f[n] \o Lines(p[n + 1])
    BY <1>3, <2>1 DEF Before
  <2>4. r[n + 1] = r[n] \o Lines(q[n + 1])
    BY <1>4, <2>1 DEF Before
  <2> QED BY <1>1, <2>1, <2>2, <2>3, <2>4
<1> HIDE DEF A
<1>7. \A n \in Nat : n >= 0 => n \in A
  BY <1>5, <1>6, InductionOnSet
<1>8. j \in A
  BY <1>7
<1> QED BY <1>2, <1>8 DEF A, p, Until

(* The bytes of the queue, event by event.                                 *)
LEMMA UntilGrows ==
    ASSUME NEW q \in Seq(Event)
    PROVE  /\ Until(q, 0) = <<>> /\ Until(q, Len(q)) = Content(q)
           /\ \A j \in 1..Len(q) : Until(q, j) = Until(q, j - 1) \o Lines(q[j])
<1>1. PICK r : Written(r, q, Len(q)) /\ Content(q) = r[Len(q)]
  BY ContentIsWritten
<1>2. \A j \in 0..Len(q) : Until(q, j) = r[j] /\ r[j] = Before(q, r[j - 1], j)
  <2>1. \A j \in 0..Len(q) : r[j] = Before(q, r[j - 1], j)
    BY <1>1 DEF Written
  <2> QED BY <1>1, <2>1, UntilIsWritten
<1>3. Until(q, 0) = <<>>
  <2>1. 0 \in 0..Len(q)
    OBVIOUS
  <2> QED BY <1>2, <2>1 DEF Before
<1>4. Until(q, Len(q)) = Content(q)
  BY <1>1, <1>2
<1>5. ASSUME NEW j \in 1..Len(q) PROVE Until(q, j) = Until(q, j - 1) \o Lines(q[j])
  <2>1. j \in 0..Len(q) /\ j - 1 \in 0..Len(q) /\ j # 0
    OBVIOUS
  <2> QED BY <1>2, <2>1 DEF Before
<1> QED BY <1>3, <1>4, <1>5

(* w is s followed by t.                                                   *)
IsJoined(w, s, t) ==
    /\ Len(w) = Len(s) + Len(t) /\ Len(s) \in Nat /\ Len(t) \in Nat
    /\ \A i \in 1..Len(s) : w[i] = s[i]
    /\ \A i \in 1..Len(t) : w[Len(s) + i] = t[i]

LEMMA Joined ==
    ASSUME NEW S, NEW s \in Seq(S), NEW t \in Seq(S)
    PROVE  s \o t \in Seq(S) /\ IsJoined(s \o t, s, t)
BY DEF IsJoined

LEMMA SameSequence ==
    ASSUME NEW S, NEW s \in Seq(S), NEW t \in Seq(S), Len(s) = Len(t),
           \A j \in 1..Len(s) : s[j] = t[j]
    PROVE  s = t
OBVIOUS

LEMMA WholeSequence ==
    ASSUME NEW S, NEW s \in Seq(S)
    PROVE  SubSeq(s, 1, Len(s)) = s
<1>1. /\ SubSeq(s, 1, Len(s)) \in Seq(S) /\ Len(SubSeq(s, 1, Len(s))) = Len(s)
      /\ \A j \in 1..Len(s) : SubSeq(s, 1, Len(s))[j] = s[j]
  OBVIOUS
<1> QED BY <1>1, SameSequence

LEMMA LinesAre ==
    ASSUME NEW e \in Event
    PROVE  /\ e.rk \in Seq(Byte) /\ e.msg \in Seq(Byte)
           /\ Lines(e) \in Seq(Byte) /\ Len(Lines(e)) = Len(e.rk) + Len(e.msg) + 2
           /\ \A i \in 1..Len(e.rk) : Lines(e)[i] = e.rk[i]
           /\ Lines(e)[Len(e.rk) + 1] = NewLine
           /\ \A i \in 1..Len(e.msg) : Lines(e)[Len(e.rk) + 1 + i] = e.msg[i]
           /\ Lines(e)[Len(e.rk) + Len(e.msg) + 2] = NewLine
<1>1. e.rk \in Seq(Byte) /\ e.msg \in Seq(Byte) /\ NewLine \in Byte
  BY FileAssumption DEF Event
<1> DEFINE k == e.rk
           m == e.msg
           a == k \o <<NewLine>>
           b == a \o m
           l == b \o <<NewLine>>
<1>2. Len(k) \in Nat /\ Len(m) \in Nat
  BY <1>1
<1>3. a \in Seq(Byte) /\ Len(a) = Len(k) + 1 /\ a[Len(k) + 1] = NewLine
      /\ \A i \in 1..Len(k) : a[i] = k[i]
  BY <1>1
<1> HIDE DEF k, m, a
<1>4. /\ b \in Seq(Byte) /\ Len(b) = Len(k) + 1 + Len(m)
      /\ \A i \in 1..Len(k) + 1 : b[i] = a[i]
      /\ \A i \in 1..Len(m) : b[Len(k) + 1 + i] = m[i]
  <2>1. m \in Seq(Byte)
    BY <1>1 DEF m
  <2>2. /\ b \in Seq(Byte) /\ Len(b) = Len(a) + Len(m)
        /\ \A i \in 1..Len(a) : b[i] = a[i]
        /\ \A i \in 1..Len(m) : b[Len(a) + i] = m[i]
    <3>1. b \in Seq(Byte) /\ IsJoined(b, a, m)
      BY <1>3, <2>1, Joined
    <3> HIDE DEF b
    <3> QED BY <3>1 DEF IsJoined
  <2> HIDE DEF b
  <2> QED BY <1>3, <2>2
<1> HIDE DEF b
<1>5. l \in Seq(Byte) /\ Len(l) = Len(k) + Len(m) + 2
      /\ l[Len(k) + Len(m) + 2] = NewLine
      /\ \A i \in 1..Len(k) + 1 + Len(m) : l[i] = b[i]
  <2>1. l \in Seq(Byte) /\ Len(l) = Len(b) + 1 /\ l[Len(b) + 1] = NewLine
        /\ \A i \in 1..Len(b) : l[i] = b[i]
    BY <1>1, <1>4
  <2> HIDE DEF l
  <2>2. Len(b) + 1 = Len(k) + Len(m) + 2
    BY <1>2, <1>4
  <2> QED BY <1>4, <2>1, <2>2
<1>6. Lines(e) = l
  BY DEF Lines, k, m, a, b
<1> HIDE DEF l
<1>7. \A i \in 1..Len(k) : l[i] = k[i]
  BY <1>2, <1>3, <1>4, <1>5
<1>8. l[Len(k) + 1] = NewLine
  BY <1>2, <1>3, <1>4, <1>5
<1>9. ASSUME NEW i \in 1..Len(m) PROVE l[Len(k) + 1 + i] = m[i]
  <2>1. Len(k) + 1 + i \in 1..Len(k) + 1 + Len(m)
    BY <1>2
  <2> QED BY <1>4, <1>5, <2>1
<1> QED BY <1>1, <1>5, <1>6, <1>7, <1>8, <1>9 DEF k, m

LEMMA UntilIsBytes ==
    ASSUME NEW q \in Seq(Event)
    PROVE  \A j \in 0..Len(q) : Until(q, j) \in Seq(Byte)
<1> DEFINE A == {n \in Nat : n <= Len(q) => Until(q, n) \in Seq(Byte)}
<1>1. 0 \in A
  <2>1. Until(q, 0) = <<>>
    BY UntilGrows
  <2>2. <<>> \in Seq(Byte)
    OBVIOUS
  <2> QED BY <2>1, <2>2
<1>2. ASSUME NEW n \in Nat, n \in A PROVE n + 1 \in A
  <2> SUFFICES ASSUME n + 1 <= Len(q) PROVE Until(q, n + 1) \in Seq(Byte)
    OBVIOUS
  <2>1. n + 1 \in 1..Len(q) /\ (n + 1) - 1 = n /\ q[n + 1] \in Event
    OBVIOUS
  <2>2. Until(q, n) \in Seq(Byte)
    BY <1>2, <2>1
  <2>3. Lines(q[n + 1]) \in Seq(Byte)
    BY <2>1, LinesAre
  <2>4. Until(q, n + 1) = Until(q, n) \o Lines(q[n + 1])
    BY <2>1, UntilGrows
  <2> QED BY <2>2, <2>3, <2>4, Joined
<1> HIDE DEF A
<1>3. \A n \in Nat : n >= 0 => n \in A
  BY <1>1, <1>2, InductionOnSet
<1> QED BY <1>3 DEF A

(* The sequence s is the beginning of t.                                   *)
Starts(s, t) == Len(s) <= Len(t) /\ \A i \in 1..Len(s) : t[i] = s[i]

LEMMA UntilStarts ==
    ASSUME NEW q \in Seq(Event)
    PROVE  \A m \in 0..Len(q) : \A j \in 0..m : Starts(Until(q, j), Until(q, m))
<1> DEFINE A == {m \in Nat : m <= Len(q) => \A j \in 0..m : Starts(Until(q, j), Until(q, m))}
<1>1. 0 \in A
  <2>1. Until(q, 0) = <<>>
    BY UntilGrows
  <2> QED BY <2>1 DEF Starts
<1>2. ASSUME NEW m \in Nat, m \in A PROVE m + 1 \in A
  <2> SUFFICES ASSUME m + 1 <= Len(q), NEW j \in 0..m + 1
               PROVE  Starts(Until(q, j), Until(q, m + 1))
    OBVIOUS
  <2> DEFINE a == Until(q, m)
             l == Lines(q[m + 1])
             b == Until(q, m + 1)
  <2>1. m + 1 \in 1..Len(q) /\ (m + 1) - 1 = m /\ m \in 0..Len(q) /\ q[m + 1] \in Event
    OBVIOUS
  <2>2. a \in Seq(Byte) /\ l \in Seq(Byte)
    BY <2>1, UntilIsBytes, LinesAre
  <2>3. b = a \o l
    BY <2>1, UntilGrows
  <2>4. CASE j = m + 1
    <3>1. b \in Seq(Byte)
      BY <2>2, <2>3, Joined, Zenon
    <3> QED BY <2>4, <3>1 DEF Starts
  <2>5. CASE j # m + 1
    <3>1. j \in 0..m /\ j \in 0..Len(q)
      BY <2>1, <2>5
    <3>2. Starts(Until(q, j), a)
      BY <1>2, <2>1, <3>1
    <3>3. Until(q, j) \in Seq(Byte)
      BY <3>1, UntilIsBytes
    <3> DEFINE c == Until(q, j)
    <3> HIDE DEF a, b, c, l
    <3>4. c \in Seq(Byte) /\ Starts(c, a)
      BY <3>2, <3>3 DEF a, c
    <3>5. Len(b) = Len(a) + Len(l) /\ \A i \in 1..Len(a) : b[i] = a[i]
      <4>1. IsJoined(b, a, l)
        BY <2>2, <2>3, Joined DEF a, b, l
      <4> QED BY <4>1 DEF IsJoined
    <3>6. Starts(c, b)
      BY <2>2, <3>4, <3>5 DEF Starts
    <3> QED BY <3>6 DEF b, c
  <2> QED BY <2>4, <2>5
<1> HIDE DEF A
<1>3. \A m \in Nat : m >= 0 => m \in A
  BY <1>1, <1>2, InductionOnSet
<1> QED BY <1>3 DEF A

(* The lines of e stand in c behind the first p bytes.                     *)
Stands(c, p, e) ==
    /\ p + Len(e.rk) + Len(e.msg) + 2 <= Len(c)
    /\ \A i \in 1..Len(e.rk) : c[p + i] = e.rk[i]
    /\ c[p + Len(e.rk) + 1] = NewLine
    /\ \A i \in 1..Len(e.msg) : c[p + Len(e.rk) + 1 + i] = e.msg[i]
    /\ c[p + Len(e.rk) + Len(e.msg) + 2] = NewLine

(* Where the lines of the event behind the first j stand.                  *)
LEMMA EventStands ==
    ASSUME NEW q \in Seq(Event), NEW j \in 0..Len(q) - 1
    PROVE  /\ Len(Until(q, j)) \in Nat
           /\ Len(Until(q, j + 1)) =
                  Len(Until(q, j)) + Len(q[j + 1].rk) + Len(q[j + 1].msg) + 2
           /\ Stands(Content(q), Len(Until(q, j)), q[j + 1])
<1> DEFINE e == q[j + 1]
           a == Until(q, j)
           b == Until(q, j + 1)
           c == Content(q)
           l == Lines(e)
           p == Len(a)
<1>1. j + 1 \in 1..Len(q) /\ (j + 1) - 1 = j /\ j \in 0..Len(q) /\ j + 1 \in 0..Len(q)
      /\ Len(q) \in 0..Len(q) /\ e \in Event
  OBVIOUS
<1>2. a \in Seq(Byte) /\ b \in Seq(Byte) /\ c \in Seq(Byte)
  BY <1>1, UntilIsBytes, UntilGrows
<1>3. b = a \o l
  BY <1>1, UntilGrows
<1>4. Starts(b, c)
  BY <1>1, UntilStarts, UntilGrows
<1> HIDE DEF e, a, b, c
<1>5. /\ e.rk \in Seq(Byte) /\ e.msg \in Seq(Byte)
      /\ l \in Seq(Byte) /\ Len(l) = Len(e.rk) + Len(e.msg) + 2
      /\ \A i \in 1..Len(e.rk) : l[i] = e.rk[i]
      /\ l[Len(e.rk) + 1] = NewLine
      /\ \A i \in 1..Len(e.msg) : l[Len(e.rk) + 1 + i] = e.msg[i]
      /\ l[Len(e.rk) + Len(e.msg) + 2] = NewLine
  BY <1>1, LinesAre
<1> HIDE DEF l
<1>6. Len(b) = p + Len(l) /\ \A i \in 1..Len(l) : b[p + i] = l[i]
  <2>1. IsJoined(b, a, l)
    BY <1>2, <1>3, <1>5, Joined
  <2> QED BY <2>1 DEF IsJoined, p
<1> DEFINE k == Len(e.rk)
           m == Len(e.msg)
<1>7. p \in Nat /\ k \in Nat /\ m \in Nat /\ Len(c) \in Nat /\ Len(l) = k + m + 2
  BY <1>2, <1>5
<1>8. Len(b) <= Len(c) /\ \A i \in 1..Len(b) : c[i] = b[i]
  BY <1>4 DEF Starts
<1>9. /\ \A i \in 1..k : l[i] = e.rk[i]
      /\ l[k + 1] = NewLine
      /\ \A i \in 1..m : l[k + 1 + i] = e.msg[i]
      /\ l[k + m + 2] = NewLine
  BY <1>5
<1> HIDE DEF p, k, m
<1>10. ASSUME NEW i \in 1..Len(l) PROVE c[p + i] = l[i]
  <2>1. p + i \in 1..Len(b)
    BY <1>6, <1>7
  <2> QED BY <1>6, <1>8, <2>1
<1>11. \A i \in 1..k : c[p + i] = e.rk[i]
  <2>1. \A i \in 1..k : i \in 1..Len(l)
    BY <1>7
  <2>2. \A i \in 1..k : c[p + i] = l[i]
    BY <1>10, <2>1, Zenon
  <2> QED BY <1>9, <2>2, Zenon
<1>12. c[p + k + 1] = NewLine
  <2>1. k + 1 \in 1..Len(l) /\ p + (k + 1) = p + k + 1
    BY <1>7
  <2> QED BY <1>9, <1>10, <2>1
<1>13. c[p + k + m + 2] = NewLine
  <2>1. k + m + 2 \in 1..Len(l) /\ p + (k + m + 2) = p + k + m + 2
    BY <1>7
  <2> QED BY <1>9, <1>10, <2>1
<1>14. ASSUME NEW i \in 1..m PROVE c[p + k + 1 + i] = e.msg[i]
  <2>1. k + 1 + i \in 1..Len(l) /\ p + (k + 1 + i) = p + k + 1 + i
    BY <1>7
  <2> QED BY <1>9, <1>10, <2>1
<1>15. Len(b) = p + k + m + 2 /\ p + k + m + 2 <= Len(c)
  BY <1>6, <1>7, <1>8
<1>16. Stands(c, p, e)
  BY <1>11, <1>12, <1>13, <1>14, <1>15 DEF Stands, k, m
<1> QED BY <1>7, <1>15, <1>16 DEF e, a, b, c, p, k, m

-----------------------------------------------------------------------------
(* The events that can be read back.                                       *)

LEMMA IntactIs ==
    ASSUME saved \in Seq(Event), written \in Nat
    PROVE  /\ Intact \in 0..Len(saved) /\ Reached(Intact)
           /\ Intact < Len(saved) => ~Reached(Intact + 1)
<1> DEFINE T == {d \in Nat : d <= Len(saved) /\ Reached(Len(saved) - d)}
<1>1. Len(saved) \in Nat
  OBVIOUS
<1>2. Len(saved) \in T
  <2>1. Until(saved, 0) = <<>>
    BY UntilGrows
  <2>2. Len(Content(SubSeq(saved, 1, 0))) <= written
    BY <2>1 DEF Until
  <2>3. Reached(0)
    BY <2>2 DEF Reached
  <2> QED BY <1>1, <2>3
<1>3. PICK d \in T : \A c \in T : d <= c
  BY <1>2, LeastNatural
<1> DEFINE n == Len(saved) - d
<1>4. n \in 0..Len(saved) /\ Reached(n)
  BY <1>1, <1>3
<1>5. ASSUME n < Len(saved), Reached(n + 1) PROVE FALSE
  <2>1. d - 1 \in Nat /\ d - 1 <= Len(saved) /\ Len(saved) - (d - 1) = n + 1 /\ d \in Nat
    BY <1>1, <1>3, <1>5
  <2>2. d - 1 \in T
    BY <1>5, <2>1
  <2> QED BY <1>3, <2>1, <2>2
<1> HIDE DEF n
<1>6. \E m \in 0..Len(saved) : Reached(m) /\ (m < Len(saved) => ~Reached(m + 1))
  BY <1>4, <1>5
<1> QED BY <1>6 DEF Intact

(* The lines of an intact event stand in the file.                         *)
LEMMA IntactStands ==
    ASSUME FileTypes, Begins, NEW k \in 0..Intact - 1
    PROVE  /\ k + 1 \in 1..Len(saved) /\ Readable(saved[k + 1])
           /\ Stands(file, Len(Until(saved, k)), saved[k + 1])
           /\ Len(Until(saved, k)) \in Nat
           /\ Len(Until(saved, k + 1)) =
                Len(Until(saved, k)) + Len(saved[k + 1].rk) + Len(saved[k + 1].msg) + 2
<1>1. /\ saved \in Seq(Event) /\ written \in Nat /\ file \in Seq(Byte)
      /\ Len(saved) \in Nat /\ Len(file) \in Nat
  BY DEF FileTypes
<1>2. Intact \in 0..Len(saved) /\ Reached(Intact)
  BY <1>1, IntactIs
<1>3. k \in 0..Len(saved) - 1 /\ k + 1 \in 1..Intact /\ k + 1 \in 1..Len(saved)
      /\ k + 1 \in 0..Intact
  BY <1>1, <1>2
<1>4. Readable(saved[k + 1]) /\ Len(Until(saved, Intact)) <= written
  BY <1>2, <1>3 DEF Reached, Until
<1> DEFINE p == Len(Until(saved, k))
           e == saved[k + 1]
           m == Len(e.rk)
           o == Len(e.msg)
           c == Content(saved)
<1>5. p \in Nat /\ Len(Until(saved, k + 1)) = p + m + o + 2 /\ Stands(c, p, e)
  BY <1>1, <1>3, EventStands
<1>6. Starts(Until(saved, k + 1), Until(saved, Intact))
  BY <1>1, <1>2, <1>3, UntilStarts
<1>7. Len(Until(saved, k + 1)) <= Len(Until(saved, Intact))
  BY <1>6 DEF Starts
<1>8. m \in Nat /\ o \in Nat
  <2>1. e \in Event
    BY <1>1, <1>3
  <2> QED BY <2>1 DEF Event
<1>9. Len(Until(saved, Intact)) \in Nat
  <2>1. Until(saved, Intact) \in Seq(Byte)
    BY <1>1, <1>2, UntilIsBytes
  <2> QED BY <2>1
<1> HIDE DEF p, e, c
<1>10. p + m + o + 2 <= written /\ written <= Len(file)
       /\ \A i \in 1..written : file[i] = c[i]
  <2>1. written <= Len(file) /\ \A i \in 1..written : file[i] = c[i]
    BY DEF Begins, c
  <2> DEFINE u == Len(Until(saved, k + 1))
             v == Len(Until(saved, Intact))
  <2>2. /\ u = p + m + o + 2 /\ u <= v /\ v <= written /\ v \in Nat
        /\ p \in Nat /\ m \in Nat /\ o \in Nat /\ written \in Nat
    BY <1>1, <1>4, <1>5, <1>7, <1>8, <1>9
  <2> HIDE DEF u, v, m, o
  <2>3. p + m + o + 2 <= written
    BY <2>2
  <2> QED BY <2>1, <2>3
<1> HIDE DEF m, o
<1>11. /\ \A i \in 1..m : c[p + i] = e.rk[i]
       /\ c[p + m + 1] = NewLine
       /\ \A i \in 1..o : c[p + m + 1 + i] = e.msg[i]
       /\ c[p + m + o + 2] = NewLine
  BY <1>5 DEF Stands, m, o
<1>12. \A i \in 1..m : file[p + i] = e.rk[i]
  BY <1>1, <1>5, <1>8, <1>10, <1>11
<1>13. \A i \in 1..o : file[p + m + 1 + i] = e.msg[i]
  BY <1>1, <1>5, <1>8, <1>10, <1>11
<1>14. file[p + m + 1] = NewLine /\ file[p + m + o + 2] = NewLine
  BY <1>1, <1>5, <1>8, <1>10, <1>11
<1>15. Stands(file, p, e)
  <2>1. p + m + o + 2 <= Len(file)
    BY <1>1, <1>5, <1>8, <1>10
  <2> QED BY <1>12, <1>13, <1>14, <2>1 DEF Stands, m, o
<1> QED BY <1>3, <1>4, <1>5, <1>15 DEF p, e, m, o

-----------------------------------------------------------------------------
(* fgets.                                                                  *)

LEMMA Rest ==
    ASSUME file \in Seq(Byte), NEW p \in Nat, p <= Len(file)
    PROVE  /\ SubSeq(file, p + 1, Len(file)) \in Seq(Byte)
           /\ Len(SubSeq(file, p + 1, Len(file))) = Len(file) - p
           /\ \A i \in 1..Len(file) - p : SubSeq(file, p + 1, Len(file))[i] = file[p + i]
OBVIOUS

(* The line w stands in the file behind the first p bytes.                 *)
LineAt(p, w) ==
    /\ p + Len(w) + 1 <= Len(file)
    /\ \A i \in 1..Len(w) : file[p + i] = w[i]
    /\ file[p + Len(w) + 1] = NewLine

LEMMA GetsLine ==
    ASSUME file \in Seq(Byte), NEW p \in Nat, NEW b, NEW w \in Seq(Byte), Clean(w),
           LineAt(p, w)
    PROVE  /\ Gets(b, p).pos = p + Len(w) + 1 /\ Gets(b, p).eof = FALSE
           /\ Strip(Gets(b, p).line) = w
<1> DEFINE rest == SubSeq(file, p + 1, Len(file))
           Stop(j) == rest[j] = NewLine \/ j = BufferSize - 1
           ends == {j \in 1..Len(rest) : Stop(j) /\ \A i \in 1..j - 1 : ~Stop(i)}
           n == Len(w)
<1>1. BufferSize \in Nat /\ n \in Nat /\ Len(file) \in Nat
  BY FileAssumption
<1>2. /\ n < BufferSize - 1 /\ \A i \in 1..n : w[i] # NewLine
      /\ p + n + 1 <= Len(file) /\ file[p + n + 1] = NewLine
      /\ \A i \in 1..n : file[p + i] = w[i]
  BY DEF Clean, LineAt
<1>3. /\ rest \in Seq(Byte) /\ Len(rest) = Len(file) - p
      /\ \A i \in 1..Len(file) - p : rest[i] = file[p + i]
  BY <1>1, <1>2, Rest
<1> HIDE DEF rest, n
<1>4. rest # <<>> /\ n + 1 \in 1..Len(rest)
  BY <1>1, <1>2, <1>3
<1>5. rest[n + 1] = NewLine
  <2>1. n + 1 \in 1..Len(file) - p /\ p + (n + 1) = p + n + 1
    BY <1>1, <1>2
  <2> QED BY <1>2, <1>3, <2>1
<1>6. \A i \in 1..n : rest[i] = w[i] /\ ~Stop(i)
  BY <1>1, <1>2, <1>3
<1>7. ends = {n + 1}
  <2>1. Stop(n + 1) /\ \A i \in 1..(n + 1) - 1 : ~Stop(i)
    BY <1>1, <1>5, <1>6
  <2>2. n + 1 \in ends
    BY <1>4, <2>1
  <2>3. ASSUME NEW j \in ends PROVE j = n + 1
    <3>1. j \in 1..Len(rest) /\ Stop(j) /\ \A i \in 1..j - 1 : ~Stop(i)
      OBVIOUS
    <3> HIDE DEF Stop
    <3>2. ~(j < n + 1)
      BY <1>1, <1>6, <3>1
    <3>3. ~(j > n + 1)
      BY <1>1, <2>1, <3>1
    <3> QED BY <1>1, <3>1, <3>2, <3>3
  <2> QED BY <2>2, <2>3
<1> DEFINE line == SubSeq(rest, 1, n + 1)
<1>8. Gets(b, p) = [line |-> line, pos |-> p + (n + 1), eof |-> FALSE]
  <2>1. (CHOOSE j \in ends : TRUE) = n + 1 /\ ends # {}
    BY <1>7
  <2> HIDE DEF ends
  <2>2. Gets(b, p) = LET j == CHOOSE j \in ends : TRUE
                     IN  [line |-> SubSeq(rest, 1, j), pos |-> p + j, eof |-> FALSE]
    BY <1>4, <2>1 DEF Gets, rest, ends
  <2> QED BY <2>1, <2>2
<1>9. line \in Seq(Byte) /\ Len(line) = n + 1 /\ \A i \in 1..n : line[i] = rest[i]
  BY <1>1, <1>3, <1>4
<1> HIDE DEF line
<1>10. Strip(line) = w
  <2>1. Strip(line) = SubSeq(line, 1, (n + 1) - 1)
    BY <1>1, <1>9 DEF Strip, Front
  <2>2. (n + 1) - 1 = n
    BY <1>1
  <2>3. SubSeq(line, 1, n) \in Seq(Byte) /\ Len(SubSeq(line, 1, n)) = n
        /\ \A i \in 1..n : SubSeq(line, 1, n)[i] = line[i]
    BY <1>1, <1>9
  <2>4. SubSeq(line, 1, n) = w
    BY <1>6, <1>9, <2>3 DEF n
  <2> QED BY <2>1, <2>2, <2>4
<1> QED BY <1>1, <1>8, <1>10 DEF n

LEMMA GetsEnd ==
    ASSUME file \in Seq(Byte), NEW b
    PROVE  Gets(b, Len(file)) = [line |-> b, pos |-> Len(file), eof |-> TRUE]
<1>1. SubSeq(file, Len(file) + 1, Len(file)) = <<>>
  OBVIOUS
<1> QED BY <1>1 DEF Gets

(* The file ends within the line w.                                        *)
EndsIn(p, w) ==
    /\ p < Len(file) /\ Len(file) - p <= Len(w)
    /\ \A i \in 1..Len(file) - p : file[p + i] = w[i]

LEMMA GetsPart ==
    ASSUME file \in Seq(Byte), NEW p \in Nat, NEW b, NEW w \in Seq(Byte), Clean(w),
           EndsIn(p, w)
    PROVE  /\ Gets(b, p).pos = Len(file) /\ Gets(b, p).eof = TRUE
           /\ IsPrefix(Strip(Gets(b, p).line), w)
<1> DEFINE rest == SubSeq(file, p + 1, Len(file))
           Stop(j) == rest[j] = NewLine \/ j = BufferSize - 1
           ends == {j \in 1..Len(rest) : Stop(j) /\ \A i \in 1..j - 1 : ~Stop(i)}
           n == Len(file) - p
<1>1. BufferSize \in Nat /\ n \in Nat /\ n > 0 /\ Len(file) \in Nat /\ Len(w) \in Nat
  BY FileAssumption DEF EndsIn
<1>2. /\ Len(w) < BufferSize - 1 /\ n <= Len(w) /\ \A i \in 1..Len(w) : w[i] # NewLine
      /\ \A i \in 1..n : file[p + i] = w[i]
  BY DEF Clean, EndsIn
<1>3. p <= Len(file)
  BY DEF EndsIn
<1>4. /\ rest \in Seq(Byte) /\ Len(rest) = n
      /\ \A i \in 1..n : rest[i] = file[p + i]
  BY <1>3, Rest
<1> HIDE DEF rest, n
<1>5. ASSUME NEW i \in 1..n PROVE rest[i] = w[i] /\ ~Stop(i)
  <2>1. i \in 1..Len(w) /\ i # BufferSize - 1
    BY <1>1, <1>2
  <2>2. rest[i] = w[i] /\ w[i] # NewLine
    BY <1>2, <1>4, <2>1
  <2> QED BY <2>1, <2>2
<1>6. rest # <<>> /\ ends = {}
  BY <1>1, <1>4, <1>5
<1>7. Gets(b, p) = [line |-> rest, pos |-> Len(file), eof |-> TRUE]
  BY <1>6 DEF Gets, rest
<1> DEFINE front == SubSeq(rest, 1, n - 1)
<1>8. Strip(rest) = front
  BY <1>4, <1>6 DEF Strip, Front
<1>9. Len(front) = n - 1 /\ front \in Seq(Byte) /\ \A i \in 1..n - 1 : front[i] = rest[i]
  BY <1>1, <1>4
<1> HIDE DEF front
<1> DEFINE start == SubSeq(w, 1, n - 1)
<1>10. Len(start) = n - 1 /\ start \in Seq(Byte) /\ \A i \in 1..n - 1 : start[i] = w[i]
  BY <1>1, <1>2
<1> HIDE DEF start
<1>11. \A i \in 1..n - 1 : front[i] = start[i]
  <2> SUFFICES ASSUME NEW i \in 1..n - 1 PROVE front[i] = start[i]
    OBVIOUS
  <2>1. i \in 1..n
    BY <1>1
  <2>2. rest[i] = w[i]
    BY <1>5, <2>1
  <2> QED BY <1>9, <1>10, <2>2
<1>12. front = start
  <2>1. Len(front) = Len(start) /\ \A i \in 1..Len(front) : front[i] = start[i]
    BY <1>9, <1>10, <1>11
  <2>2. front \in Seq(Byte) /\ start \in Seq(Byte)
    BY <1>9, <1>10
  <2> QED BY <2>1, <2>2, SameSequence, Zenon
<1>13. SubSeq(front, 1, Len(front)) = front
  <2>1. front \in Seq(Byte)
    BY <1>9
  <2> QED BY <2>1, WholeSequence, Zenon
<1>14. IsPrefix(front, w)
  BY <1>1, <1>2, <1>9, <1>12, <1>13 DEF IsPrefix, start
<1> QED BY <1>7, <1>8, <1>14

LEMMA PrefixOfItself ==
    ASSUME NEW w \in Seq(Byte)
    PROVE  IsPrefix(w, w)
BY DEF IsPrefix

LEMMA StripIsBytes ==
    ASSUME NEW w \in Seq(Byte)
    PROVE  Strip(w) \in Seq(Byte)
<1>1. w # <<>> => SubSeq(w, 1, Len(w) - 1) \in Seq(Byte)
  OBVIOUS
<1> QED BY <1>1 DEF Strip, Front

LEMMA GetsIsBytes ==
    ASSUME file \in Seq(Byte), NEW p \in Nat, NEW b \in Seq(Byte)
    PROVE  /\ Gets(b, p).line \in Seq(Byte) /\ Gets(b, p).pos \in Nat
           /\ Gets(b, p).eof \in BOOLEAN
<1> DEFINE rest == SubSeq(file, p + 1, Len(file))
           Stop(j) == rest[j] = NewLine \/ j = BufferSize - 1
           ends == {j \in 1..Len(rest) : Stop(j) /\ \A i \in 1..j - 1 : ~Stop(i)}
<1>1. rest \in Seq(Byte) /\ Len(file) \in Nat
  OBVIOUS
<1>2. CASE rest = <<>>
  BY <1>2 DEF Gets
<1>3. CASE rest # <<>> /\ ends = {}
  BY <1>1, <1>3 DEF Gets
<1>4. CASE rest # <<>> /\ ends # {}
  <2> DEFINE j == CHOOSE j \in ends : TRUE
  <2>1. j \in 1..Len(rest)
    BY <1>4
  <2>2. Gets(b, p) = [line |-> SubSeq(rest, 1, j), pos |-> p + j, eof |-> FALSE]
    BY <1>4, Zenon DEF Gets
  <2> HIDE DEF j, rest
  <2>3. SubSeq(rest, 1, j) \in Seq(Byte)
    BY <1>1, <2>1
  <2> QED BY <2>1, <2>2, <2>3
<1> QED BY <1>2, <1>3, <1>4

-----------------------------------------------------------------------------
(* One turn of the loop.                                                   *)

(* An intact event is read.                                                *)
LEMMA IntactTurn ==
    ASSUME FileTypes, Begins, Len(read) < Intact, Behind(Intact), ReadTwoLines
    PROVE  /\ rk' = saved[Len(read) + 1].rk /\ msg' = saved[Len(read) + 1].msg
           /\ eof' = FALSE /\ pos' = Len(Until(saved, Len(read) + 1))
<1> DEFINE k == Len(read)
           e == saved[k + 1]
           p == Len(Until(saved, k))
           key == Gets(rk, pos)
           text == Gets(msg, key.pos)
<1>1. /\ k \in 0..Intact - 1 /\ file \in Seq(Byte) /\ saved \in Seq(Event)
      /\ written \in Nat /\ k \in Nat
  <2>1. Intact \in Nat
    BY IntactIs DEF FileTypes
  <2> QED BY <2>1 DEF FileTypes
<1>2. /\ k + 1 \in 1..Len(saved) /\ Readable(e) /\ Stands(file, p, e) /\ p \in Nat
      /\ Len(Until(saved, k + 1)) = p + Len(e.rk) + Len(e.msg) + 2
  BY <1>1, IntactStands
<1>3. pos = p
  BY DEF Behind
<1>4. e \in Event
  BY <1>1, <1>2
<1> HIDE DEF e, p, k
<1> DEFINE w == e.rk
           t == e.msg
           q == p + Len(w) + 1
<1>5. w \in Seq(Byte) /\ t \in Seq(Byte)
  BY <1>4 DEF Event
<1>6. /\ p + Len(w) + Len(t) + 2 <= Len(file)
      /\ \A i \in 1..Len(w) : file[p + i] = w[i]
      /\ file[p + Len(w) + 1] = NewLine
      /\ \A i \in 1..Len(t) : file[p + Len(w) + 1 + i] = t[i]
      /\ file[p + Len(w) + Len(t) + 2] = NewLine
  BY <1>2 DEF Stands
<1>7. Clean(w) /\ Clean(t) /\ Len(Until(saved, k + 1)) = p + Len(w) + Len(t) + 2
  BY <1>2 DEF Readable
<1> HIDE DEF w, t
<1>8. Len(w) \in Nat /\ Len(t) \in Nat /\ p \in Nat /\ q \in Nat /\ Len(file) \in Nat
  BY <1>1, <1>2, <1>5
<1>9. LineAt(p, w)
  BY <1>6, <1>8 DEF LineAt
<1>10. q + Len(t) + 1 = p + Len(w) + Len(t) + 2
  BY <1>8
<1>11. LineAt(q, t)
  BY <1>6, <1>8, <1>10 DEF LineAt
<1>12. key.pos = q /\ key.eof = FALSE /\ Strip(key.line) = w
  BY <1>1, <1>3, <1>5, <1>7, <1>8, <1>9, GetsLine
<1> HIDE DEF key, q
<1>13. text.pos = q + Len(t) + 1 /\ text.eof = FALSE /\ Strip(text.line) = t
  BY <1>1, <1>5, <1>7, <1>8, <1>11, <1>12, GetsLine
<1>14. /\ pos' = text.pos /\ eof' = (key.eof \/ text.eof)
       /\ rk' = Strip(key.line) /\ msg' = Strip(text.line)
  BY DEF ReadTwoLines, AtEnd, key
<1> HIDE DEF text
<1>15. pos' = Len(Until(saved, k + 1))
  BY <1>7, <1>10, <1>13, <1>14
<1> QED BY <1>12, <1>13, <1>14, <1>15 DEF e, k, w, t

(* Behind the last intact event the file ends, if the old one was removed. *)
LEMMA WhereItEnds ==
    ASSUME FileTypes, Begins, ~oldTail, \A j \in DOMAIN saved : Readable(saved[j]),
           NEW p, p = Len(Until(saved, Intact))
    PROVE  /\ p \in Nat /\ p <= Len(file)
           /\ p < Len(file) =>
                LET e == saved[Intact + 1] IN
                /\ Intact < Len(saved) /\ e \in Event /\ Clean(e.rk) /\ Clean(e.msg)
                /\ EndsIn(p, e.rk)
                   \/ /\ LineAt(p, e.rk)
                      /\ \/ p + Len(e.rk) + 1 = Len(file)
                         \/ EndsIn(p + Len(e.rk) + 1, e.msg)
<1> DEFINE n == Intact
           c == Content(saved)
<1>1. /\ saved \in Seq(Event) /\ written \in Nat /\ file \in Seq(Byte)
      /\ Len(saved) \in Nat /\ Len(file) \in Nat /\ written = Len(file)
      /\ Len(file) <= Len(c) /\ \A i \in 1..Len(file) : file[i] = c[i]
  <2>1. saved \in Seq(Event) /\ written \in Nat /\ file \in Seq(Byte) /\ written = Len(file)
    BY DEF FileTypes, Begins
  <2>2. Len(file) <= Len(c) /\ \A i \in 1..Len(file) : file[i] = c[i]
    BY <2>1 DEF Begins
  <2> QED BY <2>1, <2>2
<1>2. n \in 0..Len(saved) /\ Reached(n) /\ (n < Len(saved) => ~Reached(n + 1))
  BY <1>1, IntactIs
<1>3. p \in Nat /\ p <= Len(file)
  <2>1. Until(saved, n) \in Seq(Byte)
    BY <1>1, <1>2, UntilIsBytes
  <2>2. p <= written
    BY <1>2 DEF Reached, Until
  <2> QED BY <1>1, <2>1, <2>2
<1> SUFFICES ASSUME p < Len(file)
             PROVE  LET e == saved[n + 1] IN
                    /\ n < Len(saved) /\ e \in Event /\ Clean(e.rk) /\ Clean(e.msg)
                    /\ EndsIn(p, e.rk)
                       \/ /\ LineAt(p, e.rk)
                          /\ \/ p + Len(e.rk) + 1 = Len(file)
                             \/ EndsIn(p + Len(e.rk) + 1, e.msg)
  BY <1>3
<1>4. n < Len(saved)
  <2> SUFFICES ASSUME n = Len(saved) PROVE FALSE
    BY <1>1, <1>2
  <2>1. p = Len(c)
    BY <1>1, UntilGrows
  <2>2. Len(c) \in Nat
    BY <1>3, <2>1
  <2> QED BY <1>1, <1>3, <2>1, <2>2
<1> DEFINE e == saved[n + 1]
<1>5. e \in Event /\ n \in 0..Len(saved) - 1 /\ n + 1 \in DOMAIN saved /\ Readable(e)
  BY <1>1, <1>2, <1>4
<1> DEFINE w == e.rk
           t == e.msg
           q == p + Len(w) + 1
<1>6. /\ Len(Until(saved, n + 1)) = p + Len(w) + Len(t) + 2
      /\ Stands(c, p, e)
  BY <1>1, <1>5, EventStands
<1>7. ~(Len(Until(saved, n + 1)) <= written)
  <2>1. \A i \in 1..n + 1 : Readable(saved[i])
    BY <1>1, <1>2, <1>4
  <2> QED BY <1>2, <1>4, <2>1 DEF Reached, Until
<1> HIDE DEF e, n, c
<1>8. w \in Seq(Byte) /\ t \in Seq(Byte) /\ Clean(w) /\ Clean(t)
  BY <1>5 DEF Event, Readable
<1>9. /\ \A i \in 1..Len(w) : c[p + i] = w[i]
      /\ c[p + Len(w) + 1] = NewLine
      /\ \A i \in 1..Len(t) : c[p + Len(w) + 1 + i] = t[i]
  BY <1>6 DEF Stands
<1> HIDE DEF w, t
<1>10. Len(w) \in Nat /\ Len(t) \in Nat
  BY <1>8
<1>11. Len(file) < p + Len(w) + Len(t) + 2
  BY <1>1, <1>3, <1>6, <1>7, <1>10
<1>12. CASE Len(file) - p <= Len(w)
  <2>1. \A i \in 1..Len(file) - p : file[p + i] = w[i]
    BY <1>1, <1>3, <1>9, <1>10, <1>12
  <2>2. EndsIn(p, w)
    BY <1>12, <2>1 DEF EndsIn
  <2> QED BY <1>4, <1>5, <1>8, <2>2 DEF n, e, w, t
<1>13. CASE ~(Len(file) - p <= Len(w))
  <2>1. q \in Nat /\ q <= Len(file) /\ q = p + Len(w) + 1
    BY <1>1, <1>3, <1>10, <1>13
  <2>2. \A i \in 1..Len(w) : file[p + i] = w[i]
    BY <1>1, <1>3, <1>9, <1>10, <2>1
  <2>3. file[p + Len(w) + 1] = NewLine
    BY <1>1, <1>3, <1>9, <1>10, <2>1
  <2>4. LineAt(p, w)
    BY <2>1, <2>2, <2>3 DEF LineAt
  <2>5. CASE q < Len(file)
    <3>1. Len(file) - q <= Len(t)
      BY <1>1, <1>3, <1>10, <1>11, <2>1
    <3>2. \A i \in 1..Len(t) : c[q + i] = t[i]
      BY <1>9
    <3> HIDE DEF q
    <3>3. ASSUME NEW i \in 1..Len(file) - q PROVE file[q + i] = t[i]
      <4>1. i \in 1..Len(t) /\ q + i \in 1..Len(file)
        BY <1>1, <1>10, <2>1, <3>1
      <4> QED BY <1>1, <3>2, <4>1
    <3>4. EndsIn(q, t)
      BY <2>5, <3>1, <3>3 DEF EndsIn
    <3> QED BY <1>4, <1>5, <1>8, <2>4, <3>4 DEF n, e, w, t, q
  <2>6. CASE q = Len(file)
    BY <1>4, <1>5, <1>8, <2>4, <2>6 DEF n, e, w, t
  <2> QED BY <1>1, <2>1, <2>5, <2>6
<1> QED BY <1>12, <1>13 DEF n, e, w, t

(* The event behind the intact ones is the last one that is read.          *)
LEMMA DamagedTurn ==
    ASSUME FileTypes, Begins, ~oldTail, \A j \in DOMAIN saved : Readable(saved[j]),
           Len(read) = Intact, Behind(Intact), ReadTwoLines
    PROVE  eof' = TRUE /\ Damaged(Intact, [rk |-> rk', msg |-> msg'])
<1> DEFINE n == Intact
           p == Len(Until(saved, n))
           key == Gets(rk, pos)
           text == Gets(msg, key.pos)
           extra == [rk |-> rk', msg |-> msg']
           e == saved[n + 1]
           w == e.rk
           t == e.msg
           q == p + Len(w) + 1
<1>1. file \in Seq(Byte) /\ pos = p /\ Len(file) \in Nat /\ n \in 0..Len(saved)
      /\ rk \in Seq(Byte) /\ msg \in Seq(Byte) /\ Len(saved) \in Nat
  BY IntactIs DEF FileTypes, Behind
<1>2. n > 0 => rk = saved[n].rk /\ msg = saved[n].msg
  BY DEF Behind
<1>3. /\ p \in Nat /\ p <= Len(file)
      /\ p < Len(file) => /\ n < Len(saved) /\ e \in Event /\ Clean(w) /\ Clean(t)
                          /\ \/ EndsIn(p, w)
                             \/ LineAt(p, w) /\ (q = Len(file) \/ EndsIn(q, t))
  BY WhereItEnds
<1>4. /\ eof' = (key.eof \/ text.eof) /\ rk' = Strip(key.line) /\ msg' = Strip(text.line)
  BY DEF ReadTwoLines, AtEnd
<1>5. extra.rk = rk' /\ extra.msg = msg'
  OBVIOUS
<1>6. ASSUME msg' = Strip(msg) PROVE n = 0 \/ extra.msg = Strip(saved[n].msg)
  BY <1>1, <1>2, <1>5, <1>6
<1> HIDE DEF extra
<1>7. CASE p = Len(file)
  <2>1. key = [line |-> rk, pos |-> Len(file), eof |-> TRUE]
    BY <1>1, <1>7, GetsEnd
  <2>2. key.line = rk /\ key.pos = Len(file) /\ key.eof = TRUE
    BY <2>1
  <2> HIDE DEF key
  <2>3. text = [line |-> msg, pos |-> Len(file), eof |-> TRUE]
    BY <1>1, <2>2, GetsEnd
  <2>4. text.line = msg /\ text.eof = TRUE
    BY <2>3
  <2> HIDE DEF text
  <2>5. rk' = Strip(rk) /\ msg' = Strip(msg) /\ eof' = TRUE
    BY <1>4, <2>2, <2>4 DEF key
  <2>6. n = 0 \/ extra.rk = Strip(saved[n].rk)
    BY <1>1, <1>2, <1>5, <2>5
  <2> QED BY <1>6, <2>5, <2>6 DEF Damaged, extra
<1>8. CASE p < Len(file)
  <2>1. n < Len(saved) /\ e \in Event /\ Clean(w) /\ Clean(t)
    BY <1>3, <1>8
  <2>2. w \in Seq(Byte) /\ t \in Seq(Byte) /\ Len(w) \in Nat
    BY <2>1 DEF Event
  <2>3. CASE EndsIn(p, w)
    <3>1. key.pos = Len(file) /\ key.eof = TRUE /\ IsPrefix(Strip(key.line), w)
      BY <1>1, <1>3, <2>1, <2>2, <2>3, GetsPart
    <3> HIDE DEF key
    <3>2. text = [line |-> msg, pos |-> Len(file), eof |-> TRUE]
      BY <1>1, <3>1, GetsEnd
    <3>3. text.line = msg
      BY <3>2
    <3> HIDE DEF text
    <3>4. rk' = Strip(key.line) /\ msg' = Strip(msg) /\ eof' = TRUE
      BY <1>4, <3>1, <3>3 DEF key
    <3>5. IsPrefix(extra.rk, saved[n + 1].rk)
      BY <1>5, <3>1, <3>4
    <3> QED BY <1>6, <2>1, <3>4, <3>5 DEF Damaged, extra
  <2>4. CASE LineAt(p, w) /\ (q = Len(file) \/ EndsIn(q, t))
    <3>1. key.pos = q /\ key.eof = FALSE /\ Strip(key.line) = w
      BY <1>1, <1>3, <2>1, <2>2, <2>4, GetsLine
    <3>2. q \in Nat
      BY <1>3, <2>2
    <3>3. rk' = w /\ IsPrefix(extra.rk, saved[n + 1].rk) /\ extra.rk = saved[n + 1].rk
      BY <1>4, <1>5, <2>2, <3>1, PrefixOfItself
    <3> HIDE DEF key, q
    <3>4. CASE q = Len(file)
      <4>1. text = [line |-> msg, pos |-> Len(file), eof |-> TRUE]
        BY <1>1, <3>1, <3>4, GetsEnd
      <4>2. text.line = msg /\ text.eof = TRUE
        BY <4>1
      <4> HIDE DEF text
      <4>3. msg' = Strip(msg) /\ eof' = TRUE
        BY <1>4, <4>2 DEF key
      <4> QED BY <1>6, <2>1, <3>3, <4>3 DEF Damaged, extra
    <3>5. CASE EndsIn(q, t)
      <4>1. text.eof = TRUE /\ IsPrefix(Strip(text.line), t)
        BY <1>1, <2>1, <2>2, <3>1, <3>2, <3>5, GetsPart
      <4> HIDE DEF text
      <4>2. msg' = Strip(text.line) /\ eof' = TRUE
        BY <1>4, <4>1 DEF key
      <4>3. IsPrefix(extra.msg, saved[n + 1].msg)
        BY <1>5, <4>1, <4>2
      <4> QED BY <2>1, <3>3, <4>2, <4>3 DEF Damaged, extra
    <3> QED BY <2>4, <3>4, <3>5 DEF q
  <2> QED BY <1>3, <1>8, <2>3, <2>4
<1> HIDE DEF p
<1>9. p = Len(file) \/ p < Len(file)
  BY <1>1, <1>3
<1> QED BY <1>7, <1>8, <1>9 DEF extra

LEMMA SameIntact ==
    ASSUME UNCHANGED <<saved, written>>
    PROVE  Intact' = Intact
BY DEF Intact, Reached

LEMMA TurnTypes ==
    ASSUME FileTypes, ReadTwoLines
    PROVE  FileTypes' /\ read' = Append(read, [rk |-> rk', msg |-> msg'])
           /\ UNCHANGED <<phase, queue, file, saved, written, oldTail>>
<1> DEFINE key == Gets(rk, pos)
           text == Gets(msg, key.pos)
<1>1. /\ pos' = text.pos /\ eof' = (key.eof \/ text.eof)
      /\ rk' = Strip(key.line) /\ msg' = Strip(text.line)
      /\ read' = Append(read, [rk |-> rk', msg |-> msg'])
      /\ UNCHANGED <<phase, queue, file, saved, written, oldTail>>
  BY DEF ReadTwoLines, AtEnd, disk
<1>2. /\ file \in Seq(Byte) /\ rk \in Seq(Byte) /\ msg \in Seq(Byte) /\ pos \in Nat
      /\ read \in Seq(Event)
  BY DEF FileTypes
<1>3. key.line \in Seq(Byte) /\ key.pos \in Nat /\ key.eof \in BOOLEAN
  BY <1>2, GetsIsBytes
<1> HIDE DEF key
<1>4. text.line \in Seq(Byte) /\ text.pos \in Nat /\ text.eof \in BOOLEAN
  BY <1>2, <1>3, GetsIsBytes
<1> HIDE DEF text
<1>5. rk' \in Seq(Byte) /\ msg' \in Seq(Byte) /\ pos' \in Nat /\ eof' \in BOOLEAN
  BY <1>1, <1>3, <1>4, StripIsBytes
<1>6. [rk |-> rk', msg |-> msg'] \in Event
  BY <1>5 DEF Event
<1>7. read' \in Seq(Event)
  BY <1>1, <1>2, <1>6
<1> QED BY <1>1, <1>5, <1>7 DEF FileTypes

LEMMA TurnKeeps ==
    ASSUME FileInv, ReadTwoLines
    PROVE  FileInv'
<1> DEFINE n == Intact
           k == Len(read)
           extra == [rk |-> rk', msg |-> msg']
           all == \A j \in DOMAIN saved : Readable(saved[j])
<1>1. FileTypes /\ Begins /\ Loading /\ ~eof
  BY DEF FileInv, ReadTwoLines
<1>2. /\ FileTypes' /\ read' = Append(read, extra)
      /\ UNCHANGED <<phase, queue, file, saved, written, oldTail>>
  BY <1>1, TurnTypes
<1>3. Begins'
  BY <1>1, <1>2 DEF Begins
<1>4. Intact' = n /\ n \in Nat
  BY <1>1, <1>2, SameIntact, IntactIs DEF FileTypes
<1>5. /\ read \in Seq(Event) /\ k \in Nat /\ Len(read') = k + 1
      /\ read'[k + 1] = extra
      /\ \A j \in 1..k : read'[j] = read[j]
  BY <1>1, <1>2 DEF FileTypes
<1>6. /\ \A j \in 1..k : j <= n => read[j] = saved[j]
      /\ k <= n => Behind(n)
      /\ k > n /\ ~oldTail /\ all => eof
  BY <1>1 DEF Loading
<1> HIDE DEF n, k, extra
<1>7. Loading'
  <2>1. CASE k < n
    <3>1. /\ rk' = saved[k + 1].rk /\ msg' = saved[k + 1].msg /\ eof' = FALSE
          /\ pos' = Len(Until(saved, k + 1))
      <4>1. Len(read) < Intact /\ Behind(Intact)
        BY <1>4, <1>5, <1>6, <2>1 DEF n, k
      <4> QED BY <1>1, <4>1, IntactTurn DEF k
    <3>2. extra = saved[k + 1]
      <4>1. saved \in Seq(Event) /\ k + 1 \in 1..Len(saved)
        BY <1>1, <1>4, <1>5, <2>1, IntactIs DEF FileTypes, n
      <4>2. saved[k + 1] \in Event
        BY <4>1
      <4> QED BY <3>1, <4>2 DEF Event, extra
    <3>3. ASSUME NEW j \in 1..Len(read') PROVE read'[j] = saved[j]
      <4>1. CASE j = k + 1
        BY <1>5, <3>2, <4>1
      <4>2. CASE j # k + 1
        <5>1. j \in 1..k /\ j <= n
          BY <1>4, <1>5, <2>1, <4>2
        <5> QED BY <1>5, <1>6, <5>1
      <4> QED BY <4>1, <4>2
    <3>4. Behind(n)'
      BY <1>2, <1>5, <3>1 DEF Behind, Until
    <3>5. ~(Len(read') > n)
      BY <1>4, <1>5, <2>1
    <3> QED BY <1>2, <1>4, <3>3, <3>4, <3>5 DEF Loading, Behind
  <2>2. CASE k >= n
    <3>1. ASSUME NEW j \in 1..Len(read'), j <= n PROVE read'[j] = saved[j]
      <4>1. j \in 1..k
        BY <1>4, <1>5, <2>2, <3>1
      <4> QED BY <1>5, <1>6, <3>1, <4>1
    <3>2. ~(Len(read') <= n)
      BY <1>4, <1>5, <2>2
    <3>3. ASSUME ~oldTail, all
          PROVE  eof' /\ Len(read') = n + 1 /\ Damaged(n, read'[Len(read')])
      <4>1. k = n
        BY <1>1, <1>4, <1>5, <1>6, <2>2, <3>3
      <4>2. Len(read) = Intact /\ Behind(Intact)
        BY <1>4, <1>6, <4>1 DEF n, k
      <4>3. \A j \in DOMAIN saved : Readable(saved[j])
        BY <3>3
      <4>4. eof' = TRUE /\ Damaged(n, extra)
        BY <1>1, <3>3, <4>2, <4>3, DamagedTurn DEF n, extra
      <4> QED BY <1>5, <4>1, <4>4
    <3>4. ASSUME ~oldTail', all'
          PROVE  eof' /\ Len(read') = n + 1 /\ Damaged(n, read[Len(read)])'
      <4>1. eof' /\ Len(read') = n + 1 /\ Damaged(n, read'[Len(read')])
        BY <1>2, <3>3, <3>4
      <4> QED BY <1>2, <1>4, <4>1 DEF Damaged, n
    <3> QED BY <1>2, <1>4, <3>1, <3>2, <3>4 DEF Loading, n
  <2> QED BY <1>4, <1>5, <2>1, <2>2
<1> QED BY <1>2, <1>3, <1>7 DEF FileInv

(* The actions of the rest of the program.                                 *)

LEMMA QueueIsBytes ==
    ASSUME queue \in Seq(Event)
    PROVE  Content(queue) \in Seq(Byte)
<1>1. Len(queue) \in 0..Len(queue)
  OBVIOUS
<1> QED BY <1>1, UntilIsBytes, UntilGrows

(* The first n bytes of a text over an old one, that may be removed.       *)
IsOver(f, c, n, gone, old) ==
    /\ n <= Len(f) /\ \A i \in 1..n : f[i] = c[i]
    /\ gone \/ Len(old) <= n => Len(f) = n

LEMMA Overwritten ==
    ASSUME NEW S, NEW c \in Seq(S), NEW old \in Seq(S), NEW n \in 0..Len(c),
           NEW gone \in BOOLEAN
    PROVE  LET f == SubSeq(c, 1, n) \o (IF gone THEN <<>> ELSE SubSeq(old, n + 1, Len(old)))
           IN  f \in Seq(S) /\ IsOver(f, c, n, gone, old)
<1> DEFINE s == SubSeq(c, 1, n)
           t == IF gone THEN <<>> ELSE SubSeq(old, n + 1, Len(old))
           f == s \o t
<1>1. n \in Nat /\ Len(old) \in Nat
  OBVIOUS
<1>2. s \in Seq(S) /\ Len(s) = n /\ \A i \in 1..n : s[i] = c[i]
  BY <1>1
<1>3. t \in Seq(S)
  <2>1. <<>> \in Seq(S) /\ SubSeq(old, n + 1, Len(old)) \in Seq(S)
    BY <1>1
  <2> QED BY <2>1
<1>4. gone \/ Len(old) <= n => Len(t) = 0
  <2>1. CASE gone
    BY <2>1
  <2>2. CASE ~gone /\ Len(old) <= n
    <3>1. SubSeq(old, n + 1, Len(old)) = <<>>
      BY <1>1, <2>2
    <3> QED BY <2>2, <3>1
  <2> QED BY <2>1, <2>2
<1> HIDE DEF s, t
<1>5. f \in Seq(S) /\ IsJoined(f, s, t)
  BY <1>2, <1>3, Joined
<1> HIDE DEF f
<1>6. Len(f) = n + Len(t) /\ Len(t) \in Nat /\ \A i \in 1..n : f[i] = s[i]
  BY <1>2, <1>5 DEF IsJoined
<1>7. IsOver(f, c, n, gone, old)
  BY <1>1, <1>2, <1>4, <1>6 DEF IsOver
<1> QED BY <1>5, <1>7 DEF f, s, t

LEMMA SyncKeeps ==
    ASSUME FileInv, NEW n \in 0..Len(Content(queue)), NEW unlinked \in BOOLEAN,
           Sync(n, unlinked)
    PROVE  FileInv'
<1> DEFINE c == Content(queue)
<1>1. FileTypes /\ phase = "run"
  BY DEF FileInv, Sync
<1>2. file \in Seq(Byte) /\ queue \in Seq(Event) /\ Len(file) \in Nat
  BY <1>1 DEF FileTypes
<1>3. c \in Seq(Byte) /\ n \in 0..Len(c) /\ n \in Nat
  BY <1>2, QueueIsBytes
<1>4. /\ file' = SubSeq(c, 1, n) \o (IF unlinked THEN <<>> ELSE SubSeq(file, n + 1, Len(file)))
      /\ saved' = queue /\ written' = n /\ oldTail' = (~unlinked /\ Len(file) > n)
      /\ UNCHANGED <<phase, queue, pos, eof, rk, msg, read>>
  BY DEF Sync, stream
<1>5. Content(saved') = c
  BY <1>4
<1> HIDE DEF c
<1>6. file' \in Seq(Byte) /\ IsOver(file', c, n, unlinked, file)
  BY <1>2, <1>3, <1>4, Overwritten
<1>7. FileTypes'
  BY <1>1, <1>3, <1>4, <1>6 DEF FileTypes
<1>8. Begins'
  <2>1. Len(file') \in Nat /\ Len(c) \in Nat
    BY <1>3, <1>6
  <2>2. written' <= Len(file') /\ written' <= Len(Content(saved'))
    <3>1. n <= Len(c) /\ n <= Len(file')
      BY <1>3, <1>6 DEF IsOver
    <3> QED BY <1>4, <1>5, <3>1
  <2>3. \A i \in 1..written' : file'[i] = Content(saved')[i]
    BY <1>4, <1>5, <1>6 DEF IsOver
  <2>4. ~oldTail' => unlinked \/ Len(file) <= n
    <3>1. ~oldTail' => unlinked \/ ~(Len(file) > n)
      BY <1>4, Zenon
    <3> QED BY <1>2, <1>3, <3>1
  <2>5. ~oldTail' => written' = Len(file')
    BY <1>4, <1>6, <2>4 DEF IsOver
  <2> QED BY <2>2, <2>3, <2>5 DEF Begins
<1>9. phase' = "run"
  BY <1>1, <1>4
<1> QED BY <1>7, <1>8, <1>9 DEF FileInv

LEMMA PushKeeps ==
    ASSUME FileInv, NEW e \in NewEvents, Push(e)
    PROVE  FileInv'
<1>1. FileTypes /\ Begins /\ phase = "run" /\ queue' = Append(queue, e)
      /\ UNCHANGED <<phase, file, saved, written, oldTail, pos, eof, rk, msg, read>>
  BY DEF FileInv, Push, disk, stream
<1>2. e \in Event
  BY FileAssumption
<1>3. queue' \in Seq(Event)
  BY <1>1, <1>2 DEF FileTypes
<1>4. FileTypes'
  BY <1>1, <1>3 DEF FileTypes
<1>5. Begins' /\ phase' = "run"
  BY <1>1 DEF Begins
<1> QED BY <1>4, <1>5 DEF FileInv

LEMMA PopKeeps ==
    ASSUME FileInv, Pop
    PROVE  FileInv'
<1>1. FileTypes /\ Begins /\ phase = "run" /\ queue # <<>> /\ queue' = Tail(queue)
      /\ UNCHANGED <<phase, file, saved, written, oldTail, pos, eof, rk, msg, read>>
  BY DEF FileInv, Pop, disk, stream
<1>2. queue' \in Seq(Event)
  BY <1>1 DEF FileTypes
<1>3. FileTypes'
  BY <1>1, <1>2 DEF FileTypes
<1>4. Begins' /\ phase' = "run"
  BY <1>1 DEF Begins
<1> QED BY <1>3, <1>4 DEF FileInv

(* The loop begins: nothing is read and the stream is at the first byte.   *)
LEMMA NothingReadYet ==
    ASSUME saved \in Seq(Event), written \in Nat, read = <<>>, pos = 0, eof = FALSE
    PROVE  Loading
<1>1. Intact \in Nat
  BY IntactIs
<1>2. Len(read) = 0 /\ Len(Until(saved, 0)) = 0
  BY UntilGrows
<1> HIDE DEF Intact
<1>3. Behind(Intact)
  BY <1>2 DEF Behind
<1> QED BY <1>1, <1>2, <1>3 DEF Loading

LEMMA StartKeeps ==
    ASSUME FileInv, Start
    PROVE  FileInv'
<1>1. FileTypes /\ Begins
      /\ phase' = "load" /\ queue' = <<>> /\ pos' = 0 /\ eof' = FALSE /\ read' = <<>>
      /\ rk' \in Garbage /\ msg' \in Garbage
      /\ UNCHANGED <<file, saved, written, oldTail>>
  BY DEF FileInv, Start, disk
<1>2. rk' \in Seq(Byte) /\ msg' \in Seq(Byte)
  BY <1>1, FileAssumption
<1>3. FileTypes'
  <2>1. <<>> \in Seq(Event)
    OBVIOUS
  <2>2. queue' \in Seq(Event) /\ read' \in Seq(Event) /\ pos' \in Nat /\ eof' \in BOOLEAN
    BY <1>1, <2>1
  <2> QED BY <1>1, <1>2, <2>2 DEF FileTypes
<1>4. Begins'
  BY <1>1 DEF Begins
<1>5. Intact' = Intact /\ Intact \in Nat /\ Len(Until(saved, 0)) = 0
  BY <1>1, SameIntact, IntactIs, UntilGrows DEF FileTypes
<1>6. Loading'
  <2> HIDE DEF Intact
  <2>1. Len(read') = 0
    BY <1>1
  <2>2. Behind(Intact)'
    BY <1>1, <1>5, <2>1 DEF Behind, Until
  <2> QED BY <1>5, <2>1, <2>2 DEF Loading
<1> QED BY <1>3, <1>4, <1>6 DEF FileInv

LEMMA EndOfLoadKeeps ==
    ASSUME FileInv, EndOfLoad
    PROVE  FileInv'
<1>1. FileTypes /\ Begins
      /\ phase' = "run" /\ queue' = read /\ pos' = 0 /\ rk' = <<>> /\ msg' = <<>> /\ read' = <<>>
      /\ UNCHANGED <<file, saved, written, oldTail, eof>>
  BY DEF FileInv, EndOfLoad, disk
<1>2. FileTypes'
  <2>1. /\ rk' \in Seq(Byte) /\ msg' \in Seq(Byte) /\ read' \in Seq(Event) /\ pos' \in Nat
        /\ queue' \in Seq(Event)
    BY <1>1 DEF FileTypes
  <2> QED BY <1>1, <2>1 DEF FileTypes
<1>3. Begins'
  BY <1>1 DEF Begins
<1> QED BY <1>1, <1>2, <1>3 DEF FileInv

LEMMA FileStutters ==
    ASSUME FileInv, UNCHANGED fileVars
    PROVE  FileInv'
<1>1. FileTypes /\ Begins /\ (phase = "load" => Loading)
      /\ UNCHANGED <<phase, queue, file, saved, written, oldTail, pos, eof, rk, msg, read>>
  BY DEF FileInv, fileVars, disk, stream
<1>2. FileTypes' /\ Begins'
  BY <1>1 DEF FileTypes, Begins
<1>3. Intact' = Intact
  BY <1>1, SameIntact
<1>4. Loading => Loading'
  BY <1>1, <1>3 DEF Loading, Behind, Until, Damaged
<1> QED BY <1>1, <1>2, <1>4 DEF FileInv

LEMMA FileStarts ==
    ASSUME FileInit
    PROVE  FileInv
<1>1. /\ phase = "load" /\ queue = <<>> /\ file = <<>> /\ saved = <<>>
      /\ written = 0 /\ oldTail = FALSE /\ pos = 0 /\ eof = FALSE
      /\ rk \in Garbage /\ msg \in Garbage /\ read = <<>>
  BY DEF FileInit
<1>2. rk \in Seq(Byte) /\ msg \in Seq(Byte)
  BY <1>1, FileAssumption
<1>3. FileTypes
  <2>1. queue \in Seq(Event) /\ read \in Seq(Event) /\ saved \in Seq(Event) /\ file \in Seq(Byte)
    BY <1>1
  <2> QED BY <1>1, <1>2, <2>1 DEF FileTypes
<1>4. Content(saved) \in Seq(Byte) /\ Len(Content(saved)) \in Nat
  <2>1. queue \in Seq(Event)
    BY <1>1
  <2>2. Content(queue) \in Seq(Byte)
    BY <2>1, QueueIsBytes
  <2> QED BY <1>1, <2>2
<1>5. Begins
  BY <1>1, <1>4 DEF Begins
<1>6. saved \in Seq(Event) /\ written \in Nat
  BY <1>3 DEF FileTypes
<1>7. Loading
  BY <1>1, <1>6, NothingReadYet
<1> QED BY <1>3, <1>5, <1>7 DEF FileInv

-----------------------------------------------------------------------------
(* The theorems.                                                           *)

LEMMA FileStep ==
    ASSUME FileInv, [FileNext]_fileVars
    PROVE  FileInv'
<1>1. CASE \E n \in 0..Len(Content(queue)), unlinked \in BOOLEAN : Sync(n, unlinked)
  BY <1>1, SyncKeeps
<1>2. CASE \E e \in NewEvents : Push(e)
  BY <1>2, PushKeeps
<1>3. CASE Pop
  BY <1>3, PopKeeps
<1>4. CASE Start
  BY <1>4, StartKeeps
<1>5. CASE ReadTwoLines
  BY <1>5, TurnKeeps
<1>6. CASE EndOfLoad
  BY <1>6, EndOfLoadKeeps
<1>7. CASE UNCHANGED fileVars
  BY <1>7, FileStutters
<1> QED BY <1>1, <1>2, <1>3, <1>4, <1>5, <1>6, <1>7, Zenon DEF FileNext

(***************************************************************************)
(* What holds at every place in n2a_csync, n2a_load and between them: the  *)
(* file begins with the bytes that the last save has written, and a load   *)
(* stands behind the bytes of the last event it has read, with the key and *)
(* the message of that event still in its buffers, as long as the events   *)
(* of the file are whole.                                                  *)
(***************************************************************************)
THEOREM FileInvariance == FileSpec => []FileInv
<1>1. FileInit => FileInv
  BY FileStarts
<1>2. FileInv /\ [FileNext]_fileVars => FileInv'
  BY FileStep
<1> QED BY <1>1, <1>2, PTL DEF FileSpec

(***************************************************************************)
(* The events that reached the file whole are read back first, unchanged   *)
(* and in order, whatever stopped the save, whatever the file held before  *)
(* and whatever an uninitialised buffer held (n2a_load, src/fifo.c).       *)
(***************************************************************************)
THEOREM IntactEventsAreRead == FileSpec => []IntactEventsRead
<1>1. FileInv => IntactEventsRead
  <2> SUFFICES ASSUME FileInv, phase = "load"
               PROVE  /\ \A j \in 1..Len(read) : j <= Intact => read[j] = saved[j]
                      /\ eof => Len(read) >= Intact
    BY DEF IntactEventsRead
  <2>1. FileTypes /\ Loading
    BY DEF FileInv
  <2>2. Intact \in Nat /\ Len(read) \in Nat
    BY <2>1, IntactIs DEF FileTypes
  <2>3. Len(read) <= Intact => ~eof
    BY <2>1 DEF Loading, Behind
  <2> QED BY <2>1, <2>2, <2>3 DEF Loading
<1> QED BY <1>1, FileInvariance, PTL

(***************************************************************************)
(* When every event can be read and the old file is gone, a load makes     *)
(* exactly one event more than were written whole, and that one is a       *)
(* mixture of its neighbours (the feof that n2a_load looks at too late).   *)
(***************************************************************************)
THEOREM OneEventIsDamaged == FileSpec => []OneDamagedEvent
<1>1. FileInv => OneDamagedEvent
  <2> SUFFICES ASSUME FileInv, phase = "load", eof, ~oldTail,
                      \A j \in DOMAIN saved : Readable(saved[j])
               PROVE  Len(read) = Intact + 1 /\ Damaged(Intact, read[Len(read)])
    BY DEF OneDamagedEvent
  <2>1. FileTypes /\ Loading
    BY DEF FileInv
  <2>2. Intact \in Nat /\ Len(read) \in Nat
    BY <2>1, IntactIs DEF FileTypes
  <2>3. ~(Len(read) <= Intact)
    BY <2>1 DEF Loading, Behind
  <2>4. Len(read) > Intact
    BY <2>2, <2>3
  <2> QED BY <2>1, <2>4 DEF Loading
<1> QED BY <1>1, FileInvariance, PTL
=============================================================================
