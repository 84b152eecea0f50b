----------------------------- MODULE MCFifoList -----------------------------
(* FifoList and CacheFile for TLC, side by side: the queue in memory and   *)
(* its file.  Only one of them moves in a behaviour.                       *)
EXTENDS FifoList, CacheFile

CONSTANTS n1, n2, n3, n4, n5

Nodes == {n1, n2, n3, n4, n5}

VARIABLE part

(* Every character differs from every other.  With a buffer of 5 the       *)
(* longest line that fits has 3 of them: one event is too long.  What is   *)
(* in a buffer may hold a new line.                                         *)
MCNewLine == <<0, 0>>
Characters == {<<id, j>> : id \in 0..6, j \in 1..4} \cup {MCNewLine}
Word(id, n) == [j \in 1..n |-> <<id, j>>]
EventWith(id, n, m) == [rk |-> Word(id, n), msg |-> Word(id + 1, m)]

MCGarbage   == {<<>>, Word(0, 1) \o <<MCNewLine>> \o Word(0, 1)}
MCNewEvents == {EventWith(1, 2, 2), EventWith(3, 1, 3), EventWith(5, 1, 4)}

MCInit == part \in {"list", "file"} /\ Init /\ FileInit

MCNext == \/ part = "list" /\ Next /\ UNCHANGED <<part, fileVars>>
          \/ part = "file" /\ FileNext /\ UNCHANGED <<part, vars>>

MCSpec == MCInit /\ [][MCNext]_<<part, fileVars, vars>>
=============================================================================
