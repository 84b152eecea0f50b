---------------------------- MODULE JsonContainer ----------------------------
(***************************************************************************)
(* What a JSON object or array promises to the code that builds messages   *)
(* (src/json.c): an object is a map from names to values, an array a       *)
(* sequence of them, and a value lives as long as somebody holds it: the   *)
(* container or the caller.                                                *)
(***************************************************************************)
EXTENDS Integers, Sequences, SequencesExt

CONSTANTS Key, Value

VARIABLES members,  \* of the object
          items,    \* of the array
          held,     \* how many references the caller has to each value
          alive     \* the values that are not freed

vars == <<members, items, held, alive>>

NobodyHolds == [v \in Value |-> 0]

Init == /\ members = <<>> /\ items = <<>>
        /\ held = NobodyHolds /\ alive = {}

Become(m, s, h) == /\ members' = m /\ items' = s /\ held' = h
                   /\ alive' = Range(m) \cup Range(s) \cup {v \in Value : h[v] > 0}

Kept(v)    == held
Given(v)   == [held EXCEPT ![v] = @ - 1]   \* the container takes the caller's reference

Assigned(k, v) == [j \in DOMAIN members \cup {k} |-> IF j = k THEN v ELSE members[j]]
Without(k) == [j \in DOMAIN members \ {k} |-> members[j]]

New(v)     == v \notin alive /\ Become(members, items, [held EXCEPT ![v] = 1])
Retain(v)  == held[v] > 0 /\ Become(members, items, [held EXCEPT ![v] = @ + 1])
Release(v) == held[v] > 0 /\ Become(members, items, Given(v))

(* A value is put in a container, with the caller's reference or without.  *)
Put(v, h) ==
    /\ held[v] > 0 /\ h \in {Kept(v), Given(v)}
    /\ \/ \E k \in Key : Become(Assigned(k, v), items, h)
       \/ \E i \in 1..Len(items) + 1 : Become(members, InsertAt(items, i, v), h)
       \/ \E i \in 1..Len(items) : Become(members, [items EXCEPT ![i] = v], h)

Take == \/ \E k \in DOMAIN members : Become(Without(k), items, held)
        \/ \E i \in 1..Len(items) : Become(members, RemoveAt(items, i), held)
        \/ Become(<<>>, <<>>, held)

Next == \/ \E v \in Value : New(v) \/ Retain(v) \/ Release(v)
                             \/ Put(v, Kept(v)) \/ Put(v, Given(v))
        \/ Take

Spec == Init /\ [][Next]_vars
=============================================================================
