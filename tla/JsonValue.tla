------------------------------ MODULE JsonValue ------------------------------
(***************************************************************************)
(* JSON objects and arrays as jansson keeps them (value.c, hashtable.c):   *)
(* an object is a hash table whose pairs form one list, in which the pairs *)
(* of a bucket stand together between its first and its last one; an array *)
(* is a table that grows; every value counts its references.               *)
(*                                                                         *)
(* A pointer to a pair is the key of the pair, the list a sequence of      *)
(* keys, and its head is Head_.  Memory is never short: a failing malloc   *)
(* in hashtable_do_rehash would leave a table without buckets.             *)
(***************************************************************************)
EXTENDS Integers, Sequences, SequencesExt, FiniteSets

CONSTANTS Key, Value,
          Hash,       \* hash_str: a natural number for every key
          Primes,     \* primes[]: the numbers of buckets, from small to large
          ArraySize,  \* cells of a new array (8)
          Nothing,    \* what is in memory that was not written
          MaxHeld,    \* bound: references of the caller to a value
          MaxItems    \* bound: items of an array

(* hashtable_do_rehash takes the next prime without looking whether there  *)
(* is one: the largest is above the number of keys.                        *)
ASSUME TableAssumption ==
    /\ IsFiniteSet(Key) /\ Hash \in [Key -> Nat]
    /\ Primes \in Seq(Nat \ {0}) /\ Primes # <<>>
    /\ Cardinality(Key) < Primes[Len(Primes)]
    /\ Nothing \notin Key \cup Value
    /\ ArraySize \in Nat

Head_ == Nothing

VARIABLES kind,   \* "object" or "array"
          table,  \* the object: [num, first, last, list, at]
          array,  \* the array: [entries, size, cells]
          refs,   \* the reference count of each value; 0 when it is freed
          held    \* of them the caller's

valuesVars == <<kind, table, array, refs, held>>

-----------------------------------------------------------------------------
(* The hash table.                                                         *)

Buckets(num) == 0..Primes[num] - 1

Emptied(num) == [num |-> num, list |-> <<>>, at |-> <<>>,
                 first |-> [b \in Buckets(num) |-> Head_],
                 last  |-> [b \in Buckets(num) |-> Head_]]

BucketOf(t, k) == Hash[k] % Primes[t.num]

IsEmpty(t, b) == t.first[b] = Head_ /\ t.last[b] = Head_

PlaceOf(t, k) == CHOOSE i \in 1..Len(t.list) : t.list[i] = k

(* hashtable_find_pair walks from the first pair of the bucket to the last.*)
Found(t, k) ==
    LET b == BucketOf(t, k) IN
    /\ ~IsEmpty(t, b)
    /\ \E a, i, z \in DOMAIN t.list :
          /\ t.list[a] = t.first[b] /\ t.list[z] = t.last[b] /\ t.list[i] = k
          /\ a <= i /\ i <= z

Get(t, k) == IF Found(t, k) THEN t.at[k] ELSE Nothing

Assigned(at, k, v) == [j \in DOMAIN at \cup {k} |-> IF j = k THEN v ELSE at[j]]

(* insert_to_bucket: at the end of the list, or in front of the bucket.    *)
InsertPair(t, k, v) ==
    LET b == BucketOf(t, k) IN
    IF IsEmpty(t, b)
    THEN [t EXCEPT !.list = Append(@, k), !.at = Assigned(@, k, v),
                   !.first[b] = k, !.last[b] = k]
    ELSE [t EXCEPT !.list = InsertAt(@, PlaceOf(t, t.first[b]), k),
                   !.at = Assigned(@, k, v), !.first[b] = k]

(* hashtable_do_rehash: the first i pairs of the list are in their buckets.*)
Rehash(t) ==
    LET moved[i \in 0..Len(t.list)] ==
            IF i = 0 THEN Emptied(t.num + 1)
            ELSE InsertPair(moved[i - 1], t.list[i], t.at[t.list[i]])
    IN  moved[Len(t.list)]

Grown(t) == IF Len(t.list) >= Primes[t.num] THEN Rehash(t) ELSE t

(* hashtable_set.                                                          *)
TableSet(t, k, v) == LET g == Grown(t)
                     IN  IF Found(g, k) THEN [g EXCEPT !.at[k] = v] ELSE InsertPair(g, k, v)

(* hashtable_clear: the number of buckets stays.                           *)
Cleared(t) == Emptied(t.num)

DeleteFirstOnly(t, k) ==   \* defect: last is not moved
    LET b == BucketOf(t, k) i == PlaceOf(t, k) IN
    [t EXCEPT !.list = RemoveAt(@, i), !.at = [j \in DOMAIN @ \ {k} |-> @[j]],
              !.first[b] = IF @ # k THEN @ ELSE IF t.last[b] = k THEN Head_ ELSE t.list[i + 1],
              !.last[b]  = IF @ = k /\ t.first[b] = k THEN Head_ ELSE @]

(* hashtable_do_del, of a key that is there.                               *)
DeletePair(t, k) ==
    LET b == BucketOf(t, k) i == PlaceOf(t, k)
        alone == t.first[b] = k /\ t.last[b] = k
    IN  [t EXCEPT !.list = RemoveAt(@, i), !.at = [j \in DOMAIN @ \ {k} |-> @[j]],
                  !.first[b] = IF alone THEN Head_ ELSE IF @ = k THEN t.list[i + 1] ELSE @,
                  !.last[b]  = IF alone THEN Head_ ELSE IF @ = k THEN t.list[i - 1] ELSE @]

-----------------------------------------------------------------------------
(* References: a count of 0 frees the value.                               *)

Incref(r, v) == [r EXCEPT ![v] = @ + 1]
Decref(r, v) == [r EXCEPT ![v] = @ - 1]

(* How often v is among the values of a sequence or another function.      *)
Count(f, v) == Cardinality({x \in DOMAIN f : f[x] = v})

(* One reference less for each time a value is among them.                 *)
DecrefAll(r, values) == [v \in DOMAIN r |-> r[v] - Count(values, v)]

(* json_object_set, json_array_append... take a reference of their own,    *)
(* the _new variants take the caller's.                                    *)
Taking(v, new) == /\ held[v] > 0
                  /\ held' = IF new THEN Decref(held, v) ELSE held

Taken(v, new) == IF new THEN refs ELSE Incref(refs, v)

-----------------------------------------------------------------------------
(* Values.                                                                 *)

NewArray == [entries |-> 0, size |-> ArraySize,
             cells |-> [i \in 0..ArraySize - 1 |-> Nothing]]

ValuesInit == /\ kind \in {"object", "array"}
              /\ table = Emptied(1) /\ array = NewArray
              /\ refs = [v \in Value |-> 0] /\ held = [v \in Value |-> 0]

(* json_string_nocheck, json_integer, json_real.                           *)
New(v) == /\ refs[v] = 0
          /\ refs' = [refs EXCEPT ![v] = 1] /\ held' = [held EXCEPT ![v] = 1]
          /\ UNCHANGED <<kind, table, array>>

Retain(v) == /\ held[v] \in 1..MaxHeld - 1
             /\ refs' = Incref(refs, v) /\ held' = Incref(held, v)
             /\ UNCHANGED <<kind, table, array>>

(* json_decref by the caller.  A call that refuses its value does the same.*)
Release(v) == /\ held[v] > 0
              /\ refs' = Decref(refs, v) /\ held' = Decref(held, v)
              /\ UNCHANGED <<kind, table, array>>

-----------------------------------------------------------------------------
(* Objects.                                                                *)

ObjectSet(k, v, new) ==
    /\ kind = "object" /\ Taking(v, new)
    /\ LET old == Get(Grown(table), k)
       IN  refs' = IF old = Nothing THEN Taken(v, new) ELSE Decref(Taken(v, new), old)
    /\ table' = TableSet(table, k, v)
    /\ UNCHANGED <<kind, array>>

ObjectDel(k) == /\ kind = "object" /\ Found(table, k)
                /\ refs' = Decref(refs, table.at[k])
                /\ table' = DeletePair(table, k)
                /\ UNCHANGED <<kind, array, held>>

(* The values along the list.                                              *)
Members == [i \in DOMAIN table.list |-> table.at[table.list[i]]]

ObjectClear == /\ kind = "object"
               /\ refs' = DecrefAll(refs, Members)
               /\ table' = Cleared(table)
               /\ UNCHANGED <<kind, array, held>>

-----------------------------------------------------------------------------
(* Arrays.                                                                 *)

Items == [i \in 1..array.entries |-> array.cells[i - 1]]

Larger(a, b) == IF a > b THEN a ELSE b

(* json_array_grow, by one.                                                *)
Room(a) == IF a.entries < a.size THEN a
           ELSE LET size == Larger(a.size + 1, a.size * 2)
                IN  [entries |-> a.entries, size |-> size,
                     cells |-> [i \in 0..size - 1 |->
                                   IF i < a.size THEN a.cells[i] ELSE Nothing]]

(* array_move: n cells from place src to place dest.  What is read behind  *)
(* the last cell is anything.                                              *)
Move(cells, dest, src, n) ==
    [i \in DOMAIN cells |->
        IF i \notin dest..dest + n - 1 THEN cells[i]
        ELSE IF i - dest + src \in DOMAIN cells THEN cells[i - dest + src] ELSE Nothing]

ArrayAppend(v, new) ==
    /\ kind = "array" /\ array.entries < MaxItems /\ Taking(v, new)
    /\ LET a == Room(array)
       IN  array' = [a EXCEPT !.cells[a.entries] = v, !.entries = @ + 1]
    /\ refs' = Taken(v, new)
    /\ UNCHANGED <<kind, table>>

(* json_array_insert_new: what has to move is copied when the table grows. *)
ArrayInsert(i, v, new) ==
    /\ kind = "array" /\ i <= array.entries /\ array.entries < MaxItems
    /\ Taking(v, new)
    /\ LET a == Room(array)
           moved == Move(a.cells, i + 1, i, a.entries - i)
       IN  array' = [a EXCEPT !.cells = [moved EXCEPT ![i] = v], !.entries = @ + 1]
    /\ refs' = Taken(v, new)
    /\ UNCHANGED <<kind, table>>

ArraySet(i, v, new) ==
    /\ kind = "array" /\ i < array.entries /\ Taking(v, new)
    /\ refs' = Decref(Taken(v, new), array.cells[i])
    /\ array' = [array EXCEPT !.cells[i] = v]
    /\ UNCHANGED <<kind, table>>

(* json_array_remove moves one cell more than there is behind the item.    *)
ArrayRemove(i) ==
    /\ kind = "array" /\ i < array.entries
    /\ refs' = Decref(refs, array.cells[i])
    /\ array' = [array EXCEPT !.cells = Move(@, i, i + 1, array.entries - i),
                              !.entries = @ - 1]
    /\ UNCHANGED <<kind, table, held>>

ArrayClear == /\ kind = "array"
              /\ refs' = DecrefAll(refs, Items)
              /\ array' = [array EXCEPT !.entries = 0]
              /\ UNCHANGED <<kind, table, held>>

-----------------------------------------------------------------------------
(* The last reference to the container is given up, and another is made:   *)
(* json_delete_object and json_delete_array release what is in it.         *)
Renew == /\ refs' = DecrefAll(DecrefAll(refs, Members), Items)
         /\ kind' \in {"object", "array"}
         /\ table' = Emptied(1) /\ array' = NewArray
         /\ UNCHANGED held

ValuesNext ==
    \/ \E v \in Value : New(v) \/ Retain(v) \/ Release(v)
    \/ \E k \in Key, v \in Value, new \in BOOLEAN : ObjectSet(k, v, new)
    \/ \E k \in Key : ObjectDel(k)
    \/ ObjectClear
    \/ \E i \in 0..MaxItems, v \in Value, new \in BOOLEAN :
          ArrayInsert(i, v, new) \/ ArraySet(i, v, new)
    \/ \E i \in 0..MaxItems : ArrayRemove(i)
    \/ \E v \in Value, new \in BOOLEAN : ArrayAppend(v, new)
    \/ ArrayClear
    \/ Renew

ValuesSpec == ValuesInit /\ [][ValuesNext]_valuesVars

-----------------------------------------------------------------------------
(* Properties.                                                             *)

(***************************************************************************)
(* The container that the messages are built with: whatever is set,        *)
(* deleted and grown, every name is found by its bucket exactly while it   *)
(* is a member, the list that json_dumps follows has each member once, the *)
(* items stay in their order, and a value is freed when and only when      *)
(* neither the caller nor a container holds it.                            *)
(***************************************************************************)
Container ==
    INSTANCE JsonContainer
      WITH members <- [k \in ToSet(table.list) |-> Get(table, k)],
           items   <- Items,
           alive   <- {v \in Value : refs[v] # 0}

ImplementsContainer == Container!Spec
=============================================================================
