--------------------------- MODULE JsonValueProofs ---------------------------
(***************************************************************************)
(* Theorems about JsonValue: the hash table finds exactly what was put     *)
(* into it, and values, containers and references are those of the         *)
(* abstract container.                                                     *)
(***************************************************************************)
EXTENDS JsonValue, NaturalSets, SequenceTheorems, FiniteSetTheorems

-----------------------------------------------------------------------------
(* The inductive invariant.                                                *)

KeyOrHead == Key \cup {Head_}

(* What is in the fields of a table.                                       *)
TableShape(t) ==
    /\ t = [num |-> t.num, first |-> t.first, last |-> t.last, list |-> t.list, at |-> t.at]
    /\ t.num \in 1..Len(Primes)
    /\ t.list \in Seq(Key)
    /\ t.at \in [ToSet(t.list) -> Value]
    /\ t.first \in [Buckets(t.num) -> KeyOrHead]
    /\ t.last \in [Buckets(t.num) -> KeyOrHead]

(* Every pair is in the list once.                                         *)
Once(list) == \A i, j \in 1..Len(list) : list[i] = list[j] => i = j

(* The pairs of bucket b stand at the places from a to z of the list.      *)
Run(t, b, a, z) ==
    /\ a \in 1..Len(t.list) /\ z \in 1..Len(t.list) /\ a <= z
    /\ t.list[a] = t.first[b] /\ t.list[z] = t.last[b]
    /\ \A i \in 1..Len(t.list) : BucketOf(t, t.list[i]) = b <=> a <= i /\ i <= z

NoPair(t, b) ==
    /\ t.first[b] = Head_ /\ t.last[b] = Head_
    /\ \A i \in 1..Len(t.list) : BucketOf(t, t.list[i]) # b

BucketOk(t, b) == NoPair(t, b) \/ \E a, z \in 1..Len(t.list) : Run(t, b, a, z)

TableOk(t) ==
    /\ TableShape(t)
    /\ Once(t.list)
    /\ \A b \in Buckets(t.num) : BucketOk(t, b)

CellsOk(a) ==
    /\ a = [entries |-> a.entries, size |-> a.size, cells |-> a.cells]
    /\ a.entries \in Nat /\ a.size \in Nat /\ a.entries <= a.size
    /\ a.cells \in [0..a.size - 1 -> Value \cup {Nothing}]
    /\ \A i \in 0..a.entries - 1 : a.cells[i] \in Value

ArrayOk == CellsOk(array)

(* Every reference is the caller's or that of a place in a container.      *)
CountsAgree ==
    \A v \in Value : refs[v] = held[v] + Count(table.at, v) + Count(Items, v)

(* Only one of the two containers is there.                                *)
OneKind ==
    /\ kind \in {"object", "array"}
    /\ kind = "array" => table.list = <<>>
    /\ kind = "object" => array.entries = 0

ValuesInv ==
    /\ OneKind
    /\ TableOk(table)
    /\ ArrayOk
    /\ held \in [Value -> Nat] /\ refs \in [Value -> Nat]
    /\ CountsAgree

-----------------------------------------------------------------------------
(* Counting.                                                               *)

LEMMA CountIsNatural ==
    ASSUME NEW f, IsFiniteSet(DOMAIN f), NEW v
    PROVE  /\ IsFiniteSet({x \in DOMAIN f : f[x] = v})
           /\ Count(f, v) \in Nat
           /\ Count(f, v) = 0 <=> \A x \in DOMAIN f : f[x] # v
<1>1. IsFiniteSet({x \in DOMAIN f : f[x] = v})
  BY FS_Subset
<1> QED BY <1>1, FS_CardinalityType, FS_EmptySet DEF Count

LEMMA CountNothing ==
    ASSUME NEW f, DOMAIN f = {}, NEW v
    PROVE  Count(f, v) = 0
<1>1. {x \in DOMAIN f : f[x] = v} = {}
  OBVIOUS
<1> QED BY <1>1, FS_EmptySet DEF Count

(* g has one more place than f, k.                                         *)
OneMore(f, g, k) ==
    /\ k \notin DOMAIN f /\ DOMAIN g = DOMAIN f \cup {k}
    /\ \A x \in DOMAIN f : g[x] = f[x]

LEMMA CountMore ==
    ASSUME NEW f, NEW g, NEW k, NEW v, IsFiniteSet(DOMAIN f), OneMore(f, g, k)
    PROVE  Count(g, v) = Count(f, v) + (IF g[k] = v THEN 1 ELSE 0)
<1> DEFINE F == {x \in DOMAIN f : f[x] = v}
           G == {x \in DOMAIN g : g[x] = v}
<1>1. IsFiniteSet(F) /\ Cardinality(F) \in Nat
  BY CountIsNatural, FS_CardinalityType
<1>2. Count(f, v) = Cardinality(F) /\ Count(g, v) = Cardinality(G)
  BY Zenon DEF Count
<1>3. CASE g[k] = v
  <2>1. G = F \cup {k} /\ k \notin F
    BY <1>3 DEF OneMore
  <2> HIDE DEF F, G
  <2>2. Cardinality(F \cup {k}) = Cardinality(F) + 1
    BY <1>1, <2>1, FS_AddElement
  <2> QED BY <1>2, <1>3, <2>1, <2>2
<1>4. CASE g[k] # v
  <2>1. G = F
    BY <1>4 DEF OneMore
  <2> HIDE DEF F, G
  <2> QED BY <1>1, <1>2, <1>4, <2>1
<1> QED BY <1>3, <1>4

(* Another value at one place.                                             *)
LEMMA CountChanged ==
    ASSUME NEW f, NEW g, NEW k \in DOMAIN f, NEW v, IsFiniteSet(DOMAIN f),
           DOMAIN g = DOMAIN f, \A x \in DOMAIN f \ {k} : g[x] = f[x]
    PROVE  Count(g, v) = Count(f, v) - (IF f[k] = v THEN 1 ELSE 0)
                                     + (IF g[k] = v THEN 1 ELSE 0)
<1> DEFINE h == [x \in DOMAIN f \ {k} |-> f[x]]
<1>1. IsFiniteSet(DOMAIN h) /\ DOMAIN h = DOMAIN f \ {k}
  BY FS_Subset
<1>2. OneMore(h, f, k) /\ OneMore(h, g, k)
  BY DEF OneMore
<1> HIDE DEF h
<1>3. Count(h, v) \in Nat
  BY <1>1, CountIsNatural
<1>4. Count(f, v) = Count(h, v) + (IF f[k] = v THEN 1 ELSE 0)
  BY <1>1, <1>2, CountMore
<1>5. Count(g, v) = Count(h, v) + (IF g[k] = v THEN 1 ELSE 0)
  BY <1>1, <1>2, CountMore
<1> QED BY <1>3, <1>4, <1>5

(* The same values at other places.                                        *)
LEMMA CountMoved ==
    ASSUME NEW f, NEW g, NEW v, IsFiniteSet(DOMAIN f),
           NEW b \in [DOMAIN f -> DOMAIN g],
           \A x, y \in DOMAIN f : b[x] = b[y] => x = y,
           \A y \in DOMAIN g : \E x \in DOMAIN f : b[x] = y,
           \A x \in DOMAIN f : g[b[x]] = f[x]
    PROVE  Count(g, v) = Count(f, v)
<1> DEFINE F == {x \in DOMAIN f : f[x] = v}
           G == {x \in DOMAIN g : g[x] = v}
           c == [x \in F |-> b[x]]
<1>1. c \in [F -> G]
  OBVIOUS
<1>2. \A x, y \in F : c[x] = c[y] => x = y
  OBVIOUS
<1>3. \A y \in G : \E x \in F : c[x] = y
  OBVIOUS
<1> HIDE DEF c
<1>4. c \in Injection(F, G)
  BY <1>1, <1>2, Zenon DEF Injection, IsInjective
<1>5. c \in Surjection(F, G)
  BY <1>1, <1>3, Zenon DEF Surjection
<1>6. ExistsBijection(F, G)
  BY <1>4, <1>5, Zenon DEF ExistsBijection, Bijection
<1>7. IsFiniteSet(F)
  BY FS_Subset
<1> QED BY <1>6, <1>7, FS_Bijection, Zenon DEF Count

-----------------------------------------------------------------------------
(* A place is made in a sequence, or taken out of it.                      *)

(* w is s with e at place i and everything from there one place later.     *)
Inserted(w, s, i, e) ==
    /\ Len(w) = Len(s) + 1
    /\ \A j \in 1..Len(s) + 1 :
          w[j] = IF j < i THEN s[j] ELSE IF j = i THEN e ELSE s[j - 1]

(* w is s without its place i.                                             *)
Removed(w, s, i) ==
    /\ Len(w) = Len(s) - 1
    /\ \A j \in 1..Len(s) - 1 : w[j] = IF j < i THEN s[j] ELSE s[j + 1]

LEMMA InsertProperties ==
    ASSUME NEW S, NEW s \in Seq(S), NEW e \in S, NEW i \in 1..Len(s) + 1
    PROVE  InsertAt(s, i, e) \in Seq(S) /\ Inserted(InsertAt(s, i, e), s, i, e)
<1> DEFINE a == SubSeq(s, 1, i - 1)
           z == SubSeq(s, i, Len(s))
<1>1. a \in Seq(S) /\ Len(a) = i - 1 /\ \A j \in 1..i - 1 : a[j] = s[j]
  OBVIOUS
<1>2. z \in Seq(S) /\ Len(z) = Len(s) - i + 1 /\ \A j \in 1..Len(z) : z[j] = s[i + j - 1]
  OBVIOUS
<1> HIDE DEF a, z
<1> DEFINE w == a \o <<e>>
<1>3. w \in Seq(S) /\ Len(w) = i
  BY <1>1
<1>4. \A j \in 1..i : w[j] = IF j < i THEN s[j] ELSE e
  BY <1>1
<1>5. InsertAt(s, i, e) = w \o z
  BY DEF InsertAt, a, z
<1> HIDE DEF w
<1>6. /\ InsertAt(s, i, e) \in Seq(S)
      /\ Len(InsertAt(s, i, e)) = Len(s) + 1
  BY <1>2, <1>3, <1>5
<1>7. ASSUME NEW j \in 1..Len(s) + 1
      PROVE  InsertAt(s, i, e)[j] = IF j < i THEN s[j] ELSE IF j = i THEN e ELSE s[j - 1]
  <2>1. CASE j <= i
    <3>1. InsertAt(s, i, e)[j] = w[j]
      BY <1>2, <1>3, <1>5, <2>1
    <3> QED BY <1>4, <2>1, <3>1
  <2>2. CASE j > i
    <3>1. InsertAt(s, i, e)[j] = z[j - i]
      BY <1>2, <1>3, <1>5, <2>2, SMTT(20)
    <3> QED BY <1>2, <2>2, <3>1
  <2> QED BY <2>1, <2>2
<1> QED BY <1>6, <1>7 DEF Inserted

LEMMA RemoveProperties ==
    ASSUME NEW S, NEW s \in Seq(S), NEW i \in 1..Len(s)
    PROVE  RemoveAt(s, i) \in Seq(S) /\ Removed(RemoveAt(s, i), s, i)
<1> DEFINE a == SubSeq(s, 1, i - 1)
           z == SubSeq(s, i + 1, Len(s))
<1>1. a \in Seq(S) /\ Len(a) = i - 1 /\ \A j \in 1..i - 1 : a[j] = s[j]
  OBVIOUS
<1>2. z \in Seq(S) /\ Len(z) = Len(s) - i /\ \A j \in 1..Len(z) : z[j] = s[i + j]
  OBVIOUS
<1> HIDE DEF a, z
<1>3. RemoveAt(s, i) = a \o z
  BY DEF RemoveAt, a, z
<1>4. RemoveAt(s, i) \in Seq(S) /\ Len(RemoveAt(s, i)) = Len(s) - 1
  BY <1>1, <1>2, <1>3
<1>5. ASSUME NEW j \in 1..Len(s) - 1
      PROVE  RemoveAt(s, i)[j] = IF j < i THEN s[j] ELSE s[j + 1]
  <2>1. CASE j < i
    BY <1>1, <1>2, <1>3, <2>1
  <2>2. CASE j >= i
    <3>1. RemoveAt(s, i)[j] = z[j - (i - 1)]
      BY <1>1, <1>2, <1>3, <2>2
    <3> QED BY <1>2, <2>2, <3>1
  <2> QED BY <2>1, <2>2
<1> QED BY <1>4, <1>5 DEF Removed

LEMMA CountInsert ==
    ASSUME NEW S, NEW s \in Seq(S), NEW e \in S, NEW i \in 1..Len(s) + 1, NEW v
    PROVE  Count(InsertAt(s, i, e), v) = Count(s, v) + (IF e = v THEN 1 ELSE 0)
<1> DEFINE g == InsertAt(s, i, e)
           h == [j \in (1..Len(s) + 1) \ {i} |-> g[j]]
           b == [j \in 1..Len(s) |-> IF j < i THEN j ELSE j + 1]
<1>1. /\ DOMAIN g = 1..Len(s) + 1
      /\ \A j \in 1..Len(s) + 1 :
            g[j] = IF j < i THEN s[j] ELSE IF j = i THEN e ELSE s[j - 1]
  BY InsertProperties DEF Inserted
<1>2. DOMAIN s = 1..Len(s) /\ Len(s) \in Nat
  OBVIOUS
<1>3. IsFiniteSet(DOMAIN s)
  BY <1>2, FS_Interval
<1> HIDE DEF g
<1>4. DOMAIN h = (1..Len(s) + 1) \ {i}
  OBVIOUS
<1>5. b \in [DOMAIN s -> DOMAIN h]
  BY <1>2
<1>6. \A x, y \in DOMAIN s : b[x] = b[y] => x = y
  BY <1>2
<1>7. ASSUME NEW y \in DOMAIN h PROVE \E x \in DOMAIN s : b[x] = y
  <2>1. CASE y < i
    <3>1. y \in DOMAIN s /\ b[y] = y
      BY <1>2, <2>1
    <3> QED BY <3>1, Zenon
  <2>2. CASE y > i
    <3>1. y - 1 \in DOMAIN s /\ b[y - 1] = y
      BY <1>2, <2>2
    <3> QED BY <3>1, Zenon
  <2> QED BY <2>1, <2>2
<1>8. ASSUME NEW x \in DOMAIN s PROVE h[b[x]] = s[x]
  <2>1. CASE x < i
    BY <1>1, <1>2, <2>1
  <2>2. CASE x >= i
    BY <1>1, <1>2, <2>2
  <2> QED BY <1>2, <2>1, <2>2
<1>9. Count(h, v) = Count(s, v)
  <2> HIDE DEF h, b
  <2> QED BY <1>3, <1>5, <1>6, <1>7, <1>8, CountMoved
<1>10. Count(g, v) = Count(h, v) + (IF g[i] = v THEN 1 ELSE 0)
  <2>1. IsFiniteSet(1..Len(s) + 1)
    BY FS_Interval
  <2>2. IsFiniteSet(DOMAIN h)
    BY <2>1, FS_Subset
  <2>3. OneMore(h, g, i)
    BY <1>1 DEF OneMore
  <2> HIDE DEF h
  <2> QED BY <2>2, <2>3, CountMore
<1> QED BY <1>1, <1>9, <1>10 DEF g

LEMMA CountRemove ==
    ASSUME NEW S, NEW s \in Seq(S), NEW i \in 1..Len(s), NEW v
    PROVE  Count(RemoveAt(s, i), v) = Count(s, v) - (IF s[i] = v THEN 1 ELSE 0)
<1> DEFINE r == RemoveAt(s, i)
           e == s[i]
           g == InsertAt(r, i, e)
<1>1. /\ r \in Seq(S) /\ Len(r) = Len(s) - 1
      /\ \A j \in 1..Len(s) - 1 : r[j] = IF j < i THEN s[j] ELSE s[j + 1]
  BY RemoveProperties DEF Removed
<1> HIDE DEF r
<1>2. e \in S /\ i \in 1..Len(r) + 1
  BY <1>1
<1> HIDE DEF e
<1>3. /\ g \in Seq(S) /\ Len(g) = Len(r) + 1
      /\ \A j \in 1..Len(r) + 1 :
            g[j] = IF j < i THEN r[j] ELSE IF j = i THEN e ELSE r[j - 1]
  BY <1>1, <1>2, InsertProperties DEF Inserted
<1>4. Count(g, v) = Count(r, v) + (IF e = v THEN 1 ELSE 0)
  BY <1>1, <1>2, CountInsert
<1> HIDE DEF g
<1>5. g = s
  <2>1. Len(g) = Len(s)
    BY <1>1, <1>3
  <2>2. \A j \in 1..Len(s) : g[j] = s[j]
    <3> SUFFICES ASSUME NEW j \in 1..Len(s)
                 PROVE  g[j] = s[j]
      OBVIOUS
    <3>1. g[j] = IF j < i THEN r[j] ELSE IF j = i THEN e ELSE r[j - 1]
      BY <1>1, <1>3
    <3>2. CASE j < i
      <4>1. j \in 1..Len(s) - 1
        BY <3>2
      <4> QED BY <1>1, <3>1, <3>2, <4>1
    <3>3. CASE j = i
      BY <3>1, <3>3 DEF e
    <3>4. CASE j > i
      <4>1. j - 1 \in 1..Len(s) - 1 /\ ~(j - 1 < i) /\ (j - 1) + 1 = j
        BY <3>4
      <4> QED BY <1>1, <3>1, <3>4, <4>1
    <3> QED BY <3>2, <3>3, <3>4
  <2> QED BY <1>3, <2>1, <2>2, SeqEqual
<1>6. Count(r, v) \in Nat
  <2>1. DOMAIN r = 1..Len(r) /\ Len(r) \in Nat
    BY <1>1
  <2>2. IsFiniteSet(DOMAIN r)
    BY <2>1, FS_Interval
  <2> QED BY <2>2, CountIsNatural
<1> QED BY <1>4, <1>5, <1>6 DEF r, e

-----------------------------------------------------------------------------
(* The hash table.                                                         *)

LEMMA BucketsOfPrime ==
    ASSUME NEW n \in 1..Len(Primes), NEW k \in Key
    PROVE  /\ Primes[n] \in Nat \ {0}
           /\ Hash[k] % Primes[n] \in Buckets(n)
<1>1. Primes[n] \in Nat \ {0} /\ Hash[k] \in Nat
  BY TableAssumption
<1>2. \A h \in Nat, m \in Nat \ {0} : h % m \in 0..m - 1
  OBVIOUS
<1> QED BY <1>1, <1>2 DEF Buckets

LEMMA BucketOfKey ==
    ASSUME NEW t, TableShape(t), NEW k \in Key
    PROVE  BucketOf(t, k) \in Buckets(t.num)
BY BucketsOfPrime DEF BucketOf, TableShape

LEMMA HeadIsNoKey == Head_ \notin Key
BY TableAssumption DEF Head_

LEMMA EmptiedIsOk ==
    ASSUME NEW n \in 1..Len(Primes)
    PROVE  TableOk(Emptied(n)) /\ Emptied(n).list = <<>> /\ Emptied(n).num = n
<1> DEFINE t == Emptied(n)
<1>1. /\ t = [num |-> t.num, first |-> t.first, last |-> t.last, list |-> t.list, at |-> t.at]
      /\ t.num = n /\ t.list = <<>> /\ t.at = <<>>
      /\ t.first = [b \in Buckets(n) |-> Head_] /\ t.last = [b \in Buckets(n) |-> Head_]
  BY DEF Emptied
<1> HIDE DEF t
<1>2. t.list \in Seq(Key) /\ Len(t.list) = 0
  BY <1>1
<1>3. t.at \in [ToSet(t.list) -> Value]
  <2>1. ToSet(t.list) = {}
    BY <1>1 DEF ToSet
  <2> QED BY <1>1, <2>1
<1>4. TableShape(t)
  BY <1>1, <1>2, <1>3 DEF TableShape, KeyOrHead
<1>5. \A b \in Buckets(n) : NoPair(t, b)
  BY <1>1, <1>2 DEF NoPair
<1> QED BY <1>1, <1>2, <1>4, <1>5 DEF TableOk, BucketOk, Once, t

(* A bucket whose pointers are those of an empty one has no pair, and the  *)
(* pairs of any other stand together.                                      *)
LEMMA BucketCases ==
    ASSUME NEW t, TableOk(t), NEW b \in Buckets(t.num)
    PROVE  /\ IsEmpty(t, b) => NoPair(t, b)
           /\ ~IsEmpty(t, b) => \E a, z \in 1..Len(t.list) : Run(t, b, a, z)
<1>1. ASSUME NEW a, NEW z, Run(t, b, a, z) PROVE ~IsEmpty(t, b)
  <2>1. t.list[a] \in Key /\ t.list[a] = t.first[b]
    BY <1>1 DEF Run, TableOk, TableShape
  <2> QED BY <2>1, HeadIsNoKey DEF IsEmpty
<1>2. BucketOk(t, b)
  BY DEF TableOk
<1>3. NoPair(t, b) => IsEmpty(t, b)
  BY DEF NoPair, IsEmpty
<1> QED BY <1>1, <1>2, <1>3, Zenon DEF BucketOk

LEMMA PlaceIsUnique ==
    ASSUME NEW t, TableOk(t), NEW i \in 1..Len(t.list)
    PROVE  PlaceOf(t, t.list[i]) = i
<1>1. \A j \in 1..Len(t.list) : t.list[j] = t.list[i] => j = i
  BY DEF TableOk, Once
<1> QED BY <1>1 DEF PlaceOf

LEMMA FoundIsMember ==
    ASSUME NEW t, TableOk(t), NEW k \in Key
    PROVE  Found(t, k) <=> k \in ToSet(t.list)
<1> DEFINE b == BucketOf(t, k)
<1>1. DOMAIN t.list = 1..Len(t.list) /\ t.list \in Seq(Key)
  BY DEF TableOk, TableShape
<1>2. ASSUME Found(t, k) PROVE k \in ToSet(t.list)
  BY <1>2 DEF Found, ToSet
<1>3. ASSUME k \in ToSet(t.list) PROVE Found(t, k)
  <2>1. PICK i \in 1..Len(t.list) : t.list[i] = k
    BY <1>1, <1>3 DEF ToSet
  <2>2. b \in Buckets(t.num)
    BY BucketOfKey DEF TableOk
  <2>3. ~NoPair(t, b)
    BY <2>1 DEF NoPair
  <2>4. ~IsEmpty(t, b)
    BY <2>2, <2>3, BucketCases
  <2>5. PICK a, z \in 1..Len(t.list) : Run(t, b, a, z)
    BY <2>2, <2>4, BucketCases
  <2>6. t.list[a] = t.first[b] /\ t.list[z] = t.last[b] /\ a <= i /\ i <= z
    BY <2>1, <2>5 DEF Run
  <2> QED BY <1>1, <2>1, <2>4, <2>6 DEF Found
<1> QED BY <1>2, <1>3

-----------------------------------------------------------------------------
(* Inserting a pair whose key is not there.                                *)

(* The pairs of t and the pair of k and v.                                 *)
PairsWith(r, t, k, v) ==
    /\ ToSet(r.list) = ToSet(t.list) \cup {k}
    /\ r.at = Assigned(t.at, k, v)
    /\ r.num = t.num

LEMMA AtWithPair ==
    ASSUME NEW t, TableShape(t), NEW k \in Key, NEW v \in Value
    PROVE  Assigned(t.at, k, v) \in [ToSet(t.list) \cup {k} -> Value]
BY DEF TableShape, Assigned

LEMMA InsertIntoEmpty ==
    ASSUME NEW t, TableOk(t), NEW k \in Key, k \notin ToSet(t.list), NEW v \in Value,
           IsEmpty(t, BucketOf(t, k))
    PROVE  /\ TableOk(InsertPair(t, k, v))
           /\ PairsWith(InsertPair(t, k, v), t, k, v)
<1> DEFINE b == BucketOf(t, k)
           n == Len(t.list)
           r == InsertPair(t, k, v)
<1>1. TableShape(t) /\ t.list \in Seq(Key) /\ n \in Nat /\ DOMAIN t.list = 1..n
  BY DEF TableOk, TableShape
<1>2. b \in Buckets(t.num)
  BY <1>1, BucketOfKey
<1>3. r = [t EXCEPT !.list = Append(@, k), !.at = Assigned(@, k, v),
                    !.first[b] = k, !.last[b] = k]
  BY DEF InsertPair
<1>4. /\ r = [num |-> r.num, first |-> r.first, last |-> r.last, list |-> r.list, at |-> r.at]
      /\ r.num = t.num /\ r.list = Append(t.list, k) /\ r.at = Assigned(t.at, k, v)
      /\ r.first = [t.first EXCEPT ![b] = k] /\ r.last = [t.last EXCEPT ![b] = k]
  <2>1. t = [num |-> t.num, first |-> t.first, last |-> t.last, list |-> t.list, at |-> t.at]
    BY <1>1 DEF TableShape
  <2> QED BY <1>3, <2>1
<1> HIDE DEF r
<1>5. /\ r.list \in Seq(Key) /\ Len(r.list) = n + 1
      /\ \A i \in 1..n : r.list[i] = t.list[i]
      /\ r.list[n + 1] = k
  BY <1>1, <1>4
<1>6. ToSet(r.list) = ToSet(t.list) \cup {k}
  <2>1. DOMAIN r.list = 1..n + 1 /\ n \in Nat /\ DOMAIN t.list = 1..n
    BY <1>1, <1>5
  <2>2. ToSet(r.list) = {r.list[i] : i \in 1..n + 1} /\ ToSet(t.list) = {t.list[i] : i \in 1..n}
    BY <2>1, Zenon DEF ToSet
  <2>3. ASSUME NEW i \in 1..n + 1
        PROVE  r.list[i] \in {t.list[j] : j \in 1..n} \cup {k}
    <3>1. i \in 1..n \/ i = n + 1
      BY <2>1
    <3> QED BY <1>5, <3>1
  <2>4. ASSUME NEW i \in 1..n
        PROVE  t.list[i] \in {r.list[j] : j \in 1..n + 1}
    <3>1. i \in 1..n + 1
      BY <2>1
    <3> QED BY <1>5, <3>1
  <2>5. k \in {r.list[j] : j \in 1..n + 1}
    <3>1. n + 1 \in 1..n + 1
      BY <2>1
    <3> QED BY <1>5, <3>1
  <2> QED BY <2>2, <2>3, <2>4, <2>5
<1>7. TableShape(r)
  <2>1. r.at \in [ToSet(r.list) -> Value]
    <3>1. Assigned(t.at, k, v) \in [ToSet(t.list) \cup {k} -> Value]
      BY <1>1, AtWithPair, Zenon
    <3> QED BY <1>4, <1>6, <3>1, Zenon
  <2> QED BY <1>1, <1>2, <1>4, <1>5, <2>1 DEF TableShape, KeyOrHead
<1>8. \A i \in 1..n : t.list[i] # k
  BY <1>1 DEF ToSet
<1>9. Once(r.list)
  <2>1. \A i, j \in 1..n : t.list[i] = t.list[j] => i = j
    BY DEF Once, TableOk
  <2>2. n \in Nat /\ Len(r.list) = n + 1
    BY <1>1, <1>5
  <2> SUFFICES ASSUME NEW i \in 1..n + 1, NEW j \in 1..n + 1, r.list[i] = r.list[j]
               PROVE  i = j
    BY <2>2 DEF Once
  <2>3. CASE i \in 1..n /\ j \in 1..n
    BY <1>5, <2>1, <2>3
  <2>4. CASE i \in 1..n /\ j = n + 1
    BY <1>5, <1>8, <2>4
  <2>5. CASE i = n + 1 /\ j \in 1..n
    BY <1>5, <1>8, <2>5
  <2>6. (i \in 1..n \/ i = n + 1) /\ (j \in 1..n \/ j = n + 1)
    BY <2>2
  <2> QED BY <2>3, <2>4, <2>5, <2>6
<1>10. \A x : BucketOf(r, x) = BucketOf(t, x)
  BY <1>4 DEF BucketOf
<1>11. NoPair(t, b)
  BY <1>2, BucketCases
<1>12. Run(r, b, n + 1, n + 1)
  BY <1>1, <1>2, <1>4, <1>5, <1>10, <1>11 DEF Run, NoPair, TableShape
<1>13. ASSUME NEW c \in Buckets(t.num), c # b PROVE BucketOk(r, c)
  <2>1. r.first[c] = t.first[c] /\ r.last[c] = t.last[c]
    BY <1>1, <1>4, <1>13 DEF TableShape
  <2>2. CASE NoPair(t, c)
    <3>1. NoPair(r, c)
      BY <1>1, <1>5, <1>10, <1>13, <2>1, <2>2 DEF NoPair
    <3> QED BY <3>1 DEF BucketOk
  <2>3. ASSUME NEW a \in 1..n, NEW z \in 1..n, Run(t, c, a, z) PROVE BucketOk(r, c)
    <3>1. /\ a <= z /\ t.list[a] = t.first[c] /\ t.list[z] = t.last[c]
          /\ \A i \in 1..n : BucketOf(t, t.list[i]) = c <=> a <= i /\ i <= z
      BY <2>3 DEF Run
    <3>2. ASSUME NEW i \in 1..n + 1
          PROVE  BucketOf(r, r.list[i]) = c <=> a <= i /\ i <= z
      <4>1. CASE i = n + 1
        BY <1>1, <1>5, <1>10, <1>13, <4>1
      <4>2. CASE i # n + 1
        BY <1>1, <1>5, <1>10, <3>1, <4>2, SMTT(20)
      <4> QED BY <4>1, <4>2
    <3>3. Run(r, c, a, z)
      BY <1>1, <1>5, <2>1, <3>1, <3>2, SMTT(20) DEF Run
    <3>4. a \in 1..Len(r.list) /\ z \in 1..Len(r.list)
      BY <1>5
    <3> QED BY <3>3, <3>4, Zenon DEF BucketOk
  <2> QED BY <2>2, <2>3 DEF TableOk, BucketOk
<1>14. BucketOk(r, b)
  <2>1. n + 1 \in 1..Len(r.list)
    BY <1>5
  <2> QED BY <1>12, <2>1 DEF BucketOk
<1>15. Buckets(r.num) = Buckets(t.num)
  BY <1>4
<1>16. TableOk(r)
  BY <1>7, <1>9, <1>13, <1>14, <1>15 DEF TableOk
<1> QED BY <1>4, <1>6, <1>16 DEF PairsWith, r

LEMMA InsertIntoBucket ==
    ASSUME NEW t, TableOk(t), NEW k \in Key, k \notin ToSet(t.list), NEW v \in Value,
           ~IsEmpty(t, BucketOf(t, k))
    PROVE  /\ TableOk(InsertPair(t, k, v))
           /\ PairsWith(InsertPair(t, k, v), t, k, v)
<1> DEFINE b == BucketOf(t, k)
           n == Len(t.list)
           r == InsertPair(t, k, v)
<1>1. TableShape(t) /\ t.list \in Seq(Key) /\ n \in Nat /\ DOMAIN t.list = 1..n
  BY DEF TableOk, TableShape
<1>2. b \in Buckets(t.num)
  BY <1>1, BucketOfKey
<1>3. PICK a \in 1..n, z \in 1..n : Run(t, b, a, z)
  BY <1>2, BucketCases
<1>4. PlaceOf(t, t.first[b]) = a
  BY <1>3, PlaceIsUnique DEF Run
<1>5. r = [t EXCEPT !.list = InsertAt(@, a, k), !.at = Assigned(@, k, v), !.first[b] = k]
  BY <1>4 DEF InsertPair
<1>6. /\ r = [num |-> r.num, first |-> r.first, last |-> r.last, list |-> r.list, at |-> r.at]
      /\ r.num = t.num /\ r.list = InsertAt(t.list, a, k) /\ r.at = Assigned(t.at, k, v)
      /\ r.first = [t.first EXCEPT ![b] = k] /\ r.last = t.last
  <2>1. t = [num |-> t.num, first |-> t.first, last |-> t.last, list |-> t.list, at |-> t.at]
    BY <1>1 DEF TableShape
  <2> QED BY <1>5, <2>1
<1> HIDE DEF r
<1>7. /\ r.list \in Seq(Key) /\ Len(r.list) = n + 1
      /\ \A i \in 1..n + 1 :
            r.list[i] = IF i < a THEN t.list[i] ELSE IF i = a THEN k ELSE t.list[i - 1]
  <2>1. a \in 1..n + 1
    BY <1>1
  <2>2. r.list \in Seq(Key) /\ Inserted(r.list, t.list, a, k)
    BY <1>1, <1>6, <2>1, InsertProperties
  <2> QED BY <2>2 DEF Inserted
<1>8. \A i \in 1..n : t.list[i] # k
  BY <1>1 DEF ToSet
<1>9. ToSet(r.list) = ToSet(t.list) \cup {k}
  <2>1. DOMAIN r.list = 1..n + 1
    BY <1>7
  <2>2. r.list[a] = k /\ a \in 1..n + 1
    BY <1>7
  <2>3. ASSUME NEW i \in 1..n PROVE \E j \in 1..n + 1 : r.list[j] = t.list[i]
    <3>1. CASE i < a
      <4>1. i \in 1..n + 1 /\ r.list[i] = t.list[i]
        BY <1>1, <1>7, <3>1
      <4> QED BY <4>1
    <3>2. CASE i >= a
      <4>1. i + 1 \in 1..n + 1 /\ r.list[i + 1] = t.list[i]
        BY <1>1, <1>7, <3>2
      <4> QED BY <4>1
    <3> QED BY <3>1, <3>2
  <2>4. ASSUME NEW j \in 1..n + 1 PROVE r.list[j] = k \/ \E i \in 1..n : r.list[j] = t.list[i]
    <3>1. CASE j < a
      BY <1>1, <1>7, <3>1
    <3>2. CASE j > a
      <4>1. j - 1 \in 1..n /\ r.list[j] = t.list[j - 1]
        BY <1>1, <1>7, <3>2
      <4> QED BY <4>1
    <3>3. CASE j = a
      BY <2>2, <3>3
    <3> QED BY <3>1, <3>2, <3>3
  <2>5. ToSet(t.list) = {t.list[i] : i \in 1..n} /\ ToSet(r.list) = {r.list[i] : i \in 1..n + 1}
    BY <1>1, <2>1 DEF ToSet
  <2> DEFINE T == ToSet(t.list)
             R == ToSet(r.list)
  <2> HIDE DEF T, R
  <2>6. \A x \in R : x \in T \cup {k}
    BY <2>4, <2>5 DEF T, R
  <2>7. \A x \in T \cup {k} : x \in R
    BY <2>2, <2>3, <2>5 DEF T, R
  <2> QED BY <2>6, <2>7 DEF T, R
<1>10. TableShape(r)
  <2>1. r.at \in [ToSet(r.list) -> Value]
    <3>1. Assigned(t.at, k, v) \in [ToSet(t.list) \cup {k} -> Value]
      BY <1>1, AtWithPair, Zenon
    <3> QED BY <1>6, <1>9, <3>1, Zenon
  <2> QED BY <1>1, <1>2, <1>6, <1>7, <2>1 DEF TableShape, KeyOrHead
<1>11. Once(r.list)
  <2> SUFFICES ASSUME NEW i \in 1..n + 1, NEW j \in 1..n + 1, r.list[i] = r.list[j], i < j
               PROVE  FALSE
    BY <1>1, <1>7, SMTT(20) DEF Once
  <2>1. \A x, y \in 1..n : t.list[x] = t.list[y] => x = y
    BY DEF TableOk, Once
  <2>2. CASE j < a
    BY <1>1, <1>7, <2>1, <2>2
  <2>3. CASE i < a /\ j = a
    <3>1. r.list[i] = t.list[i] /\ r.list[j] = k /\ i \in 1..n
      BY <1>1, <1>7, <2>3
    <3> QED BY <1>8, <3>1
  <2>4. CASE i < a /\ a < j
    <3>1. r.list[i] = t.list[i] /\ r.list[j] = t.list[j - 1] /\ i \in 1..n /\ j - 1 \in 1..n
      BY <1>1, <1>7, <2>4
    <3>2. t.list[i] = t.list[j - 1]
      BY <3>1
    <3>3. i = j - 1
      BY <2>1, <3>1, <3>2
    <3> QED BY <2>4, <3>3
  <2>5. CASE i = a
    <3>1. r.list[i] = k /\ r.list[j] = t.list[j - 1] /\ j - 1 \in 1..n
      BY <1>1, <1>7, <2>5, SMTT(20)
    <3> QED BY <1>8, <3>1
  <2>6. CASE a < i
    <3>1. r.list[i] = t.list[i - 1] /\ r.list[j] = t.list[j - 1] /\ i - 1 \in 1..n /\ j - 1 \in 1..n
      BY <1>1, <1>7, <2>6
    <3>2. t.list[i - 1] = t.list[j - 1]
      BY <3>1
    <3>3. i - 1 = j - 1
      BY <2>1, <3>1, <3>2
    <3> QED BY <3>3
  <2> QED BY <2>2, <2>3, <2>4, <2>5, <2>6
<1>12. \A x : BucketOf(r, x) = BucketOf(t, x)
  BY <1>6 DEF BucketOf
<1>13. /\ a <= z /\ t.list[a] = t.first[b] /\ t.list[z] = t.last[b]
       /\ \A i \in 1..n : BucketOf(t, t.list[i]) = b <=> a <= i /\ i <= z
  BY <1>3 DEF Run
<1>14. Run(r, b, a, z + 1)
  <2>1. a \in 1..Len(r.list) /\ z + 1 \in 1..Len(r.list) /\ a <= z + 1
    BY <1>7, <1>13
  <2>2. r.list[a] = k /\ r.first[b] = k
    BY <1>1, <1>2, <1>6, <1>7 DEF TableShape
  <2>3. r.list[z + 1] = t.list[z] /\ r.last[b] = t.last[b]
    <3>1. z + 1 \in 1..n + 1 /\ a < z + 1 /\ (z + 1) - 1 = z
      BY <1>1, <1>13
    <3>2. r.list[z + 1] = t.list[z]
      BY <1>7, <3>1
    <3> QED BY <1>6, <3>2
  <2>4. ASSUME NEW i \in 1..n + 1
        PROVE  BucketOf(r, r.list[i]) = b <=> a <= i /\ i <= z + 1
    <3>1. CASE i < a
      BY <1>1, <1>7, <1>12, <1>13, <3>1
    <3>2. CASE i = a
      BY <1>12, <1>13, <2>2, <3>2
    <3>3. CASE i > a
      <4>1. r.list[i] = t.list[i - 1] /\ i - 1 \in 1..n
        BY <1>1, <1>7, <3>3
      <4>2. BucketOf(t, t.list[i - 1]) = b <=> a <= i - 1 /\ i - 1 <= z
        BY <1>13, <4>1
      <4> QED BY <1>12, <3>3, <4>1, <4>2
    <3> QED BY <3>1, <3>2, <3>3
  <2> QED BY <1>7, <1>13, <2>1, <2>2, <2>3, <2>4 DEF Run
<1>15. ASSUME NEW c \in Buckets(t.num), c # b PROVE BucketOk(r, c)
  <2>1. r.first[c] = t.first[c] /\ r.last[c] = t.last[c]
    BY <1>1, <1>6, <1>15 DEF TableShape
  <2>2. CASE NoPair(t, c)
    <3>1. ASSUME NEW i \in 1..n + 1 PROVE BucketOf(r, r.list[i]) # c
      <4>1. CASE i < a
        BY <1>1, <1>7, <1>12, <2>2, <4>1 DEF NoPair
      <4>2. CASE i = a
        BY <1>7, <1>12, <1>15, <4>2
      <4>3. CASE i > a
        <5>1. r.list[i] = t.list[i - 1] /\ i - 1 \in 1..n
          BY <1>1, <1>7, <4>3
        <5> QED BY <1>12, <2>2, <5>1 DEF NoPair
      <4> QED BY <4>1, <4>2, <4>3
    <3>2. NoPair(r, c)
      BY <1>7, <2>1, <2>2, <3>1 DEF NoPair
    <3> QED BY <3>2 DEF BucketOk
  <2>3. ASSUME NEW d \in 1..n, NEW e \in 1..n, Run(t, c, d, e) PROVE BucketOk(r, c)
    <3>1. /\ d <= e /\ t.list[d] = t.first[c] /\ t.list[e] = t.last[c]
          /\ \A i \in 1..n : BucketOf(t, t.list[i]) = c <=> d <= i /\ i <= e
      BY <2>3 DEF Run
    <3>2. e < a \/ z < d
      <4>1. SUFFICES ASSUME e >= a, z >= d PROVE FALSE
        OBVIOUS
      <4>2. \E i \in 1..n : a <= i /\ i <= z /\ d <= i /\ i <= e
        <5>1. CASE a <= d
          BY <3>1, <4>1, <5>1
        <5>2. CASE d <= a
          BY <1>13, <4>1, <5>2
        <5> QED BY <5>1, <5>2
      <4> QED BY <1>13, <1>15, <3>1, <4>2
    <3>3. CASE e < a
      <4>1. d \in 1..Len(r.list) /\ e \in 1..Len(r.list)
        BY <1>7
      <4>2. r.list[d] = t.list[d] /\ r.list[e] = t.list[e]
        BY <1>1, <1>7, <3>1, <3>3
      <4>3. ASSUME NEW i \in 1..n + 1
            PROVE  BucketOf(r, r.list[i]) = c <=> d <= i /\ i <= e
        <5>1. CASE i < a
          BY <1>1, <1>7, <1>12, <3>1, <5>1
        <5>2. CASE i = a
          BY <1>7, <1>12, <1>15, <3>3, <5>2
        <5>3. CASE i > a
          <6>1. r.list[i] = t.list[i - 1] /\ i - 1 \in 1..n
            BY <1>1, <1>7, <5>3
          <6>2. BucketOf(t, t.list[i - 1]) = c <=> d <= i - 1 /\ i - 1 <= e
            BY <3>1, <6>1
          <6> QED BY <1>12, <3>3, <5>3, <6>1, <6>2
        <5> QED BY <5>1, <5>2, <5>3
      <4>4. Run(r, c, d, e)
        BY <1>7, <2>1, <3>1, <4>1, <4>2, <4>3 DEF Run
      <4> QED BY <4>1, <4>4 DEF BucketOk
    <3>4. CASE z < d
      <4>1. d + 1 \in 1..Len(r.list) /\ e + 1 \in 1..Len(r.list)
        BY <1>7
      <4>2. r.list[d + 1] = t.list[d] /\ r.list[e + 1] = t.list[e]
        <5>1. /\ d + 1 \in 1..n + 1 /\ d + 1 > a /\ (d + 1) - 1 = d
              /\ e + 1 \in 1..n + 1 /\ e + 1 > a /\ (e + 1) - 1 = e
          BY <1>1, <1>13, <3>1, <3>4
        <5>2. r.list[d + 1] = t.list[d]
          BY <1>7, <5>1
        <5>3. r.list[e + 1] = t.list[e]
          BY <1>7, <5>1
        <5> QED BY <5>2, <5>3
      <4>3. ASSUME NEW i \in 1..n + 1
            PROVE  BucketOf(r, r.list[i]) = c <=> d + 1 <= i /\ i <= e + 1
        <5>1. CASE i < a
          BY <1>1, <1>7, <1>12, <1>13, <3>1, <3>4, <5>1
        <5>2. CASE i = a
          BY <1>7, <1>12, <1>13, <1>15, <3>4, <5>2
        <5>3. CASE i > a
          <6>1. r.list[i] = t.list[i - 1] /\ i - 1 \in 1..n
            BY <1>1, <1>7, <5>3
          <6>2. BucketOf(t, t.list[i - 1]) = c <=> d <= i - 1 /\ i - 1 <= e
            BY <3>1, <6>1
          <6> QED BY <1>12, <5>3, <6>1, <6>2
        <5> QED BY <5>1, <5>2, <5>3
      <4>4. Run(r, c, d + 1, e + 1)
        BY <1>7, <2>1, <3>1, <4>1, <4>2, <4>3 DEF Run
      <4> QED BY <4>1, <4>4, Zenon DEF BucketOk
    <3> QED BY <3>2, <3>3, <3>4
  <2> QED BY <2>2, <2>3 DEF TableOk, BucketOk
<1>16. BucketOk(r, b)
  <2>1. a \in 1..Len(r.list) /\ z + 1 \in 1..Len(r.list)
    BY <1>7
  <2> QED BY <1>14, <2>1, Zenon DEF BucketOk
<1>17. Buckets(r.num) = Buckets(t.num)
  BY <1>6
<1>18. TableOk(r)
  BY <1>10, <1>11, <1>15, <1>16, <1>17 DEF TableOk
<1> QED BY <1>6, <1>9, <1>18 DEF PairsWith, r

LEMMA InsertIsOk ==
    ASSUME NEW t, TableOk(t), NEW k \in Key, k \notin ToSet(t.list), NEW v \in Value
    PROVE  /\ TableOk(InsertPair(t, k, v))
           /\ PairsWith(InsertPair(t, k, v), t, k, v)
BY InsertIntoEmpty, InsertIntoBucket

-----------------------------------------------------------------------------
(* A larger table.                                                         *)

SamePairs(r, t) == ToSet(r.list) = ToSet(t.list) /\ r.at = t.at

Moved(t, before, i) ==
    IF i = 0 THEN Emptied(t.num + 1) ELSE InsertPair(before, t.list[i], t.at[t.list[i]])

IsMoved(r, t, n) == r = [i \in 0..n |-> Moved(t, r[i - 1], i)]

LEMMA MovedExists ==
    ASSUME NEW t, NEW last \in Nat
    PROVE  \E r : IsMoved(r, t, last)
<1> DEFINE A == {n \in Nat : \E r : IsMoved(r, t, n)}
<1>1. 0 \in A
  <2> DEFINE r == [i \in 0..0 |-> Emptied(t.num + 1)]
  <2>1. \A x : Moved(t, x, 0) = Emptied(t.num + 1)
    BY DEF Moved
  <2>2. IsMoved(r, t, 0)
    BY <2>1 DEF IsMoved
  <2> QED BY <2>2
<1>2. ASSUME NEW n \in Nat, n \in A PROVE n + 1 \in A
  <2>1. PICK q : IsMoved(q, t, n)
    BY <1>2
  <2> DEFINE r == [i \in 0..n + 1 |-> IF i = n + 1 THEN Moved(t, q[n], n + 1) ELSE q[i]]
  <2>2. \A i \in 0..n : q[i] = Moved(t, q[i - 1], i)
    BY <2>1 DEF IsMoved
  <2>3. ASSUME NEW i \in 0..n + 1 PROVE r[i] = Moved(t, r[i - 1], i)
    <3>1. CASE i = n + 1
      <4>1. r[i] = Moved(t, q[n], n + 1) /\ i - 1 \in 0..n + 1 /\ i - 1 # n + 1 /\ i - 1 = n
        BY <3>1
      <4>2. r[i - 1] = q[n]
        BY <4>1
      <4> QED BY <3>1, <4>1, <4>2
    <3>2. CASE i # n + 1 /\ i # 0
      <4>1. i \in 0..n /\ i - 1 \in 0..n + 1 /\ i - 1 # n + 1
        BY <3>2
      <4>2. r[i] = q[i] /\ r[i - 1] = q[i - 1]
        BY <3>2, <4>1
      <4> QED BY <2>2, <4>1, <4>2
    <3>3. CASE i = 0
      <4>1. r[0] = q[0] /\ 0 \in 0..n
        OBVIOUS
      <4>2. q[0] = Moved(t, q[0 - 1], 0)
        BY <2>2, <4>1
      <4>3. \A x, y : Moved(t, x, 0) = Moved(t, y, 0)
        BY DEF Moved
      <4> QED BY <3>3, <4>1, <4>2, <4>3
    <3> QED BY <3>1, <3>2, <3>3
  <2>4. r = [i \in 0..n + 1 |-> Moved(t, r[i - 1], i)]
    BY <2>3
  <2>5. IsMoved(r, t, n + 1)
    BY <2>4 DEF IsMoved
  <2> HIDE DEF r
  <2>6. \E p : IsMoved(p, t, n + 1)
    BY <2>5
  <2> QED BY <2>6
<1> HIDE DEF A
<1>3. \A n \in Nat : n >= 0 => n \in A
  BY <1>1, <1>2, InductionOnSet
<1>4. last \in A
  BY <1>3
<1> QED BY <1>4 DEF A

LEMMA RehashIsMoved ==
    ASSUME NEW t, TableOk(t)
    PROVE  \E r : IsMoved(r, t, Len(t.list)) /\ Rehash(t) = r[Len(t.list)]
<1> DEFINE n == Len(t.list)
           Good(r) == r = [i \in 0..n |->
                             IF i = 0 THEN Emptied(t.num + 1)
                             ELSE InsertPair(r[i - 1], t.list[i], t.at[t.list[i]])]
<1>1. n \in Nat
  BY DEF TableOk, TableShape
<1>2. \A r : Good(r) <=> IsMoved(r, t, n)
  BY DEF IsMoved, Moved
<1>3. \E r : Good(r)
  BY <1>1, <1>2, MovedExists
<1>4. Rehash(t) = (CHOOSE r : Good(r))[n]
  BY DEF Rehash
<1> HIDE DEF Good
<1> QED BY <1>2, <1>3, <1>4

LEMMA RehashIsOk ==
    ASSUME NEW t, TableOk(t), t.num < Len(Primes)
    PROVE  TableOk(Rehash(t)) /\ SamePairs(Rehash(t), t)
<1> DEFINE n == Len(t.list)
           Pairs(i) == {t.list[j] : j \in 1..i}
<1>1. TableShape(t) /\ t.list \in Seq(Key) /\ n \in Nat /\ t.num + 1 \in 1..Len(Primes)
      /\ t.at \in [ToSet(t.list) -> Value] /\ ToSet(t.list) = Pairs(n)
  <2>1. TableShape(t) /\ t.list \in Seq(Key) /\ DOMAIN t.list = 1..n
    BY DEF TableOk, TableShape
  <2>2. Primes \in Seq(Nat \ {0})
    BY TableAssumption
  <2> QED BY <2>1, <2>2 DEF TableShape, ToSet
<1>2. PICK r : IsMoved(r, t, n) /\ Rehash(t) = r[n]
  BY RehashIsMoved
<1>3. \A i \in 0..n : r[i] = Moved(t, r[i - 1], i)
  BY <1>2 DEF IsMoved
<1> DEFINE Good(i) == /\ TableOk(r[i])
                      /\ ToSet(r[i].list) = Pairs(i)
                      /\ r[i].at = [x \in Pairs(i) |-> t.at[x]]
           A == {i \in Nat : i <= n => Good(i)}
<1>4. 0 \in A
  <2>1. r[0] = Emptied(t.num + 1)
    BY <1>1, <1>3 DEF Moved
  <2>2. TableOk(r[0]) /\ r[0].list = <<>>
    BY <1>1, <2>1, EmptiedIsOk
  <2>3. ToSet(r[0].list) = {} /\ Pairs(0) = {}
    BY <2>2 DEF ToSet
  <2>4. r[0].at \in [{} -> Value]
    BY <2>2, <2>3 DEF TableOk, TableShape
  <2>5. r[0].at = [x \in Pairs(0) |-> t.at[x]]
    BY <2>3, <2>4
  <2> QED BY <2>2, <2>3, <2>5
<1>5. ASSUME NEW i \in Nat, i \in A PROVE i + 1 \in A
  <2>1. SUFFICES ASSUME i + 1 <= n PROVE Good(i + 1)
    OBVIOUS
  <2>2. Good(i)
    BY <1>1, <1>5, <2>1
  <2> DEFINE k == t.list[i + 1]
             v == t.at[k]
  <2>3. k \in Key /\ i + 1 \in 1..n
    BY <1>1, <2>1
  <2>4. k \in ToSet(t.list) /\ v \in Value
    BY <1>1, <2>3
  <2>5. k \notin Pairs(i)
    BY <1>1, <2>3 DEF TableOk, Once
  <2>6. r[i + 1] = InsertPair(r[i], k, v)
    <3>1. i + 1 \in 0..n /\ i + 1 # 0 /\ (i + 1) - 1 = i
      BY <2>3
    <3> QED BY <1>3, <3>1 DEF Moved
  <2>7. TableOk(r[i + 1]) /\ PairsWith(r[i + 1], r[i], k, v)
    <3> DEFINE before == r[i]
    <3>1. TableOk(before) /\ k \notin ToSet(before.list) /\ r[i + 1] = InsertPair(before, k, v)
      BY <2>2, <2>5, <2>6
    <3> HIDE DEF k, v, before
    <3>2. TableOk(InsertPair(before, k, v)) /\ PairsWith(InsertPair(before, k, v), before, k, v)
      BY <2>3, <2>4, <3>1, InsertIsOk
    <3> QED BY <3>1, <3>2 DEF before
  <2>8. Pairs(i + 1) = Pairs(i) \cup {k}
    BY <2>3
  <2>9. r[i + 1].at = [x \in Pairs(i + 1) |-> t.at[x]]
    BY <2>2, <2>7, <2>8 DEF PairsWith, Assigned
  <2> QED BY <2>2, <2>7, <2>8, <2>9 DEF PairsWith
<1>6. n \in A
  <2> HIDE DEF A
  <2>1. \A i \in Nat : i >= 0 => i \in A
    BY <1>4, <1>5, InductionOnSet
  <2> QED BY <1>1, <2>1
<1>7. Good(n)
  <2> HIDE DEF Good
  <2> QED BY <1>1, <1>6
<1>8. r[n].at = t.at
  BY <1>1, <1>7
<1> QED BY <1>1, <1>2, <1>7, <1>8 DEF SamePairs

(* The last prime is never needed: it is above the number of keys.         *)
LEMMA OnceIsShort ==
    ASSUME NEW list \in Seq(Key), Once(list)
    PROVE  Len(list) <= Cardinality(Key)
<1>1. list \in [1..Len(list) -> Key] /\ Len(list) \in Nat
  OBVIOUS
<1>2. list \in Injection(1..Len(list), Key)
  BY <1>1 DEF Once, Injection, IsInjective
<1>3. Cardinality(1..Len(list)) = Len(list)
  <2>1. \A n \in Nat : Cardinality(1..n) = n
    BY FS_Interval
  <2> QED BY <1>1, <2>1
<1> QED BY <1>2, <1>3, FS_Injection, TableAssumption

LEMMA GrownIsOk ==
    ASSUME NEW t, TableOk(t)
    PROVE  TableOk(Grown(t)) /\ SamePairs(Grown(t), t)
<1>1. CASE Len(t.list) >= Primes[t.num]
  <2>1. t.num \in 1..Len(Primes) /\ t.list \in Seq(Key)
    BY DEF TableOk, TableShape
  <2>2. Len(t.list) <= Cardinality(Key)
    BY <2>1, OnceIsShort DEF TableOk
  <2>3. Primes \in Seq(Nat \ {0}) /\ Cardinality(Key) < Primes[Len(Primes)]
        /\ Cardinality(Key) \in Nat
    BY TableAssumption, FS_CardinalityType
  <2>4. Primes[Len(Primes)] \in Nat /\ Primes[t.num] \in Nat /\ Len(t.list) \in Nat
    BY <2>1, <2>3
  <2>5. t.num # Len(Primes)
    BY <1>1, <2>2, <2>3, <2>4
  <2>6. t.num < Len(Primes)
    BY <2>1, <2>3, <2>5
  <2> QED BY <1>1, <2>6, RehashIsOk DEF Grown
<1>2. CASE ~(Len(t.list) >= Primes[t.num])
  BY <1>2 DEF Grown, SamePairs
<1> QED BY <1>1, <1>2

LEMMA TableSetIsOk ==
    ASSUME NEW t, TableOk(t), NEW k \in Key, NEW v \in Value
    PROVE  /\ TableOk(TableSet(t, k, v))
           /\ ToSet(TableSet(t, k, v).list) = ToSet(t.list) \cup {k}
           /\ TableSet(t, k, v).at = Assigned(t.at, k, v)
<1> DEFINE g == Grown(t)
<1>1. TableOk(g) /\ SamePairs(g, t)
  BY GrownIsOk
<1> HIDE DEF g
<1>2. CASE Found(g, k)
  <2> DEFINE r == [g EXCEPT !.at[k] = v]
  <2>1. TableSet(t, k, v) = r
    BY <1>2 DEF TableSet, g
  <2>2. k \in ToSet(g.list)
    BY <1>1, <1>2, FoundIsMember
  <2>3. TableShape(g) /\ g.at \in [ToSet(g.list) -> Value]
    BY <1>1 DEF TableOk, TableShape
  <2>4. /\ r = [num |-> r.num, first |-> r.first, last |-> r.last, list |-> r.list, at |-> r.at]
        /\ r.num = g.num /\ r.list = g.list /\ r.first = g.first /\ r.last = g.last
        /\ r.at = [g.at EXCEPT ![k] = v]
    <3>1. g = [num |-> g.num, first |-> g.first, last |-> g.last, list |-> g.list, at |-> g.at]
      BY <2>3 DEF TableShape
    <3> QED BY <3>1
  <2> HIDE DEF r
  <2>5. r.at \in [ToSet(g.list) -> Value]
    BY <2>3, <2>4
  <2>6. TableShape(r)
    BY <2>3, <2>4, <2>5 DEF TableShape
  <2>7. \A b : BucketOk(r, b) <=> BucketOk(g, b)
    BY <2>4 DEF BucketOk, NoPair, Run, BucketOf
  <2>8. TableOk(r)
    BY <1>1, <2>4, <2>6, <2>7 DEF TableOk
  <2>9. r.at = Assigned(t.at, k, v)
    BY <1>1, <2>2, <2>3, <2>4 DEF SamePairs, Assigned
  <2> QED BY <1>1, <2>1, <2>2, <2>4, <2>8, <2>9 DEF SamePairs
<1>3. CASE ~Found(g, k)
  <2>1. k \notin ToSet(g.list)
    BY <1>1, <1>3, FoundIsMember
  <2>2. TableSet(t, k, v) = InsertPair(g, k, v)
    BY <1>3 DEF TableSet, g
  <2> QED BY <1>1, <2>1, <2>2, InsertIsOk DEF PairsWith, SamePairs
<1> QED BY <1>2, <1>3

-----------------------------------------------------------------------------
(* Deleting the pair of a key that is there.                               *)

LEMMA DeleteIsOk ==
    ASSUME NEW t, TableOk(t), NEW k \in ToSet(t.list)
    PROVE  /\ TableOk(DeletePair(t, k))
           /\ ToSet(DeletePair(t, k).list) = ToSet(t.list) \ {k}
           /\ DeletePair(t, k).at = [j \in ToSet(t.list) \ {k} |-> t.at[j]]
<1> DEFINE b == BucketOf(t, k)
           n == Len(t.list)
           r == DeletePair(t, k)
           alone == t.first[b] = k /\ t.last[b] = k
<1>1. TableShape(t) /\ t.list \in Seq(Key) /\ n \in Nat /\ DOMAIN t.list = 1..n
      /\ ToSet(t.list) = {t.list[j] : j \in 1..n} /\ DOMAIN t.at = ToSet(t.list)
  <2>1. TableShape(t) /\ t.list \in Seq(Key) /\ DOMAIN t.at = ToSet(t.list)
    BY DEF TableOk, TableShape
  <2>2. n \in Nat /\ DOMAIN t.list = 1..n
    BY <2>1
  <2>3. ToSet(t.list) = {t.list[j] : j \in 1..n}
    BY <2>2, Zenon DEF ToSet
  <2> QED BY <2>1, <2>2, <2>3
<1>2. PICK i \in 1..n : t.list[i] = k
  BY <1>1
<1>3. k \in Key /\ b \in Buckets(t.num)
  BY <1>1, <1>2, BucketOfKey
<1>4. PlaceOf(t, k) = i
  BY <1>2, PlaceIsUnique
<1>5. PICK a \in 1..n, z \in 1..n : Run(t, b, a, z)
  <2>1. ~NoPair(t, b)
    BY <1>2 DEF NoPair
  <2> QED BY <1>3, <2>1, BucketCases
<1>6. /\ a <= z /\ t.list[a] = t.first[b] /\ t.list[z] = t.last[b]
      /\ \A j \in 1..n : BucketOf(t, t.list[j]) = b <=> a <= j /\ j <= z
  BY <1>5 DEF Run
<1>7. a <= i /\ i <= z
  BY <1>2, <1>6
<1>8. \A x, y \in 1..n : t.list[x] = t.list[y] => x = y
  BY DEF TableOk, Once
<1>9. /\ t.first[b] = k <=> a = i
      /\ t.last[b] = k <=> z = i
  BY <1>2, <1>6, <1>8
<1>10. r = [t EXCEPT !.list = RemoveAt(@, i), !.at = [j \in DOMAIN @ \ {k} |-> @[j]],
                     !.first[b] = IF alone THEN Head_ ELSE IF @ = k THEN t.list[i + 1] ELSE @,
                     !.last[b]  = IF alone THEN Head_ ELSE IF @ = k THEN t.list[i - 1] ELSE @]
  BY <1>4 DEF DeletePair
<1>11. /\ r = [num |-> r.num, first |-> r.first, last |-> r.last, list |-> r.list, at |-> r.at]
       /\ r.num = t.num /\ r.list = RemoveAt(t.list, i)
       /\ r.at = [j \in DOMAIN t.at \ {k} |-> t.at[j]]
       /\ r.first = [t.first EXCEPT ![b] = IF alone THEN Head_
                                           ELSE IF @ = k THEN t.list[i + 1] ELSE @]
       /\ r.last = [t.last EXCEPT ![b] = IF alone THEN Head_
                                         ELSE IF @ = k THEN t.list[i - 1] ELSE @]
  <2>1. t = [num |-> t.num, first |-> t.first, last |-> t.last, list |-> t.list, at |-> t.at]
    BY <1>1 DEF TableShape
  <2> QED BY <1>10, <2>1
<1> HIDE DEF r
<1>12. /\ r.list \in Seq(Key) /\ Len(r.list) = n - 1
       /\ \A j \in 1..n - 1 : r.list[j] = IF j < i THEN t.list[j] ELSE t.list[j + 1]
  <2>1. r.list \in Seq(Key) /\ Removed(r.list, t.list, i)
    BY <1>1, <1>11, RemoveProperties
  <2> QED BY <2>1 DEF Removed
<1>13. \A j \in 1..n : t.list[j] = k => j = i
  BY <1>2, <1>8
<1>14. ToSet(r.list) = ToSet(t.list) \ {k}
  <2>1. DOMAIN r.list = 1..n - 1
    BY <1>1, <1>12
  <2>2. ToSet(r.list) = {r.list[j] : j \in 1..n - 1}
    BY <2>1 DEF ToSet
  <2>3. ASSUME NEW j \in 1..n - 1
        PROVE  r.list[j] # k /\ \E x \in 1..n : r.list[j] = t.list[x]
    <3>1. CASE j < i
      <4>1. j \in 1..n /\ r.list[j] = t.list[j] /\ j # i
        BY <1>1, <1>12, <3>1
      <4> QED BY <1>13, <4>1
    <3>2. CASE j >= i
      <4>1. j + 1 \in 1..n /\ r.list[j] = t.list[j + 1] /\ j + 1 # i
        BY <1>1, <1>12, <3>2
      <4> QED BY <1>13, <4>1
    <3> QED BY <3>1, <3>2
  <2>4. ASSUME NEW x \in 1..n, t.list[x] # k
        PROVE  \E j \in 1..n - 1 : r.list[j] = t.list[x]
    <3>1. CASE x < i
      <4>1. x \in 1..n - 1 /\ r.list[x] = t.list[x]
        BY <1>1, <1>12, <3>1, SMTT(20)
      <4> QED BY <4>1
    <3>2. CASE x > i
      <4>1. x - 1 \in 1..n - 1 /\ r.list[x - 1] = t.list[x]
        <5>1. n \in Nat /\ x - 1 \in 1..n - 1 /\ ~(x - 1 < i) /\ (x - 1) + 1 = x
          BY <1>1, <3>2
        <5> QED BY <1>12, <5>1
      <4> QED BY <4>1
    <3>3. x # i
      BY <1>2, <2>4
    <3> QED BY <3>1, <3>2, <3>3
  <2> DEFINE T == ToSet(t.list)
             R == ToSet(r.list)
  <2> HIDE DEF T, R
  <2>5. \A x \in R : x \in T \ {k}
    BY <1>1, <2>2, <2>3 DEF T, R
  <2>6. \A x \in T \ {k} : x \in R
    BY <1>1, <2>2, <2>4 DEF T, R
  <2> QED BY <2>5, <2>6 DEF T, R
<1>15. r.at = [j \in ToSet(t.list) \ {k} |-> t.at[j]]
  BY <1>1, <1>11
<1>16. a # z => /\ r.first[b] = IF a = i THEN t.list[i + 1] ELSE t.first[b]
                /\ r.last[b] = IF z = i THEN t.list[i - 1] ELSE t.last[b]
  BY <1>1, <1>3, <1>6, <1>7, <1>9, <1>11 DEF TableShape
<1>17. a = z => r.first[b] = Head_ /\ r.last[b] = Head_
  BY <1>1, <1>3, <1>6, <1>7, <1>9, <1>11 DEF TableShape
<1>18. \A c \in Buckets(t.num) : c # b => r.first[c] = t.first[c] /\ r.last[c] = t.last[c]
  BY <1>1, <1>11 DEF TableShape
<1>19. TableShape(r)
  <2>1. r.at \in [ToSet(r.list) -> Value]
    BY <1>1, <1>14, <1>15 DEF TableShape
  <2>2. r.first[b] \in KeyOrHead /\ r.last[b] \in KeyOrHead
    <3>1. CASE a = z
      BY <1>17, <3>1 DEF KeyOrHead
    <3>2. CASE a # z
      <4>1. a = i => i + 1 \in 1..n
        BY <1>1, <1>6, <3>2
      <4>2. z = i => i - 1 \in 1..n
        BY <1>1, <1>6, <3>2
      <4> QED BY <1>1, <1>3, <1>16, <3>2, <4>1, <4>2 DEF KeyOrHead, TableShape
    <3> QED BY <3>1, <3>2
  <2>3. /\ r.first \in [Buckets(t.num) -> KeyOrHead]
        /\ r.last \in [Buckets(t.num) -> KeyOrHead]
    <3>1. DOMAIN r.first = Buckets(t.num) /\ r.first = [x \in DOMAIN r.first |-> r.first[x]]
      BY <1>1, <1>11 DEF TableShape
    <3>2. DOMAIN r.last = Buckets(t.num) /\ r.last = [x \in DOMAIN r.last |-> r.last[x]]
      BY <1>1, <1>11 DEF TableShape
    <3>3. \A c \in Buckets(t.num) : r.first[c] \in KeyOrHead /\ r.last[c] \in KeyOrHead
      BY <1>1, <1>18, <2>2 DEF TableShape
    <3> QED BY <3>1, <3>2, <3>3
  <2> QED BY <1>1, <1>11, <1>12, <2>1, <2>3 DEF TableShape
<1>20. Once(r.list)
  <2> SUFFICES ASSUME NEW x \in 1..n - 1, NEW y \in 1..n - 1, r.list[x] = r.list[y], x < y
               PROVE  FALSE
    BY <1>1, <1>12 DEF Once
  <2>1. CASE y < i
    <3>1. x \in 1..n /\ y \in 1..n /\ x < i /\ x # y
      BY <1>1, <2>1
    <3>2. r.list[x] = t.list[x] /\ r.list[y] = t.list[y]
      BY <1>12, <2>1, <3>1
    <3> QED BY <1>8, <3>1, <3>2
  <2>2. CASE x < i /\ y >= i
    <3>1. r.list[x] = t.list[x] /\ r.list[y] = t.list[y + 1] /\ x \in 1..n /\ y + 1 \in 1..n
      BY <1>1, <1>12, <2>2
    <3>2. t.list[x] = t.list[y + 1]
      BY <3>1
    <3>3. x = y + 1
      BY <1>8, <3>1, <3>2
    <3> QED BY <3>3
  <2>3. CASE x >= i
    <3>1. r.list[x] = t.list[x + 1] /\ r.list[y] = t.list[y + 1] /\ x + 1 \in 1..n /\ y + 1 \in 1..n
      BY <1>1, <1>12, <2>3
    <3>2. t.list[x + 1] = t.list[y + 1]
      BY <3>1
    <3>3. x + 1 = y + 1
      BY <1>8, <3>1, <3>2
    <3> QED BY <3>3
  <2> QED BY <2>1, <2>2, <2>3
<1>21. \A x : BucketOf(r, x) = BucketOf(t, x)
  BY <1>11 DEF BucketOf
<1>22. BucketOk(r, b)
  <2>1. CASE a = z
    <3>1. ASSUME NEW j \in 1..n - 1 PROVE BucketOf(r, r.list[j]) # b
      <4>1. CASE j < i
        <5>1. j \in 1..n /\ r.list[j] = t.list[j] /\ ~(a <= j)
          BY <1>1, <1>6, <1>7, <1>12, <2>1, <4>1
        <5> QED BY <1>6, <1>21, <5>1
      <4>2. CASE j >= i
        <5>1. j + 1 \in 1..n /\ r.list[j] = t.list[j + 1] /\ ~(j + 1 <= z)
          BY <1>1, <1>6, <1>7, <1>12, <2>1, <4>2
        <5> QED BY <1>6, <1>21, <5>1
      <4> QED BY <4>1, <4>2
    <3>2. NoPair(r, b)
      BY <1>12, <1>17, <2>1, <3>1 DEF NoPair
    <3> QED BY <3>2 DEF BucketOk
  <2>2. CASE a # z
    <3>1. a \in 1..Len(r.list) /\ z - 1 \in 1..Len(r.list) /\ a <= z - 1
      BY <1>1, <1>6, <1>12, <2>2
    <3>2. r.list[a] = r.first[b]
      <4>1. CASE a = i
        <5>1. r.list[a] = t.list[i + 1]
          BY <1>1, <1>12, <3>1, <4>1
        <5> QED BY <1>16, <2>2, <4>1, <5>1
      <4>2. CASE a < i
        <5>1. r.list[a] = t.list[a]
          BY <1>1, <1>12, <3>1, <4>2
        <5> QED BY <1>6, <1>16, <2>2, <4>2, <5>1
      <4> QED BY <1>7, <4>1, <4>2
    <3>3. r.list[z - 1] = r.last[b]
      <4>1. CASE z = i
        <5>1. r.list[z - 1] = t.list[i - 1]
          BY <1>1, <1>12, <3>1, <4>1
        <5> QED BY <1>16, <2>2, <4>1, <5>1
      <4>2. CASE i < z
        <5>1. r.list[z - 1] = t.list[z]
          BY <1>1, <1>12, <3>1, <4>2
        <5> QED BY <1>6, <1>16, <2>2, <4>2, <5>1
      <4> QED BY <1>7, <4>1, <4>2
    <3>4. ASSUME NEW j \in 1..n - 1
          PROVE  BucketOf(r, r.list[j]) = b <=> a <= j /\ j <= z - 1
      <4>1. CASE j < i
        BY <1>1, <1>6, <1>7, <1>12, <1>21, <4>1
      <4>2. CASE j >= i
        <5>1. j + 1 \in 1..n /\ r.list[j] = t.list[j + 1]
          BY <1>1, <1>12, <4>2
        <5>2. BucketOf(t, t.list[j + 1]) = b <=> a <= j + 1 /\ j + 1 <= z
          BY <1>6, <5>1
        <5> QED BY <1>7, <1>21, <4>2, <5>1, <5>2
      <4> QED BY <4>1, <4>2
    <3>5. Run(r, b, a, z - 1)
      BY <1>12, <3>1, <3>2, <3>3, <3>4 DEF Run
    <3> QED BY <3>1, <3>5, Zenon DEF BucketOk
  <2> QED BY <2>1, <2>2
<1>23. ASSUME NEW c \in Buckets(t.num), c # b PROVE BucketOk(r, c)
  <2>1. r.first[c] = t.first[c] /\ r.last[c] = t.last[c]
    BY <1>18, <1>23
  <2>2. CASE NoPair(t, c)
    <3>1. ASSUME NEW j \in 1..n - 1 PROVE BucketOf(r, r.list[j]) # c
      <4>1. CASE j < i
        BY <1>1, <1>12, <1>21, <2>2, <4>1 DEF NoPair
      <4>2. CASE j >= i
        <5>1. r.list[j] = t.list[j + 1] /\ j + 1 \in 1..n
          BY <1>1, <1>12, <4>2
        <5> QED BY <1>21, <2>2, <5>1 DEF NoPair
      <4> QED BY <4>1, <4>2
    <3>2. NoPair(r, c)
      BY <1>12, <2>1, <2>2, <3>1 DEF NoPair
    <3> QED BY <3>2 DEF BucketOk
  <2>3. ASSUME NEW d \in 1..n, NEW e \in 1..n, Run(t, c, d, e) PROVE BucketOk(r, c)
    <3>1. /\ d <= e /\ t.list[d] = t.first[c] /\ t.list[e] = t.last[c]
          /\ \A j \in 1..n : BucketOf(t, t.list[j]) = c <=> d <= j /\ j <= e
      BY <2>3 DEF Run
    <3>2. e < i \/ i < d
      <4>1. ~(d <= i /\ i <= e)
        BY <1>2, <1>23, <3>1
      <4> QED BY <4>1
    <3>3. CASE e < i
      <4>1. d \in 1..Len(r.list) /\ e \in 1..Len(r.list)
        BY <1>1, <1>12, <3>1, <3>3
      <4>2. r.list[d] = t.list[d] /\ r.list[e] = t.list[e]
        BY <1>1, <1>12, <3>1, <3>3, <4>1
      <4>3. ASSUME NEW j \in 1..n - 1
            PROVE  BucketOf(r, r.list[j]) = c <=> d <= j /\ j <= e
        <5>1. CASE j < i
          BY <1>1, <1>12, <1>21, <3>1, <5>1, SMTT(20)
        <5>2. CASE j >= i
          <6>1. r.list[j] = t.list[j + 1] /\ j + 1 \in 1..n
            BY <1>1, <1>12, <5>2
          <6>2. BucketOf(t, t.list[j + 1]) = c <=> d <= j + 1 /\ j + 1 <= e
            BY <3>1, <6>1
          <6> QED BY <1>21, <3>3, <5>2, <6>1, <6>2
        <5> QED BY <5>1, <5>2
      <4>4. Run(r, c, d, e)
        BY <1>12, <2>1, <3>1, <4>1, <4>2, <4>3 DEF Run
      <4> QED BY <4>1, <4>4, Zenon DEF BucketOk
    <3>4. CASE i < d
      <4>1. d - 1 \in 1..Len(r.list) /\ e - 1 \in 1..Len(r.list)
        BY <1>1, <1>12, <3>1, <3>4
      <4>2. r.list[d - 1] = t.list[d] /\ r.list[e - 1] = t.list[e]
        <5>1. d - 1 >= i /\ (d - 1) + 1 = d /\ e - 1 >= i /\ (e - 1) + 1 = e
          BY <1>1, <3>1, <3>4
        <5> QED BY <1>12, <4>1, <5>1
      <4>3. ASSUME NEW j \in 1..n - 1
            PROVE  BucketOf(r, r.list[j]) = c <=> d - 1 <= j /\ j <= e - 1
        <5>1. CASE j < i
          <6>1. r.list[j] = t.list[j] /\ j \in 1..n
            BY <1>1, <1>12, <5>1
          <6>2. BucketOf(t, t.list[j]) = c <=> d <= j /\ j <= e
            BY <3>1, <6>1
          <6> QED BY <1>21, <3>4, <5>1, <6>1, <6>2
        <5>2. CASE j >= i
          <6>1. r.list[j] = t.list[j + 1] /\ j + 1 \in 1..n
            BY <1>1, <1>12, <5>2
          <6>2. BucketOf(t, t.list[j + 1]) = c <=> d <= j + 1 /\ j + 1 <= e
            BY <3>1, <6>1
          <6> QED BY <1>21, <6>1, <6>2
        <5> QED BY <5>1, <5>2
      <4>4. Run(r, c, d - 1, e - 1)
        <5>1. d - 1 <= e - 1
          BY <3>1
        <5>2. r.list[d - 1] = r.first[c] /\ r.list[e - 1] = r.last[c]
          BY <2>1, <3>1, <4>2
        <5>3. \A j \in 1..Len(r.list) : BucketOf(r, r.list[j]) = c <=> d - 1 <= j /\ j <= e - 1
          BY <1>12, <4>3
        <5> QED BY <4>1, <5>1, <5>2, <5>3, Zenon DEF Run
      <4> QED BY <4>1, <4>4, Zenon DEF BucketOk
    <3> QED BY <3>2, <3>3, <3>4
  <2> QED BY <2>2, <2>3 DEF TableOk, BucketOk
<1>24. Buckets(r.num) = Buckets(t.num)
  BY <1>11
<1>25. TableOk(r)
  BY <1>19, <1>20, <1>22, <1>23, <1>24 DEF TableOk
<1> QED BY <1>14, <1>15, <1>25 DEF r

-----------------------------------------------------------------------------
(* Counting along a step.                                                  *)

(* r is what the caller's references h and those of the places of at and   *)
(* of s amount to.                                                         *)
Agree(r, h, at, s) == \A v \in Value : r[v] = h[v] + Count(at, v) + Count(s, v)

LEMMA NaturalCounts ==
    ASSUME NEW at, NEW s, IsFiniteSet(DOMAIN at), IsFiniteSet(DOMAIN s),
           NEW h \in [Value -> Nat], NEW r \in [Value -> Int], Agree(r, h, at, s)
    PROVE  r \in [Value -> Nat]
<1>1. ASSUME NEW v \in Value PROVE r[v] \in Nat
  <2>1. Count(at, v) \in Nat /\ Count(s, v) \in Nat
    BY CountIsNatural
  <2> QED BY <2>1 DEF Agree
<1> QED BY <1>1

(* The values that are not freed are those that somebody holds.            *)
LEMMA AliveIsHeld ==
    ASSUME NEW at, NEW s, IsFiniteSet(DOMAIN at), IsFiniteSet(DOMAIN s),
           NEW h \in [Value -> Nat], NEW r, Agree(r, h, at, s),
           Range(at) \subseteq Value, Range(s) \subseteq Value
    PROVE  {v \in Value : r[v] # 0} = Range(at) \cup Range(s) \cup {v \in Value : h[v] > 0}
<1>1. ASSUME NEW v \in Value
      PROVE  r[v] # 0 <=> v \in Range(at) \/ v \in Range(s) \/ h[v] > 0
  <2>1. /\ Count(at, v) \in Nat /\ (Count(at, v) = 0 <=> \A x \in DOMAIN at : at[x] # v)
        /\ Count(s, v) \in Nat /\ (Count(s, v) = 0 <=> \A x \in DOMAIN s : s[x] # v)
    BY CountIsNatural
  <2>2. /\ Count(at, v) = 0 <=> v \notin Range(at)
        /\ Count(s, v) = 0 <=> v \notin Range(s)
    BY <2>1 DEF Range
  <2>3. r[v] = h[v] + Count(at, v) + Count(s, v) /\ h[v] \in Nat
    BY DEF Agree
  <2> QED BY <2>1, <2>2, <2>3
<1> QED BY <1>1

LEMMA CountAssigned ==
    ASSUME NEW at, IsFiniteSet(DOMAIN at), NEW k, NEW v, NEW u
    PROVE  Count(Assigned(at, k, v), u) =
               Count(at, u) + (IF v = u THEN 1 ELSE 0)
                            - (IF k \in DOMAIN at /\ at[k] = u THEN 1 ELSE 0)
<1> DEFINE g == Assigned(at, k, v)
<1>1. DOMAIN g = DOMAIN at \cup {k} /\ g[k] = v /\ \A x \in DOMAIN at \ {k} : g[x] = at[x]
  BY DEF Assigned
<1>2. Count(at, u) \in Nat
  BY CountIsNatural
<1> HIDE DEF g
<1>3. CASE k \in DOMAIN at
  <2>1. DOMAIN g = DOMAIN at
    BY <1>1, <1>3
  <2>2. Count(g, u) = Count(at, u) - (IF at[k] = u THEN 1 ELSE 0) + (IF g[k] = u THEN 1 ELSE 0)
    BY <1>1, <1>3, <2>1, CountChanged
  <2> QED BY <1>1, <1>2, <1>3, <2>2 DEF g
<1>4. CASE k \notin DOMAIN at
  <2>1. OneMore(at, g, k)
    BY <1>1, <1>4 DEF OneMore
  <2>2. Count(g, u) = Count(at, u) + (IF g[k] = u THEN 1 ELSE 0)
    BY <2>1, CountMore
  <2> QED BY <1>1, <1>2, <1>4, <2>2 DEF g
<1> QED BY <1>3, <1>4

LEMMA CountDropped ==
    ASSUME NEW at, IsFiniteSet(DOMAIN at), NEW k \in DOMAIN at, NEW u
    PROVE  Count([j \in DOMAIN at \ {k} |-> at[j]], u) =
               Count(at, u) - (IF at[k] = u THEN 1 ELSE 0)
<1> DEFINE g == [j \in DOMAIN at \ {k} |-> at[j]]
<1>1. IsFiniteSet(DOMAIN g) /\ OneMore(g, at, k)
  BY FS_Subset DEF OneMore
<1>2. Count(g, u) \in Nat
  BY <1>1, CountIsNatural
<1> HIDE DEF g
<1>3. Count(at, u) = Count(g, u) + (IF at[k] = u THEN 1 ELSE 0)
  BY <1>1, CountMore
<1>4. Count(g, u) = Count(at, u) - (IF at[k] = u THEN 1 ELSE 0)
  BY <1>2, <1>3
<1> QED BY <1>4 DEF g

-----------------------------------------------------------------------------
(* The two containers in a state of the invariant.                         *)

LEMMA ItemsOk ==
    ASSUME ArrayOk
    PROVE  /\ Items \in Seq(Value) /\ Len(Items) = array.entries /\ array.entries \in Nat
           /\ DOMAIN Items = 1..array.entries
           /\ \A i \in 1..array.entries : Items[i] = array.cells[i - 1]
           /\ IsFiniteSet(DOMAIN Items)
<1>1. array.entries \in Nat /\ \A i \in 1..array.entries : array.cells[i - 1] \in Value
  BY DEF ArrayOk, CellsOk
<1>2. /\ DOMAIN Items = 1..array.entries
      /\ \A i \in 1..array.entries : Items[i] = array.cells[i - 1]
  BY DEF Items
<1>3. Items \in [1..array.entries -> Value]
  BY <1>1 DEF Items
<1>4. IsFiniteSet(1..array.entries)
  BY <1>1, FS_Interval
<1> QED BY <1>1, <1>2, <1>3, <1>4

LEMMA PairsOk ==
    ASSUME NEW t, TableOk(t)
    PROVE  /\ DOMAIN t.at = ToSet(t.list) /\ IsFiniteSet(DOMAIN t.at)
           /\ Range(t.at) \subseteq Value
<1>1. t.list \in Seq(Key) /\ t.at \in [ToSet(t.list) -> Value]
  BY DEF TableOk, TableShape
<1>2. ToSet(t.list) \subseteq Key
  BY <1>1 DEF ToSet
<1>3. IsFiniteSet(ToSet(t.list))
  BY <1>2, FS_Subset, TableAssumption
<1> QED BY <1>1, <1>3 DEF Range

LEMMA CountMembers ==
    ASSUME TableOk(table), NEW v
    PROVE  Count(Members, v) = Count(table.at, v)
<1>1. table.list \in Seq(Key) /\ table.at \in [ToSet(table.list) -> Value] /\ Once(table.list)
  BY DEF TableOk, TableShape
<1> DEFINE l == table.list
           f == Members
           g == table.at
<1>2. DOMAIN l = 1..Len(l) /\ Len(l) \in Nat /\ l \in [1..Len(l) -> Key]
  BY <1>1
<1>3. DOMAIN f = 1..Len(l) /\ \A x \in 1..Len(l) : f[x] = g[l[x]]
  BY <1>2 DEF Members
<1>4. DOMAIN g = {l[x] : x \in 1..Len(l)}
  BY <1>1, <1>2 DEF ToSet
<1> HIDE DEF f, g
<1>5. IsFiniteSet(DOMAIN f)
  BY <1>2, <1>3, FS_Interval
<1>6. l \in [DOMAIN f -> DOMAIN g]
  BY <1>2, <1>3, <1>4
<1>7. \A x, y \in DOMAIN f : l[x] = l[y] => x = y
  BY <1>1, <1>3 DEF Once
<1>8. \A y \in DOMAIN g : \E x \in DOMAIN f : l[x] = y
  BY <1>3, <1>4
<1>9. \A x \in DOMAIN f : g[l[x]] = f[x]
  BY <1>3
<1> HIDE DEF l
<1>10. Count(g, v) = Count(f, v)
  BY <1>5, <1>6, <1>7, <1>8, <1>9, CountMoved
<1> QED BY <1>10 DEF f, g

(* What one of the two gives or takes away shows in the counts.            *)
LEMMA InvGives ==
    ASSUME ValuesInv
    PROVE  /\ TableOk(table) /\ ArrayOk /\ OneKind
           /\ held \in [Value -> Nat] /\ refs \in [Value -> Nat]
           /\ Agree(refs, held, table.at, Items)
           /\ \A v \in Value : Count(table.at, v) \in Nat /\ Count(Items, v) \in Nat
BY PairsOk, ItemsOk, CountIsNatural DEF ValuesInv, CountsAgree, Agree

LEMMA InvFollows ==
    ASSUME OneKind', TableOk(table'), ArrayOk', held' \in [Value -> Nat],
           refs' \in [Value -> Int], Agree(refs', held', table'.at, Items')
    PROVE  ValuesInv'
<1>1. IsFiniteSet(DOMAIN table'.at)
  BY PairsOk
<1>2. IsFiniteSet(DOMAIN Items')
  <2>1. array'.entries \in Nat /\ DOMAIN Items' = 1..array'.entries
    BY DEF ArrayOk, CellsOk, Items
  <2>2. IsFiniteSet(1..array'.entries)
    BY <2>1, FS_Interval
  <2> QED BY <2>1, <2>2
<1>3. refs' \in [Value -> Nat]
  BY <1>1, <1>2, NaturalCounts
<1>4. CountsAgree'
  BY DEF CountsAgree, Agree
<1>5. TableOk(table)'
  BY DEF TableOk, TableShape, Once, BucketOk, NoPair, Run, BucketOf
<1> QED BY <1>3, <1>4, <1>5 DEF ValuesInv

-----------------------------------------------------------------------------
(* What an operation on the cells does to the items.                       *)

ItemsOf(a) == [i \in 1..a.entries |-> a.cells[i - 1]]

LEMMA ItemsAre ==
    ASSUME NEW a, CellsOk(a)
    PROVE  /\ ItemsOf(a) \in Seq(Value) /\ Len(ItemsOf(a)) = a.entries
           /\ DOMAIN ItemsOf(a) = 1..a.entries
           /\ \A i \in 1..a.entries : ItemsOf(a)[i] = a.cells[i - 1]
<1>1. a.entries \in Nat /\ \A i \in 1..a.entries : a.cells[i - 1] \in Value
  BY DEF CellsOk
<1>2. ItemsOf(a) \in [1..a.entries -> Value]
  BY <1>1 DEF ItemsOf
<1>3. \A i \in 1..a.entries : ItemsOf(a)[i] = a.cells[i - 1]
  BY DEF ItemsOf
<1> DEFINE s == ItemsOf(a)
           n == a.entries
<1>4. n \in Nat /\ s \in [1..n -> Value]
  BY <1>1, <1>2
<1> HIDE DEF s, n
<1>5. s \in Seq(Value) /\ Len(s) = n /\ DOMAIN s = 1..n
  BY <1>4
<1> QED BY <1>3, <1>5 DEF s, n

LEMMA RoomOk ==
    ASSUME NEW a, CellsOk(a)
    PROVE  /\ CellsOk(Room(a)) /\ Room(a).entries = a.entries /\ a.entries < Room(a).size
           /\ \A i \in 0..a.entries - 1 : Room(a).cells[i] = a.cells[i]
<1>1. CASE a.entries < a.size
  BY <1>1 DEF Room
<1>2. CASE ~(a.entries < a.size)
  <2> DEFINE size == Larger(a.size + 1, a.size * 2)
             cells == [i \in 0..size - 1 |-> IF i < a.size THEN a.cells[i] ELSE Nothing]
             r == [entries |-> a.entries, size |-> size, cells |-> cells]
  <2>1. a.entries \in Nat /\ a.size \in Nat /\ a.entries <= a.size
        /\ a.cells \in [0..a.size - 1 -> Value \cup {Nothing}]
        /\ \A i \in 0..a.entries - 1 : a.cells[i] \in Value
    BY DEF CellsOk
  <2>2. size \in Nat /\ a.size < size
    BY <2>1 DEF Larger
  <2>3. Room(a) = r
    BY <1>2 DEF Room
  <2> HIDE DEF size
  <2>4. cells \in [0..size - 1 -> Value \cup {Nothing}]
    BY <2>1, <2>2
  <2>5. \A i \in 0..a.entries - 1 : cells[i] = a.cells[i]
    BY <2>1, <2>2
  <2> HIDE DEF cells
  <2>6. r.entries = a.entries /\ r.size = size /\ r.cells = cells
    OBVIOUS
  <2>7. CellsOk(r)
    BY <2>1, <2>2, <2>4, <2>5, <2>6 DEF CellsOk
  <2> QED BY <2>1, <2>2, <2>3, <2>5, <2>6, <2>7
<1> QED BY <1>1, <1>2

LEMMA SameSequence ==
    ASSUME NEW S, NEW s \in Seq(S), NEW t \in Seq(S), Len(s) = Len(t),
           \A j \in 1..Len(s) : s[j] = t[j]
    PROVE  s = t
OBVIOUS

(* The items of a are its cells, in order.                                *)
HasItems(a) ==
    /\ ItemsOf(a) \in Seq(Value) /\ Len(ItemsOf(a)) = a.entries
    /\ \A i \in 1..a.entries : ItemsOf(a)[i] = a.cells[i - 1]

LEMMA ItemsListed ==
    ASSUME NEW a, CellsOk(a)
    PROVE  HasItems(a)
BY ItemsAre DEF HasItems

(* Cell i is new, and those from there on have moved up by one.            *)
MovedUp(c, a, i, v) ==
    \A j \in 0..a.entries :
        c[j] = IF j < i THEN a.cells[j] ELSE IF j = i THEN v ELSE a.cells[j - 1]

(* r is a with the cells c and one entry more, and so has the item v at i. *)
OneEntryMore(r, a, c) == r = [a EXCEPT !.cells = c, !.entries = @ + 1]

NewItem(r, a, i, v) ==
    CellsOk(r) /\ ItemsOf(r) = InsertAt(ItemsOf(a), i + 1, v)

LEMMA ItemInserted ==
    ASSUME NEW a, CellsOk(a), a.entries < a.size, NEW i \in 0..a.entries, NEW v \in Value,
           NEW c \in [0..a.size - 1 -> Value \cup {Nothing}], MovedUp(c, a, i, v),
           NEW r, OneEntryMore(r, a, c)
    PROVE  NewItem(r, a, i, v)
<1> DEFINE s == ItemsOf(a)
           g == InsertAt(s, i + 1, v)
<1>1. a.entries \in Nat /\ a.size \in Nat /\ \A j \in 0..a.entries - 1 : a.cells[j] \in Value
  BY DEF CellsOk
<1>2. r = [entries |-> a.entries + 1, size |-> a.size, cells |-> c]
  BY DEF CellsOk, OneEntryMore
<1>3. r.entries = a.entries + 1 /\ r.size = a.size /\ r.cells = c
  BY <1>2
<1>4. CellsOk(r)
  <2>1. ASSUME NEW j \in 0..r.entries - 1 PROVE r.cells[j] \in Value
    <3>1. j \in 0..a.entries
      BY <1>1, <1>3
    <3> QED BY <1>1, <1>3, <3>1 DEF MovedUp
  <2>2. r = [entries |-> r.entries, size |-> r.size, cells |-> r.cells]
    BY <1>2, <1>3
  <2>3. /\ r.entries \in Nat /\ r.size \in Nat /\ r.entries <= r.size
        /\ r.cells \in [0..r.size - 1 -> Value \cup {Nothing}]
    BY <1>1, <1>3
  <2> QED BY <2>1, <2>2, <2>3 DEF CellsOk
<1>5. /\ s \in Seq(Value) /\ Len(s) = a.entries
      /\ \A j \in 1..a.entries : s[j] = a.cells[j - 1]
  BY ItemsAre
<1> HIDE DEF s
<1>6. i + 1 \in 1..Len(s) + 1
  BY <1>1, <1>5
<1>7. g \in Seq(Value) /\ Inserted(g, s, i + 1, v)
  BY <1>5, <1>6, InsertProperties
<1> HIDE DEF g
<1>8. /\ ItemsOf(r) \in Seq(Value) /\ Len(ItemsOf(r)) = a.entries + 1
      /\ \A j \in 1..a.entries + 1 : ItemsOf(r)[j] = c[j - 1]
  <2>1. HasItems(r)
    BY <1>4, ItemsListed
  <2> QED BY <1>3, <2>1, Zenon DEF HasItems
<1>9. Len(g) = a.entries + 1
      /\ \A j \in 1..a.entries + 1 :
            g[j] = IF j < i + 1 THEN s[j] ELSE IF j = i + 1 THEN v ELSE s[j - 1]
  BY <1>5, <1>7 DEF Inserted
<1>10. ASSUME NEW j \in 1..a.entries + 1 PROVE ItemsOf(r)[j] = g[j]
  <2>1. j - 1 \in 0..a.entries
    BY <1>1
  <2>2. c[j - 1] = IF j - 1 < i THEN a.cells[j - 1] ELSE IF j - 1 = i THEN v
                                                    ELSE a.cells[j - 2]
    BY <2>1 DEF MovedUp
  <2>3. CASE j < i + 1
    <3>1. j \in 1..a.entries
      BY <1>1, <2>3
    <3> QED BY <1>1, <1>5, <1>8, <1>9, <2>2, <2>3, <3>1
  <2>4. CASE j = i + 1
    BY <1>1, <1>8, <1>9, <2>2, <2>4
  <2>5. CASE j > i + 1
    <3>1. /\ j - 1 \in 1..a.entries /\ (j - 1) - 1 = j - 2
          /\ ~(j < i + 1) /\ j # i + 1 /\ ~(j - 1 < i) /\ j - 1 # i
      BY <1>1, <2>5
    <3>2. g[j] = s[j - 1]
      BY <1>9, <3>1
    <3>3. ItemsOf(r)[j] = a.cells[j - 2]
      BY <1>8, <2>2, <3>1
    <3>4. s[j - 1] = a.cells[(j - 1) - 1]
      BY <1>5, <3>1
    <3> QED BY <3>1, <3>2, <3>3, <3>4
  <2> QED BY <1>1, <2>3, <2>4, <2>5
<1>11. ItemsOf(r) = g
  BY <1>7, <1>8, <1>9, <1>10, SameSequence
<1> QED BY <1>4, <1>11 DEF g, s, NewItem

(* ItemInserted, of the array written out with its new cells.             *)
LEMMA NewItemInserted ==
    ASSUME NEW a, CellsOk(a), a.entries < a.size, NEW i \in 0..a.entries, NEW v \in Value,
           NEW c \in [0..a.size - 1 -> Value \cup {Nothing}], MovedUp(c, a, i, v)
    PROVE  NewItem([a EXCEPT !.cells = c, !.entries = @ + 1], a, i, v)
<1> DEFINE r == [a EXCEPT !.cells = c, !.entries = @ + 1]
<1>1. OneEntryMore(r, a, c)
  BY DEF OneEntryMore
<1> HIDE DEF r
<1>2. NewItem(r, a, i, v)
  BY <1>1, ItemInserted
<1> QED BY <1>2 DEF r

LEMMA ItemReplaced ==
    ASSUME NEW a, CellsOk(a), NEW i \in 0..a.entries - 1, NEW v \in Value,
           NEW r, r = [a EXCEPT !.cells[i] = v]
    PROVE  CellsOk(r) /\ ItemsOf(r) = [ItemsOf(a) EXCEPT ![i + 1] = v]
<1>1. /\ a.entries \in Nat /\ a.size \in Nat /\ a.entries <= a.size
      /\ a.cells \in [0..a.size - 1 -> Value \cup {Nothing}]
      /\ \A j \in 0..a.entries - 1 : a.cells[j] \in Value
  BY DEF CellsOk
<1>2. r.entries = a.entries /\ r.size = a.size /\ r.cells = [a.cells EXCEPT ![i] = v]
      /\ r = [entries |-> r.entries, size |-> r.size, cells |-> r.cells]
  BY DEF CellsOk
<1>3. CellsOk(r)
  BY <1>1, <1>2 DEF CellsOk
<1>4. ASSUME NEW j \in 1..a.entries
      PROVE  ItemsOf(r)[j] = [ItemsOf(a) EXCEPT ![i + 1] = v][j]
  <2>1. ItemsOf(r)[j] = r.cells[j - 1] /\ ItemsOf(a)[j] = a.cells[j - 1]
    BY <1>2 DEF ItemsOf
  <2>2. j \in DOMAIN ItemsOf(a) /\ j - 1 \in 0..a.size - 1
    BY <1>1 DEF ItemsOf
  <2> QED BY <1>1, <1>2, <2>1, <2>2
<1>5. DOMAIN ItemsOf(r) = 1..a.entries
      /\ DOMAIN [ItemsOf(a) EXCEPT ![i + 1] = v] = 1..a.entries
  BY <1>2 DEF ItemsOf
<1>6. ItemsOf(r) = [j \in DOMAIN ItemsOf(r) |-> ItemsOf(r)[j]]
  BY DEF ItemsOf
<1> QED BY <1>3, <1>4, <1>5, <1>6

LEMMA ItemRemoved ==
    ASSUME NEW a, CellsOk(a), NEW i \in 0..a.entries - 1,
           NEW c, c = Move(a.cells, i, i + 1, a.entries - i),
           NEW r, r = [a EXCEPT !.cells = c, !.entries = @ - 1]
    PROVE  CellsOk(r) /\ ItemsOf(r) = RemoveAt(ItemsOf(a), i + 1)
<1> DEFINE s == ItemsOf(a)
           g == RemoveAt(s, i + 1)
<1>1. /\ a.entries \in Nat /\ a.size \in Nat /\ a.entries <= a.size
      /\ a.cells \in [0..a.size - 1 -> Value \cup {Nothing}]
      /\ \A j \in 0..a.entries - 1 : a.cells[j] \in Value
  BY DEF CellsOk
<1>2. r = [entries |-> a.entries - 1, size |-> a.size, cells |-> c]
  BY DEF CellsOk
<1>3. ASSUME NEW j \in 0..a.size - 1
      PROVE  /\ c[j] \in Value \cup {Nothing}
             /\ j < i => c[j] = a.cells[j]
             /\ i <= j /\ j < a.entries - 1 => c[j] = a.cells[j + 1]
  <2>1. c[j] = IF j \notin i..i + (a.entries - i) - 1 THEN a.cells[j]
               ELSE IF j - i + (i + 1) \in DOMAIN a.cells THEN a.cells[j - i + (i + 1)]
               ELSE Nothing
    BY <1>1 DEF Move
  <2>2. i + (a.entries - i) - 1 = a.entries - 1 /\ j - i + (i + 1) = j + 1
    BY <1>1
  <2>3. c[j] = IF j \notin i..a.entries - 1 THEN a.cells[j]
               ELSE IF j + 1 \in DOMAIN a.cells THEN a.cells[j + 1] ELSE Nothing
    BY <2>1, <2>2
  <2>4. CASE j \notin i..a.entries - 1
    BY <1>1, <2>3, <2>4
  <2>5. CASE j \in i..a.entries - 1
    <3>1. j >= i
      BY <2>5
    <3>2. CASE j + 1 \in DOMAIN a.cells
      <4>1. c[j] = a.cells[j + 1]
        BY <2>3, <2>5, <3>2
      <4>2. a.cells[j + 1] \in Value \cup {Nothing}
        BY <1>1, <3>2
      <4> QED BY <3>1, <4>1, <4>2
    <3>3. CASE j + 1 \notin DOMAIN a.cells
      <4>1. ~(j < a.entries - 1)
        BY <1>1, <2>5, <3>3
      <4> QED BY <2>3, <2>5, <3>1, <3>3, <4>1
    <3> QED BY <3>2, <3>3
  <2> QED BY <2>4, <2>5
<1>4. c \in [0..a.size - 1 -> Value \cup {Nothing}]
  <2>1. DOMAIN c = 0..a.size - 1 /\ c = [j \in DOMAIN c |-> c[j]]
    BY <1>1 DEF Move
  <2> QED BY <1>3, <2>1
<1>5. r.entries = a.entries - 1 /\ r.size = a.size /\ r.cells = c
  BY <1>2
<1>6. CellsOk(r)
  <2>1. ASSUME NEW j \in 0..r.entries - 1 PROVE r.cells[j] \in Value
    <3>1. j \in 0..a.size - 1 /\ j < a.entries - 1 /\ j + 1 \in 0..a.entries - 1
      BY <1>1, <1>5
    <3>2. CASE j < i
      <4>1. c[j] = a.cells[j] /\ j \in 0..a.entries - 1
        BY <1>1, <1>3, <3>1, <3>2
      <4> QED BY <1>1, <1>5, <4>1
    <3>3. CASE i <= j
      <4>1. c[j] = a.cells[j + 1]
        BY <1>1, <1>3, <3>1, <3>3
      <4> QED BY <1>1, <1>5, <3>1, <4>1
    <3> QED BY <3>2, <3>3
  <2>2. r = [entries |-> r.entries, size |-> r.size, cells |-> r.cells]
    BY <1>2, <1>5
  <2>3. /\ r.entries \in Nat /\ r.size \in Nat /\ r.entries <= r.size
        /\ r.cells \in [0..r.size - 1 -> Value \cup {Nothing}]
    BY <1>1, <1>4, <1>5
  <2> QED BY <2>1, <2>2, <2>3 DEF CellsOk
<1>7. /\ s \in Seq(Value) /\ Len(s) = a.entries
      /\ \A j \in 1..a.entries : s[j] = a.cells[j - 1]
  BY ItemsAre
<1> HIDE DEF s
<1>8. g \in Seq(Value) /\ Removed(g, s, i + 1)
  <2>1. i + 1 \in 1..Len(s)
    BY <1>1, <1>7
  <2> QED BY <1>7, <2>1, RemoveProperties
<1> HIDE DEF g
<1>9. /\ ItemsOf(r) \in Seq(Value) /\ Len(ItemsOf(r)) = a.entries - 1
      /\ \A j \in 1..a.entries - 1 : ItemsOf(r)[j] = c[j - 1]
  <2>1. /\ ItemsOf(r) \in Seq(Value) /\ Len(ItemsOf(r)) = r.entries
        /\ \A j \in 1..r.entries : ItemsOf(r)[j] = r.cells[j - 1]
    BY <1>6, ItemsAre
  <2> QED BY <1>5, <2>1
<1>10. /\ Len(g) = a.entries - 1
       /\ \A j \in 1..a.entries - 1 : g[j] = IF j < i + 1 THEN s[j] ELSE s[j + 1]
  BY <1>7, <1>8 DEF Removed
<1>11. ASSUME NEW j \in 1..a.entries - 1 PROVE ItemsOf(r)[j] = g[j]
  <2>1. j - 1 \in 0..a.size - 1 /\ j - 1 < a.entries - 1 /\ (j - 1) + 1 = j
        /\ j \in 1..a.entries /\ j + 1 \in 1..a.entries /\ (j + 1) - 1 = j
    BY <1>1, SMTT(20)
  <2>2. CASE j < i + 1
    BY <1>1, <1>3, <1>7, <1>9, <1>10, <2>1, <2>2, SMTT(20)
  <2>3. CASE ~(j < i + 1)
    <3>1. c[j - 1] = a.cells[j] /\ s[j + 1] = a.cells[j]
      <4>1. s[j + 1] = a.cells[(j + 1) - 1]
        BY <1>7, <2>1
      <4>2. c[j - 1] = a.cells[(j - 1) + 1]
        BY <1>1, <1>3, <2>1, <2>3, SMTT(20)
      <4> QED BY <2>1, <4>1, <4>2
    <3> QED BY <1>9, <1>10, <2>3, <3>1
  <2> QED BY <2>2, <2>3
<1>12. ItemsOf(r) = g
  BY <1>8, <1>9, <1>10, <1>11, SameSequence
<1> QED BY <1>6, <1>12 DEF g, s

-----------------------------------------------------------------------------
(* One step.                                                               *)

(* What a step gives out or takes back in references is what it changes in *)
(* the caller's and in the places of the containers.                       *)
Balanced(r, h, at, s) ==
    \A v \in Value : r[v] = refs[v] + (h[v] - held[v]) + (Count(at, v) - Count(table.at, v))
                                                       + (Count(s, v) - Count(Items, v))

LEMMA StepKeeps ==
    ASSUME ValuesInv, OneKind', TableOk(table'), ArrayOk', held' \in [Value -> Nat],
           refs' \in [Value -> Int], Balanced(refs', held', table'.at, Items')
    PROVE  ValuesInv'
<1>1. IsFiniteSet(DOMAIN table'.at)
  BY PairsOk
<1>2. IsFiniteSet(DOMAIN Items')
  <2>1. array'.entries \in Nat /\ DOMAIN Items' = 1..array'.entries
    BY DEF ArrayOk, CellsOk, Items
  <2>2. IsFiniteSet(1..array'.entries)
    BY <2>1, FS_Interval
  <2> QED BY <2>1, <2>2
<1>3. Agree(refs', held', table'.at, Items')
  <2> SUFFICES ASSUME NEW v \in Value
               PROVE  refs'[v] = held'[v] + Count(table'.at, v) + Count(Items', v)
    BY DEF Agree
  <2>1. /\ refs[v] = held[v] + Count(table.at, v) + Count(Items, v)
        /\ refs[v] \in Nat /\ held[v] \in Nat /\ held'[v] \in Nat
        /\ Count(table.at, v) \in Nat /\ Count(Items, v) \in Nat
    BY InvGives DEF Agree
  <2>2. Count(table'.at, v) \in Nat /\ Count(Items', v) \in Nat
    BY <1>1, <1>2, CountIsNatural
  <2>3. refs'[v] = refs[v] + (held'[v] - held[v]) + (Count(table'.at, v) - Count(table.at, v))
                                                  + (Count(Items', v) - Count(Items, v))
    BY DEF Balanced
  <2> QED BY <2>1, <2>2, <2>3
<1> QED BY <1>3, InvFollows

(* A step that leaves the containers alone.                                *)
LEMMA SameContainers ==
    ASSUME ValuesInv, UNCHANGED <<kind, table, array>>, held' \in [Value -> Nat],
           refs' \in [Value -> Int],
           \A v \in Value : refs'[v] = refs[v] + (held'[v] - held[v])
    PROVE  ValuesInv' /\ Items' = Items
<1>1. Items' = Items
  BY DEF Items
<1>2. OneKind' /\ TableOk(table') /\ ArrayOk'
  BY InvGives DEF OneKind, ArrayOk, CellsOk
<1>3. Balanced(refs', held', table'.at, Items')
  <2> SUFFICES ASSUME NEW v \in Value
               PROVE  refs'[v] = refs[v] + (held'[v] - held[v])
                                         + (Count(table.at, v) - Count(table.at, v))
                                         + (Count(Items, v) - Count(Items, v))
    BY <1>1 DEF Balanced
  <2>1. refs[v] \in Nat /\ held[v] \in Nat /\ held'[v] \in Nat
        /\ Count(table.at, v) \in Nat /\ Count(Items, v) \in Nat
    BY InvGives
  <2> QED BY <2>1
<1> QED BY <1>1, <1>2, <1>3, StepKeeps

(* The reference that a container takes.                                   *)
LEMMA TakenCounts ==
    ASSUME ValuesInv, NEW v \in Value, NEW new \in BOOLEAN, Taking(v, new)
    PROVE  /\ held' \in [Value -> Nat] /\ held[v] > 0
           /\ held' \in {held, [held EXCEPT ![v] = @ - 1]}
           /\ Taken(v, new) \in [Value -> Int]
           /\ \A u \in Value : Taken(v, new)[u] = refs[u] + (held'[u] - held[u])
                                                          + (IF v = u THEN 1 ELSE 0)
<1>1. held \in [Value -> Nat] /\ refs \in [Value -> Nat] /\ held[v] > 0
  BY InvGives DEF Taking
<1>2. CASE new
  <2>1. held' = [held EXCEPT ![v] = @ - 1] /\ Taken(v, new) = refs
    BY <1>2 DEF Taking, Decref, Taken
  <2>2. held' \in [Value -> Nat]
    BY <1>1, <2>1
  <2>3. \A u \in Value : refs[u] = refs[u] + (held'[u] - held[u]) + (IF v = u THEN 1 ELSE 0)
    BY <1>1, <2>1
  <2> QED BY <1>1, <2>1, <2>2, <2>3
<1>3. CASE ~new
  <2>1. held' = held /\ Taken(v, new) = [refs EXCEPT ![v] = @ + 1]
    BY <1>3 DEF Taking, Incref, Taken
  <2>2. Taken(v, new) \in [Value -> Int]
    BY <1>1, <2>1
  <2>3. \A u \in Value : Taken(v, new)[u] = refs[u] + (held'[u] - held[u])
                                                    + (IF v = u THEN 1 ELSE 0)
    BY <1>1, <2>1
  <2> QED BY <1>1, <2>1, <2>2, <2>3
<1> QED BY <1>2, <1>3

-----------------------------------------------------------------------------
(* What each operation makes of the containers and the caller's references.*)

(* The object is m, the array s and the caller holds h.                    *)
Becomes(m, s, h) == ValuesInv' /\ table'.at = m /\ Items' = s /\ held' = h

LEMMA NewBecomes ==
    ASSUME ValuesInv, NEW v \in Value, New(v)
    PROVE  Becomes(table.at, Items, [held EXCEPT ![v] = 1])
<1>1. held \in [Value -> Nat] /\ refs \in [Value -> Nat]
      /\ held' = [held EXCEPT ![v] = 1] /\ refs' = [refs EXCEPT ![v] = 1]
      /\ refs[v] = 0 /\ UNCHANGED <<kind, table, array>>
  BY InvGives DEF New
<1>2. held[v] = 0
  <2>1. refs[v] = held[v] + Count(table.at, v) + Count(Items, v)
        /\ Count(table.at, v) \in Nat /\ Count(Items, v) \in Nat
    BY InvGives DEF Agree
  <2> QED BY <1>1, <2>1
<1>3. /\ held' \in [Value -> Nat] /\ refs' \in [Value -> Int]
      /\ \A u \in Value : refs'[u] = refs[u] + (held'[u] - held[u])
  BY <1>1, <1>2
<1> QED BY <1>1, <1>3, SameContainers DEF Becomes

LEMMA RetainBecomes ==
    ASSUME ValuesInv, NEW v \in Value, Retain(v)
    PROVE  held[v] > 0 /\ Becomes(table.at, Items, [held EXCEPT ![v] = @ + 1])
<1>1. held \in [Value -> Nat] /\ refs \in [Value -> Nat]
      /\ held' = [held EXCEPT ![v] = @ + 1] /\ refs' = [refs EXCEPT ![v] = @ + 1]
      /\ held[v] > 0 /\ UNCHANGED <<kind, table, array>>
  BY InvGives DEF Retain, Incref
<1>2. /\ held' \in [Value -> Nat] /\ refs' \in [Value -> Int]
      /\ \A u \in Value : refs'[u] = refs[u] + (held'[u] - held[u])
  BY <1>1
<1> QED BY <1>1, <1>2, SameContainers DEF Becomes

LEMMA ReleaseBecomes ==
    ASSUME ValuesInv, NEW v \in Value, Release(v)
    PROVE  held[v] > 0 /\ Becomes(table.at, Items, [held EXCEPT ![v] = @ - 1])
<1>1. held \in [Value -> Nat] /\ refs \in [Value -> Nat]
      /\ held' = [held EXCEPT ![v] = @ - 1] /\ refs' = [refs EXCEPT ![v] = @ - 1]
      /\ held[v] > 0 /\ UNCHANGED <<kind, table, array>>
  BY InvGives DEF Release, Decref
<1>2. /\ held' \in [Value -> Nat] /\ refs' \in [Value -> Int]
      /\ \A u \in Value : refs'[u] = refs[u] + (held'[u] - held[u])
  BY <1>1
<1> QED BY <1>1, <1>2, SameContainers DEF Becomes

(* The reference of the value that was there under the name is given back. *)
LEMMA ObjectSetBecomes ==
    ASSUME ValuesInv, NEW k \in Key, NEW v \in Value, NEW new \in BOOLEAN,
           ObjectSet(k, v, new)
    PROVE  Becomes(Assigned(table.at, k, v), Items, held')
<1>1. /\ TableOk(table) /\ kind = "object" /\ array.entries = 0 /\ refs \in [Value -> Nat]
      /\ held \in [Value -> Nat] /\ ArrayOk
  BY InvGives DEF ObjectSet, OneKind
<1>2. Taking(v, new) /\ table' = TableSet(table, k, v) /\ UNCHANGED <<kind, array>>
  BY DEF ObjectSet
<1>3. /\ held' \in [Value -> Nat] /\ Taken(v, new) \in [Value -> Int]
      /\ \A u \in Value : Taken(v, new)[u] = refs[u] + (held'[u] - held[u])
                                                     + (IF v = u THEN 1 ELSE 0)
  BY <1>2, TakenCounts
<1>4. /\ DOMAIN table.at = ToSet(table.list) /\ IsFiniteSet(DOMAIN table.at)
      /\ Range(table.at) \subseteq Value
  BY <1>1, PairsOk
<1> DEFINE old == Get(Grown(table), k)
           took == Taken(v, new)
<1>5. old = IF k \in DOMAIN table.at THEN table.at[k] ELSE Nothing
  <2>1. TableOk(Grown(table)) /\ SamePairs(Grown(table), table)
    BY <1>1, GrownIsOk
  <2>2. Found(Grown(table), k) <=> k \in ToSet(Grown(table).list)
    BY <2>1, FoundIsMember
  <2> QED BY <1>4, <2>1, <2>2 DEF Get, SamePairs
<1>6. refs' = IF old = Nothing THEN took ELSE [took EXCEPT ![old] = @ - 1]
  BY DEF ObjectSet, Decref
<1> HIDE DEF old, took
<1>7. ASSUME NEW u \in Value
      PROVE  refs'[u] = took[u] - (IF k \in DOMAIN table.at /\ table.at[k] = u
                                   THEN 1 ELSE 0)
  <2>1. Nothing \notin Value
    BY TableAssumption
  <2>2. took \in [Value -> Int]
    BY <1>3 DEF took
  <2>3. CASE k \in DOMAIN table.at
    <3>1. old = table.at[k] /\ old \in Value
      BY <1>4, <1>5, <2>3 DEF Range
    <3>2. refs' = [took EXCEPT ![old] = @ - 1]
      BY <1>6, <2>1, <3>1
    <3> QED BY <2>2, <2>3, <3>1, <3>2
  <2>4. CASE k \notin DOMAIN table.at
    BY <1>5, <1>6, <2>2, <2>4
  <2> QED BY <2>3, <2>4
<1>8. refs' \in [Value -> Int]
  <2>1. took \in [Value -> Int]
    BY <1>3 DEF took
  <2>2. [took EXCEPT ![old] = @ - 1] \in [Value -> Int]
    <3>1. CASE old \in Value
      BY <2>1, <3>1
    <3>2. CASE old \notin Value
      BY <2>1, <3>2
    <3> QED BY <3>1, <3>2
  <2> QED BY <1>6, <2>1, <2>2
<1>9. /\ TableOk(table') /\ table'.at = Assigned(table.at, k, v)
  BY <1>1, <1>2, TableSetIsOk
<1>10. Items' = Items /\ ArrayOk' /\ OneKind'
  BY <1>1, <1>2 DEF Items, ArrayOk, CellsOk, OneKind
<1>11. Balanced(refs', held', table'.at, Items')
  <2> SUFFICES ASSUME NEW u \in Value
               PROVE  refs'[u] = refs[u] + (held'[u] - held[u])
                                         + (Count(table'.at, u) - Count(table.at, u))
                                         + (Count(Items, u) - Count(Items, u))
    BY <1>10 DEF Balanced
  <2>1. Count(table'.at, u) = Count(table.at, u) + (IF v = u THEN 1 ELSE 0)
                            - (IF k \in DOMAIN table.at /\ table.at[k] = u THEN 1 ELSE 0)
    BY <1>4, <1>9, CountAssigned
  <2>2. /\ refs[u] \in Nat /\ held[u] \in Nat /\ held'[u] \in Nat
        /\ Count(table.at, u) \in Nat /\ Count(Items, u) \in Nat
    BY <1>1, <1>3, InvGives
  <2>3. took[u] = refs[u] + (held'[u] - held[u]) + (IF v = u THEN 1 ELSE 0)
    BY <1>3 DEF took
  <2> QED BY <1>7, <2>1, <2>2, <2>3
<1>12. ValuesInv'
  BY <1>3, <1>8, <1>9, <1>10, <1>11, StepKeeps
<1> QED BY <1>9, <1>10, <1>12 DEF Becomes

LEMMA ObjectDelBecomes ==
    ASSUME ValuesInv, NEW k \in Key, ObjectDel(k)
    PROVE  /\ k \in DOMAIN table.at
           /\ Becomes([j \in DOMAIN table.at \ {k} |-> table.at[j]], Items, held)
<1>1. /\ TableOk(table) /\ kind = "object" /\ array.entries = 0 /\ refs \in [Value -> Nat]
      /\ held \in [Value -> Nat] /\ ArrayOk
  BY InvGives DEF ObjectDel, OneKind
<1>2. /\ Found(table, k) /\ refs' = [refs EXCEPT ![table.at[k]] = @ - 1]
      /\ table' = DeletePair(table, k) /\ UNCHANGED <<kind, array, held>>
  BY DEF ObjectDel, Decref
<1>3. /\ DOMAIN table.at = ToSet(table.list) /\ IsFiniteSet(DOMAIN table.at)
      /\ Range(table.at) \subseteq Value
  BY <1>1, PairsOk
<1>4. k \in DOMAIN table.at /\ table.at[k] \in Value
  <2>1. k \in ToSet(table.list)
    BY <1>1, <1>2, FoundIsMember
  <2> QED BY <1>3, <2>1 DEF Range
<1>5. /\ TableOk(table') /\ table'.at = [j \in DOMAIN table.at \ {k} |-> table.at[j]]
  BY <1>1, <1>2, <1>3, <1>4, DeleteIsOk
<1>6. Items' = Items /\ ArrayOk' /\ OneKind'
  BY <1>1, <1>2 DEF Items, ArrayOk, CellsOk, OneKind
<1>7. Balanced(refs', held', table'.at, Items')
  <2> SUFFICES ASSUME NEW u \in Value
               PROVE  refs'[u] = refs[u] + (held[u] - held[u])
                                         + (Count(table'.at, u) - Count(table.at, u))
                                         + (Count(Items, u) - Count(Items, u))
    BY <1>2, <1>6 DEF Balanced
  <2>1. Count(table'.at, u) = Count(table.at, u) - (IF table.at[k] = u THEN 1 ELSE 0)
    BY <1>3, <1>4, <1>5, CountDropped, SMTT(20)
  <2>2. /\ refs[u] \in Nat /\ held[u] \in Nat
        /\ Count(table.at, u) \in Nat /\ Count(Items, u) \in Nat
    BY <1>1, InvGives
  <2>3. refs'[u] = refs[u] - (IF table.at[k] = u THEN 1 ELSE 0)
    BY <1>1, <1>2, <1>4
  <2> QED BY <2>1, <2>2, <2>3
<1>8. refs' \in [Value -> Int]
  <2>1. \A x \in Value : [refs EXCEPT ![x] = @ - 1] \in [Value -> Int]
    BY <1>1
  <2> QED BY <1>2, <1>4, <2>1
<1>9. ValuesInv'
  BY <1>1, <1>2, <1>5, <1>6, <1>7, <1>8, StepKeeps
<1> QED BY <1>2, <1>4, <1>5, <1>6, <1>9 DEF Becomes

(* json_object_clear and json_array_clear and the end of a container.      *)
LEMMA ObjectClearBecomes ==
    ASSUME ValuesInv, ObjectClear
    PROVE  Becomes(<<>>, <<>>, held)
<1>1. /\ TableOk(table) /\ kind = "object" /\ array.entries = 0 /\ refs \in [Value -> Nat]
      /\ held \in [Value -> Nat] /\ ArrayOk
  BY InvGives DEF ObjectClear, OneKind
<1>2. /\ refs' = DecrefAll(refs, Members) /\ table' = Emptied(table.num)
      /\ UNCHANGED <<kind, array, held>>
  BY DEF ObjectClear, Cleared
<1>3. table.num \in 1..Len(Primes)
  BY <1>1 DEF TableOk, TableShape
<1>4. TableOk(table') /\ table'.list = <<>> /\ table'.at = <<>>
  <2>1. Emptied(table.num).at = <<>>
    BY DEF Emptied
  <2> QED BY <1>2, <1>3, <2>1, EmptiedIsOk
<1>5. Items' = Items /\ ArrayOk' /\ OneKind'
  BY <1>1, <1>2 DEF Items, ArrayOk, CellsOk, OneKind
<1>6. ASSUME NEW u \in Value
      PROVE  /\ Count(table.at, u) \in Nat /\ refs[u] \in Nat
             /\ refs'[u] = refs[u] - Count(table.at, u)
  <2>1. Count(Members, u) = Count(table.at, u)
    BY <1>1, CountMembers
  <2>2. DOMAIN refs = Value
    BY <1>1
  <2> QED BY <1>1, <1>2, <2>1, <2>2, InvGives DEF DecrefAll
<1>7. Balanced(refs', held', table'.at, Items')
  <2> SUFFICES ASSUME NEW u \in Value
               PROVE  refs'[u] = refs[u] + (held[u] - held[u])
                                         + (Count(table'.at, u) - Count(table.at, u))
                                         + (Count(Items, u) - Count(Items, u))
    BY <1>2, <1>5 DEF Balanced
  <2>1. Count(table'.at, u) = 0
    BY <1>4, CountNothing
  <2>2. held[u] \in Nat /\ Count(Items, u) \in Nat
    BY <1>1, InvGives
  <2> QED BY <1>6, <2>1, <2>2
<1>8. refs' \in [Value -> Int]
  <2>1. DOMAIN refs = Value
    BY <1>1
  <2>2. refs' = [u \in Value |-> refs'[u]]
    BY <1>2, <2>1, Zenon DEF DecrefAll
  <2>3. \A u \in Value : refs'[u] \in Int
    BY <1>6
  <2> QED BY <2>2, <2>3
<1>9. ValuesInv'
  BY <1>1, <1>2, <1>4, <1>5, <1>7, <1>8, StepKeeps
<1>10. Items = <<>>
  BY <1>1, ItemsOk
<1> QED BY <1>2, <1>4, <1>5, <1>9, <1>10 DEF Becomes

LEMMA ArrayClearBecomes ==
    ASSUME ValuesInv, ArrayClear
    PROVE  Becomes(<<>>, <<>>, held)
<1>1. /\ TableOk(table) /\ kind = "array" /\ table.list = <<>> /\ refs \in [Value -> Nat]
      /\ held \in [Value -> Nat] /\ CellsOk(array)
  BY InvGives DEF ArrayClear, OneKind, ArrayOk
<1>2. /\ refs' = DecrefAll(refs, Items) /\ array' = [array EXCEPT !.entries = 0]
      /\ UNCHANGED <<kind, table, held>>
  BY DEF ArrayClear
<1>3. CellsOk(array') /\ array'.entries = 0
  BY <1>1, <1>2 DEF CellsOk
<1>4. TableOk(table') /\ table'.at = table.at /\ ArrayOk' /\ OneKind'
  BY <1>1, <1>2, <1>3 DEF ArrayOk, OneKind
<1>5. Items' = <<>>
  <2>1. Items' = [i \in 1..array'.entries |-> array'.cells[i - 1]]
    BY DEF Items
  <2> QED BY <1>3, <2>1
<1>6. ASSUME NEW u \in Value
      PROVE  /\ Count(Items, u) \in Nat /\ refs[u] \in Nat
             /\ refs'[u] = refs[u] - Count(Items, u)
  <2>1. DOMAIN refs = Value
    BY <1>1
  <2> QED BY <1>1, <1>2, <2>1, InvGives DEF DecrefAll
<1>7. Balanced(refs', held', table'.at, Items')
  <2> SUFFICES ASSUME NEW u \in Value
               PROVE  refs'[u] = refs[u] + (held[u] - held[u])
                                         + (Count(table.at, u) - Count(table.at, u))
                                         + (Count(Items', u) - Count(Items, u))
    BY <1>2, <1>4 DEF Balanced
  <2>1. Count(Items', u) = 0
    BY <1>5, CountNothing
  <2>2. held[u] \in Nat /\ Count(table.at, u) \in Nat
    BY <1>1, InvGives
  <2> QED BY <1>6, <2>1, <2>2
<1>8. refs' \in [Value -> Int]
  <2>1. DOMAIN refs = Value
    BY <1>1
  <2>2. refs' = [u \in Value |-> refs'[u]]
    BY <1>2, <2>1, Zenon DEF DecrefAll
  <2>3. \A u \in Value : refs'[u] \in Int
    BY <1>6
  <2> QED BY <2>2, <2>3
<1>9. ValuesInv'
  BY <1>1, <1>2, <1>4, <1>7, <1>8, StepKeeps
<1>10. table.at = <<>>
  <2>1. table.at \in [ToSet(<<>>) -> Value]
    BY <1>1 DEF TableOk, TableShape
  <2> QED BY <2>1 DEF ToSet
<1> QED BY <1>2, <1>4, <1>5, <1>9, <1>10 DEF Becomes

LEMMA NewContainersOk ==
    /\ TableOk(Emptied(1)) /\ Emptied(1).list = <<>> /\ Emptied(1).at = <<>>
    /\ CellsOk(NewArray) /\ NewArray.entries = 0 /\ ItemsOf(NewArray) = <<>>
<1>1. 1 \in 1..Len(Primes)
  BY TableAssumption
<1>2. Emptied(1).at = <<>>
  BY DEF Emptied
<1>3. CellsOk(NewArray) /\ NewArray.entries = 0
  BY TableAssumption DEF CellsOk, NewArray
<1>4. ItemsOf(NewArray) = <<>>
  BY <1>3 DEF ItemsOf
<1> QED BY <1>1, <1>2, <1>3, <1>4, EmptiedIsOk

LEMMA RenewBecomes ==
    ASSUME ValuesInv, Renew
    PROVE  Becomes(<<>>, <<>>, held)
<1>1. TableOk(table) /\ refs \in [Value -> Nat] /\ held \in [Value -> Nat]
  BY InvGives
<1>2. /\ refs' = DecrefAll(DecrefAll(refs, Members), Items)
      /\ kind' \in {"object", "array"} /\ table' = Emptied(1) /\ array' = NewArray
      /\ held' = held
  BY DEF Renew
<1>3. /\ TableOk(table') /\ table'.list = <<>> /\ table'.at = <<>>
      /\ CellsOk(array') /\ array'.entries = 0 /\ ItemsOf(array') = <<>>
  BY <1>2, NewContainersOk
<1>4. ArrayOk' /\ OneKind' /\ Items' = <<>>
  BY <1>2, <1>3 DEF ArrayOk, OneKind, Items, ItemsOf
<1>5. ASSUME NEW u \in Value
      PROVE  /\ Count(table.at, u) \in Nat /\ Count(Items, u) \in Nat /\ refs[u] \in Nat
             /\ refs'[u] = refs[u] - Count(table.at, u) - Count(Items, u)
  <2>1. Count(Members, u) = Count(table.at, u)
    BY <1>1, CountMembers
  <2>2. DOMAIN refs = Value
    BY <1>1
  <2> QED BY <1>1, <1>2, <2>1, <2>2, InvGives DEF DecrefAll
<1>6. Balanced(refs', held', table'.at, Items')
  <2> SUFFICES ASSUME NEW u \in Value
               PROVE  refs'[u] = refs[u] + (held[u] - held[u])
                                         + (Count(table'.at, u) - Count(table.at, u))
                                         + (Count(Items', u) - Count(Items, u))
    BY <1>2 DEF Balanced
  <2>1. Count(Items', u) = 0 /\ Count(table'.at, u) = 0
    BY <1>3, <1>4, CountNothing
  <2>2. held[u] \in Nat
    BY <1>1
  <2> QED BY <1>5, <2>1, <2>2
<1>7. refs' \in [Value -> Int]
  <2>1. DOMAIN refs = Value
    BY <1>1
  <2>2. refs' = [u \in Value |-> refs'[u]]
    BY <1>2, <2>1, Zenon DEF DecrefAll
  <2>3. \A u \in Value : refs'[u] \in Int
    BY <1>5
  <2> QED BY <2>2, <2>3
<1>8. ValuesInv'
  BY <1>1, <1>2, <1>3, <1>4, <1>6, <1>7, StepKeeps
<1> QED BY <1>2, <1>3, <1>4, <1>8 DEF Becomes

(* An operation of the array that puts v at a place: the items become s,   *)
(* and the reference of the item that was there is given back.             *)
LEMMA ArrayPutBecomes ==
    ASSUME ValuesInv, kind = "array", NEW v \in Value, NEW new \in BOOLEAN, Taking(v, new),
           UNCHANGED <<kind, table>>, CellsOk(array'), NEW s, ItemsOf(array') = s,
           refs' \in [Value -> Int],
           \A u \in Value : refs'[u] = Taken(v, new)[u] + (Count(s, u) - Count(Items, u))
                                       - (IF v = u THEN 1 ELSE 0)
    PROVE  Becomes(table.at, s, held')
<1>1. TableOk(table) /\ refs \in [Value -> Nat] /\ held \in [Value -> Nat]
      /\ table.list = <<>>
  BY InvGives DEF OneKind
<1>2. /\ held' \in [Value -> Nat]
      /\ \A u \in Value : Taken(v, new)[u] = refs[u] + (held'[u] - held[u])
                                                     + (IF v = u THEN 1 ELSE 0)
  BY TakenCounts
<1>3. Items' = s /\ ArrayOk' /\ OneKind' /\ TableOk(table') /\ table'.at = table.at
  BY <1>1 DEF Items, ItemsOf, ArrayOk, OneKind
<1>4. IsFiniteSet(DOMAIN s)
  <2>1. array'.entries \in Nat
    BY DEF CellsOk
  <2>2. IsFiniteSet(1..array'.entries)
    BY <2>1, FS_Interval
  <2> QED BY <2>2, ItemsAre
<1>5. Balanced(refs', held', table'.at, Items')
  <2> SUFFICES ASSUME NEW u \in Value
               PROVE  refs'[u] = refs[u] + (held'[u] - held[u])
                                         + (Count(table.at, u) - Count(table.at, u))
                                         + (Count(s, u) - Count(Items, u))
    BY <1>3 DEF Balanced
  <2>1. /\ refs[u] \in Nat /\ held[u] \in Nat /\ held'[u] \in Nat
        /\ Count(table.at, u) \in Nat /\ Count(Items, u) \in Nat
    BY <1>1, <1>2, InvGives
  <2>2. Count(s, u) \in Nat
    BY <1>4, CountIsNatural
  <2> QED BY <1>2, <2>1, <2>2
<1>6. ValuesInv'
  BY <1>2, <1>3, <1>5, StepKeeps
<1> QED BY <1>3, <1>6 DEF Becomes

LEMMA SameItems == Items = ItemsOf(array)
BY DEF Items, ItemsOf

LEMMA ArrayInsertBecomes ==
    ASSUME ValuesInv, NEW i \in Nat, NEW v \in Value, NEW new \in BOOLEAN,
           ArrayInsert(i, v, new)
    PROVE  i + 1 \in 1..Len(Items) + 1 /\ Becomes(table.at, InsertAt(Items, i + 1, v), held')
<1> DEFINE a == Room(array)
           moved == Move(a.cells, i + 1, i, a.entries - i)
           c == [moved EXCEPT ![i] = v]
           s == InsertAt(Items, i + 1, v)
<1>1. CellsOk(array) /\ kind = "array" /\ refs \in [Value -> Nat]
  BY InvGives DEF ArrayInsert, ArrayOk
<1>2. /\ Taking(v, new) /\ UNCHANGED <<kind, table>> /\ i <= array.entries
      /\ refs' = Taken(v, new) /\ array' = [a EXCEPT !.cells = c, !.entries = @ + 1]
  BY DEF ArrayInsert
<1>3. /\ CellsOk(a) /\ a.entries = array.entries /\ a.entries < a.size
      /\ \A j \in 0..array.entries - 1 : a.cells[j] = array.cells[j]
  BY <1>1, RoomOk
<1> HIDE DEF a
<1>4. ItemsOf(a) = Items
  BY <1>3 DEF ItemsOf, Items, CellsOk
<1>5. /\ a.entries \in Nat /\ a.size \in Nat /\ i \in 0..a.entries
      /\ a.cells \in [0..a.size - 1 -> Value \cup {Nothing}]
  BY <1>2, <1>3 DEF CellsOk
<1>6. ASSUME NEW j \in 0..a.size - 1
      PROVE  moved[j] = IF j \notin i + 1..a.entries THEN a.cells[j] ELSE a.cells[j - 1]
  <2>1. moved[j] = IF j \notin i + 1..(i + 1) + (a.entries - i) - 1 THEN a.cells[j]
                   ELSE IF j - (i + 1) + i \in DOMAIN a.cells THEN a.cells[j - (i + 1) + i]
                   ELSE Nothing
    BY <1>5 DEF Move
  <2>2. (i + 1) + (a.entries - i) - 1 = a.entries /\ j - (i + 1) + i = j - 1
    <3> DEFINE n == a.entries
    <3>1. n \in Nat /\ i \in Nat /\ j \in Nat
      BY <1>5
    <3> HIDE DEF n
    <3>2. (i + 1) + (n - i) - 1 = n /\ j - (i + 1) + i = j - 1
      BY <3>1
    <3> QED BY <3>2 DEF n
  <2>3. j \in i + 1..a.entries => j - 1 \in DOMAIN a.cells
    BY <1>5
  <2> HIDE DEF moved
  <2> QED BY <2>1, <2>2, <2>3
<1>7. DOMAIN moved = 0..a.size - 1 /\ moved = [j \in 0..a.size - 1 |-> moved[j]]
  BY <1>5 DEF Move
<1> HIDE DEF moved
<1>8. c \in [0..a.size - 1 -> Value \cup {Nothing}]
  <2>1. ASSUME NEW j \in 0..a.size - 1 PROVE moved[j] \in Value \cup {Nothing}
    <3>1. CASE j \notin i + 1..a.entries
      BY <1>5, <1>6, <3>1
    <3>2. CASE j \in i + 1..a.entries
      <4>1. j - 1 \in 0..a.size - 1
        BY <1>5, <3>2
      <4> QED BY <1>5, <1>6, <3>2, <4>1
    <3> QED BY <3>1, <3>2
  <2>2. moved \in [0..a.size - 1 -> Value \cup {Nothing}]
    BY <1>7, <2>1
  <2> QED BY <2>2
<1>9. ASSUME NEW j \in 0..a.entries
      PROVE  c[j] = IF j < i THEN a.cells[j] ELSE IF j = i THEN v ELSE a.cells[j - 1]
  <2>1. j \in 0..a.size - 1
    BY <1>3, <1>5
  <2>2. c[j] = IF j = i THEN v ELSE moved[j]
    BY <1>7, <2>1
  <2>3. moved[j] = IF j \notin i + 1..a.entries THEN a.cells[j] ELSE a.cells[j - 1]
    BY <1>6, <2>1
  <2> HIDE DEF c
  <2> QED BY <1>5, <2>2, <2>3
<1> HIDE DEF c
<1>10. MovedUp(c, a, i, v)
  BY <1>9 DEF MovedUp
<1>11. CellsOk(array') /\ ItemsOf(array') = s
  <2>1. NewItem([a EXCEPT !.cells = c, !.entries = @ + 1], a, i, v)
    BY <1>3, <1>5, <1>8, <1>10, NewItemInserted
  <2>2. NewItem(array', a, i, v)
    BY <1>2, <2>1
  <2> QED BY <1>4, <2>2, Zenon DEF NewItem
<1>12. Items \in Seq(Value) /\ Len(Items) = array.entries /\ i + 1 \in 1..Len(Items) + 1
  <2>1. Items \in Seq(Value) /\ Len(Items) = array.entries
    BY <1>1, ItemsAre, SameItems
  <2> QED BY <1>3, <1>5, <2>1
<1>13. ASSUME NEW u \in Value
       PROVE  refs'[u] = Taken(v, new)[u] + (Count(s, u) - Count(Items, u))
                         - (IF v = u THEN 1 ELSE 0)
  <2>1. Count(s, u) = Count(Items, u) + (IF v = u THEN 1 ELSE 0)
    BY <1>12, CountInsert
  <2>2. Count(Items, u) \in Nat /\ Taken(v, new)[u] \in Int
    BY <1>2, InvGives, TakenCounts
  <2> QED BY <1>2, <2>1, <2>2
<1>14. refs' \in [Value -> Int]
  BY <1>2, TakenCounts
<1> HIDE DEF s
<1>15. Becomes(table.at, s, held')
  BY <1>1, <1>2, <1>11, <1>13, <1>14, ArrayPutBecomes
<1> QED BY <1>12, <1>15 DEF s

LEMMA ArrayAppendBecomes ==
    ASSUME ValuesInv, NEW v \in Value, NEW new \in BOOLEAN, ArrayAppend(v, new)
    PROVE  Becomes(table.at, InsertAt(Items, Len(Items) + 1, v), held')
<1> DEFINE a == Room(array)
           i == array.entries
           c == [a.cells EXCEPT ![i] = v]
           s == InsertAt(Items, i + 1, v)
<1>1. CellsOk(array) /\ kind = "array" /\ refs \in [Value -> Nat]
  BY InvGives DEF ArrayAppend, ArrayOk
<1>2. /\ CellsOk(a) /\ a.entries = i /\ a.entries < a.size
      /\ \A j \in 0..i - 1 : a.cells[j] = array.cells[j]
  BY <1>1, RoomOk
<1>3. /\ Taking(v, new) /\ UNCHANGED <<kind, table>> /\ refs' = Taken(v, new)
      /\ array' = [a EXCEPT !.cells[a.entries] = v, !.entries = @ + 1]
  BY DEF ArrayAppend
<1> HIDE DEF a
<1>4. array' = [a EXCEPT !.cells = c, !.entries = @ + 1]
  BY <1>2, <1>3
<1>5. ItemsOf(a) = Items
  BY <1>2 DEF ItemsOf, Items, CellsOk
<1>6. /\ a.entries \in Nat /\ a.size \in Nat /\ i \in 0..a.entries
      /\ a.cells \in [0..a.size - 1 -> Value \cup {Nothing}]
  BY <1>2 DEF CellsOk
<1>7. c \in [0..a.size - 1 -> Value \cup {Nothing}]
  BY <1>6
<1>8. MovedUp(c, a, i, v)
  <2>1. ASSUME NEW j \in 0..a.entries PROVE c[j] = IF j = i THEN v ELSE a.cells[j]
    BY <1>2, <1>6
  <2> HIDE DEF c
  <2> QED BY <1>2, <1>6, <2>1 DEF MovedUp
<1> HIDE DEF c
<1>9. CellsOk(array') /\ ItemsOf(array') = s
  <2>1. NewItem([a EXCEPT !.cells = c, !.entries = @ + 1], a, i, v)
    BY <1>2, <1>6, <1>7, <1>8, NewItemInserted
  <2>2. NewItem(array', a, i, v)
    BY <1>4, <2>1
  <2> QED BY <1>5, <2>2, Zenon DEF NewItem
<1>10. Items \in Seq(Value) /\ Len(Items) = i /\ i + 1 \in 1..Len(Items) + 1
  <2>1. Items \in Seq(Value) /\ Len(Items) = i
    BY <1>1, ItemsAre, SameItems
  <2> QED BY <1>2, <1>6, <2>1
<1>11. ASSUME NEW u \in Value
       PROVE  refs'[u] = Taken(v, new)[u] + (Count(s, u) - Count(Items, u))
                         - (IF v = u THEN 1 ELSE 0)
  <2>1. Count(s, u) = Count(Items, u) + (IF v = u THEN 1 ELSE 0)
    BY <1>10, CountInsert
  <2>2. Count(Items, u) \in Nat /\ Taken(v, new)[u] \in Int
    BY <1>3, InvGives, TakenCounts
  <2> QED BY <1>3, <2>1, <2>2
<1>12. refs' \in [Value -> Int]
  BY <1>3, TakenCounts
<1> HIDE DEF s
<1>13. Becomes(table.at, s, held')
  BY <1>1, <1>3, <1>9, <1>11, <1>12, ArrayPutBecomes
<1> QED BY <1>10, <1>13 DEF s

LEMMA ArraySetBecomes ==
    ASSUME ValuesInv, NEW i \in Nat, NEW v \in Value, NEW new \in BOOLEAN, ArraySet(i, v, new)
    PROVE  i + 1 \in 1..Len(Items) /\ Becomes(table.at, [Items EXCEPT ![i + 1] = v], held')
<1> DEFINE s == [Items EXCEPT ![i + 1] = v]
           old == array.cells[i]
           took == Taken(v, new)
<1>1. /\ CellsOk(array) /\ kind = "array" /\ refs \in [Value -> Nat]
      /\ array.entries \in Nat /\ i \in 0..array.entries - 1 /\ array.cells[i] \in Value
  BY InvGives DEF ArraySet, ArrayOk, CellsOk
<1>2. /\ Taking(v, new) /\ UNCHANGED <<kind, table>>
      /\ refs' = [took EXCEPT ![old] = @ - 1] /\ array' = [array EXCEPT !.cells[i] = v]
  BY DEF ArraySet, Decref
<1>3. CellsOk(array') /\ ItemsOf(array') = s
  BY <1>1, <1>2, ItemReplaced, SameItems
<1>4. /\ Items \in Seq(Value) /\ Len(Items) = array.entries /\ i + 1 \in 1..Len(Items)
      /\ DOMAIN Items = 1..Len(Items) /\ Items[i + 1] = old
  <2>1. Items \in Seq(Value) /\ Len(Items) = array.entries
        /\ \A j \in 1..array.entries : Items[j] = array.cells[j - 1]
    BY <1>1, ItemsAre, SameItems
  <2>2. i + 1 \in 1..array.entries /\ (i + 1) - 1 = i
    BY <1>1
  <2> QED BY <2>1, <2>2
<1>5. took \in [Value -> Int]
  BY <1>2, TakenCounts
<1> HIDE DEF old, took
<1>6. IsFiniteSet(DOMAIN Items)
  BY <1>1, ItemsOk DEF ArrayOk
<1>7. ASSUME NEW u \in Value
      PROVE  refs'[u] = took[u] + (Count(s, u) - Count(Items, u)) - (IF v = u THEN 1 ELSE 0)
  <2>1. DOMAIN s = DOMAIN Items /\ s[i + 1] = v /\ i + 1 \in DOMAIN Items
        /\ \A x \in DOMAIN Items \ {i + 1} : s[x] = Items[x]
    BY <1>4
  <2> HIDE DEF s
  <2>2. Count(s, u) = Count(Items, u) - (IF old = u THEN 1 ELSE 0) + (IF v = u THEN 1 ELSE 0)
    BY <1>4, <1>6, <2>1, CountChanged, SMTT(20)
  <2>3. Count(Items, u) \in Nat /\ took[u] \in Int
    BY <1>5, InvGives
  <2>4. refs'[u] = took[u] - (IF old = u THEN 1 ELSE 0)
    BY <1>2, <1>5
  <2> QED BY <2>2, <2>3, <2>4
<1>8. refs' \in [Value -> Int]
  <2>1. \A x \in Value : [took EXCEPT ![x] = @ - 1] \in [Value -> Int]
    BY <1>5
  <2>2. old \in Value
    BY <1>1 DEF old
  <2> QED BY <1>2, <2>1, <2>2
<1> HIDE DEF s
<1>9. Becomes(table.at, s, held')
  BY <1>1, <1>2, <1>3, <1>7, <1>8, ArrayPutBecomes DEF took
<1> QED BY <1>4, <1>9 DEF s

LEMMA ArrayRemoveBecomes ==
    ASSUME ValuesInv, NEW i \in Nat, ArrayRemove(i)
    PROVE  i + 1 \in 1..Len(Items) /\ Becomes(table.at, RemoveAt(Items, i + 1), held)
<1> DEFINE s == RemoveAt(Items, i + 1)
           old == array.cells[i]
<1>1. /\ CellsOk(array) /\ kind = "array" /\ refs \in [Value -> Nat] /\ TableOk(table)
      /\ held \in [Value -> Nat] /\ table.list = <<>>
      /\ array.entries \in Nat /\ i \in 0..array.entries - 1 /\ array.cells[i] \in Value
  BY InvGives DEF ArrayRemove, ArrayOk, CellsOk, OneKind
<1>2. /\ UNCHANGED <<kind, table, held>> /\ refs' = [refs EXCEPT ![old] = @ - 1]
      /\ array' = [array EXCEPT !.cells = Move(@, i, i + 1, array.entries - i),
                                !.entries = @ - 1]
  BY DEF ArrayRemove, Decref
<1>3. CellsOk(array') /\ ItemsOf(array') = s
  BY <1>1, <1>2, ItemRemoved, SameItems, ZenonT(30)
<1>4. /\ Items \in Seq(Value) /\ Len(Items) = array.entries /\ i + 1 \in 1..Len(Items)
      /\ Items[i + 1] = old
  <2>1. Items \in Seq(Value) /\ Len(Items) = array.entries
        /\ \A j \in 1..array.entries : Items[j] = array.cells[j - 1]
    BY <1>1, ItemsAre, SameItems
  <2>2. i + 1 \in 1..array.entries /\ (i + 1) - 1 = i
    BY <1>1
  <2> QED BY <2>1, <2>2
<1>5. old \in Value
  BY <1>1
<1> HIDE DEF old
<1>6. Items' = s /\ ArrayOk' /\ OneKind' /\ TableOk(table') /\ table'.at = table.at
  BY <1>1, <1>2, <1>3 DEF Items, ItemsOf, ArrayOk, OneKind
<1>7. Balanced(refs', held', table'.at, Items')
  <2> SUFFICES ASSUME NEW u \in Value
               PROVE  refs'[u] = refs[u] + (held[u] - held[u])
                                         + (Count(table.at, u) - Count(table.at, u))
                                         + (Count(s, u) - Count(Items, u))
    BY <1>2, <1>6 DEF Balanced
  <2>1. Count(s, u) = Count(Items, u) - (IF old = u THEN 1 ELSE 0)
    BY <1>4, CountRemove
  <2> HIDE DEF s
  <2>2. /\ refs[u] \in Nat /\ held[u] \in Nat
        /\ Count(table.at, u) \in Nat /\ Count(Items, u) \in Nat
    BY <1>1, InvGives
  <2>3. refs'[u] = refs[u] - (IF old = u THEN 1 ELSE 0)
    BY <1>1, <1>2, <1>5
  <2> QED BY <2>1, <2>2, <2>3
<1>8. refs' \in [Value -> Int]
  <2>1. \A x \in Value : [refs EXCEPT ![x] = @ - 1] \in [Value -> Int]
    BY <1>1
  <2> QED BY <1>2, <1>5, <2>1
<1>9. ValuesInv'
  BY <1>1, <1>2, <1>6, <1>7, <1>8, StepKeeps
<1> QED BY <1>2, <1>4, <1>6, <1>9 DEF Becomes

-----------------------------------------------------------------------------
(* The abstract container.                                                 *)

LEMMA MembersAre ==
    ASSUME NEW t, TableOk(t)
    PROVE  [k \in ToSet(t.list) |-> Get(t, k)] = t.at
<1>1. t.list \in Seq(Key) /\ t.at \in [ToSet(t.list) -> Value]
  BY DEF TableOk, TableShape
<1>2. ASSUME NEW k \in ToSet(t.list) PROVE Get(t, k) = t.at[k]
  <2>1. k \in Key
    BY <1>1 DEF ToSet
  <2> QED BY <2>1, FoundIsMember DEF Get
<1> QED BY <1>1, <1>2

(* The state of the abstract container after the step.                     *)
Follows(m, s, h) ==
    /\ ValuesInv' /\ Items' = s /\ held' = h
    /\ [k \in ToSet(table'.list) |-> Get(table', k)] = m
    /\ {v \in Value : refs'[v] # 0} = Range(m) \cup Range(s) \cup {v \in Value : h[v] > 0}

LEMMA ContainerBecomes ==
    ASSUME ValuesInv, NEW m, NEW s, NEW h, Becomes(m, s, h)
    PROVE  Follows(m, s, h)
<1>1. /\ TableOk(table') /\ ValuesInv' /\ table'.at = m /\ Items' = s /\ held' = h
  BY DEF Becomes, ValuesInv, TableOk, TableShape, Once, BucketOk, NoPair, Run, BucketOf
<1>2. [k \in ToSet(table'.list) |-> Get(table', k)] = m
  BY <1>1, MembersAre
<1>3. {v \in Value : refs'[v] # 0} = Range(m) \cup Range(s) \cup {v \in Value : h[v] > 0}
  <2>1. IsFiniteSet(DOMAIN m) /\ Range(m) \subseteq Value
    BY <1>1, PairsOk
  <2>2. IsFiniteSet(DOMAIN s) /\ Range(s) \subseteq Value /\ h \in [Value -> Nat]
        /\ Agree(refs', h, m, s)
    <3>1. CellsOk(array') /\ h \in [Value -> Nat] /\ CountsAgree'
      BY <1>1 DEF ValuesInv, ArrayOk
    <3>2. ItemsOf(array') = s
      BY <1>1 DEF Items, ItemsOf
    <3>3. s \in Seq(Value) /\ DOMAIN s = 1..array'.entries /\ array'.entries \in Nat
      BY <3>1, <3>2, ItemsAre DEF CellsOk
    <3>4. IsFiniteSet(DOMAIN s)
      BY <3>3, FS_Interval
    <3>5. Range(s) \subseteq Value
      BY <3>3 DEF Range
    <3>6. Agree(refs', h, m, s)
      BY <1>1, <3>1 DEF CountsAgree, Agree
    <3> QED BY <3>1, <3>4, <3>5, <3>6
  <2> QED BY <2>1, <2>2, AliveIsHeld
<1> QED BY <1>1, <1>2, <1>3 DEF Follows

LEMMA HeldStays ==
    ASSUME NEW v \in Value, NEW new \in BOOLEAN, Taking(v, new)
    PROVE  held[v] > 0 /\ held' \in {Container!Kept(v), Container!Given(v)}
BY DEF Taking, Decref, Container!Kept, Container!Given

(* Values that the caller makes, keeps and gives up.                       *)
LEMMA ValueStep ==
    ASSUME ValuesInv, NEW v \in Value, New(v) \/ Retain(v) \/ Release(v)
    PROVE  ValuesInv' /\ (Container!New(v) \/ Container!Retain(v) \/ Container!Release(v))
<1> DEFINE m == [k \in ToSet(table.list) |-> Get(table, k)]
<1>1. m = table.at
  BY InvGives, MembersAre
<1> HIDE DEF m
<1>2. CASE New(v)
  <2>1. Follows(m, Items, [held EXCEPT ![v] = 1])
    BY <1>1, <1>2, NewBecomes, ContainerBecomes
  <2>2. v \notin {u \in Value : refs[u] # 0}
    BY <1>2 DEF New
  <2> QED BY <2>1, <2>2 DEF Follows, Container!New, Container!Become, Container!Range, Range, m
<1>3. CASE Retain(v)
  <2>1. held[v] > 0 /\ Follows(m, Items, [held EXCEPT ![v] = @ + 1])
    BY <1>1, <1>3, RetainBecomes, ContainerBecomes
  <2> QED BY <2>1 DEF Follows, Container!Retain, Container!Become, Container!Range, Range, m
<1>4. CASE Release(v)
  <2>1. held[v] > 0 /\ Follows(m, Items, [held EXCEPT ![v] = @ - 1])
    BY <1>1, <1>4, ReleaseBecomes, ContainerBecomes
  <2> QED BY <2>1 DEF Follows, Container!Release, Container!Become, Container!Range, Range, Container!Given, m
<1> QED BY <1>2, <1>3, <1>4

LEMMA PutStep ==
    ASSUME NEW v \in Value, NEW new \in BOOLEAN, Taking(v, new),
           Container!Put(v, held')
    PROVE  Container!Next
<1>1. Container!Put(v, Container!Kept(v)) \/ Container!Put(v, Container!Given(v))
  BY HeldStays
<1> QED BY <1>1 DEF Container!Next

LEMMA ObjectSetStep ==
    ASSUME ValuesInv, NEW k \in Key, NEW v \in Value, NEW new \in BOOLEAN,
           ObjectSet(k, v, new)
    PROVE  ValuesInv' /\ Container!Next
<1> DEFINE m == [j \in ToSet(table.list) |-> Get(table, j)]
<1>1. m = table.at
  BY InvGives, MembersAre
<1>2. Taking(v, new)
  BY DEF ObjectSet
<1>3. Follows(Assigned(m, k, v), Items, held')
  BY <1>1, ObjectSetBecomes, ContainerBecomes
<1>4. Container!Assigned(k, v) = Assigned(m, k, v)
  BY DEF Container!Assigned, Assigned
<1> HIDE DEF m
<1>5. Container!Put(v, held')
  BY <1>2, <1>3, <1>4, HeldStays DEF Follows, Container!Put, Container!Become, Container!Range, Range
<1> QED BY <1>2, <1>3, <1>5, PutStep DEF Follows

LEMMA ArrayInsertStep ==
    ASSUME ValuesInv, NEW i \in Nat, NEW v \in Value, NEW new \in BOOLEAN,
           ArrayInsert(i, v, new)
    PROVE  ValuesInv' /\ Container!Next
<1> DEFINE m == [j \in ToSet(table.list) |-> Get(table, j)]
<1>1. m = table.at
  BY InvGives, MembersAre
<1>2. Taking(v, new)
  BY DEF ArrayInsert
<1>3. /\ Follows(m, InsertAt(Items, i + 1, v), held')
      /\ i + 1 \in 1..Len(Items) + 1
  BY <1>1, ArrayInsertBecomes, ContainerBecomes
<1>4. InsertAt(Items, i + 1, v) = Container!InsertAt(Items, i + 1, v)
  BY DEF InsertAt, Container!InsertAt
<1>5. Container!Put(v, held')
  BY <1>2, <1>3, <1>4, HeldStays DEF Follows, Container!Put, Container!Become, Container!Range, Range
<1> QED BY <1>2, <1>3, <1>5, PutStep DEF Follows

LEMMA ArrayAppendStep ==
    ASSUME ValuesInv, NEW v \in Value, NEW new \in BOOLEAN, ArrayAppend(v, new)
    PROVE  ValuesInv' /\ Container!Next
<1> DEFINE m == [j \in ToSet(table.list) |-> Get(table, j)]
           i == Len(Items) + 1
<1>1. m = table.at
  BY InvGives, MembersAre
<1>2. Taking(v, new)
  BY DEF ArrayAppend
<1>3. Follows(m, InsertAt(Items, i, v), held')
  BY <1>1, ArrayAppendBecomes, ContainerBecomes
<1>4. InsertAt(Items, i, v) = Container!InsertAt(Items, i, v)
  BY DEF InsertAt, Container!InsertAt
<1>5. i \in 1..Len(Items) + 1
  BY InvGives, ItemsOk
<1>6. Container!Put(v, held')
  BY <1>2, <1>3, <1>4, <1>5, HeldStays DEF Follows, Container!Put, Container!Become, Container!Range, Range
<1> QED BY <1>2, <1>3, <1>6, PutStep DEF Follows

LEMMA ArraySetStep ==
    ASSUME ValuesInv, NEW i \in Nat, NEW v \in Value, NEW new \in BOOLEAN, ArraySet(i, v, new)
    PROVE  ValuesInv' /\ Container!Next
<1> DEFINE m == [j \in ToSet(table.list) |-> Get(table, j)]
<1>1. m = table.at
  BY InvGives, MembersAre
<1>2. Taking(v, new)
  BY DEF ArraySet
<1>3. /\ Follows(m, [Items EXCEPT ![i + 1] = v], held')
      /\ i + 1 \in 1..Len(Items)
  BY <1>1, ArraySetBecomes, ContainerBecomes
<1>4. Container!Put(v, held')
  BY <1>2, <1>3, HeldStays DEF Follows, Container!Put, Container!Become, Container!Range, Range
<1> QED BY <1>2, <1>3, <1>4, PutStep DEF Follows

(* A place is given up, or all of them.                                    *)
LEMMA TakeStep ==
    ASSUME ValuesInv,
           \/ \E k \in Key : ObjectDel(k)
           \/ \E i \in 0..MaxItems : ArrayRemove(i)
           \/ ObjectClear \/ ArrayClear \/ Renew
    PROVE  ValuesInv' /\ Container!Take
<1> DEFINE m == [j \in ToSet(table.list) |-> Get(table, j)]
<1>1. m = table.at
  BY InvGives, MembersAre
<1> HIDE DEF m
<1>2. ASSUME NEW k \in Key, ObjectDel(k) PROVE ValuesInv' /\ Container!Take
  <2>1. /\ k \in DOMAIN m
        /\ Follows([j \in DOMAIN m \ {k} |-> m[j]], Items, held)
    BY <1>1, <1>2, ObjectDelBecomes, ContainerBecomes
  <2> QED BY <2>1 DEF Follows, Container!Take, Container!Become, Container!Range, Range, Container!Without, m
<1>3. ASSUME NEW i \in 0..MaxItems, ArrayRemove(i) PROVE ValuesInv' /\ Container!Take
  <2>1. i \in Nat
    OBVIOUS
  <2>2. /\ i + 1 \in 1..Len(Items)
        /\ Follows(m, RemoveAt(Items, i + 1), held)
    BY <1>1, <1>3, <2>1, ArrayRemoveBecomes, ContainerBecomes
  <2>3. RemoveAt(Items, i + 1) = Container!RemoveAt(Items, i + 1)
    BY DEF RemoveAt, Container!RemoveAt
  <2> QED BY <2>2, <2>3 DEF Follows, Container!Take, Container!Become, Container!Range, Range, m
<1>4. ASSUME ObjectClear \/ ArrayClear \/ Renew PROVE ValuesInv' /\ Container!Take
  <2>1. Becomes(<<>>, <<>>, held)
    BY <1>4, ObjectClearBecomes, ArrayClearBecomes, RenewBecomes
  <2>2. Follows(<<>>, <<>>, held)
    BY <2>1, ContainerBecomes
  <2> QED BY <2>2 DEF Follows, Container!Take, Container!Become, Container!Range, Range
<1> QED BY <1>2, <1>3, <1>4

LEMMA ContainerStep ==
    ASSUME ValuesInv, ValuesNext
    PROVE  ValuesInv' /\ Container!Next
<1>1. ASSUME NEW v \in Value, New(v) \/ Retain(v) \/ Release(v)
      PROVE  ValuesInv' /\ Container!Next
  BY <1>1, ValueStep DEF Container!Next
<1>2. ASSUME NEW k \in Key, NEW v \in Value, NEW new \in BOOLEAN, ObjectSet(k, v, new)
      PROVE  ValuesInv' /\ Container!Next
  BY <1>2, ObjectSetStep
<1>3. ASSUME NEW i \in 0..MaxItems, NEW v \in Value, NEW new \in BOOLEAN,
             ArrayInsert(i, v, new) \/ ArraySet(i, v, new)
      PROVE  ValuesInv' /\ Container!Next
  <2>1. i \in Nat
    OBVIOUS
  <2> QED BY <1>3, <2>1, ArrayInsertStep, ArraySetStep
<1>4. ASSUME NEW v \in Value, NEW new \in BOOLEAN, ArrayAppend(v, new)
      PROVE  ValuesInv' /\ Container!Next
  BY <1>4, ArrayAppendStep
<1>5. ASSUME \/ \E k \in Key : ObjectDel(k)
             \/ \E i \in 0..MaxItems : ArrayRemove(i)
             \/ ObjectClear \/ ArrayClear \/ Renew
      PROVE  ValuesInv' /\ Container!Next
  BY <1>5, TakeStep DEF Container!Next
<1> QED BY <1>1, <1>2, <1>3, <1>4, <1>5 DEF ValuesNext

LEMMA ValuesInitOk ==
    ASSUME ValuesInit
    PROVE  ValuesInv /\ Container!Init
<1>1. /\ TableOk(table) /\ table.list = <<>> /\ table.at = <<>>
      /\ CellsOk(array) /\ array.entries = 0 /\ Items = <<>>
  BY NewContainersOk, SameItems DEF ValuesInit
<1>2. /\ held = [v \in Value |-> 0] /\ refs = [v \in Value |-> 0]
      /\ kind \in {"object", "array"}
  BY DEF ValuesInit
<1>3. ASSUME NEW v \in Value PROVE refs[v] = held[v] + Count(table.at, v) + Count(Items, v)
  <2>1. Count(table.at, v) = 0 /\ Count(Items, v) = 0
    BY <1>1, CountNothing
  <2> QED BY <1>2, <2>1
<1>4. ValuesInv
  BY <1>1, <1>2, <1>3 DEF ValuesInv, OneKind, ArrayOk, CountsAgree
<1>5. [k \in ToSet(table.list) |-> Get(table, k)] = <<>>
  BY <1>1, MembersAre
<1>6. {v \in Value : refs[v] # 0} = {}
  BY <1>2
<1> QED BY <1>1, <1>2, <1>4, <1>5, <1>6 DEF Container!Init, Container!NobodyHolds

(***************************************************************************)
(* The hash table, the cells and the reference counts are consistent after *)
(* every sequence of calls (value.c, hashtable.c): the pairs of a bucket   *)
(* stand together between its first and its last one, no name is there     *)
(* twice, and a count is the number of places that refer to the value.     *)
(***************************************************************************)
THEOREM ValuesInvariance == ValuesSpec => []ValuesInv
<1>1. ValuesInit => ValuesInv
  BY ValuesInitOk
<1>2. ValuesInv /\ [ValuesNext]_valuesVars => ValuesInv'
  <2>1. CASE UNCHANGED valuesVars
    BY <2>1 DEF valuesVars, ValuesInv, OneKind, TableOk, TableShape, Once, BucketOk, NoPair,
                Run, BucketOf, ArrayOk, CellsOk, CountsAgree, Items
  <2> QED BY <2>1, ContainerStep
<1> QED BY <1>1, <1>2, PTL DEF ValuesSpec

(***************************************************************************)
(* Objects and arrays are maps and sequences of values that live as long   *)
(* as somebody holds them, for all keys, hashes, primes and sizes: a call  *)
(* of the library (value.c, hashtable.c) is a step of the abstract         *)
(* container or none.                                                      *)
(***************************************************************************)
THEOREM ContainerImplemented == ValuesSpec => ImplementsContainer
<1>1. ValuesInit => Container!Init
  BY ValuesInitOk
<1>2. ValuesInv /\ [ValuesNext]_valuesVars => [Container!Next]_(Container!vars)
  <2>1. CASE UNCHANGED valuesVars
    BY <2>1 DEF valuesVars, Container!vars, Items
  <2> QED BY <2>1, ContainerStep
<1> QED BY <1>1, <1>2, ValuesInvariance, PTL DEF ValuesSpec, ImplementsContainer, Container!Spec
=============================================================================
