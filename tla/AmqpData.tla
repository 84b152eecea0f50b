------------------------------- MODULE AmqpData ------------------------------
(***************************************************************************)
(* The data types of AMQP as librabbitmq writes them to a buffer and reads *)
(* them back (lib/librabbitmq/amqp_private.h and amqp_table.c): integers   *)
(* of 8 to 64 bits, byte strings, and tables, whose values may be arrays   *)
(* and tables in turn.                                                     *)
(*                                                                         *)
(* A buffer is a sequence of octets.  An integer of up to 32 bits is a     *)
(* number; one of 64 bits is the pair of its halves, high first, each read *)
(* as a signed 32-bit number.  A table is a sequence of entries with a     *)
(* key, a kind and a value; an array is a sequence of kinds and values.    *)
(*                                                                         *)
(* Reading takes a buffer and an offset.  Writing returns the octets       *)
(* written: that they fit in the buffer is checked once, by the caller,    *)
(* since the code only moves forward and gives up at the first octet       *)
(* beyond the end.                                                         *)
(***************************************************************************)
EXTENDS AmqpOctets, SequencesExt, TLC

(* What f reads after r, if r worked; and r with f applied to its value.   *)
Then(r, f(_, _)) == IF r.ok THEN f(r.value, r.offset) ELSE Bad
Map(r, f(_)) == Then(r, LAMBDA v, o : Read(f(v), o))

-----------------------------------------------------------------------------
(* Integers.                                                               *)

Signed(s) == FoldLeft(LAMBDA acc, x : 256 * acc + x,
                      IF s[1] >= 128 THEN s[1] - 256 ELSE s[1], Tail(s))

DecodeBytes(s, o, n) ==
    IF o + n <= Len(s) THEN Read(SubSeq(s, o + 1, o + n), o + n) ELSE Bad

DecodeInt(n, s, o)    == Map(DecodeBytes(s, o, n), Number)
DecodeSigned(n, s, o) == Map(DecodeBytes(s, o, n), Signed)
Decode64(s, o) ==
    Map(DecodeBytes(s, o, 8), LAMBDA b : <<Signed(SubSeq(b, 1, 4)), Signed(SubSeq(b, 5, 8))>>)

(* A string preceded by its length, an integer of n octets.                *)
EncodeString(n, s) == BigEndian(n, Len(s)) \o s
DecodeString(n, s, o) ==
    Then(DecodeInt(n, s, o), LAMBDA len, p : DecodeBytes(s, p, len))

-----------------------------------------------------------------------------
(* The kinds of values in a table, and the octet that announces each.      *)

KindCode == [boolean |-> 116, i8 |-> 98, u8 |-> 66, i16 |-> 115, u16 |-> 117,
             i32 |-> 73, u32 |-> 105, i64 |-> 108, u64 |-> 76, f32 |-> 102,
             f64 |-> 100, decimal |-> 68, utf8 |-> 83, array |-> 65, bytes |-> 120,
             timestamp |-> 84, table |-> 70, void |-> 86]

Kinds == DOMAIN KindCode

RECURSIVE EncodeFieldValue(_, _), EncodeArray(_), EncodeTable(_)

EncodeFieldValue(kind, v) ==
    <<KindCode[kind]>> \o
    CASE kind = "boolean" -> <<IF v THEN 1 ELSE 0>>
      [] kind \in {"i8", "u8"} -> BigEndian(1, v)
      [] kind \in {"i16", "u16"} -> BigEndian(2, v)
      [] kind \in {"i32", "u32", "f32"} -> BigEndian(4, v)
      [] kind \in {"i64", "u64", "f64", "timestamp"} -> BigEndian64(v)
      [] kind = "decimal" -> BigEndian(1, v.decimals) \o BigEndian(4, v.value)
      [] kind \in {"utf8", "bytes"} -> EncodeString(4, v)
      [] kind = "array" -> EncodeArray(v)
      [] kind = "table" -> EncodeTable(v)
      [] kind = "void" -> <<>>

EncodeArray(a) ==
    EncodeString(4, FlattenSeq([j \in DOMAIN a |-> EncodeFieldValue(a[j].kind, a[j].value)]))

EncodeTable(t) ==
    EncodeString(4, FlattenSeq([j \in DOMAIN t |->
        EncodeString(1, t[j].key) \o EncodeFieldValue(t[j].kind, t[j].value)]))

RECURSIVE DecodeFieldValue(_, _), DecodeItems(_, _, _, _), DecodeEntries(_, _, _, _)

(* Elements up to the limit, after those already read.  The last one may   *)
(* run past the limit.                                                     *)
DecodeItems(s, o, limit, done) ==
    IF o >= limit THEN Read(done, o)
    ELSE Then(DecodeFieldValue(s, o),
              LAMBDA item, p : DecodeItems(s, p, limit, Append(done, item)))

DecodeArray(s, o) ==
    Then(DecodeInt(4, s, o), LAMBDA size, p : DecodeItems(s, p, p + size, <<>>))

DecodeEntries(s, o, limit, done) ==
    IF o >= limit THEN Read(done, o)
    ELSE Then(DecodeString(1, s, o), LAMBDA key, p :
           Then(DecodeFieldValue(s, p), LAMBDA field, q :
             DecodeEntries(s, q, limit, Append(done, [key |-> key] @@ field))))

DecodeTable(s, o) ==
    Then(DecodeInt(4, s, o), LAMBDA size, p : DecodeEntries(s, p, p + size, <<>>))

(* A value of a known kind, without the octet that announces it.           *)
DecodeKind(kind, s, o) ==
    CASE kind = "boolean" -> Map(DecodeInt(1, s, o), LAMBDA x : x # 0)
      [] kind \in {"i8", "i16", "i32"} ->
           DecodeSigned(CASE kind = "i8" -> 1 [] kind = "i16" -> 2 [] OTHER -> 4, s, o)
      [] kind \in {"u8", "u16", "u32", "f32"} ->
           DecodeInt(CASE kind = "u8" -> 1 [] kind = "u16" -> 2 [] OTHER -> 4, s, o)
      [] kind \in {"i64", "u64", "f64", "timestamp"} -> Decode64(s, o)
      [] kind = "decimal" ->
           Then(DecodeInt(1, s, o), LAMBDA d, p :
             Map(DecodeInt(4, s, p), LAMBDA x : [decimals |-> d, value |-> x]))
      [] kind \in {"utf8", "bytes"} -> DecodeString(4, s, o)
      [] kind = "array" -> DecodeArray(s, o)
      [] kind = "table" -> DecodeTable(s, o)
      [] kind = "void" -> Read(<<>>, o)

KindsOf(code) == {k \in Kinds : KindCode[k] = code}

DecodeFieldValue(s, o) ==
    Then(DecodeInt(1, s, o), LAMBDA code, p :
      IF KindsOf(code) = {} THEN Bad
      ELSE LET kind == CHOOSE k \in KindsOf(code) : TRUE
           IN  Map(DecodeKind(kind, s, p), LAMBDA x : [kind |-> kind, value |-> x]))

-----------------------------------------------------------------------------
(* amqp_table_clone: a deep copy, refused when a key is empty.             *)

RECURSIVE CloneValue(_, _), CloneTable(_)

LastNotCloned(v) == DOMAIN v \ {Len(v)}   \* defect: the loop ends too soon
Cloned(v) == DOMAIN v

CloneValue(kind, v) ==
    CASE kind = "array" ->
           LET items == [j \in DOMAIN v |-> CloneValue(v[j].kind, v[j].value)]
           IN  IF \A j \in DOMAIN v : items[j].ok
               THEN Read([j \in Cloned(v) |-> [kind |-> v[j].kind, value |-> items[j].value]], 0)
               ELSE Bad
      [] kind = "table" -> CloneTable(v)
      [] OTHER -> Read(v, 0)

CloneTable(t) ==
    LET values == [j \in DOMAIN t |-> CloneValue(t[j].kind, t[j].value)]
    IN  IF \A j \in DOMAIN t : t[j].key # <<>> /\ values[j].ok
        THEN Read([j \in DOMAIN t |-> [t[j] EXCEPT !.value = values[j].value]], 0)
        ELSE Bad

(* When that has to work: for tables without an empty key, at any depth.   *)
RECURSIVE KeysNotEmpty(_, _)
KeysNotEmpty(kind, v) ==
    kind \in {"array", "table"} =>
        \A j \in DOMAIN v : (kind = "table" => v[j].key # <<>>) /\ KeysNotEmpty(v[j].kind, v[j].value)

Keyed(t) == KeysNotEmpty("table", t)
=============================================================================
