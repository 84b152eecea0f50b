------------------------------- MODULE JsonText ------------------------------
(***************************************************************************)
(* json_dumps with the flags 0, as src/json.c and src/events.c call it:    *)
(* jansson's dump.c, utf.c, strconv.c and strbuffer.c.  A text is a        *)
(* sequence of bytes without its final \0; a value a record: an object has *)
(* the members [key, value] in the order of its list, a real what snprintf *)
(* writes for "%.17g".  No value contains itself: `visited' is left out.   *)
(***************************************************************************)
EXTENDS Integers, Sequences, SequencesExt

CONSTANTS Values,   \* bound: the values to dump
          MinSize,  \* STRBUFFER_MIN_SIZE
          Point     \* the decimal point of the locale

Quote        == 34
Backslash    == 92
Comma        == 44
Colon        == 58
Blank        == 32
BracketOpen  == 91
BracketClose == 93
BraceOpen    == 123
BraceClose   == 125
Dot          == 46
Minus        == 45
Plus         == 43
Zero         == 48
LetterE      == 101
LetterU      == 117

True  == <<116, 114, 117, 101>>
False == <<102, 97, 108, 115, 101>>
Null  == <<110, 117, 108, 108>>

VARIABLES value,   \* what is dumped
          buffer,  \* the strbuffer: [size, bytes]
          chunk,   \* how many times it was appended to
          result   \* "running", "null" or "text": what json_dumps returns

vars == <<value, buffer, chunk, result>>

-----------------------------------------------------------------------------
(* utf.c.                                                                  *)

(* utf8_check_first: the length of a character, by its first byte.         *)
LengthByFirst(u) == CASE u < 128          -> 1
                      [] u \in 194 .. 223 -> 2
                      [] u \in 224 .. 239 -> 3
                      [] u \in 240 .. 244 -> 4
                      [] OTHER            -> 0

(* A string ends with a 0.                                                 *)
ByteAt(str, p) == IF p <= Len(str) THEN str[p] ELSE 0

CodePointFrom(str, p, n) ==
    LET lead == ByteAt(str, p) % (CASE n = 2 -> 32 [] n = 3 -> 16 [] OTHER -> 8)
    IN  FoldLeft(LAMBDA c, i : c * 64 + (ByteAt(str, p + i) % 64), lead,
                 [i \in 1..n - 1 |-> i])

(* utf8_check_full.                                                        *)
FullCharacter(str, p, n) ==
    LET c == CodePointFrom(str, p, n)
    IN  /\ \A i \in 1..n - 1 : ByteAt(str, p + i) \in 128 .. 191
        /\ c <= 1114111 /\ c \notin 55296 .. 57343
        /\ c >= (CASE n = 2 -> 128 [] n = 3 -> 2048 [] OTHER -> 65536)

(* utf8_iterate: the length of the character at p, 0 if there is none.     *)
CharacterAt(str, p) ==
    LET n == LengthByFirst(str[p])
    IN  IF n > 1 /\ ~FullCharacter(str, p, n) THEN 0 ELSE n

-----------------------------------------------------------------------------
(* dump.c, scalars.  What is dumped is the chunks that are appended to the *)
(* buffer, and whether all went well.                                      *)

Dumped(ok, chunks) == [ok |-> ok, chunks |-> chunks]

Digit(n) == IF n < 10 THEN Zero + n ELSE 87 + n

Escaped(c) ==
    CASE c = Backslash -> <<Backslash, Backslash>>
      [] c = Quote     -> <<Backslash, Quote>>
      [] c = 8         -> <<Backslash, 98>>
      [] c = 12        -> <<Backslash, 102>>
      [] c = 10        -> <<Backslash, 110>>
      [] c = 13        -> <<Backslash, 114>>
      [] c = 9         -> <<Backslash, 116>>
      [] OTHER         -> <<Backslash, LetterU, Zero, Zero, Digit(c \div 16), Digit(c % 16)>>

NeedsEscape(c) == c \in {Backslash, Quote} \/ c < 32

(* dump_string: runs of characters as they are, and escapes.  What was     *)
(* dumped before a character that is not UTF-8 stays in the buffer.        *)
DumpString(str) ==
    LET Quoted(ok, chunks) ==
            Dumped(ok, <<<<Quote>>>> \o chunks \o (IF ok THEN <<<<Quote>>>> ELSE <<>>))
        Run(from, to) == IF to > from THEN <<SubSeq(str, from, to - 1)>> ELSE <<>>
        Rest[from \in 1..Len(str) + 1, p \in 1..Len(str) + 1] ==
            IF p > Len(str) THEN Dumped(TRUE, Run(from, p))
            ELSE LET n == CharacterAt(str, p) IN
                 IF n = 0 THEN Dumped(FALSE, <<>>)
                 ELSE IF NeedsEscape(str[p])
                 THEN LET rest == Rest[p + 1, p + 1]
                      IN  Dumped(rest.ok, Run(from, p) \o <<Escaped(str[p])>> \o rest.chunks)
                 ELSE Rest[from, p + n]
        all == Rest[1, 1]
    IN  Quoted(all.ok, all.chunks)

RECURSIVE Natural(_)
Natural(n) == IF n < 10 THEN <<Zero + n>> ELSE Natural(n \div 10) \o <<Zero + (n % 10)>>

Integer(n) == IF n < 0 THEN <<Minus>> \o Natural(-n) ELSE Natural(n)

FromLocale(printed) == [i \in DOMAIN printed |-> IF printed[i] = Point THEN Dot ELSE printed[i]]

NoPointAdded(printed) == FromLocale(printed)   \* defect: 2 stays 2

(* jsonp_dtostr: the point of the locale becomes a dot, a number without   *)
(* dot or exponent gets ".0", and an exponent loses "+" and leading zeros. *)
Real(printed) ==
    LET dotted == FromLocale(printed)
        real   == IF {Dot, LetterE} \cap ToSet(dotted) = {} THEN dotted \o <<Dot, Zero>>
                  ELSE dotted
        Kept(i) == ~\E e \in 1..i - 1 :
                       /\ real[e] = LetterE
                       /\ \/ i = e + 1 /\ real[i] = Plus
                          \/ i > e + 1 /\ \A j \in e + 2..i : real[j] = Zero
    IN  FoldLeft(LAMBDA r, i : IF Kept(i) THEN Append(r, real[i]) ELSE r, <<>>,
                 [i \in DOMAIN real |-> i])

-----------------------------------------------------------------------------
(* do_dump.  A key that is not UTF-8 leaves its beginning in the text and  *)
(* nothing else; json_object_set lets no such key in.                      *)

After(a, b) == Dumped(a.ok /\ b.ok, IF a.ok THEN a.chunks \o b.chunks ELSE a.chunks)

Text(bytes) == Dumped(TRUE, <<bytes>>)

Separated(dumps) ==
    FoldLeft(LAMBDA d, i : LET more == IF i = 1 THEN dumps[i]
                                       ELSE After(Dumped(TRUE, <<<<Comma>>, <<Blank>>>>), dumps[i])
                           IN  After(d, more),
             Dumped(TRUE, <<>>), [i \in DOMAIN dumps |-> i])

RECURSIVE Dump(_)
Items(s)   == Separated([i \in DOMAIN s |-> Dump(s[i])])
Members(s) == Separated([i \in DOMAIN s |->
                            After(Dumped(TRUE, DumpString(s[i].key).chunks),
                                  After(Text(<<Colon, Blank>>), Dump(s[i].value)))])
Dump(v) ==
    CASE v.is = "null"    -> Text(Null)
      [] v.is = "boolean" -> Text(IF v.content THEN True ELSE False)
      [] v.is = "integer" -> Text(Integer(v.content))
      [] v.is = "real"    -> Text(Real(v.content))
      [] v.is = "string"  -> DumpString(v.content)
      [] v.is = "array"   ->
            After(Text(<<BracketOpen>>), After(Items(v.content), Text(<<BracketClose>>)))
      [] v.is = "object"  ->
            After(Text(<<BraceOpen>>), After(Members(v.content), Text(<<BraceClose>>)))

-----------------------------------------------------------------------------
(* strbuffer.c and json_dumps.                                             *)

Larger(a, b) == IF a > b THEN a ELSE b

AppendExactly(b, bytes) ==   \* defect: no place for the final \0
    [size  |-> IF Len(bytes) > b.size - Len(b.bytes)
               THEN Larger(b.size * 2, Len(b.bytes) + Len(bytes) + 1) ELSE b.size,
     bytes |-> b.bytes \o bytes]

(* strbuffer_append_bytes.                                                 *)
AppendBytes(b, bytes) ==
    [size  |-> IF Len(bytes) >= b.size - Len(b.bytes)
               THEN Larger(b.size * 2, Len(b.bytes) + Len(bytes) + 1) ELSE b.size,
     bytes |-> b.bytes \o bytes]

Init == /\ value \in Values
        /\ buffer = [size |-> MinSize, bytes |-> <<>>]
        /\ chunk = 0 /\ result = "running"

DumpChunk == /\ result = "running" /\ chunk < Len(Dump(value).chunks)
             /\ buffer' = AppendBytes(buffer, Dump(value).chunks[chunk + 1])
             /\ chunk' = chunk + 1
             /\ UNCHANGED <<value, result>>

(* json_dump_callback refuses what is neither an object nor an array.      *)
Dumpable == value.is \in {"object", "array"}

DumpEnd == /\ result = "running" /\ chunk = Len(Dump(value).chunks)
           /\ result' = IF Dump(value).ok /\ Dumpable THEN "text" ELSE "null"
           /\ UNCHANGED <<value, buffer, chunk>>

Next == DumpChunk \/ DumpEnd

Spec == Init /\ [][Next]_vars

-----------------------------------------------------------------------------
(* A reader of JSON, written from the grammar and not from the code: what  *)
(* the text at p says, and where it goes on.                               *)

Read(v, p) == [value |-> v, next |-> p]

(* Well-formed characters by the table of the Unicode standard.            *)
WellFormed(str) ==
    LET Tail_(p, n) == \A i \in 1..n : ByteAt(str, p + i) \in 128 .. 191
        Ok[p \in 1..Len(str) + 4] ==
            \/ p > Len(str)
            \/ str[p] \in 0 .. 127 /\ Ok[p + 1]
            \/ str[p] \in 194 .. 223 /\ Tail_(p, 1) /\ Ok[p + 2]
            \/ /\ str[p] \in 224 .. 239 /\ Tail_(p, 2) /\ Ok[p + 3]
               /\ str[p] = 224 => str[p + 1] >= 160
               /\ str[p] = 237 => str[p + 1] <= 159
            \/ /\ str[p] \in 240 .. 244 /\ Tail_(p, 3) /\ Ok[p + 4]
               /\ str[p] = 240 => str[p + 1] >= 144
               /\ str[p] = 244 => str[p + 1] <= 143
    IN  Ok[1]

HexValue(b) == IF b \in 48 .. 57 THEN b - 48 ELSE b - 87

Unescaped == [n \in {Backslash, Quote, 98, 102, 110, 114, 116} |->
                 CASE n = 98 -> 8 [] n = 102 -> 12 [] n = 110 -> 10
                   [] n = 114 -> 13 [] n = 116 -> 9 [] OTHER -> n]

RECURSIVE ReadCharacters(_, _, _)
ReadCharacters(t, p, str) ==
    IF t[p] = Quote THEN Read([is |-> "string", content |-> str], p + 1)
    ELSE IF t[p] # Backslash THEN ReadCharacters(t, p + 1, Append(str, t[p]))
    ELSE IF t[p + 1] = LetterU
    THEN ReadCharacters(t, p + 6, Append(str, HexValue(t[p + 4]) * 16 + HexValue(t[p + 5])))
    ELSE ReadCharacters(t, p + 2, Append(str, Unescaped[t[p + 1]]))

(* A number as its digits without zeros at the end, and a power of ten.    *)
RECURSIVE Scaled(_, _)
Scaled(m, e) == IF m # 0 /\ m % 10 = 0 THEN Scaled(m \div 10, e + 1)
                ELSE <<m, IF m = 0 THEN 0 ELSE e>>

Signed(t) == LET digits == SelectSeq(t, LAMBDA b : b \in 48 .. 57)
                 n == FoldLeft(LAMBDA a, b : a * 10 + (b - Zero), 0, digits)
             IN  IF t # <<>> /\ Head(t) = Minus THEN -n ELSE n

Number(t, point) ==
    LET Place(b) == IF b \in ToSet(t) THEN CHOOSE i \in DOMAIN t : t[i] = b ELSE Len(t) + 1
        mantissa == SubSeq(t, 1, Place(LetterE) - 1)
        exponent == Signed(SubSeq(t, Place(LetterE) + 1, Len(t)))
        fraction == IF point \in ToSet(mantissa) THEN Len(mantissa) - Place(point) ELSE 0
    IN  Scaled(Signed(mantissa), exponent - fraction)

ReadNumber(t, p) ==
    LET InNumber(i) == t[i] \in 48 .. 57 \cup {Dot, Minus, Plus, LetterE}
        end  == CHOOSE e \in p + 1..Len(t) + 1 :
                    /\ \A i \in p..e - 1 : InNumber(i)
                    /\ e <= Len(t) => ~InNumber(e)
        text == SubSeq(t, p, end - 1)
    IN  Read(IF {Dot, LetterE} \cap ToSet(text) = {}
             THEN [is |-> "integer", content |-> Signed(text)]
             ELSE [is |-> "real", content |-> Number(text, Dot)], end)

RECURSIVE ReadValue(_, _), ReadItems(_, _, _), ReadMembers(_, _, _)
ReadValue(t, p) ==
    CASE t[p] = Quote -> ReadCharacters(t, p + 1, <<>>)
      [] t[p] = 110 -> Read([is |-> "null"], p + 4)
      [] t[p] = 116 -> Read([is |-> "boolean", content |-> TRUE], p + 4)
      [] t[p] = 102 -> Read([is |-> "boolean", content |-> FALSE], p + 5)
      [] t[p] = BracketOpen -> ReadItems(t, p + 1, <<>>)
      [] t[p] = BraceOpen -> ReadMembers(t, p + 1, <<>>)
      [] OTHER -> ReadNumber(t, p)

Skip(t, p) == IF t[p] = Comma THEN p + 2 ELSE p

ReadItems(t, p, items) ==
    IF t[p] = BracketClose THEN Read([is |-> "array", content |-> items], p + 1)
    ELSE LET item == ReadValue(t, Skip(t, p))
         IN  ReadItems(t, item.next, Append(items, item.value))

ReadMembers(t, p, members) ==
    IF t[p] = BraceClose THEN Read([is |-> "object", content |-> members], p + 1)
    ELSE LET key == ReadValue(t, Skip(t, p))
             member == ReadValue(t, key.next + 2)
         IN  ReadMembers(t, member.next,
                         Append(members, [key |-> key.value.content, value |-> member.value]))

(* The value with its reals as numbers.                                    *)
RECURSIVE Meant(_)
Meant(v) == CASE v.is = "real"   -> [v EXCEPT !.content = Number(v.content, Point)]
              [] v.is = "array"  -> [v EXCEPT !.content = [i \in DOMAIN @ |-> Meant(@[i])]]
              [] v.is = "object" ->
                    [v EXCEPT !.content = [i \in DOMAIN @ |-> [@[i] EXCEPT !.value = Meant(@)]]]
              [] OTHER -> v

RECURSIVE Strings(_)
Strings(v) == CASE v.is = "string" -> {v.content}
                [] v.is = "array"  -> UNION {Strings(v.content[i]) : i \in DOMAIN v.content}
                [] v.is = "object" -> UNION {Strings(v.content[i].value) : i \in DOMAIN v.content}
                [] OTHER -> {}

(***************************************************************************)
(* A text that json_dumps returns says exactly what the value was, reals   *)
(* as reals in every locale; it returns NULL exactly if a string is not    *)
(* well-formed UTF-8, or for a scalar; and the buffer always has room for  *)
(* the final \0.  (The agent takes a NULL for an empty message: see Split.)*)
(***************************************************************************)
DumpReadsBack ==
    /\ Len(buffer.bytes) < buffer.size
    /\ result # "running" =>
          (result = "null" <=> \/ value.is \notin {"object", "array"}
                               \/ \E s \in Strings(value) : ~WellFormed(s))
    /\ result = "text" => ReadValue(buffer.bytes, 1) = Read(Meant(value), Len(buffer.bytes) + 1)
=============================================================================
