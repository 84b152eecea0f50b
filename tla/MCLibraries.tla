----------------------------- MODULE MCLibraries ------------------------------
(* The libraries the broker is linked with, for TLC, side by side: the     *)
(* wire of librabbitmq, the objects and the arrays of jansson, and its     *)
(* texts.  Only one of them moves in a behaviour.                          *)
EXTENDS MCAmqpWire, JsonValue

VARIABLES part, value, buffer, chunk, result

-----------------------------------------------------------------------------
(* Containers.  Names 0, 2 and 6 share a bucket of the smallest table, and *)
(* 0 and 6 are in the same one until the largest.                          *)
MCKeys == {"a", "b", "c", "d"}
MCHash == [k \in MCKeys |->
             CASE k = "a" -> 0 [] k = "b" -> 2 [] k = "c" -> 6 [] OTHER -> 3]

MCPrimes == <<2, 3, 5>>

-----------------------------------------------------------------------------
(* Texts.                                                                  *)

String(s)   == [is |-> "string", content |-> s]
Whole(n)      == [is |-> "integer", content |-> n]
Float(text) == [is |-> "real", content |-> text]
List(s)     == [is |-> "array", content |-> s]
Object(s)   == [is |-> "object", content |-> s]
Member(k, v) == [key |-> k, value |-> v]

(* All single bytes, and all kinds of first bytes with all kinds of others.*)
Edges == {65, 128, 143, 144, 159, 160, 191, 193, 194, 223, 224, 237, 239, 240, 244, 245, 255}
Leads == {194, 223, 224, 225, 237, 240, 241, 244}
Strings ==
    {<<>>} \cup {<<b>> : b \in 1..255}
    \cup {<<65, b, c>> : b \in {10, 34} \cup Edges, c \in {31, 66, 92} \cup Edges}
    \cup {<<a, b, 128>> : a \in Leads, b \in Edges}
    \cup {<<a, b, 191, 191, 66>> : a \in Leads, b \in Edges}

(* -0, 2, 100, 0.5, 1e+20, 1e-07 and -1.25e-07, with the comma of a locale *)
(* that has one.                                                           *)
Reals == {<<45, 48>>, <<50>>, <<49, 48, 48>>, <<48, 44, 53>>, <<49, 101, 43, 50, 48>>,
          <<49, 101, 45, 48, 55>>, <<45, 49, 44, 50, 53, 101, 45, 48, 55>>}

Leaves == {String(<<>>), String(<<65, 10>>), Whole(-5), Float(<<50>>), [is |-> "null"],
          [is |-> "boolean", content |-> TRUE], [is |-> "boolean", content |-> FALSE],
          List(<<>>), Object(<<>>), Object(<<Member(<<107>>, String(<<66>>))>>)}

MCValues ==
    {List(<<String(s)>>) : s \in Strings}
    \cup {List(<<Whole(n)>>) : n \in {0, -1, 9, 10, 2147483647, -2147483647}}
    \cup {List(<<Float(r)>>) : r \in Reals}
    \cup {List(<<a, b>>) : a, b \in Leaves}
    \cup {Object(<<Member(<<107>>, String(Repeat(65, n)))>>) : n \in 0..40}
    \cup {Object(<<Member(k, List(<<v>>)), Member(<<66>>, String(<<65>>))>>) :
            k \in {<<34>>, <<206, 177>>}, v \in {List(<<>>), String(<<255>>)}}
    \cup {Whole(7), List(<<>>)}

Text == INSTANCE JsonText WITH Values <- MCValues, MinSize <- 16, Point <- 44

-----------------------------------------------------------------------------
textVars == <<value, buffer, chunk, result>>

StillWire   == todo = <<>> /\ Init
StillValues == kind = "array" /\ ValuesInit
StillText   == value = List(<<>>) /\ Text!Init

MCInit == \/ part = "wire" /\ Init /\ StillValues /\ StillText
          \/ part = "values" /\ StillWire /\ ValuesInit /\ StillText
          \/ part = "text" /\ StillWire /\ StillValues /\ Text!Init

MCNext == \/ part = "wire" /\ Next /\ UNCHANGED <<part, valuesVars, textVars>>
          \/ part = "values" /\ ValuesNext /\ UNCHANGED <<part, wireVars, textVars>>
          \/ part = "text" /\ Text!Next /\ UNCHANGED <<part, wireVars, valuesVars>>

MCSpec == MCInit /\ [][MCNext]_<<part, wireVars, valuesVars, textVars>>

(* The property of JsonText, stated there.                                 *)
DumpReadsBack       == Text!DumpReadsBack
=============================================================================
