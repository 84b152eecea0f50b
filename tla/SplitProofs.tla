----------------------------- MODULE SplitProofs ----------------------------
(***************************************************************************)
(* Proofs about what a callback sends, for every length of its texts and   *)
(* every room that is left for them: the arithmetic of split_message, and  *)
(* what its pieces and messages are.                                       *)
(***************************************************************************)
EXTENDS Split, TLAPS

(* A length by its quotient and remainder.                                 *)
LEMMA Division ==
    ASSUME NEW n \in Nat, NEW left \in Nat, left > 0
    PROVE  \E q \in Nat, r \in 0..(left - 1) :
              q = n \div left /\ r = n % left /\ n = left * q + r
<1>1. PICK q \in Int : q = n \div left
  BY SMT
<1>2. PICK r \in 0..(left - 1) : r = n % left
  BY SMT
<1>3. n = left * q + r
  BY <1>1, <1>2, SMT
<1>4. q \in Nat
  BY <1>1, SMT
<1> QED BY <1>1, <1>2, <1>3, <1>4

(* The number of pieces, in the division of TLA+.                          *)
LEMMA PiecesOfRoom ==
    ASSUME NEW n \in Nat, NEW left \in Nat, left > 0
    PROVE  Pieces(n, left) = n \div left + 1
BY DEF Pieces, Quotient

(***************************************************************************)
(* No piece begins behind the end of its text: `message + offset' in       *)
(* n2a_nebstruct_service_check_data_update_json stays inside the string.   *)
(***************************************************************************)
THEOREM PieceBeginsInside ==
    ASSUME NEW n \in Nat, NEW left \in Nat, left > 0,
           NEW j \in Nat, j < Pieces(n, left)
    PROVE  Offset(left, j) \in 0..n
<1>1. PICK q \in Nat, r \in 0..(left - 1) : q = n \div left /\ n = left * q + r
  BY Division
<1>2. j <= q
  BY <1>1, PiecesOfRoom
<1>3. PICK d \in Nat : q = j + d
  <2>1. q - j \in Nat /\ q = j + (q - j)
    BY <1>2
  <2> QED BY <2>1
<1>4. n = j * (left - 1) + j + left * d + r
  BY <1>1, <1>3
<1>5. j * (left - 1) \in Nat /\ left * d \in Nat
  BY SMT
<1> QED BY <1>4, <1>5 DEF Offset

(***************************************************************************)
(* A text is sent to its end exactly when quotient and remainder of its    *)
(* length by left add up to less than left, and what is missing otherwise  *)
(* is at most as long as the quotient.  The end of the last piece is where *)
(* the next one would begin, or the end of the text.                       *)
(***************************************************************************)
THEOREM SplitReaches ==
    ASSUME NEW n \in Nat, NEW left \in Nat, left > 0
    PROVE  /\ Offset(left, Pieces(n, left)) >= n <=> (n \div left) + (n % left) < left
           /\ n - Offset(left, Pieces(n, left)) <= n \div left
<1>1. PICK q \in Nat, r \in 0..(left - 1) :
         q = n \div left /\ r = n % left /\ n = left * q + r
  BY Division
<1>2. Offset(left, Pieces(n, left)) = (q + 1) * (left - 1)
  BY <1>1, PiecesOfRoom DEF Offset
<1>3. (q + 1) * (left - 1) = n + (left - 1 - q - r)
  BY <1>1
<1>4. /\ n + (left - 1 - q - r) >= n <=> q + r < left
      /\ n - (n + (left - 1 - q - r)) <= q
  BY <1>1
<1> QED BY <1>1, <1>2, <1>3, <1>4

-----------------------------------------------------------------------------
(***************************************************************************)
(* What a split has sent, message by message.                              *)
(***************************************************************************)

Number(f) == Pieces(Size(text[f]), Left)

(* Where the messages about text f begin, and how many there are.          *)
Start(f) == IF f = 1 THEN 0 ELSE IF f = 2 THEN Number(1) ELSE Number(1) + Number(2)
Count(f) == IF f < field THEN Number(f) ELSE IF f = field THEN k ELSE 0

(* jdata while text f is split: the last pieces of the texts before it,    *)
(* and the piece j.                                                        *)
BodyBefore(f) ==
    [g \in Field |-> IF g < f THEN PieceOf(text[g], Left, Number(g) - 1) ELSE Absent]
BodyAt(f, j) == [BodyBefore(f) EXCEPT ![f] = PieceOf(text[f], Left, j)]

Splitting == Left > 0 /\ (stage = "split" \/ (stage = "done" /\ field = 3))

SplitTypes ==
    /\ base \in Nat /\ text \in [Field -> Nat \cup {NoText}]
    /\ stage \in {"start", "split", "done", "undefined"}
    /\ field \in Field /\ k \in Nat

SentSoFar ==
    /\ k <= Number(field) /\ (stage = "done" => k = Number(field))
    /\ body = IF k = 0 THEN BodyBefore(field) ELSE BodyAt(field, k - 1)
    /\ DOMAIN sent = 1..(Start(field) + k) /\ Len(sent) = Start(field) + k
    /\ \A f \in Field : \A j \in Nat :
          j < Count(f) => sent[Start(f) + j + 1] = Message(f, BodyAt(f, j))

NotSplit ==
    /\ stage = "start" => field = 1
    /\ k = 0 /\ stage # "done" => sent = <<>> /\ body = BodyBefore(1)
    /\ \A j \in DOMAIN sent : sent[j].about = 0 /\ ~sent[j].empty
    /\ k = 0

SplitInv == /\ SplitTypes
            /\ Splitting => SentSoFar
            /\ ~Splitting => NotSplit

LEMMA TextLength ==
    ASSUME SplitTypes, NEW f \in Field
    PROVE  Size(text[f]) \in Nat /\ Left \in Int /\ (text[f] # NoText => Size(text[f]) = text[f])
BY SplitAssumption DEF SplitTypes, Size, Left, Field, NoText

LEMMA NumberOfPieces ==
    ASSUME SplitTypes, Left > 0, NEW f \in Field
    PROVE  /\ Number(f) = Size(text[f]) \div Left + 1
           /\ Number(f) \in Nat /\ Number(f) >= 1
           /\ Start(f) \in Nat /\ Count(f) \in Nat
<1>1. \A g \in Field : Number(g) = Size(text[g]) \div Left + 1
                       /\ Number(g) \in Nat /\ Number(g) >= 1
  <2> SUFFICES ASSUME NEW g \in Field
               PROVE  Number(g) = Size(text[g]) \div Left + 1
                      /\ Number(g) \in Nat /\ Number(g) >= 1
    OBVIOUS
  <2>1. Size(text[g]) \in Nat /\ Left \in Nat
    BY TextLength
  <2>2. \E q \in Nat, r \in 0..(Left - 1) : q = Size(text[g]) \div Left
    BY <2>1, Division
  <2>3. Number(g) = Size(text[g]) \div Left + 1
    BY <2>1, PiecesOfRoom DEF Number
  <2> QED BY <2>2, <2>3
<1>2. 1 \in Field /\ 2 \in Field /\ 3 \in Field
  BY DEF Field
<1> QED BY <1>1, <1>2 DEF Start, Count, SplitTypes, Field

LEMMA SameInput ==
    ASSUME UNCHANGED input
    PROVE  /\ Left' = Left /\ text' = text /\ base' = base
           /\ \A f : /\ Number(f)' = Number(f) /\ Start(f)' = Start(f)
                     /\ BodyBefore(f)' = BodyBefore(f)
           /\ \A f, j : BodyAt(f, j)' = BodyAt(f, j)
<1>1. Left' = Left /\ text' = text /\ base' = base
  BY DEF input, Left
<1>2. \A f : Number(f)' = Number(f)
  BY <1>1 DEF Number
<1>3. \A f : Start(f)' = Start(f) /\ BodyBefore(f)' = BodyBefore(f)
  BY <1>1, <1>2 DEF Start, BodyBefore
<1> QED BY <1>1, <1>2, <1>3 DEF BodyAt

LEMMA SameMessage ==
    ASSUME UNCHANGED input, NEW f, NEW members
    PROVE  Message(f, members)' = Message(f, members)
BY DEF Message, Dumps, InCharacter, input

-----------------------------------------------------------------------------
(* SplitInv is inductive.                                                  *)

LEMMA SplitInvInit == Init => SplitInv
<1> SUFFICES ASSUME Init PROVE SplitInv
  OBVIOUS
<1>1. SplitTypes
  <2>1. base \in Nat /\ text \in [Field -> Nat \cup {NoText}]
    BY SplitAssumption DEF Init
  <2> QED BY <2>1 DEF Init, SplitTypes, Field
<1>2. body = BodyBefore(1)
  BY DEF Init, BodyBefore, Field
<1>3. DOMAIN sent = {}
  BY DEF Init
<1>4. NotSplit
  BY <1>2, <1>3 DEF Init, NotSplit
<1>5. ~Splitting
  BY DEF Init, Splitting
<1> QED BY <1>1, <1>4, <1>5 DEF SplitInv

(* A callback that sends one message.                                      *)
LEMMA SendOneInv ==
    ASSUME SplitInv, stage = "start", NEW members, SendOne(members)
    PROVE  SplitInv'
<1>1. SplitTypes' /\ field = 1 /\ k = 0
  BY DEF SplitInv, SplitTypes, SendOne, input, Splitting, NotSplit
<1>2. ~Splitting'
  BY <1>1 DEF Splitting, SendOne
<1>3. NotSplit'
  <2>1. sent' = <<[about |-> 0, body |-> members, empty |-> FALSE]>>
    BY DEF SendOne
  <2>2. DOMAIN sent' = {1} /\ sent'[1].about = 0 /\ sent'[1].empty = FALSE
    BY <2>1
  <2> QED BY <1>1, <2>2 DEF NotSplit, SendOne
<1> QED BY <1>1, <1>2, <1>3 DEF SplitInv

(* The split begins, or what happens is undefined.                         *)
LEMMA StartsInv ==
    ASSUME SplitInv, stage \in {"start", "split"}, k = 0, ~Splitting,
           stage' \in {"split", "undefined"}, UNCHANGED <<input, field, k, body, sent>>,
           stage' = "split" => stage = "start" /\ Left # 0
    PROVE  SplitInv'
<1>1. SplitTypes' /\ NotSplit /\ SplitTypes
  BY DEF SplitInv, SplitTypes, input
<1>2. NotSplit'
  <2>1. BodyBefore(1)' = BodyBefore(1)
    BY SameInput
  <2> QED BY <1>1, <2>1 DEF NotSplit
<1>3. ASSUME Splitting' PROVE SentSoFar'
  <2>1. stage = "start" /\ Left > 0 /\ field = 1 /\ sent = <<>> /\ body = BodyBefore(1)
    BY <1>1, <1>3, SameInput DEF Splitting, NotSplit
  <2>2. Number(1) \in Nat /\ Start(1) = 0 /\ 1 \in Field
    BY <1>1, <2>1, NumberOfPieces DEF Start, Field
  <2>3. \A f \in Field : Count(f) = 0
    BY <2>1 DEF Count, Field
  <2>4. \A f \in Field : Count(f)' = 0
    BY <2>1 DEF Count, Field
  <2>5. DOMAIN sent = 1..0 /\ Len(sent) = 0
    BY <2>1
  <2>6. stage' # "done"
    OBVIOUS
  <2>7. Number(1)' = Number(1) /\ Start(1)' = 0 /\ BodyBefore(1)' = BodyBefore(1)
    BY <2>2, SameInput
  <2> QED BY <2>1, <2>2, <2>4, <2>5, <2>6, <2>7 DEF SentSoFar
<1> QED BY <1>1, <1>2, <1>3 DEF SplitInv

LEMMA SendPieceInv == SplitInv /\ SendPiece => SplitInv'
<1> SUFFICES ASSUME SplitInv, SendPiece PROVE SplitInv'
  OBVIOUS
<1>1. /\ stage = "split" /\ k < Number(field) /\ Left > 0 /\ UNCHANGED <<input, stage, field>>
      /\ body' = [body EXCEPT ![field] = PieceOf(text[field], Left, k)]
      /\ sent' = Append(sent, Message(field, body')) /\ k' = k + 1
  BY DEF SendPiece, Number
<1>2. SplitTypes /\ SentSoFar /\ field \in Field /\ k \in Nat
  BY <1>1 DEF SplitInv, Splitting, SplitTypes
<1>3. SplitTypes' /\ Splitting'
  BY <1>1, <1>2, SameInput DEF SplitTypes, Splitting, input
<1>4. /\ Number(field) \in Nat /\ Start(field) \in Nat
      /\ \A f \in Field : Number(f) \in Nat /\ Start(f) \in Nat /\ Count(f) \in Nat
  BY <1>1, <1>2, NumberOfPieces
<1>5. body' = BodyAt(field, k)
  BY <1>1, <1>2 DEF SentSoFar, BodyAt, BodyBefore
<1>6. /\ DOMAIN sent' = 1..(Start(field) + k + 1) /\ Len(sent') = Start(field) + k + 1
      /\ \A i \in 1..(Start(field) + k) : sent'[i] = sent[i]
      /\ sent'[Start(field) + k + 1] = Message(field, BodyAt(field, k))
  BY <1>1, <1>2, <1>4, <1>5 DEF SentSoFar
<1>7. ASSUME NEW f \in Field, NEW j \in Nat, j < Count(f)'
      PROVE  sent'[Start(f) + j + 1] = Message(f, BodyAt(f, j))
  <2>1. CASE f = field /\ j = k
    BY <1>6, <2>1
  <2>2. CASE ~(f = field /\ j = k)
    <3>1. j < Count(f)
      <4>1. Number(f)' = Number(f) /\ field' = field /\ k' = k + 1
        BY <1>1, SameInput
      <4>2. Count(f)' = IF f < field THEN Number(f) ELSE IF f = field THEN k + 1 ELSE 0
        BY <4>1 DEF Count
      <4>3. CASE f = field
        BY <1>2, <1>7, <2>2, <4>2, <4>3 DEF Count, Field
      <4>4. CASE f # field
        BY <1>7, <4>2, <4>4 DEF Count
      <4> QED BY <4>3, <4>4
    <3>2. sent[Start(f) + j + 1] = Message(f, BodyAt(f, j))
      BY <1>2, <3>1 DEF SentSoFar
    <3>3. Start(f) + j + 1 \in 1..(Start(field) + k)
      BY <1>2, <1>4, <3>1 DEF Start, Count, Field
    <3> QED BY <1>6, <3>2, <3>3
  <2> QED BY <2>1, <2>2
<1>8. \A f \in Field : \A j \in Nat :
         j < Count(f)' => sent'[Start(f)' + j + 1] = Message(f, BodyAt(f, j))'
  BY <1>1, <1>7, SameInput, SameMessage
<1>9. SentSoFar'
  <2>1. Number(field)' = Number(field) /\ Start(field)' = Start(field)
        /\ BodyAt(field, k - 1)' = BodyAt(field, k) /\ k' # 0
    <3>1. field' = field /\ k' - 1 = k /\ k' # 0
      BY <1>1, <1>2
    <3> QED BY <1>1, <3>1, SameInput
  <2>2. k' <= Number(field)' /\ stage' # "done"
    BY <1>1, <1>2, <1>4, <2>1
  <2>3. Start(field)' + k' = Start(field) + k + 1
    BY <1>1, <1>2, <1>4, <2>1
  <2>4. body' = BodyAt(field, k - 1)'
    BY <1>5, <2>1
  <2>5. DOMAIN sent' = 1..(Start(field)' + k') /\ Len(sent') = Start(field)' + k'
    BY <1>6, <2>3
  <2> QED BY <1>8, <2>1, <2>2, <2>4, <2>5 DEF SentSoFar
<1> QED BY <1>3, <1>9 DEF SplitInv

LEMMA NextFieldInv == SplitInv /\ NextField => SplitInv'
<1> SUFFICES ASSUME SplitInv, NextField PROVE SplitInv'
  OBVIOUS
<1>1. /\ stage = "split" /\ k >= Number(field) /\ UNCHANGED <<input, body, sent>>
      /\ \/ field < 3 /\ field' = field + 1 /\ k' = 0 /\ UNCHANGED stage
         \/ field = 3 /\ stage' = "done" /\ UNCHANGED <<field, k>>
  BY DEF NextField, Number
<1>2. SplitTypes /\ SplitTypes' /\ field \in Field /\ k \in Nat /\ Left \in Int
  BY <1>1, SplitAssumption DEF SplitInv, SplitTypes, input, Field, Left
<1>3. CASE Left > 0
  <2>1. Splitting /\ Splitting' /\ SentSoFar
    BY <1>1, <1>3, SameInput DEF Splitting, SplitInv
  <2>2. \A f \in Field : Number(f) \in Nat /\ Number(f) >= 1
    BY <1>2, <1>3, NumberOfPieces
  <2>3. k = Number(field) /\ k >= 1
    BY <1>1, <1>2, <2>1, <2>2 DEF SentSoFar
  <2>4. CASE field = 3
    <3>1. stage' = "done" /\ UNCHANGED <<field, k>>
      BY <1>1, <2>4
    <3>2. \A f \in Field : Count(f)' = Count(f)
      BY <1>1, <3>1, SameInput DEF Count
    <3>3. \A f \in Field : \A j \in Nat :
             j < Count(f)' => sent'[Start(f)' + j + 1] = Message(f, BodyAt(f, j))'
      BY <1>1, <2>1, <3>2, SameInput, SameMessage DEF SentSoFar
    <3>4. /\ Number(field)' = Number(field) /\ Start(field)' = Start(field)
          /\ BodyAt(field, k - 1)' = BodyAt(field, k - 1)
      BY <1>1, <3>1, SameInput
    <3>5. SentSoFar'
      BY <1>1, <2>1, <2>3, <3>1, <3>3, <3>4 DEF SentSoFar
    <3> QED BY <1>2, <2>1, <3>5 DEF SplitInv
  <2>5. CASE field < 3
    <3>1. field' = field + 1 /\ k' = 0 /\ stage' = "split" /\ field \in {1, 2}
      BY <1>1, <1>2, <2>5 DEF Field
    <3>2. \A f \in Field : Count(f)' = Count(f)
      BY <1>1, <1>2, <2>3, <3>1, SameInput DEF Count, Field
    <3>3. \A f \in Field : \A j \in Nat :
             j < Count(f)' => sent'[Start(f)' + j + 1] = Message(f, BodyAt(f, j))'
      BY <1>1, <2>1, <3>2, SameInput, SameMessage DEF SentSoFar
    <3>4. body = BodyBefore(field + 1)
      <4>1. body = BodyAt(field, Number(field) - 1)
        BY <2>1, <2>3 DEF SentSoFar
      <4>2. \A g \in Field : (g < field + 1) = (g < field \/ g = field)
        BY <1>2, <3>1 DEF Field
      <4>3. ASSUME NEW g \in Field
            PROVE  BodyAt(field, Number(field) - 1)[g] = BodyBefore(field + 1)[g]
        <5>1. CASE g = field
          BY <1>2, <4>2, <5>1 DEF BodyAt, BodyBefore
        <5>2. CASE g # field
          BY <1>2, <4>2, <5>2 DEF BodyAt, BodyBefore
        <5> QED BY <5>1, <5>2
      <4>4. BodyAt(field, Number(field) - 1) = BodyBefore(field + 1)
        BY <4>3 DEF BodyAt, BodyBefore
      <4> QED BY <4>1, <4>4
    <3>5. Start(field + 1) = Start(field) + Number(field)
      BY <2>2, <3>1 DEF Start, Field
    <3>6. field + 1 \in Field /\ Number(field + 1) \in Nat
      BY <2>2, <3>1 DEF Field
    <3>7. /\ Number(field)' = Number(field + 1) /\ Start(field)' = Start(field + 1)
          /\ BodyBefore(field)' = BodyBefore(field + 1)
      BY <1>1, <3>1, SameInput
    <3>8. DOMAIN sent = 1..(Start(field) + Number(field)) /\ Len(sent) = Start(field) + Number(field)
      BY <2>1, <2>3 DEF SentSoFar
    <3>9. Start(field) + Number(field) = Start(field + 1) + 0
      BY <1>2, <1>3, <3>5, <3>6, NumberOfPieces
    <3>10. SentSoFar'
      BY <1>1, <3>1, <3>3, <3>4, <3>6, <3>7, <3>8, <3>9 DEF SentSoFar
    <3> QED BY <1>2, <2>1, <3>10 DEF SplitInv
  <2> QED BY <1>2, <2>4, <2>5 DEF Field
<1>4. CASE ~(Left > 0)
  <2>1. ~Splitting /\ ~Splitting' /\ NotSplit
    BY <1>1, <1>4, SameInput DEF Splitting, SplitInv
  <2>2. k = 0 /\ sent = <<>> /\ k' = 0 /\ stage' # "start"
    BY <1>1, <2>1 DEF NotSplit
  <2>3. BodyBefore(1)' = BodyBefore(1)
    BY <1>1, SameInput
  <2>4. NotSplit'
    BY <1>1, <2>1, <2>2, <2>3 DEF NotSplit
  <2> QED BY <1>2, <2>1, <2>4 DEF SplitInv
<1> QED BY <1>3, <1>4

LEMMA SplitInvNext == SplitInv /\ [Next]_vars => SplitInv'
<1> SUFFICES ASSUME SplitInv, [Next]_vars PROVE SplitInv'
  OBVIOUS
<1>1. CASE ServiceWhole
  BY <1>1, SendOneInv DEF ServiceWhole
<1>2. CASE ServiceBare
  BY <1>2, SendOneInv DEF ServiceBare
<1>3. CASE HostCheck
  BY <1>3, SendOneInv DEF HostCheck
<1>4. CASE CommentEvent
  BY <1>4, SendOneInv DEF CommentEvent
<1>5. CASE DivideByZero \/ ServiceSplit
  <2>1. stage = "start" /\ ~Splitting
    BY <1>5 DEF DivideByZero, ServiceSplit, Splitting
  <2>2. k = 0
    BY <2>1 DEF SplitInv, NotSplit
  <2> QED BY <1>5, <2>1, <2>2, StartsInv DEF DivideByZero, ServiceSplit
<1>6. CASE NegativeBuffer
  <2>1. stage = "split" /\ Left < 0
    BY <1>6 DEF NegativeBuffer
  <2>2. ~(Left > 0)
    BY <2>1, SplitAssumption DEF Left, SplitInv, SplitTypes
  <2>3. ~Splitting /\ k = 0
    BY <2>2 DEF SplitInv, NotSplit, Splitting
  <2> QED BY <1>6, <2>1, <2>3, StartsInv DEF NegativeBuffer
<1>7. CASE SendPiece
  BY <1>7, SendPieceInv
<1>8. CASE NextField
  BY <1>8, NextFieldInv
<1>9. CASE UNCHANGED vars
  <2>1. /\ UNCHANGED input /\ stage' = stage /\ field' = field /\ k' = k /\ body' = body
        /\ sent' = sent
    BY <1>9 DEF vars
  <2>2. SplitTypes' /\ Splitting' = Splitting
    BY <2>1, SameInput DEF SplitInv, SplitTypes, Splitting, input
  <2>3. NotSplit => NotSplit'
    <3>1. BodyBefore(1)' = BodyBefore(1)
      BY <2>1, SameInput
    <3> QED BY <2>1, <3>1 DEF NotSplit
  <2>4. SentSoFar => SentSoFar'
    <3>1. /\ Number(field)' = Number(field) /\ Start(field)' = Start(field)
          /\ BodyBefore(field)' = BodyBefore(field)
          /\ BodyAt(field, k - 1)' = BodyAt(field, k - 1)
      BY <2>1, SameInput
    <3>2. \A f \in Field : Count(f)' = Count(f)
      BY <2>1, SameInput DEF Count
    <3>3. ASSUME SentSoFar
          PROVE  \A f \in Field : \A j \in Nat :
                    j < Count(f)' => sent'[Start(f)' + j + 1] = Message(f, BodyAt(f, j))'
      BY <2>1, <3>2, <3>3, SameInput, SameMessage DEF SentSoFar
    <3> QED BY <2>1, <3>1, <3>3 DEF SentSoFar
  <2> QED BY <2>2, <2>3, <2>4 DEF SplitInv
<1> QED BY <1>1, <1>2, <1>3, <1>4, <1>5, <1>6, <1>7, <1>8, <1>9 DEF Next

(* A split sends one message after the other, as many for a text as its    *)
(* length asks for, and nothing of one text into the place of another.     *)
THEOREM SplitInvariance == Spec => []SplitInv
<1> QED BY SplitInvInit, SplitInvNext, PTL DEF Spec

-----------------------------------------------------------------------------
(* The messages about a text, and its pieces.                              *)

LEMMA PlacesOfText ==
    ASSUME SplitInv, Splitting, NEW f \in Field
    PROVE  /\ Of(f) = (Start(f) + 1)..(Start(f) + Count(f))
           /\ Start(f) \in Nat /\ Count(f) \in Nat /\ Count(f) <= Number(f)
           /\ \A j \in Nat : j < Count(f) =>
                 /\ Start(f) + j + 1 \in Of(f)
                 /\ sent[Start(f) + j + 1] = Message(f, BodyAt(f, j))
           /\ \A i \in DOMAIN sent : \E g \in Field : i \in Of(g)
<1>1. SplitTypes /\ SentSoFar /\ Left > 0 /\ field \in Field /\ k \in Nat
  BY DEF SplitInv, Splitting, SplitTypes
<1>2. \A g \in Field : Number(g) \in Nat /\ Number(g) >= 1 /\ Start(g) \in Nat /\ Count(g) \in Nat
  BY <1>1, NumberOfPieces
<1>3. \A g \in Field : Count(g) <= Number(g)
  BY <1>1, <1>2 DEF Count, SentSoFar, Field
<1>4. ASSUME NEW g \in Field, NEW j \in Nat, j < Count(g)
      PROVE  /\ Start(g) + j + 1 \in DOMAIN sent
             /\ sent[Start(g) + j + 1] = Message(g, BodyAt(g, j))
             /\ sent[Start(g) + j + 1].about = g
  <2>1. sent[Start(g) + j + 1] = Message(g, BodyAt(g, j))
    BY <1>1, <1>4 DEF SentSoFar
  <2>2. Start(g) + j + 1 \in 1..(Start(field) + k)
    BY <1>1, <1>2, <1>4 DEF Start, Count, Field
  <2>3. Start(g) + j + 1 \in DOMAIN sent
    BY <1>1, <2>2 DEF SentSoFar
  <2> QED BY <2>1, <2>3 DEF Message
<1>5. \A i \in DOMAIN sent : \E g \in Field : i \in (Start(g) + 1)..(Start(g) + Count(g))
  <2>1. DOMAIN sent = 1..(Start(field) + k)
    BY <1>1 DEF SentSoFar
  <2> SUFFICES ASSUME NEW i \in 1..(Start(field) + k)
               PROVE  \E g \in Field : i \in (Start(g) + 1)..(Start(g) + Count(g))
    BY <2>1
  <2>2. 1 \in Field /\ 2 \in Field /\ 3 \in Field
    BY DEF Field
  <2>3. CASE field = 1
    BY <1>1, <1>2, <2>2, <2>3 DEF Start, Count
  <2>4. CASE field = 2
    <3>1. /\ Start(1) = 0 /\ Count(1) = Number(1)
          /\ Start(2) = Number(1) /\ Count(2) = k
      BY <2>4 DEF Start, Count
    <3>2. i \in 1..Number(1) \/ i \in (Number(1) + 1)..(Number(1) + k)
      BY <1>1, <1>2, <2>2, <2>4, <3>1
    <3>3. Number(1) \in Nat
      BY <1>2, <2>2
    <3>4. /\ i \in 1..Number(1) => i \in (Start(1) + 1)..(Start(1) + Count(1))
          /\ i \in (Number(1) + 1)..(Number(1) + k) => i \in (Start(2) + 1)..(Start(2) + Count(2))
      BY <3>1, <3>3
    <3> QED BY <2>2, <3>2, <3>4
  <2>5. CASE field = 3
    <3>1. /\ Start(1) = 0 /\ Count(1) = Number(1)
          /\ Start(2) = Number(1) /\ Count(2) = Number(2)
          /\ Start(3) = Number(1) + Number(2) /\ Count(3) = k
      BY <2>5 DEF Start, Count
    <3>2. \/ i \in 1..Number(1) \/ i \in (Number(1) + 1)..(Number(1) + Number(2))
          \/ i \in (Number(1) + Number(2) + 1)..(Number(1) + Number(2) + k)
      BY <1>1, <1>2, <2>2, <2>5, <3>1
    <3>3. Number(1) \in Nat /\ Number(2) \in Nat
      BY <1>2, <2>2
    <3>4. /\ i \in 1..Number(1) => i \in (Start(1) + 1)..(Start(1) + Count(1))
          /\ i \in (Number(1) + 1)..(Number(1) + Number(2)) =>
                i \in (Start(2) + 1)..(Start(2) + Count(2))
          /\ i \in (Number(1) + Number(2) + 1)..(Number(1) + Number(2) + k) =>
                i \in (Start(3) + 1)..(Start(3) + Count(3))
      BY <3>1, <3>3
    <3> QED BY <2>2, <3>2, <3>4
  <2> QED BY <1>1, <2>3, <2>4, <2>5 DEF Field
<1>6. ASSUME NEW g \in Field, NEW i \in (Start(g) + 1)..(Start(g) + Count(g))
      PROVE  i \in DOMAIN sent /\ sent[i].about = g
  <2>1. i - Start(g) - 1 \in Nat /\ i - Start(g) - 1 < Count(g)
        /\ Start(g) + (i - Start(g) - 1) + 1 = i
    BY <1>2
  <2> QED BY <1>4, <2>1
<1>7. ASSUME NEW i \in Of(f) PROVE i \in (Start(f) + 1)..(Start(f) + Count(f))
  <2>1. i \in DOMAIN sent /\ sent[i].about = f
    BY <1>7 DEF Of
  <2>2. PICK g \in Field : i \in (Start(g) + 1)..(Start(g) + Count(g))
    BY <1>5, <2>1
  <2>3. g = f
    BY <1>6, <2>1, <2>2
  <2> QED BY <2>2, <2>3
<1>8. Of(f) = (Start(f) + 1)..(Start(f) + Count(f))
  BY <1>6, <1>7 DEF Of
<1>9. \A j \in Nat : j < Count(f) => /\ Start(f) + j + 1 \in Of(f)
                                     /\ sent[Start(f) + j + 1] = Message(f, BodyAt(f, j))
  BY <1>4 DEF Of
<1>10. \A i \in DOMAIN sent : \E g \in Field : i \in Of(g)
  BY <1>5, <1>6 DEF Of
<1> QED BY <1>2, <1>3, <1>8, <1>9, <1>10

LEMMA BodyOfMessage ==
    ASSUME NEW f \in Field, NEW j
    PROVE  /\ BodyAt(f, j)[f] = PieceOf(text[f], Left, j)
           /\ \A g \in Field : g < f => BodyAt(f, j)[g] = PieceOf(text[g], Left, Number(g) - 1)
           /\ \A g \in Field : f < g => BodyAt(f, j)[g] = Absent
BY DEF BodyAt, BodyBefore, Field

LEMMA NothingSplit ==
    ASSUME SplitInv, ~Splitting, NEW f \in Field
    PROVE  Of(f) = {}
BY DEF SplitInv, NotSplit, Of, Field

LEMMA NextOffset ==
    ASSUME NEW left \in Nat, NEW m \in Nat
    PROVE  /\ Offset(left, m) \in Int /\ Offset(left, 0) = 0
           /\ Offset(left, m + 1) = Offset(left, m) + left - 1
<1>1. m * (left - 1) \in Int
  BY SMT
<1>2. (m + 1) * (left - 1) = m * (left - 1) + left - 1
  BY SMT
<1>3. 0 * (left - 1) = 0
  BY SMT
<1> QED BY <1>1, <1>2, <1>3 DEF Offset

LEMMA PieceFacts ==
    ASSUME SplitTypes, Left > 0, NEW f \in Field, text[f] # NoText,
           NEW m \in Nat, m < Number(f)
    PROVE  LET piece == PieceOf(text[f], Left, m)
               next  == Offset(Left, m + 1)
           IN  /\ piece.is = "text"
               /\ piece.from = Offset(Left, m) /\ piece.from \in 0..text[f]
               /\ piece.to = (IF text[f] < next THEN text[f] ELSE next)
               /\ next = piece.from + Left - 1
<1>1. text[f] \in Nat /\ Left \in Nat /\ Size(text[f]) = text[f] /\ Left > 0
  BY TextLength
<1>2. m < Pieces(text[f], Left)
  BY <1>1 DEF Number
<1>3. Offset(Left, m) \in 0..text[f]
  BY <1>1, <1>2, PieceBeginsInside
<1>4. Offset(Left, m + 1) = Offset(Left, m) + Left - 1
  BY <1>1, NextOffset
<1>5. PieceOf(text[f], Left, m) =
        Part(Offset(Left, m), Shorter(text[f], Offset(Left, m) + Left - 1))
  BY DEF PieceOf
<1> QED BY <1>3, <1>4, <1>5 DEF Part, Shorter

(* The j-th place of text f is piece j - Start(f) - 1.                     *)
LEMMA PieceAtPlace ==
    ASSUME SplitInv, Splitting, NEW f \in Field, NEW j \in Of(f)
    PROVE  \E m \in Nat : /\ m < Count(f) /\ m < Number(f) /\ j = Start(f) + m + 1
                          /\ sent[j] = Message(f, BodyAt(f, m))
                          /\ sent[j].body[f] = PieceOf(text[f], Left, m)
<1>1. /\ Of(f) = (Start(f) + 1)..(Start(f) + Count(f))
      /\ Start(f) \in Nat /\ Count(f) \in Nat /\ Count(f) <= Number(f)
  BY PlacesOfText
<1> DEFINE m == j - Start(f) - 1
<1>2. m \in Nat /\ m < Count(f) /\ j = Start(f) + m + 1
  BY <1>1
<1>3. Number(f) \in Nat
  BY NumberOfPieces DEF SplitInv, Splitting
<1>4. sent[j] = Message(f, BodyAt(f, m))
  BY <1>2, PlacesOfText
<1>5. sent[j].body = BodyAt(f, m)
  BY <1>4 DEF Message
<1>6. sent[j].body[f] = PieceOf(text[f], Left, m)
  BY <1>5, BodyOfMessage
<1> QED BY <1>1, <1>2, <1>3, <1>4, <1>6

(***************************************************************************)
(* PiecesFollow for every room, every texts and every number of pieces:    *)
(* the pieces of a text begin at its beginning, without a gap or overlap.  *)
(***************************************************************************)
THEOREM PiecesAreOneText == Spec => []PiecesFollow
<1>1. SplitInv => PiecesFollow
  <2> SUFFICES ASSUME SplitInv, NEW f \in Field, text[f] # NoText
               PROVE  /\ \A j \in Of(f) : IsFirst(f, j) => sent[j].body[f].from = 0
                      /\ \A i, j \in Of(f) :
                            Follows(f, i, j) => sent[j].body[f].from = sent[i].body[f].to
    BY DEF PiecesFollow
  <2>1. CASE ~Splitting
    BY <2>1, NothingSplit
  <2>2. CASE Splitting
    <3>1. /\ Of(f) = (Start(f) + 1)..(Start(f) + Count(f))
          /\ Start(f) \in Nat /\ Count(f) \in Nat
      BY <2>2, PlacesOfText
    <3>2. SplitTypes /\ Left > 0 /\ Left \in Nat
      BY <2>2, TextLength DEF SplitInv, Splitting
    <3>3. ASSUME NEW j \in Of(f), IsFirst(f, j) PROVE sent[j].body[f].from = 0
      <4>1. PICK m \in Nat : /\ m < Number(f) /\ j = Start(f) + m + 1
                             /\ sent[j].body[f] = PieceOf(text[f], Left, m)
        BY <2>2, PieceAtPlace
      <4>2. Start(f) + 1 \in Of(f)
        BY <3>1
      <4>3. m = 0
        BY <3>1, <3>3, <4>1, <4>2 DEF IsFirst
      <4> QED BY <3>2, <4>1, <4>3, PieceFacts, NextOffset
    <3>4. ASSUME NEW i \in Of(f), NEW j \in Of(f), Follows(f, i, j)
          PROVE  sent[j].body[f].from = sent[i].body[f].to
      <4>1. PICK m \in Nat : /\ m < Number(f) /\ j = Start(f) + m + 1
                             /\ sent[j].body[f] = PieceOf(text[f], Left, m)
        BY <2>2, PieceAtPlace
      <4>2. PICK n \in Nat : /\ n < Number(f) /\ i = Start(f) + n + 1
                             /\ sent[i].body[f] = PieceOf(text[f], Left, n)
        BY <2>2, PieceAtPlace
      <4>3. m = n + 1
        <5>1. i < j /\ i + 1 \in Of(f)
          BY <3>1, <3>4 DEF Follows
        <5>2. j <= i + 1
          BY <3>1, <3>4, <5>1 DEF Follows
        <5> QED BY <3>1, <4>1, <4>2, <5>1, <5>2, SMTT(20)
      <4>4. Offset(Left, m) \in 0..text[f] /\ sent[j].body[f].from = Offset(Left, m)
        BY <3>2, <4>1, PieceFacts
      <4>5. sent[i].body[f].to = IF text[f] < Offset(Left, m) THEN text[f] ELSE Offset(Left, m)
        BY <3>2, <4>2, <4>3, PieceFacts
      <4>6. text[f] \in Int
        BY <3>2, TextLength
      <4> QED BY <4>4, <4>5, <4>6
    <3> QED BY <3>3, <3>4
  <2> QED BY <2>1, <2>2
<1> QED BY <1>1, SplitInvariance, PTL

-----------------------------------------------------------------------------
(* A split that is over.                                                   *)

LEMMA LastOfText ==
    ASSUME SplitInv, Left > 0, stage = "done", field = 3, NEW f \in Field
    PROVE  /\ Start(f) + Number(f) \in Of(f)
           /\ \A j \in Of(f) : IsLast(f, j) <=> j = Start(f) + Number(f)
           /\ sent[Start(f) + Number(f)].body[f] = PieceOf(text[f], Left, Number(f) - 1)
<1>1. Splitting /\ SplitTypes
  BY DEF Splitting, SplitInv
<1>2. Number(f) \in Nat /\ Number(f) >= 1 /\ Start(f) \in Nat
  BY <1>1, NumberOfPieces
<1>3. Count(f) = Number(f)
  <2>1. k = Number(field)
    BY <1>1 DEF SplitInv, SentSoFar
  <2> QED BY <2>1 DEF Count, Field
<1>4. Of(f) = (Start(f) + 1)..(Start(f) + Number(f))
  BY <1>1, <1>3, PlacesOfText
<1>5. Start(f) + Number(f) \in Of(f)
  BY <1>2, <1>4
<1>6. \A j \in Of(f) : IsLast(f, j) <=> j = Start(f) + Number(f)
  <2> SUFFICES ASSUME NEW j \in Of(f) PROVE IsLast(f, j) <=> j = Start(f) + Number(f)
    OBVIOUS
  <2>1. ASSUME IsLast(f, j) PROVE j = Start(f) + Number(f)
    BY <1>2, <1>4, <1>5, <2>1 DEF IsLast
  <2>2. ASSUME j = Start(f) + Number(f) PROVE IsLast(f, j)
    BY <1>2, <1>4, <2>2 DEF IsLast
  <2> QED BY <2>1, <2>2
<1>7. PICK m \in Nat : /\ Start(f) + Number(f) = Start(f) + m + 1
                       /\ sent[Start(f) + Number(f)].body[f] = PieceOf(text[f], Left, m)
  BY <1>1, <1>5, PieceAtPlace
<1>8. m = Number(f) - 1
  BY <1>2, <1>7
<1> QED BY <1>5, <1>6, <1>7, <1>8

(***************************************************************************)
(* WholeUnlessRounded for every room and every text: which texts lose      *)
(* their end, and how much of it.                                          *)
(***************************************************************************)
THEOREM TextsReachTheirEnd == Spec => []WholeUnlessRounded
<1>1. SplitInv => WholeUnlessRounded
  <2> SUFFICES ASSUME SplitInv, stage = "done", field = 3, Left > 0, NEW f \in Field
               PROVE  LET n == Size(text[f])
                      IN  /\ EndsAt(f, n) <=> (n \div Left) + (n % Left) < Left
                          /\ \E missing \in 0..(n \div Left) : EndsAt(f, n - missing)
    BY DEF WholeUnlessRounded
  <2>1. SplitTypes
    BY DEF SplitInv
  <2> DEFINE n    == Size(text[f])
             last == Start(f) + Number(f)
             next == Offset(Left, Number(f))
  <2>2. n \in Nat /\ Left \in Nat
    BY <2>1, TextLength
  <2>3. Number(f) \in Nat /\ Number(f) >= 1 /\ Number(f) = Pieces(n, Left)
    BY <2>1, NumberOfPieces DEF Number
  <2>4. next \in Nat
    <3>1. Number(f) * (Left - 1) \in Nat
      BY <2>2, <2>3, SMT
    <3> QED BY <3>1 DEF Offset
  <2>5. sent[last].body[f].to = IF n < next THEN n ELSE next
    <3>1. CASE text[f] = NoText
      <4>1. PieceOf(text[f], Left, Number(f) - 1) = Null
        BY <3>1 DEF PieceOf
      <4>2. sent[last].body[f].to = 0 /\ n = 0
        BY <3>1, <4>1, LastOfText DEF Null, Size
      <4> QED BY <2>4, <4>2
    <3>2. CASE text[f] # NoText
      <4>1. Number(f) - 1 \in Nat /\ Number(f) - 1 < Number(f) /\ (Number(f) - 1) + 1 = Number(f)
        BY <2>3
      <4>2. n = text[f]
        BY <2>1, <3>2, TextLength
      <4> QED BY <2>1, <3>2, <4>1, <4>2, PieceFacts, LastOfText
    <3> QED BY <3>1, <3>2
  <2>6. \A x : EndsAt(f, x) <=> sent[last].body[f].to = x
    BY LastOfText DEF EndsAt
  <2>7. /\ next >= n <=> (n \div Left) + (n % Left) < Left
        /\ n - next <= n \div Left
    BY <2>2, <2>3, SplitReaches
  <2>8. n \div Left \in Nat
    BY <2>2, Division
  <2> HIDE DEF n, last, next
  <2>9. EndsAt(f, n) <=> next >= n
    BY <2>2, <2>4, <2>5, <2>6
  <2>10. \E missing \in 0..(n \div Left) : EndsAt(f, n - missing)
    <3>1. CASE n < next
      <4>1. EndsAt(f, n - 0) /\ 0 \in 0..(n \div Left)
        BY <2>2, <2>5, <2>6, <2>8, <3>1
      <4> QED BY <4>1
    <3>2. CASE ~(n < next)
      <4>1. EndsAt(f, n - (n - next)) /\ n - next \in 0..(n \div Left)
        BY <2>2, <2>4, <2>5, <2>6, <2>7, <2>8, <3>2
      <4> QED BY <4>1
    <3> QED BY <3>1, <3>2
  <2> QED BY <2>7, <2>9, <2>10 DEF n
<1> QED BY <1>1, SplitInvariance, PTL

-----------------------------------------------------------------------------
(* Pieces that are cut inside a character.                                 *)

LEMMA EvenOffset ==
    ASSUME NEW left \in Nat, (left - 1) % 2 # 1, NEW m \in Nat
    PROVE  Offset(left, m) % 2 = 0
<1>1. left - 1 \in Int /\ (left - 1) % 2 = 0
  BY SMT
<1>2. PICK h \in Int : left - 1 = 2 * h
  <2>1. (left - 1) \div 2 \in Int /\ left - 1 = 2 * ((left - 1) \div 2)
    BY <1>1, SMT
  <2> QED BY <2>1
<1>3. PICK i \in Int : i = m * h
  BY SMT
<1>4. m * (left - 1) = 2 * i
  BY <1>2, <1>3, SMT
<1>5. (2 * i) % 2 = 0
  BY SMT
<1> QED BY <1>4, <1>5 DEF Offset

(* A piece that begins or ends inside a character is one of a text that    *)
(* pieces of this size cut.                                                *)
LEMMA CutPiece ==
    ASSUME SplitTypes, Left > 0, NEW f \in Field, text[f] # NoText,
           NEW m \in Nat, m < Number(f),
           \/ InCharacter(text[f], PieceOf(text[f], Left, m).from)
           \/ InCharacter(text[f], PieceOf(text[f], Left, m).to)
    PROVE  Cut(f)
<1> DEFINE n    == text[f]
           from == Offset(Left, m)
           next == Offset(Left, m + 1)
<1>1. n \in Nat /\ Left \in Nat /\ Size(n) = n
  BY TextLength
<1>2. /\ PieceOf(n, Left, m).from = from /\ from \in 0..n
      /\ PieceOf(n, Left, m).to = (IF n < next THEN n ELSE next)
      /\ next = from + Left - 1
  BY PieceFacts
<1>3. n \in TwoBytes /\ (from % 2 = 1 \/ (IF n < next THEN n ELSE next) % 2 = 1)
  BY <1>1, <1>2 DEF InCharacter
<1>4. n % 2 = 0
  BY <1>3, SplitAssumption
<1>5. Offset(Left, 0) = 0
  BY <1>1, NextOffset
<1> HIDE DEF n, from, next
<1>6. (Left - 1) % 2 = 1
  <2>1. (Left - 1) % 2 # 1 => from % 2 = 0 /\ next % 2 = 0
    BY <1>1, EvenOffset DEF from, next
  <2> QED BY <1>3, <1>4, <2>1
<1>7. n > Left - 1
  <2>1. CASE from % 2 = 1
    <3>1. m # 0
      BY <1>5, <2>1 DEF from
    <3>2. from = m * (Left - 1) /\ m >= 1
      BY <3>1 DEF from, Offset
    <3>3. from >= Left - 1
      <4>1. Left - 1 \in Nat /\ m - 1 \in Nat
        BY <1>1, <3>2
      <4>2. m * (Left - 1) = (m - 1) * (Left - 1) + (Left - 1) /\ (m - 1) * (Left - 1) \in Nat
        BY <4>1, SMT
      <4> QED BY <3>2, <4>1, <4>2
    <3>4. from # n
      BY <1>4, <2>1
    <3> QED BY <1>1, <1>2, <3>3, <3>4
  <2>2. CASE from % 2 # 1
    <3>1. (IF n < next THEN n ELSE next) % 2 = 1
      BY <1>3, <2>2
    <3>2. next % 2 = 1 /\ ~(n < next)
      BY <1>4, <3>1
    <3>3. next # n
      BY <1>4, <3>2
    <3> QED BY <1>1, <1>2, <3>2, <3>3
  <2> QED BY <2>1, <2>2
<1> QED BY <1>1, <1>3, <1>6, <1>7 DEF Cut, n

(* A message is empty when one of its members is cut.                      *)
LEMMA EmptyMessage ==
    ASSUME NEW f \in Field, NEW m, NEW j, sent[j] = Message(f, BodyAt(f, m))
    PROVE  sent[j].empty <=>
              \E g \in Field : /\ BodyAt(f, m)[g].is = "text"
                               /\ \/ InCharacter(text[g], BodyAt(f, m)[g].from)
                                  \/ InCharacter(text[g], BodyAt(f, m)[g].to)
<1>1. sent[j].empty = ~Dumps(BodyAt(f, m), f)
  BY DEF Message
<1> QED BY <1>1 DEF Dumps

(***************************************************************************)
(* EmptyByMisalignment for every room and every text: which pieces cut a   *)
(* character, and what that costs.                                         *)
(***************************************************************************)
THEOREM WhichMessagesAreEmpty == Spec => []EmptyByMisalignment
<1>1. SplitInv => EmptyByMisalignment
  <2> SUFFICES ASSUME SplitInv, stage = "done", field = 3, Left > 0
               PROVE  /\ (\E j \in DOMAIN sent : sent[j].empty) => \E f \in Field : Cut(f)
                      /\ \A f \in Field :
                            Cut(f) => \E j \in Of(f) : IsFirst(f, j) /\ sent[j].empty
                      /\ \A f \in Field : (\E g \in 1..f - 1 : Spoils(g)) =>
                                             \A j \in Of(f) : sent[j].empty
    BY DEF EmptyByMisalignment
  <2>1. SplitTypes /\ Splitting /\ Left \in Nat
    BY TextLength DEF SplitInv, Splitting, Field
  <2>2. \A f \in Field : Number(f) \in Nat /\ Number(f) >= 1 /\ Start(f) \in Nat
    BY <2>1, NumberOfPieces
  <2>3. ASSUME NEW j \in DOMAIN sent, sent[j].empty PROVE \E f \in Field : Cut(f)
    <3>1. PICK f \in Field : j \in Of(f)
      <4>1. 1 \in Field
        BY DEF Field
      <4> QED BY <2>1, <4>1, PlacesOfText
    <3>2. PICK m \in Nat : m < Number(f) /\ sent[j] = Message(f, BodyAt(f, m))
      BY <2>1, <3>1, PieceAtPlace
    <3>3. PICK g \in Field : /\ BodyAt(f, m)[g].is = "text"
                             /\ \/ InCharacter(text[g], BodyAt(f, m)[g].from)
                                \/ InCharacter(text[g], BodyAt(f, m)[g].to)
      BY <2>3, <3>2, EmptyMessage
    <3>4. \E i \in Nat : i < Number(g) /\ BodyAt(f, m)[g] = PieceOf(text[g], Left, i)
      <4>1. CASE g = f
        BY <3>2, <4>1, BodyOfMessage
      <4>2. CASE g < f
        <5>1. Number(g) - 1 \in Nat /\ Number(g) - 1 < Number(g)
          BY <2>2
        <5> QED BY <4>2, <5>1, BodyOfMessage
      <4>3. CASE f < g
        <5>1. BodyAt(f, m)[g] = Absent
          BY <4>3, BodyOfMessage
        <5> QED BY <3>3, <5>1 DEF Absent
      <4> QED BY <4>1, <4>2, <4>3 DEF Field
    <3>5. text[g] # NoText
      BY <3>3, <3>4 DEF PieceOf, Null
    <3>6. Cut(g)
      BY <2>1, <3>3, <3>4, <3>5, CutPiece
    <3> QED BY <3>6
  <2>4. ASSUME NEW f \in Field, Cut(f)
        PROVE  \E j \in Of(f) : IsFirst(f, j) /\ sent[j].empty
    <3>1. text[f] # NoText /\ text[f] \in Nat /\ Size(text[f]) = text[f]
      BY <2>1, <2>4, TextLength DEF Cut, Size
    <3>2. /\ PieceOf(text[f], Left, 0).is = "text"
          /\ PieceOf(text[f], Left, 0).to = Left - 1
      <4>1. Offset(Left, 0) = 0 /\ Offset(Left, 0 + 1) = Left - 1
        BY <2>1, NextOffset
      <4>2. /\ PieceOf(text[f], Left, 0).is = "text"
            /\ PieceOf(text[f], Left, 0).to =
                 (IF text[f] < Offset(Left, 0 + 1) THEN text[f] ELSE Offset(Left, 0 + 1))
        BY <2>1, <2>2, <3>1, PieceFacts
      <4> QED BY <2>1, <2>4, <3>1, <4>1, <4>2 DEF Cut
    <3>3. InCharacter(text[f], Left - 1)
      BY <2>4 DEF Cut, InCharacter
    <3>4. /\ Of(f) = (Start(f) + 1)..(Start(f) + Count(f)) /\ Count(f) \in Nat
          /\ Start(f) + Number(f) \in Of(f)
      BY <2>1, PlacesOfText, LastOfText
    <3>5. Start(f) + 1 \in Of(f) /\ IsFirst(f, Start(f) + 1)
      BY <2>2, <3>4 DEF IsFirst
    <3>6. PICK m \in Nat : /\ Start(f) + 1 = Start(f) + m + 1
                           /\ sent[Start(f) + 1] = Message(f, BodyAt(f, m))
      BY <2>1, <3>5, PieceAtPlace
    <3>7. m = 0
      BY <2>2, <3>6
    <3>8. BodyAt(f, 0)[f] = PieceOf(text[f], Left, 0)
      BY BodyOfMessage
    <3>9. sent[Start(f) + 1].empty
      BY <3>2, <3>3, <3>6, <3>7, <3>8, EmptyMessage
    <3> QED BY <3>5, <3>9
  <2>5. ASSUME NEW f \in Field, NEW g \in 1..f - 1, Spoils(g), NEW j \in Of(f)
        PROVE  sent[j].empty
    <3>1. g \in Field /\ g < f
      BY DEF Field
    <3>2. text[g] # NoText
      BY <2>1, <2>5, <3>1, TextLength DEF Spoils, Cut, Size
    <3>3. PICK i \in Of(g) : /\ IsLast(g, i)
                             /\ \/ InCharacter(text[g], sent[i].body[g].from)
                                \/ InCharacter(text[g], sent[i].body[g].to)
      BY <2>5 DEF Spoils
    <3>4. sent[i].body[g] = PieceOf(text[g], Left, Number(g) - 1)
      BY <3>1, <3>3, LastOfText
    <3>5. PICK m \in Nat : sent[j] = Message(f, BodyAt(f, m))
      BY <2>1, PieceAtPlace
    <3>6. BodyAt(f, m)[g] = PieceOf(text[g], Left, Number(g) - 1)
      BY <3>1, BodyOfMessage
    <3>7. PieceOf(text[g], Left, Number(g) - 1).is = "text"
      BY <3>2 DEF PieceOf, Part
    <3> QED BY <3>1, <3>3, <3>4, <3>5, <3>6, <3>7, EmptyMessage
  <2> QED BY <2>3, <2>4, <2>5
<1> QED BY <1>1, SplitInvariance, PTL
=============================================================================
