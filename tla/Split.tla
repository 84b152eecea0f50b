-------------------------------- MODULE Split -------------------------------
(***************************************************************************)
(* What one Nagios callback sends: src/events.c and the sizes in           *)
(* src/json.c.  A service check whose texts do not fit in max_size is sent *)
(* as several messages, one piece of one text each; host checks,           *)
(* acknowledgements and downtimes are always one message.                  *)
(*                                                                         *)
(* A text is its length, a piece of it the interval of characters it       *)
(* covers, and the rest of a message its length.  Lengths are in bytes: a  *)
(* text is ASCII, or all its characters have two bytes in UTF-8.  A text   *)
(* member costs Overhead characters beside the text (name, quotes,         *)
(* separators), and characters that JSON escapes are not counted: a real   *)
(* message is longer.                                                      *)
(***************************************************************************)
EXTENDS Integers, Sequences

CONSTANTS MaxSize,   \* option max_size; a negative one would compare as unsigned
          Overhead,  \* what a text member adds to a message beside its text
          Bases,     \* bound: lengths of a message without texts
          Lengths,   \* bound: lengths of a text
          TwoBytes   \* bound: the lengths of texts whose characters have two bytes

ASSUME SplitAssumption == /\ MaxSize \in Nat /\ Overhead \in Nat
                          /\ Bases \subseteq Nat /\ Lengths \subseteq Nat
                          /\ TwoBytes \subseteq {n \in Nat : n % 2 = 0}

Field  == 1..3   \* long_output, output, perf_data
NoText == -1     \* the pointer is NULL

VARIABLES kind,    \* which callback: "service", "host", "comment"
          base,    \* message_size, without texts
          text,    \* the lengths of the three texts
          stage,   \* where the callback is
          field,   \* the text being split
          k,       \* `i' of split_message: pieces of it sent
          body,    \* the texts in jdata
          sent     \* the messages sent

input == <<kind, base, text>>
vars  == <<input, stage, field, k, body, sent>>

Size(t) == IF t = NoText THEN 0 ELSE t   \* xstrlen

(* A member of a message: not there, the word "(null)", or characters      *)
(* from+1 to `to' of the text.                                             *)
Absent         == [is |-> "absent", from |-> 0, to |-> 0]
Null           == [is |-> "null", from |-> 0, to |-> 0]
Part(from, to) == [is |-> "text", from |-> from, to |-> to]
Whole(t)       == IF t = NoText THEN Absent ELSE Part(0, t)

Piece == [is : {"absent", "null", "text"}, from : Nat, to : Nat]

-----------------------------------------------------------------------------
(* Sizes.                                                                  *)

Left == MaxSize - base
Rest == Size(text[1]) + Size(text[2]) + Size(text[3])

(* Division in C, of a natural number by an integer other than 0.          *)
Quotient(a, b) == IF b > 0 THEN a \div b ELSE -(a \div (-b))

(* n2a_nebstruct_service_check_data_to_json: nbmsg.                        *)
Messages == IF Rest > Left THEN Quotient(Rest, Left) + 1 ELSE 1

PiecesRoundedDown(n, left) == Quotient(n, left)   \* defect: the rest forgotten

(* split_message: the number of pieces of a text of length n.              *)
Pieces(n, left) == Quotient(n, left) + 1

OffsetBySize(left, j) == j * left   \* defect: one character skipped

(* ..._update_json: where piece j begins.  snprintf writes left - 1        *)
(* characters and a final \0.                                              *)
Offset(left, j) == j * (left - 1)

Shorter(a, b) == IF a < b THEN a ELSE b

PieceOf(t, left, j) ==
    IF t = NoText THEN Null
    ELSE Part(Offset(left, j), Shorter(t, Offset(left, j) + left - 1))

InCharacter(t, p) == Size(t) \in TwoBytes /\ p % 2 = 1

DumpsChecked(members, f) ==   \* defect: only the new member is looked at
    ~InCharacter(text[f], members[f].from) /\ ~InCharacter(text[f], members[f].to)

(* json_dumps returns NULL if a member is not UTF-8.                       *)
Dumps(members, f) ==
    \A g \in Field : members[g].is = "text" =>
        ~InCharacter(text[g], members[g].from) /\ ~InCharacter(text[g], members[g].to)

(* A message that split_message sends about field f.  For NULL it sends an *)
(* empty message.                                                          *)
Message(f, members) == [about |-> f, body |-> members, empty |-> ~Dumps(members, f)]

-----------------------------------------------------------------------------
(* The callbacks.                                                          *)

Init == /\ kind \in {"service", "host", "comment"}
        /\ base \in Bases
        /\ text \in [Field -> Lengths \cup {NoText}]
        /\ stage = "start" /\ field = 1 /\ k = 0
        /\ body = [f \in Field |-> Absent] /\ sent = <<>>

SendOne(members) == /\ body' = members
                    /\ sent' = <<[about |-> 0, body |-> members, empty |-> FALSE]>>
                    /\ stage' = "done"
                    /\ UNCHANGED <<input, field, k>>

(* The texts fit.                                                          *)
ServiceWhole == /\ stage = "start" /\ kind = "service"
                /\ Rest <= Left
                /\ SendOne([f \in Field |-> Whole(text[f])])

(* They do not, but the division by a negative Left says one message: the  *)
(* message goes without its texts.                                         *)
ServiceBare == /\ stage = "start" /\ kind = "service"
               /\ Rest > Left /\ Left # 0 /\ Messages = 1
               /\ SendOne(body)

DivideByZero == /\ stage = "start" /\ kind = "service"
                /\ Rest > Left /\ Left = 0
                /\ stage' = "undefined"
                /\ UNCHANGED <<input, field, k, body, sent>>

ServiceSplit == /\ stage = "start" /\ kind = "service"
                /\ Rest > Left /\ Left # 0 /\ Messages # 1
                /\ stage' = "split"
                /\ UNCHANGED <<input, field, k, body, sent>>

(* One turn of split_message: jdata keeps the other members it has.        *)
SendPiece == /\ stage = "split" /\ k < Pieces(Size(text[field]), Left)
             /\ Left > 0
             /\ body' = [body EXCEPT ![field] = PieceOf(text[field], Left, k)]
             /\ sent' = Append(sent, Message(field, body'))
             /\ k' = k + 1
             /\ UNCHANGED <<input, stage, field>>

(* A buffer of negative size is allocated and written to.                  *)
NegativeBuffer == /\ stage = "split" /\ k < Pieces(Size(text[field]), Left)
                  /\ Left < 0
                  /\ stage' = "undefined"
                  /\ UNCHANGED <<input, field, k, body, sent>>

(* The next use of split_message, or the end of the callback.              *)
NextField ==
    /\ stage = "split" /\ k >= Pieces(Size(text[field]), Left)
    /\ \/ field < 3 /\ field' = field + 1 /\ k' = 0 /\ UNCHANGED stage
       \/ field = 3 /\ stage' = "done" /\ UNCHANGED <<field, k>>
    /\ UNCHANGED <<input, body, sent>>

(* n2a_nebstruct_host_check_data_to_json: when the message is too long     *)
(* already, the texts that are added are those as long as the excess.      *)
HostCheck == /\ stage = "start" /\ kind = "host"
             /\ SendOne([f \in Field |->
                  IF base > MaxSize /\ Size(text[f]) < base - MaxSize
                    THEN Absent ELSE Whole(text[f])])

(* Acknowledgement and downtime: one text, left empty if it is too long.   *)
CommentEvent == /\ stage = "start" /\ kind = "comment"
                /\ SendOne([f \in Field |->
                     IF f # 2 THEN Absent
                     ELSE IF Size(text[2]) > MaxSize THEN Part(0, 0) ELSE Whole(text[2])])

Next == \/ ServiceWhole \/ ServiceBare \/ DivideByZero \/ ServiceSplit
        \/ SendPiece \/ NegativeBuffer \/ NextField
        \/ HostCheck \/ CommentEvent

Spec == Init /\ [][Next]_vars

-----------------------------------------------------------------------------
(* Properties.                                                             *)

(* The messages about text f, by their places in what was sent.            *)
Of(f) == {j \in DOMAIN sent : sent[j].about = f}

IsFirst(f, j) == j \in Of(f) /\ \A i \in Of(f) : j <= i
IsLast(f, j)  == j \in Of(f) /\ \A i \in Of(f) : i <= j
Follows(f, i, j) == i < j /\ \A g \in Of(f) : g <= i \/ j <= g

(***************************************************************************)
(* The pieces of a text begin at its first character and each begins where *)
(* the one before ended: what a receiver puts together is a beginning of   *)
(* the text, although pieces are counted with one size and cut with        *)
(* another.                                                                *)
(***************************************************************************)
PiecesFollow ==
    \A f \in Field : text[f] # NoText =>
        /\ \A j \in Of(f) : IsFirst(f, j) => sent[j].body[f].from = 0
        /\ \A i, j \in Of(f) :
              Follows(f, i, j) => sent[j].body[f].from = sent[i].body[f].to

(* What was sent of the text ends there.                                   *)
EndsAt(f, n) == \E j \in Of(f) : IsLast(f, j) /\ sent[j].body[f].to = n

(***************************************************************************)
(* Which texts a finished split has sent to the end.  Pieces are counted   *)
(* by left and advance by left - 1, so the end of a text is missing        *)
(* exactly when the quotient and the remainder of its length by left add   *)
(* up to left or more; what is missing is never longer than the quotient.  *)
(***************************************************************************)
WholeUnlessRounded ==
    stage = "done" /\ field = 3 /\ k > 0 /\ Left > 0 =>
        \A f \in Field :
            LET n == Size(text[f])
            IN  /\ EndsAt(f, n) <=> (n \div Left) + (n % Left) < Left
                /\ \E missing \in 0..(n \div Left) : EndsAt(f, n - missing)

(* The text has characters that pieces of left - 1 bytes cut.              *)
Cut(f) == Size(text[f]) \in TwoBytes /\ Size(text[f]) > Left - 1 /\ (Left - 1) % 2 = 1

(* The last piece of text f begins or ends inside a character.             *)
Spoils(f) == Cut(f) /\ \E j \in Of(f) :
                /\ IsLast(f, j)
                /\ \/ InCharacter(text[f], sent[j].body[f].from)
                   \/ InCharacter(text[f], sent[j].body[f].to)

(***************************************************************************)
(* Pieces are cut by bytes, and one cut inside a character makes messages  *)
(* empty.  None is lost if left - 1, by which pieces advance, does not cut *)
(* the characters; otherwise a text of two-byte characters that takes      *)
(* several pieces always loses its first one, and when its last piece      *)
(* begins inside a character, every message of the texts that follow is    *)
(* empty too, for that piece stays in jdata.                               *)
(***************************************************************************)
EmptyByMisalignment ==
    stage = "done" /\ field = 3 /\ k > 0 /\ Left > 0 =>
        /\ (\E j \in DOMAIN sent : sent[j].empty) => \E f \in Field : Cut(f)
        /\ \A f \in Field : Cut(f) => \E j \in Of(f) : IsFirst(f, j) /\ sent[j].empty
        /\ \A f \in Field : (\E g \in 1..f - 1 : Spoils(g)) => \A j \in Of(f) : sent[j].empty

MessageLength(m) ==
    LET member(f) == CASE m.body[f].is = "absent" -> 0
                       [] m.body[f].is = "null"   -> Overhead + Shorter(6, Left - 1)
                       [] m.body[f].is = "text"   -> Overhead + m.body[f].to - m.body[f].from
    IN  base + member(1) + member(2) + member(3)

(***************************************************************************)
(* README: max_size is the "Maximum message size to send to the AMQP bus". *)
(* No message is longer, at least if it is not so without any text.        *)
(***************************************************************************)
FitsMaxSize ==
    base <= MaxSize => \A j \in 1..Len(sent) : MessageLength(sent[j]) <= MaxSize
=============================================================================
