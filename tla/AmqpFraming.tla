----------------------------- MODULE AmqpFraming -----------------------------
(***************************************************************************)
(* The methods of AMQP and the properties of a message as octets, and the  *)
(* payloads of the frames that carry them (amqp_framing.c and              *)
(* amqp_connection.c in lib/librabbitmq).                                  *)
(***************************************************************************)
EXTENDS AmqpData, AmqpMethods

-----------------------------------------------------------------------------
(* The properties of a message of class basic, each with the bit of the    *)
(* flags that says it is there.  The other classes have none.              *)

BasicProperty == <<
  ShortStr("content_type"), ShortStr("content_encoding"), Table("headers"),
  Octet("delivery_mode"), Octet("priority"), ShortStr("correlation_id"),
  ShortStr("reply_to"), ShortStr("expiration"), ShortStr("message_id"),
  LongLong("timestamp"), ShortStr("type"), ShortStr("user_id"),
  ShortStr("app_id"), ShortStr("cluster_id")>>

PropertyClasses == {10, 20, 30, 40, 50, 60, 90, 85}
PropertiesOf(class) == IF class = 60 THEN BasicProperty ELSE <<>>

(* The flag of property number j is bit 16 - j.                            *)
PropertyBit(j) == 2^(16 - j)

-----------------------------------------------------------------------------
(* Writing and reading a list of fields.                                   *)

BitsFromLow(names, args) ==
    FoldRight(LAMBDA n, acc : 2 * acc + (IF args[n] THEN 1 ELSE 0), names, 0)

EncodeField(f, args) ==
    CASE f.kind = "octet" -> BigEndian(1, args[f.name])
      [] f.kind = "short" -> BigEndian(2, args[f.name])
      [] f.kind = "long" -> BigEndian(4, args[f.name])
      [] f.kind = "longlong" -> BigEndian64(args[f.name])
      [] f.kind = "shortstr" -> EncodeString(1, args[f.name])
      [] f.kind = "longstr" -> EncodeString(4, args[f.name])
      [] f.kind = "table" -> EncodeTable(args[f.name])
      [] f.kind = "bits" -> <<BitsFromLow(f.name, args)>>

EncodeFields(fields, args) ==
    FlattenSeq([j \in DOMAIN fields |-> EncodeField(fields[j], args)])

(* What is read for a field, as a function from the names it defines.      *)
DecodeField(f, s, o) ==
    LET named(r) == Map(r, LAMBDA v : f.name :> v)
    IN  CASE f.kind = "octet" -> named(DecodeInt(1, s, o))
          [] f.kind = "short" -> named(DecodeInt(2, s, o))
          [] f.kind = "long" -> named(DecodeInt(4, s, o))
          [] f.kind = "longlong" -> named(Decode64(s, o))
          [] f.kind = "shortstr" -> named(DecodeString(1, s, o))
          [] f.kind = "longstr" -> named(DecodeString(4, s, o))
          [] f.kind = "table" -> named(DecodeTable(s, o))
          [] f.kind = "bits" ->
               Map(DecodeInt(1, s, o), LAMBDA x :
                   [n \in ToSet(f.name) |->
                       \E j \in DOMAIN f.name : f.name[j] = n /\ (x \div 2^(j - 1)) % 2 = 1])

DecodeFields(fields, s, o) ==
    LET next(r, f) ==
          Then(r, LAMBDA args, p : Map(DecodeField(f, s, p), LAMBDA v : args @@ v))
    IN  FoldLeft(next, Read(<<>>, o), fields)

-----------------------------------------------------------------------------
(* amqp_encode_method and amqp_decode_method.                              *)

EncodeMethod(m, args) == EncodeFields(FieldsWritten[m], args)
DecodeMethod(m, s)    == DecodeFields(FieldsRead[m], s, 0)

(***************************************************************************)
(* amqp_encode_properties and amqp_decode_properties.  The flags come      *)
(* first, in words of 15 flags and a bit that says that one more follows.  *)
(* The present properties follow in the order of their flags.              *)
(***************************************************************************)
RECURSIVE EncodeFlags(_)
EncodeFlags(flags) ==
    LET rest == flags \div 65536
        word == 2 * ((flags % 65536) \div 2) + (IF rest # 0 THEN 1 ELSE 0)
    IN  BigEndian(2, word) \o (IF rest = 0 THEN <<>> ELSE EncodeFlags(rest))

RECURSIVE DecodeFlags(_, _, _, _)
DecodeFlags(s, o, shift, flags) ==
    Then(DecodeInt(2, s, o), LAMBDA word, p :
      LET all == flags + word * shift
      IN  IF word % 2 = 1 THEN DecodeFlags(s, p, shift * 65536, all) ELSE Read(all, p))

Present(class, flags) ==
    LET all == PropertiesOf(class)
        has(j) == (flags \div PropertyBit(j)) % 2 = 1
    IN  FlattenSeq([j \in DOMAIN all |-> IF has(j) THEN <<all[j]>> ELSE <<>>])

EncodeProperties(class, flags, props) ==
    EncodeFlags(flags) \o EncodeFields(Present(class, flags), props)

DecodeProperties(class, s) ==
    IF class \notin PropertyClasses THEN Bad
    ELSE Then(DecodeFlags(s, 0, 1, 0), LAMBDA flags, p :
           Map(DecodeFields(Present(class, flags), s, p),
               LAMBDA v : [flags |-> flags, props |-> v]))

-----------------------------------------------------------------------------
(***************************************************************************)
(* The payloads of frames: amqp_send_frame and amqp_handle_input, for      *)
(* methods (type 1) and headers (type 2).  The size of a body is a pair of *)
(* halves.  The payload decoded has at least the 4 or 12 octets that come  *)
(* first: of a shorter frame it goes on behind it (AmqpWire, Outcomes).    *)
(***************************************************************************)

EncodeContent(f) ==
    IF f.type = "method"
    THEN BigEndian(2, MethodNumber[f.method][1]) \o BigEndian(2, MethodNumber[f.method][2])
         \o EncodeMethod(f.method, f.args)
    ELSE BigEndian(2, f.class) \o <<0, 0>> \o BigEndian64(f.size)
         \o EncodeProperties(f.class, f.flags, f.props)

DecodeContent(type, channel, payload) ==
    LET ids == {m \in Methods : MethodNumber[m] = <<Number(SubSeq(payload, 1, 2)),
                                                    Number(SubSeq(payload, 3, 4))>>}
        class == Number(SubSeq(payload, 1, 2))
    IN  IF type = 2
        THEN Map(DecodeProperties(class, SubSeq(payload, 13, Len(payload))), LAMBDA p :
               [type |-> "header", channel |-> channel, class |-> class,
                size |-> Decode64(payload, 4).value, flags |-> p.flags, props |-> p.props])
        ELSE IF ids = {} THEN Bad
        ELSE LET method == CHOOSE m \in ids : TRUE
             IN  Map(DecodeMethod(method, SubSeq(payload, 5, Len(payload))), LAMBDA args :
                   [type |-> "method", channel |-> channel, method |-> method, args |-> args])
=============================================================================
