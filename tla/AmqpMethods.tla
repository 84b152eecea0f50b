----------------------------- MODULE AmqpMethods -----------------------------
(***************************************************************************)
(* The methods of AMQP: their numbers, their fields, and the requests that *)
(* the library makes (lib/librabbitmq/amqp_framing.c).  For every class    *)
(* there is the list of fields amqp_decode_method reads and, separately,   *)
(* the list amqp_encode_method writes: nothing but the generator keeps the *)
(* two the same.                                                           *)
(*                                                                         *)
(* The arguments of a method are a function from the names of its fields.  *)
(***************************************************************************)
EXTENDS Integers, Sequences, SequencesExt

(* The kinds of fields.  Consecutive bits share an octet, first bit lowest.*)
Octet(name)    == [kind |-> "octet", name |-> name]
Short(name)    == [kind |-> "short", name |-> name]
Long(name)     == [kind |-> "long", name |-> name]
LongLong(name) == [kind |-> "longlong", name |-> name]
ShortStr(name) == [kind |-> "shortstr", name |-> name]
LongStr(name)  == [kind |-> "longstr", name |-> name]
Table(name)    == [kind |-> "table", name |-> name]
Bits(names)    == [kind |-> "bits", name |-> names]

(* The tables are kept by class; two of them in one.                       *)
Merged(f, g) ==
    [m \in DOMAIN f \cup DOMAIN g |-> IF m \in DOMAIN f THEN f[m] ELSE g[m]]

-----------------------------------------------------------------------------
(* The numbers of the classes and methods.                                 *)

ConnectionMethods == [
  connection_start |-> <<10, 10>>, connection_start_ok |-> <<10, 11>>,
  connection_secure |-> <<10, 20>>, connection_secure_ok |-> <<10, 21>>,
  connection_tune |-> <<10, 30>>, connection_tune_ok |-> <<10, 31>>,
  connection_open |-> <<10, 40>>, connection_open_ok |-> <<10, 41>>,
  connection_close |-> <<10, 50>>, connection_close_ok |-> <<10, 51>>]
ChannelMethods == [
  channel_open |-> <<20, 10>>, channel_open_ok |-> <<20, 11>>,
  channel_flow |-> <<20, 20>>, channel_flow_ok |-> <<20, 21>>,
  channel_close |-> <<20, 40>>, channel_close_ok |-> <<20, 41>>]
AccessMethods == [
  access_request |-> <<30, 10>>, access_request_ok |-> <<30, 11>>]
ExchangeMethods == [
  exchange_declare |-> <<40, 10>>, exchange_declare_ok |-> <<40, 11>>,
  exchange_delete |-> <<40, 20>>, exchange_delete_ok |-> <<40, 21>>,
  exchange_bind |-> <<40, 30>>, exchange_bind_ok |-> <<40, 31>>,
  exchange_unbind |-> <<40, 40>>, exchange_unbind_ok |-> <<40, 51>>]
QueueMethods == [
  queue_declare |-> <<50, 10>>, queue_declare_ok |-> <<50, 11>>,
  queue_bind |-> <<50, 20>>, queue_bind_ok |-> <<50, 21>>,
  queue_purge |-> <<50, 30>>, queue_purge_ok |-> <<50, 31>>,
  queue_delete |-> <<50, 40>>, queue_delete_ok |-> <<50, 41>>,
  queue_unbind |-> <<50, 50>>, queue_unbind_ok |-> <<50, 51>>]
BasicMethods == [
  basic_qos |-> <<60, 10>>, basic_qos_ok |-> <<60, 11>>,
  basic_consume |-> <<60, 20>>, basic_consume_ok |-> <<60, 21>>,
  basic_cancel |-> <<60, 30>>, basic_cancel_ok |-> <<60, 31>>,
  basic_publish |-> <<60, 40>>, basic_return |-> <<60, 50>>,
  basic_deliver |-> <<60, 60>>, basic_get |-> <<60, 70>>,
  basic_get_ok |-> <<60, 71>>, basic_get_empty |-> <<60, 72>>,
  basic_ack |-> <<60, 80>>, basic_reject |-> <<60, 90>>,
  basic_recover_async |-> <<60, 100>>, basic_recover |-> <<60, 110>>,
  basic_recover_ok |-> <<60, 111>>, basic_nack |-> <<60, 120>>]
TxMethods == [
  tx_select |-> <<90, 10>>, tx_select_ok |-> <<90, 11>>,
  tx_commit |-> <<90, 20>>, tx_commit_ok |-> <<90, 21>>,
  tx_rollback |-> <<90, 30>>, tx_rollback_ok |-> <<90, 31>>]
ConfirmMethods == [
  confirm_select |-> <<85, 10>>, confirm_select_ok |-> <<85, 11>>]

MethodNumber ==
    Merged(ConnectionMethods, Merged(ChannelMethods, Merged(AccessMethods,
    Merged(ExchangeMethods, Merged(QueueMethods, Merged(BasicMethods,
    Merged(TxMethods, ConfirmMethods)))))))

Methods == DOMAIN MethodNumber

-----------------------------------------------------------------------------
(* What amqp_decode_method reads.                                          *)

ConnectionRead == [
  connection_start |-> <<Octet("version_major"), Octet("version_minor"),
      Table("server_properties"), LongStr("mechanisms"), LongStr("locales")>>,
  connection_start_ok |-> <<Table("client_properties"), ShortStr("mechanism"),
      LongStr("response"), ShortStr("locale")>>,
  connection_secure |-> <<LongStr("challenge")>>,
  connection_secure_ok |-> <<LongStr("response")>>,
  connection_tune |-> <<Short("channel_max"), Long("frame_max"),
      Short("heartbeat")>>,
  connection_tune_ok |-> <<Short("channel_max"), Long("frame_max"),
      Short("heartbeat")>>,
  connection_open |-> <<ShortStr("virtual_host"), ShortStr("capabilities"),
      Bits(<<"insist">>)>>,
  connection_open_ok |-> <<ShortStr("known_hosts")>>,
  connection_close |-> <<Short("reply_code"), ShortStr("reply_text"),
      Short("class_id"), Short("method_id")>>,
  connection_close_ok |-> <<>>]

ChannelRead == [
  channel_open |-> <<ShortStr("out_of_band")>>,
  channel_open_ok |-> <<LongStr("channel_id")>>,
  channel_flow |-> <<Bits(<<"active">>)>>,
  channel_flow_ok |-> <<Bits(<<"active">>)>>,
  channel_close |-> <<Short("reply_code"), ShortStr("reply_text"),
      Short("class_id"), Short("method_id")>>,
  channel_close_ok |-> <<>>]

AccessRead == [
  access_request |-> <<ShortStr("realm"),
      Bits(<<"exclusive", "passive", "active", "write", "read">>)>>,
  access_request_ok |-> <<Short("ticket")>>]

ExchangeRead == [
  exchange_declare |-> <<Short("ticket"), ShortStr("exchange"),
      ShortStr("type"),
      Bits(<<"passive", "durable", "auto_delete", "internal", "nowait">>),
      Table("arguments")>>,
  exchange_declare_ok |-> <<>>,
  exchange_delete |-> <<Short("ticket"), ShortStr("exchange"),
      Bits(<<"if_unused", "nowait">>)>>,
  exchange_delete_ok |-> <<>>,
  exchange_bind |-> <<Short("ticket"), ShortStr("destination"),
      ShortStr("source"), ShortStr("routing_key"), Bits(<<"nowait">>),
      Table("arguments")>>,
  exchange_bind_ok |-> <<>>,
  exchange_unbind |-> <<Short("ticket"), ShortStr("destination"),
      ShortStr("source"), ShortStr("routing_key"), Bits(<<"nowait">>),
      Table("arguments")>>,
  exchange_unbind_ok |-> <<>>]

QueueRead == [
  queue_declare |-> <<Short("ticket"), ShortStr("queue"),
      Bits(<<"passive", "durable", "exclusive", "auto_delete", "nowait">>),
      Table("arguments")>>,
  queue_declare_ok |-> <<ShortStr("queue"), Long("message_count"),
      Long("consumer_count")>>,
  queue_bind |-> <<Short("ticket"), ShortStr("queue"), ShortStr("exchange"),
      ShortStr("routing_key"), Bits(<<"nowait">>), Table("arguments")>>,
  queue_bind_ok |-> <<>>,
  queue_purge |-> <<Short("ticket"), ShortStr("queue"), Bits(<<"nowait">>)>>,
  queue_purge_ok |-> <<Long("message_count")>>,
  queue_delete |-> <<Short("ticket"), ShortStr("queue"),
      Bits(<<"if_unused", "if_empty", "nowait">>)>>,
  queue_delete_ok |-> <<Long("message_count")>>,
  queue_unbind |-> <<Short("ticket"), ShortStr("queue"), ShortStr("exchange"),
      ShortStr("routing_key"), Table("arguments")>>,
  queue_unbind_ok |-> <<>>]

ConsumerRead == [
  basic_qos |-> <<Long("prefetch_size"), Short("prefetch_count"),
      Bits(<<"global">>)>>,
  basic_qos_ok |-> <<>>,
  basic_consume |-> <<Short("ticket"), ShortStr("queue"),
      ShortStr("consumer_tag"),
      Bits(<<"no_local", "no_ack", "exclusive", "nowait">>),
      Table("arguments")>>,
  basic_consume_ok |-> <<ShortStr("consumer_tag")>>,
  basic_cancel |-> <<ShortStr("consumer_tag"), Bits(<<"nowait">>)>>,
  basic_cancel_ok |-> <<ShortStr("consumer_tag")>>]

MessageRead == [
  basic_publish |-> <<Short("ticket"), ShortStr("exchange"),
      ShortStr("routing_key"), Bits(<<"mandatory", "immediate">>)>>,
  basic_return |-> <<Short("reply_code"), ShortStr("reply_text"),
      ShortStr("exchange"), ShortStr("routing_key")>>,
  basic_deliver |-> <<ShortStr("consumer_tag"), LongLong("delivery_tag"),
      Bits(<<"redelivered">>), ShortStr("exchange"), ShortStr("routing_key")>>,
  basic_get |-> <<Short("ticket"), ShortStr("queue"), Bits(<<"no_ack">>)>>,
  basic_get_ok |-> <<LongLong("delivery_tag"), Bits(<<"redelivered">>),
      ShortStr("exchange"), ShortStr("routing_key"), Long("message_count")>>,
  basic_get_empty |-> <<ShortStr("cluster_id")>>,
  basic_ack |-> <<LongLong("delivery_tag"), Bits(<<"multiple">>)>>,
  basic_reject |-> <<LongLong("delivery_tag"), Bits(<<"requeue">>)>>,
  basic_recover_async |-> <<Bits(<<"requeue">>)>>,
  basic_recover |-> <<Bits(<<"requeue">>)>>,
  basic_recover_ok |-> <<>>,
  basic_nack |-> <<LongLong("delivery_tag"), Bits(<<"multiple", "requeue">>)>>]

TxRead == [
  tx_select |-> <<>>,
  tx_select_ok |-> <<>>,
  tx_commit |-> <<>>,
  tx_commit_ok |-> <<>>,
  tx_rollback |-> <<>>,
  tx_rollback_ok |-> <<>>]

ConfirmRead == [
  confirm_select |-> <<Bits(<<"nowait">>)>>,
  confirm_select_ok |-> <<>>]

FieldsRead ==
    Merged(ConnectionRead, Merged(ChannelRead, Merged(AccessRead,
    Merged(ExchangeRead, Merged(QueueRead, Merged(ConsumerRead,
    Merged(MessageRead, Merged(TxRead, ConfirmRead))))))))

-----------------------------------------------------------------------------
(* What amqp_encode_method writes.                                         *)

ConnectionWritten == [
  connection_start |-> <<Octet("version_major"), Octet("version_minor"),
      Table("server_properties"), LongStr("mechanisms"), LongStr("locales")>>,
  connection_start_ok |-> <<Table("client_properties"), ShortStr("mechanism"),
      LongStr("response"), ShortStr("locale")>>,
  connection_secure |-> <<LongStr("challenge")>>,
  connection_secure_ok |-> <<LongStr("response")>>,
  connection_tune |-> <<Short("channel_max"), Long("frame_max"),
      Short("heartbeat")>>,
  connection_tune_ok |-> <<Short("channel_max"), Long("frame_max"),
      Short("heartbeat")>>,
  connection_open |-> <<ShortStr("virtual_host"), ShortStr("capabilities"),
      Bits(<<"insist">>)>>,
  connection_open_ok |-> <<ShortStr("known_hosts")>>,
  connection_close |-> <<Short("reply_code"), ShortStr("reply_text"),
      Short("class_id"), Short("method_id")>>,
  connection_close_ok |-> <<>>]

ChannelWritten == [
  channel_open |-> <<ShortStr("out_of_band")>>,
  channel_open_ok |-> <<LongStr("channel_id")>>,
  channel_flow |-> <<Bits(<<"active">>)>>,
  channel_flow_ok |-> <<Bits(<<"active">>)>>,
  channel_close |-> <<Short("reply_code"), ShortStr("reply_text"),
      Short("class_id"), Short("method_id")>>,
  channel_close_ok |-> <<>>]

AccessWritten == [
  access_request |-> <<ShortStr("realm"),
      Bits(<<"exclusive", "passive", "active", "write", "read">>)>>,
  access_request_ok |-> <<Short("ticket")>>]

ExchangeWritten == [
  exchange_declare |-> <<Short("ticket"), ShortStr("exchange"),
      ShortStr("type"),
      Bits(<<"passive", "durable", "auto_delete", "internal", "nowait">>),
      Table("arguments")>>,
  exchange_declare_ok |-> <<>>,
  exchange_delete |-> <<Short("ticket"), ShortStr("exchange"),
      Bits(<<"if_unused", "nowait">>)>>,
  exchange_delete_ok |-> <<>>,
  exchange_bind |-> <<Short("ticket"), ShortStr("destination"),
      ShortStr("source"), ShortStr("routing_key"), Bits(<<"nowait">>),
      Table("arguments")>>,
  exchange_bind_ok |-> <<>>,
  exchange_unbind |-> <<Short("ticket"), ShortStr("destination"),
      ShortStr("source"), ShortStr("routing_key"), Bits(<<"nowait">>),
      Table("arguments")>>,
  exchange_unbind_ok |-> <<>>]

QueueWritten == [
  queue_declare |-> <<Short("ticket"), ShortStr("queue"),
      Bits(<<"passive", "durable", "exclusive", "auto_delete", "nowait">>),
      Table("arguments")>>,
  queue_declare_ok |-> <<ShortStr("queue"), Long("message_count"),
      Long("consumer_count")>>,
  queue_bind |-> <<Short("ticket"), ShortStr("queue"), ShortStr("exchange"),
      ShortStr("routing_key"), Bits(<<"nowait">>), Table("arguments")>>,
  queue_bind_ok |-> <<>>,
  queue_purge |-> <<Short("ticket"), ShortStr("queue"), Bits(<<"nowait">>)>>,
  queue_purge_ok |-> <<Long("message_count")>>,
  queue_delete |-> <<Short("ticket"), ShortStr("queue"),
      Bits(<<"if_unused", "if_empty", "nowait">>)>>,
  queue_delete_ok |-> <<Long("message_count")>>,
  queue_unbind |-> <<Short("ticket"), ShortStr("queue"), ShortStr("exchange"),
      ShortStr("routing_key"), Table("arguments")>>,
  queue_unbind_ok |-> <<>>]

ConsumerWritten == [
  basic_qos |-> <<Long("prefetch_size"), Short("prefetch_count"),
      Bits(<<"global">>)>>,
  basic_qos_ok |-> <<>>,
  basic_consume |-> <<Short("ticket"), ShortStr("queue"),
      ShortStr("consumer_tag"),
      Bits(<<"no_local", "no_ack", "exclusive", "nowait">>),
      Table("arguments")>>,
  basic_consume_ok |-> <<ShortStr("consumer_tag")>>,
  basic_cancel |-> <<ShortStr("consumer_tag"), Bits(<<"nowait">>)>>,
  basic_cancel_ok |-> <<ShortStr("consumer_tag")>>]

MessageWritten == [
  basic_publish |-> <<Short("ticket"), ShortStr("exchange"),
      ShortStr("routing_key"), Bits(<<"mandatory", "immediate">>)>>,
  basic_return |-> <<Short("reply_code"), ShortStr("reply_text"),
      ShortStr("exchange"), ShortStr("routing_key")>>,
  basic_deliver |-> <<ShortStr("consumer_tag"), LongLong("delivery_tag"),
      Bits(<<"redelivered">>), ShortStr("exchange"), ShortStr("routing_key")>>,
  basic_get |-> <<Short("ticket"), ShortStr("queue"), Bits(<<"no_ack">>)>>,
  basic_get_ok |-> <<LongLong("delivery_tag"), Bits(<<"redelivered">>),
      ShortStr("exchange"), ShortStr("routing_key"), Long("message_count")>>,
  basic_get_empty |-> <<ShortStr("cluster_id")>>,
  basic_ack |-> <<LongLong("delivery_tag"), Bits(<<"multiple">>)>>,
  basic_reject |-> <<LongLong("delivery_tag"), Bits(<<"requeue">>)>>,
  basic_recover_async |-> <<Bits(<<"requeue">>)>>,
  basic_recover |-> <<Bits(<<"requeue">>)>>,
  basic_recover_ok |-> <<>>,
  basic_nack |-> <<LongLong("delivery_tag"), Bits(<<"multiple", "requeue">>)>>]

TxWritten == [
  tx_select |-> <<>>,
  tx_select_ok |-> <<>>,
  tx_commit |-> <<>>,
  tx_commit_ok |-> <<>>,
  tx_rollback |-> <<>>,
  tx_rollback_ok |-> <<>>]

ConfirmWritten == [
  confirm_select |-> <<Bits(<<"nowait">>)>>,
  confirm_select_ok |-> <<>>]

FieldsWritten ==
    Merged(ConnectionWritten, Merged(ChannelWritten, Merged(AccessWritten,
    Merged(ExchangeWritten, Merged(QueueWritten, Merged(ConsumerWritten,
    Merged(MessageWritten, Merged(TxWritten, ConfirmWritten))))))))

-----------------------------------------------------------------------------
(* The requests: the fields the caller gives and those set to zero.  They  *)
(* are built on the stack, so a field that is neither is undefined.        *)

ObjectRequests == [
  channel_open |-> [given |-> {}, zero |-> {"out_of_band"}],
  channel_flow |-> [given |-> {"active"}, zero |-> {}],
  exchange_declare |-> [given |-> {"exchange", "type", "passive", "durable", "arguments"},
      zero |-> {"ticket", "auto_delete", "internal", "nowait"}],
  exchange_delete |-> [given |-> {"exchange", "if_unused"},
      zero |-> {"ticket", "nowait"}],
  exchange_bind |-> [given |-> {"destination", "source", "routing_key", "arguments"},
      zero |-> {"ticket", "nowait"}],
  exchange_unbind |-> [given |-> {"destination", "source", "routing_key", "arguments"},
      zero |-> {"ticket", "nowait"}],
  queue_declare |-> [given |-> {"queue", "passive", "durable", "exclusive", "auto_delete", "arguments"},
      zero |-> {"ticket", "nowait"}],
  queue_bind |-> [given |-> {"queue", "exchange", "routing_key", "arguments"},
      zero |-> {"ticket", "nowait"}],
  queue_purge |-> [given |-> {"queue"}, zero |-> {"ticket", "nowait"}],
  queue_delete |-> [given |-> {"queue", "if_unused", "if_empty"},
      zero |-> {"ticket", "nowait"}],
  queue_unbind |-> [given |-> {"queue", "exchange", "routing_key", "arguments"},
      zero |-> {"ticket"}]]

MessageRequests == [
  basic_qos |-> [given |-> {"prefetch_size", "prefetch_count", "global"}, zero |-> {}],
  basic_consume |-> [given |-> {"queue", "consumer_tag", "no_local", "no_ack", "exclusive", "arguments"},
      zero |-> {"ticket", "nowait"}],
  basic_cancel |-> [given |-> {"consumer_tag"}, zero |-> {"nowait"}],
  basic_recover |-> [given |-> {"requeue"}, zero |-> {}],
  tx_select |-> [given |-> {}, zero |-> {}],
  tx_commit |-> [given |-> {}, zero |-> {}],
  tx_rollback |-> [given |-> {}, zero |-> {}],
  confirm_select |-> [given |-> {}, zero |-> {"nowait"}]]

Requests == Merged(ObjectRequests, MessageRequests)

Zero(kind) ==
    CASE kind \in {"octet", "short", "long"} -> 0
      [] kind = "longlong" -> <<0, 0>>
      [] kind = "bits" -> FALSE
      [] OTHER -> <<>>

Stale(kind) ==   \* some octets of the stack
    CASE kind \in {"octet", "short", "long"} -> 7
      [] kind = "longlong" -> <<7, 7>>
      [] kind = "bits" -> TRUE
      [] kind = "table" -> <<[key |-> <<7>>, kind |-> "void", value |-> <<>>]>>
      [] OTHER -> <<7>>

KindOf(m, name) ==
    (CHOOSE f \in ToSet(FieldsWritten[m]) :
        f.name = name \/ (f.kind = "bits" /\ name \in ToSet(f.name))).kind

NamesOf(m) ==
    UNION {IF f.kind = "bits" THEN ToSet(f.name) ELSE {f.name} : f \in ToSet(FieldsWritten[m])}

ZeroedButNowait(m) == Requests[m].zero \ {"nowait"}   \* defect: nowait is not set
Zeroed(m) == Requests[m].zero

(* The arguments of a request whose caller gives args.                     *)
Request(m, args) ==
    [n \in NamesOf(m) |->
        IF n \in Requests[m].given THEN args[n]
        ELSE IF n \in Zeroed(m) THEN Zero(KindOf(m, n)) ELSE Stale(KindOf(m, n))]
=============================================================================
