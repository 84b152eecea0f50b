----------------------------- MODULE MCAmqpWire ------------------------------
(* AmqpWire for TLC: the lists of frames that are sent.                    *)
EXTENDS AmqpWire, AmqpFraming

Repeat(x, n) == [j \in 1..n |-> x]

(* One entry of every kind, with signs and extremes.                       *)
Entry(name, kind, value) == [key |-> <<name>>, kind |-> kind, value |-> value]
Scalars == <<
    Entry(1, "boolean", TRUE), Entry(2, "boolean", FALSE), Entry(3, "i8", -2),
    Entry(4, "u8", 254), Entry(5, "i16", -300), Entry(6, "u16", 65000),
    Entry(7, "i32", -70000), Entry(8, "u32", 70000), Entry(9, "i64", <<-1, -5>>),
    Entry(10, "u64", <<5, 7>>), Entry(11, "f32", 99), Entry(12, "f64", <<3, 9>>),
    Entry(13, "decimal", [decimals |-> 2, value |-> 314]), Entry(14, "utf8", <<104, 105>>),
    Entry(15, "bytes", <<>>), Entry(16, "timestamp", <<0, 1234567>>), Entry(17, "void", <<>>)>>
Nested == <<
    Entry(1, "array", <<[kind |-> "u8", value |-> 7], [kind |-> "array", value |-> <<>>],
                        [kind |-> "table", value |-> <<Entry(2, "i8", -1)>>]>>),
    Entry(3, "table", <<Entry(4, "table", <<>>), Entry(5, "utf8", <<206>>)>>),
    Entry(6, "void", <<>>)>>
NoKey == <<Entry(1, "table", <<[key |-> <<>>, kind |-> "void", value |-> <<>>]>>)>>

(* The value of field number j in variant v: different for every j.        *)
ArgumentOf(f, j, v) ==
    CASE f.kind = "octet" -> (100 * v + j) % 256
      [] f.kind = "short" -> (30000 * v + 257 * j) % 65536
      [] f.kind = "long" -> 400000000 * v + 16909060 * j
      [] f.kind = "longlong" -> <<v - 3, 16909060 * j>>
      [] f.kind = "shortstr" -> IF v = 1 THEN <<j, 200 + j>> ELSE IF v = 2 /\ j = 2
                                THEN Repeat(j, 255) ELSE Repeat(v, (v + j) % 3)
      [] f.kind = "longstr" -> IF v = 2 THEN Repeat(j, 120) ELSE Repeat(j, v)
      [] f.kind = "table" -> CASE v = 1 -> Nested [] v = 3 -> Scalars [] OTHER -> <<>>

ArgumentsOf(fields, v) ==
    FoldFunction(LAMBDA a, b : a @@ b, <<>>,
        [j \in DOMAIN fields |->
            IF fields[j].kind = "bits"
            THEN [n \in ToSet(fields[j].name) |->
                     v <= Len(fields[j].name) /\ fields[j].name[v] = n]
            ELSE fields[j].name :> ArgumentOf(fields[j], j, v)])

Method(m, v) == [type |-> "method", channel |-> 257 * (v - 1), method |-> m,
                 args |-> ArgumentsOf(FieldsWritten[m], v)]

Heartbeat == [type |-> "heartbeat", channel |-> 0]
Header(class, flags) ==
    [type |-> "header", channel |-> 1, class |-> class, size |-> <<0, 0>>, flags |-> flags,
     props |-> ArgumentsOf(Present(class, flags), 1)]
Message(flags, n) ==
    [type |-> "publish", channel |-> 1, args |-> Method("basic_publish", 1).args, flags |-> flags,
     props |-> ArgumentsOf(Present(60, flags), 1), body |-> [j \in 1..n |-> j % 251]]

Asking(m) ==
    [type |-> "request", channel |-> 1, method |-> m,
     args |-> [n \in Requests[m].given |-> ArgumentsOf(FieldsWritten[m], 1)[n]]]

OctetsSent(reads, octets) == [type |-> "octets", reads |-> reads, bytes |-> octets]
MethodOctets(number, args) ==
    Enveloped(1, 1, BigEndian(2, number[1]) \o BigEndian(2, number[2]) \o args)

(* The octets a peer may send instead of a frame.                          *)
WrongOctets == {
    MethodOctets(<<60, 71>>, <<0, 0, 0, 0, 0, 0, 0>>),       \* basic.get-ok, cut
    MethodOctets(<<50, 11>>, <<9, 1, 2, 3>>),                \* a string longer than the frame
    MethodOctets(<<50, 50>>, <<>>),                          \* no arguments at all
    MethodOctets(<<40, 10>>, <<0, 0, 0, 0, 0, 0, 0, 0, 9>>), \* a table longer than the frame
    MethodOctets(<<40, 10>>, <<0, 0, 0, 0, 0, 0, 0, 0, 3, 1, 65, 1>>), \* no such kind
    MethodOctets(<<40, 99>>, <<1>>),                         \* no such method
    Enveloped(2, 1, <<0, 99>> \o Repeat(0, 10) \o <<0, 0>>), \* no such class
    Enveloped(2, 1, <<0, 60>> \o Repeat(0, 10) \o <<0, 1>>), \* flags that do not end
    Enveloped(2, 1, <<0>>), Enveloped(1, 1, <<0, 40, 0>>),   \* the end marker is read as a number
    <<3, 0, 1, 0, 0, 0, 2, 1, 2, 3>>,                        \* no end marker
    <<1, 0, 0, 0, 0, 0, 4, 0, 0>> \o <<10, 40, FrameEnd, 0>>}

(* What lies behind: fresh memory; what an older frame left there, a       *)
(* property, a method, a table with an entry of no known kind.             *)
MCBehind == {Repeat(0, 24),
             <<128, 0, 1, 65, FrameEnd>> \o Repeat(0, 19),
             <<0, 40, 0, 11, FrameEnd>> \o Repeat(0, 19),
             Repeat(0, 9) \o <<32, 0, 0, 0, 0, 3, 1, 65, 1>> \o Repeat(7, 6)}

(* Headers of 2 to 11 octets, and sizes that wrap: to 0, to an octet that  *)
(* is the end marker and to one that is not.                               *)
TooShortOctets ==
    {Enveloped(2, 1, <<0, class>> \o Repeat(0, n)) : class \in {10, 60}, n \in {0, 5, 9}}
TooLongOctets ==
    {<<1, 0, 1, 255, 255, 255, size>> : size \in {248, 252, 255}}
    \cup {<<FrameEnd, 0, 1, 255, 255, 255, 249>>}
    \cup {<<type, FrameEnd, 0, 255, 255, 255, 250>> : type \in {1, 2, 3, 8}}
    \cup {<<2, 0, FrameEnd, 255, 255, 255, 251>>}

OtherTypes == {Enveloped(4, 1, <<1, 2, 3>>)}                    \* no such type of frame
UnfinishedOctets == {<<3, 0, 1, 0, 0, 1, 2, 1>>, <<8, 0, 0>>}  \* the rest never comes

Start(v) == <<Method("connection_start", v)>>
StartWith(t) ==
    <<[Method("connection_start", 1) EXCEPT !.args = ("server_properties" :> t) @@ @]>>

FragmentsOf == FrameMax - 8

Longest == Repeat(65, 255)   \* two do not fit into a frame

MCStreams ==
    {StartWith(<<>>) \o <<Method(m, v), Heartbeat>> : m \in Methods, v \in 1..5}
    \cup {StartWith(<<>>) \o <<Asking(m), Heartbeat>> : m \in DOMAIN Requests}
    \cup {Start(v) \o <<Heartbeat>> : v \in 1..3}
    \cup {StartWith(NoKey) \o <<Heartbeat>>}
    \cup {Start(2) \o <<Header(class, 0), Heartbeat>> : class \in PropertyClasses \ {60}}
    \cup {Start(2) \o <<Message(flags, 3), Heartbeat>> :
            flags \in {PropertyBit(j) : j \in 1..14} \cup {65532, 65532 + 65536 * 6}}
    \cup {Start(2) \o <<Message(0, k * FragmentsOf + d), Message(32768, 2)>> :
            k \in {1, 2}, d \in {-1, 0, 1}}
    \cup {Start(2) \o <<Message(0, 0)>>}
    \cup {Start(2) \o <<m, Message(0, 2)>> : m \in
             {[Message(0, 5) EXCEPT !.args.exchange = Longest, !.args.routing_key = Longest],
              [Message(49152, 5) EXCEPT !.props.content_type = Longest,
                                        !.props.content_encoding = Longest]}}
    \cup {Start(2) \o <<OctetsSent("error", w), Heartbeat>> : w \in WrongOctets}
    \cup {Start(2) \o <<OctetsSent("nothing", w), Heartbeat>> : w \in OtherTypes}
    \cup {Start(2) \o <<Heartbeat, OctetsSent("nothing", w)>> : w \in UnfinishedOctets}
    \cup {Start(2) \o <<Heartbeat, OctetsSent("anything", w)>> :
            w \in TooShortOctets \cup TooLongOctets}
    \cup {Start(2) \o <<[Header(10, 0) EXCEPT !.size = <<-1, 5>>], Heartbeat>>}
    \cup {Start(1) \o <<[Method("connection_secure", 1) EXCEPT !.args.challenge = Repeat(1, 400)],
                       Heartbeat>>}
    \cup {<<OctetsSent("error", EncodeFrame(Heartbeat)), Heartbeat>>}
    \cup {<<OctetsSent("protocol", ProtocolHeader), Heartbeat>>, <<>>}
=============================================================================
