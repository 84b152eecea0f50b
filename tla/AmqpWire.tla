------------------------------- MODULE AmqpWire ------------------------------
(***************************************************************************)
(* Frames on a connection: amqp_send_frame puts them on the wire as        *)
(* octets, recv delivers the octets in pieces of any size, and             *)
(* amqp_handle_input puts the frames together again                        *)
(* (lib/librabbitmq/amqp_connection.c).  amqp_basic_publish splits a       *)
(* message over frames (amqp_api.c).                                       *)
(*                                                                         *)
(* Both ends are the library's: the writer stands for the agent publishing *)
(* and for a broker that speaks the same protocol.                         *)
(*                                                                         *)
(* How the payload of a method or of a header becomes octets is module     *)
(* AmqpFraming; here the two directions are parameters.                    *)
(***************************************************************************)
EXTENDS AmqpOctets, AmqpMethods

CONSTANTS Streams,     \* the lists of things the writer may be asked to send
          FrameMax,    \* frame_max: size of outbound_buffer
          ChunkSizes,  \* how many octets a recv may deliver, if not all
          LongStream,  \* bound: a longer stream is delivered in LongChunks
          LongChunks,
          Behind,      \* what may lie in memory behind a frame
          EncodedPayload(_),        \* of a frame with a method or a header
          DecodedPayload(_, _, _),  \* the frame of a type, channel and payload
          CopiedTable(_),           \* amqp_table_clone
          Copyable(_)               \* whether a table can be copied

MaxInt   == 2147483647
Channels == 0..65535

ASSUME WireAssumption ==
    /\ FrameMax \in 9..MaxInt
    /\ ChunkSizes \subseteq Nat \ {0} /\ LongChunks \subseteq Nat \ {0}
    /\ LongStream \in Nat
    /\ Behind \subseteq Seq(Octets)

HeaderSize == 7
FooterSize == 1
FrameEnd   == 206

VARIABLES
    todo,      \* what is left to send
    written,   \* what was put on the wire
    bodies,    \* history: the messages handed to amqp_basic_publish
    asked,     \* history: the requests made, with what their callers gave
    refused,   \* how many frames amqp_send_frame refused
    wire,      \* octets sent and not received
    sock,      \* sock_inbound_buffer between its offset and its limit
    state,     \* the reader's state
    inbound,   \* inbound_buffer up to inbound_offset
    target,    \* target_size
    got,       \* the frames handed over by amqp_handle_input
    stray,     \* the frames handed over that it read past their end
    server,    \* server_properties: the table kept from connection.start
    status     \* what amqp_handle_input returned last: "ok" or "error"

wireVars == <<todo, written, bodies, asked, refused, wire, sock, state, inbound, target, got,
              stray, server, status>>

-----------------------------------------------------------------------------
(* Writing.                                                                *)

FrameType == [method |-> 1, header |-> 2, body |-> 3, heartbeat |-> 8]

Payload(f) ==
    CASE f.type \in {"method", "header"} -> EncodedPayload(f)
      [] f.type = "body" -> f.bytes
      [] f.type = "heartbeat" -> <<>>

Enveloped(type, channel, payload) ==
    <<type>> \o BigEndian(2, channel) \o BigEndian(4, Len(payload)) \o payload \o <<FrameEnd>>

EncodeFrame(f) == Enveloped(FrameType[f.type], f.channel, Payload(f))

(* A body is written from where it is; the rest goes through the buffer.   *)
FitsOutbound(f) == f.type = "body" \/ Len(EncodeFrame(f)) <= FrameMax

FragmentWholeFrame == FrameMax   \* defect: no room left for the envelope

FragmentSize == FrameMax - (HeaderSize + FooterSize)

Shorter(a, b) == IF a < b THEN a ELSE b

(***************************************************************************)
(* amqp_basic_publish: a method, a header and the body in fragments.  It   *)
(* returns at the first frame that amqp_send_frame refuses.  The size of   *)
(* the body has 64 bits, as two halves.                                    *)
(***************************************************************************)
PublishMethod(p) == [type |-> "method", channel |-> p.channel, method |-> "basic_publish",
                     args |-> p.args]
PublishHeader(p) == [type |-> "header", channel |-> p.channel, class |-> 60,
                     size |-> <<0, Len(p.body)>>, flags |-> p.flags, props |-> p.props]

Fragment(p, k) ==
    [type |-> "body", channel |-> p.channel,
     bytes |-> SubSeq(p.body, (k - 1) * FragmentSize + 1, Shorter(k * FragmentSize, Len(p.body)))]

BasicPublish(p) ==
    LET fragments == (Len(p.body) + FragmentSize - 1) \div FragmentSize
    IN  CASE ~FitsOutbound(PublishMethod(p)) -> <<PublishMethod(p)>>
          [] FitsOutbound(PublishMethod(p)) /\ ~FitsOutbound(PublishHeader(p)) ->
               <<PublishMethod(p), PublishHeader(p)>>
          [] OTHER -> <<PublishMethod(p), PublishHeader(p)>>
                      \o [k \in 1..fragments |-> Fragment(p, k)]

(* The frame of a request.                                                 *)
RequestFrame(r) == [type |-> "method", channel |-> r.channel, method |-> r.method,
                    args |-> Request(r.method, r.args)]

(* The protocol header a server answers with when it refuses the version.  *)
ProtocolHeader == <<65, 77, 81, 80, 0, 0, 9, 1>>

-----------------------------------------------------------------------------
(* Reading.                                                                *)

(* consume_data: how many octets of data fit before the target.  Behind    *)
(* the target the difference wraps, and all of them are taken.             *)
Consumed(target_size, offset, data) ==
    IF target_size < offset THEN Len(data) ELSE Shorter(target_size - offset, Len(data))

(***************************************************************************)
(* The first octets of a frame move from header_buffer to fresh, zeroed    *)
(* memory of the pool.  Only HeaderSize octets are copied: of the 8 octets *)
(* read in state "initial" the last one is left behind, and reads as 0.    *)
(***************************************************************************)
CopiedHeader(buffer) ==
    SubSeq(buffer, 1, HeaderSize) \o [j \in 1..(Len(buffer) - HeaderSize) |-> 0]

(* The sum has 32 bits: from 2^32 - 8 on it wraps.                         *)
Wraps(buffer) == buffer[4] = 255 /\ buffer[5] = 255 /\ buffer[6] = 255 /\ buffer[7] >= 248

TargetSize(buffer) ==
    IF Wraps(buffer) THEN buffer[7] - 248
    ELSE Number(SubSeq(buffer, 4, 7)) + HeaderSize + FooterSize

(* For a frame of no octets the pool has no memory: an error as well.      *)
FooterIgnored(raw, size) == TRUE   \* defect: the end marker is not looked at
FooterOk(raw, size) == size > 0 /\ raw[size] = FrameEnd

(* The payload of a frame of each type; a frame of another type is ignored.*)
DecodePayload(type, channel, payload) ==
    CASE type \in {1, 2} -> DecodedPayload(type, channel, payload)
      [] type = 3 -> Read([type |-> "body", channel |-> channel, bytes |-> payload], 0)
      [] type = 8 -> Read([type |-> "heartbeat", channel |-> channel], 0)
      [] OTHER -> Read([type |-> "none", channel |-> channel], 0)

(* The part of a payload that every method has, and every header.          *)
FixedPart(type) == CASE type = 1 -> 4 [] type = 2 -> 12 [] OTHER -> 0

(***************************************************************************)
(* Whether a frame of this size has its fixed part.  The code does not     *)
(* ask: what remains of a shorter one, encoded.len, wraps to a huge number.*)
(***************************************************************************)
LongEnough(type, size) == size >= HeaderSize + FixedPart(type) + FooterSize

(***************************************************************************)
(* What may come out of the frame in raw: the footer is checked, then the  *)
(* payload decoded.  With a size that has wrapped nothing bounds the       *)
(* reading, and the octets that happen to lie behind are decoded too.      *)
(***************************************************************************)
Outcomes(raw, size) ==
    LET channel == Number(SubSeq(raw, 2, 3))
        rest    == SubSeq(raw, HeaderSize + 1, Len(raw))
    IN  CASE ~FooterOk(raw, size) -> {Bad}
          [] FooterOk(raw, size) /\ LongEnough(raw[1], size) ->
               {DecodePayload(raw[1], channel, SubSeq(raw, HeaderSize + 1, size - FooterSize))}
          [] OTHER -> {DecodePayload(raw[1], channel, rest \o octets) : octets \in Behind}

KeepInbound == inbound   \* defect: inbound_offset is not reset
FreshInbound == <<>>

ReturnToIdle == state' = "idle" /\ inbound' = FreshInbound /\ target' = HeaderSize

With(frames, frame) == IF frame.type = "none" THEN frames ELSE Append(frames, frame)

HandOver(frame) == ReturnToIdle /\ got' = With(got, frame) /\ UNCHANGED stray

KeepServerProperties(copy) ==
    status' = (IF copy.ok THEN "ok" ELSE "error") /\ server' = copy.value

(***************************************************************************)
(* A frame is handed over, unless its type is unknown or it is malformed.  *)
(* The login, which waits for connection.start first, keeps a copy of its  *)
(* table (amqp_login_inner); one that cannot be copied is an error.  What  *)
(* was read past the end is handed over alike, and told apart here; what   *)
(* its receiver makes of it is not followed.                               *)
(***************************************************************************)
FinishDecoded(raw, size, frame) ==
    \/ /\ frame.ok /\ LongEnough(raw[1], size)
       /\ HandOver(frame.value)
       /\ IF got = <<>> /\ frame.value.type = "method" /\ frame.value.method = "connection_start"
          THEN KeepServerProperties(CopiedTable(frame.value.args["server_properties"]))
          ELSE status' = "ok" /\ UNCHANGED server
    \/ /\ frame.ok /\ ~LongEnough(raw[1], size)
       /\ ReturnToIdle /\ status' = "ok"
       /\ stray' = With(stray, frame.value)
       /\ UNCHANGED <<got, server>>
    \/ /\ ~frame.ok
       /\ state' = "body" /\ inbound' = raw /\ target' = size
       /\ status' = "error"
       /\ UNCHANGED <<got, stray, server>>

FinishFrame(raw, size) == \E frame \in Outcomes(raw, size) : FinishDecoded(raw, size, frame)

(* The login refuses a table that cannot be copied.                        *)
Refused(x) == x.type = "method" /\ x.method = "connection_start"
              /\ ~Copyable(x.args["server_properties"])

TwoWords(flags) == flags >= 65536

(* Flags of two words come back with the bit that says that more follow.   *)
AsRead(x) ==
    CASE x.type = "octets" -> [type |-> "protocol", version |-> SubSeq(x.bytes, 5, 8)]
      [] x.type = "header" /\ TwoWords(x.flags) ->
           [type |-> "header", channel |-> x.channel, class |-> x.class, size |-> x.size,
            flags |-> x.flags + 1, props |-> x.props]
      [] OTHER -> x

-----------------------------------------------------------------------------
(* What the lists hold.                                                    *)

(* A frame with a method or a header is read as it was written.            *)
ReadBack(f) ==
    LET payload == EncodedPayload(f)
        r == DecodedPayload(FrameType[f.type], f.channel, payload)
    IN  /\ f.type \in {"method", "header"} /\ f.channel \in Channels
        /\ payload \in Seq(Octets) /\ Len(payload) >= FixedPart(FrameType[f.type])
        /\ r.ok /\ r.value = AsRead(f)

(* Frames, but those of messages; messages and requests.                   *)
ToSend(x) ==
    \/ x.type = "method" /\ ReadBack(x)
    \/ x.type = "header" /\ ReadBack(x) /\ x.class # 60
    \/ /\ x.type = "heartbeat" /\ x.channel \in Channels
       /\ x = [type |-> "heartbeat", channel |-> x.channel]
    \/ /\ x.type = "request" /\ x.method \in DOMAIN Requests \ {"connection_start"}
       /\ DOMAIN x.args = Requests[x.method].given /\ ReadBack(RequestFrame(x))
    \/ /\ x.type = "publish" /\ x.body \in Seq(Octets)
       /\ ReadBack(PublishMethod(x)) /\ ReadBack(PublishHeader(x))

(* Octets that begin with a whole frame.                                   *)
WholeFrame(b) ==
    Len(b) >= HeaderSize + FooterSize /\ ~Wraps(b) /\ TargetSize(b) <= Len(b)

FirstFrame(b) == SubSeq(b, 1, TargetSize(b))

(* What is decoded of a payload: itself, or with all that lies behind it.  *)
PayloadsRead(b) ==
    LET size == TargetSize(b)
    IN  IF LongEnough(b[1], size) THEN {SubSeq(b, HeaderSize + 1, size - FooterSize)}
        ELSE {SubSeq(b, HeaderSize + 1, size) \o octets : octets \in Behind}

(* A frame without its end marker, or with a payload that makes no sense   *)
(* whatever lies behind it; a frame of a type that does not exist; and a   *)
(* frame whose end is missing.                                             *)
Wrong(b) ==
    /\ WholeFrame(b)
    /\ b[TargetSize(b)] = FrameEnd =>
          /\ b[1] \in {1, 2}
          /\ \A payload \in PayloadsRead(b) :
                ~DecodedPayload(b[1], Number(SubSeq(b, 2, 3)), payload).ok

Unknown(b) == /\ WholeFrame(b) /\ TargetSize(b) = Len(b)
              /\ b[1] \notin {1, 2, 3, 8} /\ b[Len(b)] = FrameEnd

Unfinished(b) == Len(b) < HeaderSize \/ (~Wraps(b) /\ Len(b) < TargetSize(b))

(* A frame that is shorter than its fixed part, and a frame of which only  *)
(* the header comes and whose size wraps.                                  *)
TooShort(b) == WholeFrame(b) /\ TargetSize(b) = Len(b) /\ ~LongEnough(b[1], Len(b))
TooLong(b)  == Len(b) = HeaderSize /\ Wraps(b)

BeginsAMQP(b) == SubSeq(b, 1, 4) = SubSeq(ProtocolHeader, 1, 4)

(* Octets that are not a frame of the library's making.                    *)
FromPeer(x) ==
    /\ x.type = "octets" /\ x.bytes \in Seq(Octets)
    /\ \/ x.reads = "error" /\ Wrong(x.bytes)
       \/ x.reads = "nothing" /\ (Unknown(x.bytes) \/ Unfinished(x.bytes))
       \/ x.reads = "anything" /\ (TooShort(x.bytes) \/ TooLong(x.bytes))

(* What comes first: a method (of a class below 256), the protocol header, *)
(* or a frame without a payload.                                           *)
Opens(x) ==
    \/ /\ x.type = "method" /\ ReadBack(x) /\ FitsOutbound(x)
       /\ EncodedPayload(x) # <<>> /\ EncodedPayload(x)[1] = 0
    \/ /\ x.type = "octets" /\ x.bytes \in Seq(Octets) /\ x.reads = "protocol"
       /\ Len(x.bytes) = Len(ProtocolHeader) /\ BeginsAMQP(x.bytes)
    \/ /\ x.type = "octets" /\ x.bytes \in Seq(Octets) /\ x.reads = "error"
       /\ WholeFrame(x.bytes) /\ TargetSize(x.bytes) = HeaderSize + FooterSize
       /\ ~BeginsAMQP(x.bytes)

(***************************************************************************)
(* What can only come last: what has no end, and what the code reads past  *)
(* its end, after which nothing is certain.                                *)
(***************************************************************************)
IsUnfinished(x) == x.type = "octets" /\ x.reads = "nothing" /\ Unfinished(x.bytes)
Doubtful(x)     == x.type = "octets" /\ x.reads = "anything"
ComesLast(x)    == IsUnfinished(x) \/ Doubtful(x)

(* amqp_table_clone works when it has to.                                  *)
CopyWorks(x) ==
    x.type = "method" /\ x.method = "connection_start" =>
        LET t == x.args["server_properties"] IN CopiedTable(t).ok <=> Copyable(t)

ASSUME StreamAssumption ==
    \A s \in Streams :
        /\ Len(s) \in Nat /\ s = [j \in 1..Len(s) |-> s[j]]
        /\ \A j \in 1..Len(s) :
              /\ IF j = 1 THEN Opens(s[j])
                 ELSE (ToSend(s[j]) \/ FromPeer(s[j])) /\ ~Refused(s[j])
              /\ CopyWorks(s[j])
              /\ ComesLast(s[j]) => j = Len(s)

-----------------------------------------------------------------------------
(* The actions.                                                            *)

Init ==
    /\ todo \in Streams
    /\ written = <<>> /\ bodies = <<>> /\ asked = <<>> /\ refused = 0
    /\ wire = <<>> /\ sock = <<>>
    /\ state = "initial" /\ inbound = <<>> /\ target = 8
    /\ got = <<>> /\ stray = <<>> /\ server = <<>> /\ status = "ok"

(* amqp_basic_publish: its frames come before anything else.              *)
Publish ==
    /\ todo # <<>> /\ Head(todo).type = "publish"
    /\ todo' = BasicPublish(Head(todo)) \o Tail(todo)
    /\ bodies' = Append(bodies, Head(todo).body)
    /\ UNCHANGED <<written, asked, refused, wire, sock, state, inbound, target, got, stray,
                   server, status>>

(* amqp_queue_declare and the like: the frame of a simple RPC.             *)
MakeRequest ==
    /\ todo # <<>> /\ Head(todo).type = "request"
    /\ todo' = <<RequestFrame(Head(todo))>> \o Tail(todo)
    /\ asked' = Append(asked, Head(todo))
    /\ UNCHANGED <<written, bodies, refused, wire, sock, state, inbound, target, got, stray,
                   server, status>>

(* amqp_send_frame.                                                        *)
SendFrame ==
    /\ todo # <<>>
    /\ Head(todo).type \notin {"octets", "publish", "request"}
    /\ todo' = Tail(todo)
    /\ IF FitsOutbound(Head(todo))
       THEN /\ wire' = wire \o EncodeFrame(Head(todo))
            /\ written' = Append(written, Head(todo))
            /\ UNCHANGED refused
       ELSE refused' = refused + 1 /\ UNCHANGED <<wire, written>>
    /\ UNCHANGED <<bodies, asked, sock, state, inbound, target, got, stray,
                   server, status>>

(* The peer sends octets that are not a frame of the library's making.     *)
PeerSendsOctets ==
    /\ todo # <<>>
    /\ Head(todo).type = "octets"
    /\ todo' = Tail(todo)
    /\ wire' = wire \o Head(todo).bytes
    /\ written' = Append(written, Head(todo))
    /\ UNCHANGED <<bodies, asked, refused, sock, state, inbound, target, got, stray,
                   server, status>>

(* recv_with_timeout: the buffer was empty and takes what recv returns.    *)
Recv(n) ==
    /\ sock = <<>> /\ wire # <<>> /\ todo = <<>>
    /\ n <= Len(wire)
    /\ sock' = SubSeq(wire, 1, n)
    /\ wire' = SubSeq(wire, n + 1, Len(wire))
    /\ UNCHANGED <<todo, written, bodies, asked, refused, state, inbound, target, got, stray,
                   server, status>>

(* amqp_handle_input, in each of its states, once the target is not        *)
(* reached: the octets are kept.                                           *)
KeepOctets ==
    /\ sock # <<>> /\ status = "ok"
    /\ LET n == Consumed(target, Len(inbound), sock)
       IN  /\ Len(inbound) + n < target
           /\ inbound' = inbound \o SubSeq(sock, 1, n)
           /\ sock' = SubSeq(sock, n + 1, Len(sock))
    /\ state' = IF state = "idle" THEN "header" ELSE state
    /\ UNCHANGED <<todo, written, bodies, asked, refused, wire, target, got, stray,
                   server, status>>

(* The server's protocol header instead of a first frame.                  *)
ReadProtocolHeader ==
    /\ sock # <<>> /\ status = "ok" /\ state = "initial"
    /\ LET n == Consumed(target, Len(inbound), sock)
           buffer == inbound \o SubSeq(sock, 1, n)
       IN  /\ Len(buffer) = target
           /\ SubSeq(buffer, 1, 4) = SubSeq(ProtocolHeader, 1, 4)
           /\ got' = Append(got, [type |-> "protocol", version |-> SubSeq(buffer, 5, 8)])
           /\ sock' = SubSeq(sock, n + 1, Len(sock))
    /\ ReturnToIdle
    /\ UNCHANGED <<todo, written, bodies, asked, refused, wire, stray, server, status>>

(* The header of a frame is complete; its body may be too.  With a size    *)
(* that has wrapped the body is complete as soon as the header is.         *)
ReadFrameHeader ==
    /\ sock # <<>> /\ status = "ok" /\ state \in {"initial", "idle", "header"}
    /\ LET n == Consumed(target, Len(inbound), sock)
           buffer == inbound \o SubSeq(sock, 1, n)
           size == TargetSize(buffer)
           n2 == Consumed(size, Len(buffer), SubSeq(sock, n + 1, Len(sock)))
           raw == CopiedHeader(buffer) \o SubSeq(sock, n + 1, n + n2)
       IN  /\ Len(buffer) = target
           /\ state = "initial" => SubSeq(buffer, 1, 4) # SubSeq(ProtocolHeader, 1, 4)
           /\ IF Len(raw) < size
              THEN /\ state' = "body" /\ inbound' = raw /\ target' = size
                   /\ UNCHANGED <<got, stray, server, status>>
              ELSE FinishFrame(raw, size)
           /\ sock' = SubSeq(sock, n + n2 + 1, Len(sock))
    /\ UNCHANGED <<todo, written, bodies, asked, refused, wire>>

(* The rest of a frame arrives.                                            *)
ReadFrameBody ==
    /\ sock # <<>> /\ status = "ok" /\ state = "body"
    /\ LET n == Consumed(target, Len(inbound), sock)
           raw == inbound \o SubSeq(sock, 1, n)
       IN  /\ Len(raw) = target
           /\ FinishFrame(raw, target)
           /\ sock' = SubSeq(sock, n + 1, Len(sock))
    /\ UNCHANGED <<todo, written, bodies, asked, refused, wire>>

HandleInput == KeepOctets \/ ReadProtocolHeader \/ ReadFrameHeader \/ ReadFrameBody

Next ==
    \/ Publish \/ MakeRequest \/ SendFrame \/ PeerSendsOctets
    \/ \E n \in {Len(wire)} \cup (IF Len(wire) > LongStream THEN LongChunks ELSE ChunkSizes) :
          Recv(n)
    \/ HandleInput

Spec == Init /\ [][Next]_wireVars

-----------------------------------------------------------------------------
(* Properties.                                                             *)

(* The octets a peer sends are ignored ("nothing"), or are its protocol    *)
(* header, or end the reading ("error"), or may do either ("anything").    *)
Malformed(x) == x.type = "octets" /\ x.reads = "error"
Ignored(x)   == x.type = "octets" /\ x.reads \in {"nothing", "anything"}

(* What is handed over of the things sent ends with a frame that is        *)
(* refused, or before one that is malformed.                               *)
ReadOn(r, x) ==
    IF r.ended \/ Ignored(x) THEN r
    ELSE [frames |-> IF Malformed(x) THEN r.frames ELSE Append(r.frames, AsRead(x)),
          ended  |-> Malformed(x) \/ Refused(x)]

Readable ==
    LET until[n \in 0..Len(written)] ==
            IF n = 0 THEN [frames |-> <<>>, ended |-> FALSE]
            ELSE ReadOn(until[n - 1], written[n])
    IN  until[Len(written)].frames

AllRead == todo = <<>> /\ wire = <<>> /\ (sock = <<>> \/ status = "error")

(***************************************************************************)
(* The frames handed over are the frames sent, with every argument, bit    *)
(* and table entry, in order, however recv cuts the octets into pieces;    *)
(* none is missing once all was read.  (amqp_send_frame, amqp_handle_input *)
(* and the four generated functions of amqp_framing.c.)                    *)
(***************************************************************************)
FramesIntact ==
    /\ IsPrefix(got, Readable)
    /\ AllRead => got = Readable

(***************************************************************************)
(* A frame that has its fixed part, and whose lengths, end marker, method  *)
(* or flags make no sense, is never handed over, nor anything after it;    *)
(* and the reader gives up on nothing else.  (The decode functions check   *)
(* every length against the frame and not against the field that announced *)
(* it.)  A frame without its fixed part, or with a size that wraps, is the *)
(* exception: amqp_handle_input may refuse it or read on behind it, but    *)
(* never in any other case.                                                *)
(***************************************************************************)
MalformedRefused ==
    AllRead =>
        /\ (\E j \in DOMAIN written : Malformed(written[j]) \/ Refused(written[j]))
              => status = "error"
        /\ status = "error" =>
              \E j \in DOMAIN written :
                  Malformed(written[j]) \/ Refused(written[j]) \/ Doubtful(written[j])
        /\ stray # <<>> => \E j \in DOMAIN written : Doubtful(written[j])

(* The bodies of the messages in a list of frames: what follows the header *)
(* up to the size it announced.                                            *)
PutTogether(messages, f) ==
    CASE f.type = "header" /\ f.class = 60 -> Append(messages, [size |-> f.size, bytes |-> <<>>])
      [] f.type = "body" ->
           [messages EXCEPT ![Len(messages)] = [size |-> @.size, bytes |-> @.bytes \o f.bytes]]
      [] OTHER -> messages

Reassembled(frames) ==
    LET until[n \in 0..Len(frames)] ==
            IF n = 0 THEN <<>> ELSE PutTogether(until[n - 1], frames[n])
    IN  until[Len(frames)]

(***************************************************************************)
(* A published message arrives whole: its header announces its size, its   *)
(* fragments put together are its body, and no frame on the wire is longer *)
(* than the frame_max that was negotiated, for bodies of any size around a *)
(* multiple of the fragment (amqp_basic_publish).                          *)
(***************************************************************************)
PublishedWhole ==
    /\ \A j \in DOMAIN written :
          written[j].type # "octets" => Len(EncodeFrame(written[j])) <= FrameMax
    /\ AllRead /\ refused = 0 /\ status = "ok" =>
          Reassembled(got) = [j \in DOMAIN bodies |->
                                [size |-> <<0, Len(bodies[j])>>, bytes |-> bodies[j]]]

(***************************************************************************)
(* A request reaches the peer with what its caller gave and zero           *)
(* everywhere else.  In particular nowait is never set, or the peer would  *)
(* send no reply and the call would wait for ever.                         *)
(***************************************************************************)
RequestsComplete ==
    AllRead /\ status = "ok" /\ refused = 0 =>
        \A k \in DOMAIN asked : \E j \in DOMAIN got :
            /\ got[j].type = "method" /\ got[j].method = asked[k].method
            /\ \A n \in NamesOf(asked[k].method) :
                  got[j].args[n] = IF n \in DOMAIN asked[k].args THEN asked[k].args[n]
                                   ELSE Zero(KindOf(asked[k].method, n))

(***************************************************************************)
(* The login keeps a copy of the server's table that is equal to what      *)
(* connection.start carried, nested tables and arrays included             *)
(* (amqp_table_clone, called because the frame's memory is recycled; that  *)
(* the copy shares nothing with the frame is not said: tables are values). *)
(***************************************************************************)
ServerPropertiesKept ==
    got # <<>> /\ Head(got).type = "method" /\ Head(got).method = "connection_start" =>
        status = "error" \/ server = Head(got).args["server_properties"]
=============================================================================
