----------------------------- MODULE AmqpSession -----------------------------
(***************************************************************************)
(* The connection of the agent to its broker, frame by frame: what         *)
(* n2a_amqp_connect, n2a_amqp_publish and n2a_amqp_disconnect              *)
(* (src/neb2amqp.c) send and wait for through librabbitmq                  *)
(* (lib/librabbitmq/amqp_socket.c, amqp_api.c).  The agent has one thread: *)
(* a call runs to its end while the broker acts at any time, and it reads  *)
(* the socket only while it waits for the reply of a request.              *)
(*                                                                         *)
(* The broker is external.  It follows AMQP 0-9-1: it answers in order,    *)
(* and after closing a channel or the connection by itself it ignores what *)
(* comes on it until the close is answered.  (The agent never answers.)    *)
(***************************************************************************)
EXTENDS Integers, Sequences, SequencesExt

CONSTANTS DeclareExchange,  \* the option exchange_type is given
          BodySizes,        \* how many octets the body of a message may have
          SockBuf,          \* frames a dead connection accepts before it errs
          ServerFrameMax,   \* the values of frame_max a broker may propose
          FrameMaxWanted,   \* frame_max asked by the agent: 131072
          MaxPublishes,     \* bound: messages
          MaxConnects,      \* bound: calls of n2a_amqp_connect
          MaxFaults         \* bound: refusals, closes and drops by the broker

Envelope == 8   \* HEADER_SIZE + FOOTER_SIZE

(* 0 in connection.tune means no limit; a limit leaves room for a body.    *)
ASSUME SessionAssumption ==
    /\ DeclareExchange \in BOOLEAN
    /\ BodySizes \subseteq Nat /\ ServerFrameMax \subseteq Nat
    /\ \A n \in ServerFrameMax \cup {FrameMaxWanted} : n # 0 => n > Envelope
    /\ {SockBuf, FrameMaxWanted, MaxPublishes, MaxConnects, MaxFaults} \subseteq Nat
    /\ FrameMaxWanted # 0

VARIABLES
    op,         \* the call in progress: "none", "connect", "publish", "disconnect"
    pc,         \* where it is
    waiting,    \* an RPC was sent and its reply has not come
    conn,       \* conn is not NULL
    sock,       \* its socket: "unopened", "open" or "closed"
    connected,  \* amqp_connected
    errors,     \* amqp_errors
    queued,     \* first_queued_frame: frames read that nobody waited for
    frameMax,   \* frame_max of the connection
    current,    \* the message being published: its number and the octets left
    sent,       \* history: messages published on this connection, all accepted
    tcp,        \* the peer: "none", "up" or "gone"
    swallowed,  \* frames lost in a connection whose peer is gone
    toBroker, toClient,   \* frames under way
    session,    \* the broker's side of the connection
    channel,    \* the broker's side of the channel: "none", "open", "closing"
    partial,    \* the message the broker has read a part of
    received,   \* history: the messages the broker received
    offered,    \* frame_max of connection.tune
    trouble,    \* history: a request was "refused", the broker closed by itself
                \* ("mute"), or the peer is gone ("dead")
    before,     \* history: amqp_errors and conn when the call began
    published, connects, faults   \* counters for the bounds

clientVars  == <<op, pc, waiting, conn, sock, connected, errors, queued, frameMax, current,
                 sent, before>>
networkVars == <<tcp, swallowed, toBroker, toClient>>
brokerVars  == <<session, channel, partial, received, offered, trouble>>
bounds      == <<published, connects, faults>>
sessionVars == <<clientVars, networkVars, brokerVars, bounds>>

-----------------------------------------------------------------------------
(* Requests that wait for a reply, and the replies.                        *)

Rpc == [channel_close    |-> [channel |-> 1, reply |-> "channel_close_ok"],
        connection_close |-> [channel |-> 0, reply |-> "connection_close_ok"],
        open             |-> [channel |-> 0, reply |-> "open_ok"],
        channel_open     |-> [channel |-> 1, reply |-> "channel_open_ok"],
        declare          |-> [channel |-> 1, reply |-> "declare_ok"]]

Frame(ch, m) == [channel |-> ch, method |-> m]
ChannelClose    == Frame(1, "channel_close")
ConnectionClose == Frame(0, "connection_close")

IsReply(f, m) == f.method = Rpc[m].reply /\ f.channel = Rpc[m].channel

(* amqp_simple_rpc: frames other than these are queued.                    *)
EndsOnReplyOnly(f, m) == IsReply(f, m)   \* defect: waits through a close
EndsRpc(f, m) ==
    \/ IsReply(f, m)
    \/ f.method = "channel_close" /\ f.channel = Rpc[m].channel
    \/ f = ConnectionClose

QueueKept == queued   \* defect: the connection object is used again
NewQueue == <<>>

ErrorsKept == errors   \* defect: errors not reset
ErrorsAtStart == FALSE

LastOctetForgotten(left) == left > 1   \* defect: off by one
MoreBody(left) == left > 0

(* The value of a setting in tune-ok.                                      *)
HigherWins(server, wanted) == wanted   \* defect: the broker's limit ignored
Negotiated(server, wanted) == IF server # 0 /\ server < wanted THEN server ELSE wanted

-----------------------------------------------------------------------------
(* The network, seen by the client.                                        *)

(***************************************************************************)
(* send: to a peer that is there it always works, and it fails on a socket *)
(* that is not open.  When the peer is gone the buffer of the socket may   *)
(* take a frame, or the call fails.                                        *)
(***************************************************************************)
SendWorks(frames) ==
    /\ sock = "open"
    /\ \/ tcp = "up" /\ toBroker' = toBroker \o frames /\ UNCHANGED swallowed
       \/ tcp = "gone" /\ swallowed < SockBuf /\ swallowed' = swallowed + 1
          /\ UNCHANGED toBroker
    /\ UNCHANGED <<tcp, toClient>>

SendFails == (sock # "open" \/ tcp = "gone") /\ UNCHANGED networkVars

(* recv: what arrived is read even if the peer is gone; then it fails.     *)
Receives(f) == sock = "open" /\ toClient # <<>> /\ f = Head(toClient)
RecvFails   == sock # "open" \/ (tcp = "gone" /\ toClient = <<>>)

(* The client closes its socket; the broker sees the end of the connection.*)
ClosesSocket(s) ==
    /\ sock' = s
    /\ tcp' = "none" /\ swallowed' = 0 /\ toBroker' = <<>> /\ toClient' = <<>>
    /\ session' = "none" /\ channel' = "none" /\ partial' = <<>>
    /\ trouble' = "none"
    /\ UNCHANGED <<received, offered>>

-----------------------------------------------------------------------------
(* Calls.                                                                  *)

BeginCall(name, start) ==
    /\ op = "none"
    /\ op' = name /\ pc' = start
    /\ before' = [errors |-> errors, conn |-> conn]

(* n2a_amqp_connect: an old connection object is closed first.             *)
Connect ==
    /\ ~connected /\ connects < MaxConnects
    /\ BeginCall("connect", IF conn THEN "channel_close" ELSE "socket")
    /\ errors' = ErrorsAtStart
    /\ connects' = connects + 1
    /\ UNCHANGED <<waiting, conn, sock, connected, queued, frameMax, current, sent>>
    /\ UNCHANGED <<networkVars, brokerVars, published, faults>>

(* n2a_amqp_publish, once n2a_amqp_check said that there is a connection.  *)
Publish(n) ==
    /\ connected /\ published < MaxPublishes
    /\ BeginCall("publish", "method")
    /\ published' = published + 1
    /\ current' = [id |-> published + 1, size |-> n, left |-> n]
    /\ UNCHANGED <<waiting, conn, sock, connected, errors, queued, frameMax, sent>>
    /\ UNCHANGED <<networkVars, brokerVars, connects, faults>>

(* n2a_amqp_disconnect, from a blackout or the end of the module.  Without *)
(* a connection it only forgets the object, which is never destroyed.      *)
Disconnect ==
    /\ IF connected
       THEN BeginCall("disconnect", "channel_close") /\ UNCHANGED conn
       ELSE /\ op = "none" /\ conn' = FALSE
            /\ UNCHANGED <<op, pc, before>>
    /\ errors' = ErrorsAtStart
    /\ UNCHANGED <<waiting, connected, queued, frameMax, current, sent>>
    /\ IF connected \/ ~conn THEN UNCHANGED <<sock, networkVars, brokerVars>>
       ELSE ClosesSocket("unopened")   \* out of sight of the agent for ever
    /\ UNCHANGED bounds

-----------------------------------------------------------------------------
(* amqp_simple_rpc and what its callers do with the result.                *)

(***************************************************************************)
(* The call after request m.  Closing goes on whatever the result was, and *)
(* only n2a_amqp_disconnect keeps the error; connecting stops at an error. *)
(***************************************************************************)
StageAfter(m) ==
    CASE m = "channel_close"    -> "connection_close"
      [] m = "connection_close" -> "destroy"
      [] m = "open"             -> "channel_open"
      [] m = "channel_open"     -> IF DeclareExchange THEN "declare" ELSE "finish"
      [] m = "declare"          -> "finish"

IgnoreRefusal(m, ok) == FALSE   \* defect: the result of the RPC is not looked at
CountsAsError(m, ok) ==
    ~ok /\ (m \in {"channel_close", "connection_close"} => op = "disconnect")

RpcReturns(m, ok) ==
    /\ waiting' = FALSE
    /\ errors' = (errors \/ CountsAsError(m, ok))
    /\ pc' = IF ok \/ m \in {"channel_close", "connection_close"} THEN StageAfter(m) ELSE "finish"

RpcSend ==
    /\ pc \in DOMAIN Rpc /\ ~waiting
    /\ \/ /\ SendWorks(<<Frame(Rpc[pc].channel, pc)>>)
          /\ waiting' = TRUE /\ UNCHANGED <<pc, errors>>
       \/ SendFails /\ RpcReturns(pc, FALSE)
    /\ UNCHANGED <<op, conn, sock, connected, queued, frameMax, current, sent, before>>
    /\ UNCHANGED <<brokerVars, bounds>>

RpcReceive ==
    /\ pc \in DOMAIN Rpc /\ waiting
    /\ \/ /\ \E f \in ToSet(toClient) :
               /\ Receives(f)
               /\ IF EndsRpc(f, pc)
                  THEN RpcReturns(pc, f.method = Rpc[pc].reply) /\ UNCHANGED queued
                  ELSE queued' = Append(queued, f) /\ UNCHANGED <<pc, waiting, errors>>
          /\ toClient' = Tail(toClient)
          /\ UNCHANGED <<tcp, swallowed, toBroker>>
       \/ RecvFails /\ RpcReturns(pc, FALSE) /\ UNCHANGED <<queued, networkVars>>
    /\ UNCHANGED <<op, conn, sock, connected, frameMax, current, sent, before>>
    /\ UNCHANGED <<brokerVars, bounds>>

-----------------------------------------------------------------------------
(* Connecting.                                                             *)

(* amqp_destroy_connection, after both closes.                             *)
Destroy ==
    /\ pc = "destroy"
    /\ ClosesSocket("unopened")
    /\ queued' = NewQueue /\ sent' = <<>> /\ current' = <<>>
    /\ IF op = "connect" THEN pc' = "socket" /\ UNCHANGED <<op, conn, connected>>
       ELSE pc' = "idle" /\ op' = "none" /\ conn' = FALSE /\ connected' = FALSE
    /\ UNCHANGED <<waiting, errors, frameMax, before, bounds>>

(* amqp_new_connection and amqp_socket_open_noblock.                       *)
OpenSocket ==
    /\ pc = "socket"
    /\ conn' = TRUE
    /\ \/ /\ pc' = "header" /\ sock' = "open" /\ tcp' = "up" /\ session' = "accepted"
          /\ UNCHANGED <<errors, faults>>
       \/ /\ faults < MaxFaults /\ faults' = faults + 1   \* refused, or 2 seconds pass
          /\ pc' = "finish" /\ sock' = "unopened" /\ errors' = TRUE
          /\ UNCHANGED <<tcp, session>>
    /\ UNCHANGED <<op, waiting, connected, queued, frameMax, current, sent, before>>
    /\ UNCHANGED <<swallowed, toBroker, toClient, channel, partial, received, offered, trouble>>
    /\ UNCHANGED <<published, connects>>

(* amqp_login_inner gives up.                                              *)
LoginFails == pc' = "finish" /\ errors' = TRUE

(* The parts of amqp_login_inner that send without waiting for a reply.    *)
LoginSend ==
    /\ pc \in {"header", "start_ok", "tune_ok"}
    /\ \/ /\ SendWorks(<<IF pc = "tune_ok" THEN [channel |-> 0, method |-> pc, frame_max |-> frameMax]
                         ELSE Frame(0, pc)>>)
          /\ pc' = CASE pc = "header" -> "start" [] pc = "start_ok" -> "tune" [] OTHER -> "open"
          /\ UNCHANGED errors
       \/ SendFails /\ LoginFails
    /\ UNCHANGED <<op, waiting, conn, sock, connected, queued, frameMax, current, sent, before>>
    /\ UNCHANGED <<brokerVars, bounds>>

AwaitedMethod(f) == f.channel = 0 /\ f.method = pc

(* amqp_simple_wait_method: anything else closes the socket.               *)
LoginReceive ==
    /\ pc \in {"start", "tune"}
    /\ \/ /\ pc = "start" /\ \E f \in ToSet(toClient) : Receives(f) /\ AwaitedMethod(f)
          /\ faults < MaxFaults /\ faults' = faults + 1   \* another version, or a bad table
          /\ LoginFails /\ toClient' = Tail(toClient)
          /\ UNCHANGED <<sock, frameMax, tcp, swallowed, toBroker, brokerVars>>
       \/ \E f \in ToSet(toClient) :
            /\ Receives(f) /\ UNCHANGED faults
            /\ IF AwaitedMethod(f)
               THEN /\ pc' = IF pc = "start" THEN "start_ok" ELSE "tune_ok"
                    /\ frameMax' = IF pc = "tune" THEN Negotiated(offered, FrameMaxWanted)
                                   ELSE frameMax
                    /\ toClient' = Tail(toClient)
                    /\ UNCHANGED <<errors, sock, tcp, swallowed, toBroker, brokerVars>>
               ELSE LoginFails /\ ClosesSocket("closed") /\ UNCHANGED frameMax
       \/ /\ RecvFails /\ LoginFails
          /\ UNCHANGED <<faults, sock, frameMax, networkVars, brokerVars>>
    /\ UNCHANGED <<op, waiting, conn, connected, queued, current, sent, before, published,
                   connects>>

ConnectReturns ==
    /\ pc = "finish"
    /\ op' = "none" /\ pc' = "idle"
    /\ connected' = ~errors
    /\ sent' = <<>>
    /\ UNCHANGED <<waiting, conn, sock, errors, queued, frameMax, current, before>>
    /\ UNCHANGED <<networkVars, brokerVars, bounds>>

-----------------------------------------------------------------------------
(* Publishing: the frames of amqp_basic_publish, one after the other.  The *)
(* body goes out in fragments that fit in the frame_max of the connection. *)

Fragment(left) == IF left < frameMax - Envelope THEN left ELSE frameMax - Envelope

(***************************************************************************)
(* n2a_amqp_publish also tests amqp_errors, the variable of the library,   *)
(* after a call that worked (neb2amqp.c:373).  Nothing sets it in between: *)
(* it is FALSE here whenever a message is published.                       *)
(***************************************************************************)
PublishSend ==
    /\ pc \in {"method", "content", "body"}
    /\ \/ LET octets == IF pc = "body" THEN Fragment(current.left) ELSE 0
              left   == current.left - octets
          IN  /\ SendWorks(<<[channel |-> 1, method |-> pc, id |-> current.id,
                              size |-> current.size, octets |-> octets]>>)
              /\ IF pc = "method"
                 THEN pc' = "content" /\ UNCHANGED <<op, current, sent>>
                 ELSE IF MoreBody(left)
                 THEN pc' = "body" /\ current' = [current EXCEPT !.left = left]
                      /\ UNCHANGED <<op, sent>>
                 ELSE pc' = "idle" /\ op' = "none" /\ current' = <<>>
                      /\ sent' = Append(sent, current.id)
              /\ UNCHANGED <<errors, before>>
       \/ /\ SendFails   \* n2a_on_error, then n2a_amqp_disconnect, which forgets it
          /\ errors' = ErrorsAtStart
          /\ op' = "disconnect" /\ pc' = "channel_close"
          /\ UNCHANGED <<current, sent, before>>
    /\ UNCHANGED <<waiting, conn, sock, connected, queued, frameMax>>
    /\ UNCHANGED <<brokerVars, bounds>>

-----------------------------------------------------------------------------
(* The broker.                                                             *)

Fault == faults < MaxFaults /\ faults' = faults + 1 /\ UNCHANGED <<published, connects>>

Reply(f) == toClient' = Append(toClient, f)

(* The broker closes the connection or the channel by itself.              *)
ClosesConnection(why) ==
    /\ Reply(ConnectionClose) /\ session' = "closing" /\ trouble' = why
    /\ UNCHANGED <<channel, partial, received, offered>>

ClosesChannel(why) ==
    /\ Reply(ChannelClose) /\ channel' = "closing" /\ partial' = <<>> /\ trouble' = why
    /\ UNCHANGED <<session, received, offered>>

Handshake(f) ==
    \/ /\ session = "accepted" /\ f.method = "header"
       /\ Reply(Frame(0, "start")) /\ session' = "started"
       /\ UNCHANGED <<channel, partial, received, offered, trouble, bounds>>
    \/ /\ session = "accepted" /\ f.method = "header" /\ Fault   \* another version
       /\ Reply(Frame(0, "protocol")) /\ session' = "closed" /\ trouble' = "refused"
       /\ UNCHANGED <<channel, partial, received, offered>>
    \/ /\ session = "started" /\ f.method = "start_ok"
       /\ Reply(Frame(0, "tune")) /\ session' = "tuning"
       /\ offered' \in ServerFrameMax
       /\ UNCHANGED <<channel, partial, received, trouble, bounds>>
    \/ /\ session = "tuning" /\ f.method = "tune_ok"
       /\ session' = "tuned"
       /\ UNCHANGED <<toClient, channel, partial, received, offered, trouble, bounds>>
    \/ /\ session = "tuned" /\ f.method = "open"
       /\ Reply(Frame(0, "open_ok")) /\ session' = "open"
       /\ UNCHANGED <<channel, partial, received, offered, trouble, bounds>>
    \/ /\ f.method \in {"start_ok", "open", "channel_open"} /\ Fault   \* refused
       /\ session \in {"started", "tuned", "open"} /\ channel = "none"
       /\ ClosesConnection("refused")

(* What a message still needs before a frame, and no longer after it: its  *)
(* header counts as one, its body by the octets.                           *)
Taken(f) == IF f.method = "content" THEN 1 ELSE f.octets

OnChannel(f) ==
    \/ /\ channel = "none" /\ f.method = "channel_open"
       /\ Reply(Frame(1, "channel_open_ok")) /\ channel' = "open"
       /\ UNCHANGED <<session, partial, received, offered, trouble, bounds>>
    \/ /\ channel = "open" /\ f.method = "declare"
       /\ \/ Reply(Frame(1, "declare_ok")) /\ UNCHANGED <<brokerVars, bounds>>
          \/ Fault /\ ClosesChannel("refused")
    \/ /\ channel = "open" /\ f.method \in {"method", "content", "body"}
       /\ LET done == [id |-> f.id, left |-> CASE f.method = "method" -> f.size + 1
                                               [] OTHER -> partial.left - Taken(f)]
          IN  IF done.left = 0 THEN received' = Append(received, f.id) /\ partial' = <<>>
              ELSE partial' = done /\ UNCHANGED received
       /\ UNCHANGED <<toClient, session, channel, offered, trouble, bounds>>
    \/ /\ channel # "none" /\ f.method = "channel_close"
       /\ Reply(Frame(1, "channel_close_ok")) /\ channel' = "none" /\ partial' = <<>>
       /\ UNCHANGED <<session, received, offered, trouble, bounds>>
    \/ /\ channel = "closing" /\ f.method # "channel_close"
       /\ UNCHANGED <<toClient, brokerVars, bounds>>

Expected == [accepted |-> "header", started |-> "start_ok", tuning |-> "tune_ok", tuned |-> "open"]

BrokerReads ==
    /\ tcp = "up" /\ toBroker # <<>>
    /\ toBroker' = Tail(toBroker)
    /\ LET f == Head(toBroker)
       IN  \/ Handshake(f)
           \/ session = "open" /\ f.channel = 1 /\ OnChannel(f)
           \/ /\ session \in {"open", "closing"} /\ f = ConnectionClose
              /\ Reply(Frame(0, "connection_close_ok")) /\ session' = "closed"
              /\ UNCHANGED <<channel, partial, received, offered, trouble, bounds>>
           \/ /\ session \in {"closing", "closed"} /\ f # ConnectionClose
              /\ UNCHANGED <<toClient, brokerVars, bounds>>
           \/ /\ session \in DOMAIN Expected /\ f.method # Expected[session]
              /\ ClosesConnection("refused") /\ UNCHANGED bounds
    /\ UNCHANGED <<clientVars, tcp, swallowed>>

(* Nobody asked the broker to close.                                       *)
BrokerCloses ==
    /\ tcp = "up" /\ session = "open" /\ Fault
    /\ \/ ClosesConnection("mute")
       \/ channel = "open" /\ ClosesChannel("mute")
    /\ UNCHANGED <<clientVars, tcp, swallowed, toBroker>>

(* The broker is done with the connection, or has waited long enough.      *)
BrokerHangsUp ==
    /\ tcp = "up" /\ session \in {"closing", "closed"}
    /\ tcp' = "gone" /\ toBroker' = <<>>
    /\ trouble' = IF trouble = "mute" THEN "dead" ELSE trouble
    /\ session' = "none" /\ channel' = "none" /\ partial' = <<>>
    /\ UNCHANGED <<clientVars, swallowed, toClient, received, offered, bounds>>

(* The broker or the network fails; what is under way may be lost.         *)
ConnectionDrops ==
    /\ tcp = "up" /\ Fault
    /\ tcp' = "gone" /\ toBroker' = <<>>
    /\ toClient' \in {toClient, <<>>}
    /\ trouble' = IF trouble = "refused" THEN trouble ELSE "dead"
    /\ session' = "none" /\ channel' = "none" /\ partial' = <<>>
    /\ UNCHANGED <<clientVars, swallowed, received, offered>>

-----------------------------------------------------------------------------
Init ==
    /\ op = "none" /\ pc = "idle" /\ waiting = FALSE
    /\ conn = FALSE /\ sock = "unopened" /\ connected = FALSE /\ errors = FALSE
    /\ queued = <<>> /\ frameMax = 0 /\ current = <<>> /\ sent = <<>>
    /\ before = [errors |-> FALSE, conn |-> FALSE]
    /\ tcp = "none" /\ swallowed = 0 /\ toBroker = <<>> /\ toClient = <<>>
    /\ session = "none" /\ channel = "none" /\ partial = <<>> /\ received = <<>>
    /\ offered = 0 /\ trouble = "none"
    /\ published = 0 /\ connects = 0 /\ faults = 0

ClientStep == \/ RpcSend \/ RpcReceive \/ Destroy \/ OpenSocket
              \/ LoginSend \/ LoginReceive \/ ConnectReturns \/ PublishSend

Next == \/ Connect \/ (\E n \in BodySizes : Publish(n)) \/ Disconnect
        \/ ClientStep
        \/ BrokerReads \/ BrokerCloses \/ BrokerHangsUp \/ ConnectionDrops

Spec == Init /\ [][Next]_sessionVars

(***************************************************************************)
(* The agent's thread does not stop inside a call.  The broker reads what  *)
(* it is sent, and does not wait for ever for the answer to a close.       *)
(***************************************************************************)
FairSpec == Spec /\ WF_sessionVars(ClientStep) /\ WF_sessionVars(BrokerReads)
                 /\ WF_sessionVars(BrokerHangsUp)

-----------------------------------------------------------------------------
(* Properties.                                                             *)

(* What the connection is worth to the agent, outside of n2a_amqp_connect. *)
Worth == IF ~connected THEN IF (IF op = "connect" THEN before.conn ELSE conn)
                            THEN "failed" ELSE "none"
         ELSE IF trouble = "none" THEN "open" ELSE trouble

(***************************************************************************)
(* The exchange of frames implements the connection that the rest of the   *)
(* agent counts on: a call is one step, an orderly close reports no error, *)
(* and an error of an earlier call is forgotten.                           *)
(***************************************************************************)
L == INSTANCE Link WITH link <- Worth,
                        errors <- IF op = "none" THEN errors ELSE before.errors

ImplementsLink == L!Spec

(***************************************************************************)
(* When n2a_amqp_connect has said that the agent is connected, the broker  *)
(* refused none of the requests, and has the connection and the channel    *)
(* open for it unless it closed them by itself since.                      *)
(***************************************************************************)
ConnectedMeansReady ==
    connected /\ op # "disconnect" =>
        /\ sock = "open" /\ trouble # "refused"
        /\ (trouble = "none" => session = "open" /\ channel = "open" /\ tcp = "up")

(***************************************************************************)
(* The agent never is out of step with the broker: a connection without    *)
(* trouble has no frame left that nobody waited for, so that the next      *)
(* request cannot take an old reply for its own.                           *)
(***************************************************************************)
InStep ==
    connected /\ trouble = "none" /\ op \in {"none", "publish"} => toClient = <<>> /\ queued = <<>>

(***************************************************************************)
(* Messages reach the broker whole, at most once and in order, also when a *)
(* connection is lost in the middle of one; and over a connection without  *)
(* trouble every message that n2a_amqp_publish called sent gets there.     *)
(***************************************************************************)
WholeInOrder ==
    /\ \A j, k \in DOMAIN received : j < k => received[j] < received[k]
    /\ connected /\ trouble = "none" /\ op = "none" =>
          \A id \in ToSet(sent) :
             id \in ToSet(received) \/ \E j \in DOMAIN toBroker :
                 toBroker[j].method \in {"content", "body"} /\ toBroker[j].id = id

(***************************************************************************)
(* No body frame on its way to a broker is longer than what this broker    *)
(* proposed in connection.tune, whatever the brokers of the connections    *)
(* before proposed: the limit that the login agreed on is the one that     *)
(* amqp_basic_publish cuts by.                                             *)
(***************************************************************************)
FrameMaxRespected ==
    \A j \in DOMAIN toBroker : toBroker[j].method = "body" =>
        LET length == toBroker[j].octets + Envelope
        IN  length <= FrameMaxWanted /\ (offered # 0 => length <= offered)

(***************************************************************************)
(* Every call returns, though only the opening of the socket has a timeout *)
(* (neb2amqp.c:176): the wait of a login or a request ends with the reply, *)
(* with a close by the broker, or with the end of the stream.              *)
(***************************************************************************)
EveryWaitEnds == []<>(op = "none")
=============================================================================
