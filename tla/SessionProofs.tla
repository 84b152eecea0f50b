---------------------------- MODULE SessionProofs ---------------------------
(***************************************************************************)
(* Theorems about the connection, for every broker that AmqpSession allows, *)
(* any number of faults, messages and connections: the agent is in step    *)
(* with its broker, the connection is what module Link says, and what the  *)
(* agent published reaches the broker whole, at most once and in order,    *)
(* however the broker and the network fail in the middle of a message.     *)
(***************************************************************************)
EXTENDS AmqpSession, SequenceTheorems, TLAPS

-----------------------------------------------------------------------------
(* Types, as far as the proofs need them.                                  *)

Contents == {"method", "content", "body"}
Closes   == {"channel_close", "connection_close"}
Logins   == {"header", "start", "start_ok", "tune", "tune_ok"}

(* Where a call of n2a_amqp_connect is once the socket is open.            *)
Openings == Logins \cup {"open", "channel_open", "declare"}

Replies == {"protocol", "start", "tune", "open_ok", "channel_open_ok", "declare_ok",
            "channel_close_ok", "connection_close_ok"}

Answers  == [channel : {0, 1}, method : Replies \cup Closes]
Requests == [channel : {0, 1},
             method : {"header", "start_ok", "open", "channel_open", "declare"} \cup Closes]
            \cup [channel : {0}, method : {"tune_ok"}, frame_max : Nat]
            \cup [channel : {1}, method : Contents, id : Nat, size : Nat, octets : Int]

Messages == [id : Nat, size : Nat, left : Nat]

SessionTypes ==
    /\ waiting \in BOOLEAN /\ conn \in BOOLEAN /\ connected \in BOOLEAN /\ errors \in BOOLEAN
    /\ sock \in {"unopened", "open", "closed"}
    /\ tcp \in {"none", "up", "gone"}
    /\ trouble \in {"none", "refused", "mute", "dead"}
    /\ toClient \in Seq(Answers) /\ toBroker \in Seq(Requests)
    /\ frameMax \in Nat /\ offered \in Nat /\ published \in Nat
    /\ op = "publish" => current \in Messages

(* The frame of the message being published that comes next.               *)
Octets   == IF pc = "body" THEN Fragment(current.left) ELSE 0
NextPart == [channel |-> 1, method |-> pc, id |-> current.id, size |-> current.size,
             octets |-> Octets]

(* Which calls are at which place.                                         *)
Places ==
    /\ \/ op = "none" /\ pc = "idle"
       \/ op = "connect" /\ pc \in Openings \cup Closes \cup {"destroy", "socket", "finish"}
       \/ op = "publish" /\ pc \in Contents
       \/ op = "disconnect" /\ pc \in Closes \cup {"destroy"}
    /\ waiting => pc \in Closes \cup {"open", "channel_open", "declare"}
    /\ op = "connect" => ~connected
    /\ op \in {"publish", "disconnect"} => connected
    /\ op = "connect" /\ pc # "finish" => ~errors
    /\ op = "publish" => errors = before.errors

(* Without a connection object nothing of an earlier one is left.          *)
NothingLeft ==
    /\ sock = "unopened" /\ tcp = "none" /\ toBroker = <<>> /\ toClient = <<>>
    /\ session = "none" /\ channel = "none" /\ trouble = "none"

Remains ==
    /\ ~conn \/ pc = "socket" => NothingLeft
    /\ connected \/ (op = "connect" /\ pc # "socket") => conn
    /\ op \in {"none", "publish"} \/ pc \in Openings \cup {"socket", "finish"} => queued = <<>>

-----------------------------------------------------------------------------
(* A connection that is being opened or in use.                            *)

Opening == op = "connect" /\ (pc \in Openings \/ (pc = "finish" /\ ~errors))
Settled == connected /\ op \in {"none", "publish"}

OnlyContents(s) == \A j \in 1..Len(s) : s[j].method \in Contents /\ s[j].channel = 1
OnlyCloses(s)   == \A j \in 1..Len(s) : s[j] \in {ChannelClose, ConnectionClose}

Broker(s, c)        == session = s /\ channel = c
Network(out, in)    == toBroker = out /\ toClient = in

TuneOk == [channel |-> 0, method |-> "tune_ok", frame_max |-> frameMax]

(* What is under way when nothing went wrong: a request, or its reply.     *)
AlignedLogin ==
    /\ pc = "header" =>
          Broker("accepted", "none") /\ Network(<<>>, <<>>)
    /\ pc = "start" =>
          \/ Broker("accepted", "none") /\ Network(<<Frame(0, "header")>>, <<>>)
          \/ Broker("started", "none") /\ Network(<<>>, <<Frame(0, "start")>>)
    /\ pc = "start_ok" =>
          Broker("started", "none") /\ Network(<<>>, <<>>)
    /\ pc = "tune" =>
          \/ Broker("started", "none") /\ Network(<<Frame(0, "start_ok")>>, <<>>)
          \/ Broker("tuning", "none") /\ Network(<<>>, <<Frame(0, "tune")>>)
    /\ pc = "tune_ok" =>
          Broker("tuning", "none") /\ Network(<<>>, <<>>)

AlignedRequest ==
    /\ pc = "open" /\ ~waiting =>
          \/ Broker("tuning", "none") /\ Network(<<TuneOk>>, <<>>)
          \/ Broker("tuned", "none") /\ Network(<<>>, <<>>)
    /\ pc = "open" /\ waiting =>
          \/ Broker("tuning", "none") /\ Network(<<TuneOk, Frame(0, "open")>>, <<>>)
          \/ Broker("tuned", "none") /\ Network(<<Frame(0, "open")>>, <<>>)
          \/ Broker("open", "none") /\ Network(<<>>, <<Frame(0, "open_ok")>>)
    /\ pc = "channel_open" /\ ~waiting =>
          Broker("open", "none") /\ Network(<<>>, <<>>)
    /\ pc = "channel_open" /\ waiting =>
          \/ Broker("open", "none") /\ Network(<<Frame(1, "channel_open")>>, <<>>)
          \/ Broker("open", "open") /\ Network(<<>>, <<Frame(1, "channel_open_ok")>>)
    /\ pc = "declare" /\ waiting =>
          \/ Broker("open", "open") /\ Network(<<Frame(1, "declare")>>, <<>>)
          \/ Broker("open", "open") /\ Network(<<>>, <<Frame(1, "declare_ok")>>)
    /\ pc \in {"finish", "idle"} \cup Contents \/ (pc = "declare" /\ ~waiting) =>
          Broker("open", "open") /\ toClient = <<>>

(* The broker has closed, and answers nothing but a close.                 *)
Silent == session \in {"closing", "closed"} \/ (session = "open" /\ channel = "closing")

(* What the client may find when it reads: the reply it waits for, what    *)
(* the broker closed with, or both.                                        *)
Incoming ==
    /\ pc = "start" =>
          \/ toClient \in {<<>>, <<Frame(0, "protocol")>>}
          \/ toClient = <<Frame(0, "start")>> /\ trouble # "refused"
    /\ pc = "tune" =>
          \/ toClient \in {<<>>, <<ConnectionClose>>}
          \/ toClient = <<Frame(0, "tune")>> /\ trouble # "refused"
    /\ pc = "open" => \A j \in 1..Len(toClient) : toClient[j] # ChannelClose
    /\ waiting =>
          \/ OnlyCloses(toClient)
          \/ /\ toClient # <<>> /\ IsReply(Head(toClient), pc)
             /\ OnlyCloses(Tail(toClient))
             /\ toBroker = <<>> /\ trouble # "refused"
    /\ pc \in {"header", "start_ok", "tune_ok"} \/ (pc = "open" /\ ~waiting) =>
          toClient = <<>> /\ trouble \in {"none", "dead"}
    /\ pc \in {"finish", "idle"} \cup Contents
       \/ (pc \in {"channel_open", "declare"} /\ ~waiting) =>
          /\ OnlyCloses(toClient) /\ trouble # "refused"
          /\ Opening => toBroker = <<>>

LiveConnection ==
    Opening \/ Settled =>
        /\ sock = "open" /\ tcp \in {"up", "gone"}
        /\ \A j \in 1..Len(toBroker) : toBroker[j].method \notin Closes
        /\ Settled => OnlyContents(toBroker)
        /\ trouble = "none" => tcp = "up" /\ AlignedLogin /\ AlignedRequest
        /\ tcp = "up" /\ trouble # "none" => Silent /\ trouble # "dead"
        /\ pc \in Logins \cup {"open"} => channel = "none"
        /\ pc \in Logins => trouble # "mute"
        /\ Incoming

-----------------------------------------------------------------------------
(* n2a_amqp_disconnect.                                                    *)

(* An orderly close: what was published before it, then each close and its *)
(* reply.                                                                  *)
AlignedClose ==
    /\ pc = "channel_close" /\ ~waiting =>
          tcp = "up" /\ Broker("open", "open") /\ toClient = <<>> /\ OnlyContents(toBroker)
    /\ pc = "channel_close" /\ waiting =>
          /\ tcp = "up"
          /\ \/ /\ Broker("open", "open") /\ toClient = <<>>
                /\ toBroker # <<>> /\ toBroker[Len(toBroker)] = ChannelClose
                /\ \A j \in 1..(Len(toBroker) - 1) :
                      toBroker[j].method \in Contents /\ toBroker[j].channel = 1
             \/ Broker("open", "none") /\ Network(<<>>, <<Frame(1, "channel_close_ok")>>)
    /\ pc = "connection_close" /\ ~waiting =>
          tcp = "up" /\ Broker("open", "none") /\ Network(<<>>, <<>>)
    /\ pc = "connection_close" /\ waiting =>
          \/ tcp = "up" /\ Broker("open", "none") /\ Network(<<ConnectionClose>>, <<>>)
          \/ /\ session \in {"closed", "none"}
             /\ Network(<<>>, <<Frame(0, "connection_close_ok")>>)
    /\ pc = "destroy" => session \in {"closed", "none"}

ClosingConnection ==
    op = "disconnect" =>
        /\ sock = "open" /\ tcp \in {"up", "gone"}
        /\ \A j \in 1..Len(toBroker) : toBroker[j].method \in Contents \cup Closes
        /\ trouble # "refused"
        /\ tcp = "up" => session \in {"open", "closing", "closed"} /\ trouble # "dead"
        /\ trouble = "none" => ~errors /\ AlignedClose

(* The longest frame was agreed on, and the broker proposes nothing new.   *)
FrameMaxAgreed ==
    connected \/ (Opening /\ pc \notin {"header", "start", "start_ok", "tune"}) =>
        /\ frameMax <= FrameMaxWanted
        /\ offered # 0 => frameMax <= offered

(* The inductive invariant.                                                *)
SessionInv == /\ SessionTypes /\ Places /\ Remains
              /\ LiveConnection /\ ClosingConnection /\ FrameMaxAgreed

-----------------------------------------------------------------------------
(* Sequences of one or two frames, and one frame more or less.             *)

LEMMA SmallTuples ==
    ASSUME NEW a, NEW b
    PROVE  /\ <<>> \o <<a>> = <<a>> /\ <<a>> \o <<b>> = <<a, b>> /\ Append(<<>>, a) = <<a>>
           /\ Head(<<a>>) = a /\ Tail(<<a>>) = <<>> /\ Head(<<a, b>>) = a /\ Tail(<<a, b>>) = <<b>>
           /\ Len(<<>>) = 0 /\ Len(<<a>>) = 1 /\ <<a>>[1] = a /\ <<a>> # <<>>
<1> DEFINE S == {a, b}
<1>1. <<a>> \in Seq(S) /\ <<b>> \in Seq(S) /\ <<>> \in Seq(S)
  OBVIOUS
<1>2. Append(<<>>, a) = <<a>> /\ <<>> \o <<a>> = <<a>>
  BY <1>1
<1>3. Len(<<a>>) = 1 /\ <<a>>[1] = a /\ <<a>> # <<>> /\ Head(<<a>>) = a /\ Len(<<>>) = 0
  BY <1>1
<1>4. Tail(<<a>>) = <<>>
  <2>1. Tail(<<a>>) \in Seq(S) /\ Len(Tail(<<a>>)) = 0
    BY <1>1, <1>3, HeadTailProperties
  <2> QED BY <2>1, EmptySeq
<1>5. <<a, b>> \in Seq(S) /\ Len(<<a, b>>) = 2 /\ <<a, b>>[1] = a /\ <<a, b>>[2] = b
  OBVIOUS
<1>6. <<a>> \o <<b>> = <<a, b>>
  <2>1. /\ <<a>> \o <<b>> \in Seq(S) /\ Len(<<a>> \o <<b>>) = 2
        /\ \A i \in 1..2 : (<<a>> \o <<b>>)[i] = IF i <= 1 THEN <<a>>[i] ELSE <<b>>[i - 1]
    BY <1>1, ConcatProperties
  <2>2. (<<a>> \o <<b>>)[1] = a /\ (<<a>> \o <<b>>)[2] = b
    BY <2>1
  <2>3. \A i \in 1..2 : (<<a>> \o <<b>>)[i] = <<a, b>>[i]
    BY <1>5, <2>2
  <2> QED BY <1>5, <2>1, <2>3, SeqEqual
<1>7. Head(<<a, b>>) = a
  BY <1>5
<1>8. Tail(<<a, b>>) = <<b>>
  <2>1. <<a, b>> # <<>>
    BY <1>5, EmptySeq
  <2>2. /\ Tail(<<a, b>>) \in Seq(S) /\ Len(Tail(<<a, b>>)) = 1
        /\ \A i \in 1..Len(Tail(<<a, b>>)) : Tail(<<a, b>>)[i] = <<a, b>>[i + 1]
    BY <1>5, <2>1, HeadTailProperties
  <2>3. Len(<<b>>) = 1 /\ <<b>>[1] = b
    OBVIOUS
  <2>4. Tail(<<a, b>>)[1] = b
    BY <1>5, <2>2
  <2>5. \A i \in 1..1 : Tail(<<a, b>>)[i] = <<b>>[i]
    BY <2>3, <2>4
  <2> QED BY <1>1, <2>2, <2>3, <2>5, SeqEqual
<1> QED BY <1>2, <1>3, <1>4, <1>6, <1>7, <1>8

LEMMA OneMore ==
    ASSUME NEW S, NEW s \in Seq(S), NEW x \in S
    PROVE  /\ s \o <<x>> = Append(s, x)
           /\ Append(s, x) \in Seq(S) /\ Append(s, x) # <<>>
           /\ Len(Append(s, x)) = Len(s) + 1 /\ Len(s) \in Nat
           /\ Append(s, x)[Len(s) + 1] = x
           /\ \A k \in 1..Len(s) : Append(s, x)[k] = s[k]
           /\ \A k \in 1..(Len(s) + 1) : k \in 1..Len(s) \/ k = Len(s) + 1
           /\ s # <<>> => /\ Head(Append(s, x)) = Head(s)
                          /\ Tail(Append(s, x)) = Append(Tail(s), x)
           /\ s = <<>> => Head(Append(s, x)) = x /\ Tail(Append(s, x)) = <<>>
<1>1. Append(s, x) \in Seq(S) /\ Append(s, x) # <<>> /\ Len(s) \in Nat
      /\ Len(Append(s, x)) = Len(s) + 1 /\ Append(s, x)[Len(s) + 1] = x
      /\ \A k \in 1..Len(s) : Append(s, x)[k] = s[k]
  BY AppendProperties
<1>2. s \o <<x>> = Append(s, x)
  BY AppendIsConcat
<1>3. \A k \in 1..(Len(s) + 1) : k \in 1..Len(s) \/ k = Len(s) + 1
  BY <1>1
<1>4. ASSUME s # <<>>
      PROVE  Head(Append(s, x)) = Head(s) /\ Tail(Append(s, x)) = Append(Tail(s), x)
  <2>1. 1 \in 1..Len(s)
    BY <1>1, <1>4, EmptySeq
  <2>2. Head(Append(s, x)) = Head(s)
    BY <1>1, <2>1
  <2>3. /\ Tail(s) \in Seq(S) /\ Len(Tail(s)) = Len(s) - 1
        /\ \A i \in 1..Len(Tail(s)) : Tail(s)[i] = s[i + 1]
    BY <1>4, HeadTailProperties
  <2>4. /\ Tail(Append(s, x)) \in Seq(S) /\ Len(Tail(Append(s, x))) = Len(s)
        /\ \A i \in 1..Len(Tail(Append(s, x))) : Tail(Append(s, x))[i] = Append(s, x)[i + 1]
    BY <1>1, HeadTailProperties
  <2>5. /\ Append(Tail(s), x) \in Seq(S) /\ Len(Append(Tail(s), x)) = Len(s)
        /\ Append(Tail(s), x)[Len(s)] = x
        /\ \A i \in 1..(Len(s) - 1) : Append(Tail(s), x)[i] = Tail(s)[i]
    BY <1>1, <2>3, AppendProperties
  <2>6. \A i \in 1..Len(s) : Tail(Append(s, x))[i] = Append(Tail(s), x)[i]
    <3> SUFFICES ASSUME NEW i \in 1..Len(s)
                 PROVE  Tail(Append(s, x))[i] = Append(Tail(s), x)[i]
      OBVIOUS
    <3>1. CASE i = Len(s)
      BY <1>1, <2>4, <2>5, <3>1
    <3>2. CASE i # Len(s)
      <4>1. i \in 1..(Len(s) - 1) /\ i + 1 \in 1..Len(s)
        BY <1>1, <3>2
      <4> QED BY <1>1, <2>3, <2>4, <2>5, <4>1
    <3> QED BY <3>1, <3>2
  <2> QED BY <2>2, <2>4, <2>5, <2>6, SeqEqual
<1>5. s = <<>> => Head(Append(s, x)) = x /\ Tail(Append(s, x)) = <<>>
  BY SmallTuples
<1> QED BY <1>1, <1>2, <1>3, <1>4, <1>5, SMTT(20)

LEMMA OneLess ==
    ASSUME NEW S, NEW s \in Seq(S), s # <<>>
    PROVE  /\ Head(s) \in S /\ Head(s) = s[1] /\ 1 \in 1..Len(s)
           /\ Tail(s) \in Seq(S) /\ Len(Tail(s)) = Len(s) - 1 /\ Len(s) \in Nat
           /\ \A k \in 1..Len(Tail(s)) : Tail(s)[k] = s[k + 1] /\ k + 1 \in 1..Len(s)
<1>1. Head(s) \in S /\ Tail(s) \in Seq(S) /\ Len(Tail(s)) = Len(s) - 1
      /\ \A k \in 1..Len(Tail(s)) : Tail(s)[k] = s[k + 1]
  BY HeadTailProperties
<1>2. Len(s) \in Nat \ {0}
  BY EmptySeq
<1> QED BY <1>1, <1>2

(* The closes of the broker.                                               *)
LEMMA MoreCloses ==
    ASSUME NEW s \in Seq(Answers), OnlyCloses(s), NEW f \in {ChannelClose, ConnectionClose}
    PROVE  OnlyCloses(Append(s, f)) /\ Append(s, f) \in Seq(Answers)
<1>1. ChannelClose \in Answers /\ ConnectionClose \in Answers
  BY DEF ChannelClose, ConnectionClose, Frame, Answers, Closes
<1>2. f \in Answers
  BY <1>1
<1> QED BY <1>2, OneMore DEF OnlyCloses

LEMMA FewerCloses ==
    ASSUME NEW s \in Seq(Answers), OnlyCloses(s), s # <<>>
    PROVE  OnlyCloses(Tail(s)) /\ Head(s) \in {ChannelClose, ConnectionClose}
BY OneLess DEF OnlyCloses

LEMMA NoCloses == OnlyCloses(<<>>)
BY EmptySeq DEF OnlyCloses

(* The table of requests.                                                  *)
LEMMA Table ==
    /\ DOMAIN Rpc = {"channel_close", "connection_close", "open", "channel_open", "declare"}
    /\ Rpc["channel_close"] = [channel |-> 1, reply |-> "channel_close_ok"]
    /\ Rpc["connection_close"] = [channel |-> 0, reply |-> "connection_close_ok"]
    /\ Rpc["open"] = [channel |-> 0, reply |-> "open_ok"]
    /\ Rpc["channel_open"] = [channel |-> 1, reply |-> "channel_open_ok"]
    /\ Rpc["declare"] = [channel |-> 1, reply |-> "declare_ok"]
BY DEF Rpc

-----------------------------------------------------------------------------
(* The calls of the agent.                                                 *)

LEMMA ConnectKeeps ==
    ASSUME SessionInv, Connect
    PROVE  SessionInv'
<1>1. SessionTypes /\ Places /\ Remains /\ LiveConnection /\ ClosingConnection /\ FrameMaxAgreed
  BY DEF SessionInv
<1>2. SessionTypes'
  BY <1>1 DEF Connect, BeginCall, ErrorsAtStart, clientVars, networkVars, brokerVars, bounds, SessionTypes
<1>3. Places'
  BY <1>1 DEF Connect, BeginCall, ErrorsAtStart, clientVars, networkVars, brokerVars, bounds, Places, Contents, Closes, Logins, Openings
<1>4. Remains'
  BY <1>1 DEF Connect, BeginCall, ErrorsAtStart, clientVars, networkVars, brokerVars, bounds, Places, Remains, NothingLeft, Contents, Closes, Logins, Openings
<1>5. LiveConnection'
  BY <1>1 DEF Connect, BeginCall, ErrorsAtStart, clientVars, networkVars, brokerVars, bounds, Places, Remains, NothingLeft, LiveConnection, Opening, Settled, AlignedLogin, AlignedRequest, Incoming, Broker, Network, TuneOk, Silent, OnlyContents, OnlyCloses, Contents, Closes, Logins, Openings
<1>6. ClosingConnection'
  BY <1>1 DEF Connect, BeginCall, ErrorsAtStart, clientVars, networkVars, brokerVars, bounds, Places, ClosingConnection, AlignedClose, LiveConnection, Settled, AlignedRequest, Broker, Network, Contents, Closes
<1>7. FrameMaxAgreed'
  BY <1>1 DEF Connect, BeginCall, ErrorsAtStart, clientVars, networkVars, brokerVars, bounds, Places, FrameMaxAgreed, Opening, Closes, Logins, Openings
<1> QED BY <1>2, <1>3, <1>4, <1>5, <1>6, <1>7 DEF SessionInv

LEMMA PublishKeeps ==
    ASSUME SessionInv, NEW n \in BodySizes, Publish(n)
    PROVE  SessionInv'
<1>1. SessionTypes /\ Places /\ Remains /\ LiveConnection /\ ClosingConnection /\ FrameMaxAgreed
  BY DEF SessionInv
<1>2. SessionTypes'
  BY <1>1, SessionAssumption DEF Publish, BeginCall, clientVars, networkVars, brokerVars, bounds, SessionTypes, Messages
<1>3. Places'
  BY <1>1, SessionAssumption DEF Publish, BeginCall, clientVars, networkVars, brokerVars, bounds, Places, Contents, Closes, Logins, Openings
<1>4. Remains'
  BY <1>1, SessionAssumption DEF Publish, BeginCall, clientVars, networkVars, brokerVars, bounds, Places, Remains, NothingLeft, Contents, Closes, Logins, Openings
<1>5. LiveConnection'
  BY <1>1, SessionAssumption DEF Publish, BeginCall, clientVars, networkVars, brokerVars, bounds, Places, Remains, NothingLeft, LiveConnection, Opening, Settled, AlignedLogin, AlignedRequest, Incoming, Broker, Network, TuneOk, Silent, OnlyContents, OnlyCloses, Contents, Closes, Logins, Openings
<1>6. ClosingConnection'
  BY <1>1, SessionAssumption DEF Publish, BeginCall, clientVars, networkVars, brokerVars, bounds, Places, ClosingConnection, AlignedClose, LiveConnection, Settled, AlignedRequest, Broker, Network, Contents, Closes
<1>7. FrameMaxAgreed'
  BY <1>1, SessionAssumption DEF Publish, BeginCall, clientVars, networkVars, brokerVars, bounds, Places, FrameMaxAgreed, Opening, Closes, Logins, Openings
<1> QED BY <1>2, <1>3, <1>4, <1>5, <1>6, <1>7 DEF SessionInv

LEMMA DisconnectKeeps ==
    ASSUME SessionInv, Disconnect
    PROVE  SessionInv'
<1>1. SessionTypes /\ Places /\ Remains /\ LiveConnection /\ ClosingConnection /\ FrameMaxAgreed
  BY DEF SessionInv
<1>2. SessionTypes'
  BY <1>1, EmptySeq DEF Disconnect, BeginCall, ErrorsAtStart, ClosesSocket, clientVars, networkVars, brokerVars, bounds, SessionTypes
<1>3. Places'
  BY <1>1, EmptySeq DEF Disconnect, BeginCall, ErrorsAtStart, ClosesSocket, clientVars, networkVars, brokerVars, bounds, Places, Contents, Closes, Logins, Openings
<1>4. Remains'
  BY <1>1, EmptySeq DEF Disconnect, BeginCall, ErrorsAtStart, ClosesSocket, clientVars, networkVars, brokerVars, bounds, Places, Remains, NothingLeft, Contents, Closes, Logins, Openings
<1>5. LiveConnection'
  BY <1>1, EmptySeq DEF Disconnect, BeginCall, ErrorsAtStart, ClosesSocket, clientVars, networkVars, brokerVars, bounds, Places, Remains, NothingLeft, LiveConnection, Opening, Settled, AlignedLogin, AlignedRequest, Incoming, Broker, Network, TuneOk, Silent, OnlyContents, OnlyCloses, Contents, Closes, Logins, Openings
<1>6. ClosingConnection'
  <2>1. CASE connected
    BY <1>1, <2>1, EmptySeq DEF Disconnect, BeginCall, ErrorsAtStart, clientVars, networkVars,
       brokerVars, bounds, ClosingConnection, AlignedClose, Places, Remains, LiveConnection, Opening, Settled, AlignedLogin, AlignedRequest, Incoming, Broker, Network, TuneOk, Silent, OnlyContents, OnlyCloses, Contents, Closes, Logins, Openings
  <2>2. CASE ~connected
    BY <1>1, <2>2 DEF Disconnect, Places, ClosingConnection
  <2> QED BY <2>1, <2>2
<1>7. FrameMaxAgreed'
  BY <1>1, EmptySeq DEF Disconnect, BeginCall, ErrorsAtStart, ClosesSocket, clientVars, networkVars, brokerVars, bounds, Places, FrameMaxAgreed, Opening, Closes, Logins, Openings
<1> QED BY <1>2, <1>3, <1>4, <1>5, <1>6, <1>7 DEF SessionInv

LEMMA DestroyKeeps ==
    ASSUME SessionInv, Destroy
    PROVE  SessionInv'
<1>1. SessionTypes /\ Places /\ Remains /\ LiveConnection /\ ClosingConnection /\ FrameMaxAgreed
  BY DEF SessionInv
<1>2. SessionTypes'
  BY <1>1, EmptySeq DEF Destroy, ClosesSocket, NewQueue, clientVars, networkVars, brokerVars, bounds, SessionTypes
<1>3. Places'
  BY <1>1, EmptySeq DEF Destroy, ClosesSocket, NewQueue, clientVars, networkVars, brokerVars, bounds, Places, Contents, Closes, Logins, Openings
<1>4. Remains'
  BY <1>1, EmptySeq DEF Destroy, ClosesSocket, NewQueue, clientVars, networkVars, brokerVars, bounds, Places, Remains, NothingLeft, Contents, Closes, Logins, Openings
<1>5. LiveConnection'
  BY <1>1, EmptySeq DEF Destroy, ClosesSocket, NewQueue, clientVars, networkVars, brokerVars, bounds, Places, Remains, NothingLeft, LiveConnection, Opening, Settled, AlignedLogin, AlignedRequest, Incoming, Broker, Network, TuneOk, Silent, OnlyContents, OnlyCloses, Contents, Closes, Logins, Openings
<1>6. ClosingConnection'
  BY <1>1, EmptySeq DEF Destroy, ClosesSocket, NewQueue, clientVars, networkVars, brokerVars, bounds, Places, ClosingConnection, AlignedClose, LiveConnection, Settled, AlignedRequest, Broker, Network, Contents, Closes
<1>7. FrameMaxAgreed'
  BY <1>1, EmptySeq DEF Destroy, ClosesSocket, NewQueue, clientVars, networkVars, brokerVars, bounds, Places, FrameMaxAgreed, Opening, Closes, Logins, Openings
<1> QED BY <1>2, <1>3, <1>4, <1>5, <1>6, <1>7 DEF SessionInv

LEMMA OpenSocketKeeps ==
    ASSUME SessionInv, OpenSocket
    PROVE  SessionInv'
<1>1. SessionTypes /\ Places /\ Remains /\ LiveConnection /\ ClosingConnection /\ FrameMaxAgreed
  BY DEF SessionInv
<1>2. SessionTypes'
  BY <1>1, EmptySeq DEF OpenSocket, clientVars, networkVars, brokerVars, bounds, SessionTypes
<1>3. Places'
  BY <1>1, EmptySeq DEF OpenSocket, clientVars, networkVars, brokerVars, bounds, Places, Contents, Closes, Logins, Openings
<1>4. Remains'
  BY <1>1, EmptySeq DEF OpenSocket, clientVars, networkVars, brokerVars, bounds, Places, Remains, NothingLeft, Contents, Closes, Logins, Openings
<1>5. LiveConnection'
  BY <1>1, EmptySeq DEF OpenSocket, clientVars, networkVars, brokerVars, bounds, Places, Remains, NothingLeft, LiveConnection, Opening, Settled, AlignedLogin, AlignedRequest, Incoming, Broker, Network, TuneOk, Silent, OnlyContents, OnlyCloses, Contents, Closes, Logins, Openings
<1>6. ClosingConnection'
  BY <1>1, EmptySeq DEF OpenSocket, clientVars, networkVars, brokerVars, bounds, Places, ClosingConnection, AlignedClose, LiveConnection, Settled, AlignedRequest, Broker, Network, Contents, Closes
<1>7. FrameMaxAgreed'
  BY <1>1, EmptySeq DEF OpenSocket, clientVars, networkVars, brokerVars, bounds, Places, FrameMaxAgreed, Opening, Closes, Logins, Openings
<1> QED BY <1>2, <1>3, <1>4, <1>5, <1>6, <1>7 DEF SessionInv

LEMMA ConnectReturnsKeeps ==
    ASSUME SessionInv, ConnectReturns
    PROVE  SessionInv'
<1>1. SessionTypes /\ Places /\ Remains /\ LiveConnection /\ ClosingConnection /\ FrameMaxAgreed
  BY DEF SessionInv
<1>2. SessionTypes'
  BY <1>1, EmptySeq DEF ConnectReturns, clientVars, networkVars, brokerVars, bounds, SessionTypes
<1>3. Places'
  BY <1>1, EmptySeq DEF ConnectReturns, clientVars, networkVars, brokerVars, bounds, Places, Contents, Closes, Logins, Openings
<1>4. Remains'
  BY <1>1, EmptySeq DEF ConnectReturns, clientVars, networkVars, brokerVars, bounds, Places, Remains, NothingLeft, Contents, Closes, Logins, Openings
<1>5. LiveConnection'
  <2>1. CASE errors
    <3>1. ~connected' /\ op' = "none"
      BY <2>1 DEF ConnectReturns
    <3> QED BY <3>1 DEF LiveConnection, Opening, Settled
  <2>2. CASE ~errors
    <3>1. Opening /\ ~Settled
      BY <1>1, <2>2 DEF ConnectReturns, Places, Opening, Settled, Closes, Openings, Logins, Contents
    <3>2. ~waiting
      BY <1>1 DEF ConnectReturns, Places, Closes
    <3> QED
      BY <1>1, <3>1, <3>2, EmptySeq
      DEF ConnectReturns, networkVars, brokerVars, bounds, LiveConnection, AlignedLogin,
          AlignedRequest, Incoming, Broker, Network, Silent, OnlyContents, OnlyCloses, Contents,
          Closes, Logins, Opening
  <2> QED BY <2>1, <2>2
<1>6. ClosingConnection'
  BY <1>1, EmptySeq DEF ConnectReturns, clientVars, networkVars, brokerVars, bounds, Places, ClosingConnection, AlignedClose, LiveConnection, Settled, AlignedRequest, Broker, Network, Contents, Closes
<1>7. FrameMaxAgreed'
  BY <1>1, EmptySeq DEF ConnectReturns, clientVars, networkVars, brokerVars, bounds, Places, FrameMaxAgreed, Opening, Closes, Logins, Openings
<1> QED BY <1>2, <1>3, <1>4, <1>5, <1>6, <1>7 DEF SessionInv

(* What sending a frame does.                                              *)
LEMMA SendFacts ==
    ASSUME SessionTypes, NEW f \in Requests, SendWorks(<<f>>)
    PROVE  /\ sock = "open" /\ tcp' = tcp /\ toClient' = toClient
           /\ toBroker' \in Seq(Requests)
           /\ \/ tcp = "up" /\ toBroker' = Append(toBroker, f)
              \/ tcp = "gone" /\ toBroker' = toBroker
           /\ tcp = "up" /\ toBroker = <<>> => toBroker' = <<f>>
<1>1. toBroker \in Seq(Requests)
  BY DEF SessionTypes
<1>2. toBroker \o <<f>> = Append(toBroker, f) /\ Append(toBroker, f) \in Seq(Requests)
  BY <1>1, OneMore
<1>3. Append(<<>>, f) = <<f>>
  BY SmallTuples
<1> QED BY <1>1, <1>2, <1>3 DEF SendWorks

(* A call of n2a_amqp_connect that fails leaves nothing to be kept.        *)
LEMMA LoginFailsKeeps ==
    ASSUME SessionInv, op = "connect", pc \in Openings, LoginFails, waiting' = FALSE,
           UNCHANGED <<op, conn, connected, queued, frameMax, current, before, published, offered>>,
           toClient' \in Seq(Answers), toBroker' \in Seq(Requests),
           sock' \in {"open", "closed"}, tcp' \in {"none", "up", "gone"},
           trouble' \in {"none", "refused", "mute", "dead"}
    PROVE  SessionInv'
<1>1. SessionTypes /\ Places /\ Remains
  BY DEF SessionInv
<1>2. pc' = "finish" /\ errors' = TRUE /\ ~connected /\ conn /\ pc \notin {"socket"}
  BY <1>1 DEF LoginFails, Places, Remains, Openings, Logins
<1>3. SessionTypes'
  BY <1>1, <1>2 DEF SessionTypes
<1>4. Places' /\ Remains'
  BY <1>1, <1>2 DEF Places, Remains, Openings, Logins, Contents, Closes
<1>5. LiveConnection' /\ ClosingConnection' /\ FrameMaxAgreed'
  BY <1>2 DEF LiveConnection, ClosingConnection, FrameMaxAgreed, Opening, Settled, Openings,
              Logins
<1> QED BY <1>3, <1>4, <1>5 DEF SessionInv

LEMMA LoginSendKeeps ==
    ASSUME SessionInv, LoginSend
    PROVE  SessionInv'
<1> DEFINE f == IF pc = "tune_ok" THEN [channel |-> 0, method |-> pc, frame_max |-> frameMax]
                ELSE Frame(0, pc)
<1>1. SessionTypes /\ Places /\ Remains /\ LiveConnection /\ ClosingConnection /\ FrameMaxAgreed
  BY DEF SessionInv
<1>2. /\ pc \in {"header", "start_ok", "tune_ok"} /\ op = "connect" /\ ~waiting /\ Opening
      /\ ~connected /\ ~errors
  BY <1>1 DEF LoginSend, Places, Opening, Openings, Logins, Contents, Closes
<1>3. /\ sock = "open" /\ tcp \in {"up", "gone"} /\ toClient = <<>> /\ channel = "none"
      /\ \A j \in 1..Len(toBroker) : toBroker[j].method \notin Closes
      /\ tcp = "up" => trouble = "none" /\ AlignedLogin
      /\ trouble \in {"none", "dead"} /\ (trouble = "none" => tcp = "up")
  BY <1>1, <1>2 DEF LiveConnection, Incoming, Logins
<1>4. /\ UNCHANGED <<op, waiting, conn, sock, connected, queued, frameMax, current, sent, before>>
      /\ UNCHANGED <<session, channel, partial, received, offered, trouble>>
      /\ UNCHANGED <<published, connects, faults>>
  BY DEF LoginSend, brokerVars, bounds
<1>5. CASE SendFails /\ LoginFails
  <2>1. UNCHANGED <<tcp, swallowed, toBroker, toClient>>
    BY <1>5 DEF SendFails, networkVars
  <2> QED
    BY <1>1, <1>2, <1>3, <1>4, <1>5, <2>1, LoginFailsKeeps
    DEF Openings, Logins, SessionTypes
<1>6. CASE /\ SendWorks(<<f>>) /\ UNCHANGED errors
           /\ pc' = CASE pc = "header" -> "start" [] pc = "start_ok" -> "tune" [] OTHER -> "open"
  <2>1. f \in Requests
    <3>1. CASE pc = "tune_ok"
      BY <1>1, <3>1 DEF Requests, SessionTypes
    <3>2. CASE pc # "tune_ok"
      BY <1>2, <3>2 DEF Requests, Answers, Frame
    <3> QED BY <3>1, <3>2
  <2>2. f.method \notin Closes /\ f.channel = 0
    BY <1>2 DEF Frame, Closes
  <2>3. /\ tcp' = tcp /\ toClient' = <<>> /\ toBroker' \in Seq(Requests)
        /\ tcp = "up" => toBroker' = <<f>>
        /\ tcp = "gone" => toBroker' = toBroker
    <3>1. tcp = "up" => toBroker = <<>>
      BY <1>2, <1>3 DEF AlignedLogin, Network
    <3> HIDE DEF f
    <3> QED BY <1>1, <1>3, <1>6, <2>1, <3>1, SendFacts
  <2>4. \A j \in 1..Len(toBroker') : toBroker'[j].method \notin Closes
    <3>1. CASE tcp = "up"
      <4>1. Len(<<f>>) = 1 /\ <<f>>[1] = f
        BY SmallTuples
      <4> HIDE DEF f
      <4>2. Len(toBroker') = 1 /\ toBroker'[1] = f
        BY <2>3, <3>1, <4>1
      <4> QED BY <2>2, <4>2
    <3>2. CASE tcp = "gone"
      BY <1>3, <2>3, <3>2
    <3> QED BY <1>3, <3>1, <3>2
  <2>5. \/ pc = "header" /\ pc' = "start" /\ f = Frame(0, "header")
        \/ pc = "start_ok" /\ pc' = "tune" /\ f = Frame(0, "start_ok")
        \/ pc = "tune_ok" /\ pc' = "open" /\ f = TuneOk
    BY <1>2, <1>6 DEF TuneOk
  <2> HIDE DEF f
  <2>6. SessionTypes'
    BY <1>1, <1>4, <1>6, <2>3, EmptySeq DEF SessionTypes
  <2>7. Places' /\ Remains'
    BY <1>1, <1>2, <1>4, <1>6, <2>5 DEF Places, Remains, Openings, Logins, Contents, Closes
  <2>8. Opening' /\ ~Settled'
    BY <1>2, <1>4, <1>6, <2>5 DEF Opening, Settled, Openings, Logins
  <2>9. trouble' = "none" => tcp' = "up" /\ AlignedLogin' /\ AlignedRequest'
    BY <1>2, <1>3, <1>4, <2>3, <2>5
    DEF AlignedLogin, AlignedRequest, Broker, Network, TuneOk, Contents
  <2>10. Incoming'
    BY <1>2, <1>3, <1>4, <2>3, <2>5, NoCloses, EmptySeq DEF Incoming, Contents
  <2>11. LiveConnection'
    BY <1>3, <1>4, <2>3, <2>4, <2>8, <2>9, <2>10 DEF LiveConnection
  <2>12. ClosingConnection'
    BY <1>2, <1>4 DEF ClosingConnection
  <2>13. FrameMaxAgreed'
    BY <1>1, <1>2, <1>4, <2>5 DEF FrameMaxAgreed, Opening, Openings, Logins
  <2> QED BY <2>6, <2>7, <2>11, <2>12, <2>13 DEF SessionInv
<1> QED BY <1>5, <1>6 DEF LoginSend

LEMMA LoginReceiveKeeps ==
    ASSUME SessionInv, LoginReceive
    PROVE  SessionInv'
<1>1. SessionTypes /\ Places /\ Remains /\ LiveConnection /\ ClosingConnection /\ FrameMaxAgreed
  BY DEF SessionInv
<1>2. /\ pc \in {"start", "tune"} /\ op = "connect" /\ ~waiting /\ Opening /\ ~connected /\ ~errors
      /\ pc \in Openings
  BY <1>1 DEF LoginReceive, Places, Opening, Openings, Logins, Contents, Closes
<1>3. /\ sock = "open" /\ tcp \in {"up", "gone"} /\ channel = "none"
      /\ \A j \in 1..Len(toBroker) : toBroker[j].method \notin Closes
      /\ trouble = "none" => tcp = "up" /\ AlignedLogin
      /\ tcp = "up" /\ trouble # "none" => trouble # "dead"
      /\ Incoming
  BY <1>1, <1>2 DEF LiveConnection, Logins
<1>4. UNCHANGED <<op, waiting, conn, connected, queued, current, sent, before, published, connects>>
  BY DEF LoginReceive
<1>5. CASE /\ \E f \in ToSet(toClient) : Receives(f) /\ AwaitedMethod(f)
           /\ LoginFails /\ toClient' = Tail(toClient)
           /\ UNCHANGED <<sock, frameMax, tcp, swallowed, toBroker, brokerVars>>
  <2>1. Tail(toClient) \in Seq(Answers)
    BY <1>1, <1>5, OneLess DEF SessionTypes, Receives
  <2> QED
    BY <1>1, <1>2, <1>3, <1>4, <1>5, <2>1, LoginFailsKeeps DEF SessionTypes, brokerVars
<1>6. ASSUME NEW f \in ToSet(toClient), Receives(f), AwaitedMethod(f),
             pc' = IF pc = "start" THEN "start_ok" ELSE "tune_ok",
             frameMax' = IF pc = "tune" THEN Negotiated(offered, FrameMaxWanted) ELSE frameMax,
             toClient' = Tail(toClient),
             UNCHANGED <<errors, sock, tcp, swallowed, toBroker, brokerVars>>
      PROVE  SessionInv'
  <2>1. UNCHANGED <<session, channel, partial, received, offered, trouble>>
    BY <1>6 DEF brokerVars
  <2>2. toClient # <<>> /\ f = Head(toClient) /\ f.method = pc
    BY <1>6 DEF Receives, AwaitedMethod
  <2>3. toClient = <<Frame(0, pc)>> /\ trouble # "refused"
    <3>1. /\ Head(<<Frame(0, "protocol")>>) = Frame(0, "protocol")
          /\ Head(<<ConnectionClose>>) = ConnectionClose
      BY SmallTuples
    <3>2. Frame(0, "protocol").method = "protocol" /\ ConnectionClose.method = "connection_close"
      BY DEF Frame, ConnectionClose
    <3>3. \/ pc = "start" /\ toClient \in {<<>>, <<Frame(0, "protocol")>>}
          \/ pc = "tune" /\ toClient \in {<<>>, <<ConnectionClose>>}
          \/ toClient = <<Frame(0, pc)>> /\ trouble # "refused"
      BY <1>2, <1>3 DEF Incoming
    <3> QED BY <2>2, <3>1, <3>2, <3>3
  <2>4. toClient' = <<>>
    BY <1>6, <2>3, SmallTuples
  <2>5. trouble = "none" =>
           /\ toBroker = <<>> /\ channel = "none"
           /\ session = IF pc = "start" THEN "started" ELSE "tuning"
    <3>1. <<Frame(0, pc)>> # <<>>
      BY SmallTuples
    <3> QED BY <1>2, <1>3, <2>3, <3>1 DEF AlignedLogin, Broker, Network
  <2>6. trouble \in {"none", "dead"}
    <3>1. trouble # "mute"
      BY <1>1, <1>2 DEF LiveConnection, Logins
    <3> QED BY <1>1, <2>3, <3>1 DEF SessionTypes
  <2>7. frameMax' \in Nat
        /\ (pc = "tune" => /\ frameMax' <= FrameMaxWanted
                           /\ offered # 0 => frameMax' <= offered)
    BY <1>1, <1>6, SessionAssumption DEF Negotiated, SessionTypes
  <2>8. SessionTypes'
    BY <1>1, <1>4, <1>6, <2>1, <2>4, <2>7, EmptySeq DEF SessionTypes
  <2>9. Places' /\ Remains'
    BY <1>1, <1>2, <1>4, <1>6 DEF Places, Remains, Openings, Logins, Contents, Closes
  <2>10. Opening' /\ ~Settled'
    BY <1>2, <1>4, <1>6 DEF Opening, Settled, Openings, Logins
  <2>11. trouble' = "none" => tcp' = "up" /\ AlignedLogin' /\ AlignedRequest'
    BY <1>2, <1>3, <1>6, <2>1, <2>4, <2>5
    DEF AlignedLogin, AlignedRequest, Broker, Network, Contents
  <2>12. Incoming'
    BY <1>2, <1>4, <1>6, <2>1, <2>4, <2>6 DEF Incoming, Contents
  <2>13. LiveConnection'
    BY <1>1, <1>2, <1>3, <1>4, <1>6, <2>1, <2>10, <2>11, <2>12
    DEF LiveConnection, Logins, Silent
  <2>14. ClosingConnection'
    BY <1>2, <1>4 DEF ClosingConnection
  <2>15. FrameMaxAgreed'
    BY <1>2, <1>4, <1>6, <2>1, <2>7 DEF FrameMaxAgreed, Opening
  <2> QED BY <2>8, <2>9, <2>13, <2>14, <2>15 DEF SessionInv
<1>7. CASE LoginFails /\ ClosesSocket("closed") /\ UNCHANGED frameMax
  <2>1. /\ sock' = "closed" /\ tcp' = "none" /\ toBroker' = <<>> /\ toClient' = <<>>
        /\ trouble' = "none" /\ UNCHANGED offered
    BY <1>7 DEF ClosesSocket
  <2>2. toBroker' \in Seq(Requests) /\ toClient' \in Seq(Answers) /\ waiting' = FALSE
    BY <1>1, <1>2, <1>4, <2>1, EmptySeq DEF SessionTypes
  <2>3. LoginFails /\ UNCHANGED <<op, conn, connected, queued, frameMax, current, before,
                                 published, offered>>
    BY <1>4, <1>7, <2>1
  <2> QED BY <1>2, <2>1, <2>2, <2>3, LoginFailsKeeps
<1>8. CASE RecvFails /\ LoginFails /\ UNCHANGED <<sock, frameMax, networkVars, brokerVars>>
  BY <1>1, <1>2, <1>3, <1>4, <1>8, LoginFailsKeeps DEF SessionTypes, networkVars, brokerVars
<1> QED BY <1>5, <1>6, <1>7, <1>8 DEF LoginReceive

(* A fragment is not longer than what is left, nor than a frame may be.    *)
LEMMA PartType ==
    ASSUME current \in Messages, frameMax \in Nat, pc \in Contents
    PROVE  /\ NextPart \in Requests /\ NextPart.method = pc /\ NextPart.channel = 1
           /\ NextPart.id = current.id /\ NextPart.size = current.size
           /\ NextPart.octets = Octets /\ Octets \in Int
           /\ Octets <= current.left /\ current.left - Octets \in Nat
           /\ pc = "body" => Octets + Envelope <= frameMax
<1>1. current.left \in Nat /\ current.id \in Nat /\ current.size \in Nat
  BY DEF Messages
<1>2. /\ Octets \in Int /\ Octets <= current.left /\ current.left - Octets \in Nat
      /\ pc = "body" => Octets + Envelope <= frameMax
  BY <1>1 DEF Octets, Fragment, Envelope
<1>3. NextPart \in [channel : {1}, method : Contents, id : Nat, size : Nat, octets : Int]
  BY <1>1, <1>2 DEF NextPart
<1> QED BY <1>2, <1>3 DEF NextPart, Requests

LEMMA PublishSendKeeps ==
    ASSUME SessionInv, PublishSend
    PROVE  SessionInv'
<1> DEFINE f == NextPart
<1>1. SessionTypes /\ Places /\ Remains /\ LiveConnection /\ ClosingConnection /\ FrameMaxAgreed
  BY DEF SessionInv
<1>2. pc \in Contents /\ op = "publish" /\ connected /\ Settled /\ ~Opening /\ ~waiting
  BY <1>1 DEF PublishSend, Places, Settled, Opening, Contents, Closes, Openings, Logins
<1>3. /\ sock = "open" /\ tcp \in {"up", "gone"} /\ OnlyContents(toBroker)
      /\ trouble = "none" => tcp = "up" /\ Broker("open", "open") /\ toClient = <<>>
      /\ tcp = "up" /\ trouble # "none" => Silent /\ trouble # "dead"
      /\ OnlyCloses(toClient) /\ trouble # "refused"
  BY <1>1, <1>2 DEF LiveConnection, AlignedRequest, Incoming
<1>4. /\ UNCHANGED <<waiting, conn, sock, connected, queued, frameMax, before>>
      /\ UNCHANGED <<session, channel, partial, received, offered, trouble>>
      /\ UNCHANGED <<published, connects, faults>>
  BY DEF PublishSend, brokerVars, bounds
<1>5. CASE /\ SendWorks(<<f>>) /\ UNCHANGED errors
           /\ \/ /\ pc' \in {"content", "body"} /\ op' = op
                 /\ current' = current \/ \E left \in Nat : current' = [current EXCEPT !.left = left]
              \/ pc' = "idle" /\ op' = "none"
  <2>1. f \in Requests /\ f.method \in Contents /\ f.channel = 1
    BY <1>1, <1>2, PartType DEF SessionTypes
  <2> HIDE DEF f
  <2>2. /\ tcp' = tcp /\ toClient' = toClient /\ toBroker' \in Seq(Requests)
        /\ toBroker' = Append(toBroker, f) \/ toBroker' = toBroker
    BY <1>1, <1>5, <2>1, SendFacts
  <2>3. OnlyContents(toBroker')
    BY <1>1, <1>3, <2>1, <2>2, OneMore, SMTT(20) DEF OnlyContents, SessionTypes
  <2>4. SessionTypes'
    BY <1>1, <1>2, <1>4, <1>5, <2>2 DEF SessionTypes, Messages
  <2>5. Places' /\ Remains'
    BY <1>1, <1>2, <1>4, <1>5
    DEF Places, Remains, Openings, Logins, Contents, Closes, Settled
  <2>6. Settled' /\ ~Opening' /\ pc' \in {"idle"} \cup Contents
    BY <1>2, <1>4, <1>5 DEF Opening, Settled, Contents
  <2>7. trouble' = "none" => tcp' = "up" /\ AlignedLogin' /\ AlignedRequest'
    BY <1>2, <1>3, <1>4, <2>2, <2>6 DEF AlignedLogin, AlignedRequest, Broker, Contents
  <2>8. Incoming'
    BY <1>2, <1>3, <1>4, <2>2, <2>6 DEF Incoming, Contents, OnlyCloses
  <2>9. LiveConnection'
    BY <1>2, <1>3, <1>4, <2>2, <2>3, <2>6, <2>7, <2>8
    DEF LiveConnection, OnlyContents, Contents, Closes, Logins, Silent
  <2>10. ClosingConnection' /\ FrameMaxAgreed'
    BY <1>1, <1>2, <1>4, <1>5 DEF ClosingConnection, FrameMaxAgreed
  <2> QED BY <2>4, <2>5, <2>9, <2>10 DEF SessionInv
<1>6. CASE /\ SendFails /\ errors' = ErrorsAtStart /\ op' = "disconnect" /\ pc' = "channel_close"
           /\ UNCHANGED <<current, sent, before>>
  <2>1. tcp = "gone" /\ UNCHANGED <<tcp, swallowed, toBroker, toClient>>
    BY <1>3, <1>6 DEF SendFails, networkVars
  <2>2. SessionTypes' /\ Places' /\ Remains'
    BY <1>1, <1>2, <1>4, <1>6, <2>1
    DEF SessionTypes, Places, Remains, Openings, Logins, Contents, Closes, ErrorsAtStart
  <2>3. LiveConnection' /\ FrameMaxAgreed'
    BY <1>1, <1>2, <1>4, <1>6 DEF LiveConnection, FrameMaxAgreed, Opening, Settled
  <2>4. ClosingConnection'
    BY <1>3, <1>4, <1>6, <2>1 DEF ClosingConnection, OnlyContents
  <2> QED BY <2>2, <2>3, <2>4 DEF SessionInv
<1>7. ASSUME SendWorks(<<f>>),
             IF pc = "method"
             THEN pc' = "content" /\ UNCHANGED <<op, current, sent>>
             ELSE IF MoreBody(current.left - Octets)
             THEN /\ pc' = "body" /\ current' = [current EXCEPT !.left = current.left - Octets]
                  /\ UNCHANGED <<op, sent>>
             ELSE pc' = "idle" /\ op' = "none" /\ current' = <<>>
                  /\ sent' = Append(sent, current.id)
      PROVE  \/ /\ pc' \in {"content", "body"} /\ op' = op
                /\ current' = current \/ \E left \in Nat : current' = [current EXCEPT !.left = left]
             \/ pc' = "idle" /\ op' = "none"
  <2>1. current.left - Octets \in Nat
    BY <1>1, <1>2, PartType DEF SessionTypes
  <2> QED BY <1>7, <2>1
<1> QED BY <1>5, <1>6, <1>7 DEF PublishSend, NextPart, Octets

-----------------------------------------------------------------------------
(* Requests.                                                               *)

(* What the callers of amqp_simple_rpc make of the result.                 *)
LEMMA ReturnFacts ==
    ASSUME SessionTypes, Places, pc \in DOMAIN Rpc, NEW ok \in BOOLEAN, RpcReturns(pc, ok)
    PROVE  /\ waiting' = FALSE /\ errors' \in BOOLEAN
           /\ pc \in Closes =>
                 /\ pc' = IF pc = "channel_close" THEN "connection_close" ELSE "destroy"
                 /\ op = "connect" \/ ok => errors' = errors
           /\ pc \notin Closes =>
                 /\ ~ok => LoginFails
                 /\ ok => /\ errors' = errors
                          /\ \/ pc = "open" /\ pc' = "channel_open"
                             \/ pc = "channel_open" /\ pc' \in {"declare", "finish"}
                             \/ pc = "declare" /\ pc' = "finish"
<1>1. pc \in {"channel_close", "connection_close", "open", "channel_open", "declare"}
      /\ errors \in BOOLEAN
  BY Table DEF SessionTypes
<1>2. /\ waiting' = FALSE
      /\ errors' = (errors \/ CountsAsError(pc, ok))
      /\ pc' = IF ok \/ pc \in Closes THEN StageAfter(pc) ELSE "finish"
  BY DEF RpcReturns, Closes
<1>3. CountsAsError(pc, ok) <=> ~ok /\ (pc \in Closes => op = "disconnect")
  BY DEF CountsAsError, Closes
<1>4. errors' \in BOOLEAN /\ (errors' <=> errors \/ CountsAsError(pc, ok))
  BY <1>1, <1>2, <1>3
<1>5. /\ pc = "channel_close" => StageAfter(pc) = "connection_close"
      /\ pc = "connection_close" => StageAfter(pc) = "destroy"
      /\ pc = "open" => StageAfter(pc) = "channel_open"
      /\ pc = "channel_open" => StageAfter(pc) \in {"declare", "finish"}
      /\ pc = "declare" => StageAfter(pc) = "finish"
  BY DEF StageAfter
<1>6. ~ok /\ pc \notin Closes => LoginFails
  BY <1>2, <1>3, <1>4 DEF LoginFails
<1>7. ok \/ (pc \in Closes /\ op = "connect") => errors' = errors
  BY <1>1, <1>3, <1>4
<1> QED BY <1>1, <1>2, <1>4, <1>5, <1>6, <1>7 DEF Closes

(* Closing what a failed attempt left only has to come to its end.         *)
LEMMA ReclosingKeeps ==
    ASSUME SessionInv, op = "connect", pc \in Closes, pc' \in Closes \cup {"destroy"},
           waiting' \in BOOLEAN, waiting' => pc' \in Closes, errors' = errors,
           UNCHANGED <<op, conn, sock, connected, current, before>>,
           UNCHANGED <<frameMax, published, offered>>,
           toClient' \in Seq(Answers), toBroker' \in Seq(Requests),
           tcp' \in {"none", "up", "gone"}, trouble' \in {"none", "refused", "mute", "dead"}
    PROVE  SessionInv'
<1>1. SessionTypes /\ Places /\ Remains
  BY DEF SessionInv
<1>2. ~connected /\ conn /\ ~errors
  BY <1>1 DEF Places, Remains, Closes
<1>3. SessionTypes' /\ Places' /\ Remains'
  BY <1>1, <1>2 DEF SessionTypes, Places, Remains, Contents, Closes, Openings, Logins
<1>4. LiveConnection' /\ ClosingConnection' /\ FrameMaxAgreed'
  BY <1>2 DEF LiveConnection, ClosingConnection, FrameMaxAgreed, Opening, Settled, Closes,
              Openings, Logins
<1> QED BY <1>3, <1>4 DEF SessionInv

LEMMA RpcSendKeeps ==
    ASSUME SessionInv, RpcSend
    PROVE  SessionInv'
<1> DEFINE f == Frame(Rpc[pc].channel, pc)
<1>1. SessionTypes /\ Places /\ Remains /\ LiveConnection /\ ClosingConnection /\ FrameMaxAgreed
  BY DEF SessionInv
<1>2. /\ pc \in Closes \cup {"open", "channel_open", "declare"} /\ ~waiting /\ pc \in DOMAIN Rpc
      /\ op \in {"connect", "disconnect"} /\ (op = "disconnect" => pc \in Closes)
  BY <1>1, Table DEF RpcSend, Places, Contents, Closes
<1>3. /\ UNCHANGED <<op, conn, sock, connected, queued, frameMax, current, sent, before>>
      /\ UNCHANGED <<session, channel, partial, received, offered, trouble>>
      /\ UNCHANGED <<published, connects, faults>>
  BY DEF RpcSend, brokerVars, bounds
<1>4. /\ f \in Requests /\ f.method = pc
      /\ pc = "open" => f = Frame(0, "open")
      /\ pc = "channel_open" => f = Frame(1, "channel_open")
      /\ pc = "declare" => f = Frame(1, "declare")
      /\ pc = "channel_close" => f = ChannelClose
      /\ pc = "connection_close" => f = ConnectionClose
  <2>1. /\ pc \in {"open", "connection_close"} => f = Frame(0, pc)
        /\ pc \in {"channel_open", "declare", "channel_close"} => f = Frame(1, pc)
    BY Table
  <2>2. Frame(0, pc) \in Requests /\ Frame(1, pc) \in Requests
    BY <1>2 DEF Frame, Requests, Closes
  <2>3. Frame(0, pc).method = pc /\ Frame(1, pc).method = pc
    BY DEF Frame
  <2> HIDE DEF f
  <2> QED BY <1>2, <2>1, <2>2, <2>3 DEF Closes, ChannelClose, ConnectionClose
<1> HIDE DEF f
<1>5. CASE SendFails /\ RpcReturns(pc, FALSE)
  <2>1. UNCHANGED <<tcp, swallowed, toBroker, toClient>>
    BY <1>5 DEF SendFails, networkVars
  <2>2. /\ waiting' = FALSE /\ errors' \in BOOLEAN
        /\ pc \in Closes =>
              /\ pc' = IF pc = "channel_close" THEN "connection_close" ELSE "destroy"
              /\ op = "connect" => errors' = errors
        /\ pc \notin Closes => LoginFails
    BY <1>1, <1>2, <1>5, ReturnFacts
  <2>3. CASE op = "connect" /\ pc \in Closes
    BY <1>1, <1>3, <2>1, <2>2, <2>3, ReclosingKeeps DEF SessionTypes, Closes
  <2>4. CASE pc \notin Closes
    <3>1. op = "connect" /\ pc \in Openings /\ Opening
      BY <1>2, <2>4 DEF Openings, Opening
    <3>2. sock = "open"
      BY <1>1, <3>1 DEF LiveConnection
    <3> QED BY <1>1, <1>3, <2>1, <2>2, <2>4, <3>1, <3>2, LoginFailsKeeps DEF SessionTypes
  <2>5. CASE op = "disconnect"
    <3>1. sock = "open" /\ tcp = "gone" /\ trouble # "refused"
          /\ \A j \in 1..Len(toBroker) : toBroker[j].method \in Contents \cup Closes
      BY <1>1, <1>5, <2>5 DEF ClosingConnection, SendFails
    <3>2. trouble # "none"
      BY <1>1, <1>2, <2>5, <3>1 DEF ClosingConnection, AlignedClose, Closes
    <3>3. connected
      BY <1>1, <2>5 DEF Places
    <3>4. pc \in Closes /\ pc' \in Closes \cup {"destroy"}
      BY <1>2, <2>2, <2>5 DEF Closes
    <3>5. SessionTypes' /\ Places' /\ Remains'
      BY <1>1, <1>3, <2>1, <2>2, <2>5, <3>3, <3>4
      DEF SessionTypes, Places, Remains, Contents, Closes, Openings, Logins
    <3>6. LiveConnection' /\ FrameMaxAgreed'
      BY <1>1, <1>3, <2>5, <3>3 DEF LiveConnection, FrameMaxAgreed, Opening, Settled
    <3>7. ClosingConnection'
      BY <1>3, <2>1, <3>1, <3>2 DEF ClosingConnection
    <3> QED BY <3>5, <3>6, <3>7 DEF SessionInv
  <2> QED BY <1>2, <2>3, <2>4, <2>5
<1>6. CASE SendWorks(<<f>>) /\ waiting' = TRUE /\ UNCHANGED <<pc, errors>>
  <2>1. /\ tcp' = tcp /\ toClient' = toClient /\ toBroker' \in Seq(Requests)
        /\ \/ tcp = "up" /\ toBroker' = Append(toBroker, f)
           \/ tcp = "gone" /\ toBroker' = toBroker
        /\ tcp = "up" /\ toBroker = <<>> => toBroker' = <<f>>
    BY <1>1, <1>4, <1>6, SendFacts
  <2>2. CASE op = "connect" /\ pc \in Closes
    <3>1. toClient' \in Seq(Answers) /\ tcp' \in {"none", "up", "gone"}
          /\ trouble' \in {"none", "refused", "mute", "dead"}
      BY <1>1, <1>3, <2>1 DEF SessionTypes
    <3> QED BY <1>3, <1>6, <2>1, <2>2, <3>1, ReclosingKeeps
  <2>3. SessionTypes' /\ Places' /\ Remains'
    BY <1>1, <1>2, <1>3, <1>6, <2>1
    DEF SessionTypes, Places, Remains, Contents, Closes, Openings, Logins
  <2>4. /\ Opening <=> Opening'
        /\ Settled <=> Settled'
    BY <1>1, <1>3, <1>6 DEF Opening, Settled, SessionTypes
  <2>5. FrameMaxAgreed'
    BY <1>1, <1>3, <1>6, <2>4 DEF FrameMaxAgreed
  <2>6. toBroker \in Seq(Requests)
    BY <1>1 DEF SessionTypes
  <2>7. /\ Len(Append(toBroker, f)) = Len(toBroker) + 1 /\ Len(toBroker) \in Nat
        /\ Append(toBroker, f)[Len(toBroker) + 1] = f
        /\ \A k \in 1..Len(toBroker) : Append(toBroker, f)[k] = toBroker[k]
        /\ \A k \in 1..(Len(toBroker) + 1) : k \in 1..Len(toBroker) \/ k = Len(toBroker) + 1
    BY <1>4, <2>6, OneMore
  <2>8. \A j \in 1..Len(toBroker') :
           \/ j \in 1..Len(toBroker) /\ toBroker'[j] = toBroker[j]
           \/ j = Len(toBroker') /\ toBroker'[j] = f /\ tcp = "up"
    <3>1. CASE tcp = "up"
      <4>1. toBroker' = Append(toBroker, f)
        BY <2>1, <3>1
      <4> DEFINE t == Append(toBroker, f)
      <4>2. \A j \in 1..Len(t) : \/ j \in 1..Len(toBroker) /\ t[j] = toBroker[j]
                                 \/ j = Len(t) /\ t[j] = f
        BY <2>7
      <4> HIDE DEF t
      <4> QED BY <3>1, <4>1, <4>2 DEF t
    <3>2. CASE tcp # "up"
      BY <2>1, <3>2
    <3> QED BY <3>1, <3>2
  <2>9. CASE pc \notin Closes
    <3>1. op = "connect" /\ Opening /\ ~Settled /\ ~Settled' /\ Opening' /\ ~waiting
          /\ pc \in {"open", "channel_open", "declare"}
      BY <1>2, <2>4, <2>9 DEF Opening, Settled, Openings
    <3>2. /\ sock = "open" /\ tcp \in {"up", "gone"} /\ OnlyCloses(toClient) /\ Incoming
          /\ \A j \in 1..Len(toBroker) : toBroker[j].method \notin Closes
          /\ trouble = "none" => tcp = "up" /\ AlignedRequest
          /\ tcp = "up" /\ trouble # "none" => Silent /\ trouble # "dead"
          /\ pc = "open" => channel = "none"
      BY <1>1, <3>1, NoCloses DEF LiveConnection, Incoming
    <3>3. \A j \in 1..Len(toBroker') : toBroker'[j].method \notin Closes
      BY <1>4, <2>8, <2>9, <3>2
    <3>4. trouble' = "none" => tcp' = "up" /\ AlignedLogin' /\ AlignedRequest'
      <4> SUFFICES ASSUME trouble = "none" PROVE AlignedLogin' /\ AlignedRequest'
        BY <1>3, <2>1, <3>2
      <4>1. pc = "declare" => toBroker = <<>>
        BY <1>1, <3>1 DEF LiveConnection, Incoming
      <4>2. CASE pc = "open"
        <5>1. \/ Broker("tuning", "none") /\ Network(<<TuneOk>>, <<>>)
              \/ Broker("tuned", "none") /\ Network(<<>>, <<>>)
          BY <3>1, <3>2, <4>2 DEF AlignedRequest
        <5>2. tcp = "up" /\ f = Frame(0, "open")
          BY <1>4, <3>2, <4>2
        <5>3. toBroker = <<TuneOk>> => toBroker' = <<TuneOk, f>>
          <6>1. toBroker' = Append(toBroker, f)
            BY <2>1, <5>2
          <6>2. toBroker \o <<f>> = Append(toBroker, f)
            BY <1>4, <2>6, OneMore
          <6>3. <<TuneOk>> \o <<f>> = <<TuneOk, f>>
            BY SmallTuples
          <6> QED BY <6>1, <6>2, <6>3
        <5> QED
          BY <1>3, <1>6, <2>1, <4>2, <5>1, <5>2, <5>3
          DEF AlignedLogin, AlignedRequest, Broker, Network, TuneOk, Contents
      <4>3. CASE pc # "open"
        BY <1>3, <1>4, <1>6, <2>1, <3>1, <3>2, <4>1, <4>3
        DEF AlignedLogin, AlignedRequest, Broker, Network, Contents
      <4> QED BY <4>2, <4>3
    <3>5. Incoming'
      BY <1>3, <1>6, <2>1, <3>1, <3>2 DEF Incoming, OnlyCloses, Contents
    <3>6. LiveConnection'
      BY <1>3, <1>6, <2>1, <3>1, <3>2, <3>3, <3>4, <3>5 DEF LiveConnection, Logins, Silent
    <3>7. ClosingConnection'
      BY <1>3, <3>1 DEF ClosingConnection
    <3> QED BY <2>3, <2>5, <3>6, <3>7 DEF SessionInv
  <2>10. CASE op = "disconnect"
    <3>1. ~Opening' /\ ~Settled'
      BY <1>3, <2>10 DEF Opening, Settled
    <3>2. LiveConnection'
      BY <3>1 DEF LiveConnection
    <3>3. pc \in Closes
      BY <1>2, <2>10
    <3>4. /\ sock = "open" /\ tcp \in {"up", "gone"} /\ trouble # "refused"
          /\ \A j \in 1..Len(toBroker) : toBroker[j].method \in Contents \cup Closes
          /\ tcp = "up" => session \in {"open", "closing", "closed"} /\ trouble # "dead"
          /\ trouble = "none" => ~errors /\ AlignedClose
      BY <1>1, <2>10 DEF ClosingConnection
    <3>5. \A j \in 1..Len(toBroker') : toBroker'[j].method \in Contents \cup Closes
      BY <1>4, <2>8, <3>3, <3>4
    <3>6. ASSUME trouble = "none" PROVE AlignedClose'
      <4>1. CASE pc = "channel_close"
        <5>1. tcp = "up" /\ Broker("open", "open") /\ toClient = <<>> /\ OnlyContents(toBroker)
              /\ f = ChannelClose
          BY <1>2, <1>4, <3>4, <3>6, <4>1 DEF AlignedClose
        <5>2. /\ toBroker' # <<>> /\ Len(toBroker') = Len(toBroker) + 1 /\ Len(toBroker) \in Nat
              /\ toBroker'[Len(toBroker')] = ChannelClose
              /\ \A j \in 1..Len(toBroker) : toBroker'[j] = toBroker[j]
          BY <1>1, <1>4, <2>1, <5>1, OneMore DEF SessionTypes
        <5>3. (Len(toBroker) + 1) - 1 = Len(toBroker)
          BY <5>2
        <5> QED
          BY <1>3, <1>6, <2>1, <4>1, <5>1, <5>2, <5>3 DEF AlignedClose, Broker, OnlyContents
      <4>2. CASE pc = "connection_close"
        BY <1>2, <1>3, <1>4, <1>6, <2>1, <3>4, <3>6, <4>2 DEF AlignedClose, Broker, Network
      <4> QED BY <3>3, <4>1, <4>2 DEF Closes
    <3>7. ClosingConnection'
      BY <1>3, <1>6, <2>1, <3>4, <3>5, <3>6 DEF ClosingConnection
    <3> QED BY <2>3, <2>5, <3>2, <3>7 DEF SessionInv
  <2> QED BY <1>2, <2>2, <2>9, <2>10
<1> QED BY <1>5, <1>6 DEF RpcSend, f

LEMMA RpcReceiveKeeps ==
    ASSUME SessionInv, RpcReceive
    PROVE  SessionInv'
<1>1. SessionTypes /\ Places /\ Remains /\ LiveConnection /\ ClosingConnection /\ FrameMaxAgreed
  BY DEF SessionInv
<1>2. /\ pc \in Closes \cup {"open", "channel_open", "declare"} /\ waiting /\ pc \in DOMAIN Rpc
      /\ op \in {"connect", "disconnect"} /\ (op = "disconnect" => pc \in Closes)
  BY <1>1, Table DEF RpcReceive, Places, Contents, Closes
<1>3. /\ UNCHANGED <<op, conn, sock, connected, frameMax, current, sent, before>>
      /\ UNCHANGED <<session, channel, partial, received, offered, trouble>>
      /\ UNCHANGED <<published, connects, faults>>
  BY DEF RpcReceive, brokerVars, bounds
<1>4. /\ UNCHANGED <<tcp, toBroker>>
      /\ toClient' \in Seq(Answers)
  <2>1. toClient \in Seq(Answers) /\ (toClient # <<>> => Tail(toClient) \in Seq(Answers))
    BY <1>1, OneLess DEF SessionTypes
  <2> QED BY <2>1 DEF RpcReceive, Receives, networkVars
<1>5. \/ RecvFails /\ RpcReturns(pc, FALSE) /\ UNCHANGED <<queued, toClient>>
      \/ /\ toClient # <<>> /\ toClient' = Tail(toClient)
         /\ LET f == Head(toClient)
            IN  IF EndsRpc(f, pc)
                THEN RpcReturns(pc, f.method = Rpc[pc].reply) /\ UNCHANGED queued
                ELSE UNCHANGED <<pc, waiting, errors>>
  BY DEF RpcReceive, Receives, networkVars
<1>6. CASE op = "connect" /\ pc \in Closes
  <2>1. /\ pc' \in Closes \cup {"destroy"} /\ waiting' \in BOOLEAN /\ (waiting' => pc' \in Closes)
        /\ errors' = errors
    <3>1. ASSUME NEW ok \in BOOLEAN, RpcReturns(pc, ok)
          PROVE  /\ pc' \in Closes \cup {"destroy"} /\ waiting' = FALSE /\ errors' = errors
      BY <1>1, <1>2, <1>6, <3>1, ReturnFacts DEF Closes
    <3>2. (Head(toClient).method = Rpc[pc].reply) \in BOOLEAN
      OBVIOUS
    <3>3. CASE UNCHANGED <<pc, waiting, errors>>
      BY <1>1, <1>6, <3>3 DEF SessionTypes
    <3>4. \/ RpcReturns(pc, FALSE)
          \/ RpcReturns(pc, Head(toClient).method = Rpc[pc].reply)
          \/ UNCHANGED <<pc, waiting, errors>>
      BY <1>5
    <3> QED BY <3>1, <3>2, <3>3, <3>4
  <2>2. toBroker' \in Seq(Requests) /\ tcp' \in {"none", "up", "gone"}
        /\ trouble' \in {"none", "refused", "mute", "dead"}
    BY <1>1, <1>3, <1>4 DEF SessionTypes
  <2> QED BY <1>3, <1>4, <1>6, <2>1, <2>2, ReclosingKeeps
<1>7. CASE pc \notin Closes
  <2>1. op = "connect" /\ pc \in {"open", "channel_open", "declare"} /\ pc \in Openings
        /\ Opening /\ ~Settled /\ ~errors /\ ~connected
    BY <1>1, <1>2, <1>7 DEF Opening, Settled, Openings, Places
  <2>2. /\ sock = "open" /\ tcp \in {"up", "gone"}
        /\ trouble = "none" => tcp = "up" /\ AlignedRequest
        /\ tcp = "up" /\ trouble # "none" => Silent /\ trouble # "dead"
        /\ pc = "open" => \A j \in 1..Len(toClient) : toClient[j] # ChannelClose
        /\ \/ OnlyCloses(toClient)
           \/ /\ toClient # <<>> /\ IsReply(Head(toClient), pc)
              /\ OnlyCloses(Tail(toClient))
              /\ toBroker = <<>> /\ trouble # "refused"
    BY <1>1, <1>2, <2>1 DEF LiveConnection, Incoming
  <2>3. ASSUME RpcReturns(pc, FALSE), UNCHANGED queued PROVE SessionInv'
    <3>1. LoginFails /\ waiting' = FALSE
      BY <1>1, <1>2, <1>7, <2>3, ReturnFacts
    <3>2. toBroker' \in Seq(Requests) /\ tcp' \in {"none", "up", "gone"}
          /\ trouble' \in {"none", "refused", "mute", "dead"}
      BY <1>1, <1>3, <1>4 DEF SessionTypes
    <3> QED BY <1>3, <1>4, <2>1, <2>2, <2>3, <3>1, <3>2, LoginFailsKeeps
  <2>4. ASSUME IsReply(Head(toClient), pc), RpcReturns(pc, TRUE), toClient # <<>>,
               toClient' = Tail(toClient), UNCHANGED queued
        PROVE  SessionInv'
    <3>1. /\ waiting' = FALSE /\ errors' = errors
          /\ \/ pc = "open" /\ pc' = "channel_open"
             \/ pc = "channel_open" /\ pc' \in {"declare", "finish"}
             \/ pc = "declare" /\ pc' = "finish"
      BY <1>1, <1>2, <1>7, <2>4, ReturnFacts
    <3>2. toBroker = <<>> /\ trouble # "refused" /\ OnlyCloses(toClient')
      <4>1. toClient \in Seq(Answers)
        BY <1>1 DEF SessionTypes
      <4>2. Head(toClient) \notin {ChannelClose, ConnectionClose}
        BY <2>1, <2>4, Table DEF IsReply, ChannelClose, ConnectionClose, Frame
      <4>3. ~OnlyCloses(toClient)
        BY <2>4, <4>1, <4>2, FewerCloses
      <4> QED BY <2>2, <2>4, <4>3
    <3>3. SessionTypes' /\ Places' /\ Remains'
      BY <1>1, <1>3, <1>4, <2>1, <2>4, <3>1
      DEF SessionTypes, Places, Remains, Contents, Closes, Openings, Logins
    <3>4. Opening' /\ ~Settled'
      BY <1>3, <2>1, <3>1 DEF Opening, Settled, Openings
    <3>5. trouble' = "none" => tcp' = "up" /\ AlignedLogin' /\ AlignedRequest'
      <4> SUFFICES ASSUME trouble = "none" PROVE AlignedLogin' /\ AlignedRequest'
        BY <1>3, <1>4, <2>2
      <4>1. /\ toClient = <<Head(toClient)>>
            /\ session = "open" /\ channel = IF pc = "open" THEN "none" ELSE "open"
        <5>1. Head(<<Frame(0, "open_ok")>>) = Frame(0, "open_ok")
              /\ Head(<<Frame(1, "channel_open_ok")>>) = Frame(1, "channel_open_ok")
              /\ Head(<<Frame(1, "declare_ok")>>) = Frame(1, "declare_ok")
          BY SmallTuples
        <5>2. AlignedRequest
          BY <2>2
        <5> QED BY <1>2, <2>1, <2>4, <5>1, <5>2 DEF AlignedRequest, Broker, Network
      <4>2. toClient' = <<>>
        BY <2>4, <4>1, SmallTuples
      <4> QED
        BY <1>3, <1>4, <2>1, <3>1, <3>2, <4>1, <4>2
        DEF AlignedLogin, AlignedRequest, Broker, Network, Contents
    <3>6. Incoming'
      BY <1>3, <1>4, <2>1, <3>1, <3>2 DEF Incoming, OnlyCloses, Contents
    <3>7. LiveConnection'
      BY <1>3, <1>4, <2>2, <3>1, <3>2, <3>4, <3>5, <3>6, EmptySeq
      DEF LiveConnection, Logins, Silent
    <3>8. ClosingConnection' /\ FrameMaxAgreed'
      BY <1>1, <1>3, <2>1, <3>1 DEF ClosingConnection, FrameMaxAgreed, Opening
    <3> QED BY <3>3, <3>7, <3>8 DEF SessionInv
  <2>5. CASE RecvFails /\ RpcReturns(pc, FALSE) /\ UNCHANGED <<queued, toClient>>
    BY <2>3, <2>5
  <2>6. CASE /\ toClient # <<>> /\ toClient' = Tail(toClient)
             /\ LET f == Head(toClient)
                IN  IF EndsRpc(f, pc)
                    THEN RpcReturns(pc, f.method = Rpc[pc].reply) /\ UNCHANGED queued
                    ELSE UNCHANGED <<pc, waiting, errors>>
    <3> DEFINE f == Head(toClient)
    <3>1. CASE IsReply(f, pc)
      <4>1. EndsRpc(f, pc) /\ f.method = Rpc[pc].reply
        BY <3>1 DEF EndsRpc, IsReply
      <4>2. RpcReturns(pc, TRUE) /\ UNCHANGED queued
        <5>1. (f.method = Rpc[pc].reply) = TRUE
          BY <4>1
        <5> QED BY <2>6, <4>1, <5>1
      <4> QED BY <2>4, <2>6, <3>1, <4>2
    <3>2. CASE ~IsReply(f, pc)
      <4>1. f \in {ChannelClose, ConnectionClose} /\ (pc = "open" => f # ChannelClose)
        <5>1. toClient \in Seq(Answers)
          BY <1>1 DEF SessionTypes
        <5>2. f = toClient[1] /\ 1 \in 1..Len(toClient)
          BY <2>6, <5>1, OneLess
        <5> QED BY <2>2, <2>6, <3>2, <5>1, <5>2, FewerCloses
      <4>2. EndsRpc(f, pc) /\ f.method # Rpc[pc].reply
        BY <2>1, <4>1, Table DEF EndsRpc, ChannelClose, ConnectionClose, Frame
      <4>3. RpcReturns(pc, FALSE) /\ UNCHANGED queued
        <5>1. (f.method = Rpc[pc].reply) = FALSE
          BY <4>2
        <5> QED BY <2>6, <4>2, <5>1
      <4> QED BY <2>3, <4>3
    <3> QED BY <3>1, <3>2
  <2> QED BY <1>5, <2>5, <2>6
<1>8. CASE op = "disconnect"
  <2>1. connected /\ pc \in Closes /\ ~Opening' /\ ~Settled'
    BY <1>1, <1>2, <1>3, <1>8 DEF Places, Opening, Settled
  <2>2. /\ sock = "open" /\ tcp \in {"up", "gone"} /\ trouble # "refused"
        /\ \A j \in 1..Len(toBroker) : toBroker[j].method \in Contents \cup Closes
        /\ tcp = "up" => session \in {"open", "closing", "closed"} /\ trouble # "dead"
        /\ trouble = "none" => ~errors /\ AlignedClose
    BY <1>1, <1>8 DEF ClosingConnection
  <2>3. LiveConnection' /\ FrameMaxAgreed'
    BY <1>1, <1>3, <2>1 DEF LiveConnection, FrameMaxAgreed
  <2>4. ASSUME NEW ok \in BOOLEAN, RpcReturns(pc, ok)
        PROVE  /\ pc' = IF pc = "channel_close" THEN "connection_close" ELSE "destroy"
               /\ waiting' = FALSE /\ errors' \in BOOLEAN /\ (ok => errors' = errors)
    BY <1>1, <1>2, <2>1, <2>4, ReturnFacts
  <2>5. /\ pc' \in Closes \cup {"destroy"} /\ waiting' \in BOOLEAN /\ (waiting' => pc' \in Closes)
        /\ errors' \in BOOLEAN
    <3>1. (Head(toClient).method = Rpc[pc].reply) \in BOOLEAN
      OBVIOUS
    <3>2. \/ RpcReturns(pc, FALSE)
          \/ RpcReturns(pc, Head(toClient).method = Rpc[pc].reply)
          \/ UNCHANGED <<pc, waiting, errors>>
      BY <1>5
    <3>3. CASE UNCHANGED <<pc, waiting, errors>>
      BY <1>1, <2>1, <3>3 DEF SessionTypes
    <3>4. CASE \E ok \in BOOLEAN : RpcReturns(pc, ok)
      BY <2>1, <2>4, <3>4 DEF Closes
    <3> QED BY <3>1, <3>2, <3>3, <3>4
  <2>6. SessionTypes' /\ Places' /\ Remains'
    BY <1>1, <1>3, <1>4, <1>8, <2>1, <2>5
    DEF SessionTypes, Places, Remains, Contents, Closes, Openings, Logins
  <2>7. ASSUME trouble = "none" PROVE ~errors' /\ AlignedClose'
    <3>1. /\ \/ pc = "channel_close" /\ toClient = <<Frame(1, "channel_close_ok")>>
                /\ tcp = "up" /\ Broker("open", "none") /\ toBroker = <<>>
             \/ pc = "connection_close" /\ toClient = <<Frame(0, "connection_close_ok")>>
                /\ session \in {"closed", "none"}
          /\ toClient # <<>>
      <4>1. /\ \/ pc = "channel_close" /\ tcp = "up" /\ toClient = <<>>
               \/ pc = "channel_close" /\ toClient = <<Frame(1, "channel_close_ok")>>
                  /\ tcp = "up" /\ Broker("open", "none") /\ toBroker = <<>>
               \/ pc = "connection_close" /\ tcp = "up" /\ toClient = <<>>
               \/ pc = "connection_close" /\ toClient = <<Frame(0, "connection_close_ok")>>
                  /\ session \in {"closed", "none"}
        BY <1>2, <2>1, <2>2, <2>7 DEF AlignedClose, Network, Closes
      <4>2. ~(tcp = "up" /\ toClient = <<>>)
        BY <1>5, <2>2 DEF RecvFails
      <4>3. <<Frame(1, "channel_close_ok")>> # <<>> /\ <<Frame(0, "connection_close_ok")>> # <<>>
        BY SmallTuples
      <4> QED BY <4>1, <4>2, <4>3
    <3> DEFINE f == Head(toClient)
    <3>2. toClient = <<f>> /\ IsReply(f, pc)
      <4>1. Head(<<Frame(1, "channel_close_ok")>>) = Frame(1, "channel_close_ok")
            /\ Head(<<Frame(0, "connection_close_ok")>>) = Frame(0, "connection_close_ok")
        BY SmallTuples
      <4> QED BY <3>1, <4>1, Table DEF IsReply, Frame
    <3>3. RpcReturns(pc, TRUE) /\ toClient' = <<>>
      <4>1. EndsRpc(f, pc) /\ (f.method = Rpc[pc].reply) = TRUE
        BY <3>2 DEF EndsRpc, IsReply
      <4>2. ~RecvFails
        BY <2>2, <3>1 DEF RecvFails
      <4>3. Tail(toClient) = <<>>
        BY <3>2, SmallTuples
      <4> QED BY <1>5, <4>1, <4>2, <4>3
    <3>4. /\ pc' = IF pc = "channel_close" THEN "connection_close" ELSE "destroy"
          /\ waiting' = FALSE /\ errors' = errors
      BY <2>4, <3>3
    <3> QED
      BY <1>3, <1>4, <2>2, <2>7, <3>1, <3>3, <3>4 DEF AlignedClose, Broker, Network
  <2>8. ClosingConnection'
    BY <1>3, <1>4, <2>2, <2>7 DEF ClosingConnection
  <2> QED BY <2>3, <2>6, <2>8 DEF SessionInv
<1> QED BY <1>2, <1>6, <1>7, <1>8

-----------------------------------------------------------------------------
(* The broker and the network.                                             *)

(* What they do leaves the agent where it is.                              *)
LEMMA AgentStays ==
    ASSUME SessionInv, tcp = "up", UNCHANGED clientVars, UNCHANGED published,
           toClient' \in Seq(Answers), toBroker' \in Seq(Requests), tcp' \in {"up", "gone"},
           trouble' \in {"none", "refused", "mute", "dead"}, offered' \in Nat
    PROVE  /\ SessionTypes' /\ Places' /\ Remains'
           /\ (Opening <=> Opening') /\ (Settled <=> Settled')
           /\ ~Opening /\ ~Settled /\ op # "disconnect" => SessionInv'
<1>1. SessionTypes /\ Places /\ Remains
  BY DEF SessionInv
<1>2. UNCHANGED <<op, pc, waiting, conn, sock, connected, errors, queued, frameMax, current>>
      /\ before' = before
  BY DEF clientVars
<1>3. SessionTypes'
  BY <1>1, <1>2 DEF SessionTypes
<1>4. Places'
  BY <1>1, <1>2 DEF Places
<1>5. Remains'
  BY <1>1, <1>2 DEF Remains, NothingLeft
<1>6. (Opening <=> Opening') /\ (Settled <=> Settled')
  BY <1>2 DEF Opening, Settled
<1>7. ASSUME ~Opening, ~Settled, op # "disconnect"
      PROVE  SessionInv'
  <2>1. ~connected'
    BY <1>1, <1>2, <1>7 DEF Places, Settled
  <2>2. LiveConnection' /\ ClosingConnection' /\ FrameMaxAgreed'
    BY <1>2, <1>6, <1>7, <2>1 DEF LiveConnection, ClosingConnection, FrameMaxAgreed
  <2> QED BY <1>3, <1>4, <1>5, <2>2 DEF SessionInv
<1> QED BY <1>3, <1>4, <1>5, <1>6, <1>7

LEMMA AnswerTypes ==
    /\ ChannelClose \in Answers /\ ConnectionClose \in Answers
    /\ \A ch \in {0, 1}, m \in Replies : Frame(ch, m) \in Answers
BY DEF ChannelClose, ConnectionClose, Frame, Answers, Closes

(* A step of the broker that reads.                                        *)
LEMMA ReadFacts ==
    ASSUME SessionTypes, BrokerReads
    PROVE  /\ tcp = "up" /\ tcp' = "up" /\ toBroker # <<>> /\ toBroker' = Tail(toBroker)
           /\ UNCHANGED clientVars /\ UNCHANGED published
           /\ toClient' \in Seq(Answers) /\ toBroker' \in Seq(Requests)
           /\ trouble' \in {"none", "refused", "mute", "dead"} /\ offered' \in Nat
           /\ trouble = "none" => trouble' \in {"none", "refused"}
           /\ Head(toBroker) \in Requests
<1>1. /\ tcp = "up" /\ tcp' = "up" /\ toBroker # <<>> /\ toBroker' = Tail(toBroker)
      /\ UNCHANGED clientVars
  BY DEF BrokerReads
<1>2. Head(toBroker) \in Requests /\ toBroker' \in Seq(Requests)
  BY <1>1, OneLess DEF SessionTypes
<1>3. published' = published
  BY DEF BrokerReads, Handshake, OnChannel, Fault, bounds
<1>4. trouble' \in {trouble, "refused"}
  BY DEF BrokerReads, Handshake, OnChannel, ClosesConnection, ClosesChannel, brokerVars
<1>5. offered' \in Nat
  BY SessionAssumption
  DEF BrokerReads, Handshake, OnChannel, ClosesConnection, ClosesChannel, brokerVars, SessionTypes
<1>6. toClient' \in Seq(Answers)
  <2>1. \A x \in Answers : Append(toClient, x) \in Seq(Answers)
    BY OneMore DEF SessionTypes
  <2>2. toClient' = toClient \/ \E x \in Answers : toClient' = Append(toClient, x)
    BY AnswerTypes DEF BrokerReads, Handshake, OnChannel, ClosesConnection, ClosesChannel, Reply,
                       Replies
  <2> QED BY <2>1, <2>2 DEF SessionTypes
<1>7. trouble' \in {"none", "refused", "mute", "dead"}
  BY <1>4 DEF SessionTypes
<1> QED BY <1>1, <1>2, <1>3, <1>4, <1>5, <1>6, <1>7

(* After it closed, the broker only answers a close.                       *)
LEMMA SilentIgnores ==
    ASSUME BrokerReads, Silent, Head(toBroker).method \notin Closes
    PROVE  UNCHANGED <<toClient, session, channel, offered, trouble>>
<1>1. session \notin {"accepted", "started", "tuning", "tuned"}
      /\ (session = "open" => channel = "closing")
  BY DEF Silent
<1>2. DOMAIN Expected = {"accepted", "started", "tuning", "tuned"}
  BY DEF Expected
<1>3. Head(toBroker).method \notin {"channel_close", "connection_close"}
  BY DEF Closes
<1>4. Head(toBroker) # ConnectionClose
  BY <1>3 DEF ConnectionClose, Frame
<1>5. ~Handshake(Head(toBroker))
  BY <1>1 DEF Handshake
<1> QED BY <1>1, <1>2, <1>3, <1>4, <1>5 DEF BrokerReads, OnChannel, brokerVars

(* A message on an open channel is read in silence.                        *)
LEMMA ContentIsRead ==
    ASSUME BrokerReads, session = "open", channel = "open",
           Head(toBroker).method \in Contents
    PROVE  UNCHANGED <<toClient, session, channel, offered, trouble>>
<1>1. DOMAIN Expected = {"accepted", "started", "tuning", "tuned"}
  BY DEF Expected
<1>2. Head(toBroker) # ConnectionClose
  BY DEF ConnectionClose, Frame, Contents
<1>3. ~Handshake(Head(toBroker))
  BY DEF Handshake
<1> QED BY <1>1, <1>2, <1>3 DEF BrokerReads, OnChannel, Contents

(* What the broker does with each request of a connection being opened.    *)
LEMMA LoginIsRead ==
    ASSUME BrokerReads, channel = "none", session \in DOMAIN Expected,
           Head(toBroker).method = Expected[session]
    PROVE  /\ channel' = "none" /\ (session # "started" => offered' = offered)
           /\ session = "accepted" =>
                 \/ toClient' = Append(toClient, Frame(0, "start")) /\ session' = "started"
                    /\ trouble' = trouble
                 \/ toClient' = Append(toClient, Frame(0, "protocol")) /\ session' = "closed"
                    /\ trouble' = "refused"
           /\ session = "started" =>
                 \/ toClient' = Append(toClient, Frame(0, "tune")) /\ session' = "tuning"
                    /\ trouble' = trouble
                 \/ toClient' = Append(toClient, ConnectionClose) /\ session' = "closing"
                    /\ trouble' = "refused"
           /\ session = "tuning" =>
                 toClient' = toClient /\ session' = "tuned" /\ trouble' = trouble
           /\ session = "tuned" =>
                 \/ toClient' = Append(toClient, Frame(0, "open_ok")) /\ session' = "open"
                    /\ trouble' = trouble
                 \/ toClient' = Append(toClient, ConnectionClose) /\ session' = "closing"
                    /\ trouble' = "refused"
<1>1. /\ DOMAIN Expected = {"accepted", "started", "tuning", "tuned"}
      /\ Expected["accepted"] = "header" /\ Expected["started"] = "start_ok"
      /\ Expected["tuning"] = "tune_ok" /\ Expected["tuned"] = "open"
  BY DEF Expected
<1>2. session \notin {"open", "closing", "closed"}
  BY <1>1
<1>3. Handshake(Head(toBroker))
  BY <1>2 DEF BrokerReads
<1> QED BY <1>1, <1>2, <1>3 DEF Handshake, ClosesConnection, Reply

LEMMA OpeningIsRead ==
    ASSUME BrokerReads, session = "open", Head(toBroker).channel = 1,
           \/ channel = "none" /\ Head(toBroker).method = "channel_open"
           \/ channel = "open" /\ Head(toBroker).method = "declare"
    PROVE  /\ offered' = offered
           /\ \/ /\ toClient' = Append(toClient, ConnectionClose) /\ session' = "closing"
                 /\ trouble' = "refused" /\ channel' = channel
              \/ /\ toClient' = Append(toClient, ChannelClose) /\ session' = "open"
                 /\ channel = "open" /\ channel' = "closing" /\ trouble' = "refused"
              \/ /\ session' = "open" /\ channel' = "open" /\ trouble' = trouble
                 /\ channel = "none" => toClient' = Append(toClient, Frame(1, "channel_open_ok"))
                 /\ channel = "open" => toClient' = Append(toClient, Frame(1, "declare_ok"))
<1>1. /\ DOMAIN Expected = {"accepted", "started", "tuning", "tuned"}
      /\ Head(toBroker) # ConnectionClose
  BY DEF Expected, ConnectionClose, Frame
<1>2. Handshake(Head(toBroker)) \/ OnChannel(Head(toBroker))
  BY <1>1 DEF BrokerReads
<1>3. CASE Handshake(Head(toBroker))
  BY <1>3 DEF Handshake, ClosesConnection, Reply
<1>4. CASE OnChannel(Head(toBroker))
  BY <1>4 DEF OnChannel, ClosesChannel, Reply, brokerVars
<1> QED BY <1>2, <1>3, <1>4

(* Without trouble the broker reads the request the agent waits for.       *)
LEMMA BrokerReadsOpening ==
    ASSUME SessionInv, BrokerReads, Opening, trouble = "none"
    PROVE  SessionInv'
<1>1. SessionTypes /\ Places /\ LiveConnection /\ FrameMaxAgreed
  BY DEF SessionInv
<1>2. /\ tcp = "up" /\ tcp' = "up" /\ toBroker # <<>> /\ toBroker' = Tail(toBroker)
      /\ UNCHANGED <<op, pc, waiting, sock, connected, errors, frameMax>>
      /\ toClient' \in Seq(Answers) /\ toBroker' \in Seq(Requests)
      /\ trouble' \in {"none", "refused"} /\ offered' \in Nat
  BY <1>1, ReadFacts DEF clientVars
<1>3. SessionTypes' /\ Places' /\ Remains' /\ Opening' /\ ~Settled' /\ ~Settled
      /\ op = "connect" /\ ~connected
  <2>1. SessionTypes' /\ Places' /\ Remains' /\ Opening' /\ (Settled <=> Settled')
    BY <1>1, <1>2, AgentStays, ReadFacts
  <2> QED BY <1>1, <2>1 DEF Places, Settled, Opening
<1>4. /\ sock = "open" /\ (\A j \in 1..Len(toBroker) : toBroker[j].method \notin Closes)
      /\ AlignedLogin /\ AlignedRequest /\ Incoming
  BY <1>1 DEF LiveConnection
<1>5. \A x : Append(<<>>, x) = <<x>> /\ <<x>> # <<>> /\ Head(<<x>>) = x /\ Tail(<<x>>) = <<>>
  BY SmallTuples
<1>6. \A x, y : <<x, y>> # <<>> /\ Head(<<x, y>>) = x /\ Tail(<<x, y>>) = <<y>>
  BY SmallTuples
<1>7. /\ DOMAIN Expected = {"accepted", "started", "tuning", "tuned"}
      /\ Expected["accepted"] = "header" /\ Expected["started"] = "start_ok"
      /\ Expected["tuning"] = "tune_ok" /\ Expected["tuned"] = "open"
  BY DEF Expected
<1>8. \A j \in 1..Len(toBroker') : toBroker'[j].method \notin Closes
  BY <1>1, <1>2, <1>4, OneLess DEF SessionTypes
<1>9. /\ OnlyCloses(<<>>) /\ OnlyCloses(<<ChannelClose>>) /\ OnlyCloses(<<ConnectionClose>>)
  BY NoCloses, SmallTuples DEF OnlyCloses
<1>10. CASE pc = "start"
  <2>1. Broker("accepted", "none") /\ Network(<<Frame(0, "header")>>, <<>>)
    BY <1>2, <1>4, <1>5, <1>10 DEF AlignedLogin, Network
  <2>2. /\ session = "accepted" /\ channel = "none" /\ Head(toBroker) = Frame(0, "header")
        /\ toBroker' = <<>> /\ toClient = <<>>
    BY <1>2, <1>5, <2>1 DEF Broker, Network
  <2>3. Head(toBroker).method = Expected[session] /\ session \in DOMAIN Expected
    BY <1>7, <2>2 DEF Frame
  <2>4. /\ channel' = "none"
        /\ \/ toClient' = <<Frame(0, "start")>> /\ session' = "started" /\ trouble' = "none"
           \/ toClient' = <<Frame(0, "protocol")>> /\ session' = "closed"
              /\ trouble' = "refused"
    BY <1>5, <2>2, <2>3, LoginIsRead
  <2>5. ~waiting
    BY <1>1, <1>10 DEF Places, Closes
  <2>6. LiveConnection'
    BY <1>2, <1>3, <1>4, <1>8, <1>10, <2>2, <2>4, <2>5
    DEF LiveConnection, AlignedLogin, AlignedRequest, Incoming, Broker, Network, Silent,
        Contents, Logins
  <2> QED BY <1>2, <1>3, <1>10, <2>6 DEF SessionInv, ClosingConnection, FrameMaxAgreed
<1>11. CASE pc = "tune"
  <2>1. Broker("started", "none") /\ Network(<<Frame(0, "start_ok")>>, <<>>)
    BY <1>2, <1>4, <1>5, <1>11 DEF AlignedLogin, Network
  <2>2. /\ session = "started" /\ channel = "none" /\ Head(toBroker) = Frame(0, "start_ok")
        /\ toBroker' = <<>> /\ toClient = <<>>
    BY <1>2, <1>5, <2>1 DEF Broker, Network
  <2>3. Head(toBroker).method = Expected[session] /\ session \in DOMAIN Expected
    BY <1>7, <2>2 DEF Frame
  <2>4. /\ channel' = "none"
        /\ \/ toClient' = <<Frame(0, "tune")>> /\ session' = "tuning" /\ trouble' = "none"
           \/ toClient' = <<ConnectionClose>> /\ session' = "closing" /\ trouble' = "refused"
    BY <1>5, <2>2, <2>3, LoginIsRead
  <2>5. ~waiting
    BY <1>1, <1>11 DEF Places, Closes
  <2>6. LiveConnection'
    BY <1>2, <1>3, <1>4, <1>8, <1>11, <2>2, <2>4, <2>5
    DEF LiveConnection, AlignedLogin, AlignedRequest, Incoming, Broker, Network, Silent,
        Contents, Logins
  <2> QED BY <1>2, <1>3, <1>11, <2>6 DEF SessionInv, ClosingConnection, FrameMaxAgreed
<1>12. CASE pc = "open" /\ session = "tuning"
  <2>1. /\ channel = "none" /\ toClient = <<>> /\ Head(toBroker) = TuneOk
        /\ ~waiting => toBroker' = <<>>
        /\ waiting => toBroker' = <<Frame(0, "open")>>
    BY <1>2, <1>3, <1>4, <1>5, <1>6, <1>12 DEF AlignedRequest, Broker, Network, SessionTypes
  <2>2. Head(toBroker).method = Expected[session] /\ session \in DOMAIN Expected
    BY <1>7, <1>12, <2>1 DEF TuneOk
  <2>3. /\ channel' = "none" /\ toClient' = <<>> /\ session' = "tuned" /\ trouble' = "none"
        /\ offered' = offered
    BY <1>12, <2>1, <2>2, LoginIsRead
  <2>4. LiveConnection'
    BY <1>2, <1>3, <1>4, <1>8, <1>9, <1>12, <2>1, <2>3, EmptySeq
    DEF LiveConnection, AlignedLogin, AlignedRequest, Incoming, Broker, Network, Silent,
        Contents, Logins
  <2> QED BY <1>1, <1>2, <1>3, <1>12, <2>3, <2>4
          DEF SessionInv, ClosingConnection, FrameMaxAgreed, Opening
<1>13. CASE pc = "open" /\ session # "tuning"
  <2>1. /\ channel = "none" /\ toClient = <<>> /\ Head(toBroker) = Frame(0, "open")
        /\ toBroker' = <<>> /\ waiting /\ session = "tuned"
    BY <1>1, <1>2, <1>4, <1>5, <1>13 DEF AlignedRequest, Broker, Network, SessionTypes
  <2>2. Head(toBroker).method = Expected[session] /\ session \in DOMAIN Expected
    BY <1>7, <1>13, <2>1 DEF Frame
  <2>3. /\ channel' = "none" /\ offered' = offered
        /\ \/ toClient' = <<Frame(0, "open_ok")>> /\ session' = "open" /\ trouble' = "none"
           \/ toClient' = <<ConnectionClose>> /\ session' = "closing" /\ trouble' = "refused"
    BY <1>5, <2>1, <2>2, LoginIsRead
  <2>4. Incoming'
    <3>1. CASE toClient' = <<ConnectionClose>>
      <4>1. Len(toClient') = 1 /\ toClient'[1] = ConnectionClose /\ ConnectionClose # ChannelClose
        BY <3>1, SmallTuples DEF ConnectionClose, ChannelClose, Frame
      <4> QED BY <1>2, <1>9, <1>13, <2>1, <3>1, <4>1 DEF Incoming, Contents
    <3>2. CASE toClient' = <<Frame(0, "open_ok")>> /\ trouble' = "none"
      <4>1. Len(toClient') = 1 /\ toClient'[1] = Frame(0, "open_ok")
            /\ Frame(0, "open_ok") # ChannelClose /\ IsReply(Frame(0, "open_ok"), "open")
        BY <3>2, SmallTuples, Table DEF ChannelClose, Frame, IsReply
      <4> QED BY <1>2, <1>5, <1>9, <1>13, <2>1, <3>2, <4>1 DEF Incoming, Contents
    <3> QED BY <2>3, <3>1, <3>2
  <2>5. LiveConnection'
    BY <1>2, <1>3, <1>4, <1>8, <1>13, <2>1, <2>3, <2>4
    DEF LiveConnection, AlignedLogin, AlignedRequest, Broker, Network, Silent, Contents, Logins
  <2> QED BY <1>1, <1>2, <1>3, <1>13, <2>3, <2>5
          DEF SessionInv, ClosingConnection, FrameMaxAgreed, Opening
<1>14. CASE pc \in {"channel_open", "declare"}
  <2>1. /\ waiting /\ session = "open" /\ toClient = <<>> /\ toBroker' = <<>>
        /\ \/ pc = "channel_open" /\ channel = "none" /\ Head(toBroker) = Frame(1, "channel_open")
           \/ pc = "declare" /\ channel = "open" /\ Head(toBroker) = Frame(1, "declare")
    <3>1. waiting
      BY <1>1, <1>2, <1>4, <1>14 DEF AlignedRequest, Network, Incoming, SessionTypes
    <3> QED BY <1>2, <1>4, <1>5, <1>14, <3>1 DEF AlignedRequest, Broker, Network
  <2>2. /\ Head(toBroker).channel = 1
        /\ \/ channel = "none" /\ Head(toBroker).method = "channel_open"
           \/ channel = "open" /\ Head(toBroker).method = "declare"
    BY <2>1 DEF Frame
  <2>3. /\ offered' = offered
        /\ \/ /\ toClient' = <<ConnectionClose>> /\ session' = "closing"
              /\ trouble' = "refused"
           \/ /\ toClient' = <<ChannelClose>> /\ session' = "open"
              /\ channel' = "closing" /\ trouble' = "refused"
           \/ /\ session' = "open" /\ channel' = "open" /\ trouble' = "none"
              /\ \/ pc = "channel_open" /\ toClient' = <<Frame(1, "channel_open_ok")>>
                 \/ pc = "declare" /\ toClient' = <<Frame(1, "declare_ok")>>
    BY <1>5, <2>1, <2>2, OpeningIsRead
  <2>4. Incoming'
    <3>1. CASE toClient' \in {<<ConnectionClose>>, <<ChannelClose>>}
      BY <1>2, <1>9, <1>14, <2>1, <3>1 DEF Incoming, Contents
    <3>2. CASE trouble' = "none" /\ \/ pc = "channel_open" /\ toClient' = <<Frame(1, "channel_open_ok")>>
                                    \/ pc = "declare" /\ toClient' = <<Frame(1, "declare_ok")>>
      <4>1. IsReply(Frame(1, "channel_open_ok"), "channel_open")
            /\ IsReply(Frame(1, "declare_ok"), "declare")
        BY Table DEF Frame, IsReply
      <4> QED BY <1>2, <1>5, <1>9, <1>14, <2>1, <3>2, <4>1 DEF Incoming, Contents
    <3> QED BY <2>3, <3>1, <3>2
  <2>5. LiveConnection'
    BY <1>2, <1>3, <1>4, <1>8, <1>14, <2>1, <2>3, <2>4
    DEF LiveConnection, AlignedLogin, AlignedRequest, Broker, Network, Silent, Contents, Logins
  <2> QED BY <1>1, <1>2, <1>3, <1>14, <2>3, <2>5
          DEF SessionInv, ClosingConnection, FrameMaxAgreed, Opening
<1>15. pc \in {"start", "tune", "open", "channel_open", "declare"}
  <2>1. pc \in Openings \cup {"finish"} /\ (pc = "finish" => toBroker = <<>>)
    BY <1>4 DEF Opening, Incoming
  <2> QED BY <1>2, <1>4, <2>1 DEF AlignedLogin, Network, Openings, Logins
<1> QED BY <1>10, <1>11, <1>12, <1>13, <1>14, <1>15

(* A request that the broker ignores, or a message, changes nothing else.  *)
LEMMA QuietReadKeeps ==
    ASSUME SessionInv, BrokerReads, Opening \/ Settled, Opening => trouble # "none",
           UNCHANGED <<toClient, session, channel, offered, trouble>>
    PROVE  SessionInv'
<1>1. SessionTypes /\ Places /\ LiveConnection /\ FrameMaxAgreed
  BY DEF SessionInv
<1>2. /\ tcp = "up" /\ tcp' = "up" /\ toBroker # <<>> /\ toBroker' = Tail(toBroker)
      /\ UNCHANGED <<op, pc, waiting, sock, connected, errors, frameMax>>
  BY <1>1, ReadFacts DEF clientVars
<1>3. SessionTypes' /\ Places' /\ Remains' /\ (Opening <=> Opening') /\ (Settled <=> Settled')
  BY <1>1, <1>2, AgentStays, ReadFacts
<1>4. /\ sock = "open" /\ (\A j \in 1..Len(toBroker) : toBroker[j].method \notin Closes)
      /\ Settled => OnlyContents(toBroker)
      /\ trouble = "none" => tcp = "up" /\ AlignedLogin /\ AlignedRequest
      /\ tcp = "up" /\ trouble # "none" => Silent /\ trouble # "dead"
      /\ pc \in Logins \cup {"open"} => channel = "none"
      /\ pc \in Logins => trouble # "mute"
      /\ Incoming
  BY <1>1 DEF LiveConnection
<1>5. /\ \A j \in 1..Len(toBroker') : toBroker'[j].method \notin Closes
      /\ Settled => OnlyContents(toBroker')
  BY <1>1, <1>2, <1>4, OneLess DEF SessionTypes, OnlyContents
<1>6. trouble = "none" => AlignedLogin' /\ AlignedRequest'
  <2> SUFFICES ASSUME trouble = "none" PROVE AlignedLogin' /\ AlignedRequest'
    OBVIOUS
  <2>1. op \in {"none", "publish"} /\ pc \in {"idle"} \cup Contents
    BY <1>1 DEF Settled, Places
  <2> QED BY <1>2, <1>4, <2>1 DEF AlignedLogin, AlignedRequest, Broker, Contents
<1>7. Incoming'
  BY <1>2, <1>3, <1>4 DEF Incoming, OnlyCloses
<1>8. LiveConnection'
  BY <1>2, <1>3, <1>4, <1>5, <1>6, <1>7 DEF LiveConnection, Silent
<1>9. ClosingConnection' /\ FrameMaxAgreed'
  BY <1>1, <1>2, <1>3 DEF ClosingConnection, FrameMaxAgreed, Opening, Settled
<1> QED BY <1>3, <1>8, <1>9 DEF SessionInv

(* The broker reads what n2a_amqp_disconnect sent, or a message before it. *)
LEMMA BrokerReadsClosing ==
    ASSUME SessionInv, BrokerReads, op = "disconnect"
    PROVE  SessionInv'
<1>1. SessionTypes /\ Places /\ ClosingConnection /\ FrameMaxAgreed
  BY DEF SessionInv
<1>2. /\ tcp = "up" /\ tcp' = "up" /\ toBroker # <<>> /\ toBroker' = Tail(toBroker)
      /\ UNCHANGED <<op, pc, waiting, sock, connected, errors, frameMax>>
  BY <1>1, ReadFacts DEF clientVars
<1>3. SessionTypes' /\ Places' /\ Remains' /\ ~Opening' /\ ~Settled'
  BY <1>1, <1>2, AgentStays, ReadFacts DEF Opening, Settled
<1>4. /\ sock = "open" /\ trouble \in {"none", "mute"}
      /\ \A j \in 1..Len(toBroker) : toBroker[j].method \in Contents \cup Closes
      /\ session \in {"open", "closing", "closed"}
      /\ trouble = "none" => ~errors /\ AlignedClose
  BY <1>1, <1>2 DEF ClosingConnection, SessionTypes
<1>5. /\ toBroker \in Seq(Requests) /\ toBroker[1] = Head(toBroker) /\ 1 \in 1..Len(toBroker)
      /\ Len(toBroker') = Len(toBroker) - 1 /\ Len(toBroker) \in Nat
      /\ \A k \in 1..Len(toBroker') : toBroker'[k] = toBroker[k + 1] /\ k + 1 \in 1..Len(toBroker)
  BY <1>1, <1>2, OneLess DEF SessionTypes
<1>6. \A j \in 1..Len(toBroker') : toBroker'[j].method \in Contents \cup Closes
  BY <1>4, <1>5
<1>7. DOMAIN Expected = {"accepted", "started", "tuning", "tuned"}
  BY DEF Expected
<1>8. Head(toBroker).method \in Contents \cup Closes
  BY <1>4, <1>5
<1>9. ~Handshake(Head(toBroker))
  BY <1>4, <1>8 DEF Handshake, Contents, Closes
<1>10. offered' = offered /\ trouble' = trouble /\ session' \in {"open", "closing", "closed"}
  BY <1>4, <1>7, <1>8, <1>9 DEF BrokerReads, OnChannel, ClosesChannel, Contents, Closes, brokerVars
<1>11. ASSUME trouble = "none" PROVE AlignedClose'
  <2>1. AlignedClose
    BY <1>4, <1>11
  <2>2. CASE Broker("open", "open") /\ toClient = <<>> /\ Head(toBroker).method \in Contents
    <3>1. UNCHANGED <<toClient, session, channel>>
      BY <2>2, ContentIsRead DEF Broker
    <3>2. CASE pc = "channel_close" /\ ~waiting
      BY <1>2, <1>5, <2>1, <2>2, <3>1, <3>2 DEF AlignedClose, OnlyContents, Broker
    <3>3. CASE pc = "channel_close" /\ waiting
      <4>1. /\ toBroker[Len(toBroker)] = ChannelClose
            /\ \A j \in 1..(Len(toBroker) - 1) :
                  toBroker[j].method \in Contents /\ toBroker[j].channel = 1
        BY <2>1, <2>2, <3>3 DEF AlignedClose, Broker
      <4>2. ChannelClose.method \notin Contents
        BY DEF ChannelClose, Frame, Contents
      <4>3. Len(toBroker) # 1
        BY <1>5, <2>2, <4>1, <4>2
      <4>4. Len(toBroker) - 1 \in 1..Len(toBroker')
        BY <1>5, <4>3
      <4>5. toBroker' # <<>> /\ toBroker'[Len(toBroker')] = ChannelClose
        BY <1>5, <4>1, <4>4, EmptySeq
      <4>6. \A j \in 1..(Len(toBroker') - 1) :
               toBroker'[j].method \in Contents /\ toBroker'[j].channel = 1
        BY <1>5, <4>1
      <4> QED BY <1>2, <2>2, <3>1, <3>3, <4>5, <4>6 DEF AlignedClose, Broker
    <3>4. CASE pc # "channel_close"
      BY <1>3, <1>2, <2>1, <2>2, <3>4 DEF AlignedClose, Network, Broker, Places, Closes
    <3> QED BY <3>2, <3>3, <3>4
  <2>3. CASE Broker("open", "open") /\ toClient = <<>> /\ Head(toBroker) = ChannelClose
             /\ pc = "channel_close" /\ waiting /\ Len(toBroker) = 1
    <3>1. toBroker' = <<>>
      BY <1>3, <1>5, <2>3, EmptySeq DEF SessionTypes
    <3>2. OnChannel(ChannelClose)
      BY <1>7, <1>9, <2>3 DEF BrokerReads, Broker, ChannelClose, ConnectionClose, Frame
    <3>3. toClient' = <<Frame(1, "channel_close_ok")>> /\ Broker("open", "none")'
      BY <2>3, <3>2, SmallTuples DEF OnChannel, Broker, ChannelClose, Frame, Reply
    <3> QED BY <1>2, <2>3, <3>1, <3>3 DEF AlignedClose, Network
  <2>4. CASE toBroker = <<ConnectionClose>> /\ toClient = <<>> /\ Broker("open", "none")
             /\ pc = "connection_close" /\ waiting
    <3>1. toBroker' = <<>> /\ Head(toBroker) = ConnectionClose
      BY <1>2, <2>4, SmallTuples
    <3>2. Reply(Frame(0, "connection_close_ok")) /\ session' = "closed"
      BY <1>7, <1>9, <2>4, <3>1 DEF BrokerReads, Broker, ConnectionClose, Frame
    <3>3. toClient' = <<Frame(0, "connection_close_ok")>>
      BY <2>4, <3>2, SmallTuples DEF Reply
    <3> QED BY <1>2, <2>4, <3>1, <3>2, <3>3 DEF AlignedClose, Network
  <2>5. CASE pc = "destroy"
    <3>1. session = "closed"
      BY <1>4, <2>1, <2>5 DEF AlignedClose
    <3>2. session' = "closed"
      BY <1>7, <1>9, <3>1 DEF BrokerReads, brokerVars
    <3> QED BY <1>2, <2>5, <3>2 DEF AlignedClose
  <2>6. CASE pc = "channel_close" /\ ~waiting
    <3>1. Broker("open", "open") /\ toClient = <<>> /\ OnlyContents(toBroker)
      BY <2>1, <2>6 DEF AlignedClose
    <3> QED BY <1>5, <2>2, <3>1 DEF OnlyContents
  <2>7. CASE pc = "channel_close" /\ waiting
    <3>1. /\ Broker("open", "open") /\ toClient = <<>>
          /\ toBroker[Len(toBroker)] = ChannelClose
          /\ \A j \in 1..(Len(toBroker) - 1) :
                toBroker[j].method \in Contents /\ toBroker[j].channel = 1
      BY <1>2, <2>1, <2>7 DEF AlignedClose, Network
    <3>2. CASE Len(toBroker) = 1
      BY <1>5, <2>3, <2>7, <3>1, <3>2
    <3>3. CASE Len(toBroker) # 1
      <4>1. 1 \in 1..(Len(toBroker) - 1)
        BY <1>5, <3>3
      <4> QED BY <1>5, <2>2, <3>1, <4>1
    <3> QED BY <3>2, <3>3
  <2>8. CASE pc = "connection_close"
    <3>1. waiting /\ toBroker = <<ConnectionClose>> /\ toClient = <<>> /\ Broker("open", "none")
      BY <1>1, <1>2, <2>1, <2>8 DEF AlignedClose, Network, SessionTypes
    <3> QED BY <2>4, <2>8, <3>1
  <2>9. pc \in {"channel_close", "connection_close", "destroy"}
    BY <1>1 DEF Places, Closes
  <2> QED BY <2>5, <2>6, <2>7, <2>8, <2>9
<1>12. ClosingConnection'
  BY <1>2, <1>4, <1>6, <1>10, <1>11 DEF ClosingConnection
<1>13. LiveConnection' /\ FrameMaxAgreed'
  BY <1>1, <1>2, <1>3, <1>10 DEF LiveConnection, FrameMaxAgreed, Places
<1> QED BY <1>3, <1>12, <1>13 DEF SessionInv

LEMMA BrokerReadsKeeps ==
    ASSUME SessionInv, BrokerReads
    PROVE  SessionInv'
<1>1. SessionTypes /\ Places /\ LiveConnection
  BY DEF SessionInv
<1>2. tcp = "up" /\ toBroker # <<>>
  BY <1>1, ReadFacts
<1>3. Head(toBroker) = toBroker[1] /\ 1 \in 1..Len(toBroker)
  BY <1>1, <1>2, OneLess DEF SessionTypes
<1>4. CASE Opening /\ trouble = "none"
  BY <1>4, BrokerReadsOpening
<1>5. CASE (Opening \/ Settled) /\ trouble # "none"
  <2>1. Silent /\ Head(toBroker).method \notin Closes
    BY <1>1, <1>2, <1>3, <1>5 DEF LiveConnection
  <2> QED BY <1>5, <2>1, SilentIgnores, QuietReadKeeps
<1>6. CASE Settled /\ trouble = "none"
  <2>1. session = "open" /\ channel = "open"
    <3>1. pc \in {"idle"} \cup Contents /\ AlignedRequest
      BY <1>1, <1>6 DEF Settled, Places, LiveConnection
    <3> QED BY <3>1 DEF AlignedRequest, Broker
  <2>2. Head(toBroker).method \in Contents
    BY <1>1, <1>3, <1>6 DEF LiveConnection, OnlyContents
  <2>3. ~Opening
    BY <1>6 DEF Settled, Opening
  <2> QED BY <1>6, <2>1, <2>2, <2>3, ContentIsRead, QuietReadKeeps
<1>7. CASE op = "disconnect"
  BY <1>7, BrokerReadsClosing
<1>8. CASE ~Opening /\ ~Settled /\ op # "disconnect"
  BY <1>1, <1>8, ReadFacts, AgentStays
<1> QED BY <1>4, <1>5, <1>6, <1>7, <1>8

LEMMA BrokerClosesKeeps ==
    ASSUME SessionInv, BrokerCloses
    PROVE  SessionInv'
<1>1. SessionTypes /\ Places /\ LiveConnection /\ ClosingConnection /\ FrameMaxAgreed
  BY DEF SessionInv
<1>2. PICK x \in {ChannelClose, ConnectionClose} :
         /\ tcp = "up" /\ tcp' = "up" /\ session = "open" /\ toBroker' = toBroker
         /\ UNCHANGED clientVars /\ UNCHANGED published
         /\ toClient' = Append(toClient, x) /\ trouble' = "mute" /\ offered' = offered
         /\ \/ x = ConnectionClose /\ session' = "closing" /\ channel' = channel
            \/ x = ChannelClose /\ session' = "open" /\ channel = "open" /\ channel' = "closing"
  BY DEF BrokerCloses, ClosesConnection, ClosesChannel, Reply, Fault
<1>3. UNCHANGED <<op, pc, waiting, sock, connected, errors, frameMax>>
  BY <1>2 DEF clientVars
<1>4. toClient \in Seq(Answers) /\ x \in Answers
  BY <1>1, <1>2, AnswerTypes DEF SessionTypes
<1>5. toClient' \in Seq(Answers) /\ toBroker' \in Seq(Requests) /\ offered' \in Nat
  BY <1>1, <1>2, <1>4, OneMore DEF SessionTypes
<1>6. /\ SessionTypes' /\ Places' /\ Remains'
      /\ (Opening <=> Opening') /\ (Settled <=> Settled')
      /\ ~Opening /\ ~Settled /\ op # "disconnect" => SessionInv'
  BY <1>2, <1>5, AgentStays
<1>7. CASE Opening \/ Settled
  <2>1. /\ sock = "open" /\ (\A j \in 1..Len(toBroker) : toBroker[j].method \notin Closes)
        /\ Settled => OnlyContents(toBroker)
        /\ trouble = "none" => AlignedLogin /\ AlignedRequest
        /\ trouble # "none" => Silent
        /\ pc \in Logins \cup {"open"} => channel = "none"
        /\ Incoming
    BY <1>1, <1>2, <1>7 DEF LiveConnection
  <2>2. pc \notin Logins /\ (pc = "open" => waiting)
    BY <1>1, <1>2, <2>1 DEF AlignedLogin, AlignedRequest, Silent, Broker, Logins, SessionTypes
  <2>3. OnlyCloses(toClient) => OnlyCloses(toClient')
    BY <1>2, <1>4, MoreCloses
  <2>4. ASSUME toClient # <<>>, OnlyCloses(Tail(toClient))
        PROVE  /\ toClient' # <<>> /\ Head(toClient') = Head(toClient)
               /\ OnlyCloses(Tail(toClient'))
    <3>1. Tail(toClient) \in Seq(Answers)
      BY <1>4, <2>4, OneLess
    <3>2. /\ Append(toClient, x) # <<>> /\ Head(Append(toClient, x)) = Head(toClient)
          /\ Tail(Append(toClient, x)) = Append(Tail(toClient), x)
      BY <1>4, <2>4, OneMore
    <3> QED BY <1>2, <2>4, <3>1, <3>2, MoreCloses
  <2>5. pc = "open" => \A j \in 1..Len(toClient') : toClient'[j] # ChannelClose
    <3> SUFFICES ASSUME pc = "open", NEW j \in 1..Len(toClient')
                 PROVE  toClient'[j] # ChannelClose
      OBVIOUS
    <3>1. x = ConnectionClose /\ \A k \in 1..Len(toClient) : toClient[k] # ChannelClose
      BY <1>2, <2>1 DEF Incoming
    <3>2. ConnectionClose # ChannelClose
      BY DEF ConnectionClose, ChannelClose, Frame
    <3>3. \/ j \in 1..Len(toClient) /\ toClient'[j] = toClient[j]
          \/ toClient'[j] = x
      <4>1. /\ Len(Append(toClient, x)) = Len(toClient) + 1
            /\ Append(toClient, x)[Len(toClient) + 1] = x
            /\ \A k \in 1..Len(toClient) : Append(toClient, x)[k] = toClient[k]
            /\ \A k \in 1..(Len(toClient) + 1) : k \in 1..Len(toClient) \/ k = Len(toClient) + 1
        BY <1>4, OneMore
      <4> QED BY <1>2, <4>1
    <3> QED BY <3>1, <3>2, <3>3
  <2>6. Incoming'
    <3>1. waiting => \/ OnlyCloses(toClient')
                     \/ /\ toClient' # <<>> /\ IsReply(Head(toClient'), pc)
                        /\ OnlyCloses(Tail(toClient')) /\ toBroker' = <<>>
      BY <1>2, <2>1, <2>3, <2>4 DEF Incoming
    <3>2. pc \in {"finish", "idle"} \cup Contents \/ (pc \in {"channel_open", "declare"} /\ ~waiting)
          => OnlyCloses(toClient') /\ (Opening => toBroker' = <<>>)
      BY <1>2, <2>1, <2>3 DEF Incoming
    <3> QED BY <1>2, <1>3, <1>6, <2>2, <2>5, <3>1, <3>2 DEF Incoming, Logins
  <2>7. LiveConnection'
    BY <1>2, <1>3, <1>6, <2>1, <2>2, <2>6 DEF LiveConnection, Silent
  <2>8. ClosingConnection' /\ FrameMaxAgreed'
    BY <1>1, <1>2, <1>3, <1>6, <1>7 DEF ClosingConnection, FrameMaxAgreed, Opening, Settled
  <2> QED BY <1>6, <2>7, <2>8 DEF SessionInv
<1>8. CASE op = "disconnect"
  <2>1. ClosingConnection'
    BY <1>1, <1>2, <1>3, <1>8 DEF ClosingConnection
  <2>2. LiveConnection' /\ FrameMaxAgreed'
    BY <1>1, <1>2, <1>3, <1>8
    DEF LiveConnection, FrameMaxAgreed, Opening, Settled
  <2> QED BY <1>6, <2>1, <2>2 DEF SessionInv
<1> QED BY <1>6, <1>7, <1>8

(* The end of the connection, seen by the agent: the peer is gone, and     *)
(* what it had sent may be lost or not.                                    *)
LEMMA PeerGoneKeeps ==
    ASSUME SessionInv, tcp = "up", tcp' = "gone", toBroker' = <<>>,
           toClient' \in {toClient, <<>>}, toClient' = toClient \/ trouble' # "none",
           session' = "none", channel' = "none",
           UNCHANGED clientVars, UNCHANGED <<published, offered>>,
           trouble' \in {"none", "refused", "dead"}, (trouble' = "refused") <=> (trouble = "refused"),
           trouble' = "none" => trouble = "none" /\ session \in {"closing", "closed"}
    PROVE  SessionInv'
<1>1. SessionTypes /\ Places /\ LiveConnection /\ ClosingConnection /\ FrameMaxAgreed
  BY DEF SessionInv
<1>2. UNCHANGED <<op, pc, waiting, sock, connected, errors, frameMax>>
  BY DEF clientVars
<1>3. toClient' \in Seq(Answers) /\ toBroker' \in Seq(Requests) /\ offered' \in Nat
  <2>1. <<>> \in Seq(Answers) /\ <<>> \in Seq(Requests)
    BY EmptySeq
  <2> QED BY <1>1, <2>1 DEF SessionTypes
<1>4. /\ SessionTypes' /\ Places' /\ Remains'
      /\ (Opening <=> Opening') /\ (Settled <=> Settled')
      /\ ~Opening /\ ~Settled /\ op # "disconnect" => SessionInv'
  BY <1>3, AgentStays
<1>5. /\ \A j \in 1..Len(toBroker') : toBroker'[j].method \notin Closes
      /\ \A j \in 1..Len(toBroker') : toBroker'[j].method \in Contents \cup Closes
      /\ OnlyContents(toBroker')
  BY EmptySeq DEF OnlyContents
<1>6. CASE Opening \/ Settled
  <2>1. /\ sock = "open" /\ trouble = "none" => AlignedLogin /\ AlignedRequest
        /\ pc \in Logins => trouble # "mute"
        /\ Incoming
    BY <1>1, <1>6 DEF LiveConnection
  <2>2. sock = "open"
    BY <1>1, <1>6 DEF LiveConnection
  <2>3. trouble' # "none"
    <3> SUFFICES ASSUME trouble = "none" PROVE session \notin {"closing", "closed"}
      OBVIOUS
    <3>1. AlignedLogin /\ AlignedRequest
      BY <1>1, <1>6 DEF LiveConnection
    <3>2. pc \in Openings \cup {"finish", "idle"} \cup Contents
      BY <1>1, <1>6 DEF Opening, Settled, Places
    <3> QED BY <1>1, <3>1, <3>2
            DEF AlignedLogin, AlignedRequest, Broker, Openings, Logins, Contents, SessionTypes
  <2>4. Incoming'
    <3>1. CASE toClient' = toClient
      BY <1>2, <1>4, <2>1, <2>3, <3>1 DEF Incoming
    <3>2. CASE toClient' = <<>>
      <4>1. OnlyCloses(toClient') /\ \A j \in 1..Len(toClient') : toClient'[j] # ChannelClose
        BY <3>2, EmptySeq, NoCloses
      <4> QED BY <1>2, <1>4, <2>1, <2>3, <3>2, <4>1 DEF Incoming
    <3> QED BY <3>1, <3>2
  <2>5. LiveConnection'
    BY <1>2, <1>4, <1>5, <2>1, <2>2, <2>3, <2>4 DEF LiveConnection
  <2>6. ClosingConnection' /\ FrameMaxAgreed'
    BY <1>1, <1>2, <1>4, <1>6 DEF ClosingConnection, FrameMaxAgreed, Opening, Settled
  <2> QED BY <1>4, <2>5, <2>6 DEF SessionInv
<1>7. CASE op = "disconnect"
  <2>1. sock = "open" /\ trouble' # "refused" /\ (trouble = "none" => ~errors /\ AlignedClose)
    BY <1>1, <1>7 DEF ClosingConnection
  <2>2. trouble' = "none" => AlignedClose'
    <3> SUFFICES ASSUME trouble' = "none" PROVE AlignedClose'
      OBVIOUS
    <3>1. AlignedClose /\ session \in {"closing", "closed"} /\ toClient' = toClient
      BY <2>1
    <3> QED BY <1>1, <1>2, <3>1 DEF AlignedClose, Broker, Network, SessionTypes
  <2>3. ClosingConnection'
    BY <1>2, <1>5, <2>1, <2>2 DEF ClosingConnection
  <2>4. LiveConnection' /\ FrameMaxAgreed'
    BY <1>1, <1>2, <1>4, <1>7 DEF LiveConnection, FrameMaxAgreed, Opening, Settled
  <2> QED BY <1>4, <2>3, <2>4 DEF SessionInv
<1> QED BY <1>4, <1>6, <1>7

LEMMA BrokerHangsUpKeeps ==
    ASSUME SessionInv, BrokerHangsUp
    PROVE  SessionInv'
<1>1. SessionTypes /\ trouble \in {"none", "refused", "mute", "dead"}
  BY DEF SessionInv, SessionTypes
<1>2. UNCHANGED published
  BY DEF BrokerHangsUp, bounds
<1> QED BY <1>1, <1>2, PeerGoneKeeps DEF BrokerHangsUp

LEMMA ConnectionDropsKeeps ==
    ASSUME SessionInv, ConnectionDrops
    PROVE  SessionInv'
<1>1. trouble' \in {"refused", "dead"} /\ (trouble' = "refused" <=> trouble = "refused")
  BY DEF ConnectionDrops
<1>2. UNCHANGED published
  BY DEF ConnectionDrops, Fault
<1> QED BY <1>1, <1>2, PeerGoneKeeps DEF ConnectionDrops

-----------------------------------------------------------------------------
(* Every step.                                                             *)

LEMMA InitSession == Init => SessionInv
<1> SUFFICES ASSUME Init PROVE SessionInv
  OBVIOUS
<1>1. <<>> \in Seq(Answers) /\ <<>> \in Seq(Requests)
  BY EmptySeq
<1>2. SessionTypes
  BY <1>1 DEF Init, SessionTypes
<1>3. Places /\ Remains
  BY DEF Init, Places, Remains, NothingLeft, Closes
<1>4. LiveConnection /\ ClosingConnection /\ FrameMaxAgreed
  BY DEF Init, LiveConnection, ClosingConnection, FrameMaxAgreed, Opening, Settled
<1> QED BY <1>2, <1>3, <1>4 DEF SessionInv

LEMMA NextSession == SessionInv /\ [Next]_sessionVars => SessionInv'
<1> SUFFICES ASSUME SessionInv, [Next]_sessionVars PROVE SessionInv'
  OBVIOUS
<1>1. CASE Connect
  BY <1>1, ConnectKeeps
<1>2. CASE \E n \in BodySizes : Publish(n)
  BY <1>2, PublishKeeps
<1>3. CASE Disconnect
  BY <1>3, DisconnectKeeps
<1>4. CASE RpcSend
  BY <1>4, RpcSendKeeps
<1>5. CASE RpcReceive
  BY <1>5, RpcReceiveKeeps
<1>6. CASE Destroy
  BY <1>6, DestroyKeeps
<1>7. CASE OpenSocket
  BY <1>7, OpenSocketKeeps
<1>8. CASE LoginSend
  BY <1>8, LoginSendKeeps
<1>9. CASE LoginReceive
  BY <1>9, LoginReceiveKeeps
<1>10. CASE ConnectReturns
  BY <1>10, ConnectReturnsKeeps
<1>11. CASE PublishSend
  BY <1>11, PublishSendKeeps
<1>12. CASE BrokerReads
  BY <1>12, BrokerReadsKeeps
<1>13. CASE BrokerCloses
  BY <1>13, BrokerClosesKeeps
<1>14. CASE BrokerHangsUp
  BY <1>14, BrokerHangsUpKeeps
<1>15. CASE ConnectionDrops
  BY <1>15, ConnectionDropsKeeps
<1>16. CASE UNCHANGED sessionVars
  BY <1>16
  DEF sessionVars, clientVars, networkVars, brokerVars, bounds, SessionInv, SessionTypes,
      Places, Remains, NothingLeft, LiveConnection, Opening, Settled, OnlyContents, OnlyCloses,
      AlignedLogin, AlignedRequest, Broker, Network, TuneOk, Silent, Incoming,
      ClosingConnection, AlignedClose, FrameMaxAgreed
<1> QED
  BY <1>1, <1>2, <1>3, <1>4, <1>5, <1>6, <1>7, <1>8, <1>9, <1>10, <1>11, <1>12, <1>13, <1>14,
     <1>15, <1>16 DEF Next, ClientStep

(***************************************************************************)
(* What is under way between the agent and its broker agrees with what     *)
(* both are doing: after any calls, faults and closes the agent waits for  *)
(* the reply of its own request or for none.                               *)
(***************************************************************************)
THEOREM SessionInvariance == Spec => []SessionInv
<1>1. Init => SessionInv
  BY InitSession
<1>2. SessionInv /\ [Next]_sessionVars => SessionInv'
  BY NextSession
<1> QED BY <1>1, <1>2, PTL DEF Spec

(***************************************************************************)
(* ConnectedMeansReady for every broker, any number of messages and faults:*)
(* when n2a_amqp_connect said so, the channel is open unless the broker    *)
(* closed by itself or is gone.                                            *)
(***************************************************************************)
THEOREM ReadyWhenConnected == Spec => []ConnectedMeansReady
<1>1. SessionInv => ConnectedMeansReady
  <2> SUFFICES ASSUME SessionInv, connected, op # "disconnect"
               PROVE  /\ sock = "open" /\ trouble # "refused"
                      /\ trouble = "none" => session = "open" /\ channel = "open" /\ tcp = "up"
    BY DEF ConnectedMeansReady
  <2>1. SessionTypes /\ Places /\ LiveConnection
    BY DEF SessionInv
  <2>2. Settled /\ pc \in {"idle"} \cup Contents
    BY <2>1 DEF Settled, Places
  <2> QED BY <2>1, <2>2 DEF LiveConnection, Incoming, AlignedRequest, Broker
<1> QED BY <1>1, SessionInvariance, PTL

(***************************************************************************)
(* InStep: on a connection without trouble no frame is left over that a    *)
(* later request could take for its reply.                                 *)
(***************************************************************************)
THEOREM StaysInStep == Spec => []InStep
<1>1. SessionInv => InStep
  <2> SUFFICES ASSUME SessionInv, connected, trouble = "none", op \in {"none", "publish"}
               PROVE  toClient = <<>> /\ queued = <<>>
    BY DEF InStep
  <2>1. Places /\ Remains /\ LiveConnection
    BY DEF SessionInv
  <2>2. Settled /\ pc \in {"idle"} \cup Contents
    BY <2>1 DEF Settled, Places
  <2>3. toClient = <<>>
    BY <2>1, <2>2 DEF LiveConnection, AlignedRequest
  <2> QED BY <2>1, <2>3 DEF Remains
<1> QED BY <1>1, SessionInvariance, PTL

-----------------------------------------------------------------------------
(* The bodies under way fit in what this broker proposed.  It proposes     *)
(* when nothing is published yet, and nothing of an earlier connection is  *)
(* under way then.                                                         *)

Fits(f, limit) == f.octets + Envelope <= FrameMaxWanted
                  /\ (limit # 0 => f.octets + Envelope <= limit)

BodiesFit == \A j \in 1..Len(toBroker) : toBroker[j].method = "body" =>
                /\ session \notin {"accepted", "started"}
                /\ Fits(toBroker[j], offered)

LEMMA OtherFramesFit ==
    ASSUME BodiesFit, offered' = offered,
           session' \in {"accepted", "started"} => session' = session,
           \A j \in 1..Len(toBroker') : toBroker'[j].method = "body" =>
              \E k \in 1..Len(toBroker) : toBroker'[j] = toBroker[k]
    PROVE  BodiesFit'
<1> SUFFICES ASSUME NEW j \in 1..Len(toBroker'), toBroker'[j].method = "body"
             PROVE  session' \notin {"accepted", "started"} /\ Fits(toBroker'[j], offered)
  BY DEF BodiesFit
<1>1. PICK k \in 1..Len(toBroker) : toBroker'[j] = toBroker[k]
  OBVIOUS
<1>2. session \notin {"accepted", "started"} /\ Fits(toBroker[k], offered)
  BY <1>1 DEF BodiesFit
<1> QED BY <1>1, <1>2

(* Steps that leave what is under way alone, or lose all of it.            *)
LEMMA NothingNewFits ==
    ASSUME BodiesFit, toBroker' = <<>> \/
              /\ toBroker' = toBroker /\ offered' = offered
              /\ session' = session \/ session' \notin {"accepted", "started"}
    PROVE  BodiesFit'
<1>1. CASE toBroker' = <<>>
  <2>1. 1..Len(toBroker') = {}
    BY <1>1, EmptySeq
  <2> QED BY <2>1 DEF BodiesFit
<1>2. CASE /\ toBroker' = toBroker /\ offered' = offered
           /\ session' = session \/ session' \notin {"accepted", "started"}
  BY <1>2, OtherFramesFit
<1> QED BY <1>1, <1>2

(* A request or a part of the login is sent.                               *)
LEMMA SendFits ==
    ASSUME SessionInv, BodiesFit, RpcSend \/ LoginSend
    PROVE  BodiesFit'
<1> DEFINE f == IF pc = "tune_ok" THEN TuneOk
                ELSE IF pc \in DOMAIN Rpc THEN Frame(Rpc[pc].channel, pc) ELSE Frame(0, pc)
<1>1. SessionTypes /\ offered' = offered /\ session' = session
  BY DEF SessionInv, RpcSend, LoginSend, brokerVars
<1>2. SendWorks(<<f>>) \/ toBroker' = toBroker
  BY Table DEF RpcSend, LoginSend, SendFails, networkVars, TuneOk
<1>3. f \in Requests /\ f.method # "body"
  <2>1. CASE pc = "tune_ok"
    BY <1>1, <2>1 DEF TuneOk, Requests, SessionTypes
  <2>2. CASE pc \in DOMAIN Rpc
    BY <2>2, Table DEF Frame, Requests, Closes
  <2>3. CASE pc \in {"header", "start_ok"}
    BY <2>3, Table DEF Frame, Requests
  <2> QED BY <2>1, <2>2, <2>3 DEF RpcSend, LoginSend
<1>4. CASE toBroker' = toBroker
  BY <1>1, <1>4, NothingNewFits
<1>5. CASE toBroker' = Append(toBroker, f)
  <2>1. toBroker \in Seq(Requests)
    BY <1>1 DEF SessionTypes
  <2> HIDE DEF f
  <2>2. \A j \in 1..Len(toBroker') :
           \/ j \in 1..Len(toBroker) /\ toBroker'[j] = toBroker[j]
           \/ toBroker'[j] = f
    BY <1>3, <1>5, <2>1
  <2> QED BY <1>1, <1>3, <2>2, OtherFramesFit
<1> QED BY <1>1, <1>2, <1>3, <1>4, <1>5, SendFacts

(* A frame of a message is sent.                                           *)
LEMMA PublishSendFits ==
    ASSUME SessionInv, BodiesFit, PublishSend
    PROVE  BodiesFit'
<1>1. /\ SessionTypes /\ Places /\ LiveConnection /\ FrameMaxAgreed
      /\ op = "publish" /\ connected /\ pc \in Contents /\ Settled
      /\ current \in Messages /\ frameMax \in Nat
  BY DEF SessionInv, SessionTypes, PublishSend, Places, Contents, Closes, Openings, Logins,
         Settled
<1>2. offered' = offered /\ session' = session
  BY DEF PublishSend, brokerVars
<1>3. SendWorks(<<NextPart>>) \/ toBroker' = toBroker
  BY DEF PublishSend, SendFails, networkVars, NextPart, Octets
<1>4. NextPart \in Requests /\ NextPart.method = pc /\ NextPart.octets = Octets
      /\ Octets \in Int /\ (pc = "body" => Octets + Envelope <= frameMax)
  BY <1>1, PartType
<1>5. CASE toBroker' = toBroker
  BY <1>2, <1>5, NothingNewFits
<1>6. CASE tcp = "up" /\ toBroker' = Append(toBroker, NextPart)
  <2>1. session \notin {"accepted", "started"}
    <3>1. trouble = "none" => session = "open"
      BY <1>1 DEF LiveConnection, AlignedRequest, Broker
    <3>2. trouble # "none" => Silent
      BY <1>1, <1>6 DEF LiveConnection
    <3> QED BY <3>1, <3>2 DEF Silent
  <2>2. pc = "body" => Fits(NextPart, offered)
    <3>1. frameMax <= FrameMaxWanted /\ (offered # 0 => frameMax <= offered)
      BY <1>1 DEF FrameMaxAgreed
    <3>2. offered \in Nat /\ FrameMaxWanted \in Nat
      BY <1>1, SessionAssumption DEF SessionTypes
    <3> QED BY <1>1, <1>4, <3>1, <3>2 DEF Fits, Envelope
  <2>3. \A j \in 1..Len(toBroker') :
           \/ j \in 1..Len(toBroker) /\ toBroker'[j] = toBroker[j]
           \/ toBroker'[j] = NextPart
    <3>1. toBroker \in Seq(Requests)
      BY <1>1 DEF SessionTypes
    <3> QED BY <1>4, <1>6, <3>1
  <2>4. ASSUME NEW j \in 1..Len(toBroker'), toBroker'[j].method = "body"
        PROVE  session' \notin {"accepted", "started"} /\ Fits(toBroker'[j], offered)
    BY <1>2, <1>4, <2>1, <2>2, <2>3, <2>4 DEF BodiesFit
  <2> QED BY <1>2, <2>4 DEF BodiesFit
<1> QED BY <1>1, <1>3, <1>4, <1>5, <1>6, SendFacts

(* The broker reads a frame, and proposes when no body is under way.       *)
LEMMA ReadFits ==
    ASSUME SessionInv, BodiesFit, BrokerReads
    PROVE  BodiesFit'
<1>1. SessionTypes /\ toBroker' = Tail(toBroker) /\ toBroker # <<>>
  BY ReadFacts DEF SessionInv
<1>2. \A j \in 1..Len(toBroker') : j + 1 \in 1..Len(toBroker) /\ toBroker'[j] = toBroker[j + 1]
  <2>1. toBroker \in Seq(Requests)
    BY <1>1 DEF SessionTypes
  <2> QED BY <1>1, <2>1
<1>3. \/ offered' = offered /\ (session' \in {"accepted", "started"} =>
                                   session \in {"accepted", "started"})
      \/ session = "started" /\ session' = "tuning"
  BY DEF BrokerReads, Handshake, OnChannel, ClosesConnection, ClosesChannel, brokerVars
<1>4. CASE session \in {"accepted", "started"}
  <2>1. \A j \in 1..Len(toBroker') : toBroker'[j].method # "body"
    BY <1>2, <1>4 DEF BodiesFit
  <2> QED BY <2>1 DEF BodiesFit
<1>5. CASE session \notin {"accepted", "started"}
  BY <1>2, <1>3, <1>5, OtherFramesFit
<1> QED BY <1>4, <1>5

LEMMA NextFits == SessionInv /\ BodiesFit /\ [Next]_sessionVars => BodiesFit'
<1> SUFFICES ASSUME SessionInv, BodiesFit, [Next]_sessionVars PROVE BodiesFit'
  OBVIOUS
<1>1. CASE Connect \/ (\E n \in BodySizes : Publish(n)) \/ Disconnect
  BY <1>1, NothingNewFits DEF Connect, Publish, Disconnect, ClosesSocket, networkVars, brokerVars
<1>2. CASE RpcSend \/ LoginSend
  BY <1>2, SendFits
<1>3. CASE RpcReceive \/ ConnectReturns
  BY <1>3, NothingNewFits DEF RpcReceive, ConnectReturns, networkVars, brokerVars
<1>4. CASE Destroy
  BY <1>4, NothingNewFits DEF Destroy, ClosesSocket
<1>5. CASE OpenSocket
  <2>1. toBroker' = <<>>
    BY <1>5 DEF OpenSocket, SessionInv, Remains, NothingLeft
  <2> QED BY <2>1, NothingNewFits
<1>6. CASE LoginReceive
  BY <1>6, NothingNewFits DEF LoginReceive, ClosesSocket, networkVars, brokerVars
<1>7. CASE PublishSend
  BY <1>7, PublishSendFits
<1>8. CASE BrokerReads
  BY <1>8, ReadFits
<1>9. CASE BrokerCloses
  BY <1>9, NothingNewFits DEF BrokerCloses, ClosesConnection, ClosesChannel
<1>10. CASE BrokerHangsUp \/ ConnectionDrops
  BY <1>10, NothingNewFits DEF BrokerHangsUp, ConnectionDrops
<1>11. CASE UNCHANGED sessionVars
  BY <1>11, NothingNewFits DEF sessionVars, networkVars, brokerVars
<1> QED BY <1>1, <1>2, <1>3, <1>4, <1>5, <1>6, <1>7, <1>8, <1>9, <1>10, <1>11 DEF Next, ClientStep

(***************************************************************************)
(* FrameMaxRespected for every broker and any number of connections, each  *)
(* with another limit: no body under way is longer than what the broker of *)
(* this connection proposed, nor than what the agent asked for.            *)
(***************************************************************************)
THEOREM FramesFit == Spec => []FrameMaxRespected
<1>1. Init => SessionInv /\ BodiesFit
  <2>1. Init => BodiesFit
    BY EmptySeq DEF Init, BodiesFit
  <2> QED BY <2>1, InitSession
<1>2. SessionInv /\ BodiesFit /\ [Next]_sessionVars => SessionInv' /\ BodiesFit'
  BY NextSession, NextFits
<1>3. SessionInv /\ BodiesFit => FrameMaxRespected
  <2> SUFFICES ASSUME SessionInv, BodiesFit, NEW j \in DOMAIN toBroker,
                      toBroker[j].method = "body"
               PROVE  Fits(toBroker[j], offered)
    BY DEF FrameMaxRespected, Fits
  <2>1. DOMAIN toBroker = 1..Len(toBroker)
    BY DEF SessionInv, SessionTypes
  <2> QED BY <2>1 DEF BodiesFit
<1> QED BY <1>1, <1>2, <1>3, PTL DEF Spec

-----------------------------------------------------------------------------
(* The connection is what module Link says of it.                          *)

(* What the rest of the agent sees of a connection.                        *)
SeenErrors == IF op = "none" THEN errors ELSE before.errors

Unseen == UNCHANGED <<connected, SeenErrors, Worth>>

LEMMA UnseenStutters == Unseen => [L!Next]_L!lvars
BY DEF Unseen, SeenErrors, L!lvars

(* On a connection in use the broker reads messages and closes.            *)
LEMMA ReadWhenConnected ==
    ASSUME SessionInv, BrokerReads, connected
    PROVE  /\ session \in {"open", "closing", "closed"}
           /\ Head(toBroker).method \in Contents \cup Closes
           /\ ~Handshake(Head(toBroker))
<1>1. SessionTypes /\ Places /\ LiveConnection /\ ClosingConnection
  BY DEF SessionInv
<1>2. tcp = "up" /\ toBroker # <<>>
  BY <1>1, ReadFacts
<1>3. Head(toBroker) = toBroker[1] /\ 1 \in 1..Len(toBroker)
  BY <1>1, <1>2, OneLess DEF SessionTypes
<1>4. session \in {"open", "closing", "closed"} /\ Head(toBroker).method \in Contents \cup Closes
  <2>1. CASE Settled
    <3>1. Head(toBroker).method \in Contents
      BY <1>1, <1>3, <2>1 DEF LiveConnection, OnlyContents
    <3>2. pc \in {"idle"} \cup Contents
      BY <1>1, <2>1 DEF Settled, Places
    <3> QED
      BY <1>1, <1>2, <2>1, <3>1, <3>2 DEF LiveConnection, AlignedRequest, Broker, Silent
  <2>2. CASE op = "disconnect"
    BY <1>1, <1>2, <1>3, <2>2 DEF ClosingConnection
  <2> QED BY <1>1, <2>1, <2>2 DEF Settled, Places
<1>5. ~Handshake(Head(toBroker))
  BY <1>4 DEF Handshake, Contents, Closes
<1> QED BY <1>4, <1>5

(* It does not refuse them.                                                *)
LEMMA TroubleStays ==
    ASSUME SessionInv, BrokerReads, connected
    PROVE  trouble' = trouble
<1>1. /\ session \in {"open", "closing", "closed"}
      /\ Head(toBroker).method \in Contents \cup Closes
      /\ ~Handshake(Head(toBroker))
  BY ReadWhenConnected
<1>2. DOMAIN Expected = {"accepted", "started", "tuning", "tuned"}
  BY DEF Expected
<1> QED BY <1>1, <1>2 DEF BrokerReads, OnChannel, ClosesChannel, Contents, Closes, brokerVars

LEMMA InitSeen == Init => L!Init
BY DEF Init, L!Init, Worth

(* The calls begin, and the requests go out, unseen; without a connection  *)
(* n2a_amqp_disconnect is over at once.                                    *)
LEMMA CallsSeen ==
    ASSUME SessionInv, Connect \/ (\E n \in BodySizes : Publish(n)) \/ Disconnect
    PROVE  [L!Next]_L!lvars
<1>1. CASE Connect \/ (\E n \in BodySizes : Publish(n))
  <2>1. Unseen
    BY <1>1 DEF Connect, Publish, BeginCall, brokerVars, Unseen, SeenErrors, Worth
  <2> QED BY <2>1, UnseenStutters
<1>2. CASE Disconnect /\ connected
  <2>1. Unseen
    BY <1>2 DEF Disconnect, BeginCall, brokerVars, Unseen, SeenErrors, Worth
  <2> QED BY <2>1, UnseenStutters
<1>3. CASE Disconnect /\ ~connected
  <2>1. op' = "none" /\ ~connected /\ connected' = connected /\ conn' = FALSE /\ errors' = FALSE
    BY <1>3 DEF Disconnect, ErrorsAtStart
  <2>2. connected' = FALSE
    BY <2>1 DEF SessionInv, SessionTypes
  <2>3. L!Disconnect
    BY <2>1, <2>2 DEF L!Disconnect, Worth
  <2> QED BY <2>3 DEF L!Next
<1> QED BY <1>1, <1>2, <1>3

LEMMA RequestsSeen ==
    ASSUME SessionInv, RpcSend \/ RpcReceive \/ OpenSocket \/ LoginSend \/ LoginReceive
    PROVE  [L!Next]_L!lvars
<1>1. Places
  BY DEF SessionInv
<1>2. op \in {"connect", "disconnect"} /\ (op = "connect" => ~connected)
      /\ (OpenSocket \/ LoginSend \/ LoginReceive => op = "connect")
  BY <1>1, Table
  DEF RpcSend, RpcReceive, OpenSocket, LoginSend, LoginReceive, Places, Contents, Closes
<1>3. UNCHANGED <<op, connected, before>> /\ (op = "connect" \/ UNCHANGED <<conn, trouble>>)
  BY <1>2 DEF RpcSend, RpcReceive, OpenSocket, LoginSend, LoginReceive, brokerVars
<1>4. Unseen
  BY <1>2, <1>3 DEF Unseen, SeenErrors, Worth
<1> QED BY <1>4, UnseenStutters

LEMMA PublishSeen ==
    ASSUME SessionInv, PublishSend
    PROVE  [L!Next]_L!lvars
<1>1. op = "publish" /\ errors = before.errors /\ connected
  BY DEF SessionInv, PublishSend, Places, Contents, Closes, Openings, Logins
<1>2. /\ UNCHANGED <<connected, before, trouble>>
      /\ \/ op' \in {"publish", "none"} /\ errors' = errors
         \/ op' = "disconnect"
  BY <1>1 DEF PublishSend, brokerVars
<1>3. Unseen
  BY <1>1, <1>2 DEF Unseen, SeenErrors, Worth
<1> QED BY <1>3, UnseenStutters

(* The calls return.                                                       *)
LEMMA ReturnsSeen ==
    ASSUME SessionInv, Destroy \/ ConnectReturns
    PROVE  [L!Next]_L!lvars
<1>1. SessionTypes /\ Places /\ Remains /\ LiveConnection /\ ClosingConnection
  BY DEF SessionInv
<1>2. CASE Destroy /\ op = "connect"
  <2>1. Unseen
    BY <1>1, <1>2 DEF Destroy, Places, Unseen, SeenErrors, Worth
  <2> QED BY <2>1, UnseenStutters
<1>3. CASE Destroy /\ op # "connect"
  <2>1. op = "disconnect" /\ connected
    BY <1>1, <1>3 DEF Destroy, Places, Contents, Closes
  <2>2. op' = "none" /\ connected' = FALSE /\ conn' = FALSE /\ errors' = errors
    BY <1>3 DEF Destroy
  <2>3. Worth = "open" => ~errors
    BY <1>1, <2>1 DEF SessionTypes, ClosingConnection, Worth
  <2>4. errors \in IF connected /\ Worth # "open" THEN BOOLEAN ELSE {FALSE}
    BY <1>1, <2>1, <2>3 DEF SessionTypes
  <2>5. L!Disconnect
    BY <2>2, <2>4 DEF L!Disconnect, Worth
  <2> QED BY <2>5 DEF L!Next
<1>4. CASE ConnectReturns
  <2>1. op = "connect" /\ ~connected /\ conn /\ pc = "finish"
    BY <1>1, <1>4 DEF ConnectReturns, Places, Remains, Contents, Closes
  <2>2. /\ op' = "none" /\ connected' = ~errors /\ UNCHANGED <<conn, errors, trouble>>
    BY <1>4 DEF ConnectReturns, brokerVars
  <2>3. errors \in BOOLEAN /\ trouble \in {"none", "refused", "mute", "dead"}
    BY <1>1 DEF SessionTypes
  <2>4. CASE errors
    <3>1. connected' = FALSE /\ errors' = TRUE /\ Worth' = "failed"
      BY <2>1, <2>2, <2>3, <2>4 DEF Worth
    <3> QED BY <2>1, <2>2, <3>1 DEF L!Next, L!Connect
  <2>5. CASE ~errors
    <3>1. trouble # "refused"
      BY <1>1, <2>1, <2>5 DEF LiveConnection, Incoming, Opening
    <3>2. connected' = TRUE /\ errors' = FALSE /\ Worth' \in {"open", "mute", "dead"}
      BY <2>1, <2>2, <2>3, <2>5, <3>1 DEF Worth
    <3> QED BY <2>1, <2>2, <3>2 DEF L!Next, L!Connect
  <2> QED BY <2>4, <2>5
<1> QED BY <1>2, <1>3, <1>4

(* The broker.                                                             *)
LEMMA BrokerSeen ==
    ASSUME SessionInv, BrokerReads \/ BrokerCloses \/ BrokerHangsUp \/ ConnectionDrops
    PROVE  [L!Next]_L!lvars
<1>1. tcp = "up" /\ UNCHANGED clientVars
  BY DEF BrokerReads, BrokerCloses, BrokerHangsUp, ConnectionDrops
<1>2. UNCHANGED <<op, conn, connected, errors, before>> /\ SeenErrors' = SeenErrors
  BY <1>1 DEF clientVars, SeenErrors
<1>3. SessionTypes /\ Places /\ LiveConnection /\ ClosingConnection
  BY DEF SessionInv
<1>4. CASE ~connected \/ trouble' = trouble
  <2>1. Unseen
    BY <1>2, <1>4 DEF Unseen, Worth
  <2> QED BY <2>1, UnseenStutters
<1>5. CASE connected /\ trouble' # trouble
  <2>1. trouble \in {"none", "mute"}
    <3>1. Settled => pc \in {"idle"} \cup Contents
      BY <1>3 DEF Settled, Places
    <3>2. Settled \/ op = "disconnect"
      BY <1>3, <1>5 DEF Settled, Places
    <3> QED
      BY <1>1, <1>3, <3>1, <3>2 DEF SessionTypes, LiveConnection, ClosingConnection, Incoming
  <2>2. ~BrokerReads
    BY <1>5, TroubleStays
  <2>3. trouble' \in {"mute", "dead"} /\ (trouble = "mute" => trouble' = "dead")
    BY <1>5, <2>1, <2>2
    DEF BrokerCloses, ClosesConnection, ClosesChannel, BrokerHangsUp, ConnectionDrops
  <2>4. L!Breaks
    BY <1>2, <1>5, <2>1, <2>3 DEF L!Breaks, Worth, SeenErrors
  <2> QED BY <2>4 DEF L!Next
<1> QED BY <1>4, <1>5

(***************************************************************************)
(* The exchange of frames implements the connection of module Link: a call *)
(* seems to be one step, n2a_amqp_connect says connected only of a         *)
(* connection that was ready, and an orderly close reports no error.       *)
(***************************************************************************)
THEOREM LinkImplemented == Spec => ImplementsLink
<1>1. Init => L!Init
  BY InitSeen
<1>2. SessionInv /\ [Next]_sessionVars => [L!Next]_L!lvars
  <2> SUFFICES ASSUME SessionInv, [Next]_sessionVars PROVE [L!Next]_L!lvars
    OBVIOUS
  <2>1. CASE UNCHANGED sessionVars
    <3>1. Unseen
      BY <2>1 DEF sessionVars, clientVars, brokerVars, Unseen, SeenErrors, Worth
    <3> QED BY <3>1, UnseenStutters
  <2> QED BY <2>1, CallsSeen, RequestsSeen, PublishSeen, ReturnsSeen, BrokerSeen
          DEF Next, ClientStep
<1> QED BY <1>1, <1>2, SessionInvariance, PTL DEF Spec, ImplementsLink, L!Spec

-----------------------------------------------------------------------------
(* The messages.                                                           *)

(* The numbers of s only grow.                                             *)
Rising(s) == \A j, k \in DOMAIN s : j < k => s[j] < s[k]

(* The j-th frame under way is part of a message.                          *)
IsContent(j) == toBroker[j].method \in Contents

MessageTypes ==
    /\ received \in Seq(Nat) /\ sent \in Seq(Nat)
    /\ op = "publish" =>
          /\ current.id = published
          /\ pc \in {"method", "content"} => current.left = current.size
          /\ pc = "body" => current.left # 0

(* What the broker got came in order, and is not what is being sent.       *)
NumbersRise ==
    /\ Rising(received)
    /\ \A k \in 1..Len(received) :
          received[k] <= published /\ (op = "publish" => received[k] < published)

(* A broker that is not connected to is sent no message.                   *)
NothingEarly ==
    /\ tcp # "up" => session = "none"
    /\ ~connected => \A j \in 1..Len(toBroker) : ~IsContent(j)

(***************************************************************************)
(* left[j] is what the message of the j-th frame under way still needs     *)
(* after that frame, its header and the octets of its body; left[0] is     *)
(* what the message needs that the broker has read a part of.              *)
(***************************************************************************)
Frames(left) ==
    /\ left[0] # 0 => partial.left = left[0]
    /\ \A j \in 1..Len(toBroker) : IsContent(j) =>
          /\ toBroker[j].method = "method" => left[j - 1] = 0 /\ left[j] = toBroker[j].size + 1
          /\ toBroker[j].method # "method" =>
                left[j - 1] # 0 /\ left[j] = left[j - 1] - Taken(toBroker[j])

Order ==
    /\ \A j \in 1..Len(toBroker) : IsContent(j) =>
          /\ toBroker[j].id <= published
          /\ op = "publish" /\ pc = "method" => toBroker[j].id < published
          /\ \A k \in 1..Len(received) : received[k] < toBroker[j].id
    /\ \A j, k \in 1..Len(toBroker) : j < k /\ IsContent(k) =>
          /\ IsContent(j) /\ toBroker[j].id <= toBroker[k].id
          /\ toBroker[k].method = "method" => toBroker[j].id < toBroker[k].id

(* The last frame belongs to the message being published.                  *)
SoFar(left) ==
    /\ op = "none" \/ (op = "publish" /\ pc = "method") => left[Len(toBroker)] = 0
    /\ op = "publish" /\ pc = "content" => left[Len(toBroker)] = current.left + 1
    /\ op = "publish" /\ pc = "body" => left[Len(toBroker)] = current.left

(* A message called sent arrived, or its last frame is under way.          *)
Arrives(left) ==
    Settled /\ trouble = "none" =>
        \A k \in 1..Len(sent) :
           \/ \E i \in 1..Len(received) : received[i] = sent[k]
           \/ \E j \in 1..Len(toBroker) :
                 /\ toBroker[j].method \in {"content", "body"}
                 /\ toBroker[j].id = sent[k] /\ left[j] = 0

Stream(left) == Frames(left) /\ Order /\ SoFar(left) /\ Arrives(left)

InUse == connected /\ session = "open" /\ channel = "open"

MessagesInv ==
    /\ MessageTypes /\ NumbersRise /\ NothingEarly
    /\ InUse => \E left \in [0..Len(toBroker) -> Nat] : Stream(left)

-----------------------------------------------------------------------------
(* Steps outside of a connection in use.                                   *)

LEMMA OutOfUse ==
    ASSUME MessagesInv, ~InUse', op' # "publish", sent' \in {sent, <<>>},
           UNCHANGED <<received, published>>, NothingEarly'
    PROVE  MessagesInv'
<1>1. MessageTypes'
  <2>1. <<>> \in Seq(Nat)
    BY EmptySeq
  <2> QED BY <2>1 DEF MessagesInv, MessageTypes
<1>2. NumbersRise'
  BY DEF MessagesInv, NumbersRise, Rising
<1> QED BY <1>1, <1>2 DEF MessagesInv

(* The client sends something that is not part of a message.               *)
LEMMA SentOther ==
    ASSUME SessionTypes, NothingEarly, UNCHANGED <<tcp, session, connected>>,
           toBroker' \in {toBroker, <<>>}
           \/ \E f \in Requests : f.method \notin Contents /\ SendWorks(<<f>>)
    PROVE  NothingEarly'
<1>1. CASE toBroker' \in {toBroker, <<>>}
  BY <1>1, EmptySeq DEF NothingEarly, IsContent
<1>2. ASSUME NEW f \in Requests, f.method \notin Contents, SendWorks(<<f>>)
      PROVE  NothingEarly'
  <2>1. toBroker \in Seq(Requests)
    BY DEF SessionTypes
  <2>2. toBroker' = toBroker \/ toBroker' = Append(toBroker, f)
    BY <1>2, SendFacts
  <2>3. \A j \in 1..Len(toBroker') :
           \/ j \in 1..Len(toBroker) /\ toBroker'[j] = toBroker[j]
           \/ toBroker'[j] = f
    <3>1. CASE toBroker' = toBroker
      BY <3>1
    <3>2. CASE toBroker' = Append(toBroker, f)
      <4>1. /\ Len(Append(toBroker, f)) = Len(toBroker) + 1
            /\ Append(toBroker, f)[Len(toBroker) + 1] = f
            /\ \A k \in 1..Len(toBroker) : Append(toBroker, f)[k] = toBroker[k]
            /\ \A k \in 1..(Len(toBroker) + 1) : k \in 1..Len(toBroker) \/ k = Len(toBroker) + 1
        BY <2>1, OneMore
      <4> QED BY <3>2, <4>1
    <3> QED BY <2>2, <3>1, <3>2
  <2> QED BY <1>2, <2>3 DEF NothingEarly, IsContent
<1> QED BY <1>1, <1>2

LEMMA ConnectMessages ==
    ASSUME SessionInv, MessagesInv, Connect
    PROVE  MessagesInv'
<1>1. ~connected' /\ op' = "connect" /\ UNCHANGED <<sent, received, published, tcp, session, toBroker>>
      /\ connected' = connected
  BY DEF Connect, BeginCall, networkVars, brokerVars
<1>2. NothingEarly'
  BY <1>1 DEF MessagesInv, NothingEarly, IsContent
<1> QED BY <1>1, <1>2, OutOfUse DEF InUse

LEMMA DisconnectMessages ==
    ASSUME SessionInv, MessagesInv, Disconnect
    PROVE  MessagesInv'
<1>1. op' # "publish" /\ UNCHANGED <<sent, received, published, connected>>
  BY DEF Disconnect, BeginCall, ClosesSocket, brokerVars, bounds
<1>2. CASE ~connected
  <2>1. NothingEarly'
    BY <1>1, <1>2, EmptySeq
    DEF Disconnect, ClosesSocket, networkVars, brokerVars, MessagesInv, NothingEarly, IsContent
  <2> QED BY <1>1, <1>2, <2>1, OutOfUse DEF InUse
<1>3. CASE connected
  <2>1. op' = "disconnect" /\ UNCHANGED <<tcp, session, channel, partial, trouble, toBroker>>
    BY <1>3 DEF Disconnect, BeginCall, networkVars, brokerVars
  <2>2. NothingEarly'
    BY <1>1, <2>1 DEF MessagesInv, NothingEarly, IsContent
  <2>3. MessageTypes' /\ NumbersRise'
    BY <1>1, <2>1 DEF MessagesInv, MessageTypes, NumbersRise, Rising
  <2>4. ASSUME InUse' PROVE \E left \in [0..Len(toBroker') -> Nat] : Stream(left)'
    <3>1. PICK left \in [0..Len(toBroker) -> Nat] : Stream(left)
      BY <1>1, <2>1, <2>4 DEF MessagesInv, InUse
    <3>2. Stream(left)'
      BY <1>1, <2>1, <3>1 DEF Stream, Frames, Order, SoFar, Arrives, IsContent, Settled
    <3> QED BY <2>1, <3>2
  <2> QED BY <2>2, <2>3, <2>4 DEF MessagesInv
<1> QED BY <1>2, <1>3

LEMMA ContentFrame ==
    ASSUME NEW f \in Requests, f.method \in Contents
    PROVE  f \in [channel : {1}, method : Contents, id : Nat, size : Nat, octets : Int]
<1>1. CASE f \in [channel : {0, 1},
                  method : {"header", "start_ok", "open", "channel_open", "declare"} \cup Closes]
  BY <1>1 DEF Contents, Closes
<1>2. CASE f \in [channel : {0}, method : {"tune_ok"}, frame_max : Nat]
  BY <1>2 DEF Contents
<1> QED BY <1>1, <1>2 DEF Requests

LEMMA PublishMessages ==
    ASSUME SessionInv, MessagesInv, NEW n \in BodySizes, Publish(n)
    PROVE  MessagesInv'
<1>1. /\ op = "none" /\ op' = "publish" /\ pc' = "method" /\ published' = published + 1
      /\ current' = [id |-> published + 1, size |-> n, left |-> n] /\ connected
      /\ UNCHANGED <<tcp, session, channel, partial, trouble, toBroker, connected, sent, received>>
  BY DEF Publish, BeginCall, networkVars, brokerVars
<1>2. /\ published \in Nat /\ toBroker \in Seq(Requests) /\ Len(toBroker) \in Nat
      /\ received \in Seq(Nat) /\ \A k \in 1..Len(received) : received[k] \in Nat
  BY DEF SessionInv, SessionTypes, MessagesInv, MessageTypes
<1>3. MessageTypes' /\ NothingEarly'
  BY <1>1 DEF MessagesInv, MessageTypes, NothingEarly, IsContent
<1>4. NumbersRise'
  BY <1>1, <1>2 DEF MessagesInv, NumbersRise, Rising
<1>5. ASSUME InUse' PROVE \E left \in [0..Len(toBroker') -> Nat] : Stream(left)'
  <2>1. PICK left \in [0..Len(toBroker) -> Nat] : Stream(left)
    BY <1>1, <1>5 DEF MessagesInv, InUse
  <2>2. Frames(left)' /\ SoFar(left)' /\ Arrives(left)'
    BY <1>1, <2>1 DEF Stream, Frames, SoFar, Arrives, IsContent, Settled
  <2>3. \A j \in 1..Len(toBroker) : IsContent(j) => toBroker[j].id \in Nat
    BY <1>2, ElementOfSeq, ContentFrame DEF IsContent
  <2>4. Order'
    BY <1>1, <1>2, <2>1, <2>3, SMTT(20) DEF Stream, Order, IsContent
  <2> QED BY <1>1, <2>1, <2>2, <2>4 DEF Stream
<1> QED BY <1>3, <1>4, <1>5 DEF MessagesInv

LEMMA ReceiveMessages ==
    ASSUME SessionInv, MessagesInv, RpcReceive
    PROVE  MessagesInv'
<1>1. /\ op \in {"connect", "disconnect"} /\ op' = op
      /\ UNCHANGED <<tcp, session, channel, partial, trouble, toBroker, connected, sent, received,
                     published>>
  BY Table
  DEF RpcReceive, SessionInv, Places, Contents, Closes, networkVars, brokerVars, bounds
<1>2. MessageTypes' /\ NumbersRise' /\ NothingEarly'
  BY <1>1 DEF MessagesInv, MessageTypes, NumbersRise, Rising, NothingEarly, IsContent
<1>3. ASSUME InUse' PROVE \E left \in [0..Len(toBroker') -> Nat] : Stream(left)'
  <2>1. PICK left \in [0..Len(toBroker) -> Nat] : Stream(left)
    BY <1>1, <1>3 DEF MessagesInv, InUse
  <2>2. Stream(left)'
    BY <1>1, <2>1 DEF Stream, Frames, Order, SoFar, Arrives, IsContent, Settled
  <2> QED BY <1>1, <2>1, <2>2
<1> QED BY <1>2, <1>3 DEF MessagesInv

(* What is not a message comes after all messages.                         *)
LEMMA SendMessages ==
    ASSUME SessionInv, MessagesInv, RpcSend
    PROVE  MessagesInv'
<1> DEFINE f == Frame(Rpc[pc].channel, pc)
<1>1. /\ op \in {"connect", "disconnect"} /\ op' = op /\ (op = "connect" => ~connected)
      /\ UNCHANGED <<session, channel, partial, trouble, connected, sent, received, published>>
  BY Table DEF RpcSend, SessionInv, Places, Contents, Closes, brokerVars, bounds
<1>2. f \in Requests /\ f.method \notin Contents
  BY Table DEF RpcSend, Frame, Requests, Contents, Closes
<1>3. /\ SessionTypes /\ toBroker \in Seq(Requests) /\ tcp' = tcp
      /\ toBroker' = toBroker \/ SendWorks(<<f>>)
  <2>1. SessionTypes /\ toBroker \in Seq(Requests)
    BY DEF SessionInv, SessionTypes
  <2>2. SendWorks(<<f>>) \/ (toBroker' = toBroker /\ tcp' = tcp)
    BY DEF RpcSend, SendFails, networkVars
  <2> QED BY <1>2, <2>1, <2>2, SendFacts
<1>4. NothingEarly'
  BY <1>1, <1>2, <1>3, SentOther DEF MessagesInv
<1>5. CASE op = "connect"
  BY <1>1, <1>4, <1>5, OutOfUse DEF InUse
<1>6. CASE op = "disconnect"
  <2>1. MessageTypes' /\ NumbersRise'
    BY <1>1, <1>6 DEF MessagesInv, MessageTypes, NumbersRise, Rising
  <2>2. ASSUME InUse' PROVE \E left \in [0..Len(toBroker') -> Nat] : Stream(left)'
    <3>1. PICK left \in [0..Len(toBroker) -> Nat] : Stream(left)
      BY <1>1, <2>2 DEF MessagesInv, InUse
    <3>2. CASE toBroker' = toBroker
      <4>1. Stream(left)'
        BY <1>1, <1>6, <3>1, <3>2 DEF Stream, Frames, Order, SoFar, Arrives, IsContent, Settled
      <4> QED BY <3>1, <3>2, <4>1
    <3>3. CASE toBroker' # toBroker
      <4>1. /\ toBroker' = Append(toBroker, f) /\ Len(toBroker') = Len(toBroker) + 1
            /\ Len(toBroker) \in Nat
            /\ toBroker'[Len(toBroker) + 1] = f
            /\ \A k \in 1..Len(toBroker) : toBroker'[k] = toBroker[k]
        BY <1>2, <1>3, <3>3, SendFacts, OneMore
      <4>2. PICK new \in [0..Len(toBroker') -> Nat] :
               \A j \in 0..Len(toBroker) : new[j] = left[j]
        <5> DEFINE g == [j \in 0..(Len(toBroker) + 1) |->
                           IF j \in 0..Len(toBroker) THEN left[j] ELSE 0]
        <5>1. g \in [0..Len(toBroker') -> Nat] /\ \A j \in 0..Len(toBroker) : g[j] = left[j]
          BY <3>1, <4>1
        <5> QED BY <5>1
      <4>3. \A j \in 1..Len(toBroker') :
               \/ j \in 1..Len(toBroker) /\ toBroker'[j] = toBroker[j]
                  /\ (IsContent(j)' <=> IsContent(j))
               \/ ~IsContent(j)' /\ j = Len(toBroker) + 1
        BY <1>2, <4>1 DEF IsContent
      <4> HIDE DEF f
      <4>4. Frames(new)'
        <5>1. new[0] # 0 => partial'.left = new[0]
          BY <1>1, <3>1, <4>1, <4>2 DEF Stream, Frames
        <5>2. ASSUME NEW j \in 1..Len(toBroker'), IsContent(j)'
              PROVE  /\ j \in 1..Len(toBroker) /\ IsContent(j) /\ toBroker'[j] = toBroker[j]
                     /\ new[j - 1] = left[j - 1] /\ new[j] = left[j]
          <6>1. j \in 1..Len(toBroker) /\ IsContent(j) /\ toBroker'[j] = toBroker[j]
            BY <4>3, <5>2
          <6>2. j \in 0..Len(toBroker) /\ j - 1 \in 0..Len(toBroker)
            BY <6>1
          <6> QED BY <4>2, <6>1, <6>2
        <5> QED BY <3>1, <5>1, <5>2 DEF Stream, Frames
      <4>5. Order'
        <5>1. \A j \in 1..Len(toBroker') : IsContent(j)' =>
                 j \in 1..Len(toBroker) /\ toBroker'[j] = toBroker[j] /\ IsContent(j)
          BY <4>3
        <5>2. \A j, k \in 1..Len(toBroker') : j < k /\ k \in 1..Len(toBroker) =>
                 j \in 1..Len(toBroker) /\ (IsContent(j)' <=> IsContent(j))
                 /\ toBroker'[j] = toBroker[j]
          BY <4>1, <4>3
        <5> QED BY <1>1, <1>6, <3>1, <5>1, <5>2 DEF Stream, Order
      <4>6. SoFar(new)' /\ Arrives(new)'
        BY <1>1, <1>6 DEF SoFar, Arrives, Settled
      <4>7. Stream(new)'
        BY <4>4, <4>5, <4>6 DEF Stream
      <4> QED BY <4>2, <4>7
    <3> QED BY <3>2, <3>3
  <2> QED BY <1>4, <2>1, <2>2 DEF MessagesInv
<1> QED BY <1>1, <1>5, <1>6

LEMMA DestroyMessages ==
    ASSUME SessionInv, MessagesInv, Destroy
    PROVE  MessagesInv'
<1>1. /\ op' # "publish" /\ sent' = <<>> /\ UNCHANGED <<received, published>>
      /\ toBroker' = <<>> /\ session' = "none"
  BY DEF Destroy, ClosesSocket, bounds, SessionInv, Places, Contents
<1>2. NothingEarly' /\ ~InUse'
  BY <1>1, EmptySeq DEF NothingEarly, InUse
<1> QED BY <1>1, <1>2, OutOfUse

(* The opening of a connection.                                            *)
LEMMA LoginMessages ==
    ASSUME SessionInv, MessagesInv, OpenSocket \/ LoginSend \/ LoginReceive
    PROVE  MessagesInv'
<1>1. /\ op = "connect" /\ op' = op /\ ~connected /\ connected' = connected
      /\ UNCHANGED <<sent, received, published>> /\ SessionTypes
  BY DEF OpenSocket, LoginSend, LoginReceive, ClosesSocket, brokerVars, bounds, SessionInv,
         Places, Contents, Closes
<1>2. NothingEarly'
  <2>1. CASE OpenSocket
    BY <1>1, <2>1 DEF OpenSocket, MessagesInv, NothingEarly, IsContent
  <2>2. CASE LoginReceive
    BY <1>1, <2>2, EmptySeq
    DEF LoginReceive, ClosesSocket, networkVars, brokerVars, MessagesInv, NothingEarly, IsContent
  <2>3. CASE LoginSend
    <3> DEFINE f == IF pc = "tune_ok" THEN [channel |-> 0, method |-> pc, frame_max |-> frameMax]
                    ELSE Frame(0, pc)
    <3>1. f \in Requests /\ f.method \notin Contents
      BY <1>1, <2>3 DEF LoginSend, Frame, Requests, Contents, Closes, SessionTypes
    <3>2. session' = session /\ (SendWorks(<<f>>) \/ (toBroker' = toBroker /\ tcp' = tcp))
      BY <2>3 DEF LoginSend, SendFails, networkVars, brokerVars
    <3>3. tcp' = tcp
      BY <3>2 DEF SendWorks
    <3> HIDE DEF f
    <3> QED BY <1>1, <3>1, <3>2, <3>3, SentOther DEF MessagesInv
  <2> QED BY <2>1, <2>2, <2>3
<1> QED BY <1>1, <1>2, OutOfUse DEF InUse

LEMMA ReturnMessages ==
    ASSUME SessionInv, MessagesInv, ConnectReturns
    PROVE  MessagesInv'
<1>1. /\ op = "connect" /\ op' = "none" /\ connected' = ~errors /\ sent' = <<>>
      /\ UNCHANGED <<received, published, tcp, session, channel, partial, trouble, toBroker>>
      /\ ~connected /\ pc = "finish"
  BY DEF ConnectReturns, networkVars, brokerVars, bounds, SessionInv, Places, Contents, Closes
<1>2. NothingEarly'
  BY <1>1 DEF MessagesInv, NothingEarly, IsContent
<1>3. CASE errors
  BY <1>1, <1>2, <1>3, OutOfUse DEF InUse
<1>4. CASE ~errors
  <2>1. toBroker = <<>>
    BY <1>1, <1>4 DEF SessionInv, LiveConnection, Incoming, Opening
  <2>2. MessageTypes' /\ NumbersRise'
    <3>1. <<>> \in Seq(Nat)
      BY EmptySeq
    <3> QED BY <1>1, <3>1 DEF MessagesInv, MessageTypes, NumbersRise, Rising
  <2> DEFINE left == [j \in 0..0 |-> 0]
  <2>3. left \in [0..0 -> Nat] /\ left[0] = 0 /\ Len(<<>>) = 0 /\ \A j \in 1..0 : FALSE
    BY EmptySeq
  <2> HIDE DEF left
  <2>4. Stream(left)'
    BY <1>1, <2>1, <2>3 DEF Stream, Frames, Order, SoFar, Arrives
  <2> QED BY <1>1, <1>2, <2>1, <2>2, <2>3, <2>4 DEF MessagesInv
<1> QED BY <1>3, <1>4

(* The broker closes, or is gone.                                          *)
LEMMA EndMessages ==
    ASSUME SessionInv, MessagesInv, BrokerCloses \/ BrokerHangsUp \/ ConnectionDrops
    PROVE  MessagesInv'
<1>1. /\ UNCHANGED <<op, pc, current, connected, sent, received, published>>
      /\ ~InUse' /\ tcp = "up"
      /\ toBroker' \in {toBroker, <<>>} /\ (tcp' # "up" => session' = "none")
  BY DEF BrokerCloses, ClosesConnection, ClosesChannel, BrokerHangsUp, ConnectionDrops, Fault,
         clientVars, bounds, InUse
<1>2. NothingEarly'
  BY <1>1, EmptySeq DEF MessagesInv, NothingEarly, IsContent
<1>3. MessageTypes' /\ NumbersRise'
  BY <1>1 DEF MessagesInv, MessageTypes, NumbersRise, Rising
<1> QED BY <1>1, <1>2, <1>3 DEF MessagesInv

-----------------------------------------------------------------------------
(* A frame of a message is sent.                                           *)

LEMMA FrameIsSent ==
    ASSUME SessionInv, MessagesInv, PublishSend, op' # "disconnect"
    PROVE  /\ op = "publish" /\ op' \in {"publish", "none"} /\ connected /\ published \in Nat
           /\ current \in Messages /\ current.id = published
           /\ UNCHANGED <<connected, received, published, session, channel, partial, trouble, tcp>>
           /\ tcp = "up" => toBroker' = Append(toBroker, NextPart)
           /\ NextPart \in Requests /\ NextPart.method = pc /\ NextPart.size = current.size
           /\ NextPart.id = current.id
           /\ pc # "method" => Taken(NextPart) = IF pc = "content" THEN 1 ELSE Octets
           /\ \/ /\ pc = "method" /\ pc' = "content" /\ op' = "publish"
                 /\ current.left = current.size /\ UNCHANGED <<current, sent>>
              \/ /\ pc = "content" /\ pc' = "body" /\ op' = "publish"
                 /\ current.left # 0 /\ UNCHANGED <<current, sent>>
              \/ /\ pc = "content" /\ op' = "none" /\ current.left = 0
                 /\ sent' = Append(sent, current.id)
              \/ /\ pc = "body" /\ current.left # 0 /\ current.left - Octets \in Nat
                 /\ \/ /\ pc' = "body" /\ op' = "publish" /\ current.left - Octets # 0
                       /\ current' = [current EXCEPT !.left = current.left - Octets]
                       /\ sent' = sent
                    \/ /\ op' = "none" /\ current.left - Octets = 0
                       /\ sent' = Append(sent, current.id)
<1>1. op = "publish" /\ connected /\ pc \in Contents
  BY DEF PublishSend, SessionInv, Places, Contents, Closes, Openings, Logins
<1>2. /\ current \in Messages /\ published \in Nat /\ SessionTypes /\ frameMax \in Nat
      /\ current.id = published /\ (pc \in {"method", "content"} => current.left = current.size)
      /\ (pc = "body" => current.left # 0) /\ current.left \in Nat
  BY <1>1 DEF SessionInv, SessionTypes, MessagesInv, MessageTypes, Messages
<1>3. /\ SendWorks(<<NextPart>>)
      /\ IF pc = "method"
         THEN pc' = "content" /\ UNCHANGED <<op, current, sent>>
         ELSE IF MoreBody(current.left - Octets)
         THEN /\ pc' = "body" /\ current' = [current EXCEPT !.left = current.left - Octets]
              /\ UNCHANGED <<op, sent>>
         ELSE pc' = "idle" /\ op' = "none" /\ current' = <<>> /\ sent' = Append(sent, current.id)
  BY DEF PublishSend, NextPart, Octets
<1>4. /\ NextPart \in Requests /\ NextPart.method = pc /\ NextPart.size = current.size
      /\ NextPart.id = current.id /\ NextPart.octets = Octets
      /\ current.left - Octets \in Nat
  BY <1>1, <1>2, PartType
<1>5. /\ UNCHANGED <<connected, received, published, session, channel, partial, trouble>>
  BY DEF PublishSend, brokerVars, bounds
<1>6. tcp' = tcp /\ (tcp = "up" => toBroker' = Append(toBroker, NextPart))
  BY <1>2, <1>3, <1>4, SendFacts
<1>7. pc # "method" => Taken(NextPart) = IF pc = "content" THEN 1 ELSE Octets
  BY <1>4 DEF Taken
<1>8. CASE pc = "method"
  BY <1>1, <1>2, <1>3, <1>4, <1>5, <1>6, <1>7, <1>8
<1>9. CASE pc = "content"
  <2>1. Octets = 0 /\ current.left - Octets = current.left
    BY <1>2, <1>9 DEF Octets
  <2>2. [current EXCEPT !.left = current.left] = current
    BY <1>2 DEF Messages
  <2>3. \/ /\ pc' = "body" /\ op' = "publish" /\ current.left # 0 /\ UNCHANGED <<current, sent>>
        \/ op' = "none" /\ current.left = 0 /\ sent' = Append(sent, current.id)
    BY <1>1, <1>2, <1>3, <1>9, <2>1, <2>2 DEF MoreBody
  <2> QED BY <1>1, <1>2, <1>4, <1>5, <1>6, <1>7, <1>9, <2>3
<1>10. CASE pc = "body"
  <2>1. \/ /\ pc' = "body" /\ op' = "publish" /\ current.left - Octets # 0 /\ sent' = sent
           /\ current' = [current EXCEPT !.left = current.left - Octets]
        \/ op' = "none" /\ current.left - Octets = 0 /\ sent' = Append(sent, current.id)
    BY <1>1, <1>3, <1>4, <1>10 DEF MoreBody
  <2> QED BY <1>1, <1>2, <1>4, <1>5, <1>6, <1>7, <1>10, <2>1
<1> QED BY <1>1, <1>8, <1>9, <1>10 DEF Contents

LEMMA PublishSendMessages ==
    ASSUME SessionInv, MessagesInv, PublishSend
    PROVE  MessagesInv'
<1>1. CASE op' = "disconnect"
  <2>1. /\ UNCHANGED <<connected, received, published, session, channel, partial, trouble, tcp>>
        /\ UNCHANGED <<toBroker, sent>>
    BY <1>1 DEF PublishSend, SendFails, networkVars, brokerVars, bounds, SessionInv, Places,
                Contents, Closes, Openings, Logins
  <2>2. MessageTypes' /\ NumbersRise' /\ NothingEarly'
    BY <1>1, <2>1 DEF MessagesInv, MessageTypes, NumbersRise, Rising, NothingEarly, IsContent
  <2>3. ASSUME InUse' PROVE \E left \in [0..Len(toBroker') -> Nat] : Stream(left)'
    <3>1. PICK left \in [0..Len(toBroker) -> Nat] : Stream(left)
      BY <2>1, <2>3 DEF MessagesInv, InUse
    <3>2. Stream(left)'
      BY <1>1, <2>1, <3>1 DEF Stream, Frames, Order, SoFar, Arrives, IsContent, Settled
    <3> QED BY <2>1, <3>1, <3>2
  <2> QED BY <2>2, <2>3 DEF MessagesInv
<1>2. CASE op' # "disconnect"
  <2> DEFINE f == NextPart
             taken == IF pc = "content" THEN 1 ELSE Octets
  <2>1. /\ op = "publish" /\ op' \in {"publish", "none"} /\ connected /\ published \in Nat
        /\ current \in Messages /\ current.id = published /\ f \in Requests
        /\ f.method = pc /\ f.id = published /\ f.size = current.size
        /\ pc # "method" => Taken(f) = taken
        /\ UNCHANGED <<connected, received, published, session, channel, partial, trouble, tcp>>
        /\ tcp = "up" => toBroker' = Append(toBroker, f)
    BY <1>2, FrameIsSent
  <2> HIDE DEF f, taken
  <2>2. /\ toBroker \in Seq(Requests) /\ Len(toBroker) \in Nat /\ sent \in Seq(Nat)
        /\ MessageTypes /\ NumbersRise /\ NothingEarly
    BY DEF SessionInv, SessionTypes, MessagesInv, MessageTypes
  <2>3. /\ Append(sent, current.id) \in Seq(Nat)
        /\ Len(Append(sent, current.id)) = Len(sent) + 1 /\ Len(sent) \in Nat
        /\ Append(sent, current.id)[Len(sent) + 1] = current.id
        /\ \A k \in 1..Len(sent) : Append(sent, current.id)[k] = sent[k]
        /\ \A k \in 1..(Len(sent) + 1) : k \in 1..Len(sent) \/ k = Len(sent) + 1
    BY <2>1, <2>2, OneMore
  <2>4. MessageTypes'
    <3>1. sent' = sent \/ sent' = Append(sent, current.id)
      BY <1>2, FrameIsSent
    <3>2. op' = "publish" =>
            /\ current'.id = published'
            /\ pc' \in {"method", "content"} => current'.left = current'.size
            /\ pc' = "body" => current'.left # 0
      BY <1>2, <2>1, FrameIsSent DEF Messages
    <3> QED BY <2>1, <2>2, <2>3, <3>1, <3>2 DEF MessageTypes
  <2>5. NumbersRise' /\ NothingEarly'
    BY <2>1, <2>2 DEF NumbersRise, Rising, NothingEarly
  <2>6. ASSUME InUse' PROVE \E left \in [0..Len(toBroker') -> Nat] : Stream(left)'
    <3>1. tcp = "up" /\ toBroker' = Append(toBroker, f) /\ InUse
      BY <2>1, <2>2, <2>6 DEF NothingEarly, InUse
    <3>2. PICK left \in [0..Len(toBroker) -> Nat] : Stream(left)
      BY <3>1 DEF MessagesInv
    <3>3. /\ Len(toBroker') = Len(toBroker) + 1 /\ toBroker'[Len(toBroker) + 1] = f
          /\ \A k \in 1..Len(toBroker) : toBroker'[k] = toBroker[k]
          /\ \A k \in 1..(Len(toBroker) + 1) : k \in 1..Len(toBroker) \/ k = Len(toBroker) + 1
      BY <2>1, <2>2, <3>1, OneMore
    <3>4. /\ left[Len(toBroker)] \in Nat /\ current.left \in Nat /\ current.size \in Nat
          /\ pc = "method" => left[Len(toBroker)] = 0
          /\ pc = "content" => left[Len(toBroker)] = current.left + 1
          /\ pc = "body" => left[Len(toBroker)] = current.left
      <4>1. Len(toBroker) \in 0..Len(toBroker)
        BY <2>2
      <4>2. left[Len(toBroker)] \in Nat /\ SoFar(left)
        BY <3>2, <4>1 DEF Stream
      <4>3. current.left \in Nat /\ current.size \in Nat
        BY <2>1 DEF Messages
      <4> QED BY <2>1, <4>2, <4>3 DEF SoFar
    <3>5. PICK x \in Nat : /\ pc = "method" => x = current.size + 1
                           /\ pc # "method" => left[Len(toBroker)] # 0
                                               /\ x = left[Len(toBroker)] - Taken(f)
                           /\ op' = "none" => x = 0
                           /\ op' = "publish" /\ pc' = "content" => x = current'.left + 1
                           /\ op' = "publish" /\ pc' = "body" => x = current'.left
                           /\ op' = "publish" => pc' # "method"
      <4>1. CASE pc = "method"
        <5>1. current.size + 1 \in Nat /\ op' = "publish" /\ pc' = "content"
              /\ current'.left = current.size
          BY <1>2, <3>4, <4>1, FrameIsSent
        <5> QED BY <4>1, <5>1
      <4>2. CASE pc = "content"
        <5>1. left[Len(toBroker)] # 0 /\ left[Len(toBroker)] - Taken(f) = current.left
          BY <2>1, <3>4, <4>2 DEF taken
        <5>2. \/ pc' = "body" /\ op' = "publish" /\ current' = current
              \/ op' = "none" /\ current.left = 0
          BY <1>2, <4>2, FrameIsSent
        <5> QED BY <3>4, <4>2, <5>1, <5>2
      <4>3. CASE pc = "body"
        <5>1. /\ current.left # 0 /\ current.left - Octets \in Nat /\ Taken(f) = Octets
              /\ \/ pc' = "body" /\ op' = "publish" /\ current'.left = current.left - Octets
                 \/ op' = "none" /\ current.left - Octets = 0
          BY <1>2, <2>1, <4>3, FrameIsSent DEF Messages, taken
        <5> QED BY <3>4, <4>3, <5>1
      <4> QED BY <1>2, <4>1, <4>2, <4>3, FrameIsSent
    <3>6. PICK new \in [0..Len(toBroker') -> Nat] :
             /\ \A j \in 0..Len(toBroker) : new[j] = left[j]
             /\ new[Len(toBroker) + 1] = x
      <4> DEFINE g == [j \in 0..(Len(toBroker) + 1) |->
                         IF j \in 0..Len(toBroker) THEN left[j] ELSE x]
      <4>1. /\ g \in [0..Len(toBroker') -> Nat] /\ \A j \in 0..Len(toBroker) : g[j] = left[j]
            /\ g[Len(toBroker) + 1] = x
        BY <2>2, <3>2, <3>3, <3>5
      <4> QED BY <4>1
    <3>7. /\ \A j \in 1..Len(toBroker) : IsContent(j) /\ (IsContent(j)')
          /\ toBroker'[Len(toBroker) + 1].method \in Contents
      <4>1. \A j \in 1..Len(toBroker) : toBroker[j].method \in Contents
        BY <2>1 DEF SessionInv, LiveConnection, OnlyContents, Settled
      <4>2. f.method \in Contents
        BY <1>2, <2>1, FrameIsSent DEF Contents
      <4>3. toBroker'[Len(toBroker) + 1].method \in Contents
        BY <3>3, <4>2
      <4>4. \A j \in 1..Len(toBroker) : toBroker'[j].method \in Contents
        BY <3>3, <4>1
      <4> QED BY <4>1, <4>3, <4>4 DEF IsContent
    <3>8. f.method = pc /\ f.id = published /\ f.size = current.size
      BY <2>1
    <3>9. Frames(new)'
      <4>1. new[0] # 0 => partial'.left = new[0]
        BY <2>1, <2>2, <3>2, <3>6 DEF Stream, Frames
      <4>2. ASSUME NEW j \in 1..Len(toBroker)
            PROVE  /\ toBroker'[j].method = "method" =>
                         new[j - 1] = 0 /\ new[j] = toBroker'[j].size + 1
                   /\ toBroker'[j].method # "method" =>
                         new[j - 1] # 0 /\ new[j] = new[j - 1] - Taken(toBroker'[j])
        <5>1. new[j - 1] = left[j - 1] /\ new[j] = left[j] /\ toBroker'[j] = toBroker[j]
              /\ IsContent(j)
          <6>1. Len(toBroker) \in Nat /\ j - 1 \in 0..Len(toBroker) /\ j \in 0..Len(toBroker)
            BY <2>2
          <6>2. new[j - 1] = left[j - 1] /\ new[j] = left[j]
            BY <3>6, <6>1
          <6> QED BY <3>3, <3>7, <6>2
        <5> QED BY <3>2, <5>1 DEF Stream, Frames
      <4>3. /\ f.method = "method" =>
                  new[Len(toBroker)] = 0 /\ new[Len(toBroker) + 1] = f.size + 1
            /\ f.method # "method" =>
                  /\ new[Len(toBroker)] # 0
                  /\ new[Len(toBroker) + 1] = new[Len(toBroker)] - Taken(f)
        <5>1. new[Len(toBroker)] = left[Len(toBroker)]
          BY <2>2, <3>6
        <5> QED BY <3>4, <3>5, <3>6, <3>8, <5>1
      <4>4. (Len(toBroker) + 1) - 1 = Len(toBroker)
        BY <2>2
      <4> QED BY <3>3, <4>1, <4>2, <4>3, <4>4 DEF Frames
    <3>10. Order'
      <4>1. /\ \A j \in 1..Len(toBroker) :
                  /\ toBroker[j].id <= published
                  /\ pc = "method" => toBroker[j].id < published
                  /\ \A k \in 1..Len(received) : received[k] < toBroker[j].id
            /\ \A k \in 1..Len(received) : received[k] < published
        BY <2>1, <2>2, <3>2, <3>7 DEF Stream, Order, NumbersRise
      <4>2. \A j \in 1..Len(toBroker') :
               /\ toBroker'[j].id <= published'
               /\ \A k \in 1..Len(received') : received'[k] < toBroker'[j].id
        BY <2>1, <3>3, <3>8, <4>1
      <4>3. ASSUME NEW j \in 1..Len(toBroker'), NEW k \in 1..Len(toBroker'), j < k
            PROVE  /\ IsContent(j)' /\ toBroker'[j].id <= toBroker'[k].id
                   /\ toBroker'[k].method = "method" => toBroker'[j].id < toBroker'[k].id
        <5>1. j \in 1..Len(toBroker) /\ toBroker'[j] = toBroker[j]
          BY <2>2, <3>3, <4>3
        <5>2. CASE k \in 1..Len(toBroker)
          BY <3>2, <3>3, <3>7, <4>3, <5>1, <5>2 DEF Stream, Order
        <5>3. CASE k = Len(toBroker) + 1
          BY <3>3, <3>7, <3>8, <4>1, <5>1, <5>3
        <5> QED BY <3>3, <5>2, <5>3
      <4> QED BY <3>5, <4>2, <4>3 DEF Order
    <3>11. SoFar(new)'
      BY <2>1, <3>3, <3>5, <3>6 DEF SoFar
    <3>12. Arrives(new)'
      <4> SUFFICES ASSUME trouble = "none", NEW k \in 1..Len(sent')
                   PROVE  \/ \E i \in 1..Len(received') : received'[i] = sent'[k]
                          \/ \E j \in 1..Len(toBroker') :
                                /\ toBroker'[j].method \in {"content", "body"}
                                /\ toBroker'[j].id = sent'[k] /\ new[j] = 0
        BY <2>1 DEF Arrives
      <4>1. CASE k \in 1..Len(sent) /\ sent'[k] = sent[k]
        <5>1. \/ \E i \in 1..Len(received) : received[i] = sent[k]
              \/ \E j \in 1..Len(toBroker) :
                    /\ toBroker[j].method \in {"content", "body"}
                    /\ toBroker[j].id = sent[k] /\ left[j] = 0
          BY <2>1, <3>2, <4>1 DEF Stream, Arrives, Settled
        <5>2. \A j \in 1..Len(toBroker) : /\ toBroker'[j] = toBroker[j] /\ new[j] = left[j]
                                          /\ j \in 1..Len(toBroker')
          BY <2>2, <3>3, <3>6
        <5> QED BY <2>1, <4>1, <5>1, <5>2
      <4>2. CASE sent' = Append(sent, current.id) /\ k = Len(sent) + 1
        <5>1. op' = "none" /\ pc \in {"content", "body"}
          <6>1. sent' # sent
            BY <2>2, <2>3, <4>2
          <6> QED BY <1>2, <6>1, FrameIsSent
        <5>2. sent'[k] = published
          BY <2>1, <2>3, <4>2
        <5>3. Len(toBroker) + 1 \in 1..Len(toBroker') /\ new[Len(toBroker) + 1] = 0
          BY <2>2, <3>3, <3>5, <3>6, <5>1
        <5> QED BY <3>3, <3>8, <5>1, <5>2, <5>3
      <4>3. sent' = sent \/ sent' = Append(sent, current.id)
        BY <1>2, FrameIsSent
      <4> QED BY <2>3, <4>1, <4>2, <4>3
    <3>13. Stream(new)'
      BY <3>9, <3>10, <3>11, <3>12 DEF Stream
    <3> QED BY <3>13
  <2> QED BY <2>4, <2>5, <2>6 DEF MessagesInv
<1> QED BY <1>1, <1>2

-----------------------------------------------------------------------------
(* A frame is read by the broker.                                          *)

(* Only a frame of a message, on an open channel, counts.                  *)
LEMMA ReadOther ==
    ASSUME BrokerReads, ~(session = "open" /\ channel = "open" /\ Head(toBroker).method \in Contents)
    PROVE  received' = received
BY DEF BrokerReads, Handshake, OnChannel, ClosesConnection, ClosesChannel, Contents, brokerVars

LEMMA ReadContent ==
    ASSUME BrokerReads, session = "open", channel = "open", Head(toBroker).method \in Contents
    PROVE  LET f    == Head(toBroker)
               left == IF f.method = "method" THEN f.size + 1 ELSE partial.left - Taken(f)
           IN  IF left = 0 THEN received' = Append(received, f.id)
               ELSE partial' = [id |-> f.id, left |-> left] /\ received' = received
<1>1. ~Handshake(Head(toBroker))
  BY DEF Handshake, Contents
<1>2. Head(toBroker) # ConnectionClose
  BY DEF ConnectionClose, Frame, Contents
<1>3. DOMAIN Expected = {"accepted", "started", "tuning", "tuned"}
  BY DEF Expected
<1>4. OnChannel(Head(toBroker))
  BY <1>1, <1>2, <1>3 DEF BrokerReads
<1>5. CASE Head(toBroker).method = "method"
  BY <1>4, <1>5 DEF OnChannel
<1>6. CASE Head(toBroker).method # "method"
  BY <1>4, <1>6 DEF OnChannel, Contents
<1> QED BY <1>5, <1>6

(* What is read on a connection in use leaves it open, or is a close.      *)
LEMMA ReadInUse ==
    ASSUME SessionInv, BrokerReads, connected
    PROVE  /\ Head(toBroker).method \in Contents \cup Closes
           /\ InUse' => InUse /\ Head(toBroker).method \in Contents
<1>1. /\ session \in {"open", "closing", "closed"}
      /\ Head(toBroker).method \in Contents \cup Closes
      /\ ~Handshake(Head(toBroker))
  BY ReadWhenConnected
<1>2. DOMAIN Expected = {"accepted", "started", "tuning", "tuned"}
  BY DEF Expected
<1>3. InUse' => session = "open" /\ channel = "open" /\ Head(toBroker).method \in Contents
  BY <1>1, <1>2
  DEF BrokerReads, OnChannel, ClosesChannel, Contents, Closes, brokerVars, InUse
<1> QED BY <1>1, <1>3 DEF InUse

LEMMA ReadMessages ==
    ASSUME SessionInv, MessagesInv, BrokerReads
    PROVE  MessagesInv'
<1>1. /\ tcp = "up" /\ tcp' = "up" /\ toBroker # <<>> /\ toBroker' = Tail(toBroker)
      /\ UNCHANGED <<op, pc, current, connected, sent, published>>
      /\ published \in Nat /\ SessionTypes /\ Places
  BY ReadFacts DEF SessionInv, SessionTypes, clientVars
<1>2. /\ toBroker \in Seq(Requests) /\ Head(toBroker) \in Requests
      /\ Head(toBroker) = toBroker[1] /\ 1 \in 1..Len(toBroker)
      /\ Len(toBroker') = Len(toBroker) - 1 /\ Len(toBroker) \in Nat
      /\ \A k \in 1..Len(toBroker') : toBroker'[k] = toBroker[k + 1] /\ k + 1 \in 1..Len(toBroker)
  BY <1>1, OneLess DEF SessionTypes
<1>3. NothingEarly'
  BY <1>1, <1>2 DEF MessagesInv, NothingEarly, IsContent
<1>4. CASE ~(session = "open" /\ channel = "open" /\ Head(toBroker).method \in Contents)
  <2>1. received' = received
    BY <1>4, ReadOther
  <2>2. MessageTypes' /\ NumbersRise'
    BY <1>1, <2>1 DEF MessagesInv, MessageTypes, NumbersRise, Rising
  <2>3. ~InUse'
    <3>1. ~connected => ~InUse'
      BY <1>1 DEF InUse
    <3>2. connected => ~InUse'
      BY <1>4, ReadInUse DEF InUse
    <3> QED BY <3>1, <3>2
  <2> QED BY <1>3, <2>2, <2>3 DEF MessagesInv
<1>5. CASE session = "open" /\ channel = "open" /\ Head(toBroker).method \in Contents
  <2> DEFINE f == Head(toBroker)
             n == Len(toBroker)
  <2>1. InUse /\ IsContent(1)
    BY <1>2, <1>5 DEF InUse, MessagesInv, NothingEarly, IsContent
  <2>2. PICK left \in [0..Len(toBroker) -> Nat] : Stream(left)
    BY <2>1 DEF MessagesInv
  <2>3. f.id \in Nat /\ f.size \in Nat /\ f = toBroker[1]
    BY <1>2, <1>5, ContentFrame
  <2>4. \A j \in 0..n : left[j] \in Nat
    BY <2>2
  <2>5. left[1] = IF f.method = "method" THEN f.size + 1 ELSE partial.left - Taken(f)
    <3>1. /\ left[0] # 0 => partial.left = left[0]
          /\ f.method = "method" => left[1] = f.size + 1
          /\ f.method # "method" => left[1 - 1] # 0 /\ left[1] = left[1 - 1] - Taken(f)
      BY <1>2, <2>1, <2>2, <2>3 DEF Stream, Frames
    <3> QED BY <3>1
  <2>6. /\ left[1] = 0 => received' = Append(received, f.id)
        /\ left[1] # 0 => partial'.left = left[1] /\ received' = received
    BY <1>5, <2>5, ReadContent
  <2>7. /\ f.id <= published
        /\ op = "publish" /\ pc = "method" => f.id < published
        /\ \A k \in 1..Len(received) : received[k] < f.id
    BY <1>2, <2>1, <2>2, <2>3 DEF Stream, Order
  <2>8. \A k \in 2..n : IsContent(k) /\ left[1] = 0 => f.id < toBroker[k].id
    <3> SUFFICES ASSUME NEW k \in 2..n, IsContent(k), left[1] = 0 PROVE f.id < toBroker[k].id
      OBVIOUS
    <3>1. k \in 1..n /\ 2 \in 1..n /\ 1 < 2
      BY <1>2
    <3>2. IsContent(2) /\ (k # 2 => toBroker[2].id <= toBroker[k].id)
      BY <2>2, <3>1 DEF Stream, Order
    <3>3. toBroker[2].method = "method"
      <4>1. toBroker[2].method # "method" => left[2 - 1] # 0
        BY <2>2, <3>1, <3>2 DEF Stream, Frames
      <4> QED BY <4>1
    <3>4. f.id < toBroker[2].id
      BY <1>2, <2>2, <2>3, <3>1, <3>2, <3>3 DEF Stream, Order
    <3>5. toBroker[2].id \in Nat /\ toBroker[k].id \in Nat
      BY <1>2, <3>1, <3>2, ElementOfSeq, ContentFrame DEF IsContent
    <3> QED BY <2>3, <3>2, <3>4, <3>5
  <2>9. left[1] = 0 /\ op = "publish" => f.id < published
    <3> SUFFICES ASSUME left[1] = 0, op = "publish", pc # "method" PROVE f.id < published
      BY <2>7
    <3>1. pc \in {"content", "body"}
      BY <1>1 DEF Places, Contents
    <3>2. left[n] # 0
      <4>1. MessageTypes /\ current.left \in Nat
        BY <1>1 DEF MessagesInv, SessionTypes, Messages
      <4> QED BY <2>2, <3>1, <4>1 DEF Stream, SoFar, MessageTypes
    <3>3. 2 \in 2..n /\ 2 \in 1..n
      BY <1>2, <3>2
    <3>4. IsContent(2)
      <4>1. Settled
        BY <1>1 DEF Settled, Places
      <4> QED BY <3>3, <4>1 DEF SessionInv, LiveConnection, OnlyContents, IsContent
    <3>5. f.id < toBroker[2].id /\ toBroker[2].id <= published
      BY <2>2, <2>8, <3>3, <3>4 DEF Stream, Order
    <3>6. toBroker[2].id \in Nat
      BY <1>2, <3>3, <3>4, ElementOfSeq, ContentFrame DEF IsContent
    <3> QED BY <1>1, <2>3, <3>5, <3>6
  <2> HIDE DEF f
  <2>10. /\ received \in Seq(Nat) /\ Append(received, f.id) \in Seq(Nat)
         /\ Len(received) \in Nat /\ Len(Append(received, f.id)) = Len(received) + 1
         /\ Append(received, f.id)[Len(received) + 1] = f.id
         /\ \A k \in 1..Len(received) : Append(received, f.id)[k] = received[k]
         /\ \A k \in 1..(Len(received) + 1) : k \in 1..Len(received) \/ k = Len(received) + 1
         /\ \A k \in 1..Len(received) : received[k] \in Nat
         /\ DOMAIN received = 1..Len(received)
         /\ DOMAIN Append(received, f.id) = 1..(Len(received) + 1)
    <3>1. received \in Seq(Nat)
      BY DEF MessagesInv, MessageTypes
    <3>2. Append(received, f.id) \in Seq(Nat)
      BY <2>3, <3>1, OneMore
    <3> QED BY <2>3, <3>1, <3>2, OneMore, LenProperties
  <2>11. MessageTypes'
    BY <1>1, <2>6, <2>10 DEF MessagesInv, MessageTypes
  <2>12. NumbersRise'
    <3>1. CASE left[1] # 0
      BY <1>1, <2>6, <3>1 DEF MessagesInv, NumbersRise, Rising
    <3>2. CASE left[1] = 0
      <4>1. received' = Append(received, f.id)
        BY <2>6, <3>2
      <4>2. Rising(received')
        <5> SUFFICES ASSUME NEW j \in DOMAIN received', NEW k \in DOMAIN received', j < k
                     PROVE  received'[j] < received'[k]
          BY DEF Rising
        <5>1. j \in 1..Len(received) /\ received'[j] = received[j]
          BY <2>10, <4>1
        <5>2. CASE k \in 1..Len(received)
          <6>1. received'[k] = received[k] /\ k \in DOMAIN received /\ j \in DOMAIN received
            BY <2>10, <4>1, <5>1, <5>2
          <6> QED BY <5>1, <6>1 DEF MessagesInv, NumbersRise, Rising
        <5>3. CASE k = Len(received) + 1
          BY <2>7, <2>10, <4>1, <5>1, <5>3
        <5> QED BY <2>10, <4>1, <5>2, <5>3
      <4>3. \A k \in 1..Len(received') : received'[k] <= published
                                         /\ (op = "publish" => received'[k] < published)
        <5>1. \A k \in 1..Len(received) : received'[k] = received[k] /\ received[k] <= published
                                          /\ (op = "publish" => received[k] < published)
          BY <2>10, <4>1 DEF MessagesInv, NumbersRise
        <5>2. received'[Len(received) + 1] = f.id /\ Len(received') = Len(received) + 1
          BY <2>10, <4>1
        <5> QED BY <2>7, <2>9, <2>10, <3>2, <5>1, <5>2
      <4> QED BY <1>1, <4>2, <4>3 DEF NumbersRise
    <3> QED BY <3>1, <3>2
  <2>13. ASSUME InUse' PROVE \E l \in [0..Len(toBroker') -> Nat] : Stream(l)'
    <3>1. PICK new \in [0..Len(toBroker') -> Nat] : \A j \in 0..(n - 1) : new[j] = left[j + 1]
      <4> DEFINE g == [j \in 0..(n - 1) |-> left[j + 1]]
      <4>1. g \in [0..Len(toBroker') -> Nat] /\ \A j \in 0..(n - 1) : g[j] = left[j + 1]
        BY <1>2, <2>4
      <4> QED BY <4>1
    <3>2. \A j \in 1..Len(toBroker') :
             /\ toBroker'[j] = toBroker[j + 1] /\ (IsContent(j)' <=> IsContent(j + 1))
             /\ j + 1 \in 2..n /\ j + 1 \in 1..n /\ new[j] = left[j + 1]
             /\ new[j - 1] = left[(j + 1) - 1]
      <4> SUFFICES ASSUME NEW j \in 1..Len(toBroker')
                   PROVE  /\ toBroker'[j] = toBroker[j + 1] /\ (IsContent(j)' <=> IsContent(j + 1))
                          /\ j + 1 \in 2..n /\ j + 1 \in 1..n /\ new[j] = left[j + 1]
                          /\ new[j - 1] = left[(j + 1) - 1]
        OBVIOUS
      <4>1. j \in 0..(n - 1) /\ j - 1 \in 0..(n - 1) /\ j + 1 \in 2..n /\ j + 1 \in 1..n
            /\ (j - 1) + 1 = (j + 1) - 1
        BY <1>2
      <4>2. toBroker'[j] = toBroker[j + 1]
        BY <1>2
      <4>3. new[j] = left[j + 1] /\ new[j - 1] = left[(j - 1) + 1]
        BY <3>1, <4>1
      <4> QED BY <4>1, <4>2, <4>3 DEF IsContent
    <3>3. Frames(new)'
      <4>1. new[0] = left[1]
        BY <1>2, <3>1
      <4>2. \A j \in 1..Len(toBroker') : IsContent(j)' =>
               /\ toBroker'[j].method = "method" =>
                     new[j - 1] = 0 /\ new[j] = toBroker'[j].size + 1
               /\ toBroker'[j].method # "method" =>
                     new[j - 1] # 0 /\ new[j] = new[j - 1] - Taken(toBroker'[j])
        BY <2>2, <3>2 DEF Stream, Frames
      <4> QED BY <2>6, <4>1, <4>2 DEF Frames
    <3>4. Order'
      <4>1. ASSUME NEW j \in 1..Len(toBroker'), IsContent(j)'
            PROVE  /\ toBroker'[j].id <= published'
                   /\ op' = "publish" /\ pc' = "method" => toBroker'[j].id < published'
                   /\ \A k \in 1..Len(received') : received'[k] < toBroker'[j].id
        <5>1. /\ toBroker[j + 1].id <= published
              /\ op = "publish" /\ pc = "method" => toBroker[j + 1].id < published
              /\ \A k \in 1..Len(received) : received[k] < toBroker[j + 1].id
          BY <2>2, <3>2, <4>1 DEF Stream, Order
        <5>2. left[1] = 0 => f.id < toBroker[j + 1].id
          BY <2>8, <3>2, <4>1 DEF f
        <5>3. \A k \in 1..Len(received') : received'[k] < toBroker[j + 1].id
          <6>1. CASE left[1] # 0
            BY <2>6, <5>1, <6>1
          <6>2. CASE left[1] = 0
            BY <2>6, <2>10, <5>1, <5>2, <6>2
          <6> QED BY <6>1, <6>2
        <5> QED BY <1>1, <3>2, <5>1, <5>3
      <4>2. ASSUME NEW j \in 1..Len(toBroker'), NEW k \in 1..Len(toBroker'), j < k, IsContent(k)'
            PROVE  /\ IsContent(j)' /\ toBroker'[j].id <= toBroker'[k].id
                   /\ toBroker'[k].method = "method" => toBroker'[j].id < toBroker'[k].id
        <5>1. j + 1 < k + 1 /\ j + 1 \in 1..n /\ k + 1 \in 1..n /\ IsContent(k + 1)
          BY <3>2, <4>2
        <5>2. /\ IsContent(j + 1) /\ toBroker[j + 1].id <= toBroker[k + 1].id
              /\ toBroker[k + 1].method = "method" => toBroker[j + 1].id < toBroker[k + 1].id
          BY <2>2, <5>1 DEF Stream, Order
        <5> QED BY <3>2, <5>2
      <4> QED BY <4>1, <4>2 DEF Order
    <3>5. SoFar(new)'
      <4>1. new[Len(toBroker')] = left[Len(toBroker)]
        <5>1. n - 1 \in 0..(n - 1) /\ (n - 1) + 1 = n
          BY <1>2
        <5> QED BY <1>2, <3>1, <5>1
      <4> QED BY <1>1, <2>2, <4>1 DEF Stream, SoFar
    <3>6. Arrives(new)'
      <4> SUFFICES ASSUME Settled', trouble' = "none", NEW k \in 1..Len(sent')
                   PROVE  \/ \E i \in 1..Len(received') : received'[i] = sent'[k]
                          \/ \E j \in 1..Len(toBroker') :
                                /\ toBroker'[j].method \in {"content", "body"}
                                /\ toBroker'[j].id = sent'[k] /\ new[j] = 0
        BY DEF Arrives
      <4>1. Settled /\ trouble = "none"
        <5>1. connected
          BY <2>1 DEF InUse
        <5> QED BY <1>1, <5>1, TroubleStays DEF Settled
      <4>2. \/ \E i \in 1..Len(received) : received[i] = sent[k]
            \/ \E j \in 1..Len(toBroker) :
                  /\ toBroker[j].method \in {"content", "body"}
                  /\ toBroker[j].id = sent[k] /\ left[j] = 0
        BY <1>1, <2>2, <4>1 DEF Stream, Arrives
      <4>3. CASE \E i \in 1..Len(received) : received[i] = sent[k]
        <5>1. PICK i \in 1..Len(received) : received[i] = sent[k]
          BY <4>3
        <5>2. i \in 1..Len(received') /\ received'[i] = received[i]
          <6>1. CASE left[1] = 0
            <7>1. received' = Append(received, f.id)
              BY <2>6, <6>1
            <7>2. Append(received, f.id)[i] = received[i]
                  /\ i \in 1..Len(Append(received, f.id))
              BY <2>10, <5>1
            <7> QED BY <7>1, <7>2
          <6>2. CASE left[1] # 0
            BY <2>6, <6>2
          <6> QED BY <6>1, <6>2
        <5> QED BY <1>1, <5>1, <5>2
      <4>4. ASSUME NEW j \in 1..Len(toBroker), toBroker[j].method \in {"content", "body"},
                   toBroker[j].id = sent[k], left[j] = 0
            PROVE  \/ \E i \in 1..Len(received') : received'[i] = sent'[k]
                   \/ \E i \in 1..Len(toBroker') :
                         /\ toBroker'[i].method \in {"content", "body"}
                         /\ toBroker'[i].id = sent'[k] /\ new[i] = 0
        <5>1. CASE j = 1
          <6>1. received'[Len(received) + 1] = f.id /\ Len(received) + 1 \in 1..Len(received')
            BY <2>6, <2>10, <4>4, <5>1
          <6> QED BY <1>1, <2>3, <4>4, <5>1, <6>1 DEF f
        <5>2. CASE j # 1
          <6>1. j - 1 \in 1..Len(toBroker') /\ (j - 1) + 1 = j
            BY <1>2, <5>2
          <6>2. toBroker'[j - 1] = toBroker[j] /\ new[j - 1] = left[j]
            BY <3>2, <6>1
          <6> QED BY <1>1, <4>4, <6>1, <6>2
        <5> QED BY <5>1, <5>2
      <4> QED BY <4>2, <4>3, <4>4
    <3>7. Stream(new)'
      BY <3>3, <3>4, <3>5, <3>6 DEF Stream
    <3> QED BY <3>7
  <2> QED BY <1>3, <2>11, <2>12, <2>13 DEF MessagesInv
<1> QED BY <1>4, <1>5

-----------------------------------------------------------------------------
(* Every step.                                                             *)

LEMMA InitMessages == Init => MessagesInv
<1> SUFFICES ASSUME Init PROVE MessagesInv
  OBVIOUS
<1>1. <<>> \in Seq(Nat) /\ Len(<<>>) = 0 /\ DOMAIN <<>> = {}
  BY EmptySeq
<1> QED BY <1>1 DEF Init, MessagesInv, MessageTypes, NumbersRise, Rising, NothingEarly, InUse

LEMMA NextMessages == SessionInv /\ MessagesInv /\ [Next]_sessionVars => MessagesInv'
<1> SUFFICES ASSUME SessionInv, MessagesInv, [Next]_sessionVars PROVE MessagesInv'
  OBVIOUS
<1>1. CASE UNCHANGED sessionVars
  <2>1. UNCHANGED <<op, pc, current, sent, received, published, tcp, session, connected,
                    toBroker, channel, partial, trouble>>
    BY <1>1 DEF sessionVars, clientVars, networkVars, brokerVars, bounds
  <2>2. MessageTypes' /\ NumbersRise' /\ NothingEarly' /\ (InUse' <=> InUse)
    BY <2>1 DEF MessagesInv, MessageTypes, NumbersRise, Rising, NothingEarly, IsContent, InUse
  <2>3. ASSUME NEW left, Stream(left) PROVE Stream(left)'
    BY <2>1, <2>3 DEF Stream, Frames, Order, SoFar, Arrives, IsContent, Settled
  <2> QED BY <2>1, <2>2, <2>3 DEF MessagesInv
<1> QED BY <1>1, ConnectMessages, PublishMessages, DisconnectMessages, SendMessages,
           ReceiveMessages, DestroyMessages, LoginMessages, ReturnMessages, PublishSendMessages,
           ReadMessages, EndMessages DEF Next, ClientStep

(***************************************************************************)
(* What the broker has read of a message and the frames under way always   *)
(* continue one another, over any calls, faults and connections.           *)
(***************************************************************************)
THEOREM MessagesInvariance == Spec => [](SessionInv /\ MessagesInv)
<1>1. Init => SessionInv /\ MessagesInv
  BY InitSession, InitMessages
<1>2. SessionInv /\ MessagesInv /\ [Next]_sessionVars => SessionInv' /\ MessagesInv'
  BY NextSession, NextMessages
<1> QED BY <1>1, <1>2, PTL DEF Spec

(***************************************************************************)
(* WholeInOrder for every broker, any messages and any faults: the numbers *)
(* of the messages that the broker received rise, so that none comes twice *)
(* or early, and what n2a_amqp_publish called sent on a connection without *)
(* trouble arrived, or its last frame is under way.                        *)
(***************************************************************************)
THEOREM MessagesArrive == Spec => []WholeInOrder
<1>1. SessionInv /\ MessagesInv => WholeInOrder
  <2> SUFFICES ASSUME SessionInv, MessagesInv PROVE WholeInOrder
    OBVIOUS
  <2>1. /\ received \in Seq(Nat) /\ sent \in Seq(Nat) /\ toBroker \in Seq(Requests)
        /\ DOMAIN received = 1..Len(received) /\ DOMAIN sent = 1..Len(sent)
        /\ DOMAIN toBroker = 1..Len(toBroker)
    BY DEF MessagesInv, MessageTypes, SessionInv, SessionTypes
  <2>2. \A j, k \in DOMAIN received : j < k => received[j] < received[k]
    BY DEF MessagesInv, NumbersRise, Rising
  <2>3. ASSUME connected, trouble = "none", op = "none", NEW id \in ToSet(sent)
        PROVE  \/ id \in ToSet(received)
               \/ \E j \in DOMAIN toBroker :
                     toBroker[j].method \in {"content", "body"} /\ toBroker[j].id = id
    <3>1. Settled /\ InUse
      <4>1. Settled /\ pc = "idle"
        BY <2>3 DEF Settled, SessionInv, Places
      <4> QED BY <2>3, <4>1 DEF SessionInv, LiveConnection, AlignedRequest, Broker, InUse
    <3>2. PICK left \in [0..Len(toBroker) -> Nat] : Stream(left)
      BY <3>1 DEF MessagesInv
    <3>3. PICK k \in 1..Len(sent) : sent[k] = id
      BY <2>1, <2>3 DEF ToSet
    <3>4. \/ \E i \in 1..Len(received) : received[i] = id
          \/ \E j \in 1..Len(toBroker) :
                toBroker[j].method \in {"content", "body"} /\ toBroker[j].id = id
      BY <2>3, <3>1, <3>2, <3>3 DEF Stream, Arrives
    <3> QED BY <2>1, <3>4 DEF ToSet
  <2> QED BY <2>2, <2>3 DEF WholeInOrder
<1> QED BY <1>1, MessagesInvariance, PTL
=============================================================================
