--------------------------- MODULE AmqpWireProofs ---------------------------
(***************************************************************************)
(* Theorems about AmqpWire, for all lists of frames, sizes of frames and   *)
(* pieces that recv may deliver: what amqp_handle_input hands over is what *)
(* was sent.                                                               *)
(***************************************************************************)
EXTENDS AmqpWire, NaturalSets, SequenceTheorems

-----------------------------------------------------------------------------
(* Sequences.                                                              *)

LEMMA FunctionIsSeq ==
    ASSUME NEW n \in Nat, NEW S, NEW f \in [1..n -> S]
    PROVE  f \in Seq(S) /\ Len(f) = n
<1>1. f = [i \in 1..n |-> f[i]] /\ \A i \in 1..n : f[i] \in S
  OBVIOUS
<1>2. [i \in 1..n |-> f[i]] \in Seq(S) /\ Len([i \in 1..n |-> f[i]]) = n
  BY <1>1
<1> QED BY <1>1, <1>2

(* r is s followed by t.                                                   *)
Joins(r, s, t) ==
    /\ Len(r) = Len(s) + Len(t)
    /\ \A i \in 1..Len(s) : r[i] = s[i]
    /\ \A i \in 1..Len(t) : r[Len(s) + i] = t[i]

LEMMA Concat ==
    ASSUME NEW S, NEW s \in Seq(S), NEW t \in Seq(S)
    PROVE  s \o t \in Seq(S) /\ Joins(s \o t, s, t)
BY DEF Joins

-----------------------------------------------------------------------------
(* Integers as octets.                                                     *)

LEMMA Division ==
    ASSUME NEW v \in Nat
    PROVE  /\ v \div 256 \in Nat /\ v % 256 \in Octets
           /\ v = 256 * (v \div 256) + (v % 256)
BY SMT DEF Octets

LEMMA BigEndianType ==
    ASSUME NEW v \in Nat, NEW n \in 0..4
    PROVE  BigEndian(n, v) \in Seq(Octets) /\ Len(BigEndian(n, v)) = n
<1>1. v \div 256 \in Nat /\ (v \div 256) \div 256 \in Nat
      /\ ((v \div 256) \div 256) \div 256 \in Nat
  BY Division
<1>2. \A k \in 0..3 : Shifted(v, k) \in Nat
  BY <1>1 DEF Shifted
<1>3. \A j \in 1..n : Shifted(v, n - j) % 256 \in Octets
  BY <1>2, Division
<1>4. BigEndian(n, v) \in [1..n -> Octets]
  BY <1>3 DEF BigEndian
<1> QED BY <1>4, FunctionIsSeq

(* An octet is its own remainder.                                         *)
LEMMA OneOctet == \A m \in Octets : m % 256 = m
BY DEF Octets

LEMMA TwoOctets ==
    ASSUME NEW v \in Channels
    PROVE  /\ BigEndian(2, v) \in Seq(Octets) /\ Len(BigEndian(2, v)) = 2
           /\ Number(BigEndian(2, v)) = v
<1> DEFINE b == BigEndian(2, v)
           v1 == v \div 256
<1>1. b = [j \in 1..2 |-> Shifted(v, 2 - j) % 256]
  BY DEF BigEndian
<1>2. Shifted(v, 0) = v /\ Shifted(v, 1) = v1
  BY SMTT(20) DEF Shifted
<1>3. v \in Nat /\ v <= 65535
  BY SMTT(40) DEF Channels
<1>4. v1 \in Nat /\ (v % 256) \in Octets /\ v = 256 * v1 + (v % 256)
  BY <1>3, Division
<1> HIDE DEF v1
<1>5. v1 % 256 = v1 /\ v1 \in Octets
  <2> DEFINE rest == v % 256
  <2>1. rest \in Nat /\ v = 256 * v1 + rest
    BY <1>4 DEF Octets
  <2> HIDE DEF rest
  <2>2. v1 < 256
    BY <1>3, <1>4, <2>1
  <2>3. v1 \in Octets
    BY <1>4, <2>2 DEF Octets
  <2> QED BY <2>3, OneOctet
<1>6. b \in [1..2 -> Octets] /\ b[1] = v1 /\ b[2] = v % 256
  BY <1>1, <1>2, <1>4, <1>5
<1> HIDE DEF b
<1>7. b \in Seq(Octets) /\ Len(b) = 2
  <2>1. 2 \in Nat /\ b \in [1..2 -> Octets]
    BY <1>6
  <2> QED BY <2>1, FunctionIsSeq
<1>8. Number(b) = 256 * b[1] + b[2]
  BY <1>7 DEF Number
<1>9. Number(b) = v
  BY <1>4, <1>6, <1>8
<1> QED BY <1>7, <1>9 DEF b

LEMMA FourOctets ==
    ASSUME NEW v \in Nat, v <= MaxInt
    PROVE  /\ BigEndian(4, v) \in Seq(Octets) /\ Len(BigEndian(4, v)) = 4
           /\ Number(BigEndian(4, v)) = v /\ BigEndian(4, v)[1] < 128
<1> DEFINE b == BigEndian(4, v)
           v1 == v \div 256
           v2 == v1 \div 256
           v3 == v2 \div 256
<1>1. b = [j \in 1..4 |-> Shifted(v, 4 - j) % 256]
  BY DEF BigEndian
<1>2. Shifted(v, 0) = v /\ Shifted(v, 1) = v1 /\ Shifted(v, 2) = v2 /\ Shifted(v, 3) = v3
  BY DEF Shifted
<1>3. v3 < 128
  BY SMT DEF MaxInt
<1>4. v1 \in Nat /\ (v % 256) \in Octets /\ v = 256 * v1 + (v % 256)
  BY Division
<1>5. v2 \in Nat /\ (v1 % 256) \in Octets /\ v1 = 256 * v2 + (v1 % 256)
  BY <1>4, Division
<1>6. v3 \in Nat /\ (v2 % 256) \in Octets /\ v2 = 256 * v3 + (v2 % 256)
  BY <1>5, Division
<1> HIDE DEF v1, v2, v3
<1>7. v3 % 256 = v3 /\ v3 \in Octets
  BY <1>3, <1>6 DEF Octets
<1>8. b \in [1..4 -> Octets] /\ b[1] = v3 /\ b[2] = v2 % 256 /\ b[3] = v1 % 256 /\ b[4] = v % 256
  BY <1>1, <1>2, <1>4, <1>5, <1>6, <1>7
<1> HIDE DEF b
<1>9. b \in Seq(Octets) /\ Len(b) = 4
  <2>1. 4 \in Nat /\ b \in [1..4 -> Octets]
    BY <1>8
  <2> QED BY <2>1, FunctionIsSeq
<1>10. Number(b) = 256 * (256 * (256 * b[1] + b[2]) + b[3]) + b[4]
  BY <1>9 DEF Number
<1> DEFINE r2 == v2 % 256
           r1 == v1 % 256
           r0 == v % 256
<1>11. Number(b) = 256 * (256 * (256 * v3 + r2) + r1) + r0
  BY <1>8, <1>10
<1>12. v = 256 * v1 + r0 /\ v1 = 256 * v2 + r1 /\ v2 = 256 * v3 + r2
  BY <1>4, <1>5, <1>6
<1> HIDE DEF r0, r1, r2
<1>13. Number(b) = v
  BY <1>11, <1>12
<1>14. b[1] < 128
  BY <1>3, <1>8
<1> QED BY <1>9, <1>13, <1>14 DEF b

-----------------------------------------------------------------------------
(* A frame as octets.                                                      *)

LEMMA SizesOfFrames ==
    /\ HeaderSize = 7 /\ FooterSize = 1 /\ FrameEnd = 206
    /\ FrameMax \in Nat /\ FrameMax >= 9 /\ FrameMax <= MaxInt
    /\ FragmentSize \in Nat /\ FragmentSize >= 1 /\ FragmentSize + 8 = FrameMax
<1>1. MaxInt \in Nat
  BY SMT DEF MaxInt
<1>2. FrameMax \in 9..MaxInt
  BY WireAssumption
<1> QED BY <1>1, <1>2 DEF HeaderSize, FooterSize, FrameEnd, FragmentSize

(* The octets of an envelope, one by one.                                  *)
LEMMA EnvelopeOctets ==
    ASSUME NEW type \in Octets, NEW channel \in Channels, NEW payload \in Seq(Octets)
    PROVE  LET b == Enveloped(type, channel, payload)
               c == BigEndian(2, channel)
               n == BigEndian(4, Len(payload))
           IN  /\ b \in Seq(Octets) /\ Len(b) = Len(payload) + 8
               /\ b[1] = type /\ b[Len(b)] = FrameEnd
               /\ b[2] = c[1] /\ b[3] = c[2]
               /\ b[4] = n[1] /\ b[5] = n[2] /\ b[6] = n[3] /\ b[7] = n[4]
               /\ \A i \in 1..Len(payload) : b[7 + i] = payload[i]
<1> DEFINE c == BigEndian(2, channel)
           n == BigEndian(4, Len(payload))
           b == Enveloped(type, channel, payload)
<1>1. c \in Seq(Octets) /\ Len(c) = 2
  BY TwoOctets
<1>2. n \in Seq(Octets) /\ Len(n) = 4
  BY BigEndianType
<1>3. <<type>> \in Seq(Octets) /\ Len(<<type>>) = 1 /\ <<type>>[1] = type
  OBVIOUS
<1>4. <<FrameEnd>> \in Seq(Octets) /\ Len(<<FrameEnd>>) = 1 /\ <<FrameEnd>>[1] = FrameEnd
  BY DEF FrameEnd, Octets
<1>5. b = <<type>> \o c \o n \o payload \o <<FrameEnd>>
  BY DEF Enveloped
<1> HIDE DEF b, c, n
<1> DEFINE first == <<type>> \o c
           head == first \o n
           most == head \o payload
<1>6. /\ first \in Seq(Octets) /\ Len(first) = 3
      /\ first[1] = type /\ first[2] = c[1] /\ first[3] = c[2]
  <2>1. first \in Seq(Octets) /\ Joins(first, <<type>>, c)
    BY <1>1, <1>3, Concat
  <2>2. first[1] = <<type>>[1] /\ first[1 + 1] = c[1] /\ first[1 + 2] = c[2]
    BY <1>1, <1>3, <2>1 DEF Joins
  <2> QED BY <1>1, <1>3, <2>1, <2>2 DEF Joins
<1> HIDE DEF first
<1>7. /\ head \in Seq(Octets) /\ Len(head) = 7
      /\ head[1] = first[1] /\ head[2] = first[2] /\ head[3] = first[3]
      /\ head[4] = n[1] /\ head[5] = n[2] /\ head[6] = n[3] /\ head[7] = n[4]
  <2>1. head \in Seq(Octets) /\ Joins(head, first, n)
    BY <1>2, <1>6, Concat
  <2>2. head[1] = first[1] /\ head[2] = first[2] /\ head[3] = first[3]
    BY <1>6, <2>1 DEF Joins
  <2>3. head[3 + 1] = n[1] /\ head[3 + 2] = n[2] /\ head[3 + 3] = n[3] /\ head[3 + 4] = n[4]
    BY <1>2, <1>6, <2>1 DEF Joins
  <2> QED BY <1>2, <1>6, <2>1, <2>2, <2>3 DEF Joins
<1> HIDE DEF head
<1>8. /\ most \in Seq(Octets) /\ Len(most) = 7 + Len(payload)
      /\ \A i \in 1..7 : most[i] = head[i]
      /\ \A i \in 1..Len(payload) : most[7 + i] = payload[i]
  <2>1. most \in Seq(Octets) /\ Joins(most, head, payload)
    BY <1>7, Concat
  <2> QED BY <1>7, <2>1 DEF Joins
<1>9. b = most \o <<FrameEnd>>
  BY <1>5 DEF first, head
<1> HIDE DEF most
<1>10. /\ b \in Seq(Octets) /\ Len(b) = Len(payload) + 8 /\ b[Len(b)] = FrameEnd
       /\ \A i \in 1..7 + Len(payload) : b[i] = most[i]
  BY <1>4, <1>8, <1>9
<1>11. \A i \in 1..7 : b[i] = head[i]
  BY <1>8, <1>10
<1>12. \A i \in 1..Len(payload) : b[7 + i] = payload[i]
  BY <1>8, <1>10
<1> QED BY <1>6, <1>7, <1>10, <1>11, <1>12 DEF b, c, n

(* The number four octets spell is a natural number.                      *)
LEMMA NumberOfFour ==
    ASSUME NEW w \in Nat, NEW x \in Nat, NEW y \in Nat, NEW z \in Nat
    PROVE  256 * (256 * (256 * w + x) + y) + z \in Nat
<1>1. 256 * w + x \in Nat
  OBVIOUS
<1>2. \A m \in Nat, n \in Nat : 256 * m + n \in Nat
  OBVIOUS
<1> QED BY <1>1, <1>2

(* The size of a frame is at least that of an empty one, unless it wraps.  *)
SizeIs(b, size) ==
    IF Wraps(b) THEN size \in 0..7 /\ b[4] = 255
    ELSE /\ size = 256 * (256 * (256 * b[4] + b[5]) + b[6]) + b[7] + 8
         /\ size \in Nat /\ size >= 8

LEMMA FourthToSeventh ==
    ASSUME NEW b \in Seq(Octets), Len(b) >= 7
    PROVE  SizeIs(b, TargetSize(b)) /\ TargetSize(b) \in Nat
<1> DEFINE s == SubSeq(b, 4, 7)
<1>1. /\ s \in Seq(Octets) /\ Len(s) = 4
      /\ s[1] = b[4] /\ s[2] = b[5] /\ s[3] = b[6] /\ s[4] = b[7]
  OBVIOUS
<1>2. b[4] \in Octets /\ b[5] \in Octets /\ b[6] \in Octets /\ b[7] \in Octets
  OBVIOUS
<1>3. CASE Wraps(b)
  <2>1. b[7] >= 248 /\ b[4] = 255 /\ TargetSize(b) = b[7] - 248
    BY <1>3 DEF Wraps, TargetSize
  <2>2. \A x \in Octets : x >= 248 => x - 248 \in 0..7
    BY DEF Octets
  <2>3. TargetSize(b) \in 0..7
    BY <1>2, <2>1, <2>2
  <2> QED BY <1>3, <2>1, <2>3 DEF SizeIs
<1>4. CASE ~Wraps(b)
  <2>3. TargetSize(b) = Number(s) + 7 + 1
    BY <1>4 DEF TargetSize, HeaderSize, FooterSize
  <2> HIDE DEF s
  <2>4. Number(s) = 256 * (256 * (256 * b[4] + b[5]) + b[6]) + b[7]
    BY <1>1 DEF Number
  <2>5. \A x \in Octets : x \in Nat
    BY DEF Octets
  <2>6. b[4] \in Nat /\ b[5] \in Nat /\ b[6] \in Nat /\ b[7] \in Nat
    BY <1>2, <2>5
  <2> DEFINE n == 256 * (256 * (256 * b[4] + b[5]) + b[6]) + b[7]
  <2>7. n \in Nat
    BY <2>6, NumberOfFour, SMTT(20)
  <2>8. TargetSize(b) = n + 7 + 1
    BY <2>3, <2>4
  <2> HIDE DEF n
  <2>9. TargetSize(b) = n + 8 /\ n + 8 \in Nat /\ n + 8 >= 8
    BY <2>7, <2>8
  <2> QED BY <1>4, <2>9 DEF n, SizeIs
<1> QED BY <1>3, <1>4

LEMMA SizeNotWrapped ==
    ASSUME NEW b \in Seq(Octets), Len(b) >= 7, ~Wraps(b)
    PROVE  TargetSize(b) \in Nat /\ TargetSize(b) >= 8
BY FourthToSeventh DEF SizeIs

(* Sequences of octets that agree on the fourth to the seventh announce    *)
(* the same size.                                                          *)
LEMMA SameSize ==
    ASSUME NEW a \in Seq(Octets), NEW b \in Seq(Octets), Len(a) >= 7, Len(b) >= 7,
           \A i \in 1..7 : a[i] = b[i]
    PROVE  TargetSize(a) = TargetSize(b) /\ (Wraps(a) <=> Wraps(b))
<1>1. a[4] = b[4] /\ a[5] = b[5] /\ a[6] = b[6] /\ a[7] = b[7]
  OBVIOUS
<1>2. Wraps(a) <=> Wraps(b)
  BY <1>1 DEF Wraps
<1>3. SubSeq(a, 4, 7) = SubSeq(b, 4, 7)
  OBVIOUS
<1>4. TargetSize(a) = TargetSize(b)
  BY <1>1, <1>2, <1>3 DEF TargetSize
<1> QED BY <1>2, <1>4

(* What b is decoded to.                                                   *)
Decoded(b, size) ==
    DecodePayload(b[1], Number(SubSeq(b, 2, 3)), SubSeq(b, HeaderSize + 1, size - FooterSize))

LEMMA OutcomesAre ==
    ASSUME NEW raw, NEW size
    PROVE  /\ ~FooterOk(raw, size) => Outcomes(raw, size) = {Bad}
           /\ FooterOk(raw, size) /\ LongEnough(raw[1], size) =>
                 Outcomes(raw, size) = {Decoded(raw, size)}
BY DEF Outcomes, Decoded

LEMMA EnvelopeReads ==
    ASSUME NEW type \in Octets, NEW channel \in Channels, NEW payload \in Seq(Octets),
           Len(payload) <= MaxInt, Len(payload) >= FixedPart(type), FixedPart(type) \in Nat
    PROVE  LET b == Enveloped(type, channel, payload)
           IN  /\ TargetSize(b) = Len(b) /\ ~Wraps(b) /\ LongEnough(b[1], Len(b))
               /\ Outcomes(b, Len(b)) = {DecodePayload(type, channel, payload)}
<1> DEFINE b == Enveloped(type, channel, payload)
           c == BigEndian(2, channel)
           n == BigEndian(4, Len(payload))
<1>1. /\ b \in Seq(Octets) /\ Len(b) = Len(payload) + 8
      /\ b[1] = type /\ b[Len(b)] = FrameEnd
      /\ b[2] = c[1] /\ b[3] = c[2]
      /\ b[4] = n[1] /\ b[5] = n[2] /\ b[6] = n[3] /\ b[7] = n[4]
      /\ \A i \in 1..Len(payload) : b[7 + i] = payload[i]
  BY EnvelopeOctets
<1>2. c \in Seq(Octets) /\ Len(c) = 2 /\ Number(c) = channel
  BY TwoOctets
<1>3. n \in Seq(Octets) /\ Len(n) = 4 /\ Number(n) = Len(payload) /\ n[1] < 128
  BY FourOctets
<1> HIDE DEF b, c, n
<1>4. SubSeq(b, 2, 3) = c
  BY <1>1, <1>2
<1>5. SubSeq(b, 4, 7) = n
  BY <1>1, <1>3
<1>13. ~Wraps(b)
  BY <1>1, <1>3 DEF Wraps
<1>12. Len(payload) \in Nat /\ TargetSize(b) = Number(SubSeq(b, 4, 7)) + 7 + 1
  BY <1>13, SMT DEF TargetSize, HeaderSize, FooterSize
<1>6. SubSeq(b, 8, Len(b) - 1) = payload
  BY <1>1
<1>7. TargetSize(b) = Len(b)
  <2>1. Number(SubSeq(b, 4, 7)) = Len(payload)
    BY <1>3, <1>5
  <2> QED BY <1>1, <1>12, <2>1
<1>8. FooterOk(b, Len(b))
  BY <1>1, <1>12 DEF FooterOk
<1>9. HeaderSize + 1 = 8 /\ FooterSize = 1 /\ HeaderSize = 7
  BY DEF HeaderSize, FooterSize
<1>14. LongEnough(b[1], Len(b))
  BY <1>1, <1>9, <1>12 DEF LongEnough
<1>10. Outcomes(b, Len(b)) = {Decoded(b, Len(b))}
  BY <1>8, <1>14, OutcomesAre
<1>11. Decoded(b, Len(b)) = DecodePayload(type, channel, payload)
  BY <1>1, <1>2, <1>4, <1>6, <1>9 DEF Decoded
<1> QED BY <1>7, <1>10, <1>11, <1>13, <1>14 DEF b

-----------------------------------------------------------------------------
(* The things sent, and their octets.                                      *)

OctetsOf(x) == IF x.type = "octets" THEN x.bytes ELSE EncodeFrame(x)

IsHeartbeat(x) ==
    x.channel \in Channels /\ x = [type |-> "heartbeat", channel |-> x.channel]

IsBody(x) ==
    /\ x.channel \in Channels /\ x.bytes \in Seq(Octets) /\ Len(x.bytes) <= FragmentSize
    /\ x = [type |-> "body", channel |-> x.channel, bytes |-> x.bytes]

(* A frame for amqp_send_frame.                                            *)
IsFrame(x) == ReadBack(x) \/ IsHeartbeat(x) \/ IsBody(x)

Fits(x) == Len(EncodeFrame(x)) <= FrameMax

(* b is a frame that is read as r.                                         *)
FrameReads(b, r) ==
    /\ b \in Seq(Octets) /\ Len(b) >= 8 /\ TargetSize(b) = Len(b) /\ ~Wraps(b)
    /\ LongEnough(b[1], Len(b))
    /\ \A f \in Outcomes(b, Len(b)) : f.ok /\ f.value = r

LEMMA TypesOfFrames ==
    ASSUME NEW x, IsFrame(x)
    PROVE  /\ x.type \in {"method", "header", "body", "heartbeat"}
           /\ FrameType[x.type] \in {1, 2, 3, 8} /\ FrameType[x.type] \in Octets
           /\ x.channel \in Channels /\ Payload(x) \in Seq(Octets)
           /\ x.type = "body" <=> IsBody(x)
           /\ x.type \in {"method", "header"} <=> ReadBack(x)
<1>1. CASE ReadBack(x)
  <2>1. x.type \in {"method", "header"} /\ x.channel \in Channels
        /\ EncodedPayload(x) \in Seq(Octets)
    BY <1>1 DEF ReadBack
  <2>2. Payload(x) = EncodedPayload(x)
    BY <2>1 DEF Payload
  <2> QED BY <1>1, <2>1, <2>2 DEF FrameType, Octets, IsBody
<1>2. CASE IsHeartbeat(x)
  <2>1. x.type = "heartbeat"
    BY <1>2 DEF IsHeartbeat
  <2>2. Payload(x) = <<>> /\ <<>> \in Seq(Octets)
    BY <2>1 DEF Payload
  <2> QED BY <1>2, <2>1, <2>2 DEF FrameType, Octets, IsBody, IsHeartbeat, ReadBack
<1>3. CASE IsBody(x)
  <2>1. x.type = "body"
    BY <1>3 DEF IsBody
  <2>2. Payload(x) = x.bytes
    BY <2>1 DEF Payload
  <2> QED BY <1>3, <2>1, <2>2 DEF FrameType, Octets, IsBody, ReadBack
<1> QED BY <1>1, <1>2, <1>3 DEF IsFrame

LEMMA LengthOfFrame ==
    ASSUME NEW x, IsFrame(x)
    PROVE  /\ EncodeFrame(x) \in Seq(Octets)
           /\ Len(EncodeFrame(x)) = Len(Payload(x)) + 8
           /\ Len(Payload(x)) \in Nat
<1>1. FrameType[x.type] \in Octets /\ x.channel \in Channels /\ Payload(x) \in Seq(Octets)
  BY TypesOfFrames
<1>2. EncodeFrame(x) = Enveloped(FrameType[x.type], x.channel, Payload(x))
  BY DEF EncodeFrame
<1>3. Len(Payload(x)) \in Nat
  BY <1>1, LenProperties
<1> QED BY <1>1, <1>2, <1>3, EnvelopeOctets

LEMMA FrameIsRead ==
    ASSUME NEW x, IsFrame(x), Fits(x)
    PROVE  FrameReads(EncodeFrame(x), AsRead(x))
<1> DEFINE b == EncodeFrame(x)
           type == FrameType[x.type]
           payload == Payload(x)
<1>1. /\ x.type \in {"method", "header", "body", "heartbeat"}
      /\ type \in {1, 2, 3, 8} /\ type \in Octets
      /\ x.channel \in Channels /\ payload \in Seq(Octets)
  BY TypesOfFrames
<1>2. b = Enveloped(type, x.channel, payload)
  BY DEF EncodeFrame
<1>3. b \in Seq(Octets) /\ Len(b) = Len(payload) + 8 /\ Len(payload) \in Nat
  BY LengthOfFrame
<1>4. Len(payload) <= MaxInt
  <2>1. Len(b) <= FrameMax
    BY DEF Fits
  <2>2. MaxInt \in Int
    BY SMT DEF MaxInt
  <2> HIDE DEF b, payload
  <2> QED BY <1>3, <2>1, <2>2, SizesOfFrames
<1>8. Len(payload) >= FixedPart(type) /\ FixedPart(type) \in Nat
  <2>1. CASE ReadBack(x)
    <3>1. payload = EncodedPayload(x) /\ Len(EncodedPayload(x)) >= FixedPart(type)
      BY <2>1 DEF ReadBack, Payload
    <3>2. FixedPart(type) \in Nat
      BY DEF FixedPart
    <3> QED BY <3>1, <3>2
  <2>2. CASE IsHeartbeat(x) \/ IsBody(x)
    <3>1. x.type \in {"heartbeat", "body"}
      BY <2>2 DEF IsHeartbeat, IsBody
    <3>2. type \in {3, 8}
      BY <3>1 DEF FrameType
    <3>3. FixedPart(type) = 0
      BY <3>2 DEF FixedPart
    <3> HIDE DEF payload, type
    <3> QED BY <1>3, <3>3
  <2> QED BY <2>1, <2>2 DEF IsFrame
<1>6. /\ TargetSize(b) = Len(b) /\ ~Wraps(b) /\ LongEnough(b[1], Len(b))
      /\ Outcomes(b, Len(b)) = {DecodePayload(type, x.channel, payload)}
  <2> HIDE DEF type, payload
  <2> QED BY <1>1, <1>2, <1>4, <1>8, EnvelopeReads
<1>7. DecodePayload(type, x.channel, payload).ok
      /\ DecodePayload(type, x.channel, payload).value = AsRead(x)
  <2>1. CASE ReadBack(x)
    <3>1. x.type \in {"method", "header"} /\ payload = EncodedPayload(x)
      BY <2>1 DEF ReadBack, Payload
    <3>2. type \in {1, 2}
      BY <3>1 DEF FrameType
    <3>3. DecodePayload(type, x.channel, payload) = DecodedPayload(type, x.channel, payload)
      BY <3>2 DEF DecodePayload
    <3> QED BY <2>1, <3>1, <3>3 DEF ReadBack
  <2>2. CASE IsHeartbeat(x)
    <3>1. x.type = "heartbeat" /\ x = [type |-> "heartbeat", channel |-> x.channel]
      BY <2>2 DEF IsHeartbeat
    <3>2. type = 8
      BY <3>1 DEF FrameType
    <3>3. DecodePayload(type, x.channel, payload) = Read(x, 0)
      BY <3>1, <3>2 DEF DecodePayload
    <3>4. AsRead(x) = x
      BY <3>1 DEF AsRead
    <3> QED BY <3>3, <3>4 DEF Read
  <2>3. CASE IsBody(x)
    <3>1. x.type = "body" /\ x = [type |-> "body", channel |-> x.channel, bytes |-> x.bytes]
      BY <2>3 DEF IsBody
    <3>2. type = 3 /\ payload = x.bytes
      BY <3>1 DEF FrameType, Payload
    <3>3. DecodePayload(type, x.channel, payload) = Read(x, 0)
      BY <3>1, <3>2 DEF DecodePayload
    <3>4. AsRead(x) = x
      BY <3>1 DEF AsRead
    <3> QED BY <3>3, <3>4 DEF Read
  <2> QED BY <2>1, <2>2, <2>3 DEF IsFrame
<1> HIDE DEF b, type, payload
<1>9. \A f \in Outcomes(b, Len(b)) : f.ok /\ f.value = AsRead(x)
  BY <1>6, <1>7
<1> QED BY <1>3, <1>6, <1>9 DEF FrameReads, b

LEMMA TypeAsRead ==
    ASSUME NEW x, x.type # "octets"
    PROVE  AsRead(x).type = x.type /\ (x.type # "header" => AsRead(x) = x)
BY DEF AsRead

(* What is sent behind the first thing.                                    *)
Item(x) == (IsFrame(x) /\ Fits(x)) \/ FromPeer(x)

(* What comes out, r, of the octets raw of x.                              *)
Outcome(x, raw, size, r) ==
    \/ Malformed(x) /\ ~r.ok
    \/ ~Malformed(x) /\ Doubtful(x) /\ ~LongEnough(raw[1], size)
    \/ /\ ~Malformed(x) /\ ~Doubtful(x) /\ r.ok /\ LongEnough(raw[1], size)
       /\ IF Ignored(x) THEN r.value.type = "none"
          ELSE r.value = AsRead(x) /\ x.type \in {"method", "header", "body", "heartbeat"}

Yields(x, raw, size) ==
    /\ ~Malformed(x) => size = Len(OctetsOf(x))
    /\ \A r \in Outcomes(raw, size) : Outcome(x, raw, size, r)

LEMMA WholeAsFrame ==
    ASSUME NEW b \in Seq(Octets), WholeFrame(b)
    PROVE  LET size == TargetSize(b)
               raw  == FirstFrame(b)
           IN  /\ raw \in Seq(Octets) /\ Len(raw) = size /\ size >= 8 /\ size \in Nat
               /\ raw[1] = b[1] /\ raw[size] = b[size]
               /\ size = Len(b) => raw = b
<1> DEFINE size == TargetSize(b)
           raw  == FirstFrame(b)
<1>1. Len(b) >= 8 /\ size <= Len(b) /\ Len(b) \in Nat /\ ~Wraps(b)
  BY DEF WholeFrame, HeaderSize, FooterSize
<1>2. size \in Nat /\ size >= 8
  BY <1>1, SizeNotWrapped
<1>3. raw = SubSeq(b, 1, size)
  BY DEF FirstFrame
<1> HIDE DEF size, raw
<1>4. raw \in Seq(Octets) /\ Len(raw) = size /\ \A i \in 1..size : raw[i] = b[i]
  BY <1>1, <1>2, <1>3
<1>5. raw[1] = b[1] /\ raw[size] = b[size]
  BY <1>2, <1>4
<1>6. size = Len(b) => raw = b
  BY <1>3
<1> QED BY <1>2, <1>4, <1>5, <1>6 DEF size, raw

(* Nothing good comes out of a frame that makes no sense.                  *)
LEMMA WrongIsRefused ==
    ASSUME NEW b \in Seq(Octets), Wrong(b)
    PROVE  /\ WholeFrame(b) /\ ~Wraps(b)
           /\ \A r \in Outcomes(FirstFrame(b), TargetSize(b)) : ~r.ok
<1> DEFINE size == TargetSize(b)
           raw  == FirstFrame(b)
           channel == Number(SubSeq(b, 2, 3))
<1>1. WholeFrame(b) /\ ~Wraps(b) /\ size <= Len(b)
  BY DEF Wrong, WholeFrame
<1>2. /\ raw \in Seq(Octets) /\ Len(raw) = size /\ size >= 8 /\ size \in Nat
      /\ raw[1] = b[1] /\ raw[size] = b[size]
  BY <1>1, WholeAsFrame
<1>3. raw = SubSeq(b, 1, size)
  BY DEF FirstFrame
<1>4. ~Bad.ok
  BY DEF Bad
<1>5. b[size] = FrameEnd =>
         /\ b[1] \in {1, 2}
         /\ \A payload \in PayloadsRead(b) : ~DecodedPayload(b[1], channel, payload).ok
  BY DEF Wrong
<1>6. PayloadsRead(b) = IF LongEnough(b[1], size) THEN {SubSeq(b, 8, size - 1)}
                        ELSE {SubSeq(b, 8, size) \o octets : octets \in Behind}
  BY DEF PayloadsRead, HeaderSize, FooterSize
<1> HIDE DEF size, raw
<1>7. SubSeq(raw, 2, 3) = SubSeq(b, 2, 3)
  BY <1>1, <1>2, <1>3
<1>8. SubSeq(raw, 8, size - 1) = SubSeq(b, 8, size - 1)
  BY <1>1, <1>2, <1>3
<1>9. SubSeq(raw, 8, Len(raw)) = SubSeq(b, 8, size)
  BY <1>1, <1>2, <1>3
<1>10. Outcomes(raw, size) =
         IF ~FooterOk(raw, size) THEN {Bad}
         ELSE {DecodePayload(b[1], channel, payload) : payload \in PayloadsRead(b)}
  <2>1. HeaderSize + 1 = 8 /\ FooterSize = 1
    BY DEF HeaderSize, FooterSize
  <2>2. CASE ~FooterOk(raw, size)
    BY <2>2, OutcomesAre
  <2>3. CASE FooterOk(raw, size) /\ LongEnough(b[1], size)
    <3>1. Outcomes(raw, size) = {DecodePayload(b[1], channel, SubSeq(b, 8, size - 1))}
      BY <1>2, <1>7, <1>8, <2>1, <2>3, OutcomesAre DEF Decoded
    <3>2. PayloadsRead(b) = {SubSeq(b, 8, size - 1)}
      BY <1>6, <2>3
    <3> QED BY <2>3, <3>1, <3>2, Zenon
  <2>4. CASE FooterOk(raw, size) /\ ~LongEnough(b[1], size)
    <3>1. Outcomes(raw, size) =
            {DecodePayload(b[1], channel, SubSeq(b, 8, size) \o octets) : octets \in Behind}
      BY <1>2, <1>7, <1>9, <2>1, <2>4, Zenon DEF Outcomes
    <3>2. PayloadsRead(b) = {SubSeq(b, 8, size) \o octets : octets \in Behind}
      BY <1>6, <2>4
    <3> QED BY <2>4, <3>1, <3>2, Zenon
  <2> QED BY <2>2, <2>3, <2>4
<1>11. FooterOk(raw, size) <=> b[size] = FrameEnd
  BY <1>2 DEF FooterOk
<1>12. ASSUME b[size] = FrameEnd, NEW payload \in PayloadsRead(b)
       PROVE  ~DecodePayload(b[1], channel, payload).ok
  BY <1>5, <1>12 DEF DecodePayload
<1>13. \A r \in Outcomes(raw, size) : ~r.ok
  BY <1>4, <1>10, <1>11, <1>12
<1> QED BY <1>1, <1>13 DEF size, raw

(* What is known of the octets of x.                                       *)
Understood(x, b) ==
    IF IsUnfinished(x) THEN Unfinished(b) /\ Ignored(x)
    ELSE IF Wraps(b) THEN Doubtful(x) /\ Len(b) = 7
    ELSE WholeFrame(b) /\ Yields(x, FirstFrame(b), TargetSize(b))

LEMMA ItemIsRead ==
    ASSUME NEW x, Item(x)
    PROVE  OctetsOf(x) \in Seq(Octets) /\ Understood(x, OctetsOf(x))
<1> DEFINE b == OctetsOf(x)
<1>1. CASE IsFrame(x) /\ Fits(x)
  <2>1. x.type \in {"method", "header", "body", "heartbeat"}
    BY <1>1, TypesOfFrames
  <2>2. b = EncodeFrame(x)
    BY <2>1 DEF OctetsOf
  <2>3. FrameReads(b, AsRead(x))
    BY <1>1, <2>2, FrameIsRead
  <2> HIDE DEF b
  <2>4. /\ b \in Seq(Octets) /\ Len(b) >= 8 /\ TargetSize(b) = Len(b) /\ FirstFrame(b) = b
        /\ ~Wraps(b)
    BY <2>3 DEF FrameReads, FirstFrame
  <2>5. WholeFrame(b)
    BY <2>4 DEF WholeFrame, HeaderSize, FooterSize
  <2>6. ~Malformed(x) /\ ~Ignored(x) /\ ~IsUnfinished(x) /\ ~Doubtful(x)
    BY <2>1 DEF Malformed, Ignored, IsUnfinished, Doubtful
  <2>7. \A r \in Outcomes(b, Len(b)) : Outcome(x, b, Len(b), r)
    BY <2>1, <2>3, <2>6 DEF Outcome, FrameReads
  <2>8. Yields(x, FirstFrame(b), TargetSize(b))
    BY <2>4, <2>7 DEF Yields, b
  <2> QED BY <2>4, <2>5, <2>6, <2>8 DEF Understood, b
<1>2. CASE FromPeer(x) /\ x.reads = "error"
  <2>1. x.type = "octets" /\ b = x.bytes /\ b \in Seq(Octets) /\ Wrong(b)
    BY <1>2 DEF FromPeer, OctetsOf
  <2> HIDE DEF b
  <2>2. WholeFrame(b) /\ ~Wraps(b) /\ \A r \in Outcomes(FirstFrame(b), TargetSize(b)) : ~r.ok
    BY <2>1, WrongIsRefused
  <2>6. Malformed(x) /\ ~IsUnfinished(x)
    BY <1>2, <2>1 DEF Malformed, IsUnfinished
  <2>7. Yields(x, FirstFrame(b), TargetSize(b))
    BY <2>2, <2>6 DEF Yields, Outcome
  <2> QED BY <2>1, <2>2, <2>6, <2>7 DEF Understood, b
<1>3. CASE FromPeer(x) /\ x.reads = "nothing" /\ ~IsUnfinished(x)
  <2>1. x.type = "octets" /\ b = x.bytes /\ b \in Seq(Octets) /\ Unknown(b)
    BY <1>3 DEF FromPeer, OctetsOf, IsUnfinished
  <2> HIDE DEF b
  <2> DEFINE size == TargetSize(b)
             raw  == FirstFrame(b)
  <2>2. WholeFrame(b) /\ size = Len(b) /\ b[1] \notin {1, 2, 3, 8} /\ b[size] = FrameEnd
    BY <2>1 DEF Unknown
  <2>3. ~Wraps(b)
    BY <2>2 DEF WholeFrame
  <2>4. raw = b /\ size >= 8 /\ size \in Nat
    BY <2>1, <2>2, WholeAsFrame
  <2>5. FooterOk(raw, size) /\ LongEnough(raw[1], size)
    <3> HIDE DEF raw, size
    <3>1. FixedPart(b[1]) = 0
      BY <2>2 DEF FixedPart
    <3> QED BY <2>2, <2>4, <3>1 DEF FooterOk, LongEnough, HeaderSize, FooterSize
  <2>7. Decoded(raw, size).ok /\ Decoded(raw, size).value.type = "none"
    <3> HIDE DEF raw, size
    <3>1. raw[1] \notin {1, 2, 3, 8}
      BY <2>2, <2>4
    <3> QED BY <3>1 DEF Decoded, DecodePayload, Read
  <2>6. Ignored(x) /\ ~Malformed(x) /\ ~Doubtful(x)
    BY <1>3, <2>1 DEF Malformed, Ignored, Doubtful
  <2>8. Outcomes(raw, size) = {Decoded(raw, size)}
    BY <2>5, OutcomesAre
  <2>9. \A r \in Outcomes(raw, size) : Outcome(x, raw, size, r)
    <3> HIDE DEF raw, size
    <3> QED BY <2>5, <2>6, <2>7, <2>8 DEF Outcome
  <2>10. Yields(x, raw, size)
    BY <2>2, <2>9 DEF Yields, b
  <2> QED BY <1>3, <2>1, <2>2, <2>3, <2>10 DEF Understood, b
<1>4. CASE IsUnfinished(x) /\ FromPeer(x)
  BY <1>4 DEF IsUnfinished, FromPeer, OctetsOf, Ignored, Understood
<1>5. CASE FromPeer(x) /\ x.reads = "anything"
  <2>1. /\ x.type = "octets" /\ b = x.bytes /\ b \in Seq(Octets)
        /\ TooShort(b) \/ TooLong(b)
    BY <1>5 DEF FromPeer, OctetsOf
  <2> HIDE DEF b
  <2>2. Doubtful(x) /\ ~Malformed(x) /\ ~IsUnfinished(x)
    BY <1>5, <2>1 DEF Doubtful, Malformed, IsUnfinished
  <2>3. CASE TooLong(b)
    BY <2>1, <2>2, <2>3 DEF TooLong, Understood, HeaderSize, b
  <2>4. CASE TooShort(b)
    <3>1. WholeFrame(b) /\ TargetSize(b) = Len(b) /\ ~Wraps(b) /\ ~LongEnough(b[1], Len(b))
      BY <2>4 DEF TooShort, WholeFrame
    <3>2. FirstFrame(b) = b
      BY <2>1, <3>1, WholeAsFrame
    <3>3. Yields(x, FirstFrame(b), TargetSize(b))
      BY <2>2, <3>1, <3>2 DEF Yields, Outcome, b
    <3> QED BY <2>1, <2>2, <3>1, <3>3 DEF Understood, b
  <2> QED BY <2>1, <2>3, <2>4
<1> QED BY <1>1, <1>2, <1>3, <1>4, <1>5 DEF Item, FromPeer

-----------------------------------------------------------------------------
(* Lists, whatever their elements.                                         *)

IsList(s) == Len(s) \in Nat /\ s = [j \in 1..Len(s) |-> s[j]]

LEMMA ListIsSeq ==
    ASSUME NEW s, IsList(s)
    PROVE  s \in Seq({s[j] : j \in 1..Len(s)})
<1> DEFINE S == {s[j] : j \in 1..Len(s)}
<1>1. s \in [1..Len(s) -> S]
  BY DEF IsList
<1> QED BY <1>1, FunctionIsSeq DEF IsList

LEMMA SeqIsList ==
    ASSUME NEW S, NEW s \in Seq(S)
    PROVE  IsList(s)
BY DEF IsList

LEMMA ListTail ==
    ASSUME NEW s, IsList(s), s # <<>>
    PROVE  /\ IsList(Tail(s)) /\ Len(s) >= 1 /\ Len(Tail(s)) = Len(s) - 1
           /\ Head(s) = s[1]
           /\ \A j \in 1..Len(s) - 1 : Tail(s)[j] = s[j + 1]
<1>1. PICK S : s \in Seq(S)
  BY ListIsSeq
<1>2. Tail(s) \in Seq(S)
  BY <1>1
<1>3. IsList(Tail(s))
  BY <1>2, SeqIsList
<1> QED BY <1>1, <1>3

(* r is s followed by t, both lists.                                       *)
LEMMA ListConcat ==
    ASSUME NEW s, NEW t, IsList(s), IsList(t)
    PROVE  IsList(s \o t) /\ Joins(s \o t, s, t)
<1> DEFINE S == {s[j] : j \in 1..Len(s)}
           T == {t[j] : j \in 1..Len(t)}
<1>1. s \in Seq(S) /\ t \in Seq(T)
  BY ListIsSeq
<1> HIDE DEF S, T
<1>2. s \in Seq(S \cup T) /\ t \in Seq(S \cup T)
  BY <1>1
<1>3. s \o t \in Seq(S \cup T) /\ Joins(s \o t, s, t)
  BY <1>2, Concat
<1> QED BY <1>3, SeqIsList

LEMMA ListAppend ==
    ASSUME NEW s, NEW x, IsList(s)
    PROVE  /\ IsList(Append(s, x)) /\ Len(Append(s, x)) = Len(s) + 1
           /\ \A j \in 1..Len(s) : Append(s, x)[j] = s[j]
           /\ Append(s, x)[Len(s) + 1] = x
<1> DEFINE S == {s[j] : j \in 1..Len(s)}
<1>1. s \in Seq(S)
  BY ListIsSeq
<1> HIDE DEF S
<1>2. s \in Seq(S \cup {x}) /\ x \in S \cup {x}
  BY <1>1
<1>3. Append(s, x) \in Seq(S \cup {x})
  BY <1>2
<1>4. IsList(Append(s, x))
  BY <1>3, SeqIsList
<1> QED BY <1>2, <1>4

LEMMA EmptyList == IsList(<<>>) /\ Len(<<>>) = 0
BY DEF IsList

-----------------------------------------------------------------------------
(* The octets of T from offset i to offset j.                              *)

Piece(T, i, j) == SubSeq(T, i + 1, j)

IsPiece(p, S, T, i, j) ==
    /\ p \in Seq(S) /\ Len(p) = j - i
    /\ \A m \in 1..(j - i) : p[m] = T[i + m]

LEMMA PieceType ==
    ASSUME NEW S, NEW T \in Seq(S), NEW i \in Nat, NEW j \in Nat, i <= j, j <= Len(T)
    PROVE  IsPiece(Piece(T, i, j), S, T, i, j)
<1>1. Piece(T, i, j) \in Seq(S) /\ Len(Piece(T, i, j)) = j - i
  BY DEF Piece
<1>2. ASSUME NEW m \in 1..(j - i)
      PROVE  Piece(T, i, j)[m] = T[i + m]
  BY DEF Piece
<1> QED BY <1>1, <1>2 DEF IsPiece

LEMMA SameSeq ==
    ASSUME NEW S, NEW s \in Seq(S), NEW t \in Seq(S), Len(s) = Len(t),
           \A m \in 1..Len(s) : s[m] = t[m]
    PROVE  s = t
OBVIOUS

Within(T, i, j, m, n) == SubSeq(Piece(T, i, j), m + 1, n) = Piece(T, i + m, i + n)

LEMMA PieceOfPiece ==
    ASSUME NEW S, NEW T \in Seq(S), NEW i \in Nat, NEW j \in Nat, i <= j, j <= Len(T),
           NEW m \in Nat, NEW n \in Nat, m <= n, n <= j - i
    PROVE  Within(T, i, j, m, n)
<1> DEFINE a == Piece(T, i, j)
           b == SubSeq(a, m + 1, n)
           c == Piece(T, i + m, i + n)
<1>1. IsPiece(a, S, T, i, j)
  BY PieceType
<1>2. IsPiece(c, S, T, i + m, i + n)
  <2>1. i + m \in Nat /\ i + n \in Nat /\ i + m <= i + n /\ i + n <= Len(T)
    OBVIOUS
  <2> QED BY <2>1, PieceType
<1> HIDE DEF a, c
<1>3. b \in Seq(S) /\ Len(b) = n - m /\ \A l \in 1..(n - m) : b[l] = a[m + l]
  BY <1>1 DEF IsPiece
<1> HIDE DEF b
<1>4. ASSUME NEW l \in 1..(n - m)
      PROVE  b[l] = c[l]
  <2>1. b[l] = a[m + l] /\ a[m + l] = T[i + (m + l)]
    BY <1>1, <1>3 DEF IsPiece
  <2>2. c[l] = T[(i + m) + l]
    BY <1>2 DEF IsPiece
  <2>3. i + (m + l) = (i + m) + l
    OBVIOUS
  <2> QED BY <2>1, <2>2, <2>3
<1>5. c \in Seq(S) /\ Len(c) = n - m
  BY <1>2 DEF IsPiece
<1>6. b = c
  BY <1>3, <1>4, <1>5, SameSeq
<1> QED BY <1>6 DEF a, b, c, Within

StartOf(T, i, j, n) == SubSeq(Piece(T, i, j), 1, n) = Piece(T, i, i + n)
RestOf(T, i, j, n)  == SubSeq(Piece(T, i, j), n + 1, j - i) = Piece(T, i + n, j)

LEMMA PieceStart ==
    ASSUME NEW S, NEW T \in Seq(S), NEW i \in Nat, NEW j \in Nat, i <= j, j <= Len(T),
           NEW n \in Nat, n <= j - i
    PROVE  StartOf(T, i, j, n)
<1>1. 0 \in Nat /\ 0 <= n /\ 0 + 1 = 1 /\ i + 0 = i
  OBVIOUS
<1>2. Within(T, i, j, 0, n)
  BY <1>1, PieceOfPiece
<1> QED BY <1>1, <1>2, Zenon DEF Within, StartOf

LEMMA PieceRest ==
    ASSUME NEW S, NEW T \in Seq(S), NEW i \in Nat, NEW j \in Nat, i <= j, j <= Len(T),
           NEW n \in Nat, n <= j - i
    PROVE  RestOf(T, i, j, n)
<1>1. j - i \in Nat /\ j - i <= j - i /\ i + (j - i) = j
  OBVIOUS
<1>2. Within(T, i, j, n, j - i)
  BY <1>1, PieceOfPiece
<1> QED BY <1>1, <1>2, Zenon DEF Within, RestOf

LEMMA PiecesJoin ==
    ASSUME NEW S, NEW T \in Seq(S), NEW i \in Nat, NEW j \in Nat, NEW l \in Nat,
           i <= j, j <= l, l <= Len(T)
    PROVE  Piece(T, i, j) \o Piece(T, j, l) = Piece(T, i, l)
<1> DEFINE a == Piece(T, i, j)
           b == Piece(T, j, l)
           c == Piece(T, i, l)
<1>1. IsPiece(a, S, T, i, j)
  BY PieceType
<1>2. IsPiece(b, S, T, j, l)
  BY PieceType
<1>3. IsPiece(c, S, T, i, l)
  <2>1. i <= l
    OBVIOUS
  <2> QED BY <2>1, PieceType
<1> HIDE DEF a, b, c
<1>4. a \o b \in Seq(S) /\ Joins(a \o b, a, b)
  BY <1>1, <1>2, Concat DEF IsPiece
<1>5. ASSUME NEW m \in 1..(l - i)
      PROVE  (a \o b)[m] = c[m]
  <2>1. CASE m <= j - i
    BY <1>1, <1>3, <1>4, <2>1 DEF Joins, IsPiece
  <2>2. CASE m > j - i
    <3>1. m - (j - i) \in 1..(l - j) /\ m = (j - i) + (m - (j - i))
      BY <2>2
    <3>2. (a \o b)[(j - i) + (m - (j - i))] = b[m - (j - i)]
      BY <1>1, <1>2, <1>4, <3>1 DEF Joins, IsPiece
    <3>3. b[m - (j - i)] = T[j + (m - (j - i))]
      BY <1>2, <3>1 DEF IsPiece
    <3>4. j + (m - (j - i)) = i + m /\ (j - i) + (m - (j - i)) = m
      OBVIOUS
    <3>5. c[m] = T[i + m]
      BY <1>3 DEF IsPiece
    <3> QED BY <3>2, <3>3, <3>4, <3>5
  <2>3. m <= j - i \/ m > j - i
    OBVIOUS
  <2> QED BY <2>1, <2>2, <2>3
<1>6. Len(a \o b) = l - i
  BY <1>1, <1>2, <1>4 DEF Joins, IsPiece
<1>7. a \o b = c
  BY <1>3, <1>4, <1>5, <1>6, SameSeq DEF IsPiece
<1> QED BY <1>7 DEF a, b, c

(* The piece from i to j with the piece from j to l is the piece from i to*)
(* l: a step that reads a frame in two parts joins them again.            *)
JoinOf(T, i, j, l) == Piece(T, i, j) \o Piece(T, j, l) = Piece(T, i, l)

LEMMA PiecesJoined ==
    ASSUME NEW S, NEW T \in Seq(S), NEW i \in Nat, NEW j \in Nat, NEW l \in Nat,
           i <= j, j <= l, l <= Len(T)
    PROVE  JoinOf(T, i, j, l)
BY PiecesJoin, Zenon DEF JoinOf

LEMMA WholePiece ==
    ASSUME NEW S, NEW T \in Seq(S)
    PROVE  Piece(T, 0, Len(T)) = T /\ \A i \in 0..Len(T) : Piece(T, i, i) = <<>>
BY DEF Piece

LEMMA PieceEmpty ==
    ASSUME NEW S, NEW T \in Seq(S), NEW i \in Nat, NEW j \in Nat, i <= j, j <= Len(T)
    PROVE  Piece(T, i, j) = <<>> <=> i = j
<1>1. Len(Piece(T, i, j)) = j - i /\ Piece(T, i, j) \in Seq(S)
  BY PieceType DEF IsPiece
<1> HIDE DEF Piece
<1> QED BY <1>1

(* Pieces of what grows stay, and the end is what was added.               *)
Longer(U, T, b) == U = T \o b

Grown(U, T, b, i, j) ==
    /\ Piece(U, i, j) = Piece(T, i, j)
    /\ Piece(U, Len(T), Len(T) + Len(b)) = b
    /\ Piece(U, i, Len(T) + Len(b)) = Piece(T, i, Len(T)) \o b

LEMMA PieceOfLonger ==
    ASSUME NEW S, NEW T \in Seq(S), NEW b \in Seq(S), NEW i \in Nat, NEW j \in Nat,
           i <= j, j <= Len(T), NEW U, Longer(U, T, b)
    PROVE  Grown(U, T, b, i, j)
<1>1. U \in Seq(S) /\ Joins(U, T, b) /\ Len(T) \in Nat /\ Len(b) \in Nat
  BY Concat DEF Longer
<1>2. Len(U) = Len(T) + Len(b)
  BY <1>1 DEF Joins
<1>3. ASSUME NEW m \in Nat, NEW n \in Nat, m <= n, n <= Len(T)
      PROVE  Piece(U, m, n) = Piece(T, m, n)
  <2> DEFINE a == Piece(U, m, n)
             c == Piece(T, m, n)
  <2>1. IsPiece(a, S, U, m, n)
    <3>1. n <= Len(U)
      BY <1>1, <1>2, <1>3
    <3> QED BY <1>1, <1>3, <3>1, PieceType
  <2>2. IsPiece(c, S, T, m, n)
    BY <1>3, PieceType
  <2> HIDE DEF a, c
  <2>3. \A l \in 1..(n - m) : U[m + l] = T[m + l]
    BY <1>1, <1>3 DEF Joins
  <2>4. \A l \in 1..(n - m) : a[l] = c[l]
    BY <2>1, <2>2, <2>3 DEF IsPiece
  <2>5. a = c
    BY <2>1, <2>2, <2>4, SameSeq DEF IsPiece
  <2> QED BY <2>5 DEF a, c
<1>4. Piece(U, Len(T), Len(T) + Len(b)) = b
  <2> DEFINE d == Piece(U, Len(T), Len(T) + Len(b))
  <2>1. IsPiece(d, S, U, Len(T), Len(T) + Len(b))
    <3>1. Len(T) + Len(b) \in Nat /\ Len(T) <= Len(T) + Len(b) /\ Len(T) + Len(b) <= Len(U)
      BY <1>1, <1>2
    <3> QED BY <1>1, <3>1, PieceType
  <2> HIDE DEF d
  <2>2. (Len(T) + Len(b)) - Len(T) = Len(b)
    BY <1>1
  <2>3. d \in Seq(S) /\ Len(d) = Len(b) /\ \A m \in 1..Len(b) : d[m] = U[Len(T) + m]
    BY <2>1, <2>2 DEF IsPiece
  <2>4. \A m \in 1..Len(b) : d[m] = b[m]
    BY <1>1, <2>3 DEF Joins
  <2> QED BY <2>3, <2>4, SameSeq DEF d
<1>5. Piece(U, i, j) = Piece(T, i, j) /\ Piece(U, i, Len(T)) = Piece(T, i, Len(T))
  <2>1. i <= Len(T)
    BY <1>1
  <2> QED BY <1>1, <1>3, <2>1
<1>6. Piece(U, i, Len(T)) \o Piece(U, Len(T), Len(T) + Len(b)) = Piece(U, i, Len(T) + Len(b))
  <2>1. /\ i <= Len(T) /\ Len(T) <= Len(T) + Len(b) /\ Len(T) + Len(b) \in Nat
        /\ Len(T) + Len(b) <= Len(U)
    BY <1>1, <1>2
  <2> QED BY <1>1, <2>1, PiecesJoin
<1> QED BY <1>4, <1>5, <1>6 DEF Grown

-----------------------------------------------------------------------------
(* The reader between the octets of one thing and those of the next.       *)

LEMMA PieceSize ==
    ASSUME NEW T \in Seq(Octets), NEW o \in Nat, NEW p \in Nat, NEW q \in Nat,
           o + 7 <= p, o + 7 <= q, p <= Len(T), q <= Len(T)
    PROVE  /\ TargetSize(Piece(T, o, p)) = TargetSize(Piece(T, o, q))
           /\ Wraps(Piece(T, o, p)) <=> Wraps(Piece(T, o, q))
           /\ TargetSize(Piece(T, o, p)) \in Nat
           /\ IF Wraps(Piece(T, o, p)) THEN TargetSize(Piece(T, o, p)) <= 7
              ELSE TargetSize(Piece(T, o, p)) >= 8
<1> DEFINE a == Piece(T, o, p)
           b == Piece(T, o, q)
<1>1. IsPiece(a, Octets, T, o, p) /\ IsPiece(b, Octets, T, o, q)
  <2>1. o <= p /\ o <= q
    OBVIOUS
  <2> QED BY <2>1, PieceType
<1> HIDE DEF a, b
<1>2. a \in Seq(Octets) /\ b \in Seq(Octets) /\ Len(a) >= 7 /\ Len(b) >= 7
  BY <1>1 DEF IsPiece
<1>3. \A i \in 1..7 : a[i] = b[i]
  BY <1>1 DEF IsPiece
<1>4. TargetSize(a) = TargetSize(b) /\ (Wraps(a) <=> Wraps(b))
  BY <1>2, <1>3, SameSize
<1>5. SizeIs(a, TargetSize(a)) /\ TargetSize(a) \in Nat
  BY <1>2, FourthToSeventh
<1> QED BY <1>4, <1>5 DEF a, b, SizeIs

(* A thing of which the reader has as many octets as it announces.         *)
LEMMA ItemReached ==
    ASSUME NEW T \in Seq(Octets), NEW o \in Nat, NEW e \in Nat, NEW p \in Nat,
           o <= e, e <= Len(T), o + 7 <= p, p <= Len(T),
           NEW x, Item(x), OctetsOf(x) = Piece(T, o, e), ComesLast(x) => e = Len(T),
           ~Wraps(Piece(T, o, p)),
           NEW size, size = TargetSize(Piece(T, o, p)), o + size <= Len(T)
    PROVE  /\ ~IsUnfinished(x)
           /\ Yields(x, Piece(T, o, o + size), size)
           /\ ~Malformed(x) => o + size = e
<1> DEFINE b == OctetsOf(x)
<1>1. b = Piece(T, o, e)
  OBVIOUS
<1>2. IsPiece(b, Octets, T, o, e)
  BY <1>1, PieceType
<1>3. Understood(x, b)
  BY ItemIsRead
<1> HIDE DEF b
<1>4. b \in Seq(Octets) /\ Len(b) = e - o /\ size \in Nat /\ size >= 8
  BY <1>2, PieceSize DEF IsPiece
<1>5. o + 7 <= e => TargetSize(b) = size /\ ~Wraps(b)
  BY <1>1, PieceSize
<1>6. ~IsUnfinished(x)
  <2>1. SUFFICES ASSUME IsUnfinished(x)
                 PROVE  FALSE
    OBVIOUS
  <2>2. e = Len(T) /\ Unfinished(b)
    BY <1>3, <2>1 DEF Understood, ComesLast
  <2>3. TargetSize(b) = size /\ Len(b) >= 7
    BY <1>4, <1>5, <2>2
  <2> QED BY <1>4, <2>2, <2>3 DEF Unfinished, HeaderSize
<1>11. ~Wraps(b)
  <2>1. Wraps(b) => Len(b) = 7
    BY <1>3, <1>6 DEF Understood
  <2> QED BY <1>4, <1>5, <2>1
<1>7. WholeFrame(b) /\ Yields(x, FirstFrame(b), TargetSize(b))
  BY <1>3, <1>6, <1>11 DEF Understood
<1>8. o + 7 <= e /\ TargetSize(b) = size /\ size <= e - o
  <2>1. Len(b) >= 8
    BY <1>7 DEF WholeFrame, HeaderSize, FooterSize
  <2>2. o + 7 <= e
    BY <1>4, <2>1
  <2> QED BY <1>4, <1>5, <1>7, <2>2 DEF WholeFrame
<1>9. FirstFrame(b) = Piece(T, o, o + size)
  <2>1. StartOf(T, o, e, size)
    BY <1>4, <1>8, PieceStart
  <2> QED BY <1>1, <1>8, <2>1 DEF FirstFrame, StartOf
<1>10. ~Malformed(x) => o + size = e
  BY <1>4, <1>7, <1>8 DEF Yields, b
<1> QED BY <1>6, <1>7, <1>8, <1>9, <1>10

(* A thing whose size wraps ends with its header.                          *)
LEMMA ItemTooLong ==
    ASSUME NEW T \in Seq(Octets), NEW o \in Nat, NEW e \in Nat, NEW p \in Nat,
           o <= e, e <= Len(T), o + 7 <= p, p <= Len(T),
           NEW x, Item(x), OctetsOf(x) = Piece(T, o, e), ComesLast(x) => e = Len(T),
           Wraps(Piece(T, o, p))
    PROVE  Doubtful(x) /\ ~Malformed(x) /\ e = o + 7 /\ e = Len(T)
<1> DEFINE b == OctetsOf(x)
<1>1. b = Piece(T, o, e)
  OBVIOUS
<1>2. IsPiece(b, Octets, T, o, e)
  BY <1>1, PieceType
<1>3. Understood(x, b)
  BY ItemIsRead
<1> HIDE DEF b
<1>4. b \in Seq(Octets) /\ Len(b) = e - o
  BY <1>2 DEF IsPiece
<1>5. o + 7 <= e => Wraps(b)
  BY <1>1, PieceSize
<1>6. ~IsUnfinished(x)
  <2>1. SUFFICES ASSUME IsUnfinished(x)
                 PROVE  FALSE
    OBVIOUS
  <2>2. e = Len(T) /\ Unfinished(b)
    BY <1>3, <2>1 DEF Understood, ComesLast
  <2>3. Wraps(b) /\ Len(b) >= 7
    BY <1>4, <1>5, <2>2
  <2> QED BY <1>4, <2>2, <2>3 DEF Unfinished, HeaderSize
<1>7. Wraps(b)
  <2>1. ~Wraps(b) => Len(b) >= 8
    BY <1>3, <1>6 DEF Understood, WholeFrame, HeaderSize, FooterSize
  <2> QED BY <1>4, <1>5, <2>1
<1>8. Doubtful(x) /\ Len(b) = 7
  BY <1>3, <1>6, <1>7 DEF Understood
<1>9. e = o + 7
  <2>1. e - o = 7
    BY <1>4, <1>8, Zenon
  <2>2. e \in Int /\ o \in Int
    OBVIOUS
  <2> QED BY ONLY <2>1, <2>2
<1>10. ~Malformed(x) /\ ComesLast(x)
  BY <1>8 DEF ComesLast, Doubtful, Malformed
<1> QED BY <1>8, <1>9, <1>10

(* What comes first, and its octets.                                       *)
Opening(x, b) ==
    \/ x.type = "method" /\ IsFrame(x) /\ Fits(x) /\ b[8] = 0 /\ ~BeginsAMQP(b) /\ ~Wraps(b)
    \/ x.type = "octets" /\ x.reads = "protocol" /\ Len(b) = 8 /\ BeginsAMQP(b)
    \/ /\ x.type = "octets" /\ x.reads = "error" /\ TargetSize(b) = 8 /\ ~BeginsAMQP(b)
       /\ ~Wraps(b)

LEMMA OpeningOctets ==
    ASSUME NEW x, Opens(x)
    PROVE  /\ OctetsOf(x) \in Seq(Octets) /\ Len(OctetsOf(x)) >= 8
           /\ Opening(x, OctetsOf(x)) /\ ~ComesLast(x) /\ ~Ignored(x)
<1> DEFINE b == OctetsOf(x)
<1>1. CASE x.type = "method"
  <2>1. ReadBack(x) /\ FitsOutbound(x) /\ EncodedPayload(x) # <<>> /\ EncodedPayload(x)[1] = 0
    BY <1>1 DEF Opens
  <2>2. IsFrame(x) /\ Fits(x)
    BY <1>1, <2>1 DEF IsFrame, Fits, FitsOutbound
  <2>3. b = Enveloped(FrameType[x.type], x.channel, Payload(x))
    BY <1>1 DEF OctetsOf, EncodeFrame
  <2>4. FrameType[x.type] \in Octets /\ x.channel \in Channels /\ Payload(x) \in Seq(Octets)
    BY <2>2, TypesOfFrames
  <2>5. FrameType[x.type] = 1 /\ Payload(x) = EncodedPayload(x)
    BY <1>1 DEF FrameType, Payload
  <2> DEFINE payload == Payload(x)
             type == FrameType[x.type]
  <2> HIDE DEF b, payload, type
  <2>6. /\ b \in Seq(Octets) /\ Len(b) = Len(payload) + 8 /\ b[1] = type
        /\ \A i \in 1..Len(payload) : b[7 + i] = payload[i]
    <3>1. /\ Enveloped(type, x.channel, payload) \in Seq(Octets)
          /\ Len(Enveloped(type, x.channel, payload)) = Len(payload) + 8
          /\ Enveloped(type, x.channel, payload)[1] = type
          /\ \A i \in 1..Len(payload) : Enveloped(type, x.channel, payload)[7 + i] = payload[i]
      <4>1. type \in Octets /\ x.channel \in Channels /\ payload \in Seq(Octets)
        BY <2>4 DEF payload, type
      <4> QED BY <4>1, EnvelopeOctets, ZenonT(30)
    <3> QED BY <2>3, <3>1 DEF payload, type
  <2>7. payload \in Seq(Octets) /\ payload # <<>> /\ payload[1] = 0
    BY <2>1, <2>4, <2>5 DEF payload
  <2>8. Len(payload) >= 1
    BY <2>7
  <2>9. b[7 + 1] = 0 /\ Len(b) >= 8
    BY <2>6, <2>7, <2>8
  <2>10. ~BeginsAMQP(b)
    <3>1. b[1] = 1
      BY <2>5, <2>6 DEF type
    <3>2. SubSeq(b, 1, 4)[1] = 1
      BY <2>6, <2>9, <3>1
    <3>3. SubSeq(ProtocolHeader, 1, 4)[1] = 65
      BY DEF ProtocolHeader
    <3> QED BY <3>2, <3>3 DEF BeginsAMQP
  <2>11. ~ComesLast(x) /\ ~Ignored(x)
    BY <1>1 DEF ComesLast, IsUnfinished, Doubtful, Ignored
  <2>12. ~Wraps(b)
    BY <1>1, <2>2, FrameIsRead DEF FrameReads, OctetsOf, b
  <2> QED BY <1>1, <2>2, <2>6, <2>9, <2>10, <2>11, <2>12 DEF Opening, b
<1>2. CASE x.type # "method"
  <2>1. x.type = "octets" /\ x.bytes \in Seq(Octets) /\ b = x.bytes
    BY <1>2 DEF Opens, OctetsOf
  <2>2. CASE x.reads = "protocol"
    <3>1. Len(b) = 8 /\ BeginsAMQP(b)
      BY <1>2, <2>1, <2>2 DEF Opens, ProtocolHeader
    <3> QED BY <2>1, <2>2, <3>1 DEF Opening, ComesLast, IsUnfinished, Doubtful, Ignored
  <2>3. CASE x.reads # "protocol"
    <3>1. x.reads = "error" /\ WholeFrame(b) /\ TargetSize(b) = 8 /\ ~BeginsAMQP(b)
      BY <1>2, <2>1, <2>3 DEF Opens, HeaderSize, FooterSize
    <3>2. Len(b) >= 8 /\ ~Wraps(b)
      BY <3>1 DEF WholeFrame, HeaderSize, FooterSize
    <3> QED BY <2>1, <3>1, <3>2 DEF Opening, ComesLast, IsUnfinished, Doubtful, Ignored
  <2> QED BY <2>2, <2>3
<1> QED BY <1>1, <1>2

(* What is copied of a header.                                             *)
LEMMA HeaderCopied ==
    ASSUME NEW b \in Seq(Octets)
    PROVE  /\ Len(b) = 7 => CopiedHeader(b) = b
           /\ Len(b) = 8 => /\ CopiedHeader(b) \in Seq(Octets) /\ Len(CopiedHeader(b)) = 8
                            /\ CopiedHeader(b)[8] = 0
                            /\ b[8] = 0 => CopiedHeader(b) = b
<1> DEFINE first == SubSeq(b, 1, 7)
           zeros == [j \in 1..(Len(b) - 7) |-> 0]
           c == CopiedHeader(b)
<1>1. c = first \o zeros
  BY DEF CopiedHeader, HeaderSize
<1>2. ASSUME Len(b) = 7 \/ Len(b) = 8
      PROVE  /\ first \in Seq(Octets) /\ Len(first) = 7 /\ \A i \in 1..7 : first[i] = b[i]
             /\ zeros \in Seq(Octets) /\ Len(zeros) = Len(b) - 7
             /\ \A i \in 1..(Len(b) - 7) : zeros[i] = 0
  <2>1. \A n : n = 7 \/ n = 8 => n - 7 \in Nat
    BY SMT
  <2>2. Len(b) - 7 \in Nat
    BY <1>2, <2>1, Zenon
  <2>0. 0 \in Octets
    BY DEF Octets
  <2>3. zeros \in [1..(Len(b) - 7) -> Octets]
    BY <2>0
  <2>4. zeros \in Seq(Octets) /\ Len(zeros) = Len(b) - 7
    BY <2>2, <2>3, FunctionIsSeq
  <2> QED BY <1>2, <2>4
<1> HIDE DEF first, zeros, c
<1>3. ASSUME Len(b) = 7 \/ Len(b) = 8
      PROVE  /\ c \in Seq(Octets) /\ Len(c) = Len(b)
             /\ \A i \in 1..7 : c[i] = b[i]
             /\ Len(b) = 8 => c[8] = 0
  <2>1. c \in Seq(Octets) /\ Joins(c, first, zeros)
    BY <1>1, <1>2, <1>3, Concat
  <2>2. \A i \in 1..(Len(b) - 7) : c[7 + i] = 0
    BY <1>2, <1>3, <2>1 DEF Joins
  <2>3. Len(b) = 8 => c[7 + 1] = 0
    BY <2>2
  <2>4. Len(c) = Len(b)
    <3>1. Len(c) = Len(first) + Len(zeros) /\ Len(first) = 7 /\ Len(zeros) = Len(b) - 7
      BY <1>2, <1>3, <2>1 DEF Joins
    <3> QED BY <1>3, <3>1
  <2>5. \A i \in 1..7 : c[i] = b[i]
    BY <1>2, <1>3, <2>1 DEF Joins
  <2> QED BY <2>1, <2>3, <2>4, <2>5
<1>4. CASE Len(b) = 7
  <2>1. c = b
    BY <1>3, <1>4, SameSeq
  <2> QED BY <1>4, <2>1 DEF c
<1>5. CASE Len(b) = 8
  <2>1. b[8] = 0 => \A i \in 1..8 : c[i] = b[i]
    BY <1>3, <1>5
  <2>2. b[8] = 0 => c = b
    BY <1>3, <1>5, <2>1, SameSeq
  <2> QED BY <1>3, <1>5, <2>2 DEF c
<1> QED BY <1>4, <1>5

(* Taking octets from the socket's buffer.                                 *)
Takes(T, o, p, q, size, n) ==
    /\ n \in Nat /\ p + n <= q /\ p + n <= o + size
    /\ p + n = q \/ p + n = o + size
    /\ size > p - o /\ q > p => n > 0
    /\ Piece(T, o, p) \o SubSeq(Piece(T, p, q), 1, n) = Piece(T, o, p + n)
    /\ SubSeq(Piece(T, p, q), 1, n) = Piece(T, p, p + n)
    /\ SubSeq(Piece(T, p, q), n + 1, Len(Piece(T, p, q))) = Piece(T, p + n, q)

LEMMA Taking ==
    ASSUME NEW T \in Seq(Octets), NEW o \in Nat, NEW p \in Nat, NEW q \in Nat, NEW size \in Nat,
           o <= p, p <= q, q <= Len(T), p - o <= size,
           NEW n, n = Consumed(size, Len(Piece(T, o, p)), Piece(T, p, q))
    PROVE  Takes(T, o, p, q, size, n)
<1>1. Len(Piece(T, o, p)) = p - o /\ Len(Piece(T, p, q)) = q - p
  BY PieceType DEF IsPiece
<1>2. n = Shorter(size - (p - o), q - p)
  <2>1. ~(size < p - o)
    OBVIOUS
  <2> QED BY <1>1, <2>1 DEF Consumed
<1>3. /\ n \in Nat /\ p + n <= q /\ p + n <= o + size
      /\ p + n = q \/ p + n = o + size
      /\ size > p - o /\ q > p => n > 0
  BY <1>2 DEF Shorter
<1>4. p + n \in Nat /\ p <= p + n /\ p + n <= Len(T) /\ n <= q - p
  BY <1>3
<1>5. StartOf(T, p, q, n)
  BY <1>3, <1>4, PieceStart
<1>6. RestOf(T, p, q, n)
  BY <1>3, <1>4, PieceRest
<1>7. Piece(T, o, p) \o Piece(T, p, p + n) = Piece(T, o, p + n)
  <2>1. JoinOf(T, o, p, p + n)
    BY <1>4, PiecesJoined
  <2> QED BY <2>1, Zenon DEF JoinOf
<1> QED BY <1>1, <1>3, <1>5, <1>6, <1>7 DEF Takes, StartOf, RestOf

-----------------------------------------------------------------------------
(* Where the octets of the things of a list w lie in T, and what is read   *)
(* of each beginning of the list.                                          *)

Lies(x, T, i, j) == i <= j /\ j <= Len(T) /\ OctetsOf(x) = Piece(T, i, j)

Joined(w, T, at) ==
    /\ T \in Seq(Octets)
    /\ \A j \in 0..Len(w) : at[j] \in 0..Len(T)
    /\ at[0] = 0 /\ at[Len(w)] = Len(T)
    /\ \A j \in 1..Len(w) : Lies(w[j], T, at[j - 1], at[j])

NothingRead == [frames |-> <<>>, ended |-> FALSE]

Handed(w, r) ==
    /\ r[0] = NothingRead
    /\ \A j \in 1..Len(w) : r[j] = ReadOn(r[j - 1], w[j])

LEMMA JoinedGrows ==
    ASSUME NEW w, IsList(w), NEW T, NEW at, Joined(w, T, at),
           NEW x, OctetsOf(x) \in Seq(Octets)
    PROVE  \E atx : Joined(Append(w, x), T \o OctetsOf(x), atx)
<1> DEFINE b == OctetsOf(x)
           wx == Append(w, x)
           Tx == T \o b
           n == Len(w)
           atx == [j \in 0..(n + 1) |-> IF j <= n THEN at[j] ELSE Len(T) + Len(b)]
<1>1. /\ T \in Seq(Octets) /\ b \in Seq(Octets) /\ Len(T) \in Nat /\ Len(b) \in Nat
      /\ n \in Nat
  BY DEF Joined, IsList
<1>2. /\ Len(wx) = n + 1 /\ wx[n + 1] = x /\ \A j \in 1..n : wx[j] = w[j]
  BY ListAppend
<1>3. Tx \in Seq(Octets) /\ Len(Tx) = Len(T) + Len(b)
  BY <1>1, Concat DEF Joins
<1>4. /\ \A j \in 0..n : atx[j] = at[j] /\ at[j] \in 0..Len(T)
      /\ atx[n + 1] = Len(T) + Len(b)
  BY <1>1 DEF Joined
<1> HIDE DEF b, wx, Tx, atx, n
<1>9. Longer(Tx, T, b)
  BY DEF Tx, Longer
<1>5. \A j \in 0..(n + 1) : atx[j] \in 0..Len(Tx)
  <2>1. ASSUME NEW j \in 0..(n + 1)
        PROVE  atx[j] \in 0..Len(Tx)
    <3>1. CASE j <= n
      <4>1. j \in 0..n
        BY <1>1, <3>1
      <4>2. atx[j] = at[j] /\ at[j] \in 0..Len(T)
        BY <1>4, <4>1
      <4> QED BY <1>1, <1>3, <4>2
    <3>2. CASE j = n + 1
      BY <1>1, <1>3, <1>4, <3>2
    <3> QED BY <1>1, <3>1, <3>2
  <2> QED BY <2>1
<1>6. atx[0] = 0 /\ atx[n + 1] = Len(Tx)
  BY <1>1, <1>3, <1>4 DEF Joined, n
<1>7. ASSUME NEW j \in 1..(n + 1)
      PROVE  Lies(wx[j], Tx, atx[j - 1], atx[j])
  <2>1. CASE j <= n
    <3>1. Lies(w[j], T, at[j - 1], at[j])
      BY <2>1 DEF Joined, n
    <3>2. j \in 0..n /\ j - 1 \in 0..n /\ j \in 1..n
      BY <1>1, <2>1
    <3>3. at[j] \in Nat /\ at[j - 1] \in Nat /\ at[j] <= Len(T) /\ at[j - 1] <= at[j]
      BY <1>1, <1>4, <3>1, <3>2 DEF Lies
    <3>4. Piece(Tx, at[j - 1], at[j]) = Piece(T, at[j - 1], at[j])
      <4>1. Grown(Tx, T, b, at[j - 1], at[j])
        BY <1>1, <1>9, <3>3, PieceOfLonger
      <4> QED BY <4>1 DEF Grown
    <3>5. at[j] <= Len(Tx)
      BY <1>1, <1>3, <3>3
    <3>6. wx[j] = w[j] /\ atx[j] = at[j] /\ atx[j - 1] = at[j - 1]
      BY <1>2, <1>4, <3>2
    <3> QED BY <3>1, <3>3, <3>4, <3>5, <3>6 DEF Lies
  <2>2. CASE j = n + 1
    <3>1. wx[j] = x /\ atx[j] = Len(T) + Len(b)
      BY <1>2, <1>4, <2>2
    <3>2. j - 1 = n /\ n \in 0..n
      BY <1>1, <2>2
    <3>3. atx[j - 1] = Len(T)
      BY <1>4, <3>2 DEF Joined, n
    <3>4. Piece(Tx, Len(T), Len(T) + Len(b)) = b
      <4>1. Len(T) <= Len(T)
        BY <1>1
      <4>2. Grown(Tx, T, b, Len(T), Len(T))
        BY <1>1, <1>9, <4>1, PieceOfLonger
      <4> QED BY <4>2 DEF Grown
    <3>5. Len(T) <= Len(T) + Len(b) /\ Len(T) + Len(b) <= Len(Tx)
      BY <1>1, <1>3
    <3> QED BY <3>1, <3>3, <3>4, <3>5 DEF Lies, b
  <2>3. j <= n \/ j = n + 1
    BY <1>1
  <2> QED BY <2>1, <2>2, <2>3
<1>8. Joined(wx, Tx, atx)
  BY <1>2, <1>3, <1>5, <1>6, <1>7 DEF Joined
<1> QED BY <1>8 DEF wx, Tx, b

LEMMA HandedGrows ==
    ASSUME NEW w, IsList(w), NEW r, Handed(w, r), NEW x
    PROVE  \E rx : /\ Handed(Append(w, x), rx)
                   /\ rx[Len(w) + 1] = ReadOn(r[Len(w)], x)
                   /\ \A j \in 0..Len(w) : rx[j] = r[j]
<1> DEFINE wx == Append(w, x)
           n == Len(w)
           rx == [j \in 0..(n + 1) |-> IF j <= n THEN r[j] ELSE ReadOn(r[n], x)]
<1>1. n \in Nat /\ Len(wx) = n + 1 /\ wx[n + 1] = x /\ \A j \in 1..n : wx[j] = w[j]
  BY ListAppend DEF IsList
<1>2. rx[n + 1] = ReadOn(r[n], x) /\ \A j \in 0..n : rx[j] = r[j]
  BY <1>1
<1> HIDE DEF rx, wx, n
<1>3. ASSUME NEW j \in 1..(n + 1)
      PROVE  rx[j] = ReadOn(rx[j - 1], wx[j])
  <2>1. CASE j \in 1..n
    <3>1. j \in 0..n /\ j - 1 \in 0..n
      BY <1>1, <2>1
    <3>2. rx[j] = r[j] /\ rx[j - 1] = r[j - 1] /\ wx[j] = w[j]
      BY <1>1, <1>2, <2>1, <3>1
    <3> QED BY <2>1, <3>2 DEF Handed, n
  <2>2. CASE j = n + 1
    <3>1. j - 1 = n /\ n \in 0..n
      BY <1>1, <2>2
    <3> QED BY <1>1, <1>2, <2>2, <3>1
  <2>3. j \in 1..n \/ j = n + 1
    BY <1>1
  <2> QED BY <2>1, <2>2, <2>3
<1>4. rx[0] = NothingRead
  BY <1>1, <1>2 DEF Handed
<1>5. Handed(wx, rx)
  BY <1>1, <1>3, <1>4 DEF Handed
<1> QED BY <1>2, <1>5 DEF wx, n

-----------------------------------------------------------------------------
(* The invariant.                                                          *)

(* What is in the lists, whole frames behind the first thing; what is not  *)
(* whole, or is read past its end, comes last.                             *)
Sent(x)    == Item(x) /\ ~Refused(x) /\ CopyWorks(x)
First(x)   == Opens(x) /\ CopyWorks(x)
Pending(x) == (ToSend(x) \/ IsFrame(x) \/ FromPeer(x)) /\ ~Refused(x) /\ CopyWorks(x)

Lists(w, t) ==
    /\ IsList(w) /\ IsList(t)
    /\ \A j \in 1..Len(w) :
          /\ IF j = 1 THEN First(w[j]) ELSE Sent(w[j])
          /\ ComesLast(w[j]) => j = Len(w) /\ t = <<>>
    /\ \A j \in 1..Len(t) :
          /\ IF j = 1 /\ w = <<>> THEN First(t[j]) ELSE Pending(t[j])
          /\ ComesLast(t[j]) => j = Len(t)

(* The reader has taken what lies before o, k things, and has the octets   *)
(* from o to p.                                                            *)
Place(T, k, o, p) ==
    \/ state = "initial" /\ k = 0 /\ target = 8 /\ p - o < 8
    \/ state = "idle" /\ k > 0 /\ target = 7 /\ p = o
    \/ state = "header" /\ k > 0 /\ target = 7 /\ p > o /\ p - o < 7
    \/ /\ state = "body" /\ target = TargetSize(Piece(T, o, p)) /\ ~Wraps(Piece(T, o, p))
       /\ p - o >= 7 /\ p - o < target
       /\ k < Len(written) /\ Item(written[k + 1])

ReadingAt(T, at, r, k, p, q) ==
    /\ at[k] <= p /\ p <= q
    /\ inbound = Piece(T, at[k], p) /\ sock = Piece(T, p, q) /\ wire = Piece(T, q, Len(T))
    /\ got = r[k].frames /\ ~r[k].ended
    /\ Place(T, k, at[k], p)

Reading(T, at, r) ==
    \E k \in 0..Len(written), p \in 0..Len(T), q \in 0..Len(T) : ReadingAt(T, at, r, k, p, q)

(* It has stopped at a thing that ends the reading, or that may.           *)
StoppedAt(r, k) ==
    /\ got = r[k].frames
    /\ r[k].ended \/ (k = Len(written) /\ Doubtful(written[k]))

Stopped(r) == \E k \in 1..Len(written) : StoppedAt(r, k)

Reader(T, at, r) ==
    /\ status \in {"ok", "error"}
    /\ status = "ok" => Reading(T, at, r)
    /\ status = "error" => Stopped(r)

NotBegun == /\ sock = <<>> /\ state = "initial" /\ inbound = <<>> /\ target = 8
            /\ got = <<>> /\ stray = <<>> /\ status = "ok"

(* It reads past the end of nothing else.                                  *)
Astray == stray # <<>> => \E j \in 1..Len(written) : Doubtful(written[j])

WireInv ==
    /\ Lists(written, todo)
    /\ todo # <<>> => NotBegun
    /\ Astray
    /\ \E T, at, r : Joined(written, T, at) /\ Handed(written, r) /\ Reader(T, at, r)

LEMMA InitWire == Init => WireInv
<1> SUFFICES ASSUME Init
             PROVE  WireInv
  OBVIOUS
<1>1. todo \in Streams /\ written = <<>> /\ NotBegun /\ wire = <<>>
  BY DEF Init, NotBegun
<1>2. Lists(written, todo)
  <2>1. IsList(todo) /\ IsList(written) /\ Len(written) = 0
    BY <1>1, StreamAssumption, EmptyList DEF IsList
  <2>2. ASSUME NEW j \in 1..Len(todo)
        PROVE  /\ IF j = 1 THEN First(todo[j]) ELSE Pending(todo[j])
               /\ ComesLast(todo[j]) => j = Len(todo)
    <3>1. /\ IF j = 1 THEN Opens(todo[j])
             ELSE (ToSend(todo[j]) \/ FromPeer(todo[j])) /\ ~Refused(todo[j])
          /\ CopyWorks(todo[j])
          /\ ComesLast(todo[j]) => j = Len(todo)
      BY <1>1, StreamAssumption
    <3> QED BY <3>1 DEF First, Pending
  <2> QED BY <1>1, <2>1, <2>2 DEF Lists
<1> DEFINE T == <<>>
           at == [n \in 0..0 |-> 0]
           r == [n \in 0..0 |-> NothingRead]
<1>3. T \in Seq(Octets) /\ Len(T) = 0 /\ at[0] = 0 /\ r[0] = NothingRead
      /\ Piece(T, 0, 0) = <<>>
  BY DEF Piece
<1> HIDE DEF T, at, r
<1>4. Joined(written, T, at)
  BY <1>1, <1>3 DEF Joined
<1>5. Handed(written, r)
  BY <1>1, <1>3 DEF Handed
<1>6. ReadingAt(T, at, r, 0, 0, 0)
  BY <1>1, <1>3 DEF NotBegun, ReadingAt, Place, NothingRead, T
<1>7. Reader(T, at, r)
  <2>1. Len(written) = 0 /\ 0 \in 0..0
    BY <1>1
  <2>2. Reading(T, at, r)
    BY <1>3, <1>6, <2>1 DEF Reading
  <2> QED BY <1>1, <2>2 DEF Reader, NotBegun
<1>8. Astray
  BY <1>1 DEF NotBegun, Astray
<1> QED BY <1>1, <1>2, <1>4, <1>5, <1>7, <1>8 DEF WireInv

-----------------------------------------------------------------------------
(* What the writer's steps do to the lists.                                *)

LEMMA EmptyTest ==
    ASSUME NEW s, IsList(s)
    PROVE  s = <<>> <=> Len(s) = 0
<1>1. PICK S : s \in Seq(S)
  BY ListIsSeq
<1> QED BY <1>1

LEMMA HeadOfLists ==
    ASSUME NEW w, NEW t, Lists(w, t), t # <<>>
    PROVE  /\ IF w = <<>> THEN First(Head(t)) ELSE Pending(Head(t))
           /\ ComesLast(Head(t)) => Tail(t) = <<>>
           /\ \A j \in 1..Len(w) : ~ComesLast(w[j])
<1>1. IsList(t) /\ Len(t) >= 1 /\ Head(t) = t[1] /\ Len(t) \in Nat
      /\ IsList(Tail(t)) /\ Len(Tail(t)) = Len(t) - 1
  BY ListTail DEF Lists, IsList
<1>2. 1 \in 1..Len(t)
  BY <1>1
<1>3. /\ IF w = <<>> THEN First(t[1]) ELSE Pending(t[1])
      /\ ComesLast(t[1]) => 1 = Len(t)
  BY <1>2 DEF Lists
<1>4. Len(t) = 1 => Tail(t) = <<>>
  <2> DEFINE tx == Tail(t)
  <2>1. IsList(tx) /\ Len(tx) = Len(t) - 1
    BY <1>1
  <2> HIDE DEF tx
  <2>2. tx = <<>> <=> Len(tx) = 0
    BY <2>1, EmptyTest
  <2>3. Len(t) = 1 => tx = <<>>
    BY <2>1, <2>2
  <2> QED BY <2>3 DEF tx
<1>5. \A j \in 1..Len(w) : ~ComesLast(w[j])
  BY DEF Lists
<1> QED BY <1>1, <1>3, <1>4, <1>5

LEMMA ListsSent ==
    ASSUME NEW w, NEW t, Lists(w, t), t # <<>>,
           NEW x, IF w = <<>> THEN First(x) ELSE Sent(x), ComesLast(x) => Tail(t) = <<>>
    PROVE  Lists(Append(w, x), Tail(t))
<1> DEFINE wx == Append(w, x)
           tx == Tail(t)
<1>1. IsList(w) /\ IsList(t) /\ Len(w) \in Nat /\ Len(t) \in Nat
  BY DEF Lists, IsList
<1>2. /\ IsList(wx) /\ Len(wx) = Len(w) + 1 /\ wx[Len(w) + 1] = x
      /\ \A j \in 1..Len(w) : wx[j] = w[j]
  BY <1>1, ListAppend
<1>3. /\ IsList(tx) /\ Len(tx) = Len(t) - 1
      /\ \A j \in 1..Len(t) - 1 : tx[j] = t[j + 1]
  BY <1>1, ListTail
<1> HIDE DEF wx, tx
<1>4. wx # <<>>
  BY <1>1, <1>2, EmptyTest
<1>5. ASSUME NEW j \in 1..Len(wx)
      PROVE  /\ IF j = 1 THEN First(wx[j]) ELSE Sent(wx[j])
             /\ ComesLast(wx[j]) => j = Len(wx) /\ tx = <<>>
  <2>1. CASE j \in 1..Len(w)
    <3>1. wx[j] = w[j] /\ ~ComesLast(w[j])
      BY <1>2, <2>1, HeadOfLists, Zenon
    <3>2. IF j = 1 THEN First(w[j]) ELSE Sent(w[j])
      BY <2>1 DEF Lists
    <3> QED BY <3>1, <3>2
  <2>2. CASE j = Len(w) + 1
    <3>1. w = <<>> <=> j = 1
      BY <1>1, <2>2, EmptyTest
    <3>2. wx[j] = x /\ j = Len(wx)
      BY <1>2, <2>2
    <3>3. ComesLast(x) => tx = <<>>
      BY DEF tx
    <3> QED BY <3>1, <3>2, <3>3
  <2>3. j \in 1..Len(w) \/ j = Len(w) + 1
    BY <1>1, <1>2
  <2> QED BY <2>1, <2>2, <2>3
<1>6. ASSUME NEW j \in 1..Len(tx)
      PROVE  /\ Pending(tx[j])
             /\ ComesLast(tx[j]) => j = Len(tx)
  <2>1. tx[j] = t[j + 1] /\ j + 1 \in 1..Len(t) /\ j + 1 # 1
    BY <1>1, <1>3
  <2>2. Pending(t[j + 1]) /\ (ComesLast(t[j + 1]) => j + 1 = Len(t))
    BY <2>1 DEF Lists
  <2> QED BY <1>1, <1>3, <2>1, <2>2
<1>7. Lists(wx, tx)
  BY <1>2, <1>3, <1>4, <1>5, <1>6 DEF Lists
<1> QED BY <1>7 DEF wx, tx

(* u takes the place of the head.                                          *)
LEMMA ListsReplaced ==
    ASSUME NEW w, NEW t, Lists(w, t), t # <<>>, w # <<>>,
           NEW u, IsList(u), \A j \in 1..Len(u) : Pending(u[j]) /\ ~ComesLast(u[j])
    PROVE  Lists(w, u \o Tail(t))
<1> DEFINE tx == Tail(t)
           ux == u \o tx
<1>1. IsList(w) /\ IsList(t) /\ Len(w) \in Nat /\ Len(t) \in Nat /\ Len(u) \in Nat
  BY DEF Lists, IsList
<1>2. /\ IsList(tx) /\ Len(tx) = Len(t) - 1
      /\ \A j \in 1..Len(t) - 1 : tx[j] = t[j + 1]
  BY <1>1, ListTail
<1>3. IsList(ux) /\ Joins(ux, u, tx)
  BY <1>2, ListConcat
<1> HIDE DEF tx, ux
<1>4. ASSUME NEW j \in 1..Len(ux)
      PROVE  Pending(ux[j]) /\ (ComesLast(ux[j]) => j = Len(ux))
  <2>1. CASE j \in 1..Len(u)
    BY <1>3, <2>1 DEF Joins
  <2>2. CASE j > Len(u)
    <3> DEFINE i == j - Len(u)
    <3>1. i \in 1..Len(tx) /\ j = Len(u) + i /\ i + 1 \in 1..Len(t) /\ i + 1 # 1
      BY <1>1, <1>2, <1>3, <2>2 DEF Joins
    <3> HIDE DEF i
    <3>2. ux[j] = tx[i] /\ tx[i] = t[i + 1]
      <4>1. ux[Len(u) + i] = tx[i]
        BY <1>3, <3>1 DEF Joins
      <4>2. tx[i] = t[i + 1]
        BY <1>1, <1>2, <3>1
      <4> QED BY <3>1, <4>1, <4>2
    <3>3. Pending(t[i + 1]) /\ (ComesLast(t[i + 1]) => i + 1 = Len(t))
      BY <3>1 DEF Lists
    <3>4. i + 1 = Len(t) => j = Len(ux)
      <4>1. Len(ux) = Len(u) + Len(tx)
        BY <1>3 DEF Joins
      <4>2. Len(tx) = Len(t) - 1 /\ Len(tx) \in Nat /\ Len(t) \in Nat /\ Len(u) \in Nat
        BY <1>1, <1>2, <2>2, <3>1
      <4>3. i \in Nat /\ j = Len(u) + i
        BY <3>1
      <4> QED BY <4>1, <4>2, <4>3
    <3> QED BY <3>2, <3>3, <3>4
  <2>3. j \in 1..Len(u) \/ j > Len(u)
    BY <1>1
  <2> QED BY <2>1, <2>2, <2>3
<1>5. \A j \in 1..Len(w) : /\ IF j = 1 THEN First(w[j]) ELSE Sent(w[j])
                           /\ ~ComesLast(w[j])
  BY HeadOfLists DEF Lists
<1>6. Lists(w, ux)
  BY <1>1, <1>3, <1>4, <1>5 DEF Lists
<1> QED BY <1>6 DEF ux, tx

LEMMA PendingFrame ==
    ASSUME NEW x, Pending(x), x.type \notin {"octets", "publish", "request"}
    PROVE  IsFrame(x) /\ (FitsOutbound(x) => Sent(x)) /\ OctetsOf(x) = EncodeFrame(x)
           /\ ~ComesLast(x)
<1>1. IsFrame(x)
  BY DEF Pending, ToSend, FromPeer, IsFrame, IsHeartbeat
<1>2. FitsOutbound(x) => Fits(x)
  <2>1. CASE x.type # "body"
    BY <2>1 DEF FitsOutbound, Fits
  <2>2. CASE x.type = "body"
    <3>1. IsBody(x) /\ Payload(x) = x.bytes
      BY <1>1, <2>2, TypesOfFrames DEF Payload
    <3>2. Len(EncodeFrame(x)) = Len(x.bytes) + 8 /\ Len(x.bytes) \in Nat
      BY <1>1, <3>1, LengthOfFrame
    <3>3. Len(x.bytes) <= FragmentSize
      BY <3>1 DEF IsBody
    <3> QED BY <3>2, <3>3, SizesOfFrames DEF Fits
  <2> QED BY <2>1, <2>2
<1>3. ~ComesLast(x)
  BY DEF ComesLast, IsUnfinished, Doubtful
<1> QED BY <1>1, <1>2, <1>3 DEF Pending, Sent, Item, OctetsOf

LEMMA PendingOctets ==
    ASSUME NEW x, Pending(x), x.type = "octets"
    PROVE  Sent(x) /\ OctetsOf(x) = x.bytes
<1>1. ~IsFrame(x)
  BY TypesOfFrames
<1>2. FromPeer(x)
  BY <1>1 DEF Pending, ToSend
<1> QED BY <1>2 DEF Pending, Sent, Item, OctetsOf

LEMMA FirstOctets ==
    ASSUME NEW x, First(x)
    PROVE  /\ x.type \in {"method", "octets"} /\ OctetsOf(x) \in Seq(Octets)
           /\ x.type = "method" => FitsOutbound(x)
           /\ ~ComesLast(x)
BY OpeningOctets DEF First, Opens

LEMMA SentOctets ==
    ASSUME NEW x, Sent(x)
    PROVE  OctetsOf(x) \in Seq(Octets)
BY ItemIsRead DEF Sent

(* The frames of a message.                                                *)
LEMMA FragmentType ==
    ASSUME NEW p, p.body \in Seq(Octets), p.channel \in Channels, NEW k \in Nat, k >= 1
    PROVE  IsBody(Fragment(p, k))
<1> DEFINE n == Len(p.body)
           from == (k - 1) * FragmentSize
           to == Shorter(k * FragmentSize, n)
           bytes == SubSeq(p.body, from + 1, to)
<1>1. n \in Nat /\ FragmentSize \in Nat
  BY SizesOfFrames
<1>2. from \in Nat /\ k * FragmentSize \in Nat /\ k * FragmentSize = from + FragmentSize
  BY <1>1, SMT
<1>3. to \in Nat /\ to <= n /\ to <= from + FragmentSize
  BY <1>1, <1>2 DEF Shorter
<1>4. Fragment(p, k) = [type |-> "body", channel |-> p.channel, bytes |-> bytes]
  BY DEF Fragment
<1> HIDE DEF from, to, n
<1>5. bytes \in Seq(Octets) /\ Len(bytes) <= FragmentSize
  <2>1. CASE from + 1 <= to
    BY <1>1, <1>2, <1>3, <2>1 DEF n
  <2>2. CASE from + 1 > to
    <3>1. bytes = <<>>
      BY <1>1, <1>2, <1>3, <2>2
    <3>2. <<>> \in Seq(Octets) /\ Len(<<>>) = 0
      OBVIOUS
    <3> HIDE DEF bytes
    <3> QED BY <1>1, <3>1, <3>2
  <2> QED BY <1>2, <1>3, <2>1, <2>2
<1> HIDE DEF bytes
<1> QED BY <1>4, <1>5 DEF IsBody

LEMMA NotDisturbing ==
    ASSUME NEW x, IsFrame(x), x.type = "method" => x.method # "connection_start"
    PROVE  Pending(x) /\ ~ComesLast(x)
<1>1. x.type # "octets"
  BY TypesOfFrames
<1>2. ~ComesLast(x)
  BY <1>1 DEF ComesLast, IsUnfinished, Doubtful
<1> QED BY <1>1, <1>2 DEF Pending, Refused, CopyWorks

-----------------------------------------------------------------------------
(* The writer's steps.                                                     *)

ReaderUnchanged == UNCHANGED <<sock, state, inbound, target, got, stray, status>>

(* The frames of a message, or of a request, take its place.               *)
LEMMA Replacing ==
    ASSUME WireInv, todo # <<>>, Head(todo).type \in {"publish", "request"},
           NEW u, IsList(u), \A j \in 1..Len(u) : Pending(u[j]) /\ ~ComesLast(u[j]),
           todo' = u \o Tail(todo), UNCHANGED <<written, wire>>, ReaderUnchanged
    PROVE  WireInv'
<1>1. Lists(written, todo) /\ NotBegun
  BY DEF WireInv
<1>2. written # <<>>
  BY <1>1, HeadOfLists, FirstOctets
<1>3. Lists(written, u \o Tail(todo))
  BY <1>1, <1>2, ListsReplaced
<1>4. Lists(written', todo') /\ NotBegun' /\ Astray'
  BY <1>1, <1>3 DEF ReaderUnchanged, NotBegun, Astray
<1>5. PICK T, at, r : Joined(written, T, at) /\ Handed(written, r) /\ Reader(T, at, r)
  BY DEF WireInv
<1>6. Joined(written', T, at) /\ Handed(written', r)
  BY <1>5
<1>7. Reader(T, at, r)'
  BY <1>5 DEF Reader, Reading, ReadingAt, Place, Stopped, StoppedAt, ReaderUnchanged
<1> QED BY <1>4, <1>6, <1>7 DEF WireInv

(* x is put on the wire.                                                   *)
LEMMA Sending ==
    ASSUME WireInv, todo # <<>>,
           NEW x, OctetsOf(x) \in Seq(Octets), Lists(Append(written, x), Tail(todo)),
           todo' = Tail(todo), written' = Append(written, x), wire' = wire \o OctetsOf(x),
           ReaderUnchanged
    PROVE  WireInv'
<1> DEFINE b == OctetsOf(x)
<1>1. Lists(written', todo') /\ NotBegun /\ NotBegun' /\ IsList(written) /\ Astray'
  BY DEF WireInv, ReaderUnchanged, NotBegun, Lists, Astray
<1>2. PICK T, at, r : Joined(written, T, at) /\ Handed(written, r) /\ Reader(T, at, r)
  BY DEF WireInv
<1> DEFINE Tx == T \o b
<1>3. PICK atx : Joined(written', Tx, atx)
  BY <1>1, <1>2, JoinedGrows
<1>4. PICK rx : Handed(written', rx)
  BY <1>1, <1>2, HandedGrows
<1>5. wire = T
  <2>1. PICK k \in 0..Len(written), p \in 0..Len(T), q \in 0..Len(T) :
                ReadingAt(T, at, r, k, p, q)
    BY <1>1, <1>2 DEF Reader, Reading, NotBegun
  <2>2. k = 0 /\ at[0] = 0 /\ T \in Seq(Octets)
    BY <1>1, <1>2, <2>1 DEF ReadingAt, Place, NotBegun, Joined
  <2>3. Piece(T, 0, p) = <<>> /\ Piece(T, p, q) = <<>> /\ wire = Piece(T, q, Len(T)) /\ p <= q
    BY <1>1, <2>1, <2>2 DEF ReadingAt, NotBegun
  <2>4. p = 0
    BY <2>2, <2>3, PieceEmpty
  <2>5. q = 0
    BY <2>2, <2>3, <2>4, PieceEmpty
  <2> QED BY <2>2, <2>3, <2>5, WholePiece
<1> HIDE DEF Tx
<1>6. wire' = Tx /\ Tx \in Seq(Octets) /\ Len(Tx) \in Nat
  BY <1>3, <1>5 DEF Tx, Joined
<1>7. wire' = Piece(Tx, 0, Len(Tx)) /\ Piece(Tx, 0, 0) = <<>>
  BY <1>6, WholePiece
<1>8. rx[0] = NothingRead /\ atx[0] = 0
  BY <1>3, <1>4 DEF Joined, Handed
<1>9. /\ sock' = <<>> /\ inbound' = <<>> /\ got' = <<>> /\ state' = "initial" /\ target' = 8
      /\ status' = "ok"
  BY <1>1 DEF NotBegun
<1>10. ReadingAt(Tx, atx, rx, 0, 0, 0)'
  BY <1>7, <1>8, <1>9 DEF ReadingAt, Place, NothingRead
<1>11. Reader(Tx, atx, rx)'
  <2>1. Len(written') \in Nat
    BY <1>1 DEF Lists, IsList
  <2>2. 0 \in 0..Len(written') /\ 0 \in 0..Len(Tx)
    BY <1>6, <2>1
  <2>3. Reading(Tx, atx, rx)'
    BY <1>10, <2>2 DEF Reading
  <2> QED BY <1>9, <2>3 DEF Reader
<1> QED BY <1>1, <1>3, <1>4, <1>11 DEF WireInv

LEMMA Quotient ==
    ASSUME NEW a \in Nat, NEW f \in Nat, f > 0
    PROVE  a \div f \in Nat
BY SMT

LEMMA PublishStep == WireInv /\ Publish => WireInv'
<1> SUFFICES ASSUME WireInv, Publish
             PROVE  WireInv'
  OBVIOUS
<1> DEFINE x == Head(todo)
           n == (Len(x.body) + FragmentSize - 1) \div FragmentSize
           frames == <<PublishMethod(x), PublishHeader(x)>>
           fragments == [k \in 1..n |-> Fragment(x, k)]
           all == frames \o fragments
           u == BasicPublish(x)
<1>1. /\ todo # <<>> /\ x.type = "publish" /\ todo' = u \o Tail(todo)
      /\ UNCHANGED <<written, wire>> /\ ReaderUnchanged
  BY DEF Publish, ReaderUnchanged
<1>2. Lists(written, todo)
  BY DEF WireInv
<1>3. Pending(x)
  BY <1>1, <1>2, HeadOfLists, FirstOctets
<1>4. /\ x.body \in Seq(Octets)
      /\ ReadBack(PublishMethod(x)) /\ ReadBack(PublishHeader(x))
  <2>1. ~IsFrame(x)
    BY <1>1, TypesOfFrames
  <2> QED BY <1>1, <1>3, <2>1 DEF Pending, ToSend, FromPeer
<1>5. x.channel \in Channels
  BY <1>4 DEF ReadBack, PublishMethod
<1>6. n \in Nat
  <2>1. Len(x.body) + FragmentSize - 1 \in Nat /\ FragmentSize \in Nat /\ FragmentSize > 0
    BY <1>4, SizesOfFrames
  <2> QED BY <2>1, Quotient
<1>7. u = <<PublishMethod(x)>> \/ u = frames \/ u = all
  <2>1. CASE ~FitsOutbound(PublishMethod(x))
    BY <2>1, Zenon DEF BasicPublish
  <2>2. CASE FitsOutbound(PublishMethod(x)) /\ ~FitsOutbound(PublishHeader(x))
    BY <2>2, Zenon DEF BasicPublish
  <2>3. CASE FitsOutbound(PublishMethod(x)) /\ FitsOutbound(PublishHeader(x))
    BY <2>3, Zenon DEF BasicPublish
  <2> QED BY <2>1, <2>2, <2>3
<1>8. Pending(PublishMethod(x)) /\ ~ComesLast(PublishMethod(x))
  <2>1. IsFrame(PublishMethod(x)) /\ PublishMethod(x).method # "connection_start"
    BY <1>4 DEF IsFrame, PublishMethod
  <2> QED BY <2>1, NotDisturbing
<1>9. Pending(PublishHeader(x)) /\ ~ComesLast(PublishHeader(x))
  <2>1. IsFrame(PublishHeader(x)) /\ PublishHeader(x).type # "method"
    BY <1>4 DEF IsFrame, PublishHeader
  <2> QED BY <2>1, NotDisturbing
<1> HIDE DEF x, n
<1>10. \A k \in 1..n : Pending(Fragment(x, k)) /\ ~ComesLast(Fragment(x, k))
  <2>1. ASSUME NEW k \in 1..n
        PROVE  Pending(Fragment(x, k)) /\ ~ComesLast(Fragment(x, k))
    <3>1. k \in Nat /\ k >= 1
      BY <1>6
    <3>2. IsBody(Fragment(x, k))
      BY <1>4, <1>5, <3>1, FragmentType
    <3>3. IsFrame(Fragment(x, k)) /\ Fragment(x, k).type # "method"
      BY <3>2 DEF IsFrame, Fragment
    <3> QED BY <3>3, NotDisturbing
  <2> QED BY <2>1
<1>11. IsList(frames) /\ Len(frames) = 2 /\ frames[1] = PublishMethod(x)
       /\ frames[2] = PublishHeader(x)
  BY DEF IsList
<1>12. IsList(fragments) /\ Len(fragments) = n
       /\ \A k \in 1..n : fragments[k] = Fragment(x, k)
  BY <1>6 DEF IsList
<1> DEFINE Waiting(s) == IsList(s) /\ \A j \in 1..Len(s) : Pending(s[j]) /\ ~ComesLast(s[j])
<1>15. Waiting(<<PublishMethod(x)>>)
  BY <1>8 DEF IsList
<1>16. Waiting(frames)
  BY <1>8, <1>9, <1>11
<1> HIDE DEF frames, fragments, u, all
<1>13. IsList(all) /\ Joins(all, frames, fragments)
  BY <1>11, <1>12, ListConcat DEF all
<1>14. ASSUME NEW j \in 1..Len(all)
       PROVE  Pending(all[j]) /\ ~ComesLast(all[j])
  <2>1. CASE j = 1 \/ j = 2
    <3>1. all[1] = frames[1] /\ all[2] = frames[2]
      BY <1>11, <1>13 DEF Joins
    <3> QED BY <1>8, <1>9, <1>11, <2>1, <3>1
  <2>2. CASE j > 2
    <3>1. Len(all) = 2 + n
      BY <1>11, <1>12, <1>13 DEF Joins
    <3>2. j - 2 \in 1..n /\ j = 2 + (j - 2)
      BY <1>6, <2>2, <3>1
    <3>3. all[2 + (j - 2)] = fragments[j - 2]
      BY <1>11, <1>12, <1>13, <3>2 DEF Joins
    <3> QED BY <1>10, <1>12, <3>2, <3>3
  <2>3. j = 1 \/ j = 2 \/ j > 2
    OBVIOUS
  <2> QED BY <2>1, <2>2, <2>3
<1>17. Waiting(u)
  BY <1>7, <1>13, <1>14, <1>15, <1>16
<1> QED BY <1>1, <1>17, Replacing DEF x

LEMMA RequestStep == WireInv /\ MakeRequest => WireInv'
<1> SUFFICES ASSUME WireInv, MakeRequest
             PROVE  WireInv'
  OBVIOUS
<1> DEFINE x == Head(todo)
           f == RequestFrame(x)
           u == <<f>>
<1>1. /\ todo # <<>> /\ x.type = "request" /\ todo' = u \o Tail(todo)
      /\ UNCHANGED <<written, wire>> /\ ReaderUnchanged
  BY DEF MakeRequest, ReaderUnchanged
<1>2. Lists(written, todo)
  BY DEF WireInv
<1>3. Pending(x)
  BY <1>1, <1>2, HeadOfLists, FirstOctets
<1>4. x.method # "connection_start" /\ ReadBack(f)
  <2>1. ~IsFrame(x)
    BY <1>1, TypesOfFrames
  <2> QED BY <1>1, <1>3, <2>1 DEF Pending, ToSend, FromPeer
<1>5. IsFrame(f) /\ f.method # "connection_start"
  BY <1>4 DEF IsFrame, RequestFrame
<1>6. Pending(f) /\ ~ComesLast(f)
  BY <1>5, NotDisturbing
<1> HIDE DEF f
<1>7. IsList(u) /\ Len(u) = 1 /\ u[1] = f
  BY DEF IsList
<1>8. \A j \in 1..Len(u) : Pending(u[j]) /\ ~ComesLast(u[j])
  BY <1>6, <1>7
<1> HIDE DEF u
<1> QED BY <1>1, <1>7, <1>8, Replacing

LEMMA SendStep == WireInv /\ SendFrame => WireInv'
<1> SUFFICES ASSUME WireInv, SendFrame
             PROVE  WireInv'
  OBVIOUS
<1> DEFINE x == Head(todo)
<1>1. /\ todo # <<>> /\ x.type \notin {"octets", "publish", "request"} /\ todo' = Tail(todo)
      /\ ReaderUnchanged
  BY DEF SendFrame, ReaderUnchanged
<1>2. Lists(written, todo)
  BY DEF WireInv
<1>3. /\ IF written = <<>> THEN First(x) ELSE Pending(x)
      /\ ComesLast(x) => Tail(todo) = <<>>
  BY <1>1, <1>2, HeadOfLists
<1>4. CASE FitsOutbound(x)
  <2>1. written' = Append(written, x) /\ wire' = wire \o EncodeFrame(x)
    BY <1>4 DEF SendFrame
  <2>2. OctetsOf(x) = EncodeFrame(x)
    BY <1>1 DEF OctetsOf
  <2>3. /\ IF written = <<>> THEN First(x) ELSE Sent(x)
        /\ OctetsOf(x) \in Seq(Octets)
    BY <1>1, <1>3, <1>4, PendingFrame, FirstOctets, SentOctets
  <2>4. Lists(Append(written, x), Tail(todo))
    BY <1>1, <1>2, <1>3, <2>3, ListsSent
  <2> HIDE DEF x
  <2> QED BY <1>1, <2>1, <2>2, <2>3, <2>4, Sending
<1>5. CASE ~FitsOutbound(x)
  <2>1. UNCHANGED <<written, wire>>
    BY <1>5 DEF SendFrame
  <2>2. written # <<>>
    BY <1>1, <1>3, <1>5, FirstOctets
  <2> DEFINE u == <<>>
  <2>3. IsList(u) /\ Len(u) = 0
    BY EmptyList
  <2>10. \A j \in 1..Len(u) : Pending(u[j]) /\ ~ComesLast(u[j])
    BY <2>3
  <2>11. u = <<>>
    OBVIOUS
  <2> HIDE DEF u
  <2>4. Lists(written, u \o Tail(todo))
    BY <1>1, <1>2, <2>2, <2>3, <2>10, ListsReplaced
  <2>5. u \o Tail(todo) = Tail(todo)
    <3> DEFINE tx == Tail(todo)
    <3>1. IsList(tx)
      BY <1>1, <1>2, ListTail DEF Lists
    <3> HIDE DEF tx
    <3>2. PICK S : tx \in Seq(S)
      BY <3>1, ListIsSeq
    <3>3. u \o tx = tx
      BY <2>11, <3>2
    <3> QED BY <3>3 DEF tx
  <2>6. Lists(written', todo') /\ NotBegun /\ NotBegun' /\ Astray'
    BY <1>1, <2>1, <2>4, <2>5 DEF WireInv, ReaderUnchanged, NotBegun, Astray
  <2>7. PICK T, at, r : Joined(written, T, at) /\ Handed(written, r) /\ Reader(T, at, r)
    BY DEF WireInv
  <2>8. Joined(written', T, at) /\ Handed(written', r)
    BY <2>1, <2>7
  <2>9. Reader(T, at, r)'
    BY <1>1, <2>1, <2>7 DEF Reader, Reading, ReadingAt, Place, Stopped, StoppedAt, ReaderUnchanged
  <2> QED BY <2>6, <2>8, <2>9 DEF WireInv
<1> QED BY <1>4, <1>5

LEMMA OctetsStep == WireInv /\ PeerSendsOctets => WireInv'
<1> SUFFICES ASSUME WireInv, PeerSendsOctets
             PROVE  WireInv'
  OBVIOUS
<1> DEFINE x == Head(todo)
<1>1. /\ todo # <<>> /\ x.type = "octets" /\ todo' = Tail(todo) /\ ReaderUnchanged
      /\ written' = Append(written, x) /\ wire' = wire \o x.bytes
  BY DEF PeerSendsOctets, ReaderUnchanged
<1>2. Lists(written, todo)
  BY DEF WireInv
<1>3. /\ IF written = <<>> THEN First(x) ELSE Pending(x)
      /\ ComesLast(x) => Tail(todo) = <<>>
  BY <1>1, <1>2, HeadOfLists
<1>4. /\ IF written = <<>> THEN First(x) ELSE Sent(x)
      /\ OctetsOf(x) \in Seq(Octets) /\ OctetsOf(x) = x.bytes
  BY <1>1, <1>3, PendingOctets, FirstOctets, SentOctets DEF OctetsOf
<1>5. Lists(Append(written, x), Tail(todo))
  BY <1>1, <1>2, <1>3, <1>4, ListsSent
<1> HIDE DEF x
<1> QED BY <1>1, <1>4, <1>5, Sending

-----------------------------------------------------------------------------
(* The reader's steps.                                                     *)

(* The reader has octets to look at.                                       *)
Facing(T, at, r, k, p, q) ==
    /\ Joined(written, T, at) /\ Handed(written, r) /\ ReadingAt(T, at, r, k, p, q)
    /\ Lists(written, todo) /\ todo = <<>> /\ Astray
    /\ T \in Seq(Octets) /\ Len(T) \in Nat /\ Len(written) \in Nat
    /\ k \in Nat /\ p \in Nat /\ q \in Nat /\ at[k] \in Nat
    /\ k < Len(written) /\ p < q /\ q <= Len(T) /\ at[k] <= p
    /\ target \in Nat /\ p - at[k] < target

LEMMA ReaderFaces ==
    ASSUME WireInv, sock # <<>>, status = "ok"
    PROVE  \E T, at, r, k, p, q : Facing(T, at, r, k, p, q)
<1>1. PICK T, at, r : Joined(written, T, at) /\ Handed(written, r) /\ Reader(T, at, r)
  BY DEF WireInv
<1>2. PICK k \in 0..Len(written), p \in 0..Len(T), q \in 0..Len(T) :
              ReadingAt(T, at, r, k, p, q)
  BY <1>1 DEF Reader, Reading
<1>3. Lists(written, todo) /\ todo = <<>> /\ Astray
  BY DEF WireInv, NotBegun
<1>4. /\ T \in Seq(Octets) /\ Len(T) \in Nat /\ Len(written) \in Nat
      /\ at[k] \in 0..Len(T) /\ at[Len(written)] = Len(T)
  BY <1>1, <1>2, <1>3 DEF Joined, Lists, IsList
<1>5. k \in Nat /\ p \in Nat /\ q \in Nat /\ at[k] \in Nat /\ q <= Len(T) /\ p <= Len(T)
      /\ k <= Len(written)
  BY <1>2, <1>4
<1>6. at[k] <= p /\ p <= q /\ sock = Piece(T, p, q)
  BY <1>2 DEF ReadingAt
<1>7. p < q
  <2>1. p # q
    BY <1>4, <1>5, <1>6, PieceEmpty
  <2> QED BY <1>5, <1>6, <2>1
<1>8. k < Len(written)
  <2>1. k # Len(written)
    BY <1>4, <1>5, <1>6, <1>7
  <2> QED BY <1>4, <1>5, <2>1
<1>9. target \in Nat /\ p - at[k] < target
  <2>1. Place(T, k, at[k], p)
    BY <1>2 DEF ReadingAt
  <2>2. CASE target = 7 \/ target = 8
    BY <1>5, <2>1, <2>2 DEF Place
  <2>3. CASE target # 7 /\ target # 8
    <3>1. target = TargetSize(Piece(T, at[k], p)) /\ p - at[k] >= 7 /\ p - at[k] < target
      BY <2>1, <2>3 DEF Place
    <3>2. at[k] + 7 <= p
      BY <1>5, <3>1
    <3> QED BY <1>4, <1>5, <3>1, <3>2, PieceSize
  <2> QED BY <2>2, <2>3
<1> QED BY <1>1, <1>2, <1>3, <1>4, <1>5, <1>6, <1>7, <1>8, <1>9 DEF Facing

LEMMA StillReader ==
    ASSUME NEW T, NEW at, NEW r, NEW k, NEW p, NEW q, Facing(T, at, r, k, p, q),
           UNCHANGED <<todo, written>>, Reader(T, at, r)', Astray'
    PROVE  WireInv'
<1>1. Lists(written', todo') /\ todo' = <<>> /\ Joined(written', T, at) /\ Handed(written', r)
  BY DEF Facing
<1> QED BY <1>1 DEF WireInv

LEMMA StillAstray ==
    ASSUME NEW T, NEW at, NEW r, NEW k, NEW p, NEW q, Facing(T, at, r, k, p, q),
           UNCHANGED <<written, stray>>
    PROVE  Astray'
BY DEF Facing, Astray

(* The reader goes on, from k, p and q.                                    *)
LEMMA GoesOn ==
    ASSUME NEW T, NEW at, NEW r, NEW k0, NEW p0, NEW q0, Facing(T, at, r, k0, p0, q0),
           UNCHANGED <<todo, written>>, status' = "ok", Astray',
           NEW k \in Nat, NEW p \in Nat, NEW q \in Nat,
           k <= Len(written), p <= q, q <= Len(T),
           ReadingAt(T, at, r, k, p, q)'
    PROVE  WireInv'
<1>1. k \in 0..Len(written') /\ p \in 0..Len(T) /\ q \in 0..Len(T)
  BY DEF Facing
<1>2. Reading(T, at, r)'
  BY <1>1 DEF Reading
<1>3. Reader(T, at, r)'
  BY <1>2 DEF Reader
<1> QED BY <1>3, StillReader

LEMMA OneMore ==
    ASSUME NEW r, NEW x, ~r.ended, ~Ignored(x)
    PROVE  /\ ReadOn(r, x).ended <=> Malformed(x) \/ Refused(x)
           /\ ReadOn(r, x).frames = IF Malformed(x) THEN r.frames ELSE Append(r.frames, AsRead(x))
<1> DEFINE frames == IF Malformed(x) THEN r.frames ELSE Append(r.frames, AsRead(x))
           ended == Malformed(x) \/ Refused(x)
<1>1. ReadOn(r, x) = [frames |-> frames, ended |-> ended]
  BY Zenon DEF ReadOn
<1> HIDE DEF frames, ended
<1>2. ReadOn(r, x).frames = frames /\ ReadOn(r, x).ended = ended
  BY <1>1
<1>3. ended \in BOOLEAN
  BY DEF ended
<1> QED BY <1>2, <1>3, Zenon DEF frames, ended

LEMMA NextThing ==
    ASSUME NEW T, NEW at, NEW r, NEW k, NEW p, NEW q, Facing(T, at, r, k, p, q)
    PROVE  LET x == written[k + 1]
           IN  /\ k + 1 \in 1..Len(written) /\ k + 1 \in Nat
               /\ r[k + 1] = ReadOn(r[k], x) /\ ~r[k].ended /\ got = r[k].frames
               /\ Lies(x, T, at[k], at[k + 1]) /\ at[k + 1] \in Nat
               /\ CopyWorks(x) /\ (k > 0 => Sent(x)) /\ (k = 0 => First(x) /\ got = <<>>)
               /\ ComesLast(x) => at[k + 1] = Len(T) /\ k + 1 = Len(written)
<1> DEFINE j == k + 1
<1>1. j \in 1..Len(written) /\ j - 1 = k /\ j \in Nat /\ j \in 0..Len(written)
  BY DEF Facing
<1>2. r[j] = ReadOn(r[j - 1], written[j]) /\ Lies(written[j], T, at[j - 1], at[j])
      /\ at[j] \in 0..Len(T) /\ at[Len(written)] = Len(T) /\ r[0] = NothingRead
  BY <1>1 DEF Facing, Joined, Handed
<1>3. /\ IF j = 1 THEN First(written[j]) ELSE Sent(written[j])
      /\ ComesLast(written[j]) => j = Len(written)
  BY <1>1 DEF Facing, Lists
<1>4. k = 0 <=> j = 1
  BY DEF Facing
<1>5. got = r[k].frames /\ ~r[k].ended
  BY DEF Facing, ReadingAt
<1>6. k = 0 => got = <<>>
  BY <1>2, <1>5 DEF NothingRead
<1>7. at[j] \in Nat
  BY <1>2 DEF Facing
<1>8. k > 0 => k # 0
  BY DEF Facing
<1> HIDE DEF j
<1>9. CopyWorks(written[j])
  BY <1>3 DEF First, Sent
<1> QED BY <1>1, <1>2, <1>3, <1>4, <1>5, <1>6, <1>7, <1>8, <1>9 DEF j

(* A whole frame was taken.                                                *)
LEMMA Finished ==
    ASSUME NEW T, NEW at, NEW r, NEW k, NEW p, NEW q, Facing(T, at, r, k, p, q),
           UNCHANGED <<todo, written, wire>>,
           NEW raw, NEW size, FinishFrame(raw, size),
           NEW m \in Nat, m <= q, sock' = Piece(T, m, q),
           \A f \in Outcomes(raw, size) : Outcome(written[k + 1], raw, size, f),
           ~Malformed(written[k + 1]) => m = at[k + 1]
    PROVE  WireInv'
<1> DEFINE x == written[k + 1]
<1>1. /\ k + 1 \in 1..Len(written) /\ k + 1 \in Nat
      /\ r[k + 1] = ReadOn(r[k], x) /\ ~r[k].ended /\ got = r[k].frames
      /\ at[k + 1] \in Nat
      /\ CopyWorks(x) /\ (k > 0 => Sent(x)) /\ (k = 0 => First(x) /\ got = <<>>)
      /\ ComesLast(x) => at[k + 1] = Len(T) /\ k + 1 = Len(written)
  BY NextThing
<1>2. wire = Piece(T, q, Len(T)) /\ q \in Nat /\ q <= Len(T) /\ k \in Nat
      /\ k + 1 <= Len(written) /\ T \in Seq(Octets)
  BY <1>1 DEF Facing, ReadingAt
<1>3. PICK f \in Outcomes(raw, size) : FinishDecoded(raw, size, f)
  BY DEF FinishFrame
<1>7. Outcome(x, raw, size, f)
  OBVIOUS
<1>4. ASSUME status' = "error", StoppedAt(r, k + 1)', UNCHANGED stray
      PROVE  WireInv'
  <2>1. Stopped(r)'
    BY <1>1, <1>4 DEF Stopped
  <2>2. Reader(T, at, r)'
    BY <1>4, <2>1 DEF Reader
  <2>3. Astray'
    BY <1>4, StillAstray
  <2> QED BY <2>2, <2>3, StillReader
<1>8. ASSUME state' = "idle", inbound' = <<>>, target' = 7, status' = "ok",
             got' = r[k + 1].frames, ~r[k + 1].ended, m = at[k + 1], Astray'
      PROVE  WireInv'
  <2>1. inbound' = Piece(T, at[k + 1], m)
    BY <1>1, <1>2, <1>8, WholePiece
  <2>2. Place(T, k + 1, at[k + 1], m)'
    BY <1>2, <1>8 DEF Place
  <2>3. ReadingAt(T, at, r, k + 1, m, q)'
    BY <1>1, <1>2, <1>8, <2>1, <2>2 DEF ReadingAt
  <2> QED BY <1>1, <1>2, <1>8, <2>3, GoesOn
<1> HIDE DEF x
<1>5. CASE Malformed(x)
  <2>1. ~f.ok
    BY <1>5, <1>7 DEF Outcome
  <2>2. status' = "error" /\ got' = got /\ UNCHANGED stray
    BY <1>3, <2>1 DEF FinishDecoded
  <2>3. ~Ignored(x)
    BY <1>5 DEF Malformed, Ignored
  <2>4. r[k + 1].ended /\ r[k + 1].frames = r[k].frames
    BY <1>1, <1>5, <2>3, OneMore
  <2>5. StoppedAt(r, k + 1)'
    BY <1>1, <2>2, <2>4 DEF StoppedAt
  <2> QED BY <1>4, <2>2, <2>5
<1>9. CASE ~Malformed(x) /\ Doubtful(x)
  <2>1. ~LongEnough(raw[1], size) /\ m = at[k + 1]
    BY <1>7, <1>9 DEF Outcome, x
  <2>2. r[k + 1] = r[k]
    BY <1>1, <1>9 DEF ReadOn, Ignored, Doubtful
  <2>3. k + 1 = Len(written)
    BY <1>1, <1>9 DEF ComesLast
  <2>4. CASE f.ok
    <3>1. /\ state' = "idle" /\ inbound' = <<>> /\ target' = 7 /\ status' = "ok"
          /\ UNCHANGED got
      BY <1>3, <2>1, <2>4 DEF FinishDecoded, ReturnToIdle, FreshInbound, HeaderSize
    <3>2. Astray'
      BY <1>1, <1>9 DEF Astray, x
    <3> QED BY <1>1, <1>8, <2>1, <2>2, <3>1, <3>2
  <2>5. CASE ~f.ok
    <3>1. status' = "error" /\ got' = got /\ UNCHANGED stray
      BY <1>3, <2>5 DEF FinishDecoded
    <3>2. StoppedAt(r, k + 1)'
      BY <1>1, <1>9, <2>2, <2>3, <3>1 DEF StoppedAt, x
    <3> QED BY <1>4, <3>1, <3>2
  <2> QED BY <2>4, <2>5
<1>6. CASE ~Malformed(x) /\ ~Doubtful(x)
  <2>1. /\ f.ok /\ m = at[k + 1] /\ LongEnough(raw[1], size)
        /\ IF Ignored(x) THEN f.value.type = "none"
           ELSE f.value = AsRead(x) /\ x.type \in {"method", "header", "body", "heartbeat"}
    BY <1>6, <1>7 DEF Outcome, x
  <2>2. /\ state' = "idle" /\ inbound' = <<>> /\ target' = 7 /\ UNCHANGED stray
        /\ got' = IF f.value.type = "none" THEN got ELSE Append(got, f.value)
        /\ IF got = <<>> /\ f.value.type = "method" /\ f.value.method = "connection_start"
           THEN KeepServerProperties(CopiedTable(f.value.args["server_properties"]))
           ELSE status' = "ok" /\ UNCHANGED server
    BY <1>3, <2>1 DEF FinishDecoded, HandOver, With, ReturnToIdle, FreshInbound, HeaderSize
  <2>9. Astray'
    BY <2>2, StillAstray
  <2>3. ~Ignored(x) => f.value.type = x.type /\ (x.type = "method" => f.value = x)
    BY <2>1, TypeAsRead
  <2>4. got' = r[k + 1].frames
    <3>1. CASE Ignored(x)
      BY <1>1, <2>1, <2>2, <3>1 DEF ReadOn
    <3>2. CASE ~Ignored(x)
      <4>1. f.value.type # "none" /\ f.value = AsRead(x)
        BY <2>1, <2>3, <3>2
      <4>2. r[k + 1].frames = Append(got, AsRead(x))
        BY <1>1, <1>6, <3>2, OneMore
      <4> QED BY <2>2, <4>1, <4>2
    <3> QED BY <3>1, <3>2
  <2>5. r[k + 1].ended <=> ~Ignored(x) /\ Refused(x)
    <3>1. CASE Ignored(x)
      BY <1>1, <3>1 DEF ReadOn
    <3>2. CASE ~Ignored(x)
      BY <1>1, <1>6, <3>2, OneMore
    <3> QED BY <3>1, <3>2
  <2>6. status' = "ok" /\ ~r[k + 1].ended => WireInv'
    BY <1>8, <2>1, <2>2, <2>4, <2>9
  <2>10. status' = "error" /\ r[k + 1].ended => WireInv'
    <3>1. r[k + 1].ended /\ got' = r[k + 1].frames => StoppedAt(r, k + 1)'
      BY <1>1 DEF StoppedAt
    <3> QED BY <1>4, <2>2, <2>4, <3>1
  <2>7. CASE got = <<>> /\ f.value.type = "method" /\ f.value.method = "connection_start"
    <3> DEFINE copy == CopiedTable(f.value.args["server_properties"])
    <3>1. ~Ignored(x)
      BY <2>1, <2>7
    <3>2. x.type = "method" /\ f.value = x
      BY <2>3, <2>7, <3>1
    <3>3. status' = IF copy.ok THEN "ok" ELSE "error"
      BY <2>2, <2>7 DEF KeepServerProperties
    <3>4. copy.ok <=> ~Refused(x)
      BY <1>1, <2>7, <3>2 DEF CopyWorks, Refused
    <3>5. CASE Refused(x)
      <4>1. status' = "error"
        BY <3>3, <3>4, <3>5
      <4> QED BY <2>5, <2>10, <3>1, <3>5, <4>1
    <3>6. CASE ~Refused(x)
      <4>1. status' = "ok"
        BY <3>3, <3>4, <3>6
      <4> QED BY <2>5, <2>6, <3>6, <4>1
    <3> QED BY <3>5, <3>6
  <2>8. CASE ~(got = <<>> /\ f.value.type = "method" /\ f.value.method = "connection_start")
    <3>1. status' = "ok"
      BY <2>2, <2>8
    <3>2. ~Ignored(x) => ~Refused(x)
      <4>1. CASE k = 0
        BY <1>1, <2>3, <2>8, <4>1 DEF Refused
      <4>2. CASE k > 0
        BY <1>1, <4>2 DEF Sent
      <4> QED BY <1>2, <4>1, <4>2
    <3> QED BY <2>5, <2>6, <3>1, <3>2
  <2> QED BY <2>7, <2>8
<1> QED BY <1>5, <1>6, <1>9

LEMMA RecvStep ==
    ASSUME NEW n \in {Len(wire)} \cup (IF Len(wire) > LongStream THEN LongChunks ELSE ChunkSizes)
    PROVE  WireInv /\ Recv(n) => WireInv'
<1> SUFFICES ASSUME WireInv, Recv(n)
             PROVE  WireInv'
  OBVIOUS
<1>1. /\ sock = <<>> /\ wire # <<>> /\ todo = <<>> /\ n <= Len(wire)
      /\ sock' = SubSeq(wire, 1, n) /\ wire' = SubSeq(wire, n + 1, Len(wire))
      /\ UNCHANGED <<todo, written, state, inbound, target, got, stray, status>>
  BY DEF Recv
<1>2. PICK T, at, r : Joined(written, T, at) /\ Handed(written, r) /\ Reader(T, at, r)
  BY DEF WireInv
<1>3. Lists(written', todo') /\ Joined(written', T, at) /\ Handed(written', r)
      /\ todo' = <<>> /\ Astray'
  BY <1>1, <1>2 DEF WireInv, Astray
<1>4. CASE status = "error"
  <2>1. Reader(T, at, r)'
    BY <1>1, <1>2, <1>4 DEF Reader, Stopped, StoppedAt
  <2> QED BY <1>3, <2>1 DEF WireInv
<1>5. CASE status = "ok"
  <2>1. PICK k \in 0..Len(written), p \in 0..Len(T), q \in 0..Len(T) :
                ReadingAt(T, at, r, k, p, q)
    BY <1>2, <1>5 DEF Reader, Reading
  <2>2. T \in Seq(Octets) /\ Len(T) \in Nat
    BY <1>2 DEF Joined
  <2>3. p \in Nat /\ q \in Nat /\ p <= q /\ q <= Len(T) /\ sock = Piece(T, p, q)
        /\ wire = Piece(T, q, Len(T))
    BY <2>1, <2>2 DEF ReadingAt
  <2>4. p = q
    BY <1>1, <2>2, <2>3, PieceEmpty
  <2>5. Len(wire) = Len(T) - q
    <3>1. IsPiece(wire, Octets, T, q, Len(T))
      <4>1. Len(T) <= Len(T)
        BY <2>2
      <4> QED BY <2>2, <2>3, <4>1, PieceType
    <3> QED BY <3>1 DEF IsPiece
  <2>6. n \in Nat
    <3>1. n = Len(wire) \/ n \in LongChunks \/ n \in ChunkSizes
      OBVIOUS
    <3>2. LongChunks \subseteq Nat /\ ChunkSizes \subseteq Nat
      BY WireAssumption
    <3>3. Len(wire) \in Nat
      BY <2>2, <2>3, <2>5
    <3> QED BY <3>1, <3>2, <3>3
  <2>7. n <= Len(T) - q /\ q + n \in Nat /\ q <= q + n /\ q + n <= Len(T) /\ Len(T) <= Len(T)
    BY <1>1, <2>2, <2>3, <2>5, <2>6
  <2>8. StartOf(T, q, Len(T), n) /\ RestOf(T, q, Len(T), n)
    BY <2>2, <2>3, <2>6, <2>7, PieceStart, PieceRest
  <2>9. sock' = Piece(T, q, q + n) /\ wire' = Piece(T, q + n, Len(T))
    BY <1>1, <2>3, <2>5, <2>8 DEF StartOf, RestOf
  <2>10. ReadingAt(T, at, r, k, p, q + n)'
    <3>1. at[k] <= p /\ inbound = Piece(T, at[k], p) /\ got = r[k].frames /\ ~r[k].ended
          /\ Place(T, k, at[k], p)
      BY <2>1 DEF ReadingAt
    <3>2. Place(T, k, at[k], p)'
      BY <1>1, <3>1 DEF Place
    <3> QED BY <1>1, <2>3, <2>4, <2>7, <2>9, <3>1, <3>2 DEF ReadingAt
  <2>11. q + n \in 0..Len(T)
    BY <2>2, <2>7
  <2>12. k \in 0..Len(written')
    BY <1>1, <2>1
  <2>13. Reading(T, at, r)'
    BY <2>1, <2>10, <2>11, <2>12 DEF Reading
  <2>14. Reader(T, at, r)'
    BY <1>1, <1>5, <2>13 DEF Reader
  <2> QED BY <1>3, <2>14 DEF WireInv
<1> QED BY <1>2, <1>4, <1>5 DEF Reader

(* What the reader takes first, in every state.                            *)
Taken(T, o, p, q, n) ==
    /\ Takes(T, o, p, q, target, n) /\ n > 0
    /\ inbound \o SubSeq(sock, 1, n) = Piece(T, o, p + n)
    /\ SubSeq(sock, n + 1, Len(sock)) = Piece(T, p + n, q)
    /\ p + n \in Nat /\ p + n <= Len(T) /\ o <= p + n
    /\ Len(Piece(T, o, p + n)) = (p + n) - o

LEMMA FacingTakes ==
    ASSUME NEW T, NEW at, NEW r, NEW k, NEW p, NEW q, Facing(T, at, r, k, p, q),
           NEW n, n = Consumed(target, Len(inbound), sock)
    PROVE  Taken(T, at[k], p, q, n)
<1>1. inbound = Piece(T, at[k], p) /\ sock = Piece(T, p, q)
  BY DEF Facing, ReadingAt
<1>2. /\ T \in Seq(Octets) /\ at[k] \in Nat /\ p \in Nat /\ q \in Nat /\ target \in Nat
      /\ at[k] <= p /\ p < q /\ p <= q /\ q <= Len(T) /\ p - at[k] < target
      /\ p - at[k] <= target /\ Len(T) \in Nat
  BY DEF Facing
<1>3. n = Consumed(target, Len(Piece(T, at[k], p)), Piece(T, p, q))
  BY <1>1
<1>4. Takes(T, at[k], p, q, target, n)
  BY <1>2, <1>3, Taking
<1>5. n > 0 /\ n \in Nat /\ p + n <= q
  BY <1>2, <1>4 DEF Takes
<1>6. p + n \in Nat /\ p + n <= Len(T) /\ at[k] <= p + n
  BY <1>2, <1>5
<1>7. Len(Piece(T, at[k], p + n)) = (p + n) - at[k]
  <2>1. IsPiece(Piece(T, at[k], p + n), Octets, T, at[k], p + n)
    BY <1>2, <1>6, PieceType
  <2> QED BY <2>1 DEF IsPiece
<1> QED BY <1>1, <1>4, <1>5, <1>6, <1>7 DEF Takes, Taken

LEMMA KeepStep == WireInv /\ KeepOctets => WireInv'
<1> SUFFICES ASSUME WireInv, KeepOctets
             PROVE  WireInv'
  OBVIOUS
<1>0. PICK n : n = Consumed(target, Len(inbound), sock)
  OBVIOUS
<1>1. /\ sock # <<>> /\ status = "ok"
      /\ Len(inbound) + n < target
      /\ inbound' = inbound \o SubSeq(sock, 1, n) /\ sock' = SubSeq(sock, n + 1, Len(sock))
      /\ state' = (IF state = "idle" THEN "header" ELSE state)
      /\ UNCHANGED <<todo, written, wire, target, got, stray, status>>
  BY <1>0 DEF KeepOctets
<1>2. PICK T, at, r, k, p, q : Facing(T, at, r, k, p, q)
  BY <1>1, ReaderFaces
<1>20. Taken(T, at[k], p, q, n)
  BY <1>0, <1>2, FacingTakes
<1>3. /\ Takes(T, at[k], p, q, target, n) /\ n > 0
      /\ inbound \o SubSeq(sock, 1, n) = Piece(T, at[k], p + n)
      /\ SubSeq(sock, n + 1, Len(sock)) = Piece(T, p + n, q)
      /\ p + n \in Nat /\ p + n <= Len(T) /\ at[k] <= p + n
      /\ Len(Piece(T, at[k], p + n)) = (p + n) - at[k]
  BY <1>20 DEF Taken
<1>4. /\ T \in Seq(Octets) /\ at[k] \in Nat /\ p \in Nat /\ q \in Nat /\ k \in Nat
      /\ at[k] <= p /\ q <= Len(T) /\ k < Len(written) /\ k <= Len(written) /\ Len(T) \in Nat
      /\ inbound = Piece(T, at[k], p) /\ wire = Piece(T, q, Len(T))
      /\ got = r[k].frames /\ ~r[k].ended /\ Place(T, k, at[k], p) /\ p <= q
  BY <1>2 DEF Facing, ReadingAt
<1>5. Len(inbound) = p - at[k]
  <2>1. IsPiece(inbound, Octets, T, at[k], p)
    <3>1. p <= Len(T)
      BY <1>4
    <3> QED BY <1>4, <3>1, PieceType
  <2> QED BY <2>1 DEF IsPiece
<1>6. n \in Nat /\ p + n <= q /\ p + n > at[k] /\ (p + n) - at[k] < target
  <2>1. n \in Nat /\ n > 0 /\ p + n <= q
    BY <1>3 DEF Takes
  <2> DEFINE o == at[k]
             l == Len(inbound)
  <2>2. l + n < target /\ l = p - o /\ o \in Nat /\ o <= p /\ p \in Nat
    BY <1>1, <1>4, <1>5
  <2> HIDE DEF o, l
  <2>3. p + n > o /\ (p + n) - o = l + n
    BY <2>1, <2>2
  <2> QED BY <2>1, <2>2, <2>3 DEF o
<1>7. Place(T, k, at[k], p + n)'
  <2>1. CASE state = "initial"
    BY <1>1, <1>4, <1>6, <2>1 DEF Place
  <2>2. CASE state \in {"idle", "header"}
    BY <1>1, <1>4, <1>6, <2>2 DEF Place
  <2>3. CASE state = "body"
    <3>1. target = TargetSize(Piece(T, at[k], p)) /\ p - at[k] >= 7 /\ Item(written[k + 1])
          /\ ~Wraps(Piece(T, at[k], p))
      BY <1>4, <2>3 DEF Place
    <3>2. at[k] + 7 <= p /\ at[k] + 7 <= p + n /\ p <= Len(T)
      BY <1>4, <1>6, <3>1, SMTT(20)
    <3>3. TargetSize(Piece(T, at[k], p + n)) = target /\ ~Wraps(Piece(T, at[k], p + n))
      BY <1>3, <1>4, <3>1, <3>2, PieceSize, SMTT(20)
    <3>4. (p + n) - at[k] >= 7 /\ (p + n) - at[k] < target
      BY <1>4, <1>6, <3>2
    <3> QED BY <1>1, <1>4, <2>3, <3>1, <3>3, <3>4 DEF Place
  <2> QED BY <1>4, <2>1, <2>2, <2>3 DEF Place
<1>8. ReadingAt(T, at, r, k, p + n, q)'
  BY <1>1, <1>3, <1>4, <1>6, <1>7 DEF ReadingAt
<1>9. status' = "ok" /\ UNCHANGED <<todo, written>> /\ Astray'
  BY <1>1, <1>2, StillAstray
<1> QED BY <1>2, <1>3, <1>4, <1>6, <1>8, <1>9, GoesOn

LEMMA BodyStep == WireInv /\ ReadFrameBody => WireInv'
<1> SUFFICES ASSUME WireInv, ReadFrameBody
             PROVE  WireInv'
  OBVIOUS
<1>0. PICK n : n = Consumed(target, Len(inbound), sock)
  OBVIOUS
<1> DEFINE raw == inbound \o SubSeq(sock, 1, n)
<1>1. /\ sock # <<>> /\ status = "ok" /\ state = "body"
      /\ Len(raw) = target /\ FinishFrame(raw, target) /\ sock' = SubSeq(sock, n + 1, Len(sock))
      /\ UNCHANGED <<todo, written, wire>>
  BY <1>0 DEF ReadFrameBody
<1>2. PICK T, at, r, k, p, q : Facing(T, at, r, k, p, q)
  BY <1>1, ReaderFaces
<1>20. Taken(T, at[k], p, q, n)
  BY <1>0, <1>2, FacingTakes
<1>3. /\ Takes(T, at[k], p, q, target, n) /\ raw = Piece(T, at[k], p + n)
      /\ SubSeq(sock, n + 1, Len(sock)) = Piece(T, p + n, q)
      /\ p + n \in Nat /\ p + n <= Len(T)
      /\ Len(Piece(T, at[k], p + n)) = (p + n) - at[k]
  BY <1>20 DEF Taken
<1> HIDE DEF raw
<1>4. /\ T \in Seq(Octets) /\ at[k] \in Nat /\ p \in Nat /\ q \in Nat /\ k \in Nat
      /\ at[k] <= p /\ q <= Len(T) /\ p <= q /\ Len(T) \in Nat /\ target \in Nat
      /\ Place(T, k, at[k], p)
  BY <1>2 DEF Facing, ReadingAt
<1>5. target = TargetSize(Piece(T, at[k], p)) /\ p - at[k] >= 7 /\ Item(written[k + 1])
      /\ ~Wraps(Piece(T, at[k], p))
  BY <1>1, <1>4 DEF Place
<1>6. p + n = at[k] + target /\ n \in Nat /\ p + n <= q /\ at[k] + 7 <= p /\ p <= Len(T)
      /\ at[k] + target <= Len(T)
  <2>1. Len(raw) = (p + n) - at[k] /\ Len(raw) = target
    BY <1>1, <1>3
  <2>2. n \in Nat /\ p + n <= q
    BY <1>3 DEF Takes
  <2>3. p + n = at[k] + target
    BY <1>4, <2>1, <2>2
  <2> QED BY <1>3, <1>4, <1>5, <2>2, <2>3, SMTT(20)
<1> DEFINE x == written[k + 1]
<1>7. /\ Lies(x, T, at[k], at[k + 1]) /\ at[k + 1] \in Nat
      /\ ComesLast(x) => at[k + 1] = Len(T)
  BY <1>2, NextThing
<1> HIDE DEF x
<1>8. /\ Yields(x, Piece(T, at[k], at[k] + target), target)
      /\ ~Malformed(x) => at[k] + target = at[k + 1]
  <2>1. at[k] <= at[k + 1] /\ at[k + 1] <= Len(T) /\ OctetsOf(x) = Piece(T, at[k], at[k + 1])
    BY <1>7 DEF Lies
  <2>2. Item(x)
    BY <1>5 DEF x
  <2> QED BY <1>4, <1>5, <1>6, <1>7, <2>1, <2>2, ItemReached, SMTT(20)
<1>9. /\ \A f \in Outcomes(raw, target) : Outcome(x, raw, target, f)
      /\ ~Malformed(x) => p + n = at[k + 1]
  BY <1>3, <1>6, <1>8 DEF Yields
<1>10. sock' = Piece(T, p + n, q)
  BY <1>1, <1>3
<1> QED BY <1>1, <1>2, <1>3, <1>6, <1>9, <1>10, Finished DEF x

(* The header of a frame was taken, up to p1, and is kept as it is.        *)
LEMMA HeaderTaken ==
    ASSUME NEW T, NEW at, NEW r, NEW k, NEW p, NEW q, Facing(T, at, r, k, p, q),
           Item(written[k + 1]), status = "ok", UNCHANGED <<todo, written, wire>>,
           NEW p1 \in Nat, at[k] + 7 <= p1, p1 <= at[k] + 8, p1 <= q,
           ~Wraps(Piece(T, at[k], p1)),
           NEW size, size = TargetSize(Piece(T, at[k], p1)),
           NEW n2, Takes(T, at[k], p1, q, size, n2),
           NEW raw, raw = Piece(T, at[k], p1 + n2), sock' = Piece(T, p1 + n2, q),
           IF Len(raw) < size
           THEN state' = "body" /\ inbound' = raw /\ target' = size
                /\ UNCHANGED <<got, stray, status>>
           ELSE FinishFrame(raw, size)
    PROVE  WireInv'
<1>1. /\ T \in Seq(Octets) /\ at[k] \in Nat /\ q \in Nat /\ k \in Nat
      /\ q <= Len(T) /\ k < Len(written) /\ k <= Len(written) /\ Len(T) \in Nat
      /\ wire = Piece(T, q, Len(T)) /\ got = r[k].frames /\ ~r[k].ended
  BY DEF Facing, ReadingAt
<1>2. n2 \in Nat /\ p1 + n2 <= q /\ p1 + n2 <= at[k] + size
  BY DEF Takes
<1>3. p1 <= Len(T) /\ size \in Nat /\ size >= 8
  <2>1. p1 <= Len(T)
    BY <1>1
  <2> QED BY <1>1, <2>1, PieceSize
<1>4. p1 + n2 \in Nat /\ p1 + n2 <= Len(T) /\ at[k] + 7 <= p1 + n2 /\ at[k] <= p1 + n2
  BY <1>1, <1>2, SMTT(20)
<1>5. Len(raw) = (p1 + n2) - at[k]
  <2>1. IsPiece(raw, Octets, T, at[k], p1 + n2)
    BY <1>1, <1>4, PieceType
  <2> QED BY <2>1 DEF IsPiece
<1>6. CASE Len(raw) < size
  <2>1. TargetSize(Piece(T, at[k], p1 + n2)) = size /\ ~Wraps(Piece(T, at[k], p1 + n2))
    BY <1>1, <1>3, <1>4, PieceSize
  <2>2. (p1 + n2) - at[k] >= 7 /\ (p1 + n2) - at[k] < size
    BY <1>1, <1>4, <1>5, <1>6, SMTT(20)
  <2>3. Place(T, k, at[k], p1 + n2)'
    BY <1>1, <1>6, <2>1, <2>2 DEF Place
  <2>4. ReadingAt(T, at, r, k, p1 + n2, q)'
    BY <1>1, <1>2, <1>4, <1>6, <2>3 DEF ReadingAt
  <2>5. status' = "ok" /\ Astray'
    BY <1>6, StillAstray
  <2> QED BY <1>1, <1>2, <1>4, <2>4, <2>5, GoesOn
<1>7. CASE ~(Len(raw) < size)
  <2> DEFINE x == written[k + 1]
  <2>1. FinishFrame(raw, size)
    BY <1>7
  <2>2. p1 + n2 = at[k] + size /\ at[k] + size <= Len(T)
    BY <1>1, <1>2, <1>3, <1>4, <1>5, <1>7, SMTT(20)
  <2>3. /\ Lies(x, T, at[k], at[k + 1]) /\ at[k + 1] \in Nat
        /\ ComesLast(x) => at[k + 1] = Len(T)
    BY NextThing
  <2> HIDE DEF x
  <2>4. /\ Yields(x, Piece(T, at[k], at[k] + size), size)
        /\ ~Malformed(x) => at[k] + size = at[k + 1]
    <3>1. at[k] <= at[k + 1] /\ at[k + 1] <= Len(T) /\ OctetsOf(x) = Piece(T, at[k], at[k + 1])
      BY <2>3 DEF Lies
    <3>2. Item(x)
      BY DEF x
    <3> QED BY <1>1, <1>3, <2>2, <2>3, <3>1, <3>2, ItemReached, SMTT(20)
  <2>5. /\ \A f \in Outcomes(raw, size) : Outcome(x, raw, size, f)
        /\ ~Malformed(x) => p1 + n2 = at[k + 1]
    BY <2>2, <2>4 DEF Yields
  <2> QED BY <1>2, <1>4, <2>1, <2>5, Finished DEF x
<1> QED BY <1>6, <1>7

LEMMA Begins ==
    ASSUME NEW T \in Seq(Octets), NEW e \in Nat, 4 <= e, e <= Len(T)
    PROVE  BeginsAMQP(Piece(T, 0, e)) <=> Piece(T, 0, 4) = SubSeq(ProtocolHeader, 1, 4)
<1>1. StartOf(T, 0, e, 4)
  BY PieceStart
<1> HIDE DEF Piece, ProtocolHeader
<1>2. SubSeq(Piece(T, 0, e), 1, 4) = Piece(T, 0, 0 + 4)
  BY <1>1, Zenon DEF StartOf
<1>3. 0 + 4 = 4
  OBVIOUS
<1> QED BY <1>2, <1>3, Zenon DEF BeginsAMQP

(* The first eight octets.                                                 *)
LEMMA FirstEight ==
    ASSUME NEW T, NEW at, NEW r, NEW k, NEW p, NEW q, Facing(T, at, r, k, p, q),
           state = "initial", q >= 8
    PROVE  LET x == written[1]
               b == OctetsOf(x)
               buffer == Piece(T, 0, 8)
           IN  /\ k = 0 /\ at[k] = 0 /\ Opening(x, b) /\ ~Ignored(x)
               /\ b = Piece(T, 0, at[1]) /\ at[1] \in Nat /\ 8 <= at[1] /\ at[1] <= Len(T)
               /\ Len(b) = at[1] /\ b[8] = buffer[8] /\ TargetSize(b) = TargetSize(buffer)
               /\ Wraps(b) <=> Wraps(buffer)
               /\ buffer \in Seq(Octets) /\ Len(buffer) = 8
               /\ BeginsAMQP(b) <=> BeginsAMQP(buffer)
<1> DEFINE x == written[1]
           b == OctetsOf(x)
           buffer == Piece(T, 0, 8)
<1>1. k = 0 /\ at[0] = 0
  BY DEF Facing, ReadingAt, Place, Joined
<1>2. 0 + 1 = 1
  OBVIOUS
<1>3. Lies(x, T, 0, at[1]) /\ at[1] \in Nat /\ First(x)
  <2>1. Lies(written[k + 1], T, at[k], at[k + 1]) /\ at[k + 1] \in Nat
        /\ (k = 0 => First(written[k + 1]))
    BY NextThing
  <2> QED BY <1>1, <1>2, <2>1
<1>4. b \in Seq(Octets) /\ Len(b) >= 8 /\ Opening(x, b) /\ ~Ignored(x)
  BY <1>3, OpeningOctets DEF First
<1>5. b = Piece(T, 0, at[1]) /\ at[1] <= Len(T) /\ T \in Seq(Octets) /\ Len(T) \in Nat
  BY <1>3 DEF Lies, Facing
<1>6. 8 <= Len(T) /\ 4 <= Len(T)
  BY <1>5 DEF Facing
<1>7. IsPiece(b, Octets, T, 0, at[1]) /\ IsPiece(buffer, Octets, T, 0, 8)
  <2>1. IsPiece(Piece(T, 0, at[1]), Octets, T, 0, at[1])
    <3>1. 0 <= at[1] /\ 0 \in Nat
      BY <1>3
    <3> QED BY <1>3, <1>5, <3>1, PieceType
  <2>2. IsPiece(Piece(T, 0, 8), Octets, T, 0, 8)
    <3>1. 0 <= 8 /\ 0 \in Nat /\ 8 \in Nat
      OBVIOUS
    <3> QED BY <1>5, <1>6, <3>1, PieceType
  <2> QED BY <1>5, <2>1, <2>2
<1>8. BeginsAMQP(b) <=> BeginsAMQP(buffer)
  <2>1. Len(b) = at[1]
    BY <1>3, <1>7 DEF IsPiece
  <2>2. 4 <= at[1]
    BY <1>3, <1>4, <2>1
  <2>3. BeginsAMQP(Piece(T, 0, at[1])) <=> Piece(T, 0, 4) = SubSeq(ProtocolHeader, 1, 4)
    BY <1>3, <1>5, <2>2, Begins
  <2>4. BeginsAMQP(Piece(T, 0, 8)) <=> Piece(T, 0, 4) = SubSeq(ProtocolHeader, 1, 4)
    BY <1>5, <1>6, Begins
  <2> QED BY <1>5, <2>3, <2>4, Zenon
<1> HIDE DEF x, b, buffer
<1>9. Len(b) = at[1] /\ 8 <= at[1]
  BY <1>3, <1>4, <1>7 DEF IsPiece
<1>10. b[8] = buffer[8]
  BY <1>3, <1>7, <1>9 DEF IsPiece
<1>11. buffer \in Seq(Octets) /\ Len(buffer) = 8
  BY <1>7 DEF IsPiece
<1>12. TargetSize(b) = TargetSize(buffer) /\ (Wraps(b) <=> Wraps(buffer))
  <2>1. 0 + 7 <= at[1] /\ 0 + 7 <= 8
    BY <1>3, <1>9
  <2>2. TargetSize(Piece(T, 0, at[1])) = TargetSize(Piece(T, 0, 8))
        /\ (Wraps(Piece(T, 0, at[1])) <=> Wraps(Piece(T, 0, 8)))
    BY <1>3, <1>5, <1>6, <2>1, PieceSize
  <2> QED BY <1>5, <2>2 DEF buffer
<1> QED BY <1>1, <1>3, <1>4, <1>5, <1>8, <1>9, <1>10, <1>11, <1>12 DEF x, b, buffer

LEMMA ProtocolStep == WireInv /\ ReadProtocolHeader => WireInv'
<1> SUFFICES ASSUME WireInv, ReadProtocolHeader
             PROVE  WireInv'
  OBVIOUS
<1>0. PICK n : n = Consumed(target, Len(inbound), sock)
  OBVIOUS
<1> DEFINE buffer == inbound \o SubSeq(sock, 1, n)
<1>1. /\ sock # <<>> /\ status = "ok" /\ state = "initial"
      /\ Len(buffer) = target /\ BeginsAMQP(buffer)
      /\ got' = Append(got, [type |-> "protocol", version |-> SubSeq(buffer, 5, 8)])
      /\ sock' = SubSeq(sock, n + 1, Len(sock))
      /\ state' = "idle" /\ inbound' = <<>> /\ target' = 7
      /\ UNCHANGED <<todo, written, wire, stray, status>>
  BY <1>0 DEF ReadProtocolHeader, BeginsAMQP, ReturnToIdle, FreshInbound, HeaderSize
<1>2. PICK T, at, r, k, p, q : Facing(T, at, r, k, p, q)
  BY <1>1, ReaderFaces
<1>3. Taken(T, at[k], p, q, n)
  BY <1>0, <1>2, FacingTakes
<1>4. /\ T \in Seq(Octets) /\ p \in Nat /\ q \in Nat /\ q <= Len(T) /\ Len(T) \in Nat
      /\ wire = Piece(T, q, Len(T)) /\ k = 0 /\ at[0] = 0 /\ target = 8
      /\ 0 < Len(written) /\ got = r[0].frames /\ Len(written) \in Nat /\ ~r[0].ended
  BY <1>1, <1>2 DEF Facing, ReadingAt, Place, Joined
<1>5. /\ buffer = Piece(T, 0, p + n) /\ p + n <= q
      /\ SubSeq(sock, n + 1, Len(sock)) = Piece(T, p + n, q)
      /\ Len(Piece(T, 0, p + n)) = (p + n) - 0 /\ n \in Nat
  BY <1>3, <1>4 DEF Taken, Takes
<1> HIDE DEF buffer
<1>6. p + n = 8 /\ q >= 8
  <2>1. Len(buffer) = (p + n) - 0 /\ Len(buffer) = 8
    BY <1>1, <1>4, <1>5
  <2>2. (p + n) - 0 = 8
    BY <2>1, Zenon
  <2>3. p \in Nat /\ n \in Nat /\ q \in Nat /\ p + n <= q
    BY <1>4, <1>5
  <2> QED BY <2>2, <2>3
<1> DEFINE x == written[1]
           b == OctetsOf(x)
<1>7. /\ Opening(x, b) /\ ~Ignored(x) /\ b = Piece(T, 0, at[1]) /\ Len(b) = at[1]
      /\ BeginsAMQP(b) <=> BeginsAMQP(Piece(T, 0, 8))
  BY <1>1, <1>2, <1>6, FirstEight
<1> HIDE DEF x, b
<1>8. BeginsAMQP(b)
  BY <1>1, <1>5, <1>6, <1>7
<1>9. x.type = "octets" /\ x.reads = "protocol" /\ at[1] = 8
  BY <1>7, <1>8 DEF Opening
<1>10. b = buffer
  BY <1>5, <1>6, <1>7, <1>9
<1>11. AsRead(x) = [type |-> "protocol", version |-> SubSeq(buffer, 5, 8)]
  BY <1>9, <1>10 DEF AsRead, OctetsOf, b
<1>12. r[1] = ReadOn(r[0], x)
  <2>1. r[k + 1] = ReadOn(r[k], written[k + 1])
    BY <1>2, NextThing
  <2>2. 0 + 1 = 1
    OBVIOUS
  <2> QED BY <1>4, <2>1, <2>2 DEF x
<1>13. ~Malformed(x) /\ ~Refused(x)
  BY <1>9 DEF Malformed, Refused
<1>14. r[1].frames = got' /\ ~r[1].ended
  BY <1>1, <1>4, <1>7, <1>11, <1>12, <1>13, OneMore
<1>15. inbound' = Piece(T, at[1], 8) /\ sock' = Piece(T, 8, q)
  <2>1. Piece(T, 8, 8) = <<>>
    BY <1>4, <1>6, WholePiece
  <2> QED BY <1>1, <1>5, <1>6, <1>9, <2>1
<1>16. ReadingAt(T, at, r, 1, 8, q)'
  <2>1. Place(T, 1, at[1], 8)'
    BY <1>1, <1>9 DEF Place
  <2>2. at[1] <= 8 /\ 8 <= q
    BY <1>6, <1>9
  <2>3. wire' = Piece(T, q, Len(T)) /\ got' = r[1].frames /\ ~r[1].ended
    BY <1>1, <1>4, <1>14
  <2> QED BY <1>15, <2>1, <2>2, <2>3, Zenon DEF ReadingAt
<1>17. 1 \in Nat /\ 8 \in Nat /\ 1 <= Len(written) /\ 8 <= q
  BY <1>4, <1>6
<1>18. Astray'
  BY <1>1, <1>2, StillAstray
<1> QED BY <1>1, <1>2, <1>4, <1>16, <1>17, <1>18, GoesOn

LEMMA HeaderStep == WireInv /\ ReadFrameHeader => WireInv'
<1> SUFFICES ASSUME WireInv, ReadFrameHeader
             PROVE  WireInv'
  OBVIOUS
<1>0. PICK n : n = Consumed(target, Len(inbound), sock)
  OBVIOUS
<1> DEFINE buffer == inbound \o SubSeq(sock, 1, n)
           rest == SubSeq(sock, n + 1, Len(sock))
<1>1. PICK size : size = TargetSize(buffer)
  OBVIOUS
<1>2. PICK n2 : n2 = Consumed(size, Len(buffer), rest)
  OBVIOUS
<1>3. PICK raw : raw = CopiedHeader(buffer) \o SubSeq(sock, n + 1, n + n2)
  OBVIOUS
<1>4. /\ sock # <<>> /\ status = "ok" /\ state \in {"initial", "idle", "header"}
      /\ Len(buffer) = target
      /\ state = "initial" => ~BeginsAMQP(buffer)
      /\ IF Len(raw) < size
         THEN state' = "body" /\ inbound' = raw /\ target' = size
              /\ UNCHANGED <<got, stray, status>>
         ELSE FinishFrame(raw, size)
      /\ sock' = SubSeq(sock, n + n2 + 1, Len(sock))
      /\ UNCHANGED <<todo, written, wire>>
  <2> HIDE DEF FinishFrame
  <2> QED BY <1>0, <1>1, <1>2, <1>3 DEF ReadFrameHeader, BeginsAMQP
<1>5. PICK T, at, r, k, p, q : Facing(T, at, r, k, p, q)
  BY <1>4, ReaderFaces
<1>6. Taken(T, at[k], p, q, n)
  BY <1>0, <1>5, FacingTakes
<1>7. /\ T \in Seq(Octets) /\ at[k] \in Nat /\ p \in Nat /\ q \in Nat /\ q <= Len(T)
      /\ Len(T) \in Nat /\ sock = Piece(T, p, q) /\ k \in Nat /\ p <= q
      /\ Place(T, k, at[k], p)
  BY <1>5 DEF Facing, ReadingAt
<1>8. /\ buffer = Piece(T, at[k], p + n) /\ p + n <= q /\ n \in Nat
      /\ rest = Piece(T, p + n, q)
      /\ Len(Piece(T, at[k], p + n)) = (p + n) - at[k]
  BY <1>6, <1>7 DEF Taken, Takes
<1> HIDE DEF buffer, rest
<1>9. \/ state \in {"idle", "header"} /\ target = 7 /\ k > 0
      \/ state = "initial" /\ target = 8 /\ k = 0
  BY <1>4, <1>7 DEF Place
<1>10. p + n = at[k] + target /\ p + n \in Nat /\ p + n <= Len(T) /\ at[k] <= p + n
  BY <1>4, <1>7, <1>8, <1>9
<1>11. at[k] + 7 <= p + n /\ p + n <= at[k] + 8
  BY <1>7, <1>9, <1>10
<1>30. CASE Wraps(buffer)
  <2> DEFINE x == written[k + 1]
  <2>1. k > 0 /\ target = 7
    <3>1. CASE state = "initial"
      <4>1. k = 0 /\ at[0] = 0 /\ q >= 8 /\ p + n = 8
        <5>1. at[0] = 0
          BY <1>5 DEF Facing, Joined
        <5> QED BY <1>7, <1>8, <1>9, <1>10, <3>1, <5>1
      <4>2. /\ Opening(written[1], OctetsOf(written[1]))
            /\ BeginsAMQP(OctetsOf(written[1])) <=> BeginsAMQP(Piece(T, 0, 8))
            /\ Wraps(OctetsOf(written[1])) <=> Wraps(Piece(T, 0, 8))
        BY <1>5, <3>1, <4>1, FirstEight
      <4>3. buffer = Piece(T, 0, 8)
        BY <1>8, <4>1
      <4> QED BY <1>4, <1>30, <3>1, <4>2, <4>3 DEF Opening
    <3> QED BY <1>9, <3>1
  <2>2. /\ Lies(x, T, at[k], at[k + 1]) /\ at[k + 1] \in Nat /\ Item(x)
        /\ ComesLast(x) => at[k + 1] = Len(T)
    BY <1>5, <2>1, NextThing DEF Sent
  <2> HIDE DEF x
  <2>3. /\ Doubtful(x) /\ ~Malformed(x) /\ at[k + 1] = at[k] + 7 /\ at[k + 1] = Len(T)
    <3>1. at[k] <= at[k + 1] /\ at[k + 1] <= Len(T) /\ OctetsOf(x) = Piece(T, at[k], at[k + 1])
      BY <2>2 DEF Lies
    <3>2. Wraps(Piece(T, at[k], p + n))
      BY <1>8, <1>30
    <3> QED BY <1>7, <1>10, <1>11, <2>2, <3>1, <3>2, ItemTooLong
  <2>4. p + n = at[k + 1] /\ p + n = q
    BY <1>7, <1>8, <1>10, <2>1, <2>3
  <2>5. rest = <<>>
    BY <1>7, <1>8, <2>4, WholePiece
  <2>6. size \in Nat /\ size <= 7
    BY <1>1, <1>7, <1>8, <1>10, <1>11, <1>30, PieceSize
  <2>7. n2 = 0
    <3>1. Len(rest) = 0 /\ Len(buffer) = 7
      BY <1>4, <2>1, <2>5
    <3>2. n2 = IF size < 7 THEN 0 ELSE Shorter(size - 7, 0)
      BY <1>2, <3>1 DEF Consumed
    <3> QED BY <2>6, <3>2 DEF Shorter
  <2>8. sock' = Piece(T, p + n, q)
    <3>1. n + n2 = n
      BY <1>8, <2>7
    <3> QED BY <1>4, <1>8, <3>1 DEF rest
  <2>9. raw = buffer
    <3>1. IsPiece(buffer, Octets, T, at[k], p + n)
      BY <1>7, <1>8, <1>10, PieceType
    <3>2. buffer \in Seq(Octets) /\ Len(buffer) = 7
      BY <1>4, <2>1, <3>1 DEF IsPiece
    <3>3. CopiedHeader(buffer) = buffer
      BY <3>2, HeaderCopied
    <3>4. IsPiece(sock, Octets, T, p, q)
      BY <1>7, PieceType
    <3>5. SubSeq(sock, n + 1, n + n2) = <<>>
      BY <1>8, <2>7, <3>4 DEF IsPiece
    <3>6. buffer \o <<>> = buffer
      BY <3>2
    <3> QED BY <1>3, <3>3, <3>5, <3>6
  <2>10. FinishFrame(raw, size)
    <3>1. Len(raw) = 7
      BY <1>4, <2>1, <2>9
    <3>2. ~(Len(raw) < size)
      BY <2>6, <3>1
    <3> QED BY <1>4, <3>2
  <2>11. \A f \in Outcomes(raw, size) : Outcome(x, raw, size, f)
    <3>1. FixedPart(raw[1]) \in Nat
      BY DEF FixedPart
    <3>2. ~LongEnough(raw[1], size)
      BY <2>6, <3>1 DEF LongEnough, HeaderSize, FooterSize
    <3> QED BY <2>3, <3>2 DEF Outcome
  <2> QED BY <1>4, <1>5, <1>8, <1>10, <2>4, <2>8, <2>10, <2>11, Finished DEF x
<1>31. SUFFICES ASSUME ~Wraps(buffer)
                PROVE  WireInv'
  BY <1>30
<1>32. ~Wraps(Piece(T, at[k], p + n))
  BY <1>8, <1>31
<1>12. size \in Nat /\ size >= 8
  BY <1>1, <1>7, <1>8, <1>10, <1>11, <1>32, PieceSize
<1>13. Takes(T, at[k], p + n, q, size, n2)
  <2>1. (p + n) - at[k] <= size
    BY <1>7, <1>10, <1>11, <1>12
  <2>2. n2 = Consumed(size, Len(Piece(T, at[k], p + n)), Piece(T, p + n, q))
    BY <1>2, <1>8
  <2> QED BY <1>7, <1>8, <1>10, <1>12, <2>1, <2>2, Taking
<1>14. n2 \in Nat /\ (p + n) + n2 <= q /\ (p + n) + n2 <= at[k] + size
  BY <1>13 DEF Takes
<1>15. n + n2 \in Nat /\ n <= n + n2 /\ n + n2 <= q - p /\ p + (n + n2) = (p + n) + n2
  BY <1>7, <1>8, <1>14
<1>16. sock' = Piece(T, (p + n) + n2, q)
  <2>1. RestOf(T, p, q, n + n2)
    BY <1>7, <1>15, PieceRest
  <2>2. IsPiece(sock, Octets, T, p, q)
    BY <1>7, PieceType
  <2>3. Len(sock) = q - p
    BY <2>2 DEF IsPiece
  <2>4. SubSeq(sock, (n + n2) + 1, Len(sock)) = Piece(T, p + (n + n2), q)
    BY <1>7, <2>1, <2>3 DEF RestOf
  <2> QED BY <1>4, <1>15, <2>4
<1>17. SubSeq(sock, n + 1, n + n2) = Piece(T, p + n, (p + n) + n2)
  <2>1. Within(T, p, q, n, n + n2)
    BY <1>7, <1>8, <1>15, PieceOfPiece
  <2> QED BY <1>7, <1>15, <2>1, Zenon DEF Within
<1>18. CopiedHeader(buffer) = buffer => raw = Piece(T, at[k], (p + n) + n2)
  <2>1. (p + n) + n2 \in Nat /\ (p + n) + n2 <= Len(T) /\ p + n <= (p + n) + n2
    BY <1>7, <1>10, <1>14
  <2>2. Piece(T, at[k], p + n) \o Piece(T, p + n, (p + n) + n2) = Piece(T, at[k], (p + n) + n2)
    <3>1. at[k] \in Nat /\ p + n \in Nat /\ at[k] <= p + n /\ T \in Seq(Octets)
      BY <1>7, <1>10
    <3>2. JoinOf(T, at[k], p + n, (p + n) + n2)
      BY <2>1, <3>1, PiecesJoined
    <3> QED BY <3>2, Zenon DEF JoinOf
  <2> QED BY <1>3, <1>8, <1>17, <2>2, Zenon
<1>19. ASSUME CopiedHeader(buffer) = buffer, Item(written[k + 1])
       PROVE  WireInv'
  <2>1. size = TargetSize(Piece(T, at[k], p + n)) /\ UNCHANGED <<todo, written, wire>>
        /\ status = "ok" /\ raw = Piece(T, at[k], (p + n) + n2)
    BY <1>1, <1>4, <1>8, <1>18, <1>19
  <2>2. IF Len(raw) < size
        THEN state' = "body" /\ inbound' = raw /\ target' = size
             /\ UNCHANGED <<got, stray, status>>
        ELSE FinishFrame(raw, size)
    BY <1>4
  <2> QED BY <1>5, <1>8, <1>10, <1>11, <1>13, <1>16, <1>19, <1>32, <2>1, <2>2, HeaderTaken
<1>20. IsPiece(buffer, Octets, T, at[k], p + n)
  BY <1>7, <1>8, <1>10, PieceType
<1>21. buffer \in Seq(Octets) /\ Len(buffer) = target
  BY <1>4, <1>20 DEF IsPiece
<1>22. CASE state \in {"idle", "header"}
  <2>1. target = 7 /\ k > 0
    BY <1>9, <1>22
  <2>2. CopiedHeader(buffer) = buffer
    BY <1>21, <2>1, HeaderCopied
  <2>3. Item(written[k + 1])
    BY <1>5, <2>1, NextThing DEF Sent
  <2> QED BY <1>19, <2>2, <2>3
<1>23. CASE state = "initial"
  <2>1. target = 8 /\ k = 0
    BY <1>9, <1>23
  <2> DEFINE x == written[1]
             b == OctetsOf(x)
  <2>2. at[k] = 0 /\ p + n = 8 /\ q >= 8
    <3>1. at[0] = 0
      BY <1>5 DEF Facing, Joined
    <3> QED BY <1>7, <1>8, <1>10, <2>1, <3>1
  <2>3. buffer = Piece(T, 0, 8)
    BY <1>8, <2>2
  <2>4. /\ Opening(x, b) /\ b[8] = Piece(T, 0, 8)[8] /\ TargetSize(b) = TargetSize(Piece(T, 0, 8))
        /\ BeginsAMQP(b) <=> BeginsAMQP(Piece(T, 0, 8))
    BY <1>5, <1>23, <2>2, FirstEight
  <2>5. written[k + 1] = x
    BY <2>1
  <2> HIDE DEF x, b
  <2>6. ~BeginsAMQP(b)
    BY <1>4, <1>23, <2>3, <2>4
  <2>7. CASE x.type = "method"
    <3>1. IsFrame(x) /\ Fits(x) /\ b[8] = 0
      BY <2>4, <2>7 DEF Opening
    <3>2. CopiedHeader(buffer) = buffer
      BY <1>21, <2>1, <2>3, <2>4, <3>1, HeaderCopied
    <3>3. Item(written[k + 1])
      BY <2>5, <3>1 DEF Item
    <3> QED BY <1>19, <3>2, <3>3
  <2>8. CASE x.type # "method"
    <3>1. x.type = "octets" /\ x.reads = "error" /\ size = 8
      BY <1>1, <2>3, <2>4, <2>6, <2>8 DEF Opening
    <3>2. n2 = 0
      BY <1>14, <2>2, <3>1
    <3> DEFINE c == CopiedHeader(buffer)
    <3>3. c \in Seq(Octets) /\ Len(c) = 8 /\ c[8] = 0
      BY <1>21, <2>1, HeaderCopied
    <3>4. SubSeq(sock, n + 1, n + n2) = <<>>
      <4>1. Piece(T, 8, 8 + 0) = <<>>
        BY <1>7, <2>2, WholePiece
      <4> QED BY <1>17, <2>2, <3>2, <4>1
    <3> HIDE DEF c
    <3>5. raw = c
      <4>1. raw = c \o <<>>
        BY <1>3, <3>4 DEF c
      <4> QED BY <3>3, <4>1
    <3>6. FinishFrame(raw, size)
      <4>1. ~(Len(raw) < size)
        <5>1. Len(raw) = 8
          BY <3>3, <3>5
        <5> QED BY <3>1, <5>1
      <4> QED BY <1>4, <4>1, Zenon
    <3>7. Outcomes(raw, size) = {Bad}
      <4>1. raw[size] = 0
        BY <3>1, <3>3, <3>5
      <4>2. ~FooterOk(raw, size)
        BY <4>1 DEF FooterOk, FrameEnd
      <4> QED BY <4>2, OutcomesAre
    <3>8. Malformed(x)
      BY <3>1 DEF Malformed
    <3>9. /\ \A f \in Outcomes(raw, size) : Outcome(written[k + 1], raw, size, f)
          /\ Malformed(written[k + 1])
      BY <2>5, <3>7, <3>8 DEF Outcome, Bad
    <3>10. (p + n) + n2 \in Nat
      BY <1>10, <1>14
    <3> QED BY <1>4, <1>5, <1>14, <1>16, <3>6, <3>9, <3>10, Finished
  <2> QED BY <2>7, <2>8
<1> QED BY <1>4, <1>22, <1>23

LEMMA StutterWire == WireInv /\ UNCHANGED wireVars => WireInv'
<1> SUFFICES ASSUME WireInv, UNCHANGED wireVars
             PROVE  WireInv'
  OBVIOUS
<1>1. UNCHANGED <<todo, written, wire, sock, state, inbound, target, got, stray, status>>
  BY DEF wireVars
<1>2. Lists(written', todo') /\ (todo' # <<>> => NotBegun') /\ Astray'
  BY <1>1 DEF WireInv, NotBegun, Astray
<1>3. PICK T, at, r : Joined(written, T, at) /\ Handed(written, r) /\ Reader(T, at, r)
  BY DEF WireInv
<1>4. Joined(written', T, at) /\ Handed(written', r)
  BY <1>1, <1>3
<1>5. Reader(T, at, r)'
  BY <1>1, <1>3 DEF Reader, Reading, ReadingAt, Place, Stopped, StoppedAt
<1> QED BY <1>2, <1>4, <1>5 DEF WireInv

LEMMA NextWire == WireInv /\ [Next]_wireVars => WireInv'
<1> SUFFICES ASSUME WireInv, [Next]_wireVars
             PROVE  WireInv'
  OBVIOUS
<1>1. CASE Publish
  BY <1>1, PublishStep
<1>2. CASE MakeRequest
  BY <1>2, RequestStep
<1>3. CASE SendFrame
  BY <1>3, SendStep
<1>4. CASE PeerSendsOctets
  BY <1>4, OctetsStep
<1>5. ASSUME NEW n \in {Len(wire)} \cup (IF Len(wire) > LongStream THEN LongChunks ELSE ChunkSizes),
             Recv(n)
      PROVE  WireInv'
  BY <1>5, RecvStep
<1>6. CASE KeepOctets
  BY <1>6, KeepStep
<1>7. CASE ReadProtocolHeader
  BY <1>7, ProtocolStep
<1>8. CASE ReadFrameHeader
  BY <1>8, HeaderStep
<1>9. CASE ReadFrameBody
  BY <1>9, BodyStep
<1>10. CASE UNCHANGED wireVars
  BY <1>10, StutterWire
<1> QED BY <1>1, <1>2, <1>3, <1>4, <1>5, <1>6, <1>7, <1>8, <1>9, <1>10, Zenon DEF Next, HandleInput

(***************************************************************************)
(* At every moment the reader stands inside one of the things sent: what   *)
(* it keeps, what its buffer holds and what is on the wire are the octets  *)
(* from there on, and what it handed over is what can be read of the       *)
(* things before.                                                          *)
(***************************************************************************)
THEOREM WireInvariance == Spec => []WireInv
<1>1. Init => WireInv
  BY InitWire
<1>2. WireInv /\ [Next]_wireVars => WireInv'
  BY NextWire
<1> QED BY <1>1, <1>2, PTL DEF Spec

-----------------------------------------------------------------------------
(* What can be read of a list.                                             *)

Ends(w, n) == \E j \in 1..n : ~Ignored(w[j]) /\ (Malformed(w[j]) \/ Refused(w[j]))

LEMMA EndsOrNot ==
    ASSUME NEW w, Len(w) \in Nat, NEW r, Handed(w, r)
    PROVE  \A n \in 0..Len(w) : (r[n].ended <=> Ends(w, n)) /\ IsList(r[n].frames)
<1> DEFINE A == {n \in Nat : n <= Len(w) =>
                     (r[n].ended <=> Ends(w, n)) /\ IsList(r[n].frames)}
<1>1. 0 \in A
  <2>1. r[0] = NothingRead
    BY DEF Handed
  <2>2. ~Ends(w, 0)
    BY DEF Ends
  <2>3. ~r[0].ended /\ IsList(r[0].frames)
    BY <2>1, EmptyList DEF NothingRead
  <2> QED BY <2>2, <2>3
<1>2. ASSUME NEW n \in Nat, n \in A
      PROVE  n + 1 \in A
  <2> SUFFICES ASSUME n + 1 <= Len(w)
               PROVE  (r[n + 1].ended <=> Ends(w, n + 1)) /\ IsList(r[n + 1].frames)
    OBVIOUS
  <2> DEFINE x == w[n + 1]
  <2>1. (r[n].ended <=> Ends(w, n)) /\ IsList(r[n].frames)
    BY <1>2
  <2>2. r[n + 1] = ReadOn(r[n], x)
    <3>1. n + 1 \in 1..Len(w) /\ (n + 1) - 1 = n
      OBVIOUS
    <3>2. r[n + 1] = ReadOn(r[(n + 1) - 1], w[n + 1])
      BY <3>1 DEF Handed
    <3> QED BY <3>1, <3>2
  <2>3. Ends(w, n + 1) <=> Ends(w, n) \/ (~Ignored(x) /\ (Malformed(x) \/ Refused(x)))
    BY DEF Ends
  <2> HIDE DEF x
  <2>4. CASE r[n].ended \/ Ignored(x)
    <3>1. r[n + 1] = r[n]
      BY <2>2, <2>4 DEF ReadOn
    <3> QED BY <2>1, <2>3, <2>4, <3>1
  <2>5. CASE ~r[n].ended /\ ~Ignored(x)
    <3>1. /\ r[n + 1].ended <=> Malformed(x) \/ Refused(x)
          /\ r[n + 1].frames = IF Malformed(x) THEN r[n].frames ELSE Append(r[n].frames, AsRead(x))
      BY <2>2, <2>5, OneMore
    <3>2. IsList(r[n + 1].frames)
      BY <2>1, <3>1, ListAppend
    <3> QED BY <2>1, <2>3, <2>5, <3>1, <3>2
  <2> QED BY <2>4, <2>5
<1>3. \A n \in Nat : n >= 0 => n \in A
  <2>1. \A n \in Nat : n >= 0 /\ n \in A => n + 1 \in A
    BY <1>2
  <2> HIDE DEF A
  <2>2. 0 \in Nat
    OBVIOUS
  <2> QED BY <1>1, <2>1, <2>2, InductionOnSet
<1> QED BY <1>3

LEMMA PrefixOfAppend ==
    ASSUME NEW s, NEW t, NEW x, IsList(s), IsList(t), IsPrefix(s, t)
    PROVE  IsPrefix(s, Append(t, x))
<1> DEFINE u == Append(t, x)
<1>1. Len(s) \in Nat /\ Len(t) \in Nat /\ Len(s) <= Len(t)
      /\ SubSeq(s, 1, Len(s)) = SubSeq(t, 1, Len(s))
  BY DEF IsList, IsPrefix
<1>2. IsList(u) /\ Len(u) = Len(t) + 1 /\ \A j \in 1..Len(t) : u[j] = t[j]
  BY ListAppend
<1>3. PICK S : t \in Seq(S) /\ u \in Seq(S)
  <2> DEFINE A == {t[j] : j \in 1..Len(t)}
             B == {u[j] : j \in 1..Len(u)}
  <2>1. t \in Seq(A) /\ u \in Seq(B)
    BY <1>2, ListIsSeq
  <2> HIDE DEF A, B, u
  <2>2. t \in Seq(A \cup B) /\ u \in Seq(A \cup B)
    BY <2>1
  <2> QED BY <2>2
<1> HIDE DEF u
<1>4. SubSeq(t, 1, Len(s)) = SubSeq(u, 1, Len(s))
  BY <1>1, <1>2, <1>3
<1>5. Len(s) <= Len(u)
  BY <1>1, <1>2
<1> QED BY <1>1, <1>4, <1>5 DEF IsPrefix, u

LEMMA PrefixItself ==
    ASSUME NEW s, IsList(s)
    PROVE  IsPrefix(s, s)
BY DEF IsPrefix, IsList

(* What is read stays, and nothing follows what ended the reading.         *)
LEMMA ReadStays ==
    ASSUME NEW w, Len(w) \in Nat, NEW r, Handed(w, r), NEW k \in 0..Len(w)
    PROVE  \A n \in k..Len(w) : /\ IsPrefix(r[k].frames, r[n].frames)
                                /\ r[k].ended => r[n] = r[k]
<1> DEFINE A == {n \in Nat : n <= Len(w) =>
                     /\ IsPrefix(r[k].frames, r[n].frames)
                     /\ r[k].ended => r[n] = r[k]}
<1>0. \A n \in 0..Len(w) : IsList(r[n].frames)
  BY EndsOrNot
<1>1. k \in A /\ k \in Nat
  BY <1>0, PrefixItself
<1>2. ASSUME NEW n \in Nat, n >= k, n \in A
      PROVE  n + 1 \in A
  <2> SUFFICES ASSUME n + 1 <= Len(w)
               PROVE  /\ IsPrefix(r[k].frames, r[n + 1].frames)
                      /\ r[k].ended => r[n + 1] = r[k]
    OBVIOUS
  <2> DEFINE x == w[n + 1]
  <2>1. IsPrefix(r[k].frames, r[n].frames) /\ (r[k].ended => r[n] = r[k])
    BY <1>2
  <2>2. r[n + 1] = ReadOn(r[n], x)
    <3>1. n + 1 \in 1..Len(w) /\ (n + 1) - 1 = n
      OBVIOUS
    <3>2. r[n + 1] = ReadOn(r[(n + 1) - 1], w[n + 1])
      BY <3>1 DEF Handed
    <3> QED BY <3>1, <3>2
  <2>3. IsList(r[k].frames) /\ IsList(r[n].frames)
    BY <1>0
  <2> HIDE DEF x
  <2>4. CASE r[n].ended \/ Ignored(x)
    <3>1. r[n + 1] = r[n]
      BY <2>2, <2>4 DEF ReadOn
    <3> QED BY <2>1, <3>1
  <2>5. CASE ~r[n].ended /\ ~Ignored(x)
    <3>1. r[n + 1].frames = IF Malformed(x) THEN r[n].frames ELSE Append(r[n].frames, AsRead(x))
      BY <2>2, <2>5, OneMore
    <3>2. IsPrefix(r[k].frames, r[n + 1].frames)
      BY <2>1, <2>3, <3>1, PrefixOfAppend
    <3>3. ~r[k].ended
      BY <2>1, <2>5
    <3> QED BY <3>2, <3>3
  <2> QED BY <2>4, <2>5
<1>3. \A n \in Nat : n >= k => n \in A
  <2>1. \A n \in Nat : n >= k /\ n \in A => n + 1 \in A
    BY <1>2
  <2> HIDE DEF A
  <2> QED BY <1>1, <2>1, InductionOnSet
<1> QED BY <1>3

(* The function that Readable defines.                                     *)
LEMMA ReadableIs ==
    ASSUME Len(written) \in Nat, NEW r, Handed(written, r)
    PROVE  Readable = r[Len(written)].frames
<1> DEFINE D == 0..Len(written)
           body(f, n) == IF n = 0 THEN [frames |-> <<>>, ended |-> FALSE]
                         ELSE ReadOn(f[n - 1], written[n])
           u == CHOOSE f : f = [n \in D |-> body(f, n)]
           g == [n \in D |-> r[n]]
<1>1. g = [n \in D |-> body(g, n)]
  <2>1. ASSUME NEW n \in D
        PROVE  r[n] = body(g, n)
    <3>1. CASE n = 0
      BY <3>1 DEF Handed, NothingRead
    <3>2. CASE n # 0
      <4>1. n \in 1..Len(written) /\ n - 1 \in D
        BY <3>2
      <4>2. g[n - 1] = r[n - 1]
        BY <4>1
      <4>3. r[n] = ReadOn(r[n - 1], written[n])
        BY <4>1 DEF Handed
      <4> QED BY <3>2, <4>2, <4>3
    <3> QED BY <3>1, <3>2
  <2> QED BY <2>1
<1>2. u = [n \in D |-> body(u, n)]
  <2> HIDE DEF g
  <2> QED BY <1>1
<1> HIDE DEF u
<1> DEFINE A == {n \in Nat : n <= Len(written) => u[n] = r[n]}
<1>3. 0 \in A
  <2>1. 0 \in D
    OBVIOUS
  <2>2. u[0] = body(u, 0)
    BY <1>2, <2>1
  <2>3. u[0] = NothingRead
    BY <2>2 DEF NothingRead
  <2> QED BY <2>3 DEF Handed
<1>4. ASSUME NEW n \in Nat, n \in A
      PROVE  n + 1 \in A
  <2> SUFFICES ASSUME n + 1 <= Len(written)
               PROVE  u[n + 1] = r[n + 1]
    OBVIOUS
  <2>1. n + 1 \in D /\ n + 1 # 0 /\ (n + 1) - 1 = n /\ n + 1 \in 1..Len(written)
    OBVIOUS
  <2>2. u[n + 1] = body(u, n + 1)
    BY <1>2, <2>1
  <2>3. u[n + 1] = ReadOn(u[n], written[n + 1])
    BY <2>1, <2>2
  <2>4. r[n + 1] = ReadOn(r[(n + 1) - 1], written[n + 1])
    BY <2>1 DEF Handed
  <2>5. u[n] = r[n]
    BY <1>4
  <2> QED BY <2>1, <2>3, <2>4, <2>5
<1>5. \A n \in Nat : n >= 0 => n \in A
  <2>1. \A n \in Nat : n >= 0 /\ n \in A => n + 1 \in A
    BY <1>4
  <2>2. 0 \in Nat
    OBVIOUS
  <2> HIDE DEF A
  <2> QED BY <1>3, <2>1, <2>2, InductionOnSet
<1>6. u[Len(written)] = r[Len(written)]
  BY <1>5
<1>7. Readable = u[Len(written)].frames
  BY DEF Readable, u
<1> QED BY <1>6, <1>7

-----------------------------------------------------------------------------
(* The theorems about the frames.                                          *)

(* The reader that has taken all has stopped inside the last thing, or     *)
(* behind it: nothing was there to hand over.                              *)
LEMMA TakenAll ==
    ASSUME Lists(written, todo), NEW T, NEW at, NEW r, Joined(written, T, at),
           NEW k \in 0..Len(written), ReadingAt(T, at, r, k, Len(T), Len(T)),
           k # Len(written)
    PROVE  k + 1 = Len(written) /\ Ignored(written[k + 1])
<1> DEFINE x == written[k + 1]
           o == at[k]
           e == at[k + 1]
           b == OctetsOf(x)
           p == Len(T)
<1>1. Len(written) \in Nat /\ T \in Seq(Octets) /\ p \in Nat /\ k \in Nat
  BY DEF Lists, IsList, Joined
<1>2. k + 1 \in 1..Len(written) /\ (k + 1) - 1 = k /\ k \in 0..Len(written)
      /\ k + 1 \in 0..Len(written)
  BY <1>1
<1>3. Lies(x, T, o, e) /\ o \in Nat /\ e \in Nat /\ at[0] = 0
  <2>1. Lies(written[k + 1], T, at[(k + 1) - 1], at[k + 1])
    BY <1>2 DEF Joined
  <2>2. at[k] \in 0..Len(T) /\ at[k + 1] \in 0..Len(T) /\ at[0] = 0
    BY <1>2 DEF Joined
  <2> QED BY <1>1, <1>2, <2>1, <2>2
<1>4. /\ IF k = 0 THEN First(x) ELSE Sent(x)
      /\ ComesLast(x) => k + 1 = Len(written)
  <2>1. /\ IF k + 1 = 1 THEN First(written[k + 1]) ELSE Sent(written[k + 1])
        /\ ComesLast(written[k + 1]) => k + 1 = Len(written)
    BY <1>2 DEF Lists
  <2>2. k + 1 = 1 <=> k = 0
    BY <1>1
  <2> QED BY <2>1, <2>2
<1>5. Place(T, k, o, p)
  BY DEF ReadingAt
<1>6. o <= e /\ e <= p /\ b = Piece(T, o, e)
  BY <1>3 DEF Lies
<1>7. IsPiece(b, Octets, T, o, e)
  BY <1>1, <1>3, <1>6, PieceType
<1>8. state = "body" => Item(x)
  BY <1>5 DEF Place
<1> HIDE DEF x, o, e, b, p
<1>9. b \in Seq(Octets) /\ Len(b) = e - o
  BY <1>7 DEF IsPiece
<1>10. ASSUME Item(x), ~ComesLast(x)
       PROVE  /\ e - o >= 8 /\ o + 7 <= e /\ o + 7 <= p
              /\ TargetSize(Piece(T, o, p)) <= p - o
  <2>1. WholeFrame(b)
    BY <1>10, ItemIsRead DEF b, Understood, ComesLast
  <2>2. Len(b) >= 8 /\ TargetSize(b) <= Len(b)
    BY <2>1 DEF WholeFrame, HeaderSize, FooterSize
  <2>3. e - o >= 8 /\ o + 7 <= e /\ o + 7 <= p
    BY <1>1, <1>3, <1>6, <1>9, <2>2
  <2>4. /\ TargetSize(Piece(T, o, e)) = TargetSize(Piece(T, o, p))
        /\ TargetSize(Piece(T, o, e)) \in Nat
    <3>1. e <= Len(T) /\ p <= Len(T) /\ p \in Nat
      BY <1>1, <1>6 DEF p
    <3> QED BY <1>1, <1>3, <2>3, <3>1, PieceSize
  <2>5. TargetSize(Piece(T, o, p)) <= e - o /\ TargetSize(Piece(T, o, p)) \in Nat
    BY <1>6, <1>9, <2>2, <2>4
  <2> QED BY <1>1, <1>3, <1>6, <2>3, <2>5
<1>11. state # "body" \/ ComesLast(x)
  <2> SUFFICES ASSUME state = "body", ~ComesLast(x)
               PROVE  FALSE
    OBVIOUS
  <2>1. TargetSize(Piece(T, o, p)) <= p - o
    BY <1>8, <1>10
  <2>2. TargetSize(Piece(T, o, p)) \in Nat
    <3>1. o + 7 <= p /\ p <= Len(T)
      BY <1>1, <1>8, <1>10 DEF p
    <3> QED BY <1>1, <1>3, <3>1, PieceSize
  <2>3. p - o < TargetSize(Piece(T, o, p))
    BY <1>5 DEF Place
  <2> QED BY <1>1, <1>3, <2>1, <2>2, <2>3
<1>12. ComesLast(x)
  <2>1. CASE k = 0
    <3>1. First(x)
      BY <1>4, <2>1
    <3>2. Len(b) >= 8
      BY <3>1, OpeningOctets DEF First, b
    <3>3. o = 0
      BY <1>3, <2>1 DEF o
    <3>4. p >= 8
      BY <1>1, <1>3, <1>6, <1>9, <3>2, <3>3
    <3>5. state # "initial"
      BY <1>1, <1>5, <3>3, <3>4 DEF Place
    <3> QED BY <1>5, <1>11, <2>1, <3>5 DEF Place
  <2>2. CASE k # 0
    <3>1. Item(x)
      BY <1>4, <2>2 DEF Sent
    <3>2. CASE ~ComesLast(x)
      <4>1. e - o >= 8 /\ p - o >= 8
        BY <1>1, <1>3, <1>6, <1>10, <3>1, <3>2
      <4> QED BY <1>1, <1>3, <1>5, <1>11, <2>2, <3>2, <4>1 DEF Place
    <3> QED BY <3>2
  <2> QED BY <2>1, <2>2
<1>13. Ignored(x)
  BY <1>12 DEF ComesLast, IsUnfinished, Doubtful, Ignored
<1> QED BY <1>4, <1>12, <1>13 DEF x

LEMMA AllIsRead ==
    ASSUME WireInv, AllRead
    PROVE  /\ got = Readable
           /\ status \in {"ok", "error"}
           /\ Ends(written, Len(written)) => status = "error"
           /\ status = "error" => Ends(written, Len(written))
                                  \/ \E j \in 1..Len(written) : Doubtful(written[j])
<1>1. PICK T, at, r : Joined(written, T, at) /\ Handed(written, r) /\ Reader(T, at, r)
  BY DEF WireInv
<1>2. Lists(written, todo) /\ Len(written) \in Nat /\ T \in Seq(Octets) /\ Len(T) \in Nat
  BY <1>1 DEF WireInv, Lists, IsList, Joined
<1> DEFINE n == Len(written)
<1>3. Readable = r[n].frames
  BY <1>1, <1>2, ReadableIs
<1>4. (r[n].ended <=> Ends(written, n)) /\ n \in 0..n
  BY <1>1, <1>2, EndsOrNot
<1>5. CASE status = "error"
  <2>1. PICK k \in 1..n : StoppedAt(r, k)
    BY <1>1, <1>5 DEF Reader, Stopped
  <2>2. k \in 0..n /\ n \in k..n
    BY <1>2, <2>1
  <2>3. CASE r[k].ended
    <3>1. got = r[k].frames
      BY <2>1 DEF StoppedAt
    <3>2. r[n] = r[k]
      BY <1>1, <1>2, <2>2, <2>3, ReadStays
    <3> QED BY <1>3, <1>4, <1>5, <2>3, <3>1, <3>2
  <2>4. CASE ~r[k].ended
    <3>1. got = r[n].frames /\ Doubtful(written[k])
      BY <2>1, <2>4 DEF StoppedAt
    <3> QED BY <1>3, <1>5, <2>1, <3>1
  <2> QED BY <2>3, <2>4
<1>6. CASE status = "ok"
  <2>1. PICK k \in 0..Len(written), p \in 0..Len(T), q \in 0..Len(T) :
                ReadingAt(T, at, r, k, p, q)
    BY <1>1, <1>6 DEF Reader, Reading
  <2>2. sock = <<>> /\ wire = <<>>
    BY <1>6 DEF AllRead
  <2>3. p \in Nat /\ q \in Nat /\ p <= q /\ q <= Len(T) /\ Len(T) <= Len(T)
        /\ sock = Piece(T, p, q) /\ wire = Piece(T, q, Len(T))
    BY <1>2, <2>1 DEF ReadingAt
  <2>4. q = Len(T)
    BY <1>2, <2>2, <2>3, PieceEmpty
  <2>5. p = q
    BY <1>2, <2>2, <2>3, PieceEmpty
  <2>6. ReadingAt(T, at, r, k, Len(T), Len(T))
    BY <2>1, <2>4, <2>5
  <2>7. got = r[k].frames /\ ~r[k].ended
    BY <2>1 DEF ReadingAt
  <2>8. r[n] = r[k]
    <3>1. CASE k = n
      BY <3>1
    <3>2. CASE k # n
      <4>1. k + 1 = n /\ Ignored(written[k + 1])
        BY <1>1, <1>2, <2>1, <2>6, <3>2, TakenAll
      <4>2. r[n] = ReadOn(r[n - 1], written[n]) /\ n - 1 = k
        <5>1. n \in 1..n /\ n - 1 = k
          BY <1>2, <2>1, <4>1
        <5> QED BY <1>1, <5>1 DEF Handed
      <4> QED BY <4>1, <4>2 DEF ReadOn
    <3> QED BY <3>1, <3>2
  <2> QED BY <1>3, <1>4, <1>6, <2>7, <2>8
<1>7. status \in {"ok", "error"}
  BY <1>1 DEF Reader
<1> QED BY <1>5, <1>6, <1>7

LEMMA InvFramesIntact == WireInv => FramesIntact
<1> SUFFICES ASSUME WireInv
             PROVE  FramesIntact
  OBVIOUS
<1>1. PICK T, at, r : Joined(written, T, at) /\ Handed(written, r) /\ Reader(T, at, r)
  BY DEF WireInv
<1>2. Len(written) \in Nat
  BY DEF WireInv, Lists, IsList
<1>3. Readable = r[Len(written)].frames
  BY <1>1, <1>2, ReadableIs
<1>4. PICK k \in 0..Len(written) : got = r[k].frames
  <2>1. CASE status = "ok"
    BY <1>1, <2>1 DEF Reader, Reading, ReadingAt
  <2>2. CASE status = "error"
    <3>1. PICK j \in 1..Len(written) : got = r[j].frames
      BY <1>1, <2>2 DEF Reader, Stopped, StoppedAt
    <3>2. j \in 0..Len(written)
      BY <1>2
    <3> QED BY <3>1, <3>2
  <2> QED BY <1>1, <2>1, <2>2 DEF Reader
<1>5. Len(written) \in k..Len(written)
  BY <1>2
<1>6. IsPrefix(got, Readable)
  BY <1>1, <1>2, <1>3, <1>4, <1>5, ReadStays
<1>7. AllRead => got = Readable
  BY AllIsRead
<1> QED BY <1>6, <1>7 DEF FramesIntact

(***************************************************************************)
(* Whatever the frames, their sizes and the pieces that recv delivers,     *)
(* what amqp_handle_input hands over is the beginning of what was sent,    *)
(* and all of it once the octets are used up (FramesIntact of AmqpWire).   *)
(***************************************************************************)
THEOREM FramesAreIntact == Spec => []FramesIntact
BY WireInvariance, InvFramesIntact, PTL

LEMMA EndsIsMalformed ==
    Ends(written, Len(written)) <=>
        \E j \in 1..Len(written) : Malformed(written[j]) \/ Refused(written[j])
<1>1. \A x : Malformed(x) => ~Ignored(x)
  BY DEF Malformed, Ignored
<1>2. \A x : Refused(x) => ~Ignored(x)
  BY DEF Refused, Ignored
<1> QED BY <1>1, <1>2, Zenon DEF Ends

LEMMA InvMalformedRefused == WireInv => MalformedRefused
<1> SUFFICES ASSUME WireInv, AllRead
             PROVE  /\ (\E j \in DOMAIN written : Malformed(written[j]) \/ Refused(written[j]))
                          => status = "error"
                    /\ status = "error" =>
                          \E j \in DOMAIN written :
                              \/ Malformed(written[j]) \/ Refused(written[j])
                              \/ Doubtful(written[j])
                    /\ stray # <<>> => \E j \in DOMAIN written : Doubtful(written[j])
  BY DEF MalformedRefused
<1>1. /\ Ends(written, Len(written)) => status = "error"
      /\ status = "error" => Ends(written, Len(written))
                             \/ \E j \in 1..Len(written) : Doubtful(written[j])
  BY AllIsRead
<1>2. DOMAIN written = 1..Len(written)
  <2>1. IsList(written)
    BY DEF WireInv, Lists
  <2> QED BY <2>1 DEF IsList
<1>3. stray # <<>> => \E j \in 1..Len(written) : Doubtful(written[j])
  BY DEF WireInv, Astray
<1> QED BY <1>1, <1>2, <1>3, EndsIsMalformed, Zenon

(***************************************************************************)
(* For all frames, sizes, cuts and octets behind a frame: after a thing    *)
(* that the decoders refuse whatever lies behind it, or a connection.start *)
(* whose table cannot be copied, the reader gives up, so that by           *)
(* FramesAreIntact nothing behind it is handed over.  It gives up, or      *)
(* reads past the end of a frame, nowhere else but at a frame without its  *)
(* fixed part or with a size that wraps (MalformedRefused of AmqpWire).    *)
(***************************************************************************)
THEOREM MalformedIsRefused == Spec => []MalformedRefused
BY WireInvariance, InvMalformedRefused, PTL

-----------------------------------------------------------------------------
(* Messages put together.                                                  *)

(* s is what the first frames of w make of the messages m.                 *)
Folds(m, w, s) ==
    /\ s[0] = m
    /\ \A j \in 1..Len(w) : s[j] = PutTogether(s[j - 1], w[j])

Neutral(x) == x.type # "body" /\ ~(x.type = "header" /\ x.class = 60)

LEMMA NeutralFrame ==
    ASSUME NEW x, Neutral(x), NEW m
    PROVE  PutTogether(m, x) = m
BY DEF Neutral, PutTogether

LEMMA FoldsNext ==
    ASSUME NEW m, NEW w, NEW s, Folds(m, w, s), NEW n \in Nat, n + 1 <= Len(w), Len(w) \in Nat
    PROVE  s[n + 1] = PutTogether(s[n], w[n + 1])
<1>1. n + 1 \in 1..Len(w) /\ (n + 1) - 1 = n
  OBVIOUS
<1>2. s[n + 1] = PutTogether(s[(n + 1) - 1], w[n + 1])
  BY <1>1 DEF Folds
<1> QED BY <1>1, <1>2

LEMMA FoldsNeutral ==
    ASSUME NEW m, NEW w, Len(w) \in Nat, \A j \in 1..Len(w) : Neutral(w[j]),
           NEW s, Folds(m, w, s)
    PROVE  s[Len(w)] = m
<1> DEFINE A == {n \in Nat : n <= Len(w) => s[n] = m}
<1>1. 0 \in A
  BY DEF Folds
<1>2. ASSUME NEW n \in Nat, n \in A
      PROVE  n + 1 \in A
  <2> SUFFICES ASSUME n + 1 <= Len(w)
               PROVE  s[n + 1] = m
    OBVIOUS
  <2>1. s[n] = m
    BY <1>2
  <2>2. s[n + 1] = PutTogether(s[n], w[n + 1])
    BY FoldsNext
  <2>3. Neutral(w[n + 1])
    OBVIOUS
  <2> QED BY <2>1, <2>2, <2>3, NeutralFrame
<1>3. \A n \in Nat : n >= 0 => n \in A
  <2>1. \A n \in Nat : n >= 0 /\ n \in A => n + 1 \in A
    BY <1>2
  <2>2. 0 \in Nat
    OBVIOUS
  <2> HIDE DEF A
  <2> QED BY <1>1, <2>1, <2>2, InductionOnSet
<1> QED BY <1>3

LEMMA NeutralFolds ==
    ASSUME NEW m, NEW w, Len(w) \in Nat, \A j \in 1..Len(w) : Neutral(w[j])
    PROVE  \E s : Folds(m, w, s) /\ s[Len(w)] = m
<1> DEFINE s == [j \in 0..Len(w) |-> m]
<1>1. \A j \in 0..Len(w) : s[j] = m
  OBVIOUS
<1> HIDE DEF s
<1>2. ASSUME NEW j \in 1..Len(w)
      PROVE  s[j] = PutTogether(s[j - 1], w[j])
  <2>1. j \in 0..Len(w) /\ j - 1 \in 0..Len(w)
    OBVIOUS
  <2> QED BY <1>1, <2>1, NeutralFrame
<1>3. s[0] = m /\ s[Len(w)] = m
  BY <1>1
<1> QED BY <1>2, <1>3 DEF Folds

LEMMA FoldsGrow ==
    ASSUME NEW m, NEW w, IsList(w), NEW s, Folds(m, w, s), NEW x
    PROVE  \E t : /\ Folds(m, Append(w, x), t)
                  /\ t[Len(w) + 1] = PutTogether(s[Len(w)], x)
<1> DEFINE n == Len(w)
           wx == Append(w, x)
           last == PutTogether(s[n], x)
           t == [j \in 0..(n + 1) |-> IF j <= n THEN s[j] ELSE last]
<1>1. n \in Nat /\ Len(wx) = n + 1 /\ wx[n + 1] = x /\ \A j \in 1..n : wx[j] = w[j]
  BY ListAppend DEF IsList
<1>2. t[n + 1] = last /\ \A j \in 0..n : t[j] = s[j]
  BY <1>1
<1> HIDE DEF t, wx, n
<1>3. ASSUME NEW j \in 1..(n + 1)
      PROVE  t[j] = PutTogether(t[j - 1], wx[j])
  <2>1. CASE j \in 1..n
    <3>1. j \in 0..n /\ j - 1 \in 0..n
      BY <1>1, <2>1
    <3>2. s[j] = PutTogether(s[j - 1], w[j])
      BY <2>1 DEF Folds, n
    <3> QED BY <1>1, <1>2, <2>1, <3>1, <3>2
  <2>2. CASE j = n + 1
    <3>1. j - 1 = n /\ n \in 0..n
      BY <1>1, <2>2
    <3> QED BY <1>1, <1>2, <2>2, <3>1
  <2>3. j \in 1..n \/ j = n + 1
    BY <1>1
  <2> QED BY <2>1, <2>2, <2>3
<1>4. t[0] = m
  BY <1>1, <1>2 DEF Folds
<1>5. Folds(m, wx, t)
  BY <1>1, <1>3, <1>4 DEF Folds
<1> QED BY <1>2, <1>5 DEF wx, n

LEMMA FoldsTail ==
    ASSUME NEW m, NEW w, IsList(w), w # <<>>, NEW s, Folds(m, w, s)
    PROVE  \E t : /\ Folds(PutTogether(m, Head(w)), Tail(w), t)
                  /\ t[Len(Tail(w))] = s[Len(w)]
<1> DEFINE wx == Tail(w)
           n == Len(w)
           t == [j \in 0..(n - 1) |-> s[j + 1]]
<1>1. /\ Len(wx) = n - 1 /\ n \in Nat /\ n >= 1 /\ Head(w) = w[1]
      /\ \A j \in 1..(n - 1) : wx[j] = w[j + 1]
  BY ListTail DEF IsList
<1>2. \A j \in 0..(n - 1) : t[j] = s[j + 1]
  OBVIOUS
<1> HIDE DEF t, wx, n
<1>3. t[0] = PutTogether(m, Head(w))
  <2>1. t[0] = s[0 + 1] /\ 0 + 1 = 1
    BY <1>1, <1>2
  <2>2. s[0 + 1] = PutTogether(s[0], w[0 + 1])
    <3>1. 0 \in Nat /\ 0 + 1 <= Len(w) /\ Len(w) \in Nat
      BY <1>1 DEF n
    <3> QED BY <3>1, FoldsNext
  <2> QED BY <1>1, <2>1, <2>2 DEF Folds
<1>4. ASSUME NEW j \in 1..(n - 1)
      PROVE  t[j] = PutTogether(t[j - 1], wx[j])
  <2>1. j \in 0..(n - 1) /\ j - 1 \in 0..(n - 1) /\ (j - 1) + 1 = j
    BY <1>1
  <2>2. t[j] = s[j + 1] /\ t[j - 1] = s[j] /\ wx[j] = w[j + 1]
    BY <1>1, <1>2, <2>1
  <2>3. s[j + 1] = PutTogether(s[j], w[j + 1])
    <3>1. j \in Nat /\ j + 1 <= Len(w) /\ Len(w) \in Nat
      BY <1>1 DEF n
    <3> QED BY <3>1, FoldsNext
  <2> QED BY <2>2, <2>3
<1>5. t[n - 1] = s[n]
  <2>1. n - 1 \in 0..(n - 1) /\ (n - 1) + 1 = n
    BY <1>1
  <2> QED BY <1>2, <2>1
<1>6. Folds(PutTogether(m, Head(w)), wx, t)
  BY <1>1, <1>3, <1>4 DEF Folds
<1> QED BY <1>1, <1>5, <1>6 DEF wx, n

(* The frames of v and then those of w make the messages e of m.           *)
FoldTo(m, v, w, e) == \E u : Folds(m, v \o w, u) /\ u[Len(v \o w)] = e

LEMMA FoldsConcat ==
    ASSUME NEW v, NEW w, IsList(v), IsList(w), NEW m, NEW s, Folds(m, v, s),
           NEW t, Folds(s[Len(v)], w, t)
    PROVE  FoldTo(m, v, w, t[Len(w)])
<1> DEFINE vw == v \o w
           a == Len(v)
           b == Len(w)
           u == [j \in 0..(a + b) |-> IF j <= a THEN s[j] ELSE t[j - a]]
<1>1. a \in Nat /\ b \in Nat /\ IsList(vw) /\ Joins(vw, v, w)
  BY ListConcat DEF IsList
<1>2. /\ Len(vw) = a + b /\ \A j \in 1..a : vw[j] = v[j]
      /\ \A j \in 1..b : vw[a + j] = w[j]
  BY <1>1 DEF Joins
<1>3. t[0] = s[a]
  BY DEF Folds
<1>4. \A j \in 0..a : u[j] = s[j]
  BY <1>1
<1>5. \A j \in 0..b : u[a + j] = t[j]
  <2>1. ASSUME NEW j \in 0..b
        PROVE  u[a + j] = t[j]
    <3>1. a + j \in 0..(a + b) /\ (a + j) - a = j
      BY <1>1
    <3>2. u[a + j] = IF a + j <= a THEN s[a + j] ELSE t[j]
      BY <3>1
    <3>3. CASE j = 0
      BY <1>1, <1>3, <3>2, <3>3
    <3>4. CASE j # 0
      BY <1>1, <3>2, <3>4
    <3> QED BY <3>3, <3>4
  <2> QED BY <2>1
<1> HIDE DEF u, vw, a, b
<1>6. ASSUME NEW j \in 1..(a + b)
      PROVE  u[j] = PutTogether(u[j - 1], vw[j])
  <2>1. CASE j <= a
    <3>1. j \in 1..a /\ j \in 0..a /\ j - 1 \in 0..a
      BY <1>1, <2>1
    <3>2. s[j] = PutTogether(s[j - 1], v[j])
      BY <3>1 DEF Folds, a
    <3> QED BY <1>2, <1>4, <3>1, <3>2
  <2>2. CASE j > a
    <3>1. PICK i \in 1..b : j = a + i
      <4>1. j - a \in 1..b /\ j = a + (j - a)
        BY <1>1, <2>2
      <4> QED BY <4>1
    <3>2. i \in 0..b /\ i - 1 \in 0..b /\ j - 1 = a + (i - 1)
      BY <1>1, <3>1
    <3>3. t[i] = PutTogether(t[i - 1], w[i])
      BY <3>1 DEF Folds, b
    <3>4. u[a + i] = t[i] /\ u[a + (i - 1)] = t[i - 1] /\ vw[a + i] = w[i]
      BY <1>2, <1>5, <3>1, <3>2
    <3> QED BY <3>1, <3>2, <3>3, <3>4
  <2>3. j <= a \/ j > a
    BY <1>1
  <2> QED BY <2>1, <2>2, <2>3
<1>7. u[0] = m
  BY <1>1, <1>4 DEF Folds
<1>8. u[a + b] = t[b]
  <2>1. b \in 0..b
    BY <1>1
  <2> QED BY <1>5, <2>1
<1>9. Folds(m, vw, u)
  BY <1>2, <1>6, <1>7 DEF Folds
<1> QED BY <1>2, <1>8, <1>9 DEF vw, b, FoldTo

-----------------------------------------------------------------------------
(* The frames of one message.                                              *)

(* The messages m and the first l octets of a body.                        *)
Partly(m, body, l) ==
    Append(m, [size |-> <<0, Len(body)>>, bytes |-> Piece(body, 0, l)])

MoreOfBody(m, n, b, f) ==
    PutTogether(Append(m, [size |-> n, bytes |-> b]), f)
        = Append(m, [size |-> n, bytes |-> b \o f.bytes])

LEMMA BodyAppended ==
    ASSUME NEW m, IsList(m), NEW n, NEW b, NEW f, f.type = "body"
    PROVE  MoreOfBody(m, n, b, f)
<1> DEFINE x == [size |-> n, bytes |-> b]
           y == [size |-> n, bytes |-> b \o f.bytes]
           mx == Append(m, x)
           my == Append(m, y)
           e == [mx EXCEPT ![Len(mx)] = [size |-> @.size, bytes |-> @.bytes \o f.bytes]]
<1>1. PutTogether(mx, f) = e
  BY DEF PutTogether
<1>2. /\ IsList(mx) /\ Len(mx) = Len(m) + 1 /\ mx[Len(m) + 1] = x
      /\ \A j \in 1..Len(m) : mx[j] = m[j]
  BY ListAppend
<1>3. /\ IsList(my) /\ Len(my) = Len(m) + 1 /\ my[Len(m) + 1] = y
      /\ \A j \in 1..Len(m) : my[j] = m[j]
  BY ListAppend
<1>4. x.size = n /\ x.bytes = b
  OBVIOUS
<1>5. y = [size |-> x.size, bytes |-> x.bytes \o f.bytes]
  BY <1>4
<1> HIDE DEF mx, my, x, y
<1>6. Len(m) \in Nat /\ Len(mx) = Len(m) + 1 /\ Len(mx) \in 1..Len(mx)
  BY <1>2 DEF IsList
<1>7. mx = [j \in 1..Len(mx) |-> mx[j]] /\ my = [j \in 1..Len(mx) |-> my[j]]
  BY <1>2, <1>3 DEF IsList
<1>8. DOMAIN mx = 1..Len(mx)
  BY <1>7
<1>9. e = [j \in 1..Len(mx) |-> IF j = Len(mx) THEN y ELSE mx[j]]
  BY <1>2, <1>5, <1>6, <1>8
<1>10. ASSUME NEW j \in 1..Len(mx)
       PROVE  (IF j = Len(mx) THEN y ELSE mx[j]) = my[j]
  <2>1. CASE j = Len(mx)
    BY <1>3, <1>6, <2>1
  <2>2. CASE j # Len(mx)
    <3>1. j \in 1..Len(m)
      BY <1>6, <2>2
    <3> QED BY <1>2, <1>3, <2>2, <3>1
  <2> QED BY <2>1, <2>2
<1>11. e = my
  BY <1>7, <1>9, <1>10
<1> QED BY <1>1, <1>11 DEF mx, my, x, y, MoreOfBody

(* The octets of a body up to the end of fragment k.                       *)
Reach(body, k) == Shorter(k * FragmentSize, Len(body))

(* n fragments cover a body of length l, and n - 1 do not.                 *)
Covers(n, l) ==
    /\ n \in Nat /\ n * FragmentSize >= l
    /\ \A k \in 1..n : (k - 1) * FragmentSize < l

LEMMA Multiples ==
    ASSUME NEW f \in Nat, NEW n \in Nat, NEW k \in Nat, k <= n
    PROVE  k * f \in Nat /\ k * f <= n * f
<1>1. (n - k) * f >= 0
  BY SMT
<1>2. (n - k) * f = n * f - k * f
  BY SMT
<1>3. k * f \in Nat /\ n * f \in Nat
  BY SMT
<1> QED BY <1>1, <1>2, <1>3

LEMMA Rounding ==
    ASSUME NEW l \in Nat, NEW f \in Nat, f > 0
    PROVE  LET n == (l + f - 1) \div f
           IN  n \in Nat /\ n * f >= l /\ n * f < l + f
<1> DEFINE a == l + f - 1
           n == a \div f
<1>1. a \in Nat
  OBVIOUS
<1> HIDE DEF a
<1>2. n \in Nat
  BY <1>1, Quotient
<1>3. a % f \in 0..(f - 1)
  BY <1>1, SMT
<1>4. a = f * n + (a % f)
  BY <1>1, SMT
<1>5. f * n = n * f /\ n * f \in Nat
  BY <1>2, SMT
<1> DEFINE z == n * f
           r == a % f
<1>6. a = z + r /\ z \in Nat /\ r \in Nat /\ r < f
  BY <1>3, <1>4, <1>5
<1> HIDE DEF n, z, r
<1>7. z >= l /\ z < l + f
  BY <1>6 DEF a
<1> QED BY <1>2, <1>7 DEF z, n, a

LEMMA FragmentsCover ==
    ASSUME NEW l \in Nat
    PROVE  Covers((l + FragmentSize - 1) \div FragmentSize, l)
<1> DEFINE f == FragmentSize
           n == (l + f - 1) \div f
<1>1. f \in Nat /\ f > 0
  BY SizesOfFrames
<1> HIDE DEF f
<1>2. n \in Nat /\ n * f >= l /\ n * f < l + f
  BY <1>1, Rounding
<1> HIDE DEF n
<1>3. ASSUME NEW k \in 1..n
      PROVE  (k - 1) * f < l
  <2>1. k \in Nat /\ k - 1 \in Nat /\ k <= n
    BY <1>2
  <2>2. k * f \in Nat /\ k * f <= n * f
    BY <1>1, <1>2, <2>1, Multiples
  <2>3. (k - 1) * f = k * f - f
    BY <1>1, <2>1, SMT
  <2>4. n * f \in Nat
    BY <1>1, <1>2, SMT
  <2> DEFINE a == k * f
             b == n * f
             c == (k - 1) * f
  <2>5. c = a - f /\ a <= b /\ b < l + f /\ a \in Nat /\ b \in Nat
    BY <1>2, <2>2, <2>3, <2>4
  <2> HIDE DEF a, b, c
  <2>6. c < l
    BY <1>1, <2>5
  <2> QED BY <2>6 DEF c
<1>4. Covers(n, l)
  BY <1>2, <1>3 DEF Covers, f
<1> QED BY <1>4 DEF n, f

LEMMA FragmentAppended ==
    ASSUME NEW m, IsList(m), NEW p, p.body \in Seq(Octets), NEW n, Covers(n, Len(p.body)),
           NEW k \in 1..n
    PROVE  PutTogether(Partly(m, p.body, Reach(p.body, k - 1)), Fragment(p, k))
             = Partly(m, p.body, Reach(p.body, k))
<1> DEFINE body == p.body
           l == Len(body)
           f == FragmentSize
           i == (k - 1) * f
           j == Reach(body, k)
           bytes == SubSeq(body, i + 1, j)
<1>1. l \in Nat /\ f \in Nat /\ f > 0 /\ n \in Nat /\ k \in Nat /\ k - 1 \in Nat
  BY SizesOfFrames DEF Covers
<1>2. i < l
  BY DEF Covers
<1>3. i \in Nat /\ k * f = i + f /\ k * f \in Nat
  BY <1>1, SMT
<1>4. Fragment(p, k) = [type |-> "body", channel |-> p.channel, bytes |-> bytes]
  BY DEF Fragment, Reach
<1> HIDE DEF body, l, f, i
<1>5. Shorter(i, l) = i
  BY <1>1, <1>2, <1>3 DEF Shorter
<1>6. j = IF i + f < l THEN i + f ELSE l
  BY <1>3 DEF Reach, Shorter, f, l
<1>7. j \in Nat /\ i <= j /\ j <= l
  BY <1>1, <1>2, <1>3, <1>6
<1>8. Reach(body, k - 1) = i
  BY <1>5 DEF Reach, i, l, f
<1> HIDE DEF j
<1>9. bytes = Piece(body, i, j)
  BY DEF Piece
<1>10. Piece(body, 0, i) \o Piece(body, i, j) = Piece(body, 0, j)
  <2>1. 0 \in Nat /\ 0 <= i /\ body \in Seq(Octets) /\ j <= Len(body)
    BY <1>3, <1>7 DEF body, l
  <2> QED BY <1>3, <1>7, <2>1, PiecesJoin, SMTT(20)
<1> HIDE DEF bytes
<1>11. Fragment(p, k).type = "body" /\ Fragment(p, k).bytes = Piece(body, i, j)
  BY <1>4, <1>9
<1>12. PutTogether(Partly(m, body, i), Fragment(p, k)) = Partly(m, body, j)
  <2> DEFINE b == Piece(body, 0, i)
             y == Fragment(p, k)
             size == <<0, Len(body)>>
  <2>1. MoreOfBody(m, size, b, y)
    BY <1>11, BodyAppended
  <2>2. b \o y.bytes = Piece(body, 0, j)
    BY <1>10, <1>11
  <2> HIDE DEF b, y
  <2>3. PutTogether(Append(m, [size |-> size, bytes |-> b]), y) = Partly(m, body, j)
    BY <2>1, <2>2 DEF Partly, MoreOfBody
  <2> QED BY <2>3 DEF Partly, b, y
<1> QED BY <1>8, <1>12 DEF j, body

MessageFrames(u, p, n) ==
    /\ IsList(u) /\ Len(u) = 2 + n
    /\ u[1] = PublishMethod(p) /\ u[2] = PublishHeader(p)
    /\ \A k \in 1..n : u[2 + k] = Fragment(p, k)

(* All frames of the message p are sent.                                   *)
SentWhole(p) == \E n : Covers(n, Len(p.body)) /\ MessageFrames(BasicPublish(p), p, n)

(* amqp_send_frame will refuse one of the frames in t.                     *)
Oversize(t) == \E j \in 1..Len(t) : t[j].type \in {"method", "header"} /\ ~FitsOutbound(t[j])

FramesOnly(v) == IsList(v) /\ \A j \in 1..Len(v) : v[j].type \notin {"publish", "request"}

LEMMA PublishFrames ==
    ASSUME NEW p, p.body \in Seq(Octets)
    PROVE  /\ FramesOnly(BasicPublish(p))
           /\ SentWhole(p) \/ Oversize(BasicPublish(p))
<1> DEFINE n == (Len(p.body) + FragmentSize - 1) \div FragmentSize
           frames == <<PublishMethod(p), PublishHeader(p)>>
           fragments == [k \in 1..n |-> Fragment(p, k)]
           all == frames \o fragments
           u == BasicPublish(p)
<1>1. Covers(n, Len(p.body))
  <2>1. Len(p.body) \in Nat
    OBVIOUS
  <2> QED BY <2>1, FragmentsCover
<1>8. PublishMethod(p).type = "method" /\ PublishHeader(p).type = "header"
      /\ \A k \in 1..n : Fragment(p, k).type = "body"
  BY DEF PublishMethod, PublishHeader, Fragment
<1>4. IsList(frames) /\ Len(frames) = 2 /\ frames[1] = PublishMethod(p)
      /\ frames[2] = PublishHeader(p)
  BY DEF IsList
<1>9. CASE ~FitsOutbound(PublishMethod(p))
  <2>1. u = <<PublishMethod(p)>>
    BY <1>9, Zenon DEF BasicPublish
  <2> DEFINE v == <<PublishMethod(p)>>
  <2>2. IsList(v) /\ Len(v) = 1 /\ v[1] = PublishMethod(p)
    BY DEF IsList
  <2> HIDE DEF u, v
  <2>3. FramesOnly(v) /\ Oversize(v)
    BY <1>8, <1>9, <2>2 DEF FramesOnly, Oversize
  <2> QED BY <2>1, <2>3 DEF u, v
<1>10. CASE FitsOutbound(PublishMethod(p)) /\ ~FitsOutbound(PublishHeader(p))
  <2>1. u = frames
    BY <1>10, Zenon DEF BasicPublish
  <2> HIDE DEF u, frames
  <2>2. FramesOnly(frames)
    BY <1>4, <1>8 DEF FramesOnly
  <2>3. Oversize(frames)
    <3>1. 2 \in 1..Len(frames)
      BY <1>4
    <3> QED BY <1>4, <1>8, <1>10, <3>1 DEF Oversize
  <2> QED BY <2>1, <2>2, <2>3 DEF u
<1>11. CASE FitsOutbound(PublishMethod(p)) /\ FitsOutbound(PublishHeader(p))
  <2>1. u = all
    BY <1>11, Zenon DEF BasicPublish
  <2> HIDE DEF n
  <2>2. n \in Nat
    BY <1>1 DEF Covers
  <2>3. IsList(fragments) /\ Len(fragments) = n
        /\ \A k \in 1..n : fragments[k] = Fragment(p, k)
    BY <2>2 DEF IsList
  <2> HIDE DEF frames, fragments, u
  <2>4. IsList(u) /\ Joins(u, frames, fragments)
    BY <1>4, <2>1, <2>3, ListConcat
  <2>5. MessageFrames(u, p, n)
    BY <1>4, <2>3, <2>4 DEF Joins, MessageFrames
  <2>6. SentWhole(p)
    BY <1>1, <2>5 DEF SentWhole, u
  <2>7. ASSUME NEW j \in 1..Len(u)
        PROVE  u[j].type \notin {"publish", "request"}
    <3>1. CASE j = 1 \/ j = 2
      BY <1>8, <2>5, <3>1 DEF MessageFrames
    <3>2. CASE j > 2
      <4>1. j - 2 \in 1..n /\ 2 + (j - 2) = j
        BY <2>2, <2>5, <3>2 DEF MessageFrames
      <4>2. u[j] = Fragment(p, j - 2)
        BY <2>5, <4>1 DEF MessageFrames
      <4> QED BY <1>8, <4>1, <4>2
    <3>3. j = 1 \/ j = 2 \/ j > 2
      OBVIOUS
    <3> QED BY <3>1, <3>2, <3>3
  <2>8. FramesOnly(u)
    BY <2>4, <2>7 DEF FramesOnly
  <2> QED BY <2>6, <2>8 DEF u
<1> QED BY <1>9, <1>10, <1>11

(* What the frames of a message add: its size and its body.                *)
Whole(body) == [size |-> <<0, Len(body)>>, bytes |-> body]

LEMMA MessageFolds ==
    ASSUME NEW m, IsList(m), NEW p, p.body \in Seq(Octets), SentWhole(p)
    PROVE  \E s : /\ Folds(m, BasicPublish(p), s)
                  /\ s[Len(BasicPublish(p))] = Append(m, Whole(p.body))
<1>1. PICK n : Covers(n, Len(p.body)) /\ MessageFrames(BasicPublish(p), p, n)
  BY DEF SentWhole
<1> DEFINE u == BasicPublish(p)
           body == p.body
           s == [j \in 0..(2 + n) |-> IF j <= 1 THEN m ELSE Partly(m, body, Reach(body, j - 2))]
<1>2. n \in Nat /\ Len(body) \in Nat /\ FragmentSize \in Nat
  BY <1>1, SizesOfFrames DEF Covers
<1>3. s[0] = m /\ s[1] = m
  BY <1>2
<1>4. \A k \in 0..n : s[2 + k] = Partly(m, body, Reach(body, k))
  <2>1. ASSUME NEW k \in 0..n
        PROVE  s[2 + k] = Partly(m, body, Reach(body, k))
    <3>1. 2 + k \in 0..(2 + n) /\ ~(2 + k <= 1) /\ (2 + k) - 2 = k
      BY <1>2
    <3>2. s[2 + k] = Partly(m, body, Reach(body, (2 + k) - 2))
      BY <3>1
    <3> QED BY <3>1, <3>2
  <2> QED BY <2>1
<1> HIDE DEF s, u
<1>5. Len(u) = 2 + n /\ u[1] = PublishMethod(p) /\ u[2] = PublishHeader(p)
      /\ \A k \in 1..n : u[2 + k] = Fragment(p, k)
  BY <1>1 DEF MessageFrames, u
<1>6. s[1] = PutTogether(s[0], u[1])
  <2>1. Neutral(PublishMethod(p))
    BY DEF Neutral, PublishMethod
  <2> QED BY <1>3, <1>5, <2>1, NeutralFrame
<1>7. s[2] = PutTogether(s[1], u[2])
  <2>1. PutTogether(m, PublishHeader(p))
          = Append(m, [size |-> <<0, Len(body)>>, bytes |-> <<>>])
    BY DEF PutTogether, PublishHeader
  <2>2. Reach(body, 0) = 0
    BY <1>2 DEF Reach, Shorter
  <2>3. Piece(body, 0, 0) = <<>>
    <3>1. 0 \in 0..Len(body)
      BY <1>2
    <3> QED BY <3>1, WholePiece
  <2>4. s[2 + 0] = Partly(m, body, Reach(body, 0)) /\ 2 + 0 = 2
    BY <1>2, <1>4
  <2> QED BY <1>3, <1>5, <2>1, <2>2, <2>3, <2>4 DEF Partly
<1>8. ASSUME NEW k \in 1..n
      PROVE  s[2 + k] = PutTogether(s[(2 + k) - 1], u[2 + k])
  <2>1. k \in 0..n /\ k - 1 \in 0..n /\ (2 + k) - 1 = 2 + (k - 1)
    BY <1>2
  <2>2. s[2 + k] = Partly(m, body, Reach(body, k))
        /\ s[2 + (k - 1)] = Partly(m, body, Reach(body, k - 1))
    BY <1>4, <2>1
  <2>3. PutTogether(Partly(m, body, Reach(body, k - 1)), Fragment(p, k))
          = Partly(m, body, Reach(body, k))
    BY <1>1, FragmentAppended
  <2> QED BY <1>5, <2>1, <2>2, <2>3
<1>9. \A j \in 1..(2 + n) : s[j] = PutTogether(s[j - 1], u[j])
  <2>1. ASSUME NEW j \in 1..(2 + n)
        PROVE  s[j] = PutTogether(s[j - 1], u[j])
    <3>1. CASE j = 1
      BY <1>6, <3>1
    <3>2. CASE j = 2
      BY <1>7, <3>2
    <3>3. CASE j > 2
      <4>1. j - 2 \in 1..n /\ j = 2 + (j - 2)
        BY <1>2, <3>3
      <4>2. PICK k \in 1..n : j = 2 + k
        BY <4>1
      <4>3. (2 + k) - 1 = j - 1
        BY <4>2
      <4> QED BY <1>8, <4>2, <4>3
    <3>4. j = 1 \/ j = 2 \/ j > 2
      OBVIOUS
    <3> QED BY <3>1, <3>2, <3>3, <3>4
  <2> QED BY <2>1
<1>10. Folds(m, u, s)
  BY <1>3, <1>5, <1>9 DEF Folds
<1>11. s[2 + n] = Append(m, Whole(body))
  <2>1. n \in 0..n
    BY <1>2
  <2>2. s[2 + n] = Partly(m, body, Reach(body, n))
    BY <1>4, <2>1
  <2>3. Reach(body, n) = Len(body)
    <3>1. n * FragmentSize >= Len(body)
      BY <1>1 DEF Covers
    <3>2. n * FragmentSize \in Nat
      BY <1>2, SMT
    <3> DEFINE z == n * FragmentSize
    <3>3. ~(z < Len(body))
      <4>1. z \in Nat /\ z >= Len(body)
        BY <3>1, <3>2
      <4> HIDE DEF z
      <4> QED BY <1>2, <4>1
    <3> QED BY <3>3 DEF Reach, Shorter
  <2>4. Piece(body, 0, Len(body)) = body
    BY WholePiece
  <2> QED BY <2>2, <2>3, <2>4 DEF Partly, Whole
<1>12. s[Len(u)] = Append(m, Whole(body))
  BY <1>5, <1>11
<1> QED BY <1>10, <1>12 DEF u, body

-----------------------------------------------------------------------------
(* What was put on the wire and what is left to send make the messages     *)
(* that were published, as long as no frame was or will be refused; and    *)
(* behind a message that is not yet split nothing of another one is left.  *)

MessagesOf(list) == [j \in 1..Len(list) |-> Whole(list[j])]

Counted(w, t, m) ==
    \E s, u : Folds(<<>>, w, s) /\ Folds(s[Len(w)], t, u) /\ u[Len(t)] = m

Waits(t) == \A i, j \in 1..Len(t) : i <= j /\ t[i].type = "publish" => Neutral(t[j])

BodiesInv ==
    /\ refused \in Nat /\ IsList(bodies)
    /\ Waits(todo)
    /\ refused = 0 => Oversize(todo) \/ Counted(written, todo, MessagesOf(bodies))

LEMMA OneMessageMore ==
    ASSUME NEW list, IsList(list), NEW b
    PROVE  /\ IsList(MessagesOf(list))
           /\ MessagesOf(Append(list, b)) = Append(MessagesOf(list), Whole(b))
<1> DEFINE m == MessagesOf(list)
           lx == Append(list, b)
           mx == Append(m, Whole(b))
           my == MessagesOf(lx)
<1>1. Len(list) \in Nat
  BY DEF IsList
<1>2. IsList(m) /\ Len(m) = Len(list) /\ \A j \in 1..Len(list) : m[j] = Whole(list[j])
  BY <1>1 DEF MessagesOf, IsList
<1>3. /\ Len(lx) = Len(list) + 1 /\ lx[Len(list) + 1] = b
      /\ \A j \in 1..Len(list) : lx[j] = list[j]
  BY ListAppend
<1> HIDE DEF lx
<1>4. my = [j \in 1..(Len(list) + 1) |-> Whole(lx[j])]
  BY <1>3 DEF MessagesOf
<1> HIDE DEF m, my
<1>5. /\ mx = [j \in 1..(Len(list) + 1) |-> mx[j]] /\ mx[Len(list) + 1] = Whole(b)
      /\ \A j \in 1..Len(list) : mx[j] = m[j]
  BY <1>2, ListAppend DEF IsList
<1> HIDE DEF mx
<1>6. ASSUME NEW j \in 1..(Len(list) + 1)
      PROVE  mx[j] = Whole(lx[j])
  <2>1. CASE j \in 1..Len(list)
    BY <1>2, <1>3, <1>5, <2>1
  <2>2. CASE j = Len(list) + 1
    BY <1>3, <1>5, <2>2
  <2>3. j \in 1..Len(list) \/ j = Len(list) + 1
    BY <1>1
  <2> QED BY <2>1, <2>2, <2>3
<1>7. mx = my
  BY <1>4, <1>5, <1>6
<1> QED BY <1>2, <1>7 DEF m, lx, mx, my

LEMMA WaitsReplaced ==
    ASSUME NEW t, IsList(t), t # <<>>, Waits(t),
           NEW v, IsList(v), \A j \in 1..Len(v) : v[j].type # "publish"
    PROVE  Waits(Tail(t)) /\ Waits(v \o Tail(t))
<1> DEFINE tx == Tail(t)
           vx == v \o tx
<1>1. /\ Len(t) \in Nat /\ Len(v) \in Nat
      /\ IsList(tx) /\ Len(tx) = Len(t) - 1 /\ \A j \in 1..Len(t) - 1 : tx[j] = t[j + 1]
  BY ListTail DEF IsList
<1>2. Joins(vx, v, tx)
  BY <1>1, ListConcat
<1> HIDE DEF tx, vx
<1>3. ASSUME NEW i \in 1..Len(tx), NEW j \in 1..Len(tx), i <= j, tx[i].type = "publish"
      PROVE  Neutral(tx[j])
  <2>1. i + 1 \in 1..Len(t) /\ j + 1 \in 1..Len(t) /\ i + 1 <= j + 1
    BY <1>1, <1>3
  <2>2. tx[i] = t[i + 1] /\ tx[j] = t[j + 1]
    BY <1>1
  <2>3. t[i + 1].type = "publish"
    BY <1>3, <2>2
  <2>4. Neutral(t[j + 1])
    BY <2>1, <2>3 DEF Waits
  <2> QED BY <2>2, <2>4
<1>4. ASSUME NEW i \in 1..Len(vx), NEW j \in 1..Len(vx), i <= j, vx[i].type = "publish"
      PROVE  Neutral(vx[j])
  <2>1. Len(vx) = Len(v) + Len(tx) /\ Len(tx) \in Nat
    BY <1>1, <1>2 DEF Joins, IsList
  <2>2. ~(i \in 1..Len(v))
    BY <1>2, <1>4 DEF Joins
  <2> DEFINE a == i - Len(v)
             b == j - Len(v)
  <2>3. a \in 1..Len(tx) /\ b \in 1..Len(tx) /\ a <= b /\ i = Len(v) + a /\ j = Len(v) + b
    BY <1>1, <1>4, <2>1, <2>2
  <2> HIDE DEF a, b
  <2>4. vx[Len(v) + a] = tx[a] /\ vx[Len(v) + b] = tx[b]
    BY <1>2, <2>3 DEF Joins
  <2>5. tx[a].type = "publish"
    BY <1>4, <2>3, <2>4
  <2>6. Neutral(tx[b])
    BY <1>3, <2>3, <2>5
  <2> QED BY <2>3, <2>4, <2>6
<1>5. Waits(tx)
  BY <1>3 DEF Waits
<1>6. Waits(vx)
  BY <1>4 DEF Waits
<1> QED BY <1>5, <1>6 DEF tx, vx

(* A frame that will be refused stays where it is until its turn.          *)
LEMMA OversizeStays ==
    ASSUME NEW t, IsList(t), t # <<>>, Oversize(t), NEW v, IsList(v),
           Head(t).type \in {"method", "header"} => FitsOutbound(Head(t))
    PROVE  Oversize(Tail(t)) /\ Oversize(v \o Tail(t))
<1> DEFINE tx == Tail(t)
           vx == v \o tx
<1>1. /\ Len(t) \in Nat /\ Len(t) >= 1 /\ Head(t) = t[1] /\ Len(v) \in Nat
      /\ IsList(tx) /\ Len(tx) = Len(t) - 1 /\ \A j \in 1..Len(t) - 1 : tx[j] = t[j + 1]
  BY ListTail DEF IsList
<1>2. Joins(vx, v, tx)
  BY <1>1, ListConcat
<1> HIDE DEF tx, vx
<1>3. PICK j \in 1..Len(t) : t[j].type \in {"method", "header"} /\ ~FitsOutbound(t[j])
  BY DEF Oversize
<1>4. j # 1
  BY <1>1, <1>3
<1> DEFINE i == j - 1
<1>5. i \in 1..Len(tx) /\ i + 1 = j /\ Len(v) + i \in 1..Len(vx)
  BY <1>1, <1>2, <1>4 DEF Joins
<1> HIDE DEF i
<1>6. tx[i] = t[j] /\ vx[Len(v) + i] = t[j]
  BY <1>1, <1>2, <1>5 DEF Joins
<1> QED BY <1>3, <1>5, <1>6 DEF Oversize, tx, vx

(* It is among the frames of a message.                                    *)
LEMMA OversizeMessage ==
    ASSUME NEW t, IsList(t), NEW v, IsList(v), Oversize(v)
    PROVE  Oversize(v \o t)
<1> DEFINE vx == v \o t
<1>1. Joins(vx, v, t) /\ Len(v) \in Nat /\ Len(t) \in Nat
  BY ListConcat DEF IsList
<1> HIDE DEF vx
<1>2. PICK j \in 1..Len(v) : v[j].type \in {"method", "header"} /\ ~FitsOutbound(v[j])
  BY DEF Oversize
<1>3. j \in 1..Len(vx) /\ vx[j] = v[j]
  BY <1>1 DEF Joins
<1> QED BY <1>2, <1>3 DEF Oversize, vx

LEMMA CountedSent ==
    ASSUME NEW w, NEW t, NEW m, IsList(w), IsList(t), t # <<>>, Counted(w, t, m)
    PROVE  Counted(Append(w, Head(t)), Tail(t), m)
<1>1. PICK s, u : Folds(<<>>, w, s) /\ Folds(s[Len(w)], t, u) /\ u[Len(t)] = m
  BY DEF Counted
<1>2. PICK sx : /\ Folds(<<>>, Append(w, Head(t)), sx)
                /\ sx[Len(w) + 1] = PutTogether(s[Len(w)], Head(t))
  BY <1>1, FoldsGrow
<1>3. PICK ux : /\ Folds(PutTogether(s[Len(w)], Head(t)), Tail(t), ux)
                /\ ux[Len(Tail(t))] = u[Len(t)]
  BY <1>1, FoldsTail
<1>4. Len(Append(w, Head(t))) = Len(w) + 1
  BY ListAppend
<1> QED BY <1>1, <1>2, <1>3, <1>4 DEF Counted

(* The frames v take the place of the head, which adds nothing, and of the *)
(* rest, which changes nothing or is counted as before.                    *)
LEMMA CountedReplaced ==
    ASSUME NEW w, NEW t, NEW m, IsList(w), IsList(t), t # <<>>, Neutral(Head(t)),
           NEW s, Folds(<<>>, w, s), NEW u, Folds(s[Len(w)], t, u), u[Len(t)] = m,
           NEW v, IsList(v), Neutral(v[1]), Len(v) = 1
    PROVE  Counted(w, v \o Tail(t), m)
<1> DEFINE b == s[Len(w)]
           tx == Tail(t)
<1>1. PICK ux : Folds(b, tx, ux) /\ ux[Len(tx)] = u[Len(t)]
  <2>1. PutTogether(b, Head(t)) = b
    BY NeutralFrame
  <2>2. PICK x : Folds(PutTogether(b, Head(t)), tx, x) /\ x[Len(tx)] = u[Len(t)]
    BY FoldsTail
  <2> QED BY <2>1, <2>2
<1>2. PICK y : Folds(b, v, y) /\ y[Len(v)] = b
  <2>1. Len(v) \in Nat /\ \A j \in 1..Len(v) : Neutral(v[j])
    OBVIOUS
  <2> HIDE DEF b
  <2> QED BY <2>1, NeutralFolds
<1>3. IsList(tx)
  BY ListTail
<1> HIDE DEF b, tx
<1>4. PICK z : Folds(b, v \o tx, z) /\ z[Len(v \o tx)] = ux[Len(tx)]
  <2>1. Folds(y[Len(v)], tx, ux)
    BY <1>1, <1>2
  <2>2. FoldTo(b, v, tx, ux[Len(tx)])
    BY <1>2, <1>3, <2>1, FoldsConcat
  <2> QED BY <2>2 DEF FoldTo
<1> QED BY <1>1, <1>4 DEF Counted, b, tx

LEMMA CountedPublished ==
    ASSUME NEW w, NEW t, NEW m, IsList(w), IsList(t), IsList(m), t # <<>>, Waits(t),
           Counted(w, t, m), Head(t).type = "publish", Head(t).body \in Seq(Octets),
           SentWhole(Head(t))
    PROVE  Counted(w, BasicPublish(Head(t)) \o Tail(t), Append(m, Whole(Head(t).body)))
<1> DEFINE p == Head(t)
           tx == Tail(t)
           v == BasicPublish(p)
           mx == Append(m, Whole(p.body))
<1>1. PICK s, u : Folds(<<>>, w, s) /\ Folds(s[Len(w)], t, u) /\ u[Len(t)] = m
  BY DEF Counted
<1>2. /\ Len(t) \in Nat /\ Len(t) >= 1 /\ p = t[1] /\ IsList(tx) /\ Len(tx) = Len(t) - 1
      /\ \A j \in 1..Len(t) - 1 : tx[j] = t[j + 1]
  BY ListTail DEF IsList
<1>3. \A j \in 1..Len(t) : Neutral(t[j])
  <2>1. 1 \in 1..Len(t) /\ \A j \in 1..Len(t) : 1 <= j
    BY <1>2
  <2> QED BY <1>2, <2>1 DEF Waits
<1>4. s[Len(w)] = m
  BY <1>1, <1>2, <1>3, FoldsNeutral
<1>5. PICK y : Folds(m, v, y) /\ y[Len(v)] = mx
  BY MessageFolds
<1>6. \A j \in 1..Len(tx) : Neutral(tx[j])
  <2>1. ASSUME NEW j \in 1..Len(tx)
        PROVE  Neutral(tx[j])
    <3>1. j + 1 \in 1..Len(t) /\ tx[j] = t[j + 1]
      BY <1>2
    <3> QED BY <1>3, <3>1
  <2> QED BY <2>1
<1>7. IsList(v)
  BY PublishFrames DEF FramesOnly
<1> HIDE DEF p, tx, v, mx
<1>8. Len(tx) \in Nat
  BY <1>2 DEF IsList
<1>9. PICK ux : Folds(mx, tx, ux) /\ ux[Len(tx)] = mx
  BY <1>6, <1>8, NeutralFolds
<1>10. PICK z : Folds(m, v \o tx, z) /\ z[Len(v \o tx)] = ux[Len(tx)]
  <2>1. Folds(y[Len(v)], tx, ux)
    BY <1>5, <1>9
  <2>2. FoldTo(m, v, tx, ux[Len(tx)])
    BY <1>2, <1>5, <1>7, <2>1, FoldsConcat
  <2> QED BY <2>2 DEF FoldTo
<1>11. Counted(w, v \o tx, mx)
  BY <1>1, <1>4, <1>9, <1>10 DEF Counted
<1> QED BY <1>11 DEF p, tx, v, mx

LEMMA InitBodies == Init => BodiesInv
<1> SUFFICES ASSUME Init
             PROVE  BodiesInv
  OBVIOUS
<1>1. todo \in Streams /\ written = <<>> /\ bodies = <<>> /\ refused = 0
  BY DEF Init
<1>2. IsList(todo) /\ Len(todo) \in Nat
  BY <1>1, StreamAssumption DEF IsList
<1>3. ASSUME NEW j \in 1..Len(todo)
      PROVE  Neutral(todo[j])
  <2>1. IF j = 1 THEN Opens(todo[j]) ELSE ToSend(todo[j]) \/ FromPeer(todo[j])
    BY <1>1, StreamAssumption
  <2>2. \A x : Opens(x) => Neutral(x)
    BY DEF Opens, Neutral
  <2>3. \A x : ToSend(x) => Neutral(x)
    BY DEF ToSend, Neutral
  <2>4. \A x : FromPeer(x) => Neutral(x)
    BY DEF FromPeer, Neutral
  <2> QED BY <2>1, <2>2, <2>3, <2>4
<1>4. Waits(todo)
  BY <1>3 DEF Waits
<1>5. PICK s : Folds(<<>>, written, s) /\ s[Len(written)] = <<>>
  <2>1. Len(written) = 0
    BY <1>1, EmptyList
  <2>2. Len(written) \in Nat /\ \A j \in 1..Len(written) : Neutral(written[j])
    BY <2>1
  <2> QED BY <2>2, NeutralFolds
<1>6. PICK u : Folds(<<>>, todo, u) /\ u[Len(todo)] = <<>>
  BY <1>2, <1>3, NeutralFolds
<1>7. MessagesOf(bodies) = <<>>
  <2>1. Len(bodies) = 0
    BY <1>1, EmptyList
  <2> QED BY <2>1 DEF MessagesOf
<1>8. IsList(bodies)
  BY <1>1, EmptyList
<1>9. Counted(written, todo, MessagesOf(bodies))
  BY <1>5, <1>6, <1>7 DEF Counted
<1> QED BY <1>1, <1>4, <1>8, <1>9 DEF BodiesInv

LEMMA PublishBodies == WireInv /\ BodiesInv /\ Publish => BodiesInv'
<1> SUFFICES ASSUME WireInv, BodiesInv, Publish
             PROVE  BodiesInv'
  OBVIOUS
<1> DEFINE x == Head(todo)
           v == BasicPublish(x)
<1>1. /\ todo # <<>> /\ x.type = "publish" /\ todo' = v \o Tail(todo)
      /\ bodies' = Append(bodies, x.body) /\ UNCHANGED <<written, refused>>
  BY DEF Publish
<1>2. Lists(written, todo) /\ IsList(written) /\ IsList(todo)
  BY DEF WireInv, Lists
<1>3. x.body \in Seq(Octets)
  <2>1. Pending(x)
    BY <1>1, <1>2, HeadOfLists, FirstOctets
  <2>2. ~IsFrame(x)
    BY <1>1, TypesOfFrames
  <2> QED BY <1>1, <2>1, <2>2 DEF Pending, ToSend, FromPeer
<1>4. FramesOnly(v) /\ (SentWhole(x) \/ Oversize(v))
  BY <1>3, PublishFrames
<1>8. IsList(v) /\ \A j \in 1..Len(v) : v[j].type # "publish"
  BY <1>4, Zenon DEF FramesOnly
<1>5. IsList(bodies) /\ IsList(bodies') /\ IsList(MessagesOf(bodies))
      /\ MessagesOf(bodies') = Append(MessagesOf(bodies), Whole(x.body))
  BY <1>1, ListAppend, OneMessageMore DEF BodiesInv
<1>6. Waits(todo')
  <2>1. Waits(todo)
    BY DEF BodiesInv
  <2> HIDE DEF v
  <2> QED BY <1>1, <1>2, <1>8, <2>1, WaitsReplaced
<1>7. refused' = 0 => Oversize(todo') \/ Counted(written', todo', MessagesOf(bodies'))
  <2> SUFFICES ASSUME refused = 0
               PROVE  Oversize(todo') \/ Counted(written', todo', MessagesOf(bodies'))
    BY <1>1
  <2>1. Waits(todo) /\ (Oversize(todo) \/ Counted(written, todo, MessagesOf(bodies)))
    BY DEF BodiesInv
  <2> HIDE DEF v
  <2>2. CASE Oversize(v)
    <3>1. IsList(Tail(todo))
      BY <1>1, <1>2, ListTail
    <3>2. Oversize(v \o Tail(todo))
      BY <1>8, <2>2, <3>1, OversizeMessage
    <3> QED BY <1>1, <3>2
  <2>3. CASE Oversize(todo)
    <3>1. Oversize(v \o Tail(todo))
      BY <1>1, <1>2, <1>8, <2>3, OversizeStays
    <3> QED BY <1>1, <3>1
  <2>4. CASE SentWhole(x) /\ Counted(written, todo, MessagesOf(bodies))
    <3>1. Counted(written, v \o Tail(todo), Append(MessagesOf(bodies), Whole(x.body)))
      BY <1>1, <1>2, <1>3, <1>5, <2>1, <2>4, CountedPublished DEF v
    <3> QED BY <1>1, <1>5, <3>1
  <2> QED BY <1>4, <2>1, <2>2, <2>3, <2>4
<1> QED BY <1>1, <1>5, <1>6, <1>7 DEF BodiesInv

LEMMA RequestBodies == WireInv /\ BodiesInv /\ MakeRequest => BodiesInv'
<1> SUFFICES ASSUME WireInv, BodiesInv, MakeRequest
             PROVE  BodiesInv'
  OBVIOUS
<1> DEFINE x == Head(todo)
           v == <<RequestFrame(x)>>
<1>1. /\ todo # <<>> /\ x.type = "request" /\ todo' = v \o Tail(todo)
      /\ UNCHANGED <<written, refused, bodies>>
  BY DEF MakeRequest
<1>2. IsList(written) /\ IsList(todo)
  BY DEF WireInv, Lists
<1>3. /\ IsList(v) /\ Len(v) = 1 /\ v[1] = RequestFrame(x)
      /\ \A j \in 1..Len(v) : v[j] = RequestFrame(x)
  BY DEF IsList
<1>4. RequestFrame(x).type = "method"
  BY DEF RequestFrame
<1> HIDE DEF v
<1>5. Neutral(v[1]) /\ Neutral(x) /\ \A j \in 1..Len(v) : v[j].type # "publish"
  BY <1>1, <1>3, <1>4 DEF Neutral
<1>6. Waits(todo')
  <2>1. Waits(todo)
    BY DEF BodiesInv
  <2> QED BY <1>1, <1>2, <1>3, <1>5, <2>1, WaitsReplaced
<1>7. refused = 0 => Oversize(todo') \/ Counted(written, v \o Tail(todo), MessagesOf(bodies))
  <2> SUFFICES ASSUME refused = 0
               PROVE  Oversize(todo') \/ Counted(written, v \o Tail(todo), MessagesOf(bodies))
    OBVIOUS
  <2>1. CASE Oversize(todo)
    BY <1>1, <1>2, <1>3, <2>1, OversizeStays
  <2>2. CASE Counted(written, todo, MessagesOf(bodies))
    <3>1. PICK s, u : /\ Folds(<<>>, written, s) /\ Folds(s[Len(written)], todo, u)
                      /\ u[Len(todo)] = MessagesOf(bodies)
      BY <2>2 DEF Counted
    <3> QED BY <1>1, <1>2, <1>3, <1>5, <3>1, CountedReplaced
  <2> QED BY <2>1, <2>2 DEF BodiesInv
<1> QED BY <1>1, <1>6, <1>7 DEF BodiesInv

LEMMA SentBodies ==
    ASSUME WireInv, BodiesInv, todo # <<>>, todo' = Tail(todo), UNCHANGED bodies,
           \/ /\ written' = Append(written, Head(todo)) /\ UNCHANGED refused
              /\ Head(todo).type \in {"method", "header"} => FitsOutbound(Head(todo))
           \/ refused' = refused + 1 /\ UNCHANGED written
    PROVE  BodiesInv'
<1>1. IsList(written) /\ IsList(todo)
  BY DEF WireInv, Lists
<1>2. Waits(todo')
  <2> DEFINE v == <<>>
  <2>1. IsList(v) /\ \A j \in 1..Len(v) : v[j].type # "publish"
    BY EmptyList
  <2> HIDE DEF v
  <2>2. Waits(todo)
    BY DEF BodiesInv
  <2> QED BY <1>1, <2>1, <2>2, WaitsReplaced
<1>3. refused \in Nat /\ refused' \in Nat /\ (refused' = 0 => UNCHANGED refused)
  BY DEF BodiesInv
<1>4. refused' = 0 => Oversize(todo') \/ Counted(written', todo', MessagesOf(bodies'))
  <2> SUFFICES ASSUME refused' = 0
               PROVE  Oversize(todo') \/ Counted(written', todo', MessagesOf(bodies'))
    OBVIOUS
  <2>1. /\ refused = 0 /\ written' = Append(written, Head(todo))
        /\ Head(todo).type \in {"method", "header"} => FitsOutbound(Head(todo))
    BY <1>3
  <2>2. CASE Oversize(todo)
    <3> DEFINE v == <<>>
    <3>1. IsList(v)
      BY EmptyList
    <3> HIDE DEF v
    <3> QED BY <1>1, <2>1, <2>2, <3>1, OversizeStays
  <2>3. CASE Counted(written, todo, MessagesOf(bodies))
    <3>1. Counted(Append(written, Head(todo)), Tail(todo), MessagesOf(bodies))
      BY <1>1, <2>3, CountedSent
    <3> QED BY <2>1, <3>1
  <2> QED BY <2>1, <2>2, <2>3 DEF BodiesInv
<1>5. IsList(bodies')
  BY DEF BodiesInv
<1> QED BY <1>2, <1>3, <1>4, <1>5 DEF BodiesInv

LEMMA SameBodies ==
    ASSUME BodiesInv, UNCHANGED <<todo, written, bodies, refused>>
    PROVE  BodiesInv'
BY DEF BodiesInv

LEMMA NextBodies == WireInv /\ BodiesInv /\ [Next]_wireVars => BodiesInv'
<1> SUFFICES ASSUME WireInv, BodiesInv, [Next]_wireVars
             PROVE  BodiesInv'
  OBVIOUS
<1>1. CASE Publish
  BY <1>1, PublishBodies
<1>2. CASE MakeRequest
  BY <1>2, RequestBodies
<1>3. CASE SendFrame
  <2>1. /\ todo # <<>> /\ todo' = Tail(todo) /\ UNCHANGED bodies
        /\ \/ /\ written' = Append(written, Head(todo)) /\ UNCHANGED refused
              /\ FitsOutbound(Head(todo))
           \/ refused' = refused + 1 /\ UNCHANGED written
    BY <1>3 DEF SendFrame
  <2> QED BY <2>1, SentBodies
<1>4. CASE PeerSendsOctets
  <2>1. /\ todo # <<>> /\ todo' = Tail(todo) /\ UNCHANGED bodies
        /\ written' = Append(written, Head(todo)) /\ UNCHANGED refused
        /\ Head(todo).type = "octets"
    BY <1>4 DEF PeerSendsOctets
  <2> QED BY <2>1, SentBodies
<1>5. ASSUME NEW n \in {Len(wire)} \cup (IF Len(wire) > LongStream THEN LongChunks ELSE ChunkSizes),
             Recv(n)
      PROVE  BodiesInv'
  <2>1. UNCHANGED <<todo, written, bodies, refused>>
    BY <1>5 DEF Recv
  <2> QED BY <2>1, SameBodies
<1>6. CASE HandleInput
  <2>1. UNCHANGED <<todo, written, bodies, refused>>
    BY <1>6 DEF HandleInput, KeepOctets, ReadProtocolHeader, ReadFrameHeader, ReadFrameBody
  <2> QED BY <2>1, SameBodies
<1>7. CASE UNCHANGED wireVars
  <2>1. UNCHANGED <<todo, written, bodies, refused>>
    BY <1>7 DEF wireVars
  <2> QED BY <2>1, SameBodies
<1> QED BY <1>1, <1>2, <1>3, <1>4, <1>5, <1>6, <1>7, Zenon DEF Next

(***************************************************************************)
(* Everything that was published is on the wire or still to be sent, in    *)
(* order and without a gap, as long as no frame was refused.               *)
(***************************************************************************)
THEOREM BodiesInvariance == Spec => []BodiesInv
<1>1. Init => WireInv /\ BodiesInv
  BY InitWire, InitBodies
<1>2. (WireInv /\ BodiesInv) /\ [Next]_wireVars => (WireInv /\ BodiesInv)'
  BY NextWire, NextBodies
<1> QED BY <1>1, <1>2, PTL DEF Spec

-----------------------------------------------------------------------------
(* What the reader puts together of the frames it was handed.              *)

(* The function that Reassembled defines.                                  *)
LEMMA ReassembledIs ==
    ASSUME NEW frames, Len(frames) \in Nat, NEW t, Folds(<<>>, frames, t)
    PROVE  Reassembled(frames) = t[Len(frames)]
<1> DEFINE D == 0..Len(frames)
           body(f, n) == IF n = 0 THEN <<>> ELSE PutTogether(f[n - 1], frames[n])
           u == CHOOSE f : f = [n \in D |-> body(f, n)]
           g == [n \in D |-> t[n]]
<1>1. g = [n \in D |-> body(g, n)]
  <2>1. ASSUME NEW n \in D
        PROVE  t[n] = body(g, n)
    <3>1. CASE n = 0
      BY <3>1 DEF Folds
    <3>2. CASE n # 0
      <4>1. n \in 1..Len(frames) /\ n - 1 \in D
        BY <3>2
      <4>2. g[n - 1] = t[n - 1]
        BY <4>1
      <4>3. t[n] = PutTogether(t[n - 1], frames[n])
        BY <4>1 DEF Folds
      <4> QED BY <3>2, <4>2, <4>3
    <3> QED BY <3>1, <3>2
  <2> QED BY <2>1
<1>2. u = [n \in D |-> body(u, n)]
  <2> HIDE DEF g
  <2> QED BY <1>1
<1> HIDE DEF u
<1> DEFINE A == {n \in Nat : n <= Len(frames) => u[n] = t[n]}
<1>3. 0 \in A
  <2>1. 0 \in D
    OBVIOUS
  <2>2. u[0] = body(u, 0)
    BY <1>2, <2>1
  <2>3. u[0] = <<>>
    BY <2>2
  <2> QED BY <2>3 DEF Folds
<1>4. ASSUME NEW n \in Nat, n \in A
      PROVE  n + 1 \in A
  <2> SUFFICES ASSUME n + 1 <= Len(frames)
               PROVE  u[n + 1] = t[n + 1]
    OBVIOUS
  <2>1. n + 1 \in D /\ n + 1 # 0 /\ (n + 1) - 1 = n
    OBVIOUS
  <2>2. u[n + 1] = body(u, n + 1)
    BY <1>2, <2>1
  <2>3. u[n + 1] = PutTogether(u[n], frames[n + 1])
    BY <2>1, <2>2
  <2>4. t[n + 1] = PutTogether(t[n], frames[n + 1])
    BY FoldsNext
  <2>5. u[n] = t[n]
    BY <1>4
  <2> QED BY <2>3, <2>4, <2>5
<1>5. \A n \in Nat : n >= 0 => n \in A
  <2>1. \A n \in Nat : n >= 0 /\ n \in A => n + 1 \in A
    BY <1>4
  <2>2. 0 \in Nat
    OBVIOUS
  <2> HIDE DEF A
  <2> QED BY <1>3, <2>1, <2>2, InductionOnSet
<1>6. u[Len(frames)] = t[Len(frames)]
  BY <1>5
<1>7. Reassembled(frames) = u[Len(frames)]
  BY DEF Reassembled, u
<1> QED BY <1>6, <1>7

LEMMA ReadAlike ==
    ASSUME NEW x, NEW m
    PROVE  PutTogether(m, AsRead(x)) = PutTogether(m, x)
<1>1. CASE x.type = "octets"
  <2>1. AsRead(x).type = "protocol"
    BY <1>1 DEF AsRead
  <2>2. Neutral(AsRead(x)) /\ Neutral(x)
    BY <1>1, <2>1 DEF Neutral
  <2> QED BY <2>2, NeutralFrame
<1>2. CASE x.type = "header" /\ TwoWords(x.flags)
  <2> DEFINE y == AsRead(x)
  <2>1. y.type = "header" /\ y.class = x.class /\ y.size = x.size
    BY <1>2 DEF AsRead
  <2> HIDE DEF y
  <2> QED BY <1>2, <2>1 DEF PutTogether, y
<1>3. CASE x.type # "octets" /\ ~(x.type = "header" /\ TwoWords(x.flags))
  BY <1>3 DEF AsRead
<1> QED BY <1>1, <1>2, <1>3

Makes(frames, m) == \E t : Folds(<<>>, frames, t) /\ t[Len(frames)] = m

LEMMA HandedMakes ==
    ASSUME NEW w, IsList(w), NEW r, Handed(w, r), ~Ends(w, Len(w)),
           NEW s, Folds(<<>>, w, s)
    PROVE  Makes(r[Len(w)].frames, s[Len(w)])
<1> DEFINE A == {n \in Nat : n <= Len(w) => Makes(r[n].frames, s[n])}
<1>1. Len(w) \in Nat
  BY DEF IsList
<1>2. ASSUME NEW n \in Nat, n <= Len(w)
      PROVE  ~r[n].ended /\ IsList(r[n].frames) /\ ~Ends(w, n)
  <2>1. n \in 0..Len(w)
    BY <1>2
  <2>2. (r[n].ended <=> Ends(w, n)) /\ IsList(r[n].frames)
    BY <1>1, <2>1, EndsOrNot
  <2>3. \A j \in 1..n : j \in 1..Len(w)
    BY <1>1, <1>2
  <2>4. ~Ends(w, n)
    BY <2>3 DEF Ends
  <2> QED BY <2>2, <2>4
<1>3. 0 \in A
  <2>1. r[0].frames = <<>> /\ s[0] = <<>>
    BY DEF Handed, NothingRead, Folds
  <2>2. Len(<<>>) \in Nat /\ \A j \in 1..Len(<<>>) : Neutral(<<>>[j])
    BY EmptyList
  <2>3. Makes(<<>>, <<>>)
    <3> DEFINE e == <<>>
    <3>1. Len(e) \in Nat /\ \A j \in 1..Len(e) : Neutral(e[j])
      BY <2>2
    <3>2. e = <<>>
      OBVIOUS
    <3> HIDE DEF e
    <3>3. \E t : Folds(e, e, t) /\ t[Len(e)] = e
      BY <3>1, NeutralFolds
    <3> QED BY <3>2, <3>3 DEF Makes
  <2> QED BY <2>1, <2>3
<1>4. ASSUME NEW n \in Nat, n \in A
      PROVE  n + 1 \in A
  <2> SUFFICES ASSUME n + 1 <= Len(w)
               PROVE  Makes(r[n + 1].frames, s[n + 1])
    OBVIOUS
  <2> DEFINE x == w[n + 1]
             frames == r[n].frames
  <2>1. n <= Len(w) /\ n + 1 \in 1..Len(w) /\ (n + 1) - 1 = n /\ n + 1 \in Nat
    BY <1>1
  <2>2. Makes(frames, s[n])
    BY <1>4, <2>1
  <2>3. r[n + 1] = ReadOn(r[n], x)
    <3>1. r[n + 1] = ReadOn(r[(n + 1) - 1], w[n + 1])
      BY <2>1 DEF Handed
    <3> QED BY <2>1, <3>1
  <2>4. s[n + 1] = PutTogether(s[n], x)
    BY <1>1, FoldsNext
  <2>5. ~r[n].ended /\ IsList(frames) /\ ~Ends(w, n + 1)
    BY <1>2, <2>1
  <2> HIDE DEF x, frames
  <2>6. CASE Ignored(x)
    <3>1. r[n + 1] = r[n]
      BY <2>3, <2>6 DEF ReadOn
    <3>2. Neutral(x)
      BY <2>6 DEF Ignored, Neutral
    <3>3. s[n + 1] = s[n]
      BY <2>4, <3>2, NeutralFrame
    <3> QED BY <2>2, <3>1, <3>3 DEF frames
  <2>7. CASE ~Ignored(x)
    <3>1. ~Malformed(x)
      <4>1. n + 1 \in 1..(n + 1)
        OBVIOUS
      <4> QED BY <2>5, <2>7, <4>1 DEF Ends, x
    <3>2. r[n + 1].frames = Append(frames, AsRead(x))
      BY <2>3, <2>5, <2>7, <3>1, OneMore DEF frames
    <3>3. PICK t : Folds(<<>>, frames, t) /\ t[Len(frames)] = s[n]
      BY <2>2 DEF Makes
    <3>4. PICK tx : /\ Folds(<<>>, Append(frames, AsRead(x)), tx)
                    /\ tx[Len(frames) + 1] = PutTogether(t[Len(frames)], AsRead(x))
      <4> DEFINE y == AsRead(x)
                 e == <<>>
      <4>1. Folds(e, frames, t)
        BY <3>3
      <4> HIDE DEF y, e
      <4>2. \E z : Folds(e, Append(frames, y), z)
                   /\ z[Len(frames) + 1] = PutTogether(t[Len(frames)], y)
        BY <2>5, <4>1, FoldsGrow
      <4> QED BY <4>2 DEF y, e
    <3>5. Len(Append(frames, AsRead(x))) = Len(frames) + 1
      BY <2>5, ListAppend
    <3>6. PutTogether(t[Len(frames)], AsRead(x)) = s[n + 1]
      BY <2>4, <3>3, ReadAlike
    <3> QED BY <3>2, <3>4, <3>5, <3>6 DEF Makes
  <2> QED BY <2>6, <2>7
<1>5. \A n \in Nat : n >= 0 => n \in A
  <2>1. \A n \in Nat : n >= 0 /\ n \in A => n + 1 \in A
    BY <1>4
  <2>2. 0 \in Nat
    OBVIOUS
  <2> HIDE DEF A
  <2> QED BY <1>3, <2>1, <2>2, InductionOnSet
<1> QED BY <1>1, <1>5

LEMMA InvPublishedWhole == WireInv /\ BodiesInv => PublishedWhole
<1> SUFFICES ASSUME WireInv, BodiesInv
             PROVE  PublishedWhole
  OBVIOUS
<1>1. Lists(written, todo) /\ IsList(written) /\ Len(written) \in Nat
      /\ DOMAIN written = 1..Len(written)
  <2>1. IsList(written) /\ Lists(written, todo)
    BY DEF WireInv, Lists
  <2> QED BY <2>1 DEF IsList
<1>2. ASSUME NEW j \in DOMAIN written, written[j].type # "octets"
      PROVE  Len(EncodeFrame(written[j])) <= FrameMax
  <2>1. IF j = 1 THEN First(written[j]) ELSE Sent(written[j])
    BY <1>1 DEF Lists
  <2>2. CASE First(written[j])
    <3>1. FitsOutbound(written[j]) /\ written[j].type = "method"
      BY <1>2, <2>2, FirstOctets
    <3> QED BY <3>1 DEF FitsOutbound
  <2>3. CASE Sent(written[j])
    BY <1>2, <2>3 DEF Sent, Item, FromPeer, Fits
  <2> QED BY <2>1, <2>2, <2>3, SMTT(20)
<1>3. ASSUME AllRead, refused = 0, status = "ok"
      PROVE  Reassembled(got) = [j \in DOMAIN bodies |->
                                    [size |-> <<0, Len(bodies[j])>>, bytes |-> bodies[j]]]
  <2>1. got = Readable /\ ~Ends(written, Len(written))
    BY <1>3, AllIsRead
  <2>2. PICK T, at, r : Joined(written, T, at) /\ Handed(written, r) /\ Reader(T, at, r)
    BY DEF WireInv
  <2>3. got = r[Len(written)].frames
    BY <1>1, <2>1, <2>2, ReadableIs
  <2>4. PICK s, u : /\ Folds(<<>>, written, s) /\ Folds(s[Len(written)], todo, u)
                    /\ u[Len(todo)] = MessagesOf(bodies)
    <3>1. Len(todo) = 0
      BY <1>3, EmptyList DEF AllRead
    <3>2. ~Oversize(todo)
      BY <3>1 DEF Oversize
    <3> QED BY <1>3, <3>2 DEF BodiesInv, Counted
  <2>5. s[Len(written)] = MessagesOf(bodies)
    <3>1. Len(todo) = 0
      BY <1>3, EmptyList DEF AllRead
    <3> QED BY <2>4, <3>1 DEF Folds
  <2>6. PICK t : Folds(<<>>, got, t) /\ t[Len(got)] = MessagesOf(bodies)
    <3>1. Makes(got, MessagesOf(bodies))
      BY <1>1, <2>1, <2>2, <2>3, <2>4, <2>5, HandedMakes
    <3> QED BY <3>1 DEF Makes
  <2>7. Len(got) \in Nat
    <3>1. Len(written) \in 0..Len(written)
      BY <1>1
    <3>2. IsList(r[Len(written)].frames)
      BY <1>1, <2>2, <3>1, EndsOrNot
    <3> QED BY <2>3, <3>2 DEF IsList
  <2>8. Reassembled(got) = MessagesOf(bodies)
    BY <2>6, <2>7, ReassembledIs
  <2>9. DOMAIN bodies = 1..Len(bodies)
    BY DEF BodiesInv, IsList
  <2> QED BY <2>8, <2>9 DEF MessagesOf, Whole
<1> QED BY <1>2, <1>3 DEF PublishedWhole

(***************************************************************************)
(* Whatever the bodies and the size of a frame, no frame on the wire is    *)
(* longer than frame_max, and the fragments that arrive are the bodies     *)
(* that were published, each with the size its header announced            *)
(* (PublishedWhole of AmqpWire).                                           *)
(***************************************************************************)
THEOREM PublishedAlwaysWhole == Spec => []PublishedWhole
BY WireInvariance, BodiesInvariance, InvPublishedWhole, PTL

-----------------------------------------------------------------------------
(* The fields of the requests.                                             *)

(* Every field of a list is in S, and the bits of one one by one.          *)
Covered(fields, S) ==
    \A j \in DOMAIN fields :
        IF fields[j].kind = "bits" THEN \A i \in DOMAIN fields[j].name : fields[j].name[i] \in S
        ELSE fields[j].name \in S

LEMMA NamesCovered ==
    ASSUME NEW m, NEW S, Covered(FieldsWritten[m], S)
    PROVE  NamesOf(m) \subseteq S
<1> SUFFICES ASSUME NEW n, n \in NamesOf(m)
             PROVE  n \in S
  OBVIOUS
<1>1. PICK f \in ToSet(FieldsWritten[m]) :
          n \in (IF f.kind = "bits" THEN ToSet(f.name) ELSE {f.name})
  BY DEF NamesOf
<1>2. PICK j \in DOMAIN FieldsWritten[m] : f = FieldsWritten[m][j]
  BY <1>1 DEF ToSet
<1> QED BY <1>1, <1>2 DEF Covered, ToSet

(* h has what f and g have, f first.                                       *)
Found(h, f, g) ==
    /\ DOMAIN h = DOMAIN f \cup DOMAIN g
    /\ \A m \in DOMAIN f : h[m] = f[m]
    /\ \A m \in DOMAIN g : m \notin DOMAIN f => h[m] = g[m]

LEMMA MergedFinds ==
    ASSUME NEW f, NEW g
    PROVE  Found(Merged(f, g), f, g)
BY DEF Merged, Found

(* The classes of which the library makes requests.                        *)
LEMMA FieldsOfClasses ==
    /\ \A m \in DOMAIN ChannelWritten : FieldsWritten[m] = ChannelWritten[m]
    /\ \A m \in DOMAIN ExchangeWritten : FieldsWritten[m] = ExchangeWritten[m]
    /\ \A m \in DOMAIN QueueWritten : FieldsWritten[m] = QueueWritten[m]
    /\ \A m \in DOMAIN ConsumerWritten : FieldsWritten[m] = ConsumerWritten[m]
    /\ \A m \in DOMAIN MessageWritten : FieldsWritten[m] = MessageWritten[m]
    /\ \A m \in DOMAIN TxWritten : FieldsWritten[m] = TxWritten[m]
    /\ \A m \in DOMAIN ConfirmWritten : FieldsWritten[m] = ConfirmWritten[m]
<1> DEFINE h7 == Merged(TxWritten, ConfirmWritten)
           h6 == Merged(MessageWritten, h7)
           h5 == Merged(ConsumerWritten, h6)
           h4 == Merged(QueueWritten, h5)
           h3 == Merged(ExchangeWritten, h4)
           h2 == Merged(AccessWritten, h3)
           h1 == Merged(ChannelWritten, h2)
           h0 == Merged(ConnectionWritten, h1)
<1>1. FieldsWritten = h0
  BY DEF FieldsWritten
<1>2. /\ Found(h7, TxWritten, ConfirmWritten) /\ Found(h6, MessageWritten, h7)
      /\ Found(h5, ConsumerWritten, h6) /\ Found(h4, QueueWritten, h5)
  BY MergedFinds
<1>3. /\ Found(h3, ExchangeWritten, h4) /\ Found(h2, AccessWritten, h3)
      /\ Found(h1, ChannelWritten, h2) /\ Found(h0, ConnectionWritten, h1)
  BY MergedFinds
<1> HIDE DEF h0, h1, h2, h3, h4, h5, h6, h7
<1>4. ASSUME NEW m \in DOMAIN ChannelWritten
      PROVE  FieldsWritten[m] = ChannelWritten[m]
  <2>1. /\ m \notin DOMAIN ConnectionWritten
    BY DEF ConnectionWritten, ChannelWritten
  <2> QED BY <1>1, <1>2, <1>3, <2>1 DEF Found
<1>5. ASSUME NEW m \in DOMAIN ExchangeWritten
      PROVE  FieldsWritten[m] = ExchangeWritten[m]
  <2>1. /\ m \notin DOMAIN ConnectionWritten /\ m \notin DOMAIN ChannelWritten
        /\ m \notin DOMAIN AccessWritten
    BY DEF ConnectionWritten, ChannelWritten, AccessWritten, ExchangeWritten
  <2> QED BY <1>1, <1>2, <1>3, <2>1 DEF Found
<1>6. ASSUME NEW m \in DOMAIN QueueWritten
      PROVE  FieldsWritten[m] = QueueWritten[m]
  <2>1. /\ m \notin DOMAIN ConnectionWritten /\ m \notin DOMAIN ChannelWritten
        /\ m \notin DOMAIN AccessWritten /\ m \notin DOMAIN ExchangeWritten
    BY DEF ConnectionWritten, ChannelWritten, AccessWritten,
           ExchangeWritten, QueueWritten
  <2> QED BY <1>1, <1>2, <1>3, <2>1 DEF Found
<1>7. ASSUME NEW m \in DOMAIN ConsumerWritten
      PROVE  FieldsWritten[m] = ConsumerWritten[m]
  <2>1. /\ m \notin DOMAIN ConnectionWritten /\ m \notin DOMAIN ChannelWritten
        /\ m \notin DOMAIN AccessWritten /\ m \notin DOMAIN ExchangeWritten
        /\ m \notin DOMAIN QueueWritten
    BY DEF ConnectionWritten, ChannelWritten, AccessWritten,
           ExchangeWritten, QueueWritten, ConsumerWritten
  <2> QED BY <1>1, <1>2, <1>3, <2>1 DEF Found
<1>8. ASSUME NEW m \in DOMAIN MessageWritten
      PROVE  FieldsWritten[m] = MessageWritten[m]
  <2>1. /\ m \notin DOMAIN ConnectionWritten /\ m \notin DOMAIN ChannelWritten
        /\ m \notin DOMAIN AccessWritten /\ m \notin DOMAIN ExchangeWritten
        /\ m \notin DOMAIN QueueWritten /\ m \notin DOMAIN ConsumerWritten
    BY DEF ConnectionWritten, ChannelWritten, AccessWritten,
           ExchangeWritten, QueueWritten, ConsumerWritten, MessageWritten
  <2> QED BY <1>1, <1>2, <1>3, <2>1 DEF Found
<1>9. ASSUME NEW m \in DOMAIN TxWritten
      PROVE  FieldsWritten[m] = TxWritten[m]
  <2>1. /\ m \notin DOMAIN ConnectionWritten /\ m \notin DOMAIN ChannelWritten
        /\ m \notin DOMAIN AccessWritten /\ m \notin DOMAIN ExchangeWritten
        /\ m \notin DOMAIN QueueWritten /\ m \notin DOMAIN ConsumerWritten
        /\ m \notin DOMAIN MessageWritten
    BY DEF ConnectionWritten, ChannelWritten, AccessWritten,
           ExchangeWritten, QueueWritten, ConsumerWritten, MessageWritten,
           TxWritten
  <2> QED BY <1>1, <1>2, <1>3, <2>1 DEF Found
<1>10. ASSUME NEW m \in DOMAIN ConfirmWritten
      PROVE  FieldsWritten[m] = ConfirmWritten[m]
  <2>1. /\ m \notin DOMAIN ConnectionWritten /\ m \notin DOMAIN ChannelWritten
        /\ m \notin DOMAIN AccessWritten /\ m \notin DOMAIN ExchangeWritten
        /\ m \notin DOMAIN QueueWritten /\ m \notin DOMAIN ConsumerWritten
        /\ m \notin DOMAIN MessageWritten /\ m \notin DOMAIN TxWritten
    BY DEF ConnectionWritten, ChannelWritten, AccessWritten,
           ExchangeWritten, QueueWritten, ConsumerWritten, MessageWritten,
           TxWritten, ConfirmWritten
  <2> QED BY <1>1, <1>2, <1>3, <2>1 DEF Found
<1> QED BY <1>4, <1>5, <1>6, <1>7, <1>8, <1>9, <1>10

LEMMA RequestsOfTables ==
    /\ \A m \in DOMAIN ObjectRequests : Requests[m] = ObjectRequests[m]
    /\ \A m \in DOMAIN MessageRequests : Requests[m] = MessageRequests[m]
    /\ DOMAIN Requests = DOMAIN ObjectRequests \cup DOMAIN MessageRequests
<1>1. Found(Requests, ObjectRequests, MessageRequests)
  BY MergedFinds DEF Requests
<1>2. \A m \in DOMAIN MessageRequests : m \notin DOMAIN ObjectRequests
  BY DEF ObjectRequests, MessageRequests
<1> QED BY <1>1, <1>2 DEF Found

(* The caller gives, or the library zeroes, every field of a request.      *)
FieldsSet(m) == Covered(FieldsWritten[m], Requests[m].given \cup Requests[m].zero)

(* The same for a request of one table with the fields of one class.       *)
Sets(requests, m, written_fields) ==
    /\ m \in DOMAIN requests /\ m \in DOMAIN written_fields
    /\ Covered(written_fields[m], requests[m].given \cup requests[m].zero)

LEMMA ObjectFieldsSet == \A m \in DOMAIN ObjectRequests : FieldsSet(m)
<1>1. Sets(ObjectRequests, "channel_open", ChannelWritten)
  BY DEF Sets, Covered, ObjectRequests, ChannelWritten, ShortStr
<1>2. Sets(ObjectRequests, "channel_flow", ChannelWritten)
  BY DEF Sets, Covered, ObjectRequests, ChannelWritten, Bits
<1>3. Sets(ObjectRequests, "exchange_declare", ExchangeWritten)
  BY DEF Sets, Covered, ObjectRequests, ExchangeWritten, Short, ShortStr,
         Bits, Table
<1>4. Sets(ObjectRequests, "exchange_delete", ExchangeWritten)
  BY DEF Sets, Covered, ObjectRequests, ExchangeWritten, Short, ShortStr,
         Bits
<1>5. Sets(ObjectRequests, "exchange_bind", ExchangeWritten)
  BY DEF Sets, Covered, ObjectRequests, ExchangeWritten, Short, ShortStr,
         Bits, Table
<1>6. Sets(ObjectRequests, "exchange_unbind", ExchangeWritten)
  BY DEF Sets, Covered, ObjectRequests, ExchangeWritten, Short, ShortStr,
         Bits, Table
<1>7. Sets(ObjectRequests, "queue_declare", QueueWritten)
  BY DEF Sets, Covered, ObjectRequests, QueueWritten, Short, ShortStr, Bits,
         Table
<1>8. Sets(ObjectRequests, "queue_bind", QueueWritten)
  BY DEF Sets, Covered, ObjectRequests, QueueWritten, Short, ShortStr, Bits,
         Table
<1>9. Sets(ObjectRequests, "queue_purge", QueueWritten)
  BY DEF Sets, Covered, ObjectRequests, QueueWritten, Short, ShortStr, Bits
<1>10. Sets(ObjectRequests, "queue_delete", QueueWritten)
  BY DEF Sets, Covered, ObjectRequests, QueueWritten, Short, ShortStr, Bits
<1>11. Sets(ObjectRequests, "queue_unbind", QueueWritten)
  BY DEF Sets, Covered, ObjectRequests, QueueWritten, Short, ShortStr, Table
<1>12. DOMAIN ObjectRequests =
         {"channel_open", "channel_flow", "exchange_declare",
          "exchange_delete", "exchange_bind", "exchange_unbind",
          "queue_declare", "queue_bind", "queue_purge", "queue_delete",
          "queue_unbind"}
  BY DEF ObjectRequests
<1>13. ASSUME NEW m, \/ Sets(ObjectRequests, m, ChannelWritten)
                     \/ Sets(ObjectRequests, m, ExchangeWritten)
                     \/ Sets(ObjectRequests, m, QueueWritten)
      PROVE  FieldsSet(m)
  BY <1>13, FieldsOfClasses, RequestsOfTables DEF Sets, FieldsSet
<1> QED BY <1>1, <1>2, <1>3, <1>4, <1>5, <1>6, <1>7, <1>8, <1>9, <1>10,
       <1>11, <1>12, <1>13

LEMMA MessageFieldsSet == \A m \in DOMAIN MessageRequests : FieldsSet(m)
<1>1. Sets(MessageRequests, "basic_qos", ConsumerWritten)
  BY DEF Sets, Covered, MessageRequests, ConsumerWritten, Long, Short, Bits
<1>2. Sets(MessageRequests, "basic_consume", ConsumerWritten)
  BY DEF Sets, Covered, MessageRequests, ConsumerWritten, Short, ShortStr,
         Bits, Table
<1>3. Sets(MessageRequests, "basic_cancel", ConsumerWritten)
  BY DEF Sets, Covered, MessageRequests, ConsumerWritten, ShortStr, Bits
<1>4. Sets(MessageRequests, "basic_recover", MessageWritten)
  BY DEF Sets, Covered, MessageRequests, MessageWritten, Bits
<1>5. Sets(MessageRequests, "tx_select", TxWritten)
  BY DEF Sets, Covered, MessageRequests, TxWritten
<1>6. Sets(MessageRequests, "tx_commit", TxWritten)
  BY DEF Sets, Covered, MessageRequests, TxWritten
<1>7. Sets(MessageRequests, "tx_rollback", TxWritten)
  BY DEF Sets, Covered, MessageRequests, TxWritten
<1>8. Sets(MessageRequests, "confirm_select", ConfirmWritten)
  BY DEF Sets, Covered, MessageRequests, ConfirmWritten, Bits
<1>9. DOMAIN MessageRequests =
         {"basic_qos", "basic_consume", "basic_cancel", "basic_recover",
          "tx_select", "tx_commit", "tx_rollback", "confirm_select"}
  BY DEF MessageRequests
<1>10. ASSUME NEW m, \/ Sets(MessageRequests, m, ConsumerWritten)
                     \/ Sets(MessageRequests, m, MessageWritten)
                     \/ Sets(MessageRequests, m, TxWritten)
                     \/ Sets(MessageRequests, m, ConfirmWritten)
      PROVE  FieldsSet(m)
  BY <1>10, FieldsOfClasses, RequestsOfTables DEF Sets, FieldsSet
<1> QED BY <1>1, <1>2, <1>3, <1>4, <1>5, <1>6, <1>7, <1>8, <1>9, <1>10

LEMMA EveryFieldSet ==
    ASSUME NEW m \in DOMAIN Requests
    PROVE  NamesOf(m) \subseteq Requests[m].given \cup Requests[m].zero
<1>1. FieldsSet(m)
  BY RequestsOfTables, ObjectFieldsSet, MessageFieldsSet
<1> QED BY <1>1, NamesCovered DEF FieldsSet

-----------------------------------------------------------------------------
(* Requests.                                                               *)

IsIn(x, s) == \E j \in 1..Len(s) : s[j] = x

LEMMA IsInAppend ==
    ASSUME NEW s, IsList(s), NEW x, NEW y
    PROVE  IsIn(x, Append(s, y)) <=> IsIn(x, s) \/ x = y
<1> DEFINE sy == Append(s, y)
<1>1. /\ Len(sy) = Len(s) + 1 /\ sy[Len(s) + 1] = y /\ Len(s) \in Nat
      /\ \A j \in 1..Len(s) : sy[j] = s[j]
  BY ListAppend DEF IsList
<1> HIDE DEF sy
<1>2. IsIn(x, s) => IsIn(x, sy)
  BY <1>1 DEF IsIn
<1>3. x = y => IsIn(x, sy)
  <2>1. Len(s) + 1 \in 1..Len(sy)
    BY <1>1
  <2> QED BY <1>1, <2>1 DEF IsIn
<1>4. ASSUME IsIn(x, sy)
      PROVE  IsIn(x, s) \/ x = y
  <2>1. PICK j \in 1..Len(sy) : sy[j] = x
    BY <1>4 DEF IsIn
  <2>2. j \in 1..Len(s) \/ j = Len(s) + 1
    BY <1>1
  <2> QED BY <1>1, <2>1, <2>2 DEF IsIn
<1> QED BY <1>2, <1>3, <1>4 DEF sy

LEMMA IsInTail ==
    ASSUME NEW s, IsList(s), s # <<>>, NEW x
    PROVE  IsIn(x, s) <=> x = Head(s) \/ IsIn(x, Tail(s))
<1> DEFINE t == Tail(s)
<1>1. /\ Len(s) >= 1 /\ Len(t) = Len(s) - 1 /\ Head(s) = s[1] /\ Len(s) \in Nat
      /\ \A j \in 1..Len(s) - 1 : t[j] = s[j + 1]
  BY ListTail DEF IsList
<1> HIDE DEF t
<1>2. ASSUME IsIn(x, s)
      PROVE  x = Head(s) \/ IsIn(x, t)
  <2>1. PICK j \in 1..Len(s) : s[j] = x
    BY <1>2 DEF IsIn
  <2>2. CASE j = 1
    BY <1>1, <2>1, <2>2
  <2>3. CASE j # 1
    <3>1. j - 1 \in 1..Len(s) - 1 /\ (j - 1) + 1 = j
      BY <1>1, <2>3
    <3>2. t[j - 1] = x /\ j - 1 \in 1..Len(t)
      BY <1>1, <2>1, <3>1
    <3> QED BY <3>2 DEF IsIn
  <2> QED BY <2>2, <2>3
<1>3. x = Head(s) => IsIn(x, s)
  <2>1. 1 \in 1..Len(s)
    BY <1>1
  <2> QED BY <1>1, <2>1 DEF IsIn
<1>4. ASSUME IsIn(x, t)
      PROVE  IsIn(x, s)
  <2>1. PICK j \in 1..Len(t) : t[j] = x
    BY <1>4 DEF IsIn
  <2>2. j + 1 \in 1..Len(s) /\ s[j + 1] = x
    BY <1>1, <2>1
  <2> QED BY <2>2 DEF IsIn
<1> QED BY <1>2, <1>3, <1>4 DEF t

LEMMA IsInConcat ==
    ASSUME NEW s, NEW t, IsList(s), IsList(t), NEW x
    PROVE  IsIn(x, s) \/ IsIn(x, t) => IsIn(x, s \o t)
<1> DEFINE st == s \o t
<1>1. Joins(st, s, t) /\ Len(s) \in Nat /\ Len(t) \in Nat
  BY ListConcat DEF IsList
<1> HIDE DEF st
<1>2. /\ Len(st) = Len(s) + Len(t)
      /\ \A i \in 1..Len(s) : st[i] = s[i]
      /\ \A i \in 1..Len(t) : st[Len(s) + i] = t[i]
  BY <1>1 DEF Joins
<1>3. IsIn(x, s) => IsIn(x, st)
  BY <1>1, <1>2 DEF IsIn
<1>4. ASSUME IsIn(x, t)
      PROVE  IsIn(x, st)
  <2>1. PICK j \in 1..Len(t) : t[j] = x
    BY <1>4 DEF IsIn
  <2>2. Len(s) + j \in 1..Len(st) /\ st[Len(s) + j] = x
    BY <1>1, <1>2, <2>1
  <2> QED BY <2>2 DEF IsIn
<1> QED BY <1>3, <1>4 DEF st

(* A request the library can make.                                         *)
Askable(x) == /\ x.method \in DOMAIN Requests \ {"connection_start"}
              /\ DOMAIN x.args = Requests[x.method].given

OnItsWay(x) == IsIn(RequestFrame(x), written) \/ IsIn(RequestFrame(x), todo)

AskedInv ==
    /\ IsList(asked) /\ refused \in Nat
    /\ \A k \in 1..Len(asked) : Askable(asked[k])
    /\ refused = 0 => \A k \in 1..Len(asked) : OnItsWay(asked[k])

LEMMA InitAsked == Init => AskedInv
<1> SUFFICES ASSUME Init
             PROVE  AskedInv
  OBVIOUS
<1>1. asked = <<>> /\ refused = 0
  BY DEF Init
<1>2. IsList(asked) /\ Len(asked) = 0
  BY <1>1, EmptyList
<1> QED BY <1>1, <1>2 DEF AskedInv

(* What is still to send is replaced by its head's frames, or sent.        *)
LEMMA StillOnItsWay ==
    ASSUME AskedInv, UNCHANGED asked, refused' \in Nat, refused' = 0 => refused = 0,
           refused' = 0 =>
               \A x : x.type = "method" /\ (IsIn(x, written) \/ IsIn(x, todo)) =>
                          IsIn(x, written') \/ IsIn(x, todo')
    PROVE  AskedInv'
<1>1. ASSUME refused' = 0, NEW k \in 1..Len(asked)
      PROVE  OnItsWay(asked[k])'
  <2> DEFINE x == RequestFrame(asked[k])
  <2>1. IsIn(x, written) \/ IsIn(x, todo)
    BY <1>1 DEF AskedInv, OnItsWay
  <2>2. x.type = "method"
    BY DEF RequestFrame
  <2> HIDE DEF x
  <2>3. IsIn(x, written') \/ IsIn(x, todo')
    BY <1>1, <2>1, <2>2
  <2>4. RequestFrame(asked[k])' = x
    BY DEF x, RequestFrame
  <2> QED BY <2>3, <2>4 DEF OnItsWay
<1>2. \A k \in 1..Len(asked) : Askable(asked[k])
  BY DEF AskedInv
<1>3. IsList(asked)
  BY DEF AskedInv
<1> QED BY <1>1, <1>2, <1>3 DEF AskedInv

LEMMA PublishAsked == WireInv /\ AskedInv /\ Publish => AskedInv'
<1> SUFFICES ASSUME WireInv, AskedInv, Publish
             PROVE  AskedInv'
  OBVIOUS
<1> DEFINE p == Head(todo)
           v == BasicPublish(p)
<1>1. /\ todo # <<>> /\ p.type = "publish" /\ todo' = v \o Tail(todo)
      /\ UNCHANGED <<written, asked, refused>>
  BY DEF Publish
<1>2. Lists(written, todo) /\ IsList(todo) /\ IsList(Tail(todo))
  BY <1>1, ListTail DEF WireInv, Lists
<1>3. IsList(v)
  <2>1. Pending(p)
    BY <1>1, <1>2, HeadOfLists, FirstOctets
  <2>2. ~IsFrame(p)
    BY <1>1, TypesOfFrames
  <2>3. p.body \in Seq(Octets)
    BY <1>1, <2>1, <2>2 DEF Pending, ToSend, FromPeer
  <2> QED BY <2>3, PublishFrames DEF FramesOnly
<1> HIDE DEF v
<1>4. ASSUME NEW x, x.type = "method", IsIn(x, todo)
      PROVE  IsIn(x, todo')
  <2>1. x # p
    BY <1>1, <1>4
  <2>2. IsIn(x, Tail(todo))
    BY <1>1, <1>2, <1>4, <2>1, IsInTail
  <2> QED BY <1>1, <1>2, <1>3, <2>2, IsInConcat
<1>5. refused \in Nat
  BY DEF AskedInv
<1> QED BY <1>1, <1>4, <1>5, StillOnItsWay

LEMMA RequestAsked == WireInv /\ AskedInv /\ MakeRequest => AskedInv'
<1> SUFFICES ASSUME WireInv, AskedInv, MakeRequest
             PROVE  AskedInv'
  OBVIOUS
<1> DEFINE q == Head(todo)
           f == RequestFrame(q)
           v == <<f>>
<1>1. /\ todo # <<>> /\ q.type = "request" /\ todo' = v \o Tail(todo)
      /\ asked' = Append(asked, q) /\ UNCHANGED <<written, refused>>
  BY DEF MakeRequest
<1>2. Lists(written, todo) /\ IsList(todo) /\ IsList(Tail(todo))
  BY <1>1, ListTail DEF WireInv, Lists
<1>3. Askable(q)
  <2>1. Pending(q)
    BY <1>1, <1>2, HeadOfLists, FirstOctets
  <2>2. ~IsFrame(q)
    BY <1>1, TypesOfFrames
  <2> QED BY <1>1, <2>1, <2>2 DEF Pending, ToSend, FromPeer, Askable
<1>4. IsList(v) /\ IsIn(f, v)
  <2>1. IsList(v) /\ Len(v) = 1 /\ v[1] = f
    BY DEF IsList
  <2>2. 1 \in 1..Len(v)
    BY <2>1
  <2> QED BY <2>1, <2>2 DEF IsIn
<1> HIDE DEF v
<1>5. /\ IsList(asked') /\ Len(asked') = Len(asked) + 1 /\ asked'[Len(asked) + 1] = q
      /\ \A k \in 1..Len(asked) : asked'[k] = asked[k]
  BY <1>1, ListAppend DEF AskedInv
<1>6. Len(asked) \in Nat /\ refused \in Nat
  BY DEF AskedInv, IsList
<1>7. ASSUME NEW x, x.type = "method", IsIn(x, todo)
      PROVE  IsIn(x, todo')
  <2>1. x # q
    BY <1>1, <1>7
  <2>2. IsIn(x, Tail(todo))
    BY <1>1, <1>2, <1>7, <2>1, IsInTail
  <2> QED BY <1>1, <1>2, <1>4, <2>2, IsInConcat
<1>8. IsIn(f, todo')
  <2> HIDE DEF f
  <2> QED BY <1>1, <1>2, <1>4, IsInConcat
<1>9. ASSUME NEW k \in 1..Len(asked')
      PROVE  Askable(asked'[k]) /\ (refused' = 0 => OnItsWay(asked[k])')
  <2>1. CASE k = Len(asked) + 1
    <3>1. asked'[k] = q
      BY <1>5, <2>1
    <3>2. RequestFrame(asked[k])' = f
      BY <3>1 DEF RequestFrame
    <3> QED BY <1>3, <1>8, <3>1, <3>2 DEF OnItsWay
  <2>2. CASE k \in 1..Len(asked)
    <3> DEFINE x == RequestFrame(asked[k])
    <3>1. asked'[k] = asked[k] /\ Askable(asked[k])
      BY <1>5, <2>2 DEF AskedInv
    <3>2. RequestFrame(asked[k])' = x
      BY <3>1 DEF RequestFrame
    <3>3. x.type = "method"
      BY DEF RequestFrame
    <3>4. refused = 0 => IsIn(x, written) \/ IsIn(x, todo)
      BY <2>2 DEF AskedInv, OnItsWay
    <3> HIDE DEF x
    <3>5. refused' = 0 => IsIn(x, written') \/ IsIn(x, todo')
      BY <1>1, <1>7, <3>3, <3>4
    <3> QED BY <3>1, <3>2, <3>5 DEF OnItsWay
  <2>3. k = Len(asked) + 1 \/ k \in 1..Len(asked)
    BY <1>5, <1>6
  <2> QED BY <2>1, <2>2, <2>3
<1> QED BY <1>1, <1>5, <1>6, <1>9 DEF AskedInv

LEMMA SentAsked ==
    ASSUME WireInv, AskedInv, todo # <<>>, todo' = Tail(todo), UNCHANGED asked,
           \/ written' = Append(written, Head(todo)) /\ UNCHANGED refused
           \/ refused' = refused + 1 /\ UNCHANGED written
    PROVE  AskedInv'
<1>1. IsList(written) /\ IsList(todo)
  BY DEF WireInv, Lists
<1>2. refused \in Nat /\ refused' \in Nat /\ (refused' = 0 => refused = 0)
  BY DEF AskedInv
<1>3. ASSUME refused' = 0, NEW x, IsIn(x, written) \/ IsIn(x, todo)
      PROVE  IsIn(x, written') \/ IsIn(x, todo')
  <2>1. written' = Append(written, Head(todo))
    BY <1>2, <1>3
  <2>2. IsIn(x, todo) => x = Head(todo) \/ IsIn(x, todo')
    BY <1>1, IsInTail
  <2>3. IsIn(x, written) \/ x = Head(todo) => IsIn(x, written')
    BY <1>1, <2>1, IsInAppend
  <2> QED BY <1>3, <2>2, <2>3
<1> QED BY <1>2, <1>3, StillOnItsWay

LEMMA SameAsked ==
    ASSUME AskedInv, UNCHANGED <<todo, written, asked, refused>>
    PROVE  AskedInv'
BY DEF AskedInv, OnItsWay

LEMMA NextAsked == WireInv /\ AskedInv /\ [Next]_wireVars => AskedInv'
<1> SUFFICES ASSUME WireInv, AskedInv, [Next]_wireVars
             PROVE  AskedInv'
  OBVIOUS
<1>1. CASE Publish
  BY <1>1, PublishAsked
<1>2. CASE MakeRequest
  BY <1>2, RequestAsked
<1>3. CASE SendFrame
  <2>1. /\ todo # <<>> /\ todo' = Tail(todo) /\ UNCHANGED asked
        /\ \/ written' = Append(written, Head(todo)) /\ UNCHANGED refused
           \/ refused' = refused + 1 /\ UNCHANGED written
    BY <1>3 DEF SendFrame
  <2> QED BY <2>1, SentAsked
<1>4. CASE PeerSendsOctets
  <2>1. /\ todo # <<>> /\ todo' = Tail(todo) /\ UNCHANGED asked
        /\ written' = Append(written, Head(todo)) /\ UNCHANGED refused
    BY <1>4 DEF PeerSendsOctets
  <2> QED BY <2>1, SentAsked
<1>5. ASSUME NEW n \in {Len(wire)} \cup (IF Len(wire) > LongStream THEN LongChunks ELSE ChunkSizes),
             Recv(n)
      PROVE  AskedInv'
  <2>1. UNCHANGED <<todo, written, asked, refused>>
    BY <1>5 DEF Recv
  <2> QED BY <2>1, SameAsked
<1>6. CASE HandleInput
  <2>1. UNCHANGED <<todo, written, asked, refused>>
    BY <1>6 DEF HandleInput, KeepOctets, ReadProtocolHeader, ReadFrameHeader, ReadFrameBody
  <2> QED BY <2>1, SameAsked
<1>7. CASE UNCHANGED wireVars
  <2>1. UNCHANGED <<todo, written, asked, refused>>
    BY <1>7 DEF wireVars
  <2> QED BY <2>1, SameAsked
<1> QED BY <1>1, <1>2, <1>3, <1>4, <1>5, <1>6, <1>7, Zenon DEF Next

(***************************************************************************)
(* The frame of every request that was made is on the wire or still to be  *)
(* sent, as long as no frame was refused.                                  *)
(***************************************************************************)
THEOREM AskedInvariance == Spec => []AskedInv
<1>1. Init => WireInv /\ AskedInv
  BY InitWire, InitAsked
<1>2. (WireInv /\ AskedInv) /\ [Next]_wireVars => (WireInv /\ AskedInv)'
  BY NextWire, NextAsked
<1> QED BY <1>1, <1>2, PTL DEF Spec

(* A frame that was sent is among those handed over.                       *)
LEMMA HandedHas ==
    ASSUME NEW w, IsList(w), NEW r, Handed(w, r), ~Ends(w, Len(w)),
           NEW x, IsIn(x, w), x.type = "method"
    PROVE  IsIn(AsRead(x), r[Len(w)].frames)
<1>1. Len(w) \in Nat
  BY DEF IsList
<1>2. PICK k \in 1..Len(w) : w[k] = x
  BY DEF IsIn
<1> DEFINE y == AsRead(x)
           A == {n \in Nat : k <= n /\ n <= Len(w) => IsIn(y, r[n].frames)}
<1>3. ASSUME NEW n \in Nat, n + 1 <= Len(w)
      PROVE  /\ IsList(r[n].frames) /\ r[n + 1] = ReadOn(r[n], w[n + 1])
             /\ ~Ignored(w[n + 1]) => r[n + 1].frames = Append(r[n].frames, AsRead(w[n + 1]))
             /\ Ignored(w[n + 1]) => r[n + 1] = r[n]
  <2>1. n \in 0..Len(w) /\ n + 1 \in 1..Len(w) /\ (n + 1) - 1 = n
    BY <1>1, <1>3
  <2>2. (r[n].ended <=> Ends(w, n)) /\ IsList(r[n].frames)
    BY <1>1, <2>1, EndsOrNot
  <2>3. ~Ends(w, n) /\ (~Ignored(w[n + 1]) => ~Malformed(w[n + 1]))
    <3>1. \A j \in 1..n : j \in 1..Len(w)
      BY <1>1, <1>3
    <3> QED BY <2>1, <3>1 DEF Ends
  <2>4. r[n + 1] = ReadOn(r[n], w[n + 1])
    <3>1. r[n + 1] = ReadOn(r[(n + 1) - 1], w[n + 1])
      BY <2>1 DEF Handed
    <3> QED BY <2>1, <3>1
  <2>5. ASSUME ~Ignored(w[n + 1])
        PROVE  r[n + 1].frames = Append(r[n].frames, AsRead(w[n + 1]))
    <3> DEFINE before == r[n]
               z == w[n + 1]
    <3>1. ~before.ended /\ ~Ignored(z) /\ ~Malformed(z)
      BY <2>2, <2>3, <2>5
    <3> HIDE DEF before, z
    <3>2. ReadOn(before, z).frames = Append(before.frames, AsRead(z))
      BY <3>1, OneMore
    <3> QED BY <2>4, <3>2 DEF before, z
  <2>6. Ignored(w[n + 1]) => r[n + 1] = r[n]
    BY <2>4 DEF ReadOn
  <2> QED BY <2>2, <2>4, <2>5, <2>6
<1>4. ~Ignored(x)
  BY DEF Ignored
<1> HIDE DEF y
<1>5. k \in A
  <2>1. k - 1 \in Nat /\ (k - 1) + 1 = k /\ k <= Len(w)
    BY <1>1
  <2>2. IsList(r[k - 1].frames) /\ r[k].frames = Append(r[k - 1].frames, y)
    BY <1>2, <1>3, <1>4, <2>1 DEF y
  <2>3. IsIn(y, r[k].frames)
    BY <2>2, IsInAppend
  <2> QED BY <2>3
<1>6. ASSUME NEW n \in Nat, n >= k, n \in A
      PROVE  n + 1 \in A
  <2> SUFFICES ASSUME n + 1 <= Len(w)
               PROVE  IsIn(y, r[n + 1].frames)
    OBVIOUS
  <2>1. IsIn(y, r[n].frames)
    BY <1>1, <1>6
  <2>2. CASE Ignored(w[n + 1])
    <3>1. r[n + 1] = r[n]
      BY <1>3, <2>2
    <3> QED BY <2>1, <3>1
  <2>3. CASE ~Ignored(w[n + 1])
    <3>1. IsList(r[n].frames) /\ r[n + 1].frames = Append(r[n].frames, AsRead(w[n + 1]))
      BY <1>3, <2>3
    <3> QED BY <2>1, <3>1, IsInAppend
  <2> QED BY <2>2, <2>3
<1>7. \A n \in Nat : n >= k => n \in A
  <2>1. \A n \in Nat : n >= k /\ n \in A => n + 1 \in A
    BY <1>6
  <2>2. k \in Nat
    OBVIOUS
  <2> HIDE DEF A
  <2> QED BY <1>5, <2>1, <2>2, InductionOnSet
<1> QED BY <1>1, <1>7 DEF y

LEMMA RequestValues ==
    ASSUME NEW x, Askable(x), NEW n \in NamesOf(x.method)
    PROVE  Request(x.method, x.args)[n] =
               IF n \in DOMAIN x.args THEN x.args[n] ELSE Zero(KindOf(x.method, n))
<1> DEFINE m == x.method
<1>1. n \in Requests[m].given \/ n \in Zeroed(m)
  BY EveryFieldSet DEF Askable, Zeroed
<1>2. Request(m, x.args)[n] = IF n \in Requests[m].given THEN x.args[n]
                              ELSE IF n \in Zeroed(m) THEN Zero(KindOf(m, n))
                              ELSE Stale(KindOf(m, n))
  BY Zenon DEF Request
<1> QED BY <1>1, <1>2, Zenon DEF Askable

LEMMA InvRequestsComplete == WireInv /\ AskedInv => RequestsComplete
<1> SUFFICES ASSUME WireInv, AskedInv, AllRead, status = "ok", refused = 0,
                    NEW k \in DOMAIN asked
             PROVE  \E j \in DOMAIN got :
                        /\ got[j].type = "method" /\ got[j].method = asked[k].method
                        /\ \A n \in NamesOf(asked[k].method) :
                              got[j].args[n] = IF n \in DOMAIN asked[k].args
                                               THEN asked[k].args[n]
                                               ELSE Zero(KindOf(asked[k].method, n))
  BY DEF RequestsComplete
<1> DEFINE x == asked[k]
           f == RequestFrame(x)
<1>1. IsList(written) /\ Len(written) \in Nat
  BY DEF WireInv, Lists, IsList
<1>2. got = Readable /\ ~Ends(written, Len(written))
  BY AllIsRead
<1>3. PICK T, at, r : Joined(written, T, at) /\ Handed(written, r) /\ Reader(T, at, r)
  BY DEF WireInv
<1>4. got = r[Len(written)].frames
  BY <1>1, <1>2, <1>3, ReadableIs
<1>5. k \in 1..Len(asked) /\ Askable(x) /\ OnItsWay(x)
  <2>1. k \in 1..Len(asked)
    BY DEF AskedInv, IsList
  <2> QED BY <2>1 DEF AskedInv
<1>6. IsIn(f, written)
  <2>1. Len(todo) = 0
    BY EmptyList DEF AllRead
  <2> HIDE DEF x
  <2> QED BY <1>5, <2>1 DEF OnItsWay, IsIn
<1>7. f.type = "method" /\ f.method = x.method /\ f.args = Request(x.method, x.args)
  BY DEF RequestFrame
<1> HIDE DEF f
<1>8. AsRead(f) = f
  BY <1>7 DEF AsRead
<1>9. IsIn(f, got)
  BY <1>1, <1>2, <1>3, <1>4, <1>6, <1>7, <1>8, HandedHas
<1>10. DOMAIN got = 1..Len(got)
  <2>1. Len(written) \in 0..Len(written)
    BY <1>1
  <2>2. IsList(r[Len(written)].frames)
    BY <1>1, <1>3, <2>1, EndsOrNot
  <2> QED BY <1>4, <2>2 DEF IsList
<1>11. PICK j \in DOMAIN got : got[j] = f
  BY <1>9, <1>10 DEF IsIn
<1> HIDE DEF x
<1>12. \A n \in NamesOf(x.method) :
          f.args[n] = IF n \in DOMAIN x.args THEN x.args[n] ELSE Zero(KindOf(x.method, n))
  BY <1>5, <1>7, RequestValues
<1> QED BY <1>7, <1>11, <1>12, Zenon DEF x

(***************************************************************************)
(* For all requests the library makes and whatever their callers give,     *)
(* the frame that arrives has what was given and zero everywhere else      *)
(* (RequestsComplete of AmqpWire): no field is left as the stack had it.   *)
(***************************************************************************)
THEOREM RequestsAreComplete == Spec => []RequestsComplete
BY WireInvariance, AskedInvariance, InvRequestsComplete, PTL
=============================================================================
