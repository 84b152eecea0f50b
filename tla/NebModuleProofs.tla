--------------------------- MODULE NebModuleProofs ---------------------------
(***************************************************************************)
(* Proofs about loading, parsing, registering and sending, for all lines   *)
(* of arguments, all events and any number of loads.                       *)
(***************************************************************************)
EXTENDS NebModule, NaturalSets, SequenceTheorems, FiniteSetTheorems

-----------------------------------------------------------------------------
(* The recursion of ParseArguments.                                        *)

Step(text, before, i) ==
    IF BeginsField(text, i) THEN With(before, FieldValues(FieldAt(text, i))) ELSE before

(* p is what the options are after each place of the text.                 *)
IsParse(p, o, text) ==
    p = [i \in 0..Len(text) |-> IF i = 0 THEN o ELSE Step(text, p[i - 1], i)]

LEMMA ParseExists ==
    ASSUME NEW o, NEW text, Len(text) \in Nat
    PROVE  \E p : IsParse(p, o, text)
<1> DEFINE Until(q, n) == q = [i \in 0..n |-> IF i = 0 THEN o ELSE Step(text, q[i - 1], i)]
           A == {n \in Nat : \E q : Until(q, n)}
<1>1. 0 \in A
  <2>1. Until([i \in 0..0 |-> o], 0)
    OBVIOUS
  <2> QED BY <2>1
<1>2. ASSUME NEW n \in Nat, n \in A PROVE n + 1 \in A
  <2>1. PICK q : Until(q, n)
    BY <1>2
  <2> DEFINE r == [i \in 0..n + 1 |-> IF i = n + 1 THEN Step(text, q[n], n + 1) ELSE q[i]]
  <2>2. \A i \in 0..n : q[i] = IF i = 0 THEN o ELSE Step(text, q[i - 1], i)
    BY <2>1
  <2>3. \A i \in 0..n + 1 : r[i] = IF i = 0 THEN o ELSE Step(text, r[i - 1], i)
    <3> SUFFICES ASSUME NEW i \in 0..n + 1
                 PROVE  r[i] = IF i = 0 THEN o ELSE Step(text, r[i - 1], i)
      OBVIOUS
    <3>1. CASE i = n + 1
      <4>1. r[i] = Step(text, q[n], i) /\ i # 0 /\ i - 1 \in 0..n + 1 /\ i - 1 # n + 1 /\ i - 1 = n
        BY <3>1
      <4>2. r[i - 1] = q[n]
        BY <4>1
      <4> QED BY <4>1, <4>2
    <3>2. CASE i # n + 1 /\ i # 0
      <4>1. i \in 0..n /\ i - 1 \in 0..n + 1 /\ i - 1 # n + 1
        BY <3>2
      <4>2. r[i] = q[i] /\ r[i - 1] = q[i - 1]
        BY <3>2, <4>1
      <4> QED BY <2>2, <3>2, <4>1, <4>2
    <3>3. CASE i = 0
      <4>1. r[i] = q[i] /\ i \in 0..n
        BY <3>3
      <4> QED BY <2>2, <3>3, <4>1
    <3> QED BY <3>1, <3>2, <3>3
  <2>4. Until(r, n + 1)
    BY <2>3
  <2> HIDE DEF Until, r
  <2>5. \E p : Until(p, n + 1)
    BY <2>4
  <2> QED BY <2>5
<1> HIDE DEF A
<1>3. \A n \in Nat : n >= 0 => n \in A
  BY <1>1, <1>2, InductionOnSet
<1>4. Len(text) \in A
  BY <1>3
<1> QED BY <1>4 DEF A, IsParse

LEMMA ParseIsParse ==
    ASSUME NEW o, NEW text, Len(text) \in Nat
    PROVE  \E p : IsParse(p, o, text) /\ ParseArguments(o, text) = p[Len(text)]
<1> DEFINE Good(p) == p = [i \in 0..Len(text) |->
                              IF i = 0 THEN o
                              ELSE IF BeginsField(text, i)
                                   THEN With(p[i - 1], FieldValues(FieldAt(text, i)))
                              ELSE p[i - 1]]
<1>1. \A p : Good(p) <=> IsParse(p, o, text)
  BY DEF IsParse, Step
<1>2. Good(CHOOSE p : Good(p))
  <2>1. \E p : Good(p)
    BY <1>1, ParseExists
  <2> HIDE DEF Good
  <2> QED BY <2>1
<1>3. ParseArguments(o, text) = (CHOOSE p : Good(p))[Len(text)]
  BY DEF ParseArguments
<1> HIDE DEF Good
<1> QED BY <1>1, <1>2, <1>3

-----------------------------------------------------------------------------
(* Options that are the same but for urls stay so, whatever is parsed.     *)

Names == DOMAIN Zeroed

Record(o) == DOMAIN o = Names /\ o = [m \in Names |-> o[m]]

Agree(o1, o2) == /\ Record(o1) /\ Record(o2)
                 /\ \A m \in Names \ {"urls"} : o1[m] = o2[m]

LEMMA ZeroedIsRecord == Record(Zeroed) /\ Names = DOMAIN Defaults \cup {"urls"}
<1> DEFINE S == DOMAIN Defaults \cup {"urls"}
<1>1. DOMAIN Zeroed = S
  BY Zenon DEF Zeroed
<1>2. Zeroed = [m \in S |-> Zeroed[m]]
  <2> DEFINE F(m) == CASE m \in SwitchOptions \cup {"port", "log_level", "max_size", "cache_size",
                               "autosync", "autoflush", "flush_interval", "rate", "flush",
                               "amqp_wait_time"} -> 0
                       [] m = "purge" -> FALSE
                       [] OTHER -> NullText
  <2>1. Zeroed = [m \in S |-> F(m)]
    BY Zenon DEF Zeroed
  <2> HIDE DEF F, S
  <2>2. \A m \in S : Zeroed[m] = F(m)
    BY <2>1
  <2> QED BY <2>1, <2>2
<1> QED BY <1>1, <1>2 DEF Record, Names

LEMMA WithAgrees ==
    ASSUME NEW o1, NEW o2, Agree(o1, o2), NEW values
    PROVE  Agree(With(o1, values), With(o2, values))
BY DEF Agree, Record, With

LEMMA WithIsRecord ==
    ASSUME NEW o, Record(o), NEW values
    PROVE  Record(With(o, values))
BY DEF Record, With

LEMMA StepAgrees ==
    ASSUME NEW o1, NEW o2, Agree(o1, o2), NEW text, NEW i
    PROVE  Agree(Step(text, o1, i), Step(text, o2, i))
BY WithAgrees DEF Step

LEMMA ParseAgrees ==
    ASSUME NEW o1, NEW o2, Agree(o1, o2), NEW text, Len(text) \in Nat
    PROVE  Agree(ParseArguments(o1, text), ParseArguments(o2, text))
<1>1. PICK p1 : IsParse(p1, o1, text) /\ ParseArguments(o1, text) = p1[Len(text)]
  BY ParseIsParse
<1>2. PICK p2 : IsParse(p2, o2, text) /\ ParseArguments(o2, text) = p2[Len(text)]
  BY ParseIsParse
<1> DEFINE A == {i \in Nat : i <= Len(text) => Agree(p1[i], p2[i])}
<1>3. \A i \in 0..Len(text) : /\ p1[i] = IF i = 0 THEN o1 ELSE Step(text, p1[i - 1], i)
                              /\ p2[i] = IF i = 0 THEN o2 ELSE Step(text, p2[i - 1], i)
  BY <1>1, <1>2 DEF IsParse
<1>4. 0 \in A
  BY <1>3
<1>5. ASSUME NEW i \in Nat, i \in A PROVE i + 1 \in A
  <2> SUFFICES ASSUME i + 1 <= Len(text) PROVE Agree(p1[i + 1], p2[i + 1])
    OBVIOUS
  <2>1. Agree(p1[i], p2[i])
    BY <1>5
  <2>2. i + 1 \in 0..Len(text) /\ i + 1 # 0 /\ (i + 1) - 1 = i
    OBVIOUS
  <2>3. p1[i + 1] = Step(text, p1[i], i + 1) /\ p2[i + 1] = Step(text, p2[i], i + 1)
    BY <1>3, <2>2
  <2> QED BY <2>1, <2>3, StepAgrees
<1> HIDE DEF A
<1>6. \A i \in Nat : i >= 0 => i \in A
  BY <1>4, <1>5, InductionOnSet
<1>7. Len(text) \in A
  BY <1>6
<1>8. Agree(p1[Len(text)], p2[Len(text)])
  BY <1>7 DEF A
<1> QED BY <1>1, <1>2, <1>8

LEMMA ResetAgrees ==
    ASSUME NEW o, Record(o)
    PROVE  Agree(Reset(o), Reset(Zeroed))
<1>1. Names = DOMAIN Defaults \cup {"urls"} /\ Record(Zeroed)
  BY ZeroedIsRecord
<1> QED BY <1>1 DEF Agree, Record, Reset, With

-----------------------------------------------------------------------------
(* Loads.                                                                  *)

LinesEnd == \A text \in Arguments : Len(text) \in Nat

LEMMA NebLinesEnd == LinesEnd
BY NebAssumption DEF LinesEnd, IsText

LoadInv == /\ loads \in Nat /\ Record(options)
           /\ loads > 0 => Agree(options, Asked)

LEMMA LoadInvInit == ModuleInit => LoadInv
BY ZeroedIsRecord DEF ModuleInit, LoadInv

LEMMA LoadSets ==
    ASSUME LoadInv, NEW text \in Arguments, NEW b, Load(text, b)
    PROVE  Agree(options', Asked')
<1>1. Len(text) \in Nat
  BY NebLinesEnd DEF LinesEnd
<1>2. PICK before \in {options, Zeroed} : options' = ParseArguments(Reset(before), text)
  BY DEF Load
<1>3. Record(before)
  BY <1>2, ZeroedIsRecord DEF LoadInv
<1>4. Agree(ParseArguments(Reset(before), text), ParseArguments(Reset(Zeroed), text))
  BY <1>1, <1>3, ResetAgrees, ParseAgrees
<1>5. Asked' = ParseArguments(Reset(Zeroed), text)
  BY DEF Asked, Load
<1> QED BY <1>2, <1>4, <1>5

LEMMA LoadInvNext ==
    LoadInv /\ [ModuleNext]_moduleVars => LoadInv'
<1> SUFFICES ASSUME LoadInv, [ModuleNext]_moduleVars PROVE LoadInv'
  OBVIOUS
<1>1. ASSUME NEW text \in Arguments, NEW b \in BrokerOptions, Load(text, b) PROVE LoadInv'
  <2>1. Agree(options', Asked')
    BY <1>1, LoadSets
  <2>2. loads' \in Nat
    BY <1>1 DEF LoadInv, Load
  <2> QED BY <2>1, <2>2 DEF LoadInv, Agree
<1>2. ASSUME UNCHANGED <<loads, line, options>> PROVE LoadInv'
  <2>1. Asked' = Asked
    BY <1>2 DEF Asked
  <2> QED BY <1>2, <2>1 DEF LoadInv
<1>3. CASE Unload
  BY <1>2, <1>3 DEF Unload
<1>4. ASSUME NEW e \in Events, Event(e) PROVE LoadInv'
  BY <1>2, <1>4 DEF Event
<1>5. CASE UNCHANGED moduleVars
  BY <1>2, <1>5 DEF moduleVars
<1> QED BY <1>1, <1>3, <1>4, <1>5 DEF ModuleNext

(***************************************************************************)
(* NothingFromEarlierLoad for all arguments and any loads: each sets the   *)
(* options to what its own line says, but for urls.                        *)
(***************************************************************************)
THEOREM LoadsAreIndependent == ModuleSpec => []NothingFromEarlierLoad
<1>1. LoadInv => NothingFromEarlierLoad
  BY DEF LoadInv, NothingFromEarlierLoad, Agree, Record
<1>2. ModuleInit => LoadInv
  BY LoadInvInit
<1>3. LoadInv /\ [ModuleNext]_moduleVars => LoadInv'
  BY LoadInvNext
<1> QED BY <1>1, <1>2, <1>3, PTL DEF ModuleSpec

-----------------------------------------------------------------------------
(* Counting the places of a set C up to n.                                 *)

UpTo(C, n)  == {i \in 1..n : i \in C}
Count(C, n) == Cardinality(UpTo(C, n))

LEMMA CountIsNatural ==
    ASSUME NEW C, NEW n \in Nat
    PROVE  IsFiniteSet(UpTo(C, n)) /\ Count(C, n) \in Nat
<1>1. IsFiniteSet(1..n)
  BY FS_Interval
<1>2. UpTo(C, n) \in SUBSET (1..n)
  BY DEF UpTo
<1>3. IsFiniteSet(UpTo(C, n))
  BY <1>1, <1>2, FS_Subset
<1> QED BY <1>3, FS_CardinalityType DEF Count

LEMMA CountStep ==
    ASSUME NEW C, NEW n \in Nat
    PROVE  Count(C, n + 1) = IF n + 1 \in C THEN Count(C, n) + 1 ELSE Count(C, n)
<1>1. IsFiniteSet(UpTo(C, n))
  BY CountIsNatural
<1>2. CASE n + 1 \in C
  <2>1. UpTo(C, n + 1) = UpTo(C, n) \cup {n + 1} /\ n + 1 \notin UpTo(C, n)
    BY <1>2 DEF UpTo
  <2>2. Cardinality(UpTo(C, n) \cup {n + 1}) = Cardinality(UpTo(C, n)) + 1
    BY <1>1, <2>1, FS_AddElement
  <2> QED BY <1>2, <2>1, <2>2 DEF Count
<1>3. CASE n + 1 \notin C
  <2>1. UpTo(C, n + 1) = UpTo(C, n)
    BY <1>3 DEF UpTo
  <2> QED BY <1>3, <2>1 DEF Count
<1> QED BY <1>2, <1>3

LEMMA CountBounds ==
    ASSUME NEW C, NEW n \in Nat, NEW j \in 1..n
    PROVE  /\ Count(C, j) <= Count(C, n)
           /\ j \in C => Count(C, j) >= 1
<1>1. IsFiniteSet(UpTo(C, n)) /\ IsFiniteSet(UpTo(C, j)) /\ Count(C, j) \in Nat
  BY CountIsNatural
<1>2. UpTo(C, j) \in SUBSET UpTo(C, n)
  BY DEF UpTo
<1>3. Count(C, j) <= Count(C, n)
  BY <1>1, <1>2, FS_Subset DEF Count
<1>4. ASSUME j \in C PROVE Count(C, j) >= 1
  <2>1. UpTo(C, j) # {}
    BY <1>4 DEF UpTo
  <2>2. Count(C, j) # 0
    BY <1>1, <2>1, FS_EmptySet DEF Count
  <2> QED BY <1>1, <2>2
<1> QED BY <1>3, <1>4

LEMMA CountSame ==
    ASSUME NEW C, NEW D, NEW n, \A i \in 1..n : i \in C <=> i \in D
    PROVE  Count(C, n) = Count(D, n)
<1>1. UpTo(C, n) = UpTo(D, n)
  BY DEF UpTo
<1> QED BY <1>1 DEF Count

-----------------------------------------------------------------------------
(* Callbacks and messages.                                                 *)

Checks == {"service_check", "host_check"}

KindOf(e) == IF e.cb \in Checks THEN "check"
             ELSE IF e.cb = "acknowledgement" THEN "ack" ELSE "downtime"

MessageOf(e) == EventMessage(KindOf(e), e,
                        IF e.cb = "acknowledgement" THEN Referer(e) ELSE NoReference)

Called   == {e \in Events : e.cb \in Callback}
Outgoing == {MessageOf(e) : e \in Called}
Given    == [event : Called, loaded : BOOLEAN]

(* The places of the events that are to be sent.                           *)
Places == {i \in 1..Len(given) : given[i].loaded /\ Wanted(given[i].event)}

SendInv ==
    /\ LoadInv
    /\ loaded \in BOOLEAN /\ (loads = 0 => ~loaded)
    /\ registered = [c \in Callback |-> IF loaded /\ Concerned(options, c) THEN 1 ELSE 0]
    /\ given \in Seq(Given)
    /\ loads = 0 => \A i \in 1..Len(given) : ~given[i].loaded
    /\ messages \in Seq(Outgoing)
    /\ Len(messages) = Count(Places, Len(given))
    /\ \A j \in 1..Len(given) :
          j \in Places => messages[Count(Places, j)].event = given[j].event

LEMMA SendInvInit == ModuleInit => SendInv
<1> SUFFICES ASSUME ModuleInit PROVE SendInv
  OBVIOUS
<1>1. given = <<>> /\ messages = <<>> /\ Len(given) = 0 /\ Len(messages) = 0
  BY DEF ModuleInit
<1>2. Count(Places, 0) = 0
  <2>1. UpTo(Places, 0) = {}
    BY DEF UpTo
  <2> QED BY <2>1, FS_EmptySet DEF Count
<1>3. LoadInv
  BY LoadInvInit
<1>4. ~loaded /\ loaded \in BOOLEAN /\ registered = [c \in Callback |-> 0]
  BY DEF ModuleInit
<1>5. registered = [c \in Callback |-> IF loaded /\ Concerned(options, c) THEN 1 ELSE 0]
  BY <1>4
<1>6. given \in Seq(Given) /\ messages \in Seq(Outgoing)
  BY <1>1
<1> QED BY <1>1, <1>2, <1>3, <1>4, <1>5, <1>6 DEF SendInv

LEMMA ConcernedIsAsked ==
    ASSUME LoadInv, loads > 0, NEW c
    PROVE  Concerned(options, c) <=> Concerned(Asked, c)
<1>1. {"acknowledgement", "downtime"} \subseteq Names \ {"urls"}
  BY ZeroedIsRecord DEF Defaults
<1>2. \A m \in {"acknowledgement", "downtime"} : options[m] = Asked[m]
  BY <1>1 DEF LoadInv, Agree
<1> QED BY <1>2 DEF Concerned

LEMMA LoadKeeps ==
    ASSUME SendInv, NEW text \in Arguments, NEW b, Load(text, b)
    PROVE  SendInv'
<1>1. LoadInv'
  <2>1. Agree(options', Asked')
    BY LoadSets DEF SendInv
  <2> QED BY <2>1 DEF SendInv, LoadInv, Load, Agree
<1>2. ~loaded /\ loads' = loads + 1 /\ loads \in Nat /\ given' = <<>> /\ messages' = <<>>
  BY DEF Load, SendInv, LoadInv
<1>3. registered = [c \in Callback |-> 0]
  BY <1>2 DEF SendInv
<1>4. /\ loaded' \in BOOLEAN
      /\ registered' = [c \in Callback |-> IF loaded' /\ Concerned(options', c) THEN 1 ELSE 0]
  <2>1. CASE Accepted(b)
    <3>1. loaded' = TRUE /\ registered' = Register(options')
      BY <2>1 DEF Load
    <3> QED BY <1>3, <3>1 DEF Register
  <2>2. CASE ~Accepted(b)
    <3>1. UNCHANGED <<loaded, registered>>
      BY <2>2 DEF Load
    <3>2. ~loaded' /\ loaded' \in BOOLEAN
      BY <1>2, <3>1 DEF SendInv
    <3> QED BY <1>3, <3>1, <3>2
  <2> QED BY <2>1, <2>2
<1>5. Len(given') = 0 /\ Len(messages') = 0 /\ given' \in Seq(Given) /\ messages' \in Seq(Outgoing')
  BY <1>2
<1>6. Count(Places', 0) = 0
  <2>1. UpTo(Places', 0) = {}
    BY DEF UpTo
  <2> QED BY <2>1, FS_EmptySet DEF Count
<1>7. loads' # 0
  BY <1>2
<1>8. SendInv' = (/\ LoadInv'
                  /\ loaded' \in BOOLEAN /\ (loads' = 0 => ~loaded')
                  /\ registered' = [c \in Callback |-> IF loaded' /\ Concerned(options', c) THEN 1 ELSE 0]
                  /\ given' \in Seq(Given)
                  /\ loads' = 0 => \A i \in 1..Len(given') : ~given'[i].loaded
                  /\ messages' \in Seq(Outgoing')
                  /\ Len(messages') = Count(Places', Len(given'))
                  /\ \A j \in 1..Len(given') :
                        j \in Places' => messages'[Count(Places', j)].event = given'[j].event)
  BY Zenon DEF SendInv, Given, Called
<1> QED BY <1>1, <1>4, <1>5, <1>6, <1>7, <1>8

LEMMA UnloadKeeps == SendInv /\ Unload => SendInv'
<1> SUFFICES ASSUME SendInv, Unload PROVE SendInv'
  OBVIOUS
<1>1. /\ loaded /\ loaded' = FALSE /\ registered' = Deregister(options)
      /\ UNCHANGED <<loads, line, options, given, messages>>
  BY DEF Unload
<1>2. Asked' = Asked
  BY <1>1 DEF Asked
<1>3. LoadInv'
  BY <1>1, <1>2 DEF SendInv, LoadInv
<1>4. registered' = [c \in Callback |-> 0]
  BY <1>1 DEF SendInv, Deregister
<1>5. Outgoing' = Outgoing
  BY <1>1 DEF Outgoing, MessageOf, EventMessage, Shortened, FullKey, Parts, Referer, NoReference, Called
<1>6. Places' = Places
  BY <1>1, <1>2 DEF Places, Wanted
<1> QED BY <1>1, <1>3, <1>4, <1>5, <1>6 DEF SendInv

(* What one event adds to what was sent: the message of the event if it is *)
(* wanted, otherwise nothing.                                              *)
LEMMA EventSends ==
    ASSUME SendInv, NEW e \in Events, Event(e)
    PROVE  /\ e \in Called
           /\ messages' = IF loaded /\ Wanted(e) THEN Append(messages, MessageOf(e)) ELSE messages
<1>1. e \in Called
  BY DEF Event, CheckEvent, Acknowledgement, Downtime, Called, Callback
<1> DEFINE type == IF e.cb \in Checks THEN "processed" ELSE "add"
<1>2. IF e.type = type THEN Send(e, MessageOf(e)) ELSE messages' = messages
  <2>1. CASE CheckEvent(e)
    <3>1. e.cb \in Checks /\ e.cb # "acknowledgement"
      BY <2>1 DEF CheckEvent, Checks
    <3>2. MessageOf(e) = EventMessage("check", e, NoReference)
      BY <3>1 DEF MessageOf, KindOf
    <3> QED BY <2>1, <3>1, <3>2 DEF CheckEvent
  <2>2. CASE Acknowledgement(e)
    <3>1. e.cb \notin Checks /\ e.cb = "acknowledgement"
      BY <2>2 DEF Acknowledgement, Checks
    <3>2. MessageOf(e) = EventMessage("ack", e, Referer(e))
      BY <3>1 DEF MessageOf, KindOf
    <3> QED BY <2>2, <3>1, <3>2 DEF Acknowledgement
  <2>3. CASE Downtime(e)
    <3>1. e.cb \notin Checks /\ e.cb = "downtime"
      BY <2>3 DEF Downtime, Checks
    <3>2. MessageOf(e) = EventMessage("downtime", e, NoReference)
      BY <3>1 DEF MessageOf, KindOf
    <3> QED BY <2>3, <3>1, <3>2 DEF Downtime
  <2> QED BY <2>1, <2>2, <2>3 DEF Event
<1>3. messages \in Seq(Outgoing) /\ MessageOf(e) \in Outgoing
  BY <1>1 DEF SendInv, Outgoing
<1>4. registered[e.cb] = IF loaded /\ Concerned(options, e.cb) THEN 1 ELSE 0
  BY <1>1 DEF SendInv, Called
<1>5. loaded => loads > 0
  BY DEF SendInv, LoadInv
<1>6. loaded => (Wanted(e) <=> e.type = type /\ Concerned(options, e.cb))
  BY <1>5, ConcernedIsAsked DEF Wanted, SendInv, Checks
<1> HIDE DEF type
<1>7. ASSUME loaded, Wanted(e) PROVE messages' = Append(messages, MessageOf(e))
  <2>1. e.type = type /\ registered[e.cb] = 1
    BY <1>4, <1>6, <1>7
  <2>2. messages' = messages \o [n \in 1..1 |-> MessageOf(e)]
    BY <1>2, <2>1 DEF Send
  <2>3. [n \in 1..1 |-> MessageOf(e)] = <<MessageOf(e)>>
    OBVIOUS
  <2> QED BY <1>3, <2>2, <2>3
<1>8. ASSUME ~(loaded /\ Wanted(e)) PROVE messages' = messages
  <2>1. CASE e.type # type
    BY <1>2, <2>1
  <2>2. CASE e.type = type
    <3>1. registered[e.cb] = 0
      BY <1>4, <1>6, <1>8, <2>2
    <3>2. messages' = messages \o [n \in 1..0 |-> MessageOf(e)]
      BY <1>2, <2>2, <3>1 DEF Send
    <3>3. [n \in 1..0 |-> MessageOf(e)] = <<>>
      OBVIOUS
    <3> QED BY <1>3, <3>2, <3>3, ConcatEmptySeq
  <2> QED BY <2>1, <2>2
<1> QED BY <1>1, <1>7, <1>8

LEMMA EventKeeps ==
    ASSUME SendInv, NEW e \in Events, Event(e)
    PROVE  SendInv'
<1> DEFINE g == [event |-> e, loaded |-> loaded]
           n == Len(given)
           now == loaded /\ Wanted(e)
<1>1. /\ given' = Append(given, g)
      /\ UNCHANGED <<loads, line, options, loaded, registered>>
  BY DEF Event
<1>2. Asked' = Asked
  BY <1>1 DEF Asked
<1>3. LoadInv'
  BY <1>1, <1>2 DEF SendInv, LoadInv
<1>4. /\ e \in Called
      /\ messages' = IF now THEN Append(messages, MessageOf(e)) ELSE messages
  BY EventSends
<1>5. Outgoing' = Outgoing
  BY <1>1 DEF Outgoing, MessageOf, EventMessage, Shortened, FullKey, Parts, Referer, NoReference, Called
<1>6. g \in Given /\ MessageOf(e) \in Outgoing
  BY <1>4 DEF Given, Outgoing, SendInv
<1>7. /\ given \in Seq(Given) /\ n \in Nat
      /\ given' \in Seq(Given) /\ Len(given') = n + 1
      /\ given'[n + 1] = g
      /\ \A i \in 1..n : given'[i] = given[i]
  BY <1>1, <1>6 DEF SendInv
<1>8. messages \in Seq(Outgoing) /\ messages' \in Seq(Outgoing)
  BY <1>4, <1>6 DEF SendInv
<1> HIDE DEF n
<1>9. \A i \in 1..n : i \in Places' <=> i \in Places
  BY <1>1, <1>2, <1>7 DEF Places, Wanted, n
<1>10. n + 1 \in Places' <=> now
  BY <1>1, <1>2, <1>7 DEF Places, Wanted
<1>11. \A j \in 0..n : Count(Places', j) = Count(Places, j)
  <2> SUFFICES ASSUME NEW j \in 0..n PROVE Count(Places', j) = Count(Places, j)
    OBVIOUS
  <2>1. \A i \in 1..j : i \in Places' <=> i \in Places
    BY <1>7, <1>9
  <2> QED BY <2>1, CountSame
<1>12. Count(Places', n + 1) = IF now THEN Count(Places, n) + 1 ELSE Count(Places, n)
  BY <1>7, <1>10, <1>11, CountStep
<1>13. /\ Count(Places, n) \in Nat /\ Len(messages) = Count(Places, n)
       /\ \A j \in 1..n : j \in Places => messages[Count(Places, j)].event = given[j].event
  BY <1>7, CountIsNatural DEF SendInv, n
<1>14. Len(messages') = Count(Places', Len(given'))
  BY <1>4, <1>7, <1>8, <1>12, <1>13
<1>15. ASSUME NEW j \in 1..Len(given'), j \in Places'
       PROVE  messages'[Count(Places', j)].event = given'[j].event
  <2>1. CASE j = n + 1
    <3>1. now /\ Count(Places', j) = Len(messages) + 1
      BY <1>10, <1>12, <1>13, <1>15, <2>1
    <3>2. messages'[Len(messages) + 1] = MessageOf(e)
      BY <1>4, <1>8, <3>1
    <3>3. MessageOf(e).event = e
      BY DEF MessageOf, EventMessage
    <3> QED BY <1>7, <2>1, <3>1, <3>2, <3>3
  <2>2. CASE j # n + 1
    <3>1. j \in 1..n /\ j \in Places /\ Count(Places', j) = Count(Places, j)
      BY <1>7, <1>9, <1>11, <1>15, <2>2
    <3>2. Count(Places, j) \in 1..Len(messages)
      BY <1>7, <1>13, <3>1, CountBounds, CountIsNatural
    <3>3. messages'[Count(Places, j)] = messages[Count(Places, j)]
      BY <1>4, <1>8, <3>2
    <3> QED BY <1>7, <1>13, <3>1, <3>3
  <2> QED BY <2>1, <2>2
<1>16. registered' = [c \in Callback |-> IF loaded' /\ Concerned(options', c) THEN 1 ELSE 0]
  BY <1>1 DEF SendInv
<1>17. /\ loaded' \in BOOLEAN
       /\ loads' = 0 => ~loaded' /\ \A i \in 1..Len(given') : ~given'[i].loaded
  BY <1>1, <1>7 DEF SendInv, n
<1>18. messages' \in Seq(Outgoing')
  BY <1>5, <1>8
<1>19. SendInv' = (/\ LoadInv'
                   /\ loaded' \in BOOLEAN /\ (loads' = 0 => ~loaded')
                   /\ registered' = [c \in Callback |-> IF loaded' /\ Concerned(options', c) THEN 1 ELSE 0]
                   /\ given' \in Seq(Given)
                   /\ loads' = 0 => \A i \in 1..Len(given') : ~given'[i].loaded
                   /\ messages' \in Seq(Outgoing')
                   /\ Len(messages') = Count(Places', Len(given'))
                   /\ \A j \in 1..Len(given') :
                         j \in Places' => messages'[Count(Places', j)].event = given'[j].event)
  BY Zenon DEF SendInv, Given, Called
<1> QED BY <1>3, <1>7, <1>14, <1>15, <1>16, <1>17, <1>18, <1>19

LEMMA SendInvNext ==
    SendInv /\ [ModuleNext]_moduleVars => SendInv'
<1> SUFFICES ASSUME SendInv, [ModuleNext]_moduleVars PROVE SendInv'
  OBVIOUS
<1>1. ASSUME NEW text \in Arguments, NEW b \in BrokerOptions, Load(text, b) PROVE SendInv'
  BY <1>1, LoadKeeps
<1>2. CASE Unload
  BY <1>2, UnloadKeeps
<1>3. ASSUME NEW e \in Events, Event(e) PROVE SendInv'
  BY <1>3, EventKeeps
<1>4. CASE UNCHANGED moduleVars
  <2>1. UNCHANGED <<loads, line, options, loaded, registered, given, messages>>
    BY <1>4 DEF moduleVars
  <2>2. Asked' = Asked
    BY <2>1 DEF Asked
  <2>3. LoadInv'
    BY <2>1, <2>2 DEF SendInv, LoadInv
  <2>4. Outgoing' = Outgoing
    BY <2>1 DEF Outgoing, MessageOf, EventMessage, Shortened, FullKey, Parts, Referer, NoReference, Called
  <2>5. Places' = Places
    BY <2>1, <2>2 DEF Places, Wanted
  <2> QED BY <2>1, <2>3, <2>4, <2>5 DEF SendInv
<1> QED BY <1>1, <1>2, <1>3, <1>4 DEF ModuleNext

(***************************************************************************)
(* What every reachable state satisfies: Nagios has each callback once or  *)
(* not at all, as the options say, and the n-th message is that of the     *)
(* n-th event that was to be sent.                                         *)
(***************************************************************************)
THEOREM CallbacksInvariance == ModuleSpec => []SendInv
<1>1. ModuleInit => SendInv
  BY SendInvInit
<1>2. SendInv /\ [ModuleNext]_moduleVars => SendInv'
  BY SendInvNext
<1> QED BY <1>1, <1>2, PTL DEF ModuleSpec

(***************************************************************************)
(* WantedEventsOnce for all events, lines of arguments and loads.          *)
(***************************************************************************)
THEOREM WantedOnce == ModuleSpec => []WantedEventsOnce
<1> DEFINE ChosenAt(i) == given[i].loaded /\ Wanted(given[i].event)
           WantedBy(j) == Cardinality({i \in 1..j : ChosenAt(i)})
<1>1. SendInv => WantedEventsOnce
  <2> SUFFICES ASSUME SendInv PROVE WantedEventsOnce
    OBVIOUS
  <2>1. Len(given) \in Nat
    BY DEF SendInv
  <2>2. ASSUME NEW j \in 0..Len(given) PROVE WantedBy(j) = Count(Places, j)
    <3>1. {i \in 1..j : ChosenAt(i)} = UpTo(Places, j)
      BY <2>1 DEF UpTo, Places
    <3> QED BY <3>1 DEF Count
  <2>3. Len(messages) = WantedBy(Len(given))
    BY <2>1, <2>2 DEF SendInv
  <2>4. ASSUME NEW j \in 1..Len(given), ChosenAt(j)
        PROVE  messages[WantedBy(j)].event = given[j].event
    <3>1. j \in Places /\ WantedBy(j) = Count(Places, j)
      BY <2>1, <2>2, <2>4 DEF Places
    <3> QED BY <3>1 DEF SendInv
  <2> QED BY <2>3, <2>4 DEF WantedEventsOnce
<1>2. ModuleSpec => []SendInv
  BY CallbacksInvariance
<1> QED BY <1>1, <1>2, PTL

-----------------------------------------------------------------------------
(* Texts and their tokens.                                                 *)

LEMMA TextIs ==
    ASSUME NEW text
    PROVE  IsText(text) <=> \E S : text \in Seq(S) /\ "NULL" \notin S
<1>1. Range(NullText) = {"NULL"}
  BY DEF Range, NullText
<1>2. IsText(text) => \E S : text \in Seq(S) /\ "NULL" \notin S
  BY <1>1 DEF IsText
<1>3. ASSUME NEW S, text \in Seq(S), "NULL" \notin S PROVE IsText(text)
  <2>1. Len(text) \in Nat /\ DOMAIN text = 1..Len(text) /\ \A i \in 1..Len(text) : text[i] \in S
    BY <1>3
  <2>2. \A i \in 1..Len(text) : text[i] \in Range(text) \ {"NULL"}
    BY <1>3, <2>1 DEF Range
  <2>3. text = [i \in 1..Len(text) |-> text[i]]
    BY <1>3
  <2>4. text \in Seq(Range(text) \ {"NULL"})
    BY <2>1, <2>2, <2>3
  <2> QED BY <1>1, <2>4 DEF IsText
<1> QED BY <1>2, <1>3

LEMMA FindPlace ==
    ASSUME NEW text, Len(text) \in Nat, NEW d
    PROVE  /\ Find(text, d) \in 1..Len(text) + 1
           /\ Find(text, d) <= Len(text) => text[Find(text, d)] = d
           /\ \A q \in 1..Find(text, d) - 1 : text[q] # d
<1> DEFINE T == {p \in 1..Len(text) + 1 : p <= Len(text) => text[p] = d}
           First(p) == /\ p <= Len(text) => text[p] = d
                       /\ \A q \in 1..p - 1 : text[q] # d
<1>1. Len(text) + 1 \in T /\ T \subseteq Nat
  OBVIOUS
<1>2. PICK m \in T : \A n \in T : m <= n
  BY <1>1, LeastNatural
<1>3. \A q \in 1..m - 1 : q \in 1..Len(text) + 1 /\ q \notin T
  BY <1>2
<1>4. m \in 1..Len(text) + 1 /\ First(m)
  BY <1>2, <1>3
<1>5. Find(text, d) = CHOOSE p \in 1..Len(text) + 1 : First(p)
  BY DEF Find
<1> HIDE DEF First
<1>6. Find(text, d) \in 1..Len(text) + 1 /\ First(Find(text, d))
  BY <1>4, <1>5
<1> QED BY <1>6 DEF First

LEMMA PieceIsText ==
    ASSUME NEW text, IsText(text), NEW i \in Int, i >= 1, NEW j \in Int, j <= Len(text)
    PROVE  IsText(SubSeq(text, i, j)) /\ Len(SubSeq(text, i, j)) \in Nat
<1>1. PICK S : text \in Seq(S) /\ "NULL" \notin S
  BY TextIs
<1>2. \A k \in i..j : text[k] \in S
  BY <1>1
<1> DEFINE piece == SubSeq(text, i, j)
<1>3. piece \in Seq(S)
  BY <1>2, SubSeqProperties
<1> HIDE DEF piece
<1>4. IsText(piece) /\ Len(piece) \in Nat
  BY <1>1, <1>3, TextIs
<1> QED BY <1>4 DEF piece

LEMMA TokensAreTexts ==
    ASSUME NEW text, IsText(text), NEW d
    PROVE  IsText(Token(text, d)) /\ IsText(AfterToken(text, d))
<1>1. Len(text) \in Nat
  BY DEF IsText
<1>2. Find(text, d) \in 1..Len(text) + 1
  BY <1>1, FindPlace
<1> QED BY <1>1, <1>2, PieceIsText DEF Token, AfterToken

LEMMA FieldIsText ==
    ASSUME NEW text, IsText(text), NEW i \in 1..Len(text)
    PROVE  IsText(FieldAt(text, i))
<1>1. Len(text) \in Nat
  BY DEF IsText
<1>2. IsText(SubSeq(text, i, Len(text)))
  BY <1>1, PieceIsText
<1> QED BY <1>2, TokensAreTexts DEF FieldAt

-----------------------------------------------------------------------------
(* The members that make a key keep their types whatever is parsed.        *)

Values(v) == \A m \in DOMAIN v : /\ m = "max_size" => v[m] \in Int
                                 /\ m = "connector" => IsText(v[m]) /\ v[m] # <<>>
                                 /\ m = "eventsource_name" => IsText(v[m])

KeyOptions(o) == /\ o.max_size \in Int
                 /\ IsText(o.connector) /\ o.connector # <<>>
                 /\ IsText(o.eventsource_name)

LEMMA NumbersAreIntegers ==
    ASSUME NEW text
    PROVE  Strtol(text, Decimal) \in Int
BY NebAssumption DEF Strtol

LEMMA AddressValues ==
    ASSUME NEW text
    PROVE  Values(Address(text))
<1>1. DOMAIN Address(text) \subseteq {"hostname", "port"}
  BY DEF Address
<1> QED BY <1>1 DEF Values

LEMMA OptionNames ==
    /\ DOMAIN NumberOptions = {"debug", "max_size", "amqp_wait_time", "autoflush",
                               "flush_interval", "cache_size", "autosync", "port"}
    /\ DOMAIN TextOptions = {"cache_file", "name", "userid", "password", "virtual_host",
                             "exchange_name", "exchange_type", "connector"}
    /\ \A n \in DOMAIN NumberOptions : NumberOptions[n] \notin {"connector", "eventsource_name"}
    /\ \A n \in DOMAIN TextOptions : TextOptions[n] # "max_size"
BY DEF NumberOptions, TextOptions

LEMMA OptionValuesTyped ==
    ASSUME NEW name, NEW right, IsText(right), right # <<>>
    PROVE  Values(OptionValues(name, right))
<1> DEFINE number == Strtol(right, Decimal)
           special == {"host", "purge", "rate", "flush"}
<1>1. number \in Int
  BY NumbersAreIntegers
<1>2. CASE name = "host"
  <2>1. OptionValues(name, right) = Address(right)
    BY <1>2, OptionNames DEF OptionValues, SwitchOptions
  <2> QED BY <2>1, AddressValues
<1>3. CASE name = "purge"
  <2>1. OptionValues(name, right) = [purge |-> Purge(right)]
    BY <1>3, OptionNames DEF OptionValues, SwitchOptions
  <2> QED BY <2>1 DEF Values
<1>4. CASE name = "rate"
  <2>1. OptionValues(name, right) = Rate(number)
    BY <1>4, OptionNames DEF OptionValues, SwitchOptions
  <2>2. DOMAIN Rate(number) \subseteq {"rate"}
    BY DEF Rate, NoValues
  <2> QED BY <2>1, <2>2 DEF Values
<1>5. CASE name = "flush"
  <2>1. OptionValues(name, right) = Flush(number)
    BY <1>5, OptionNames DEF OptionValues, SwitchOptions
  <2>2. DOMAIN Flush(number) \subseteq {"flush"}
    BY DEF Flush, NoValues
  <2> QED BY <2>1, <2>2 DEF Values
<1>6. CASE name \in DOMAIN NumberOptions
  <2>1. OptionValues(name, right) = [m \in {NumberOptions[name]} |-> number]
    BY <1>6, OptionNames DEF OptionValues, SwitchOptions
  <2> QED BY <1>1, <1>6, <2>1, OptionNames DEF Values
<1>7. CASE name \in SwitchOptions
  <2>1. OptionValues(name, right) = [m \in {name} |-> Strtol(right, Binary)]
    BY <1>7, OptionNames DEF OptionValues, SwitchOptions
  <2> QED BY <1>7, <2>1 DEF Values, SwitchOptions
<1>8. CASE name \in DOMAIN TextOptions
  <2>1. OptionValues(name, right) = [m \in {TextOptions[name]} |-> right]
    BY <1>8, OptionNames DEF OptionValues, SwitchOptions
  <2> QED BY <1>8, <2>1, OptionNames DEF Values
<1>9. CASE name \notin special \cup DOMAIN NumberOptions \cup SwitchOptions \cup DOMAIN TextOptions
  <2>1. OptionValues(name, right) = NoValues
    BY <1>9 DEF OptionValues
  <2> QED BY <2>1 DEF Values, NoValues
<1> QED BY <1>2, <1>3, <1>4, <1>5, <1>6, <1>7, <1>8, <1>9

LEMMA FieldValuesTyped ==
    ASSUME NEW f, IsText(f)
    PROVE  Values(FieldValues(f))
<1>1. IsText(AfterToken(f, "="))
  BY TokensAreTexts
<1>2. Values(NoValues)
  BY DEF Values, NoValues
<1> QED BY <1>1, <1>2, AddressValues, OptionValuesTyped DEF FieldValues

LEMMA WithKeyOptions ==
    ASSUME NEW o, Record(o), KeyOptions(o), NEW v, Values(v)
    PROVE  KeyOptions(With(o, v))
<1>1. {"max_size", "connector", "eventsource_name"} \subseteq DOMAIN o
  BY ZeroedIsRecord DEF Record, Defaults
<1> QED BY <1>1 DEF KeyOptions, Values, With

LEMMA ResetKeyOptions ==
    ASSUME NEW o, Record(o)
    PROVE  KeyOptions(Reset(o))
<1>1. {"max_size", "connector", "eventsource_name"} \subseteq DOMAIN o
  BY ZeroedIsRecord DEF Record, Defaults
<1>2. \A w \in {"nagios", "Central"} : IsText(<<w>>) /\ <<w>> # <<>>
  <2>1. \A w \in {"nagios", "Central"} : <<w>> \in Seq({"nagios", "Central"})
    OBVIOUS
  <2>2. "NULL" \notin {"nagios", "Central"}
    OBVIOUS
  <2> QED BY <2>1, <2>2, TextIs
<1>3. /\ {"max_size", "connector", "eventsource_name"} \subseteq DOMAIN Defaults
      /\ Defaults.max_size = 8192
      /\ Defaults.connector = <<"nagios">>
      /\ Defaults.eventsource_name = <<"Central">>
  BY DEF Defaults
<1>4. \A m \in {"max_size", "connector", "eventsource_name"} : Reset(o)[m] = Defaults[m]
  BY <1>1, <1>3 DEF Reset, With
<1> QED BY <1>2, <1>3, <1>4 DEF KeyOptions

LEMMA ParseKeyOptions ==
    ASSUME NEW text, IsText(text), NEW o, Record(o), KeyOptions(o)
    PROVE  KeyOptions(ParseArguments(o, text))
<1>1. Len(text) \in Nat
  BY DEF IsText
<1>2. PICK p : IsParse(p, o, text) /\ ParseArguments(o, text) = p[Len(text)]
  BY <1>1, ParseIsParse
<1> DEFINE A == {i \in Nat : i <= Len(text) => Record(p[i]) /\ KeyOptions(p[i])}
<1>3. \A i \in 0..Len(text) : p[i] = IF i = 0 THEN o ELSE Step(text, p[i - 1], i)
  BY <1>2 DEF IsParse
<1>4. 0 \in A
  BY <1>1, <1>3
<1>5. ASSUME NEW i \in Nat, i \in A PROVE i + 1 \in A
  <2> SUFFICES ASSUME i + 1 <= Len(text) PROVE Record(p[i + 1]) /\ KeyOptions(p[i + 1])
    OBVIOUS
  <2>1. Record(p[i]) /\ KeyOptions(p[i])
    BY <1>1, <1>5
  <2>2. i + 1 \in 0..Len(text) /\ i + 1 # 0 /\ (i + 1) - 1 = i /\ i + 1 \in 1..Len(text)
    BY <1>1
  <2>3. p[i + 1] = Step(text, p[i], i + 1)
    BY <1>3, <2>2
  <2>4. Values(FieldValues(FieldAt(text, i + 1)))
    BY <2>2, FieldIsText, FieldValuesTyped
  <2> QED BY <2>1, <2>3, <2>4, WithIsRecord, WithKeyOptions DEF Step
<1> HIDE DEF A
<1>6. \A i \in Nat : i >= 0 => i \in A
  BY <1>4, <1>5, InductionOnSet
<1>7. Len(text) \in A
  BY <1>1, <1>6
<1>8. KeyOptions(p[Len(text)])
  BY <1>1, <1>7 DEF A
<1> QED BY <1>2, <1>8

KeyInv == loads > 0 => KeyOptions(options)

LEMMA KeyInvNext ==
    SendInv /\ KeyInv /\ [ModuleNext]_moduleVars => KeyInv'
<1> SUFFICES ASSUME SendInv, KeyInv, [ModuleNext]_moduleVars PROVE KeyInv'
  OBVIOUS
<1>1. ASSUME NEW text \in Arguments, NEW b \in BrokerOptions, Load(text, b) PROVE KeyInv'
  <2>1. PICK before \in {options, Zeroed} : options' = ParseArguments(Reset(before), text)
    BY <1>1 DEF Load
  <2>2. Record(before)
    BY <2>1, ZeroedIsRecord DEF SendInv, LoadInv
  <2>3. Record(Reset(before)) /\ KeyOptions(Reset(before))
    BY <2>2, WithIsRecord, ResetKeyOptions DEF Reset
  <2>4. IsText(text)
    BY NebAssumption
  <2> QED BY <2>1, <2>3, <2>4, ParseKeyOptions DEF KeyInv
<1>2. ASSUME UNCHANGED <<loads, options>> PROVE KeyInv'
  BY <1>2 DEF KeyInv
<1>3. CASE Unload
  BY <1>2, <1>3 DEF Unload
<1>4. ASSUME NEW e \in Events, Event(e) PROVE KeyInv'
  BY <1>2, <1>4 DEF Event
<1>5. CASE UNCHANGED moduleVars
  BY <1>2, <1>5 DEF moduleVars
<1> QED BY <1>1, <1>3, <1>4, <1>5 DEF ModuleNext

-----------------------------------------------------------------------------
(* The recursion of Join.                                                  *)

Joined(parts, d, before, n) ==
    IF before = <<>> THEN parts[n] ELSE before \o d \o parts[n]

IsJoin(r, parts, d, last) ==
    r = [n \in 0..last |-> IF n = 0 THEN <<>> ELSE Joined(parts, d, r[n - 1], n)]

LEMMA JoinExists ==
    ASSUME NEW parts, NEW d, NEW last \in Nat
    PROVE  \E r : IsJoin(r, parts, d, last)
<1> DEFINE A == {n \in Nat : \E q : IsJoin(q, parts, d, n)}
<1>1. 0 \in A
  <2>1. IsJoin([n \in 0..0 |-> <<>>], parts, d, 0)
    BY DEF IsJoin
  <2> QED BY <2>1
<1>2. ASSUME NEW n \in Nat, n \in A PROVE n + 1 \in A
  <2>1. PICK q : IsJoin(q, parts, d, n)
    BY <1>2
  <2> DEFINE r == [i \in 0..n + 1 |-> IF i = n + 1 THEN Joined(parts, d, q[n], n + 1) ELSE q[i]]
  <2>2. \A i \in 0..n : q[i] = IF i = 0 THEN <<>> ELSE Joined(parts, d, q[i - 1], i)
    BY <2>1 DEF IsJoin
  <2>3. \A i \in 0..n + 1 : r[i] = IF i = 0 THEN <<>> ELSE Joined(parts, d, r[i - 1], i)
    <3> SUFFICES ASSUME NEW i \in 0..n + 1
                 PROVE  r[i] = IF i = 0 THEN <<>> ELSE Joined(parts, d, r[i - 1], i)
      OBVIOUS
    <3>1. CASE i = n + 1
      <4>1. r[i] = Joined(parts, d, q[n], n + 1) /\ i # 0 /\ i - 1 \in 0..n + 1 /\ i - 1 # n + 1 /\ i - 1 = n
        BY <3>1
      <4>2. r[i - 1] = q[n]
        BY <4>1
      <4> QED BY <3>1, <4>1, <4>2
    <3>2. CASE i # n + 1 /\ i # 0
      <4>1. i \in 0..n /\ i - 1 \in 0..n + 1 /\ i - 1 # n + 1
        BY <3>2
      <4>2. r[i] = q[i] /\ r[i - 1] = q[i - 1]
        BY <3>2, <4>1
      <4> QED BY <2>2, <3>2, <4>1, <4>2
    <3>3. CASE i = 0
      <4>1. r[i] = q[i] /\ i \in 0..n
        BY <3>3
      <4> QED BY <2>2, <3>3, <4>1
    <3> QED BY <3>1, <3>2, <3>3
  <2>4. IsJoin(r, parts, d, n + 1)
    BY <2>3 DEF IsJoin
  <2> HIDE DEF r
  <2>5. \E p : IsJoin(p, parts, d, n + 1)
    BY <2>4
  <2> QED BY <2>5
<1> HIDE DEF A
<1>3. \A n \in Nat : n >= 0 => n \in A
  BY <1>1, <1>2, InductionOnSet
<1>4. last \in A
  BY <1>3
<1> QED BY <1>4 DEF A

(* No part is NULL, so all are joined; the first is not empty, so the      *)
(* delimiter goes behind every part but the last.                          *)
LEMMA JoinParts ==
    ASSUME NEW parts, NEW d, Len(parts) \in Nat, \A n \in 1..Len(parts) : parts[n] # NullText
    PROVE  \E r : /\ Join(parts, d) = r[Len(parts)]
                  /\ IsJoin(r, parts, d, Len(parts))
<1> DEFINE last == Find(parts, NullText) - 1
           Good(r) == r = [n \in 0..last |-> IF n = 0 THEN <<>>
                                             ELSE IF r[n - 1] = <<>> THEN parts[n]
                                             ELSE r[n - 1] \o d \o parts[n]]
<1>1. last = Len(parts)
  BY FindPlace
<1> HIDE DEF last
<1>2. \A r : Good(r) <=> IsJoin(r, parts, d, last)
  BY DEF IsJoin, Joined
<1>3. Good(CHOOSE r : Good(r))
  <2>1. \E r : Good(r)
    BY <1>1, <1>2, JoinExists
  <2> HIDE DEF Good
  <2> QED BY <2>1
<1>4. Join(parts, d) = (CHOOSE r : Good(r))[last]
  BY DEF Join, last
<1> HIDE DEF Good
<1> QED BY <1>1, <1>2, <1>3, <1>4

(* k is s, then d, then t.                                                 *)
IsAfter(k, s, d, t) == /\ Len(k) = Len(s) + 1 + Len(t)
                       /\ \A i \in 1..Len(s) : k[i] = s[i]
                       /\ k[Len(s) + 1] = d
                       /\ \A i \in 1..Len(t) : k[Len(s) + 1 + i] = t[i]

LEMMA JoinedIsAfter ==
    ASSUME NEW S, NEW d \in S, NEW s \in Seq(S), NEW t \in Seq(S)
    PROVE  /\ s \o <<d>> \o t \in Seq(S)
           /\ IsAfter(s \o <<d>> \o t, s, d, t)
<1> DEFINE u == s \o <<d>>
           k == u \o t
<1>1. Len(s) \in Nat /\ Len(t) \in Nat /\ <<d>> \in Seq(S) /\ Len(<<d>>) = 1 /\ <<d>>[1] = d
  OBVIOUS
<1>2. /\ u \in Seq(S) /\ Len(u) = Len(s) + 1
      /\ \A i \in 1..Len(s) + 1 : u[i] = IF i <= Len(s) THEN s[i] ELSE <<d>>[i - Len(s)]
  BY <1>1, ConcatProperties
<1>3. (\A i \in 1..Len(s) : u[i] = s[i]) /\ u[Len(s) + 1] = d
  BY <1>1, <1>2
<1> HIDE DEF u
<1>4. /\ k \in Seq(S) /\ Len(k) = Len(u) + Len(t)
      /\ \A i \in 1..Len(u) + Len(t) : k[i] = IF i <= Len(u) THEN u[i] ELSE t[i - Len(u)]
  <2>1. u \in Seq(S)
    BY <1>2
  <2> QED BY <2>1, ConcatProperties
<1>5. /\ k \in Seq(S) /\ Len(k) = Len(s) + 1 + Len(t)
      /\ \A i \in 1..Len(s) + 1 + Len(t) :
            k[i] = IF i <= Len(s) + 1 THEN u[i] ELSE t[i - (Len(s) + 1)]
  BY <1>4, <1>2
<1> HIDE DEF k
<1>6. IsAfter(k, s, d, t)
  BY <1>1, <1>3, <1>5 DEF IsAfter
<1> QED BY <1>5, <1>6 DEF k, u

LEMMA JoinGrows ==
    ASSUME NEW S, NEW d \in S, NEW parts, Len(parts) \in Nat, Len(parts) >= 1,
           \A n \in 1..Len(parts) : parts[n] \in Seq(S),
           parts[1] # <<>>,
           NEW r, IsJoin(r, parts, <<d>>, Len(parts))
    PROVE  /\ r[1] = parts[1]
           /\ \A n \in 1..Len(parts) : r[n] \in Seq(S)
           /\ \A n \in 2..Len(parts) : IsAfter(r[n], r[n - 1], d, parts[n])
<1>1. ASSUME NEW n \in 1..Len(parts) PROVE r[n] = Joined(parts, <<d>>, r[n - 1], n)
  BY SMTT(20) DEF IsJoin
<1>2. r[0] = <<>>
  BY DEF IsJoin
<1>3. 1 \in 1..Len(parts)
  OBVIOUS
<1>4. r[1] = parts[1]
  <2>1. r[1] = Joined(parts, <<d>>, r[0], 1)
    BY <1>1, <1>3
  <2> QED BY <1>2, <2>1 DEF Joined
<1> DEFINE A == {n \in Nat : n <= Len(parts) =>
                                (/\ r[n] \in Seq(S) /\ r[n] # <<>>
                                 /\ n >= 2 => IsAfter(r[n], r[n - 1], d, parts[n]))}
<1>5. 1 \in A
  BY <1>3, <1>4
<1>6. ASSUME NEW n \in Nat, n >= 1, n \in A PROVE n + 1 \in A
  <2> SUFFICES ASSUME n + 1 <= Len(parts)
               PROVE  /\ r[n + 1] \in Seq(S) /\ r[n + 1] # <<>>
                      /\ IsAfter(r[n + 1], r[(n + 1) - 1], d, parts[n + 1])
    OBVIOUS
  <2>1. r[n] \in Seq(S) /\ r[n] # <<>>
    BY <1>6
  <2>2. n + 1 \in 1..Len(parts) /\ (n + 1) - 1 = n
    BY <1>6
  <2>3. r[n + 1] = r[n] \o <<d>> \o parts[n + 1]
    <3>1. r[n + 1] = Joined(parts, <<d>>, r[n], n + 1)
      BY <1>1, <2>2
    <3> QED BY <2>1, <3>1 DEF Joined
  <2>4. parts[n + 1] \in Seq(S)
    BY <2>2
  <2>5. r[n + 1] \in Seq(S) /\ IsAfter(r[n + 1], r[n], d, parts[n + 1])
    BY <2>1, <2>3, <2>4, JoinedIsAfter
  <2>6. r[n + 1] # <<>>
    <3>1. Len(r[n + 1]) = Len(r[n]) + 1 + Len(parts[n + 1])
      BY <2>5 DEF IsAfter
    <3>2. Len(r[n]) \in Nat /\ Len(parts[n + 1]) \in Nat
      BY <2>1, <2>4
    <3>3. \A a, b \in Nat : a + 1 + b # 0
      OBVIOUS
    <3>4. Len(r[n + 1]) # 0
      BY <3>1, <3>2, <3>3, Zenon
    <3>5. Len(<<>>) = 0
      OBVIOUS
    <3> QED BY <3>4, <3>5
  <2> QED BY <2>2, <2>5, <2>6
<1> HIDE DEF A
<1>7. \A n \in Nat : n >= 1 => n \in A
  BY <1>5, <1>6, InductionOnSet
<1>8. ASSUME NEW n \in 1..Len(parts)
      PROVE  /\ r[n] \in Seq(S)
             /\ n >= 2 => IsAfter(r[n], r[n - 1], d, parts[n])
  <2>1. n \in A
    BY <1>7
  <2> QED BY <2>1 DEF A
<1> QED BY <1>4, <1>8

-----------------------------------------------------------------------------
(* The key of an event: two parts from the options, the kind, the level,   *)
(* the host and the service, and where each of them stands.                *)

Kinds == {"check", "ack", "downtime"}

(* The length of what the options put in front.                            *)
PrefixLength == Len(options.connector) + 1 + Len(options.eventsource_name)

KeyIs(k, n, kind, e) ==
    LET h == Len(e.host)
    IN  /\ Len(k) = n + 5 + h + IF e.level = "resource" THEN 1 + Len(e.service) ELSE 0
        /\ k[n + 2] = kind /\ k[n + 4] = e.level
        /\ \A i \in 1..h : k[n + 5 + i] = e.host[i]
        /\ e.level = "resource" =>
              /\ k[n + 6 + h] = "."
              /\ \A i \in 1..Len(e.service) : k[n + 6 + h + i] = e.service[i]

LEMMA FiveAndMore ==
    ASSUME NEW S, NEW p1 \in S, NEW p2 \in S, NEW p3 \in S, NEW p4 \in S, NEW p5 \in S,
           NEW more \in Seq(S),
           NEW parts, parts = <<p1, p2, p3, p4, p5>> \o more
    PROVE  /\ Len(parts) = 5 + Len(more) /\ Len(more) \in Nat
           /\ parts[1] = p1 /\ parts[2] = p2 /\ parts[3] = p3 /\ parts[4] = p4 /\ parts[5] = p5
           /\ \A i \in 1..Len(more) : parts[5 + i] = more[i]
           /\ parts \in Seq(S)
<1> DEFINE five == <<p1, p2, p3, p4, p5>>
<1>1. /\ five \in Seq(S) /\ Len(five) = 5
      /\ five[1] = p1 /\ five[2] = p2 /\ five[3] = p3 /\ five[4] = p4 /\ five[5] = p5
  OBVIOUS
<1> HIDE DEF five
<1>2. /\ five \o more \in Seq(S) /\ Len(five \o more) = 5 + Len(more) /\ Len(more) \in Nat
      /\ \A i \in 1..5 + Len(more) :
            (five \o more)[i] = IF i <= 5 THEN five[i] ELSE more[i - 5]
  <2>1. /\ five \o more \in Seq(S) /\ Len(five \o more) = Len(five) + Len(more)
        /\ \A i \in 1..Len(five) + Len(more) :
              (five \o more)[i] = IF i <= Len(five) THEN five[i] ELSE more[i - Len(five)]
    BY <1>1, ConcatProperties
  <2>2. Len(more) \in Nat
    OBVIOUS
  <2> QED BY <1>1, <2>1, <2>2
<1>3. parts = five \o more
  BY DEF five
<1>4. \A i \in 1..5 : parts[i] = five[i]
  BY <1>2, <1>3
<1>5. \A i \in 1..Len(more) : parts[5 + i] = more[i]
  <2> SUFFICES ASSUME NEW i \in 1..Len(more) PROVE parts[5 + i] = more[i]
    OBVIOUS
  <2>1. 5 + i \in 1..5 + Len(more) /\ ~(5 + i <= 5) /\ (5 + i) - 5 = i
    BY <1>2
  <2> QED BY <1>2, <1>3, <2>1
<1>6. 1 \in 1..5 /\ 2 \in 1..5 /\ 3 \in 1..5 /\ 4 \in 1..5 /\ 5 \in 1..5
  OBVIOUS
<1>7. parts[1] = p1 /\ parts[2] = p2 /\ parts[3] = p3 /\ parts[4] = p4 /\ parts[5] = p5
  BY <1>1, <1>4, <1>6
<1> QED BY <1>2, <1>3, <1>5, <1>7

(* The symbols of the texts of a key.                                      *)
LEMMA KeySymbols ==
    ASSUME KeyOptions(options), NEW e \in Called, NEW kind \in Kinds
    PROVE  \E S : /\ "NULL" \notin S /\ "." \in S
                  /\ options.connector \in Seq(S) /\ options.eventsource_name \in Seq(S)
                  /\ <<kind>> \in Seq(S) /\ <<e.level>> \in Seq(S)
                  /\ e.host \in Seq(S)
                  /\ e.level = "resource" => e.service \in Seq(S)
<1>1. \A A, B : \A t \in Seq(A) : t \in Seq(A \cup B)
  OBVIOUS
<1>2. PICK A : options.connector \in Seq(A) /\ "NULL" \notin A
  BY TextIs DEF KeyOptions
<1>3. PICK B : options.eventsource_name \in Seq(B) /\ "NULL" \notin B
  BY TextIs DEF KeyOptions
<1>4. PICK C : e.host \in Seq(C) /\ "NULL" \notin C
  BY NebAssumption, TextIs DEF Called
<1>5. \E D : (e.level = "resource" => e.service \in Seq(D)) /\ "NULL" \notin D
  <2>1. CASE e.level = "resource"
    BY <2>1, NebAssumption, TextIs DEF Called
  <2>2. CASE e.level # "resource"
    <3>1. "NULL" \notin {}
      OBVIOUS
    <3> QED BY <2>2, <3>1
  <2> QED BY <2>1, <2>2
<1>6. PICK D : (e.level = "resource" => e.service \in Seq(D)) /\ "NULL" \notin D
  BY <1>5
<1> DEFINE F == {".", kind, e.level}
           S == (((A \cup B) \cup C) \cup D) \cup F
<1>7. "NULL" \notin F
  BY NebAssumption DEF Kinds, Called
<1>8. "NULL" \notin S /\ "." \in S
  BY <1>2, <1>3, <1>4, <1>6, <1>7
<1>9. <<kind>> \in Seq(S) /\ <<e.level>> \in Seq(S)
  OBVIOUS
<1>10. /\ S = A \cup (B \cup C \cup D \cup F)
       /\ S = B \cup (A \cup C \cup D \cup F)
       /\ S = C \cup (A \cup B \cup D \cup F)
       /\ S = D \cup (A \cup B \cup C \cup F)
  OBVIOUS
<1> HIDE DEF S, F
<1>11. /\ options.connector \in Seq(S) /\ options.eventsource_name \in Seq(S)
       /\ e.host \in Seq(S)
       /\ e.level = "resource" => e.service \in Seq(S)
  BY <1>1, <1>2, <1>3, <1>4, <1>6, <1>10, Zenon
<1> QED BY <1>8, <1>9, <1>11

(* The same by the lengths of s and t.                                     *)
IsAfterAt(k, s, d, t, a, b) == /\ Len(k) = a + 1 + b
                               /\ \A i \in 1..a : k[i] = s[i]
                               /\ k[a + 1] = d
                               /\ \A i \in 1..b : k[a + 1 + i] = t[i]

LEMMA AfterAt ==
    ASSUME NEW k, NEW s, NEW d, NEW t, NEW a, NEW b,
           IsAfter(k, s, d, t), Len(s) = a, Len(t) = b
    PROVE  IsAfterAt(k, s, d, t, a, b)
BY DEF IsAfter, IsAfterAt

LEMMA KeyForm ==
    ASSUME KeyOptions(options), NEW e \in Called, NEW kind \in Kinds
    PROVE  /\ \E S : FullKey(kind, e) \in Seq(S)
           /\ KeyIs(FullKey(kind, e), PrefixLength, kind, e)
<1>1. PICK S : /\ "NULL" \notin S /\ "." \in S
               /\ options.connector \in Seq(S) /\ options.eventsource_name \in Seq(S)
               /\ <<kind>> \in Seq(S) /\ <<e.level>> \in Seq(S)
               /\ e.host \in Seq(S)
               /\ e.level = "resource" => e.service \in Seq(S)
  BY KeySymbols
<1> DEFINE parts == Parts(kind, e)
           more == IF e.level = "resource" THEN <<e.service>> ELSE <<>>
           k == FullKey(kind, e)
           n == PrefixLength
           h == Len(e.host)
<1>2. more \in Seq(Seq(S))
  BY <1>1
<1>3. parts = <<options.connector, options.eventsource_name, <<kind>>, <<e.level>>, e.host>> \o more
  BY DEF Parts
<1> HIDE DEF parts, more, n
<1>4. /\ Len(parts) = 5 + Len(more) /\ Len(more) \in Nat
      /\ parts[1] = options.connector /\ parts[2] = options.eventsource_name
      /\ parts[3] = <<kind>> /\ parts[4] = <<e.level>> /\ parts[5] = e.host
      /\ \A i \in 1..Len(more) : parts[5 + i] = more[i]
      /\ parts \in Seq(Seq(S))
  BY <1>1, <1>2, <1>3, FiveAndMore
<1>5. /\ Len(parts) \in Nat /\ Len(parts) >= 5
      /\ \A i \in 1..Len(parts) : parts[i] \in Seq(S)
  BY <1>4
<1>6. \A i \in 1..Len(parts) : parts[i] # NullText
  <2>1. NullText \notin Seq(S)
    <3>1. Len(NullText) = 1 /\ NullText[1] = "NULL"
      BY DEF NullText
    <3>2. \A t \in Seq(S) : Len(t) = 1 => t[1] \in S
      OBVIOUS
    <3> QED BY <1>1, <3>1, <3>2
  <2> QED BY <1>5, <2>1
<1>7. PICK r : Join(parts, <<".">>) = r[Len(parts)] /\ IsJoin(r, parts, <<".">>, Len(parts))
  BY <1>5, <1>6, JoinParts
<1>8. k = r[Len(parts)]
  BY <1>7 DEF FullKey, parts
<1>9. parts[1] # <<>>
  BY <1>4 DEF KeyOptions
<1>10. /\ r[1] = parts[1]
       /\ \A i \in 1..Len(parts) : r[i] \in Seq(S)
       /\ \A i \in 2..Len(parts) : IsAfter(r[i], r[i - 1], ".", parts[i])
  BY <1>1, <1>5, <1>7, <1>9, JoinGrows, SMTT(20)
<1>11. /\ IsAfter(r[2], r[1], ".", parts[2]) /\ IsAfter(r[3], r[2], ".", parts[3])
       /\ IsAfter(r[4], r[3], ".", parts[4]) /\ IsAfter(r[5], r[4], ".", parts[5])
  <2>1. /\ 2 \in 2..Len(parts) /\ 3 \in 2..Len(parts) /\ 4 \in 2..Len(parts) /\ 5 \in 2..Len(parts)
        /\ 2 - 1 = 1 /\ 3 - 1 = 2 /\ 4 - 1 = 3 /\ 5 - 1 = 4
    BY <1>5
  <2> QED BY <1>10, <2>1
<1>12. h \in Nat
  BY <1>1
<1> HIDE DEF h
<1>13. n \in Nat
  <2>1. Len(options.connector) \in Nat
    BY <1>1
  <2>2. Len(options.eventsource_name) \in Nat
    BY <1>1
  <2>3. \A a, b \in Nat : a + 1 + b \in Nat
    OBVIOUS
  <2> QED BY <2>1, <2>2, <2>3, Zenon DEF n, PrefixLength
<1>14. Len(r[2]) = n
  <2>1. Len(r[2]) = Len(r[1]) + 1 + Len(parts[2])
    BY <1>11 DEF IsAfter
  <2> QED BY <1>4, <1>10, <2>1, Zenon DEF n, PrefixLength
<1>15. Len(r[3]) = n + 2 /\ r[3][n + 2] = kind
  <2>1. Len(parts[3]) = 1 /\ parts[3][1] = kind /\ 1 \in 1..1
    BY <1>4
  <2>2. Len(r[3]) = n + 1 + 1 /\ \A i \in 1..1 : r[3][n + 1 + i] = parts[3][i]
    <3>1. IsAfterAt(r[3], r[2], ".", parts[3], n, 1)
      BY <1>11, <1>14, <2>1, AfterAt
    <3> QED BY <3>1 DEF IsAfterAt
  <2>3. n + 1 + 1 = n + 2
    BY <1>13
  <2> QED BY <2>1, <2>2, <2>3
<1>16. Len(r[4]) = n + 4 /\ r[4][n + 2] = kind /\ r[4][n + 4] = e.level
  <2>1. Len(parts[4]) = 1 /\ parts[4][1] = e.level /\ 1 \in 1..1
    BY <1>4
  <2>2. n + 2 \in Nat /\ n + 2 \in 1..n + 2 /\ n + 2 + 1 + 1 = n + 4
    BY <1>13
  <2>3. /\ Len(r[4]) = n + 2 + 1 + 1 /\ \A i \in 1..n + 2 : r[4][i] = r[3][i]
        /\ \A i \in 1..1 : r[4][n + 2 + 1 + i] = parts[4][i]
    <3>1. IsAfterAt(r[4], r[3], ".", parts[4], n + 2, 1)
      BY <1>11, <1>15, <2>1, AfterAt
    <3> QED BY <3>1 DEF IsAfterAt
  <2> QED BY <1>15, <2>1, <2>2, <2>3
<1>17. /\ Len(r[5]) = n + 5 + h /\ r[5][n + 2] = kind /\ r[5][n + 4] = e.level
       /\ \A i \in 1..h : r[5][n + 5 + i] = e.host[i]
  <2>1. n + 4 \in Nat /\ n + 2 \in 1..n + 4 /\ n + 4 \in 1..n + 4
    BY <1>13
  <2>2. Len(parts[5]) = h
    BY <1>4 DEF h
  <2>3. /\ Len(r[5]) = n + 4 + 1 + h /\ \A i \in 1..n + 4 : r[5][i] = r[4][i]
        /\ \A i \in 1..h : r[5][n + 4 + 1 + i] = parts[5][i]
    <3>1. IsAfterAt(r[5], r[4], ".", parts[5], n + 4, h)
      BY <1>11, <1>16, <2>2, AfterAt
    <3> QED BY <3>1 DEF IsAfterAt
  <2>4. n + 4 + 1 + h = n + 5 + h /\ \A i \in 1..h : n + 4 + 1 + i = n + 5 + i
    BY <1>12, <1>13
  <2> QED BY <1>4, <1>16, <2>1, <2>3, <2>4
<1> HIDE DEF k
<1>18. CASE e.level # "resource"
  <2>1. Len(parts) = 5
    BY <1>4, <1>18 DEF more
  <2>2. k = r[5] /\ k \in Seq(S)
    BY <1>8, <1>10, <2>1
  <2>3. KeyIs(k, n, kind, e)
    <3>1. n + 5 + h + 0 = n + 5 + h
      BY <1>12, <1>13
    <3> QED BY <1>17, <1>18, <2>2, <3>1 DEF KeyIs, h
  <2> QED BY <2>2, <2>3 DEF k, n
<1>19. CASE e.level = "resource"
  <2> DEFINE c == Len(e.service)
  <2>1. Len(parts) = 6 /\ parts[6] = e.service
    BY <1>4, <1>19 DEF more
  <2>2. IsAfter(r[6], r[5], ".", parts[6])
    <3>1. 6 \in 2..Len(parts) /\ 6 - 1 = 5
      BY <2>1
    <3> QED BY <1>10, <3>1
  <2>3. c \in Nat /\ Len(parts[6]) = c
    BY <1>1, <1>19, <2>1
  <2> HIDE DEF c
  <2>4. n + 5 + h \in Nat
    BY <1>12, <1>13
  <2>5. /\ Len(r[6]) = n + 5 + h + 1 + c
        /\ r[6][n + 5 + h + 1] = "."
        /\ \A i \in 1..n + 5 + h : r[6][i] = r[5][i]
        /\ \A i \in 1..c : r[6][n + 5 + h + 1 + i] = parts[6][i]
    <3>1. IsAfterAt(r[6], r[5], ".", parts[6], n + 5 + h, c)
      BY <1>17, <2>2, <2>3, AfterAt
    <3> QED BY <3>1 DEF IsAfterAt
  <2>6. /\ n + 2 \in 1..n + 5 + h /\ n + 4 \in 1..n + 5 + h
        /\ \A i \in 1..h : n + 5 + i \in 1..n + 5 + h
    BY <1>12, <1>13
  <2>7. /\ n + 5 + h + 1 = n + 6 + h
        /\ n + 5 + h + 1 + c = n + 5 + h + (1 + c)
        /\ \A i \in 1..c : n + 5 + h + 1 + i = n + 6 + h + i
    BY <1>12, <1>13, <2>3
  <2>8. k = r[6] /\ k \in Seq(S)
    BY <1>8, <1>10, <2>1
  <2>9. /\ Len(k) = n + 5 + h + (1 + c)
        /\ k[n + 2] = kind /\ k[n + 4] = e.level
        /\ \A i \in 1..h : k[n + 5 + i] = e.host[i]
        /\ k[n + 6 + h] = "."
        /\ \A i \in 1..c : k[n + 6 + h + i] = e.service[i]
    BY <1>17, <2>1, <2>5, <2>6, <2>7, <2>8
  <2>10. KeyIs(k, n, kind, e)
    BY <1>19, <2>9 DEF KeyIs, h, c
  <2> QED BY <2>8, <2>10 DEF k, n
<1> QED BY <1>18, <1>19

-----------------------------------------------------------------------------
(* What was sent.                                                          *)

LEMMA SentIsMessage ==
    ASSUME SendInv, NEW i \in DOMAIN messages
    PROVE  /\ loads > 0
           /\ messages[i].event \in Called
           /\ messages[i] = MessageOf(messages[i].event)
<1>1. messages \in Seq(Outgoing) /\ Len(messages) \in Nat /\ i \in 1..Len(messages)
  BY DEF SendInv
<1>2. messages[i] \in Outgoing
  BY <1>1
<1>3. PICK e \in Called : messages[i] = MessageOf(e)
  BY <1>2 DEF Outgoing
<1>4. messages[i].event = e
  BY <1>3 DEF MessageOf, EventMessage
<1>5. ASSUME loads = 0 PROVE FALSE
  <2>1. UpTo(Places, Len(given)) = {}
    BY <1>5 DEF UpTo, Places, SendInv
  <2>2. Len(messages) = 0
    BY <2>1, FS_EmptySet DEF SendInv, Count
  <2> QED BY <1>1, <2>2
<1>6. loads > 0
  BY <1>5 DEF SendInv, LoadInv
<1> QED BY <1>3, <1>4, <1>6

LEMMA CutKey ==
    ASSUME KeyOptions(options), NEW S, NEW key \in Seq(S)
    PROVE  /\ Len(key) <= options.max_size \/ options.max_size < 0 => Shortened(key) = key
           /\ ~(Len(key) <= options.max_size \/ options.max_size < 0) =>
                 Len(Shortened(key)) = options.max_size /\ IsStrictPrefix(Shortened(key), key)
<1> DEFINE max == options.max_size
<1>1. max \in Int /\ Len(key) \in Nat
  BY DEF KeyOptions
<1>2. ASSUME Len(key) <= max \/ max < 0 PROVE Shortened(key) = key
  BY <1>2 DEF Shortened
<1>3. ASSUME ~(Len(key) <= max \/ max < 0)
      PROVE  Len(Shortened(key)) = max /\ IsStrictPrefix(Shortened(key), key)
  <2> DEFINE s == SubSeq(key, 1, max)
  <2>1. Shortened(key) = s
    BY <1>3 DEF Shortened
  <2> HIDE DEF max
  <2>2. max \in Nat /\ max < Len(key)
    BY <1>1, <1>3
  <2>3. \A i \in 1..max : key[i] \in S
    BY <1>1, <2>2
  <2>4. /\ s \in Seq(S) /\ Len(s) = max
    <3>1. s \in Seq(S) /\ Len(s) = IF 1 <= max THEN max - 1 + 1 ELSE 0
      BY <1>1, <2>2, <2>3, SubSeqProperties
    <3> QED BY <2>2, <3>1
  <2>5. SubSeq(s, 1, Len(s)) = s
    BY <2>4, SubSeqFull
  <2>6. s # key
    BY <2>2, <2>4
  <2>7. IsStrictPrefix(s, key)
    BY <2>2, <2>4, <2>5, <2>6 DEF IsStrictPrefix, IsPrefix
  <2> QED BY <2>1, <2>4, <2>7
<1> QED BY <1>2, <1>3 DEF max

SameObject(a, b) == /\ a.level = b.level /\ a.host = b.host
                    /\ a.level = "resource" => a.service = b.service

(***************************************************************************)
(* RefersToCheck for all objects, names and sizes: what ref_rk names is    *)
(* the key of the checks before it is cut.                                 *)
(***************************************************************************)
THEOREM Refers == ModuleSpec => []RefersToCheck
<1>1. SendInv /\ KeyInv => RefersToCheck
  <2> SUFFICES ASSUME SendInv, KeyInv, NEW i \in DOMAIN messages, NEW j \in DOMAIN messages,
                      messages[i].event.cb = "acknowledgement",
                      messages[j].event.cb \in {"service_check", "host_check"},
                      SameObject(messages[i].event, messages[j].event)
               PROVE  IF Len(messages[i].ref.key) <= options.max_size \/ options.max_size < 0
                      THEN messages[i].ref.key = messages[j].key
                      ELSE IsStrictPrefix(messages[j].key, messages[i].ref.key)
    BY DEF RefersToCheck, SameObject
  <2> DEFINE a == messages[i].event
             c == messages[j].event
             key == FullKey("check", c)
  <2>1. /\ loads > 0 /\ a \in Called /\ c \in Called
        /\ messages[i] = MessageOf(a) /\ messages[j] = MessageOf(c)
    BY SentIsMessage
  <2>2. KeyOptions(options)
    BY <2>1 DEF KeyInv
  <2>3. FullKey("check", a) = key
    BY DEF FullKey, Parts, SameObject
  <2>4. messages[i].ref.key = key
    <3>1. messages[i].ref = Referer(a)
      BY <2>1 DEF MessageOf, EventMessage
    <3> QED BY <2>3, <3>1 DEF Referer
  <2>5. messages[j].key = Shortened(key)
    <3>1. KindOf(c) = "check"
      BY DEF KindOf, Checks
    <3> QED BY <2>1, <3>1 DEF MessageOf, EventMessage
  <2>6. \E S : key \in Seq(S)
    <3>1. "check" \in Kinds
      BY DEF Kinds
    <3> QED BY <2>1, <2>2, <3>1, KeyForm
  <2> HIDE DEF key
  <2> QED BY <2>2, <2>4, <2>5, <2>6, CutKey
<1>2. ModuleSpec => []SendInv
  BY CallbacksInvariance
<1>3. ModuleInit => KeyInv
  BY DEF ModuleInit, KeyInv
<1>4. SendInv /\ KeyInv /\ [ModuleNext]_moduleVars => KeyInv'
  BY KeyInvNext
<1> QED BY <1>1, <1>2, <1>3, <1>4, PTL DEF ModuleSpec

-----------------------------------------------------------------------------
(* Keys.                                                                   *)

LEMMA SameText ==
    ASSUME NEW s, NEW t, IsText(s), IsText(t), Len(s) = Len(t),
           \A i \in 1..Len(s) : s[i] = t[i]
    PROVE  s = t
<1>1. s = [i \in 1..Len(s) |-> s[i]] /\ t = [i \in 1..Len(t) |-> t[i]]
  BY DEF IsText
<1> QED BY <1>1

(* Two objects with one key: a host without a dot ends at the first dot    *)
(* that follows it.                                                        *)
LEMMA KeyTells ==
    ASSUME NEW n \in Nat, NEW k, NEW a, NEW b, NEW x, NEW y,
           KeyIs(k, n, x, a), KeyIs(k, n, y, b),
           IsText(a.host), IsText(b.host),
           a.level = "resource" => IsText(a.service),
           b.level = "resource" => IsText(b.service),
           \A i \in 1..Len(a.host) : a.host[i] # ".",
           \A i \in 1..Len(b.host) : b.host[i] # "."
    PROVE  x = y /\ SameObject(a, b)
<1>1. x = y /\ a.level = b.level
  BY DEF KeyIs
<1> DEFINE ha == Len(a.host)
           hb == Len(b.host)
           sa == Len(a.service)
           sb == Len(b.service)
<1>2. ha \in Nat /\ hb \in Nat
  BY DEF IsText
<1>3. (a.level = "resource" => sa \in Nat) /\ (b.level = "resource" => sb \in Nat)
  BY DEF IsText
<1>4. /\ Len(k) = n + 5 + ha + IF a.level = "resource" THEN 1 + sa ELSE 0
      /\ \A i \in 1..ha : k[n + 5 + i] = a.host[i]
      /\ a.level = "resource" => /\ k[n + 6 + ha] = "."
                                 /\ \A i \in 1..sa : k[n + 6 + ha + i] = a.service[i]
  BY DEF KeyIs
<1>5. /\ Len(k) = n + 5 + hb + IF b.level = "resource" THEN 1 + sb ELSE 0
      /\ \A i \in 1..hb : k[n + 5 + i] = b.host[i]
      /\ b.level = "resource" => /\ k[n + 6 + hb] = "."
                                 /\ \A i \in 1..sb : k[n + 6 + hb + i] = b.service[i]
  BY DEF KeyIs
<1>6. (\A i \in 1..ha : a.host[i] # ".") /\ (\A i \in 1..hb : b.host[i] # ".")
  OBVIOUS
<1> HIDE DEF ha, hb, sa, sb
<1>7. ha = hb
  <2>1. CASE a.level = "resource"
    <3>1. k[n + 6 + ha] = "." /\ k[n + 6 + hb] = "."
      BY <1>1, <1>4, <1>5, <2>1
    <3>2. /\ \A i \in 1..ha : k[n + 5 + i] = a.host[i] /\ a.host[i] # "."
          /\ \A i \in 1..hb : k[n + 5 + i] = b.host[i] /\ b.host[i] # "."
      BY <1>4, <1>5, <1>6
    <3>3. ASSUME NEW u \in Nat, NEW v \in Nat, NEW host, k[n + 6 + u] = ".",
                 \A i \in 1..v : k[n + 5 + i] = host[i] /\ host[i] # "."
          PROVE  v <= u
      <4> SUFFICES ASSUME u + 1 \in 1..v PROVE FALSE
        OBVIOUS
      <4>1. n + 5 + (u + 1) = n + 6 + u
        OBVIOUS
      <4> QED BY <3>3, <4>1
    <3>4. hb <= ha
      BY <1>2, <3>1, <3>2, <3>3
    <3>5. ha <= hb
      BY <1>2, <3>1, <3>2, <3>3
    <3> QED BY <1>2, <3>4, <3>5
  <2>2. CASE a.level # "resource"
    <3>1. Len(k) = n + 5 + ha + 0 /\ Len(k) = n + 5 + hb + 0
      BY <1>1, <1>4, <1>5, <2>2
    <3> QED BY <1>2, <3>1
  <2> QED BY <2>1, <2>2
<1>8. a.host = b.host
  <2>1. \A i \in 1..ha : a.host[i] = b.host[i]
    BY <1>4, <1>5, <1>7
  <2> QED BY <1>7, <2>1, SameText DEF ha, hb
<1>9. ASSUME a.level = "resource" PROVE a.service = b.service
  <2>1. sa \in Nat /\ sb \in Nat /\ b.level = "resource"
    BY <1>1, <1>3, <1>9
  <2>2. Len(k) = n + 5 + ha + (1 + sa) /\ Len(k) = n + 5 + hb + (1 + sb)
    BY <1>4, <1>5, <1>9, <2>1
  <2>3. sa = sb
    BY <1>2, <1>7, <2>1, <2>2
  <2>4. \A i \in 1..sa : a.service[i] = b.service[i]
    BY <1>4, <1>5, <1>7, <1>9, <2>1, <2>3
  <2> QED BY <1>9, <2>1, <2>3, <2>4, SameText DEF sa, sb
<1> QED BY <1>1, <1>8, <1>9 DEF SameObject

(***************************************************************************)
(* KeyTellsObject for all objects, names and sizes.                        *)
(***************************************************************************)
THEOREM KeysTell == ModuleSpec => []KeyTellsObject
<1>1. SendInv /\ KeyInv => KeyTellsObject
  <2> SUFFICES ASSUME SendInv, KeyInv, NEW i \in DOMAIN messages, NEW j \in DOMAIN messages,
                      messages[i].key = messages[j].key,
                      \A m \in {i, j} : Uncut(messages[m]) /\ Plain(messages[m].event)
               PROVE  SameObject(messages[i].event, messages[j].event) /\ messages[i].event.cb = messages[j].event.cb
    BY DEF KeyTellsObject, SameObject
  <2> DEFINE a == messages[i].event
             b == messages[j].event
             key(e) == FullKey(KindOf(e), e)
  <2>1. loads > 0 /\ a \in Called /\ b \in Called
    BY SentIsMessage
  <2>2. KeyOptions(options)
    BY <2>1 DEF KeyInv
  <2>3. KindOf(a) \in Kinds /\ KindOf(b) \in Kinds
    BY DEF KindOf, Kinds
  <2>4. ASSUME NEW m \in {i, j}
        PROVE  /\ messages[m].key = key(messages[m].event)
               /\ KeyIs(key(messages[m].event), PrefixLength, KindOf(messages[m].event), messages[m].event)
    <3> DEFINE e == messages[m].event
    <3>1. e \in Called /\ KindOf(e) \in Kinds /\ messages[m] = MessageOf(e)
      BY <2>3, SentIsMessage
    <3>2. (\E S : key(e) \in Seq(S)) /\ KeyIs(key(e), PrefixLength, KindOf(e), e)
      BY <2>2, <3>1, KeyForm
    <3>3. messages[m].key = Shortened(key(e))
      BY <3>1 DEF MessageOf, EventMessage
    <3>4. Uncut(messages[m])
      OBVIOUS
    <3> HIDE DEF key
    <3>5. Shortened(key(e)) = key(e)
      <4>1. /\ Len(key(e)) <= options.max_size \/ options.max_size < 0 => Shortened(key(e)) = key(e)
            /\ ~(Len(key(e)) <= options.max_size \/ options.max_size < 0)
                  => Len(Shortened(key(e))) = options.max_size
        BY <2>2, <3>2, CutKey
      <4>2. options.max_size < 0 \/ Len(Shortened(key(e))) < options.max_size
        BY <3>3, <3>4 DEF Uncut
      <4>3. options.max_size \in Int
        BY <2>2 DEF KeyOptions
      <4> QED BY <4>1, <4>2, <4>3
    <3> QED BY <3>2, <3>3, <3>5
  <2>5. /\ KeyIs(key(a), PrefixLength, KindOf(a), a)
        /\ KeyIs(key(a), PrefixLength, KindOf(b), b)
    BY <2>4
  <2>6. PrefixLength \in Nat
    <3>1. Len(options.connector) \in Nat
      BY <2>2 DEF KeyOptions, IsText
    <3>2. Len(options.eventsource_name) \in Nat
      BY <2>2 DEF KeyOptions, IsText
    <3>3. \A x, y \in Nat : x + 1 + y \in Nat
      OBVIOUS
    <3> QED BY <3>1, <3>2, <3>3, Zenon DEF PrefixLength
  <2>7. ASSUME NEW e \in Called, Plain(e)
        PROVE  /\ IsText(e.host) /\ (e.level = "resource" => IsText(e.service))
               /\ \A m \in 1..Len(e.host) : e.host[m] # "."
    <3>1. IsText(e.host) /\ (e.level = "resource" => IsText(e.service))
      BY NebAssumption DEF Called
    <3>2. DOMAIN e.host = 1..Len(e.host)
      BY <3>1 DEF IsText
    <3> QED BY <2>7, <3>1, <3>2 DEF Plain
  <2>8. KindOf(a) = KindOf(b) /\ SameObject(a, b)
    <3>1. Plain(a) /\ Plain(b)
      OBVIOUS
    <3> HIDE DEF a, b, key
    <3> QED BY <2>1, <2>5, <2>6, <2>7, <3>1, KeyTells
  <2>9. a.cb = b.cb
    <3>1. /\ a.cb = "service_check" => a.level = "resource"
          /\ a.cb = "host_check" => a.level = "component"
          /\ b.cb = "service_check" => b.level = "resource"
          /\ b.cb = "host_check" => b.level = "component"
          /\ a.cb \in Callback /\ b.cb \in Callback
      BY <2>1, NebAssumption DEF Called
    <3>2. a.level = b.level
      BY <2>8 DEF SameObject
    <3> HIDE DEF a, b
    <3> QED BY <2>8, <3>1, <3>2 DEF KindOf, Callback, Checks
  <2> QED BY <2>8, <2>9
<1>2. ModuleSpec => []SendInv
  BY CallbacksInvariance
<1>3. ModuleInit => KeyInv
  BY DEF ModuleInit, KeyInv
<1>4. SendInv /\ KeyInv /\ [ModuleNext]_moduleVars => KeyInv'
  BY KeyInvNext
<1> QED BY <1>1, <1>2, <1>3, <1>4, PTL DEF ModuleSpec
=============================================================================
