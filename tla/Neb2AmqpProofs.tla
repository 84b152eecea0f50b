--------------------------- MODULE Neb2AmqpProofs ---------------------------
(***************************************************************************)
(* Theorems about the agent, for every value of its constants: AgentInv is *)
(* an inductive invariant, the safety properties of module Neb2Amqp follow *)
(* from it, and with its history the agent implements module Relay, keeps  *)
(* the order of the events and loses none before a mishap.                 *)
(***************************************************************************)
EXTENDS Neb2AmqpHist, SequenceTheorems, TLAPS

-----------------------------------------------------------------------------
(* Facts about the constants.                                              *)

LEMMA FlushCountType == FlushCount \in Nat
BY FifoAssumption, AgentAssumption DEF FlushCount

LEMMA LimitType == \A o \in Int : Limit(o) \in Nat
BY DEF Limit

LEMMA OlderType == \A o \in Int : \A a \in 0..Limit(o) : Older(a, o) \in 0..Limit(o)
BY DEF Limit, Older

-----------------------------------------------------------------------------
(* Facts about the queue.                                                  *)

LEMMA EmptyFacts == <<>> \in Seq(Event) /\ <<>> \in Seq(Entry) /\ Len(<<>>) = 0
OBVIOUS

LEMMA ShiftFacts ==
    ASSUME NEW q \in Seq(Entry), q # <<>>
    PROVE  /\ Head(q) \in Entry
           /\ Shift(q) \in Seq(Entry)
           /\ Len(Shift(q)) = Len(q) - 1
BY DEF Shift

(* n2a_push keeps the queue within its capacity and leaves it not empty.   *)
LEMMA PushFacts ==
    ASSUME NEW q \in Seq(Entry), Len(q) <= CacheSize, NEW e \in Entry
    PROVE  /\ Push(q, e) \in Seq(Entry)
           /\ Len(Push(q, e)) <= CacheSize
           /\ Push(q, e) # <<>>
<1>1. CASE Full(q)
  <2>1. q # <<>> /\ Len(q) = CacheSize
    BY <1>1, FifoAssumption DEF Full
  <2>2. Shift(q) \in Seq(Entry) /\ Len(Shift(q)) = CacheSize - 1
    BY <2>1, ShiftFacts
  <2> QED BY <1>1, <2>2, FifoAssumption DEF Push
<1>2. CASE ~Full(q)
  <2>1. Len(q) < CacheSize
    BY <1>2, FifoAssumption DEF Full
  <2>2. Push(q, e) = Append(q, e)
    BY <1>2 DEF Push
  <2>3. Append(q, e) \in Seq(Entry) /\ Len(Append(q, e)) = Len(q) + 1
    OBVIOUS
  <2> QED BY <2>1, <2>2, <2>3, FifoAssumption
<1> QED BY <1>1, <1>2

(* With room for it, n2a_prepend puts an event first and drops none.       *)
LEMMA PrependFacts ==
    ASSUME NEW q \in Seq(Entry), Len(q) < CacheSize, NEW e \in Entry
    PROVE  /\ Prepend(q, e) = <<e>> \o q
           /\ Prepend(q, e) \in Seq(Entry)
           /\ Len(Prepend(q, e)) = Len(q) + 1
           /\ Prepend(q, e) # <<>>
BY FifoAssumption DEF Prepend, Full

LEMMA LoadedFacts ==
    ASSUME NEW f \in Seq(Entry)
    PROVE  /\ Loaded(f) \in Seq(Entry)
           /\ Len(Loaded(f)) <= CacheSize
<1> DEFINE read == Append(f, Bogus)
           skip == IF Len(read) > CacheSize THEN Len(read) - CacheSize ELSE 0
<1>1. read \in Seq(Entry) /\ Len(read) = Len(f) + 1
  BY DEF Entry
<1>2. skip \in Nat /\ skip < Len(read) /\ Len(read) - skip <= CacheSize
  BY FifoAssumption
<1>3. Loaded(f) = SubSeq(read, skip + 1, Len(read))
  BY DEF Loaded
<1> HIDE DEF read, skip
<1> QED BY <1>1, <1>2, <1>3

LEMMA OneFacts == \A e \in Entry : <<e>> \in Seq(Entry) /\ Len(<<e>>) = 1
OBVIOUS

-----------------------------------------------------------------------------
(* Facts about the parts of actions.                                       *)

LEMMA FaultFacts ==
    ASSUME WorldTypeOK, NEW kind, Fault(kind)
    PROVE  faults' \in 0..MaxFaults
BY AgentAssumption DEF WorldTypeOK, Fault

(* The end of a call: only the data and the connection may still differ.   *)
LEMMA EndOfCallFacts ==
    ASSUME EndOfCall
    PROVE  CallTypeOK' /\ Stack' /\ StateIsFresh' /\ PublishFindsLink' /\ Writing'
<1>1. CallTypeOK'
  <2>1. /\ pc' = "idle" /\ caller' = "none" /\ i' = 0
        /\ held' = <<>> /\ arg' = <<>>
    BY DEF EndOfCall
  <2> QED BY <2>1, FlushCountType, EmptyFacts DEF CallTypeOK, AtRest, Callers
<1>2. Stack'
  BY DEF EndOfCall, Stack
<1>3. StateIsFresh' /\ PublishFindsLink' /\ Writing'
  BY DEF EndOfCall, StateIsFresh, PublishFindsLink, Writing
<1> QED BY <1>1, <1>2, <1>3

(* When the memory is gone, the invariant needs the file and the world.    *)
LEMMA NoMemoryFacts ==
    ASSUME NoMemory, pc' \in {"down", "crashed"}, file' \in Seq(Entry),
           broker' \in {"up", "down"}, faults' \in 0..MaxFaults
    PROVE  AgentInv'
<1>1. FlagTypeOK'
  BY DEF NoMemory, Freed, FlagTypeOK
<1>2. CallTypeOK'
  <2>1. /\ caller' = "none" /\ i' = 0
        /\ held' = <<>> /\ arg' = <<>>
    BY DEF NoMemory, Freed
  <2> QED BY <2>1, FlushCountType, EmptyFacts DEF CallTypeOK, AtRest, Callers
<1>3. DataTypeOK' /\ LinkTypeOK'
  <2>1. queue' = <<>> /\ conn' = "none" /\ swallowed' = 0
    BY DEF NoMemory, Freed
  <2> QED BY <2>1, AgentAssumption, EmptyFacts DEF DataTypeOK, LinkTypeOK, ConnState
<1>4. WorldTypeOK'
  <2>1. /\ sinceConnect' = Limit(AmqpWaitTime)
        /\ sinceFlush' = Limit(FlushInterval)
        /\ sinceSync' = Limit(Autosync)
    BY DEF NoMemory, Freed
  <2>2. /\ Limit(AmqpWaitTime) \in Nat
        /\ Limit(FlushInterval) \in Nat
        /\ Limit(Autosync) \in Nat
    BY AgentAssumption, LimitType
  <2> QED BY <2>1, <2>2 DEF WorldTypeOK
<1>5. LinkCoherent' /\ PublishFindsLink'
  BY DEF NoMemory, Freed, LinkCoherent, PublishFindsLink, Usable
<1>6. RequeueFits'
  BY FifoAssumption DEF NoMemory, Freed, RequeueFits
<1>7. Stack'
  BY DEF NoMemory, Freed, Stack
<1>8. StateIsFresh' /\ DirtyOrEmpty' /\ Writing'
  BY DEF NoMemory, Freed, StateIsFresh, DirtyOrEmpty, Writing
<1> QED BY <1>1, <1>2, <1>3, <1>4, <1>5, <1>6, <1>7, <1>8 DEF AgentInv, TypeOK

(* Unloaded with the library still mapped: the globals are what they were. *)
LEMMA FreedFacts ==
    ASSUME AgentInv, Freed, pc' = "down", faults' \in 0..MaxFaults,
           UNCHANGED <<linkVars, blackout, clockVars, file, broker>>
    PROVE  AgentInv'
<1> USE DEF AgentInv, TypeOK
<1>1. FlagTypeOK' /\ LinkTypeOK'
  BY DEF Freed, FlagTypeOK, LinkTypeOK, linkVars
<1>2. CallTypeOK'
  <2>1. /\ caller' = "none" /\ i' = 0
        /\ held' = <<>> /\ arg' = <<>>
    BY DEF Freed
  <2> QED BY <2>1, FlushCountType, EmptyFacts DEF CallTypeOK, AtRest, Callers
<1>3. DataTypeOK' /\ WorldTypeOK'
  BY EmptyFacts DEF Freed, DataTypeOK, WorldTypeOK, clockVars
<1>4. LinkCoherent' /\ PublishFindsLink'
  BY DEF LinkCoherent, PublishFindsLink, linkVars
<1>5. RequeueFits'
  BY FifoAssumption DEF Freed, RequeueFits
<1>6. Stack' /\ StateIsFresh' /\ DirtyOrEmpty' /\ Writing'
  BY DEF Freed, Stack, StateIsFresh, DirtyOrEmpty, Writing
<1> QED BY <1>1, <1>2, <1>3, <1>4, <1>5, <1>6

LEMMA DisconnectFacts ==
    ASSUME AmqpDisconnect
    PROVE  /\ connected' = FALSE /\ conn' = "none"
           /\ amqp_errors' \in BOOLEAN
           /\ LinkTypeOK'
<1>1. connected' = FALSE /\ conn' = "none" /\ swallowed' = 0
  BY DEF AmqpDisconnect
<1>2. amqp_errors' \in BOOLEAN
  BY DEF AmqpDisconnect
<1>3. LinkTypeOK'
  BY <1>1, AgentAssumption DEF LinkTypeOK, ConnState
<1> QED BY <1>1, <1>2, <1>3

LEMMA CheckReturnsFacts ==
    ASSUME AgentInv, pc = "check", NEW answer \in BOOLEAN, CheckReturns(answer)
    PROVE  /\ CallTypeOK' /\ Stack'
           /\ amqp_state' \in BOOLEAN
           /\ pc' \in {"idle", "fifo_check", "publish", "requeue", "push"}
           /\ pc' = "publish" => answer
           /\ pc' = "fifo_check" => amqp_state' = answer
           /\ Len(held') = Len(held)
<1> USE DEF AgentInv, TypeOK
<1>1. CASE caller = "init" /\ EndOfCall
  BY <1>1, EndOfCallFacts DEF EndOfCall, Stack
<1>2. CASE caller = "send" /\ CheckReturns(answer)
  BY <1>2 DEF CheckReturns, CallTypeOK, Stack, AtRest, InFlow
<1>3. CASE caller = "flush" /\ CheckReturns(answer)
  BY <1>3 DEF CheckReturns, CallTypeOK, FlagTypeOK, Stack, AtRest, InFlow
<1>4. CASE caller = "direct" /\ CheckReturns(answer)
  BY <1>4 DEF CheckReturns, CallTypeOK, FlagTypeOK, Stack, AtRest, InFlow
<1> QED BY <1>1, <1>2, <1>3, <1>4 DEF CheckReturns

LEMMA PublishDoneFacts ==
    ASSUME AgentInv, pc = "publish", NEW n, PublishDone(n)
    PROVE  /\ CallTypeOK' /\ Stack'
           /\ amqp_state' \in BOOLEAN
           /\ pc' \in {"flush", "idle"}
           /\ Len(held') <= Len(held)
<1> USE DEF AgentInv, TypeOK
<1>1. CASE /\ pc' = "flush" /\ held' = <<>> /\ i' = i + 1 /\ caller = "flush"
           /\ UNCHANGED <<caller, arg, amqp_state>>
  <2>1. i < FlushCount /\ Len(held) = 1 /\ Len(arg) = 1
    BY <1>1 DEF Stack
  <2>2. CallTypeOK'
    BY <1>1, <2>1, FlushCountType DEF CallTypeOK, InFlow
  <2>3. Stack'
    BY <1>1, EmptyFacts DEF Stack, AtRest
  <2> QED BY <1>1, <2>1, <2>2, <2>3, EmptyFacts DEF FlagTypeOK
<1>2. CASE caller = "direct" /\ EndOfCall
  <2>1. pc' = "idle" /\ held' = <<>> /\ amqp_state' = FALSE
    BY <1>2 DEF EndOfCall
  <2>2. Len(held') <= Len(held)
    BY <2>1
  <2> QED BY <1>2, <2>1, <2>2, EndOfCallFacts
<1> QED BY <1>1, <1>2 DEF PublishDone

LEMMA SyncReturnsFacts ==
    ASSUME AgentInv, pc \in {"csync", "open", "write"}, NEW d \in BOOLEAN, SyncReturns(d),
           UNCHANGED <<file, broker>>, faults' \in 0..MaxFaults
    PROVE  AgentInv'
<1> USE DEF AgentInv, TypeOK
<1>1. CASE caller = "unload"
  BY <1>1, NoMemoryFacts, FreedFacts DEF SyncReturns, DataTypeOK, WorldTypeOK
<1>2. CASE caller = "autosync"
  <2>1. /\ pc' = "send" /\ caller' = "send" /\ sinceSync' = 0 /\ dirty' = d
        /\ UNCHANGED <<arg, amqp_state, i, held, queue, linkVars, blackout,
                       sinceConnect, sinceFlush>>
    BY <1>2 DEF SyncReturns
  <2>2. CallTypeOK'
    BY <2>1 DEF CallTypeOK, InFlow, Callers
  <2>3. FlagTypeOK' /\ DataTypeOK' /\ LinkTypeOK'
    BY <2>1 DEF FlagTypeOK, DataTypeOK, LinkTypeOK, linkVars
  <2>4. WorldTypeOK'
    BY <2>1, LimitType, AgentAssumption DEF WorldTypeOK
  <2>5. LinkCoherent' /\ PublishFindsLink' /\ RequeueFits'
    BY <2>1 DEF LinkCoherent, PublishFindsLink, RequeueFits, linkVars
  <2>6. Stack'
    BY <1>2, <2>1 DEF Stack, AtRest
  <2>7. StateIsFresh' /\ DirtyOrEmpty' /\ Writing'
    BY <2>1 DEF StateIsFresh, DirtyOrEmpty, Writing, linkVars
  <2> QED BY <2>2, <2>3, <2>4, <2>5, <2>6, <2>7
<1> QED BY <1>1, <1>2 DEF Stack

-----------------------------------------------------------------------------
(* Preserving the invariant: loading and unloading, blackout.              *)

LEMMA ModuleInitStep == ASSUME AgentInv, ModuleInit PROVE AgentInv'
<1> USE DEF AgentInv, TypeOK, ModuleInit
<1>0. /\ queue' \in Seq(Entry) /\ Len(queue') <= CacheSize
      /\ dirty' = TRUE \/ (queue' = queue /\ dirty' = dirty)
      /\ faults' \in 0..MaxFaults
  <2>1. CASE queue' = Loaded(file) /\ dirty' = TRUE /\ UNCHANGED faults
    <3>1. Loaded(file) \in Seq(Entry) /\ Len(Loaded(file)) <= CacheSize
      BY LoadedFacts DEF DataTypeOK
    <3>2. faults' \in 0..MaxFaults
      BY <2>1 DEF WorldTypeOK
    <3>3. queue' \in Seq(Entry) /\ Len(queue') <= CacheSize
      BY <2>1, <3>1
    <3>4. dirty' = TRUE
      BY <2>1
    <3> QED BY <3>2, <3>3, <3>4
  <2>2. CASE Fault("open") /\ UNCHANGED fifoVars
    <3>1. Len(queue) <= CacheSize
      BY FifoAssumption DEF RequeueFits
    <3> QED BY <2>2, <3>1, FaultFacts DEF fifoVars, DataTypeOK
  <2> QED BY <2>1, <2>2
<1>1. FlagTypeOK'
  BY <1>0 DEF FlagTypeOK, linkVars
<1>2. CallTypeOK'
  BY DEF CallTypeOK, InFlow, Callers
<1>3. DataTypeOK' /\ LinkTypeOK'
  BY <1>0 DEF DataTypeOK, LinkTypeOK, linkVars
<1>4. WorldTypeOK'
  BY <1>0 DEF WorldTypeOK, clockVars
<1>5. LinkCoherent' /\ PublishFindsLink'
  BY DEF LinkCoherent, PublishFindsLink, linkVars
<1>6. RequeueFits'
  <2>1. Len(held') = 0
    BY DEF Stack, AtRest
  <2> QED BY <1>0, <2>1, FifoAssumption DEF RequeueFits
<1>7. Stack'
  BY DEF Stack, AtRest
<1>8. StateIsFresh' /\ DirtyOrEmpty' /\ Writing'
  BY <1>0 DEF StateIsFresh, DirtyOrEmpty, Writing
<1> QED BY <1>1, <1>2, <1>3, <1>4, <1>5, <1>6, <1>7, <1>8

LEMMA ModuleDeinitStep == ASSUME AgentInv, ModuleDeinit PROVE AgentInv'
<1> USE DEF AgentInv, TypeOK, ModuleDeinit
<1>1. FlagTypeOK'
  BY DisconnectFacts DEF FlagTypeOK, fifoVars
<1>2. CallTypeOK'
  BY DEF CallTypeOK, InFlow, Callers
<1>3. DataTypeOK' /\ LinkTypeOK'
  BY DisconnectFacts DEF DataTypeOK, fifoVars
<1>4. WorldTypeOK'
  BY DEF WorldTypeOK, clockVars
<1>5. LinkCoherent' /\ PublishFindsLink'
  BY DisconnectFacts DEF LinkCoherent, PublishFindsLink, Usable
<1>6. RequeueFits'
  BY DEF RequeueFits, fifoVars
<1>7. Stack'
  BY DEF Stack, AtRest
<1>8. StateIsFresh' /\ DirtyOrEmpty' /\ Writing'
  BY DEF StateIsFresh, DirtyOrEmpty, Writing, Stack, AtRest, fifoVars
<1> QED BY <1>1, <1>2, <1>3, <1>4, <1>5, <1>6, <1>7, <1>8

LEMMA BlackoutOnStep == ASSUME AgentInv, BlackoutOn PROVE AgentInv'
<1> USE DEF AgentInv, TypeOK, BlackoutOn
<1>1. FlagTypeOK'
  BY DisconnectFacts DEF FlagTypeOK, callVars, fifoVars
<1>2. CallTypeOK'
  BY DEF CallTypeOK, callVars
<1>3. DataTypeOK' /\ LinkTypeOK'
  BY DisconnectFacts DEF DataTypeOK, fifoVars
<1>4. WorldTypeOK'
  BY DEF WorldTypeOK, clockVars
<1>5. LinkCoherent' /\ PublishFindsLink'
  BY DisconnectFacts DEF LinkCoherent, PublishFindsLink, Usable, callVars
<1>6. RequeueFits'
  BY DEF RequeueFits, callVars, fifoVars
<1>7. Stack'
  BY DEF Stack, callVars
<1>8. StateIsFresh' /\ DirtyOrEmpty' /\ Writing'
  BY DEF StateIsFresh, DirtyOrEmpty, Writing, callVars, fifoVars
<1> QED BY <1>1, <1>2, <1>3, <1>4, <1>5, <1>6, <1>7, <1>8

LEMMA BlackoutOffStep == ASSUME AgentInv, BlackoutOff PROVE AgentInv'
<1> USE DEF AgentInv, TypeOK, BlackoutOff
<1>1. FlagTypeOK'
  BY DEF FlagTypeOK, callVars, fifoVars, linkVars
<1>2. CallTypeOK'
  BY DEF CallTypeOK, callVars
<1>3. DataTypeOK' /\ LinkTypeOK'
  BY DEF DataTypeOK, LinkTypeOK, fifoVars, linkVars
<1>4. WorldTypeOK'
  BY DEF WorldTypeOK, clockVars
<1>5. LinkCoherent' /\ PublishFindsLink'
  BY DEF LinkCoherent, PublishFindsLink, callVars, linkVars
<1>6. RequeueFits'
  BY DEF RequeueFits, callVars, fifoVars
<1>7. Stack'
  BY DEF Stack, callVars
<1>8. StateIsFresh' /\ DirtyOrEmpty' /\ Writing'
  BY DEF StateIsFresh, DirtyOrEmpty, Writing, callVars, fifoVars
<1> QED BY <1>1, <1>2, <1>3, <1>4, <1>5, <1>6, <1>7, <1>8

-----------------------------------------------------------------------------
(* Preserving the invariant: n2a_amqp_check and n2a_amqp_connect.          *)

LEMMA CheckBlackoutStep == ASSUME AgentInv, CheckBlackout PROVE AgentInv'
<1> USE DEF AgentInv, TypeOK, CheckBlackout
<1>0. /\ CallTypeOK' /\ Stack' /\ amqp_state' \in BOOLEAN
      /\ pc' \in {"idle", "fifo_check", "publish", "requeue", "push"}
      /\ pc' = "publish" => FALSE
      /\ pc' = "fifo_check" => amqp_state' = FALSE
      /\ Len(held') = Len(held)
  BY CheckReturnsFacts
<1>1. FlagTypeOK'
  BY <1>0 DEF FlagTypeOK, fifoVars, linkVars
<1>2. CallTypeOK'
  BY <1>0
<1>3. DataTypeOK' /\ LinkTypeOK'
  BY DEF DataTypeOK, LinkTypeOK, fifoVars, linkVars
<1>4. WorldTypeOK'
  BY DEF WorldTypeOK, clockVars
<1>5. LinkCoherent' /\ PublishFindsLink'
  BY <1>0 DEF LinkCoherent, PublishFindsLink, linkVars
<1>6. RequeueFits'
  BY <1>0 DEF RequeueFits, fifoVars
<1>7. Stack'
  BY <1>0
<1>8. StateIsFresh' /\ DirtyOrEmpty' /\ Writing'
  BY <1>0 DEF StateIsFresh, DirtyOrEmpty, Writing, fifoVars
<1> QED BY <1>1, <1>2, <1>3, <1>4, <1>5, <1>6, <1>7, <1>8

LEMMA CheckConnectedStep == ASSUME AgentInv, CheckConnected PROVE AgentInv'
<1> USE DEF AgentInv, TypeOK, CheckConnected
<1>0. /\ CallTypeOK' /\ Stack' /\ amqp_state' \in BOOLEAN
      /\ pc' \in {"idle", "fifo_check", "publish", "requeue", "push"}
      /\ pc' = "publish" => TRUE
      /\ pc' = "fifo_check" => amqp_state' = TRUE
      /\ Len(held') = Len(held)
  BY CheckReturnsFacts
<1>1. FlagTypeOK'
  BY <1>0 DEF FlagTypeOK, fifoVars, linkVars
<1>2. CallTypeOK'
  BY <1>0
<1>3. DataTypeOK' /\ LinkTypeOK'
  BY DEF DataTypeOK, LinkTypeOK, fifoVars, linkVars
<1>4. WorldTypeOK'
  BY DEF WorldTypeOK, clockVars
<1>5. LinkCoherent' /\ PublishFindsLink'
  BY DEF LinkCoherent, PublishFindsLink, linkVars
<1>6. RequeueFits'
  BY <1>0 DEF RequeueFits, fifoVars
<1>7. Stack'
  BY <1>0
<1>8. StateIsFresh' /\ DirtyOrEmpty' /\ Writing'
  BY <1>0 DEF StateIsFresh, DirtyOrEmpty, Writing, fifoVars, linkVars
<1> QED BY <1>1, <1>2, <1>3, <1>4, <1>5, <1>6, <1>7, <1>8

LEMMA CheckTooSoonStep == ASSUME AgentInv, CheckTooSoon PROVE AgentInv'
<1> USE DEF AgentInv, TypeOK, CheckTooSoon
<1>0. /\ CallTypeOK' /\ Stack' /\ amqp_state' \in BOOLEAN
      /\ pc' \in {"idle", "fifo_check", "publish", "requeue", "push"}
      /\ pc' = "publish" => FALSE
      /\ pc' = "fifo_check" => amqp_state' = FALSE
      /\ Len(held') = Len(held)
  BY CheckReturnsFacts
<1>1. FlagTypeOK'
  BY <1>0 DEF FlagTypeOK, fifoVars, linkVars
<1>2. CallTypeOK'
  BY <1>0
<1>3. DataTypeOK' /\ LinkTypeOK'
  BY DEF DataTypeOK, LinkTypeOK, fifoVars, linkVars
<1>4. WorldTypeOK'
  BY DEF WorldTypeOK, clockVars
<1>5. LinkCoherent' /\ PublishFindsLink'
  BY <1>0 DEF LinkCoherent, PublishFindsLink, linkVars
<1>6. RequeueFits'
  BY <1>0 DEF RequeueFits, fifoVars
<1>7. Stack'
  BY <1>0
<1>8. StateIsFresh' /\ DirtyOrEmpty' /\ Writing'
  BY <1>0 DEF StateIsFresh, DirtyOrEmpty, Writing, fifoVars
<1> QED BY <1>1, <1>2, <1>3, <1>4, <1>5, <1>6, <1>7, <1>8

LEMMA AmqpConnectStep == ASSUME AgentInv, NEW answer \in BOOLEAN, AmqpConnect(answer)
    PROVE AgentInv'
<1> USE DEF AgentInv, TypeOK, AmqpConnect, ErrorsAfterConnect
<1>0. /\ CallTypeOK' /\ Stack' /\ amqp_state' \in BOOLEAN
      /\ pc' \in {"idle", "fifo_check", "publish", "requeue", "push"}
      /\ pc' = "publish" => answer
      /\ pc' = "fifo_check" => amqp_state' = answer
      /\ Len(held') = Len(held)
  BY CheckReturnsFacts
<1>1. FlagTypeOK'
  BY <1>0 DEF FlagTypeOK, fifoVars
<1>2. CallTypeOK'
  BY <1>0
<1>3. DataTypeOK' /\ LinkTypeOK'
  BY AgentAssumption DEF DataTypeOK, LinkTypeOK, ConnState, fifoVars
<1>4. WorldTypeOK'
  BY AgentAssumption, LimitType DEF WorldTypeOK
<1>5. LinkCoherent' /\ PublishFindsLink'
  BY <1>0 DEF LinkCoherent, PublishFindsLink, Usable
<1>6. RequeueFits'
  BY <1>0 DEF RequeueFits, fifoVars
<1>7. Stack'
  BY <1>0
<1>8. StateIsFresh' /\ DirtyOrEmpty' /\ Writing'
  BY <1>0 DEF StateIsFresh, DirtyOrEmpty, Writing, fifoVars
<1> QED BY <1>1, <1>2, <1>3, <1>4, <1>5, <1>6, <1>7, <1>8

-----------------------------------------------------------------------------
(* Preserving the invariant: n2a_send_event and n2a_fifo_check.            *)

LEMMA SendEventStep == ASSUME AgentInv, NEW e \in Event, SendEvent(e) PROVE AgentInv'
<1> USE DEF AgentInv, TypeOK, SendEvent
<1>1. FlagTypeOK'
  BY DEF FlagTypeOK, fifoVars, linkVars
<1>2. CallTypeOK'
  BY DEF CallTypeOK, InFlow, Callers
<1>3. DataTypeOK' /\ LinkTypeOK'
  BY DEF DataTypeOK, LinkTypeOK, fifoVars, linkVars
<1>4. WorldTypeOK'
  BY DEF WorldTypeOK, clockVars
<1>5. LinkCoherent' /\ PublishFindsLink'
  BY DEF LinkCoherent, PublishFindsLink, linkVars
<1>6. RequeueFits'
  BY DEF RequeueFits, fifoVars
<1>7. Stack'
  BY DEF Stack, AtRest
<1>8. StateIsFresh' /\ DirtyOrEmpty' /\ Writing'
  BY DEF StateIsFresh, DirtyOrEmpty, Writing, fifoVars
<1> QED BY <1>1, <1>2, <1>3, <1>4, <1>5, <1>6, <1>7, <1>8

LEMMA FifoCheckFlushStep == ASSUME AgentInv, FifoCheckFlush PROVE AgentInv'
<1> USE DEF AgentInv, TypeOK, FifoCheckFlush, FlushDue
<1>1. FlagTypeOK'
  BY DEF FlagTypeOK, fifoVars, linkVars
<1>2. CallTypeOK'
  BY DEF CallTypeOK, InFlow, Callers
<1>3. DataTypeOK' /\ LinkTypeOK'
  BY DEF DataTypeOK, LinkTypeOK, fifoVars, linkVars
<1>4. WorldTypeOK'
  BY DEF WorldTypeOK, clockVars
<1>5. LinkCoherent' /\ PublishFindsLink'
  BY DEF LinkCoherent, PublishFindsLink, linkVars
<1>6. RequeueFits'
  BY DEF RequeueFits, fifoVars
<1>7. Stack'
  BY DEF Stack, AtRest
<1>8. StateIsFresh' /\ DirtyOrEmpty' /\ Writing'
  BY DEF StateIsFresh, DirtyOrEmpty, Writing, fifoVars, linkVars
<1> QED BY <1>1, <1>2, <1>3, <1>4, <1>5, <1>6, <1>7, <1>8

LEMMA FifoCheckNoFlushStep == ASSUME AgentInv, FifoCheckNoFlush PROVE AgentInv'
<1> USE DEF AgentInv, TypeOK, FifoCheckNoFlush
<1>1. FlagTypeOK'
  BY DEF FlagTypeOK, fifoVars, linkVars
<1>2. CallTypeOK'
  BY DEF CallTypeOK, InFlow
<1>3. DataTypeOK' /\ LinkTypeOK'
  BY DEF DataTypeOK, LinkTypeOK, fifoVars, linkVars
<1>4. WorldTypeOK'
  BY DEF WorldTypeOK, clockVars
<1>5. LinkCoherent' /\ PublishFindsLink'
  BY DEF LinkCoherent, PublishFindsLink, linkVars
<1>6. RequeueFits'
  BY DEF RequeueFits, fifoVars
<1>7. Stack'
  BY DEF Stack, AtRest
<1>8. StateIsFresh' /\ DirtyOrEmpty' /\ Writing'
  BY DEF StateIsFresh, DirtyOrEmpty, Writing, fifoVars, linkVars
<1> QED BY <1>1, <1>2, <1>3, <1>4, <1>5, <1>6, <1>7, <1>8

LEMMA FlushShiftStep == ASSUME AgentInv, FlushShift PROVE AgentInv'
<1> USE DEF AgentInv, TypeOK, FlushShift, MoreToFlush
<1>0. /\ Head(queue) \in Entry /\ Shift(queue) \in Seq(Entry)
      /\ Len(Shift(queue)) = Len(queue) - 1
  BY ShiftFacts DEF DataTypeOK
<1>1. FlagTypeOK'
  BY DEF FlagTypeOK, linkVars
<1>2. CallTypeOK'
  BY <1>0 DEF CallTypeOK, InFlow
<1>3. DataTypeOK' /\ LinkTypeOK'
  BY <1>0 DEF DataTypeOK, LinkTypeOK, linkVars
<1>4. WorldTypeOK'
  BY DEF WorldTypeOK, clockVars
<1>5. LinkCoherent' /\ PublishFindsLink'
  BY DEF LinkCoherent, PublishFindsLink, StateIsFresh, linkVars
<1>6. RequeueFits'
  BY <1>0 DEF RequeueFits, Stack
<1>7. Stack'
  BY OneFacts DEF Stack, AtRest
<1>8. StateIsFresh' /\ DirtyOrEmpty' /\ Writing'
  BY DEF StateIsFresh, DirtyOrEmpty, Writing
<1> QED BY <1>1, <1>2, <1>3, <1>4, <1>5, <1>6, <1>7, <1>8

LEMMA FlushEndStep == ASSUME AgentInv, FlushEnd PROVE AgentInv'
<1> USE DEF AgentInv, TypeOK, FlushEnd
<1>1. FlagTypeOK'
  BY DEF FlagTypeOK, fifoVars, linkVars
<1>2. CallTypeOK'
  <2>1. pc' = "autosync" /\ caller' = "send" /\ i' = 0 /\ UNCHANGED <<arg, held>>
    OBVIOUS
  <2> QED BY <2>1, FlushCountType DEF CallTypeOK, InFlow, Callers
<1>3. DataTypeOK' /\ LinkTypeOK'
  BY DEF DataTypeOK, LinkTypeOK, fifoVars, linkVars
<1>4. WorldTypeOK'
  BY AgentAssumption, LimitType DEF WorldTypeOK
<1>5. LinkCoherent' /\ PublishFindsLink'
  BY DEF LinkCoherent, PublishFindsLink, linkVars
<1>6. RequeueFits'
  BY DEF RequeueFits, fifoVars
<1>7. Stack'
  BY DEF Stack, AtRest
<1>8. StateIsFresh' /\ DirtyOrEmpty' /\ Writing'
  BY DEF StateIsFresh, DirtyOrEmpty, Writing, fifoVars, linkVars
<1> QED BY <1>1, <1>2, <1>3, <1>4, <1>5, <1>6, <1>7, <1>8

LEMMA FlushRequeueStep == ASSUME AgentInv, FlushRequeue PROVE AgentInv'
<1> USE DEF AgentInv, TypeOK, FlushRequeue
<1>0. /\ Len(held) = 1 /\ Len(arg) = 1
      /\ Prepend(queue, held[1]) \in Seq(Entry)
      /\ Len(Prepend(queue, held[1])) = Len(queue) + 1
      /\ Prepend(queue, held[1]) # <<>>
  <2>1. Len(held) = 1 /\ Len(arg) = 1
    BY DEF Stack
  <2>2. held[1] \in Entry
    BY <2>1 DEF CallTypeOK
  <2>3. Len(queue) < CacheSize
    BY <2>1, FifoAssumption DEF RequeueFits
  <2> QED BY <2>1, <2>2, <2>3, PrependFacts DEF DataTypeOK
<1>1. FlagTypeOK'
  BY DEF FlagTypeOK, linkVars
<1>2. CallTypeOK'
  <2>1. pc' = "autosync" /\ caller' = "send" /\ i' = 0 /\ held' = <<>> /\ UNCHANGED arg
    OBVIOUS
  <2> QED BY <2>1, FlushCountType, EmptyFacts DEF CallTypeOK, InFlow, Callers
<1>3. DataTypeOK' /\ LinkTypeOK'
  BY <1>0 DEF DataTypeOK, LinkTypeOK, linkVars
<1>4. WorldTypeOK'
  BY AgentAssumption, LimitType DEF WorldTypeOK
<1>5. LinkCoherent' /\ PublishFindsLink'
  BY DEF LinkCoherent, PublishFindsLink, linkVars
<1>6. RequeueFits'
  BY <1>0 DEF RequeueFits
<1>7. Stack'
  BY EmptyFacts DEF Stack, AtRest
<1>8. StateIsFresh' /\ DirtyOrEmpty' /\ Writing'
  BY <1>0 DEF StateIsFresh, DirtyOrEmpty, Writing
<1> QED BY <1>1, <1>2, <1>3, <1>4, <1>5, <1>6, <1>7, <1>8

LEMMA AutosyncNowStep == ASSUME AgentInv, AutosyncNow PROVE AgentInv'
<1> USE DEF AgentInv, TypeOK, AutosyncNow
<1>1. FlagTypeOK'
  BY DEF FlagTypeOK, fifoVars, linkVars
<1>2. CallTypeOK'
  BY DEF CallTypeOK, InFlow, Callers
<1>3. DataTypeOK' /\ LinkTypeOK'
  BY DEF DataTypeOK, LinkTypeOK, fifoVars, linkVars
<1>4. WorldTypeOK'
  BY DEF WorldTypeOK, clockVars
<1>5. LinkCoherent' /\ PublishFindsLink'
  BY DEF LinkCoherent, PublishFindsLink, linkVars
<1>6. RequeueFits'
  BY DEF RequeueFits, fifoVars
<1>7. Stack'
  BY DEF Stack, AtRest
<1>8. StateIsFresh' /\ DirtyOrEmpty' /\ Writing'
  BY DEF StateIsFresh, DirtyOrEmpty, Writing, fifoVars, linkVars
<1> QED BY <1>1, <1>2, <1>3, <1>4, <1>5, <1>6, <1>7, <1>8

LEMMA AutosyncLaterStep == ASSUME AgentInv, AutosyncLater PROVE AgentInv'
<1> USE DEF AgentInv, TypeOK, AutosyncLater
<1>1. FlagTypeOK'
  BY DEF FlagTypeOK, fifoVars, linkVars
<1>2. CallTypeOK'
  BY DEF CallTypeOK, InFlow
<1>3. DataTypeOK' /\ LinkTypeOK'
  BY DEF DataTypeOK, LinkTypeOK, fifoVars, linkVars
<1>4. WorldTypeOK'
  BY DEF WorldTypeOK, clockVars
<1>5. LinkCoherent' /\ PublishFindsLink'
  BY DEF LinkCoherent, PublishFindsLink, linkVars
<1>6. RequeueFits'
  BY DEF RequeueFits, fifoVars
<1>7. Stack'
  BY DEF Stack, AtRest
<1>8. StateIsFresh' /\ DirtyOrEmpty' /\ Writing'
  BY DEF StateIsFresh, DirtyOrEmpty, Writing, fifoVars, linkVars
<1> QED BY <1>1, <1>2, <1>3, <1>4, <1>5, <1>6, <1>7, <1>8

LEMMA SendDirectlyStep == ASSUME AgentInv, SendDirectly PROVE AgentInv'
<1> USE DEF AgentInv, TypeOK, SendDirectly, PublishDirectly
<1>1. FlagTypeOK'
  BY DEF FlagTypeOK, fifoVars, linkVars
<1>2. CallTypeOK'
  BY DEF CallTypeOK, InFlow, Callers
<1>3. DataTypeOK' /\ LinkTypeOK'
  BY DEF DataTypeOK, LinkTypeOK, fifoVars, linkVars
<1>4. WorldTypeOK'
  BY DEF WorldTypeOK, clockVars
<1>5. LinkCoherent' /\ PublishFindsLink'
  BY DEF LinkCoherent, PublishFindsLink, StateIsFresh, linkVars
<1>6. RequeueFits'
  BY DEF RequeueFits, fifoVars
<1>7. Stack'
  BY DEF Stack, AtRest
<1>8. StateIsFresh' /\ DirtyOrEmpty' /\ Writing'
  BY DEF StateIsFresh, DirtyOrEmpty, Writing, fifoVars
<1> QED BY <1>1, <1>2, <1>3, <1>4, <1>5, <1>6, <1>7, <1>8

LEMMA SendToQueueStep == ASSUME AgentInv, SendToQueue PROVE AgentInv'
<1> USE DEF AgentInv, TypeOK, SendToQueue
<1>1. FlagTypeOK'
  BY DEF FlagTypeOK, fifoVars, linkVars
<1>2. CallTypeOK'
  BY DEF CallTypeOK, InFlow
<1>3. DataTypeOK' /\ LinkTypeOK'
  BY DEF DataTypeOK, LinkTypeOK, fifoVars, linkVars
<1>4. WorldTypeOK'
  BY DEF WorldTypeOK, clockVars
<1>5. LinkCoherent' /\ PublishFindsLink'
  BY DEF LinkCoherent, PublishFindsLink, linkVars
<1>6. RequeueFits'
  BY DEF RequeueFits, fifoVars
<1>7. Stack'
  BY DEF Stack, AtRest
<1>8. StateIsFresh' /\ DirtyOrEmpty' /\ Writing'
  BY DEF StateIsFresh, DirtyOrEmpty, Writing
<1> QED BY <1>1, <1>2, <1>3, <1>4, <1>5, <1>6, <1>7, <1>8

LEMMA PushEventStep == ASSUME AgentInv, PushEvent PROVE AgentInv'
<1> USE DEF AgentInv, TypeOK, PushEvent
<1>0. /\ Push(queue, arg[1]) \in Seq(Entry)
      /\ Len(Push(queue, arg[1])) <= CacheSize
  <2>1. Len(arg) = 1 /\ Len(held) = 0
    BY DEF Stack
  <2>2. arg[1] \in Entry
    BY <2>1 DEF CallTypeOK, Entry
  <2>3. Len(queue) <= CacheSize
    BY FifoAssumption DEF RequeueFits
  <2> QED BY <2>2, <2>3, PushFacts DEF DataTypeOK
<1>9. /\ pc' = "idle" /\ amqp_state' = FALSE /\ held' = <<>>
      /\ CallTypeOK' /\ Stack' /\ StateIsFresh' /\ PublishFindsLink' /\ Writing'
  BY EndOfCallFacts DEF EndOfCall
<1>1. FlagTypeOK'
  BY <1>9 DEF FlagTypeOK, linkVars
<1>2. CallTypeOK'
  BY <1>9
<1>3. DataTypeOK' /\ LinkTypeOK'
  BY <1>0 DEF DataTypeOK, LinkTypeOK, linkVars
<1>4. WorldTypeOK'
  BY DEF WorldTypeOK, clockVars
<1>5. LinkCoherent' /\ PublishFindsLink'
  BY <1>9 DEF LinkCoherent, linkVars
<1>6. RequeueFits'
  BY <1>0, <1>9, FifoAssumption DEF RequeueFits
<1>7. Stack'
  BY <1>9
<1>8. StateIsFresh' /\ DirtyOrEmpty' /\ Writing'
  BY <1>9 DEF DirtyOrEmpty
<1> QED BY <1>1, <1>2, <1>3, <1>4, <1>5, <1>6, <1>7, <1>8

-----------------------------------------------------------------------------
(* Preserving the invariant: n2a_amqp_publish.                             *)

LEMMA PublishFailedStep ==
    ASSUME AgentInv, pc = "publish", PublishFailed,
           UNCHANGED <<fifoVars, file, blackout, broker, clockVars, faults>>
    PROVE  AgentInv'
<1> USE DEF AgentInv, TypeOK, PublishFailed
<1>1. FlagTypeOK'
  BY DisconnectFacts DEF FlagTypeOK, fifoVars
<1>2. CallTypeOK'
  BY DEF CallTypeOK, InFlow
<1>3. DataTypeOK' /\ LinkTypeOK'
  BY DisconnectFacts DEF DataTypeOK, fifoVars
<1>4. WorldTypeOK'
  BY DEF WorldTypeOK, clockVars
<1>5. LinkCoherent' /\ PublishFindsLink'
  BY DisconnectFacts DEF LinkCoherent, PublishFindsLink, Usable
<1>6. RequeueFits'
  BY DEF RequeueFits, fifoVars
<1>7. Stack'
  BY DEF Stack, AtRest
<1>8. StateIsFresh' /\ DirtyOrEmpty' /\ Writing'
  BY DEF StateIsFresh, DirtyOrEmpty, Writing, fifoVars
<1> QED BY <1>1, <1>2, <1>3, <1>4, <1>5, <1>6, <1>7, <1>8

LEMMA PublishDoneStep ==
    ASSUME AgentInv, pc = "publish", NEW n \in {0, 1}, PublishDone(n), swallowed + n <= SockBuf,
           UNCHANGED <<fifoVars, file, blackout, broker, clockVars, faults>>
    PROVE  AgentInv'
<1> USE DEF AgentInv, TypeOK
<1>0. /\ CallTypeOK' /\ Stack' /\ amqp_state' \in BOOLEAN
      /\ pc' \in {"flush", "idle"}
      /\ Len(held') <= Len(held)
  BY PublishDoneFacts
<1>9. swallowed' = swallowed + n /\ UNCHANGED <<connected, amqp_errors, conn>>
  BY DEF PublishDone
<1>1. FlagTypeOK'
  BY <1>0, <1>9 DEF FlagTypeOK, fifoVars
<1>2. CallTypeOK'
  BY <1>0
<1>3. DataTypeOK' /\ LinkTypeOK'
  BY <1>9 DEF DataTypeOK, LinkTypeOK, fifoVars
<1>4. WorldTypeOK'
  BY DEF WorldTypeOK, clockVars
<1>5. LinkCoherent' /\ PublishFindsLink'
  BY <1>9 DEF LinkCoherent, PublishFindsLink
<1>6. RequeueFits'
  <2>1. Len(held) \in Nat /\ Len(held') \in Nat /\ Len(queue) \in Nat
    OBVIOUS
  <2> QED BY <1>0, <2>1, FifoAssumption DEF RequeueFits, fifoVars
<1>7. Stack'
  BY <1>0
<1>8. StateIsFresh' /\ DirtyOrEmpty' /\ Writing'
  <2>1. connected'
    BY <1>9 DEF PublishFindsLink
  <2> QED BY <1>0, <2>1 DEF StateIsFresh, DirtyOrEmpty, Writing, fifoVars
<1> QED BY <1>1, <1>2, <1>3, <1>4, <1>5, <1>6, <1>7, <1>8

LEMMA PublishWrittenStep ==
    ASSUME AgentInv, pc = "publish", NEW n \in {0, 1}, PublishWritten(n),
       swallowed + n <= SockBuf
    PROVE  AgentInv'
BY PublishFailedStep, PublishDoneStep DEF PublishWritten

LEMMA PublishReachedStep == ASSUME AgentInv, PublishReached PROVE AgentInv'
BY PublishWrittenStep DEF PublishReached, AgentInv, TypeOK, LinkTypeOK

LEMMA PublishIgnoredStep == ASSUME AgentInv, PublishIgnored PROVE AgentInv'
BY PublishWrittenStep DEF PublishIgnored, AgentInv, TypeOK, LinkTypeOK

LEMMA PublishSwallowedStep == ASSUME AgentInv, PublishSwallowed PROVE AgentInv'
BY PublishWrittenStep, AgentAssumption DEF PublishSwallowed, AgentInv, TypeOK, LinkTypeOK

LEMMA PublishRefusedStep == ASSUME AgentInv, PublishRefused PROVE AgentInv'
BY PublishFailedStep DEF PublishRefused

-----------------------------------------------------------------------------
(* Preserving the invariant: n2a_csync.                                    *)

LEMMA SyncUpToDateStep == ASSUME AgentInv, SyncUpToDate PROVE AgentInv'
BY SyncReturnsFacts DEF SyncUpToDate, AgentInv, TypeOK, WorldTypeOK

LEMMA SyncClearStep == ASSUME AgentInv, SyncClear PROVE AgentInv'
<1> USE DEF AgentInv, TypeOK, SyncClear
<1>1. FlagTypeOK'
  BY DEF FlagTypeOK, fifoVars, linkVars
<1>2. CallTypeOK'
  BY DEF CallTypeOK, InFlow
<1>3. DataTypeOK' /\ LinkTypeOK'
  BY DEF DataTypeOK, LinkTypeOK, fifoVars, linkVars
<1>4. WorldTypeOK'
  BY DEF WorldTypeOK, clockVars
<1>5. LinkCoherent' /\ PublishFindsLink'
  BY DEF LinkCoherent, PublishFindsLink, linkVars
<1>6. RequeueFits'
  BY DEF RequeueFits, fifoVars
<1>7. Stack'
  BY DEF Stack, AtRest
<1>8. StateIsFresh' /\ DirtyOrEmpty' /\ Writing'
  BY DEF StateIsFresh, DirtyOrEmpty, Writing, fifoVars, linkVars
<1> QED BY <1>1, <1>2, <1>3, <1>4, <1>5, <1>6, <1>7, <1>8

LEMMA SyncOpenStep == ASSUME AgentInv, SyncOpen PROVE AgentInv'
<1> USE DEF AgentInv, TypeOK, SyncOpen
<1>1. FlagTypeOK'
  BY DEF FlagTypeOK, fifoVars, linkVars
<1>2. CallTypeOK'
  BY DEF CallTypeOK, InFlow
<1>3. DataTypeOK' /\ LinkTypeOK'
  BY DEF DataTypeOK, LinkTypeOK, fifoVars, linkVars
<1>4. WorldTypeOK'
  BY DEF WorldTypeOK, clockVars
<1>5. LinkCoherent' /\ PublishFindsLink'
  BY DEF LinkCoherent, PublishFindsLink, linkVars
<1>6. RequeueFits'
  BY DEF RequeueFits, fifoVars
<1>7. Stack'
  BY DEF Stack, AtRest
<1>8. StateIsFresh' /\ DirtyOrEmpty' /\ Writing'
  BY DEF StateIsFresh, DirtyOrEmpty, Writing, fifoVars, linkVars
<1> QED BY <1>1, <1>2, <1>3, <1>4, <1>5, <1>6, <1>7, <1>8

LEMMA SyncOpenFailsStep == ASSUME AgentInv, SyncOpenFails PROVE AgentInv'
BY SyncReturnsFacts, FaultFacts DEF SyncOpenFails, AgentInv, TypeOK, FlagTypeOK

LEMMA SyncWriteEventStep == ASSUME AgentInv, SyncWriteEvent PROVE AgentInv'
<1> USE DEF AgentInv, TypeOK, SyncWriteEvent
<1>1. FlagTypeOK'
  BY DEF FlagTypeOK, callVars, fifoVars, linkVars
<1>2. CallTypeOK'
  BY DEF CallTypeOK, callVars
<1>3. DataTypeOK' /\ LinkTypeOK'
  BY DEF DataTypeOK, LinkTypeOK, fifoVars, linkVars
<1>4. WorldTypeOK'
  BY DEF WorldTypeOK, clockVars
<1>5. LinkCoherent' /\ PublishFindsLink'
  BY DEF LinkCoherent, PublishFindsLink, callVars, linkVars
<1>6. RequeueFits'
  BY DEF RequeueFits, callVars, fifoVars
<1>7. Stack'
  BY DEF Stack, callVars
<1>8. StateIsFresh' /\ DirtyOrEmpty' /\ Writing'
  BY DEF StateIsFresh, DirtyOrEmpty, Writing, callVars, fifoVars
<1> QED BY <1>1, <1>2, <1>3, <1>4, <1>5, <1>6, <1>7, <1>8

LEMMA SyncWriteEndStep == ASSUME AgentInv, SyncWriteEnd PROVE AgentInv'
BY SyncReturnsFacts, FaultFacts DEF SyncWriteEnd, AgentInv, TypeOK, WorldTypeOK

-----------------------------------------------------------------------------
(* Preserving the invariant: the world around the agent.                   *)

LEMMA CrashStep == ASSUME AgentInv, Crash PROVE AgentInv'
BY FaultFacts, NoMemoryFacts DEF Crash, AgentInv, TypeOK, DataTypeOK, WorldTypeOK

LEMMA ConnectionDropsStep == ASSUME AgentInv, ConnectionDrops PROVE AgentInv'
<1> USE DEF AgentInv, TypeOK, ConnectionDrops, PeerGone
<1>1. FlagTypeOK'
  BY DEF FlagTypeOK, callVars, fifoVars
<1>2. CallTypeOK'
  BY DEF CallTypeOK, callVars
<1>3. DataTypeOK' /\ LinkTypeOK'
  BY DEF DataTypeOK, LinkTypeOK, ConnState, fifoVars
<1>4. WorldTypeOK'
  BY FaultFacts DEF WorldTypeOK, clockVars
<1>5. LinkCoherent' /\ PublishFindsLink'
  BY DEF LinkCoherent, PublishFindsLink, Usable
<1>6. RequeueFits'
  BY DEF RequeueFits, callVars, fifoVars
<1>7. Stack'
  BY DEF Stack, callVars
<1>8. StateIsFresh' /\ DirtyOrEmpty' /\ Writing'
  BY DEF StateIsFresh, DirtyOrEmpty, Writing, callVars, fifoVars
<1> QED BY <1>1, <1>2, <1>3, <1>4, <1>5, <1>6, <1>7, <1>8

LEMMA ChannelClosesStep == ASSUME AgentInv, ChannelCloses PROVE AgentInv'
<1> USE DEF AgentInv, TypeOK, ChannelCloses, PeerGone
<1>1. FlagTypeOK'
  BY DEF FlagTypeOK, callVars, fifoVars
<1>2. CallTypeOK'
  BY DEF CallTypeOK, callVars
<1>3. DataTypeOK' /\ LinkTypeOK'
  BY DEF DataTypeOK, LinkTypeOK, ConnState, fifoVars
<1>4. WorldTypeOK'
  BY FaultFacts DEF WorldTypeOK, clockVars
<1>5. LinkCoherent' /\ PublishFindsLink'
  BY DEF LinkCoherent, PublishFindsLink, Usable
<1>6. RequeueFits'
  BY DEF RequeueFits, callVars, fifoVars
<1>7. Stack'
  BY DEF Stack, callVars
<1>8. StateIsFresh' /\ DirtyOrEmpty' /\ Writing'
  BY DEF StateIsFresh, DirtyOrEmpty, Writing, callVars, fifoVars
<1> QED BY <1>1, <1>2, <1>3, <1>4, <1>5, <1>6, <1>7, <1>8

LEMMA BrokerGoesDownStep == ASSUME AgentInv, BrokerGoesDown PROVE AgentInv'
<1> USE DEF AgentInv, TypeOK, BrokerGoesDown, PeerGone
<1>1. FlagTypeOK'
  BY DEF FlagTypeOK, callVars, fifoVars
<1>2. CallTypeOK'
  BY DEF CallTypeOK, callVars
<1>3. DataTypeOK' /\ LinkTypeOK'
  BY DEF DataTypeOK, LinkTypeOK, ConnState, fifoVars
<1>4. WorldTypeOK'
  BY FaultFacts DEF WorldTypeOK, clockVars
<1>5. LinkCoherent' /\ PublishFindsLink'
  BY DEF LinkCoherent, PublishFindsLink, Usable, callVars
<1>6. RequeueFits'
  BY DEF RequeueFits, callVars, fifoVars
<1>7. Stack'
  BY DEF Stack, callVars
<1>8. StateIsFresh' /\ DirtyOrEmpty' /\ Writing'
  BY DEF StateIsFresh, DirtyOrEmpty, Writing, callVars, fifoVars
<1> QED BY <1>1, <1>2, <1>3, <1>4, <1>5, <1>6, <1>7, <1>8

LEMMA BrokerComesUpStep == ASSUME AgentInv, BrokerComesUp PROVE AgentInv'
<1> USE DEF AgentInv, TypeOK, BrokerComesUp
<1>1. FlagTypeOK'
  BY DEF FlagTypeOK, callVars, fifoVars, linkVars
<1>2. CallTypeOK'
  BY DEF CallTypeOK, callVars
<1>3. DataTypeOK' /\ LinkTypeOK'
  BY DEF DataTypeOK, LinkTypeOK, fifoVars, linkVars
<1>4. WorldTypeOK'
  BY DEF WorldTypeOK, clockVars
<1>5. LinkCoherent' /\ PublishFindsLink'
  BY DEF LinkCoherent, PublishFindsLink, callVars, linkVars
<1>6. RequeueFits'
  BY DEF RequeueFits, callVars, fifoVars
<1>7. Stack'
  BY DEF Stack, callVars
<1>8. StateIsFresh' /\ DirtyOrEmpty' /\ Writing'
  BY DEF StateIsFresh, DirtyOrEmpty, Writing, callVars, fifoVars, linkVars
<1> QED BY <1>1, <1>2, <1>3, <1>4, <1>5, <1>6, <1>7, <1>8

LEMMA TickStep == ASSUME AgentInv, Tick PROVE AgentInv'
<1> USE DEF AgentInv, TypeOK, Tick
<1>1. FlagTypeOK'
  BY DEF FlagTypeOK, callVars, fifoVars, linkVars
<1>2. CallTypeOK'
  BY DEF CallTypeOK, callVars
<1>3. DataTypeOK' /\ LinkTypeOK'
  BY DEF DataTypeOK, LinkTypeOK, fifoVars, linkVars
<1>4. WorldTypeOK'
  BY OlderType, AgentAssumption DEF WorldTypeOK
<1>5. LinkCoherent' /\ PublishFindsLink'
  BY DEF LinkCoherent, PublishFindsLink, callVars, linkVars
<1>6. RequeueFits'
  BY DEF RequeueFits, callVars, fifoVars
<1>7. Stack'
  BY DEF Stack, callVars
<1>8. StateIsFresh' /\ DirtyOrEmpty' /\ Writing'
  BY DEF StateIsFresh, DirtyOrEmpty, Writing, callVars, fifoVars
<1> QED BY <1>1, <1>2, <1>3, <1>4, <1>5, <1>6, <1>7, <1>8

-----------------------------------------------------------------------------
(* The invariant.                                                          *)

LEMMA InitInv == Init => AgentInv
<1> SUFFICES ASSUME Init PROVE AgentInv
  OBVIOUS
<1>1. FlagTypeOK
  BY DEF Init, FlagTypeOK
<1>2. CallTypeOK
  <2>1. pc = "down" /\ caller = "none" /\ i = 0 /\ held = <<>> /\ arg = <<>>
    BY DEF Init
  <2> QED BY <2>1, FlushCountType, EmptyFacts DEF CallTypeOK, AtRest, Callers
<1>3. DataTypeOK /\ LinkTypeOK
  <2>1. queue = <<>> /\ file = <<>> /\ conn = "none" /\ swallowed = 0
    BY DEF Init
  <2> QED BY <2>1, AgentAssumption, EmptyFacts DEF DataTypeOK, LinkTypeOK, ConnState
<1>4. WorldTypeOK
  <2>1. /\ sinceConnect = Limit(AmqpWaitTime)
        /\ sinceFlush = Limit(FlushInterval)
        /\ sinceSync = Limit(Autosync)
        /\ faults = 0 /\ broker \in {"up", "down"}
    BY DEF Init
  <2>2. /\ Limit(AmqpWaitTime) \in Nat
        /\ Limit(FlushInterval) \in Nat
        /\ Limit(Autosync) \in Nat
    BY AgentAssumption, LimitType
  <2> QED BY <2>1, <2>2, AgentAssumption DEF WorldTypeOK
<1>5. LinkCoherent /\ PublishFindsLink
  BY DEF Init, LinkCoherent, PublishFindsLink, Usable
<1>6. RequeueFits
  <2>1. queue = <<>> /\ held = <<>>
    BY DEF Init
  <2> QED BY <2>1, FifoAssumption, EmptyFacts DEF RequeueFits
<1>7. Stack
  BY DEF Init, Stack
<1>8. StateIsFresh /\ DirtyOrEmpty /\ Writing
  BY DEF Init, StateIsFresh, DirtyOrEmpty, Writing
<1> QED BY <1>1, <1>2, <1>3, <1>4, <1>5, <1>6, <1>7, <1>8 DEF AgentInv, TypeOK

LEMMA StutterStep == ASSUME AgentInv, UNCHANGED vars PROVE AgentInv'
<1>1. /\ UNCHANGED <<pc, caller, arg, amqp_state, i, held>>
      /\ UNCHANGED <<queue, dirty, file>>
      /\ UNCHANGED <<connected, amqp_errors, conn, swallowed, blackout, broker>>
      /\ UNCHANGED <<sinceConnect, sinceFlush, sinceSync, faults>>
  BY DEF vars, callVars, fifoVars, linkVars, clockVars
<1>2. FlagTypeOK' /\ DataTypeOK' /\ LinkTypeOK'
  BY <1>1 DEF AgentInv, TypeOK, FlagTypeOK, DataTypeOK, LinkTypeOK
<1>3. CallTypeOK'
  BY <1>1 DEF AgentInv, TypeOK, CallTypeOK
<1>4. WorldTypeOK'
  BY <1>1 DEF AgentInv, TypeOK, WorldTypeOK
<1>5. LinkCoherent' /\ PublishFindsLink' /\ RequeueFits'
  BY <1>1 DEF AgentInv, LinkCoherent, PublishFindsLink, RequeueFits
<1>6. Stack'
  BY <1>1 DEF AgentInv, Stack
<1>7. StateIsFresh' /\ DirtyOrEmpty'
  BY <1>1 DEF AgentInv, StateIsFresh, DirtyOrEmpty
<1>8. Writing'
  BY <1>1 DEF AgentInv, Writing
<1> QED BY <1>2, <1>3, <1>4, <1>5, <1>6, <1>7, <1>8 DEF AgentInv, TypeOK

LEMMA NextInv == AgentInv /\ [Next]_vars => AgentInv'
<1> SUFFICES ASSUME AgentInv, [Next]_vars PROVE AgentInv'
  OBVIOUS
<1>1. CASE AmqpCheck
  BY <1>1, CheckBlackoutStep, CheckConnectedStep, CheckTooSoonStep, AmqpConnectStep
     DEF AmqpCheck
<1>2. CASE FifoCheck
  BY <1>2, FifoCheckFlushStep, FifoCheckNoFlushStep, FlushShiftStep, FlushEndStep,
     FlushRequeueStep, AutosyncNowStep, AutosyncLaterStep DEF FifoCheck
<1>3. CASE AmqpPublish
  BY <1>3, PublishReachedStep, PublishIgnoredStep, PublishSwallowedStep,
     PublishRefusedStep DEF AmqpPublish
<1>4. CASE Csync
  BY <1>4, SyncUpToDateStep, SyncClearStep, SyncOpenStep, SyncOpenFailsStep,
     SyncWriteEventStep, SyncWriteEndStep DEF Csync
<1>5. CASE Send
  BY <1>5, SendDirectlyStep, SendToQueueStep, PushEventStep DEF Send
<1>6. CASE Callback
  BY <1>6, SendEventStep DEF Callback
<1>7. CASE Control
  BY <1>7, ModuleInitStep, ModuleDeinitStep, BlackoutOnStep, BlackoutOffStep DEF Control
<1>8. CASE World
  BY <1>8, CrashStep, ConnectionDropsStep, ChannelClosesStep, BrokerGoesDownStep,
     BrokerComesUpStep, TickStep DEF World
<1>9. CASE UNCHANGED vars
  BY <1>9, StutterStep
<1> QED BY <1>1, <1>2, <1>3, <1>4, <1>5, <1>6, <1>7, <1>8, <1>9 DEF Next, AgentStep

THEOREM Invariance == Spec => []AgentInv
BY InitInv, NextInv, PTL DEF Spec

-----------------------------------------------------------------------------
(* The properties.                                                         *)

(* The types of all variables; a flush never exceeds its share.            *)
THEOREM TypeCorrect == Spec => []TypeOK
<1>1. AgentInv => TypeOK
  BY DEF AgentInv
<1> QED BY <1>1, Invariance, PTL

(* The globals of neb2amqp.c agree with each other and the connection.     *)
THEOREM LinkIsCoherent == Spec => []LinkCoherent
<1>1. AgentInv => LinkCoherent
  BY DEF AgentInv
<1> QED BY <1>1, Invariance, PTL

(* The check inside n2a_amqp_publish always finds the connection.          *)
THEOREM PublishAlwaysFindsLink == Spec => []PublishFindsLink
<1>1. AgentInv => PublishFindsLink
  BY DEF AgentInv
<1> QED BY <1>1, Invariance, PTL

(* Putting an event back after a failed publish never evicts another.      *)
THEOREM RequeueAlwaysFits == Spec => []RequeueFits
<1>1. AgentInv => RequeueFits
  BY DEF AgentInv
<1> QED BY <1>1, Invariance, PTL

(* n2a_csync never skips a queue with events in it.                        *)
THEOREM SkippedSyncIsAlwaysSafe == Spec => []SkippedSyncIsSafe
<1>1. AgentInv => SkippedSyncIsSafe
  BY DEF AgentInv, DirtyOrEmpty, SkippedSyncIsSafe
<1> QED BY <1>1, Invariance, PTL

(* What the file holds when the last step of n2a_csync unloads the module. *)
LEMMA LastStepStored ==
    ASSUME AgentInv, Next, Running, pc' = "down", faults' = faults
    PROVE  file' = queue \/ (queue = <<>> /\ ~dirty)
<1> USE DEF AgentInv, TypeOK
<1>0. faults \in Nat /\ faults' # faults + 1
  BY DEF WorldTypeOK
<1>1. SyncUpToDate \/ SyncOpenFails \/ SyncWriteEnd
  <2>1. ~AmqpCheck
    BY DEF AmqpCheck, CheckBlackout, CheckConnected, CheckTooSoon, AmqpConnect,
       CheckReturns, EndOfCall
  <2>2. ~FifoCheck
    BY DEF FifoCheck, FifoCheckFlush, FifoCheckNoFlush, FlushShift, FlushEnd,
       FlushRequeue, AutosyncNow, AutosyncLater
  <2>3. ~AmqpPublish
    BY DEF AmqpPublish, PublishReached, PublishIgnored, PublishSwallowed, PublishRefused,
       PublishWritten, PublishDone, PublishFailed, EndOfCall
  <2>4. ~SyncClear /\ ~SyncOpen /\ ~SyncWriteEvent
    BY DEF SyncClear, SyncOpen, SyncWriteEvent, callVars
  <2>5. ~Send /\ ~Callback
    BY DEF Send, SendDirectly, SendToQueue, PushEvent, EndOfCall, Callback, SendEvent
  <2>6. ~Control
    BY DEF Control, ModuleInit, ModuleDeinit, BlackoutOn, BlackoutOff, callVars
  <2>7. ~World
    BY DEF World, Crash, ConnectionDrops, ChannelCloses, BrokerGoesDown, BrokerComesUp,
       Tick, callVars, Running
  <2> QED BY <2>1, <2>2, <2>3, <2>4, <2>5, <2>6, <2>7 DEF Next, AgentStep, Csync
<1>2. CASE SyncUpToDate
  BY <1>2 DEF SyncUpToDate, DirtyOrEmpty
<1>3. CASE SyncOpenFails
  BY <1>3 DEF SyncOpenFails, Fault
<1>4. CASE SyncWriteEnd
  <2>1. pc = "write" /\ Len(file) = Len(queue) /\ file' = file
    BY <1>0, <1>4 DEF SyncWriteEnd, Fault
  <2>2. \A k \in 1..Len(file) : file[k] = queue[k]
    BY <2>1 DEF Writing
  <2> QED BY <2>1, <2>2 DEF DataTypeOK
<1> QED BY <1>1, <1>2, <1>3, <1>4

(***************************************************************************)
(* Unloading stores the cache: README's "the cache will always be stored   *)
(* when the module is unloaded", whatever failed before.                   *)
(***************************************************************************)
THEOREM UnloadStores == Spec => StoredAtUnload
<1>1. AgentInv /\ [Next]_vars
        => [Running /\ pc' = "down" /\ faults' = faults
              => file' = queue \/ (queue = <<>> /\ ~dirty)]_vars
  BY LastStepStored
<1> QED BY <1>1, Invariance, PTL DEF Spec, StoredAtUnload

-----------------------------------------------------------------------------
(* The agent keeps to the contract of its connection (module Link).        *)

LEMMA AmqpCheckLink == ASSUME AgentInv, AmqpCheck PROVE [L!Next]_L!lvars
<1>1. CASE CheckBlackout \/ CheckConnected \/ CheckTooSoon
  BY <1>1 DEF CheckBlackout, CheckConnected, CheckTooSoon, linkVars, L!lvars
<1>2. ASSUME NEW answer \in BOOLEAN, AmqpConnect(answer) PROVE L!Next
  BY <1>2 DEF AmqpConnect, ErrorsAfterConnect, L!Next, L!Connect
<1> QED BY <1>1, <1>2 DEF AmqpCheck

(* n2a_amqp_disconnect.                                                    *)
LEMMA DisconnectLink == ASSUME AmqpDisconnect PROVE L!Disconnect
BY DEF AmqpDisconnect, L!Disconnect

LEMMA PublishLink == ASSUME AgentInv, AmqpPublish PROVE [L!Next]_L!lvars
<1>1. PublishFailed => L!Next
  BY DisconnectLink DEF PublishFailed, L!Next
<1>2. ASSUME NEW lost, PublishWritten(lost) PROVE [L!Next]_L!lvars
  BY <1>1, <1>2 DEF PublishWritten, PublishDone, L!lvars
<1> QED BY <1>1, <1>2 DEF AmqpPublish, PublishReached, PublishIgnored, PublishSwallowed,
           PublishRefused

(* The end of n2a_csync may be the end of the module.                      *)
LEMMA CsyncLink == ASSUME AgentInv, Csync PROVE [L!Next]_L!lvars
<1>1. NoMemory => L!Next
  BY DEF NoMemory, Freed, L!Next, L!Restart
<1>2. ASSUME NEW d, SyncReturns(d) PROVE [L!Next]_L!lvars
  BY <1>1, <1>2 DEF SyncReturns, linkVars, L!lvars
<1> QED BY <1>2 DEF Csync, SyncUpToDate, SyncClear, SyncOpen, SyncOpenFails, SyncWriteEvent,
           SyncWriteEnd, linkVars, L!lvars

LEMMA WorldLink == ASSUME AgentInv, World PROVE [L!Next]_L!lvars
<1>1. Crash => L!Next
  BY DEF Crash, NoMemory, Freed, L!Next, L!Restart
<1>2. ConnectionDrops \/ ChannelCloses \/ BrokerGoesDown => [L!Next]_L!lvars
  BY DEF ConnectionDrops, ChannelCloses, BrokerGoesDown, PeerGone, L!Next, L!Breaks, L!lvars
<1>3. BrokerComesUp \/ Tick => UNCHANGED L!lvars
  BY DEF BrokerComesUp, Tick, linkVars, L!lvars
<1> QED BY <1>1, <1>2, <1>3 DEF World

LEMMA ControlLink == ASSUME AgentInv, Control PROVE [L!Next]_L!lvars
<1>1. ModuleDeinit \/ BlackoutOn => L!Next
  BY DisconnectLink DEF ModuleDeinit, BlackoutOn, L!Next
<1>2. ModuleInit \/ BlackoutOff => UNCHANGED L!lvars
  BY DEF ModuleInit, BlackoutOff, linkVars, L!lvars
<1> QED BY <1>1, <1>2 DEF Control

LEMMA QueueLink == ASSUME FifoCheck \/ Send \/ Callback PROVE UNCHANGED L!lvars
BY DEF FifoCheck, FifoCheckFlush, FifoCheckNoFlush, FlushShift, FlushEnd, FlushRequeue,
       AutosyncNow, AutosyncLater, Send, SendDirectly, SendToQueue, PushEvent, Callback,
       SendEvent, linkVars, L!lvars

(***************************************************************************)
(* Every step of the agent and of the world is a step of the connection,   *)
(* or none: the agent implements module Link.                              *)
(***************************************************************************)
THEOREM LinkImplemented == Spec => ImplementsLink
<1>1. Init => L!Init
  BY DEF Init, L!Init
<1>2. AgentInv /\ [Next]_vars => [L!Next]_L!lvars
  <2> SUFFICES ASSUME AgentInv, [Next]_vars PROVE [L!Next]_L!lvars
    OBVIOUS
  <2>1. CASE UNCHANGED vars
    BY <2>1 DEF vars, linkVars, L!lvars
  <2>2. CASE Next
    BY <2>2, AmqpCheckLink, PublishLink, CsyncLink, WorldLink, ControlLink, QueueLink
       DEF Next, AgentStep
  <2> QED BY <2>1, <2>2
<1> QED BY <1>1, <1>2, Invariance, PTL DEF Spec, ImplementsLink, L!Spec

-----------------------------------------------------------------------------
(* Every step with its history is a step of the agent, so AgentInv holds   *)
(* in every behaviour of HistSpec.                                         *)

LEMMA NumberedEvent == NumbersOK /\ nextId <= MaxEvents => nextId \in Event
BY HistAssumption DEF NumbersOK

LEMMA HistStepIsStep == NumbersOK /\ [HistNext]_<<vars, histVars>> => [Next]_vars
<1> SUFFICES ASSUME NumbersOK, [HistNext]_<<vars, histVars>> PROVE [Next]_vars
  OBVIOUS
<1>1. CASE HistSendEvent
  BY <1>1, NumberedEvent DEF HistSendEvent, Next, Callback
<1>2. CASE HistPublish \/ HistPublishLost
  BY <1>2 DEF HistPublish, HistPublishLost, Next, AgentStep, AmqpPublish
<1>3. CASE HistPush \/ HistSync
  BY <1>3 DEF HistPush, HistSync, Next, AgentStep, Send
<1>4. CASE HistInitModule \/ HistCrash
  BY <1>4 DEF HistInitModule, HistCrash, Next, Control, World
<1>5. CASE HistOther
  BY <1>5 DEF HistOther, Next, AgentStep, Control, World, AmqpPublish, Send
<1>6. CASE UNCHANGED <<vars, histVars>>
  BY <1>6
<1> QED BY <1>1, <1>2, <1>3, <1>4, <1>5, <1>6 DEF HistNext

-----------------------------------------------------------------------------
(* The line of events.                                                     *)

LEMMA LineType ==
    ASSUME AgentInv
    PROVE  /\ held \in Seq(Entry) /\ queue \in Seq(Entry) /\ arg \in Seq(Entry)
           /\ file \in Seq(Entry)
           /\ Line \in Seq(Entry)
<1>1. /\ held \in Seq(Entry) /\ queue \in Seq(Entry) /\ arg \in Seq(Event)
      /\ file \in Seq(Entry)
  BY DEF AgentInv, TypeOK, CallTypeOK, DataTypeOK
<1>2. arg \in Seq(Entry)
  BY <1>1, SeqMonotonic DEF Entry
<1> QED BY <1>1, <1>2, ConcatProperties DEF Line

(* A sequence of length 0 or 1.                                            *)
LEMMA ShortSequence ==
    ASSUME NEW S, NEW s \in Seq(S)
    PROVE  /\ Len(s) = 0 => s = <<>>
           /\ Len(s) = 1 => s = <<s[1]>> /\ s[1] \in S
<1>1. Len(s) = 0 => s = <<>>
  BY EmptySeq
<1>2. ASSUME Len(s) = 1 PROVE s = <<s[1]>> /\ s[1] \in S
  <2>1. s[1] \in S
    BY <1>2, ElementOfSeq, SMTT(20)
  <2>2. <<s[1]>> \in Seq(S) /\ Len(<<s[1]>>) = 1 /\ <<s[1]>>[1] = s[1]
    BY <2>1
  <2> QED BY <1>2, <2>1, <2>2, SeqEqual
<1> QED BY <1>1, <1>2

(* What is in the line while nothing is being flushed.                     *)
LEMMA LineOfQueue ==
    ASSUME AgentInv, held = <<>>
    PROVE  /\ Line = queue \o arg
           /\ arg = <<>> => Line = queue
BY LineType, ConcatEmptySeq DEF Line

(* The event that is published is the head of the line.                    *)
LEMMA HeadOfLine ==
    ASSUME AgentInv, LineInv, pc = "publish"
    PROVE  /\ Line = <<Sent>> \o (IF caller = "flush" THEN queue \o arg ELSE <<>>)
           /\ Sent \in Entry
           /\ caller = "flush" => Len(held) = 1
           /\ caller # "flush" => held = <<>> /\ queue = <<>>
<1>1. caller \in {"flush", "direct"}
  BY DEF AgentInv, Stack
<1>2. CASE caller = "flush"
  <2>1. Len(held) = 1
    BY <1>2 DEF AgentInv, Stack
  <2>2. held = <<held[1]>> /\ held[1] \in Entry
    BY <2>1, LineType, ShortSequence
  <2>3. Line = held \o (queue \o arg)
    BY LineType, ConcatAssociative, SMTT(20) DEF Line
  <2> QED BY <1>2, <2>1, <2>2, <2>3 DEF Sent
<1>3. CASE caller = "direct"
  <2>1. queue = <<>> /\ Len(held) = 0 /\ Len(arg) = 1
    BY <1>3 DEF AgentInv, Stack, LineInv
  <2>2. held = <<>> /\ arg = <<arg[1]>> /\ arg[1] \in Entry
    BY <2>1, LineType, ShortSequence
  <2>3. Line = arg
    BY <2>1, <2>2, LineType, ConcatEmptySeq DEF Line
  <2>4. arg = <<arg[1]>> \o <<>>
    BY <2>2, LineType, ConcatEmptySeq
  <2> QED BY <1>3, <2>1, <2>2, <2>3, <2>4 DEF Sent
<1> QED BY <1>1, <1>2, <1>3

-----------------------------------------------------------------------------
(* LineInv is inductive, given AgentInv.                                   *)

LEMMA LineInvInit == Init => LineInv
BY DEF Init, LineInv, Running

LEMMA LineInvNext == AgentInv /\ LineInv /\ [Next]_vars => LineInv'
<1> SUFFICES ASSUME AgentInv, LineInv, [Next]_vars PROVE LineInv'
  OBVIOUS
<1> USE DEF LineInv, Running
<1>1. CASE AmqpCheck
  <2>1. pc = "check" /\ queue' = queue /\ \E answer \in BOOLEAN : CheckReturns(answer)
    BY <1>1 DEF AmqpCheck, CheckBlackout, CheckConnected, CheckTooSoon, AmqpConnect, fifoVars
  <2>2. /\ caller' = "direct" /\ pc' # "push" => caller = "direct"
        /\ pc' \notin {"down", "crashed"} /\ caller' # "unload"
    BY <2>1 DEF CheckReturns, EndOfCall, AgentInv, Stack
  <2> QED BY <2>1, <2>2
<1>2. CASE FifoCheck
  <2>1. caller' \notin {"direct", "unload"} /\ pc' \notin {"down", "crashed"}
    BY <1>2 DEF FifoCheck, FifoCheckFlush, FifoCheckNoFlush, FlushShift, FlushEnd, FlushRequeue,
       AutosyncNow, AutosyncLater, AgentInv, Stack
  <2> QED BY <2>1
<1>3. CASE AmqpPublish
  <2>1. pc' \notin {"down", "crashed"} /\ (caller' = "direct" => pc' = "push")
        /\ caller' # "unload"
    BY <1>3 DEF AmqpPublish, PublishReached, PublishIgnored, PublishSwallowed, PublishRefused,
       PublishWritten, PublishDone, PublishFailed, EndOfCall, AgentInv, Stack
  <2> QED BY <2>1
<1>4. CASE Csync
  <2>1. ASSUME NEW d, SyncReturns(d), pc \in {"csync", "open", "write"} PROVE LineInv'
    BY <2>1 DEF SyncReturns, NoMemory, Freed, linkVars
  <2>2. CASE SyncClear \/ SyncOpen \/ SyncWriteEvent
    BY <2>2 DEF SyncClear, SyncOpen, SyncWriteEvent, callVars, linkVars, AgentInv, Stack
  <2> QED BY <1>4, <2>1, <2>2 DEF Csync, SyncUpToDate, SyncOpenFails, SyncWriteEnd
<1>5. CASE Send
  <2>1. CASE SendDirectly
    BY <2>1 DEF SendDirectly, PublishDirectly, fifoVars
  <2>2. CASE SendToQueue \/ PushEvent
    BY <2>2 DEF SendToQueue, PushEvent, EndOfCall, linkVars
  <2> QED BY <1>5, <2>1, <2>2 DEF Send
<1>6. CASE Callback
  BY <1>6 DEF Callback, SendEvent
<1>7. CASE Control
  BY <1>7 DEF Control, ModuleInit, ModuleDeinit, BlackoutOn, BlackoutOff, AmqpDisconnect, callVars,
     fifoVars, linkVars, AgentInv, Stack, AtRest
<1>8. CASE World
  BY <1>8 DEF World, Crash, NoMemory, Freed, ConnectionDrops, ChannelCloses, BrokerGoesDown,
     BrokerComesUp, Tick, PeerGone, callVars, fifoVars, linkVars
<1>9. CASE UNCHANGED vars
  BY <1>9 DEF vars, callVars, fifoVars, linkVars
<1> QED BY <1>1, <1>2, <1>3, <1>4, <1>5, <1>6, <1>7, <1>8, <1>9 DEF Next, AgentStep

-----------------------------------------------------------------------------
(* What the actions make of the line.                                      *)

LEMMA SameTruth == Running /\ Running' => Running' = Running
BY DEF Running

(* A step that leaves the line alone at most breaks the link.              *)
LEMMA QuietStep ==
    ASSUME Line' = Line, UNCHANGED <<file, bus>>,
           \/ Running /\ Running'
           \/ Running' = Running /\ conn' = conn
    PROVE  [R!Next]_R!rvars
<1> DEFINE sound == conn \notin {"mute", "dead"}
<1>1. Running' = Running
  BY DEF Running
<1>2. CASE sound' = sound
  BY <1>1, <1>2 DEF R!rvars
<1>3. CASE sound' # sound
  <2>1. Running /\ sound' = ~sound
    BY <1>3
  <2>2. R!LinkChanges
    BY <1>1, <2>1 DEF R!LinkChanges
  <2> QED BY <2>2 DEF R!Next
<1> QED BY <1>2, <1>3

LEMMA NewEventGoesLast ==
    ASSUME AgentInv, LineInv, NEW e \in Event, SendEvent(e)
    PROVE  /\ Running /\ Running' /\ UNCHANGED <<file, conn>>
           /\ Len(Line) <= CacheSize
           /\ Line' = Append(Line, e)
<1>1. Running /\ Running' /\ UNCHANGED <<file, conn, queue, held>> /\ arg' = <<e>>
  BY DEF SendEvent, Running, fifoVars, linkVars
<1>2. held = <<>> /\ arg = <<>>
  <2>1. Len(held) = 0 /\ Len(arg) = 0
    BY DEF AgentInv, Stack, SendEvent, AtRest
  <2> QED BY <2>1, LineType, ShortSequence
<1>3. Line = queue
  BY <1>2, LineOfQueue
<1>4. Len(queue) <= CacheSize
  BY <1>2, LineType, EmptyFacts DEF AgentInv, RequeueFits
<1>5. e \in Entry
  BY DEF Entry
<1>6. Line' = Append(queue, e)
  <2>1. Line' = (<<>> \o queue) \o <<e>>
    BY <1>1, <1>2 DEF Line
  <2> QED BY <2>1, <1>5, LineType, ConcatEmptySeq, AppendIsConcat
<1> QED BY <1>1, <1>3, <1>4, <1>6

(* Publishing takes the head of the line off, whatever becomes of it.      *)
LEMMA HeadLeavesLine ==
    ASSUME AgentInv, LineInv, pc = "publish", NEW lost, PublishWritten(lost)
    PROVE  /\ Running /\ Running' /\ UNCHANGED <<file, conn>>
           /\ Line # <<>> /\ Head(Line) = Sent /\ Line' = Tail(Line)
<1>1. PublishDone(lost) /\ UNCHANGED <<queue, file>>
  <2>1. ~amqp_errors
    BY DEF AgentInv, LinkCoherent, PublishFindsLink
  <2> QED BY <2>1 DEF PublishWritten, fifoVars
<1>2. Running /\ Running' /\ UNCHANGED <<file, conn>>
  BY <1>1 DEF PublishDone, EndOfCall, Running
<1>3. Line' = IF caller = "flush" THEN queue \o arg ELSE <<>>
  <2>1. CASE caller = "flush"
    <3>1. held' = <<>> /\ arg' = arg
      BY <1>1, <2>1 DEF PublishDone
    <3> QED BY <1>1, <2>1, <3>1, LineType, ConcatEmptySeq DEF Line
  <2>2. CASE caller # "flush"
    <3>1. held' = <<>> /\ arg' = <<>> /\ queue = <<>>
      BY <1>1, <2>2, HeadOfLine DEF PublishDone, EndOfCall
    <3> QED BY <1>1, <2>2, <3>1, EmptyFacts, ConcatEmptySeq DEF Line
  <2> QED BY <2>1, <2>2
<1>4. Line = <<Sent>> \o Line' /\ Sent \in Entry
  BY <1>3, HeadOfLine
<1>5. Line' \in Seq(Entry)
  BY <1>3, LineType, ConcatProperties
<1>6. Line # <<>> /\ Head(Line) = Sent
  BY <1>4, <1>5
<1>7. Tail(Line) = Line'
  <2>1. /\ Len(Line) = Len(Line') + 1
        /\ \A n \in 1..Len(Line') : Line[n + 1] = Line'[n]
    BY <1>4, <1>5
  <2>2. /\ Tail(Line) \in Seq(Entry) /\ Len(Tail(Line)) = Len(Line')
        /\ \A n \in 1..Len(Tail(Line)) : Tail(Line)[n] = Line'[n]
    BY <1>5, <1>6, <2>1, LineType, HeadTailProperties
  <2> QED BY <1>5, <2>2, SeqEqual
<1> QED BY <1>2, <1>6, <1>7

(* n2a_push at the end of the callback: the line stays as it is, or loses  *)
(* its head when the queue is full.                                        *)
LEMMA PushEvictsOldest ==
    ASSUME AgentInv, LineInv, PushEvent
    PROVE  /\ Running /\ Running' /\ UNCHANGED <<file, conn>>
           /\ Full(queue) => Len(Line) > CacheSize /\ Line' = Tail(Line)
           /\ ~Full(queue) => Line' = Line
<1>1. Running /\ Running' /\ UNCHANGED <<file, conn>>
  BY DEF PushEvent, EndOfCall, Running, linkVars
<1>2. held = <<>> /\ arg = <<arg[1]>> /\ arg[1] \in Entry
  <2>1. Len(held) = 0 /\ Len(arg) = 1
    BY DEF AgentInv, Stack, PushEvent
  <2> QED BY <2>1, LineType, ShortSequence
<1>3. Line = Append(queue, arg[1])
  BY <1>2, LineType, LineOfQueue, AppendIsConcat
<1>4. Line' = Push(queue, arg[1])
  <2>1. Push(queue, arg[1]) \in Seq(Entry)
    BY <1>2, LineType, PushFacts, EmptyFacts DEF AgentInv, RequeueFits
  <2> QED BY <2>1, ConcatEmptySeq DEF PushEvent, EndOfCall, Line
<1>5. CASE Full(queue)
  <2>1. Len(queue) >= CacheSize /\ queue # <<>>
    BY <1>5, FifoAssumption, EmptyFacts DEF Full
  <2>2. Tail(Line) = Append(Tail(queue), arg[1])
    BY <1>2, <1>3, <2>1, LineType, HeadTailAppend
  <2>3. Len(Line) > CacheSize
    BY <1>2, <1>3, <2>1, LineType, FifoAssumption, AppendProperties
  <2> QED BY <1>1, <1>4, <1>5, <2>2, <2>3 DEF Push, Shift
<1>6. CASE ~Full(queue)
  BY <1>1, <1>3, <1>4, <1>6 DEF Push
<1> QED BY <1>5, <1>6

(* n2a_fifo_check moves an event to `held' and back.                       *)
LEMMA ShiftKeepsLine ==
    ASSUME AgentInv, LineInv, FlushShift
    PROVE  Line' = Line
<1>1. held = <<>> /\ queue # <<>>
  <2>1. Len(held) = 0
    BY DEF AgentInv, Stack, FlushShift
  <2> QED BY <2>1, LineType, ShortSequence DEF FlushShift, MoreToFlush
<1>2. Head(queue) \in Entry /\ Tail(queue) \in Seq(Entry)
  BY <1>1, LineType, HeadTailProperties
<1>3. queue = <<Head(queue)>> \o Tail(queue)
  BY <1>1, <1>2, LineType
<1>4. Line' = (<<Head(queue)>> \o Tail(queue)) \o arg
  BY DEF FlushShift, Shift, Line
<1> QED BY <1>1, <1>3, <1>4, LineOfQueue

LEMMA RequeueKeepsLine ==
    ASSUME AgentInv, LineInv, FlushRequeue
    PROVE  Line' = Line
<1>1. Len(held) = 1
  BY DEF AgentInv, Stack, FlushRequeue
<1>2. held = <<held[1]>> /\ held[1] \in Entry
  BY <1>1, LineType, ShortSequence
<1>3. Len(queue) < CacheSize
  BY <1>1, LineType, FifoAssumption DEF AgentInv, RequeueFits
<1>4. queue' = held \o queue
  BY <1>2, <1>3, LineType, PrependFacts DEF FlushRequeue
<1>5. Line' = (<<>> \o queue') \o arg
  BY DEF FlushRequeue, Line
<1>6. <<>> \o queue' = queue'
  BY <1>4, LineType, ConcatProperties, ConcatEmptySeq
<1> QED BY <1>4, <1>5, <1>6 DEF Line

(* n2a_amqp_check, wherever it returns to.                                 *)
LEMMA CheckKeepsLine ==
    ASSUME AgentInv, LineInv, AmqpCheck
    PROVE  /\ Line' = Line /\ Running /\ Running' /\ file' = file
           /\ queue' = queue /\ dirty' = dirty /\ pc' \notin {"open", "write"}
<1>1. /\ pc = "check" /\ UNCHANGED <<queue, dirty, file>>
      /\ \E answer \in BOOLEAN : CheckReturns(answer)
  BY DEF AmqpCheck, CheckBlackout, CheckConnected, CheckTooSoon, AmqpConnect, fifoVars
<1>2. held' = held /\ arg' = arg
  <2>1. CASE caller = "init" /\ EndOfCall
    <3>1. Len(held) = 0 /\ Len(arg) = 0
      BY <1>1, <2>1 DEF AgentInv, Stack
    <3>2. held = <<>> /\ arg = <<>>
      BY <3>1, LineType, ShortSequence
    <3> QED BY <2>1, <3>2 DEF EndOfCall
  <2>2. CASE UNCHANGED <<held, arg>>
    BY <2>2
  <2> QED BY <1>1, <2>1, <2>2 DEF CheckReturns
<1>3. Running /\ Running' /\ pc' \notin {"open", "write"}
  BY <1>1 DEF CheckReturns, EndOfCall, Running
<1> QED BY <1>1, <1>2, <1>3 DEF Line

(* The actions of HistOther: the line, the file and what runs stay.        *)
LEMMA OtherKeepsLine ==
    ASSUME AgentInv, LineInv, HistOther
    PROVE  /\ Line' = Line /\ Running' = Running /\ file' = file
           /\ ~Running => conn' = conn
           /\ pc' \in {"open", "write"} => UNCHANGED <<pc, dirty>>
           /\ queue' = <<>> /\ ~dirty' => queue = <<>> /\ ~dirty
<1>1. CASE AmqpCheck
  BY <1>1, CheckKeepsLine
<1>2. CASE FlushShift \/ FlushRequeue
  BY <1>2, ShiftKeepsLine, RequeueKeepsLine DEF FlushShift, FlushRequeue, Running
<1>3. CASE FifoCheckFlush \/ FifoCheckNoFlush \/ FlushEnd \/ AutosyncNow \/ AutosyncLater
  BY <1>3 DEF FifoCheckFlush, FifoCheckNoFlush, FlushEnd, AutosyncNow, AutosyncLater,
     fifoVars, Line, Running
<1>4. CASE SendDirectly \/ SendToQueue \/ PublishRefused \/ ModuleDeinit
  BY <1>4 DEF SendDirectly, SendToQueue, PublishRefused, PublishFailed, ModuleDeinit,
     fifoVars, Line, Running
<1>5. CASE BlackoutOn \/ BlackoutOff \/ BrokerComesUp \/ Tick
  BY <1>5 DEF BlackoutOn, BlackoutOff, BrokerComesUp, Tick, callVars, fifoVars, linkVars,
     Line, Running
<1>6. CASE ConnectionDrops \/ ChannelCloses \/ BrokerGoesDown
  BY <1>6 DEF ConnectionDrops, ChannelCloses, BrokerGoesDown, PeerGone, callVars, fifoVars,
     Line, LineInv, Running
<1> QED BY <1>1, <1>2, <1>3, <1>4, <1>5, <1>6 DEF HistOther, FifoCheck

(* Without memory the line is empty.                                       *)
LEMMA NoMemoryNoLine ==
    /\ NoMemory => Line' = <<>> /\ conn' = "none"
    /\ Freed => Line' = <<>>
BY ConcatEmptySeq, EmptyFacts DEF NoMemory, Freed, Line

(* The prefix of the queue that is in the file while it is written.        *)
LEMMA FileIsPrefix ==
    ASSUME AgentInv, LineInv, pc \in {"csync", "open", "write"}
    PROVE  /\ held = <<>> /\ Line = queue \o arg
           /\ caller = "unload" => Line = queue
           /\ pc = "write" => Len(file) <= Len(queue) /\ file = SubSeq(Line, 1, Len(file))
<1>1. /\ held = <<>> /\ Line = queue \o arg
      /\ caller = "unload" => Line = queue
  <2>1. /\ Len(held) = 0
        /\ caller = "unload" => Len(arg) = 0
    BY DEF AgentInv, Stack
  <2> QED BY <2>1, LineType, ShortSequence, LineOfQueue
<1>2. ASSUME pc = "write"
      PROVE  Len(file) <= Len(queue) /\ file = SubSeq(Line, 1, Len(file))
  <2>1. Len(file) <= Len(queue) /\ \A k \in 1..Len(file) : file[k] = queue[k]
    BY <1>2 DEF AgentInv, Writing
  <2>2. \A k \in 1..Len(file) : Line[k] = file[k]
    BY <1>1, <2>1, LineType
  <2>3. /\ SubSeq(Line, 1, Len(file)) \in Seq(Entry)
        /\ Len(SubSeq(Line, 1, Len(file))) = Len(file)
        /\ \A k \in 1..Len(file) : SubSeq(Line, 1, Len(file))[k] = Line[k]
    <3>1. \A k \in 1..Len(file) : Line[k] \in Entry
      BY <2>2, LineType, ElementOfSeq
    <3>2. Len(file) \in Nat
      BY LineType, LenProperties
    <3> QED BY <3>1, <3>2, SubSeqProperties
  <2> QED BY <2>1, <2>2, <2>3, LineType, SeqEqual
<1> QED BY <1>1, <1>2

LEMMA NumbersNext ==
    ASSUME AgentInv, LineInv, NumbersOK, [HistNext]_<<vars, histVars>>
    PROVE  NumbersOK'
<1> USE DEF NumbersOK
<1>1. CASE HistSendEvent
  BY <1>1, HistAssumption DEF HistSendEvent
<1>2. CASE HistPublish
  <2>1. Sent \in Entry
    BY <1>2, HeadOfLine DEF HistPublish, PublishReached
  <2> QED BY <1>2, <2>1 DEF HistPublish
<1>3. CASE HistPublishLost \/ HistPush \/ HistInitModule \/ HistSync \/ HistCrash
  BY <1>3 DEF HistPublishLost, HistPush, HistInitModule, HistSync, HistCrash, Happened, Mishap
<1>4. CASE HistOther \/ UNCHANGED <<vars, histVars>>
  BY <1>4 DEF HistOther, histVars
<1> QED BY <1>1, <1>2, <1>3, <1>4 DEF HistNext

(* The end of n2a_csync: n2a_send_event goes on, or the module is gone.    *)
LEMMA SyncReturnsLine ==
    ASSUME AgentInv, LineInv, pc \in {"csync", "open", "write"}, NEW d, SyncReturns(d)
    PROVE  \/ /\ Running /\ Running' /\ Line' = Line /\ conn' = conn
              /\ pc' = "send" /\ queue' = queue /\ dirty' = d
           \/ /\ Running /\ ~Running' /\ Line' = <<>> /\ conn' = "none"
              /\ caller = "unload" /\ pc' = "down" /\ queue' = <<>>
<1>1. CASE caller = "autosync"
  BY <1>1 DEF SyncReturns, Running, Line, linkVars
<1>2. CASE caller = "unload"
  BY <1>2, NoMemoryNoLine DEF SyncReturns, NoMemory, Freed, Running, LineInv, linkVars
<1> QED BY <1>1, <1>2 DEF SyncReturns

(* A step of n2a_csync lengthens the prefix of the line that is saved.     *)
LEMMA SaveStep ==
    ASSUME AgentInv, LineInv, SyncClear \/ SyncWriteEvent, bus' = bus
    PROVE  R!Save
<1>1. /\ Running /\ Running' /\ UNCHANGED <<conn, queue, dirty>> /\ Line' = Line
  BY DEF SyncClear, SyncWriteEvent, Running, callVars, fifoVars, linkVars, Line
<1>2. \E n \in 0..Len(Line) : file' = SubSeq(Line, 1, n)
  <2>1. CASE SyncClear
    <3>1. file' = SubSeq(Line, 1, 0) /\ Len(Line) \in Nat
      BY <2>1, LineType, SubSeqEmpty, LenProperties DEF SyncClear
    <3> QED BY <3>1
  <2>2. CASE SyncWriteEvent
    <3> DEFINE n == Len(file) + 1
    <3>1. /\ Len(file) \in Nat /\ n \in 1..Len(queue) /\ file = SubSeq(Line, 1, Len(file))
          /\ file' = Append(file, queue[n])
      BY <2>2, FileIsPrefix, LineType, LenProperties DEF SyncWriteEvent
    <3>2. n \in 1..Len(Line) /\ Line[n] = queue[n] /\ queue[n] \in Entry
      BY <2>2, <3>1, FileIsPrefix, LineType, ConcatProperties, ElementOfSeq
         DEF SyncWriteEvent
    <3>3. SubSeq(Line, 1, n) = SubSeq(Line, 1, n - 1) \o <<Line[n]>>
      BY <3>2, LineType, SubSeqRecursiveSecond, SMTT(20)
    <3>4. file' = SubSeq(Line, 1, n)
      BY <3>1, <3>2, <3>3, LineType, AppendIsConcat
    <3>5. n \in 0..Len(Line)
      BY <3>2
    <3> QED BY <3>4, <3>5
  <2> QED BY <2>1, <2>2
<1> QED BY <1>1, <1>2 DEF R!Save

-----------------------------------------------------------------------------
(* Every step of the agent is a step of the relay, or none.                *)

LEMMA SendEventRelay == ASSUME AgentInv, LineInv, NumbersOK, HistSendEvent PROVE R!Next
<1>1. nextId \in Event /\ SendEvent(nextId) /\ bus' = bus
  BY NumberedEvent DEF HistSendEvent
<1>2. /\ Running /\ Running' = Running /\ UNCHANGED <<file, conn>>
      /\ Len(Line) <= CacheSize /\ Line' = Append(Line, nextId)
  BY <1>1, NewEventGoesLast, SameTruth
<1>3. R!Accept(nextId)
  BY <1>1, <1>2 DEF R!Accept
<1> QED BY <1>1, <1>3 DEF R!Next

LEMMA PublishRelay == ASSUME AgentInv, LineInv, HistPublish PROVE R!Next
<1>1. pc = "publish" /\ PublishWritten(0) /\ conn = "open" /\ bus' = Append(bus, Sent)
  BY DEF HistPublish, PublishReached
<1>2. /\ Running /\ Running' = Running /\ UNCHANGED <<file, conn>>
      /\ Line # <<>> /\ Head(Line) = Sent /\ Line' = Tail(Line)
  BY <1>1, HeadLeavesLine, SameTruth
<1>3. R!Deliver
  BY <1>1, <1>2 DEF R!Deliver
<1> QED BY <1>3 DEF R!Next

LEMMA PublishLostRelay == ASSUME AgentInv, LineInv, HistPublishLost PROVE R!Next
<1>1. /\ pc = "publish" /\ conn \in {"mute", "dead"} /\ bus' = bus
      /\ PublishWritten(0) \/ PublishWritten(1)
  BY DEF HistPublishLost, PublishIgnored, PublishSwallowed
<1>2. /\ Running /\ Running' = Running /\ UNCHANGED <<file, conn>>
      /\ Line # <<>> /\ Line' = Tail(Line)
  BY <1>1, HeadLeavesLine, SameTruth
<1>3. R!Lose
  BY <1>1, <1>2 DEF R!Lose
<1> QED BY <1>3 DEF R!Next

LEMMA PushRelay == ASSUME AgentInv, LineInv, HistPush PROVE [R!Next]_R!rvars
<1>1. PushEvent /\ bus' = bus
  BY DEF HistPush
<1>2. CASE Full(queue)
  <2>1. R!Evict
    BY <1>1, <1>2, PushEvictsOldest DEF R!Evict
  <2> QED BY <2>1 DEF R!Next
<1>3. CASE ~Full(queue)
  BY <1>1, <1>3, PushEvictsOldest, QuietStep
<1> QED BY <1>2, <1>3

(* The line a load finds in the file.                                      *)
LEMMA LoadedLine ==
    ASSUME AgentInv, LineInv, ModuleInit
    PROVE  /\ ~Running /\ Running' /\ UNCHANGED <<file, conn>>
           /\ Line = <<>> /\ Line' = queue'
           /\ \/ queue' = Loaded(file) /\ dirty' = TRUE
              \/ queue' = <<>> /\ dirty' = dirty
<1>1. ~Running /\ Running' /\ UNCHANGED <<file, conn, held, arg>>
  BY DEF ModuleInit, Running, linkVars
<1>2. held = <<>> /\ arg = <<>> /\ queue = <<>>
  <2>1. Len(held) = 0 /\ Len(arg) = 0 /\ queue = <<>>
    BY <1>1 DEF AgentInv, Stack, ModuleInit, AtRest, LineInv
  <2> QED BY <2>1, LineType, ShortSequence
<1>3. Line = <<>>
  BY <1>2, LineOfQueue
<1>4. \/ queue' = Loaded(file) /\ dirty' = TRUE
      \/ queue' = <<>> /\ dirty' = dirty
  BY <1>2 DEF ModuleInit, fifoVars
<1>5. queue' \in Seq(Entry)
  BY <1>4, LineType, LoadedFacts, EmptyFacts
<1>6. Line' = queue'
  BY <1>1, <1>2, <1>5, ConcatEmptySeq DEF Line
<1> QED BY <1>1, <1>3, <1>4, <1>6

LEMMA InitModuleRelay == ASSUME AgentInv, LineInv, HistInitModule PROVE R!Next
<1>1. ModuleInit /\ bus' = bus
  BY DEF HistInitModule
<1>2. Loaded(file) = R!Recovered
  BY DEF Loaded, R!Recovered
<1>3. Line' \in {R!Recovered, <<>>}
  BY <1>1, <1>2, LoadedLine
<1>4. R!Boot
  BY <1>1, <1>3, LoadedLine DEF R!Boot
<1> QED BY <1>4 DEF R!Next

LEMMA SyncRelay == ASSUME AgentInv, LineInv, HistSync PROVE [R!Next]_R!rvars
<1>1. Csync /\ bus' = bus
  BY DEF HistSync
<1>2. CASE SyncClear \/ SyncWriteEvent
  BY <1>1, <1>2, SaveStep DEF R!Next
<1>3. CASE SyncOpen
  <2>1. Line' = Line /\ Running /\ Running' /\ file' = file
    BY <1>3 DEF SyncOpen, fifoVars, Line, Running
  <2> QED BY <1>1, <2>1, QuietStep
<1>4. ASSUME NEW d, SyncReturns(d), pc \in {"csync", "open", "write"}, file' = file
      PROVE  [R!Next]_R!rvars
  <2>1. CASE Running /\ Running' /\ Line' = Line
    BY <1>1, <1>4, <2>1, QuietStep
  <2>2. CASE Running /\ ~Running' /\ Line' = <<>> /\ conn' = "none"
    BY <1>1, <1>4, <2>2 DEF R!Stop, R!Next
  <2> QED BY <1>4, <2>1, <2>2, SyncReturnsLine
<1> QED BY <1>1, <1>2, <1>3, <1>4 DEF Csync, SyncUpToDate, SyncOpenFails, SyncWriteEnd

LEMMA CrashRelay == ASSUME HistCrash PROVE R!Next
<1>1. Running /\ ~Running' /\ file' = file /\ bus' = bus /\ NoMemory
  BY DEF HistCrash, Crash, Running
<1> QED BY <1>1, NoMemoryNoLine DEF R!Stop, R!Next

(***************************************************************************)
(* The agent implements the relay: events leave it from the head of the    *)
(* line only, whatever the connection, the disk and the queue's limit do.  *)
(***************************************************************************)
THEOREM RelayImplemented == HistSpec => ImplementsRelay
<1> DEFINE Inv == AgentInv /\ LineInv /\ NumbersOK
<1>1. HistInit => Inv
  <2> SUFFICES ASSUME HistInit PROVE Inv
    OBVIOUS
  <2>1. NumbersOK
    BY HistAssumption, EmptyFacts DEF HistInit, NumbersOK
  <2> QED BY <2>1, InitInv, LineInvInit DEF HistInit
<1>2. Inv /\ [HistNext]_<<vars, histVars>> => Inv'
  <2> SUFFICES ASSUME Inv, [HistNext]_<<vars, histVars>> PROVE Inv'
    OBVIOUS
  <2>1. AgentInv' /\ LineInv'
    BY HistStepIsStep, NextInv, LineInvNext
  <2>2. NumbersOK'
    BY NumbersNext
  <2> QED BY <2>1, <2>2
<1>3. HistInit => R!Init
  <2> SUFFICES ASSUME HistInit PROVE R!Init
    OBVIOUS
  <2>1. Line = <<>>
    BY EmptyFacts, ConcatEmptySeq DEF HistInit, Init, Line
  <2> QED BY <2>1 DEF HistInit, Init, Running, R!Init
<1>4. Inv /\ [HistNext]_<<vars, histVars>> => [R!Next]_R!rvars
  <2> SUFFICES ASSUME Inv, [HistNext]_<<vars, histVars>> PROVE [R!Next]_R!rvars
    OBVIOUS
  <2>1. CASE HistOther
    BY <2>1, OtherKeepsLine, QuietStep DEF HistOther, histVars
  <2>2. CASE UNCHANGED <<vars, histVars>>
    BY <2>2 DEF vars, callVars, fifoVars, linkVars, histVars, Line, Running, R!rvars
  <2> QED BY <2>1, <2>2, SendEventRelay, PublishRelay, PublishLostRelay, PushRelay,
             InitModuleRelay, SyncRelay, CrashRelay DEF HistNext
<1> QED BY <1>1, <1>2, <1>3, <1>4, PTL DEF HistSpec, ImplementsRelay, R!Spec

-----------------------------------------------------------------------------
(* Sequences of numbered events.                                           *)

LEMMA EntryIsNumber == \A e \in Entry : e # Bogus => e \in Int
BY HistAssumption DEF Entry

LEMMA IncreasingAppend ==
    ASSUME NEW s \in Seq(Entry), NEW n \in Event, Increasing(s), Below(s, n)
    PROVE  Increasing(Append(s, n)) /\ Below(Append(s, n), n + 1)
<1> DEFINE t == Append(s, n)
<1>1. /\ n \in Int /\ n \in Entry
      /\ \A j \in 1..Len(s) : s[j] \in Entry
  BY HistAssumption, ElementOfSeq DEF Entry
<1>2. /\ Len(s) \in Nat /\ DOMAIN s = 1..Len(s)
      /\ DOMAIN t = 1..(Len(s) + 1)
      /\ t[Len(s) + 1] = n /\ \A j \in 1..Len(s) : t[j] = s[j]
  BY <1>1, AppendProperties, LenProperties
<1> HIDE DEF t
<1>3. Increasing(t)
  <2> SUFFICES ASSUME NEW j \in DOMAIN t, NEW k \in DOMAIN t,
                      j < k, t[j] # Bogus, t[k] # Bogus
               PROVE  t[j] < t[k]
    BY DEF Increasing
  <2>1. j \in DOMAIN s /\ t[j] = s[j]
    BY <1>2
  <2>2. CASE k \in DOMAIN s
    BY <1>2, <2>1, <2>2 DEF Increasing
  <2>3. CASE k = Len(s) + 1
    BY <1>2, <2>1, <2>3 DEF Below
  <2> QED BY <1>2, <2>2, <2>3
<1>4. Below(t, n + 1)
  <2> SUFFICES ASSUME NEW j \in DOMAIN t, t[j] # Bogus PROVE t[j] < n + 1
    BY DEF Below
  <2>1. CASE j \in DOMAIN s
    <3>1. s[j] \in Int /\ s[j] < n /\ t[j] = s[j]
      BY <1>1, <1>2, <2>1, EntryIsNumber DEF Below
    <3> QED BY <1>1, <3>1
  <2>2. CASE j = Len(s) + 1
    BY <1>1, <1>2, <2>2
  <2> QED BY <1>2, <2>1, <2>2
<1> QED BY <1>3, <1>4 DEF t

LEMMA IncreasingBogus ==
    ASSUME NEW s \in Seq(Entry), NEW n, Increasing(s), Below(s, n)
    PROVE  Increasing(Append(s, Bogus)) /\ Below(Append(s, Bogus), n)
<1> DEFINE t == Append(s, Bogus)
<1>1. /\ Len(s) \in Nat /\ DOMAIN s = 1..Len(s)
      /\ DOMAIN t = 1..(Len(s) + 1)
      /\ t[Len(s) + 1] = Bogus /\ \A j \in 1..Len(s) : t[j] = s[j]
  BY AppendProperties, LenProperties DEF Entry
<1> HIDE DEF t
<1>2. \A j \in DOMAIN t : t[j] # Bogus => j \in DOMAIN s /\ t[j] = s[j]
  BY <1>1
<1>3. Increasing(t)
  BY <1>2 DEF Increasing
<1>4. Below(t, n)
  BY <1>2 DEF Below
<1> QED BY <1>3, <1>4 DEF t

(* Dropping events from a place on, or up to a place, keeps the order.     *)
LEMMA IncreasingPart ==
    ASSUME NEW b \in Seq(Entry), NEW l \in Seq(Entry), NEW last,
           NEW m \in 1..(Len(l) + 1), NEW n \in 0..Len(l),
           Increasing(b \o l), Below(b \o l, last)
    PROVE  Increasing(b \o SubSeq(l, m, n)) /\ Below(b \o SubSeq(l, m, n), last)
<1> DEFINE u == SubSeq(l, m, n)
           s == b \o l
           t == b \o u
           k == IF m <= n THEN n - m + 1 ELSE 0
           g(j) == IF j <= Len(b) THEN j ELSE j + (m - 1)   \* its place in s
<1>1. Len(b) \in Nat /\ Len(l) \in Nat /\ m \in Nat /\ n \in Nat /\ m > 0 /\ k \in Nat
  BY LenProperties
<1>2. u \in Seq(Entry) /\ Len(u) = k /\ \A j \in 1..k : u[j] = l[m + j - 1]
  <2>1. \A j \in m..n : l[j] \in Entry
    BY <1>1, ElementOfSeq
  <2> QED BY <1>1, <2>1, SubSeqProperties
<1>3. /\ DOMAIN s = 1..(Len(b) + Len(l))
      /\ \A j \in DOMAIN s : s[j] = IF j <= Len(b) THEN b[j] ELSE l[j - Len(b)]
  BY ConcatProperties, LenProperties
<1>4. /\ DOMAIN t = 1..(Len(b) + k)
      /\ \A j \in DOMAIN t : t[j] = IF j <= Len(b) THEN b[j] ELSE u[j - Len(b)]
  BY <1>2, ConcatProperties, LenProperties
<1>5. ASSUME NEW j \in DOMAIN t PROVE g(j) \in DOMAIN s /\ t[j] = s[g(j)]
  <2>1. CASE j <= Len(b)
    BY <1>1, <1>3, <1>4, <2>1
  <2>2. CASE j > Len(b)
    <3>1. j \in 1..(Len(b) + k) /\ j - Len(b) \in 1..k
      BY <1>1, <1>4, <2>2
    <3>2. m <= n /\ k = n - m + 1
      BY <1>1, <3>1
    <3>3. j + (m - 1) \in DOMAIN s /\ j + (m - 1) > Len(b)
      BY <1>1, <1>3, <3>1, <3>2, SMTT(20)
    <3>4. g(j) = j + (m - 1)
      BY <1>1, <2>2, <3>1
    <3>5. u[j - Len(b)] = l[m + (j - Len(b)) - 1]
      BY <1>2, <3>1
    <3>6. m + (j - Len(b)) - 1 = g(j) - Len(b)
      BY <1>1, <3>1, <3>4
    <3>7. t[j] = u[j - Len(b)]
      BY <1>1, <1>4, <2>2, <3>1
    <3>8. s[g(j)] = l[g(j) - Len(b)]
      BY <1>1, <1>3, <3>1, <3>3, <3>4, SMTT(20)
    <3> QED BY <3>3, <3>4, <3>5, <3>6, <3>7, <3>8
  <2>3. j <= Len(b) \/ j > Len(b)
    BY <1>1, <1>4
  <2> QED BY <2>1, <2>2, <2>3
<1>6. \A i1, i2 \in DOMAIN t : i1 < i2 => g(i1) < g(i2)
  BY <1>1, <1>4
<1> HIDE DEF u, s, t, k, g
<1>7. Increasing(t)
  BY <1>5, <1>6 DEF Increasing, s
<1>8. Below(t, last)
  BY <1>5 DEF Below, s
<1> QED BY <1>7, <1>8 DEF t, u

(* The head of the line moves to the end of what was sent.                 *)
LEMMA HeadMoves ==
    ASSUME NEW b \in Seq(Entry), NEW l \in Seq(Entry), l # <<>>
    PROVE  Append(b, Head(l)) \o Tail(l) = b \o l
<1>1. Head(l) \in Entry /\ Tail(l) \in Seq(Entry) /\ <<Head(l)>> \in Seq(Entry)
  BY HeadTailProperties
<1>2. l = <<Head(l)>> \o Tail(l)
  BY <1>1
<1>3. Append(b, Head(l)) = b \o <<Head(l)>>
  BY <1>1, AppendIsConcat
<1>4. (b \o <<Head(l)>>) \o Tail(l) = b \o (<<Head(l)>> \o Tail(l))
  BY <1>1, ConcatAssociative
<1> QED BY <1>2, <1>3, <1>4

LEMMA AppendMoves ==
    ASSUME NEW b \in Seq(Entry), NEW l \in Seq(Entry), NEW e \in Entry
    PROVE  b \o Append(l, e) = Append(b \o l, e)
<1>1. <<e>> \in Seq(Entry) /\ b \o l \in Seq(Entry)
  BY ConcatProperties
<1>2. Append(l, e) = l \o <<e>> /\ Append(b \o l, e) = (b \o l) \o <<e>>
  BY <1>1, AppendIsConcat
<1> QED BY <1>1, <1>2, ConcatAssociative

LEMMA RangeAppend ==
    ASSUME NEW s \in Seq(Entry), NEW e \in Entry
    PROVE  Range(Append(s, e)) = Range(s) \cup {e}
<1>1. <<e>> \in Seq(Entry) /\ Len(<<e>>) = 1 /\ <<e>>[1] = e
  OBVIOUS
<1>2. Range(<<e>>) = {<<e>>[j] : j \in 1..1}
  BY <1>1, RangeEquality
<1>3. Range(<<e>>) = {e}
  BY <1>1, <1>2
<1>4. Append(s, e) = s \o <<e>>
  BY AppendIsConcat
<1>5. Range(s \o <<e>>) = Range(s) \cup Range(<<e>>)
  BY <1>1, RangeConcatenation, ZenonT(30)
<1> QED BY <1>3, <1>4, <1>5

LEMMA PublishLeavesQueue ==
    ASSUME NEW lost, pc = "publish", PublishWritten(lost)
    PROVE  UNCHANGED <<queue, dirty, file>> /\ pc' \notin {"open", "write"}
BY DEF PublishWritten, PublishDone, PublishFailed, EndOfCall, fifoVars

LEMMA PushIsDirty == PushEvent => FileIsCurrent'
BY DEF PushEvent, EndOfCall, FileIsCurrent

-----------------------------------------------------------------------------
(* The order and the accounting, in terms of what happens to the backlog.  *)

LEMMA BacklogType ==
    ASSUME HistInv
    PROVE  bus \in Seq(Entry) /\ Backlog \in Seq(Entry) /\ bus \o Backlog \in Seq(Entry)
<1>1. bus \in Seq(Entry) /\ Backlog \in Seq(Entry)
  BY LineType DEF HistInv, NumbersOK, Backlog
<1> QED BY <1>1, ConcatProperties

LEMMA SameBacklog ==
    ASSUME HistInv, bus' \o Backlog' = bus \o Backlog, nextId' = nextId,
           mishaps \subseteq mishaps'
    PROVE  InOrder' /\ OldEvents' /\ AllAccounted'
<1>1. FileWasKept' => FileWasKept
  BY DEF FileWasKept
<1>2. mishaps' = {} => mishaps = {}
  OBVIOUS
<1>3. InOrder'
  BY <1>1 DEF HistInv, InOrder, Increasing
<1>4. OldEvents'
  BY <1>1 DEF HistInv, OldEvents, Below
<1>5. AllAccounted'
  BY <1>2 DEF HistInv, AllAccounted
<1> QED BY <1>3, <1>4, <1>5

(* A part of the backlog is lost, which is a mishap.                       *)
LEMMA PartOfBacklog ==
    ASSUME HistInv, bus' = bus, nextId' = nextId,
           mishaps \subseteq mishaps', mishaps' # {},
           NEW m \in 1..(Len(Backlog) + 1), NEW n \in 0..Len(Backlog),
           Backlog' = SubSeq(Backlog, m, n)
    PROVE  InOrder' /\ OldEvents' /\ AllAccounted'
<1>1. AllAccounted'
  BY DEF AllAccounted
<1>2. ASSUME FileWasKept'
      PROVE  Increasing(bus \o Backlog') /\ Below(bus \o Backlog', nextId)
  <2>1. FileWasKept
    BY <1>2 DEF FileWasKept
  <2>2. Increasing(bus \o Backlog) /\ Below(bus \o Backlog, nextId)
    BY <2>1 DEF HistInv, InOrder, OldEvents
  <2> QED BY <2>2, BacklogType, IncreasingPart
<1>3. InOrder'
  BY <1>2 DEF InOrder, Increasing
<1>4. OldEvents'
  BY <1>2 DEF OldEvents, Below
<1> QED BY <1>1, <1>3, <1>4

LEMMA TailOfBacklog ==
    ASSUME HistInv, bus' = bus, nextId' = nextId,
           mishaps \subseteq mishaps', mishaps' # {},
           Backlog # <<>>, Backlog' = Tail(Backlog)
    PROVE  InOrder' /\ OldEvents' /\ AllAccounted'
<1>1. Len(Backlog) \in Nat \ {0}
  BY BacklogType, EmptySeq
<1>2. 2 \in 1..(Len(Backlog) + 1) /\ Len(Backlog) \in 0..Len(Backlog)
  BY <1>1
<1>3. Backlog' = SubSeq(Backlog, 2, Len(Backlog))
  BY BacklogType, TailIsSubSeq
<1> QED BY <1>2, <1>3, PartOfBacklog

-----------------------------------------------------------------------------
(* The actions keep the invariant.                                         *)

HistoryOK == InOrder /\ OldEvents /\ AllAccounted /\ FileIsCurrent

LEMMA SendEventHistory == ASSUME HistInv, HistSendEvent PROVE HistoryOK'
<1>1. /\ nextId \in Event /\ SendEvent(nextId) /\ nextId' = nextId + 1
      /\ bus' = bus /\ mishaps' = mishaps /\ nextId \in Nat
  BY NumberedEvent, HistAssumption DEF HistSendEvent, HistInv, NumbersOK
<1>2. /\ Running /\ Running' /\ file' = file /\ Line' = Append(Line, nextId)
  BY <1>1, NewEventGoesLast DEF HistInv
<1>3. bus' \o Backlog' = Append(bus \o Backlog, nextId)
  <2>1. Backlog = Line /\ Backlog' = Append(Line, nextId) /\ nextId \in Entry
    BY <1>1, <1>2 DEF Backlog, Entry
  <2> QED BY <1>1, <2>1, BacklogType, AppendMoves
<1>4. FileWasKept' => Increasing(bus' \o Backlog') /\ Below(bus' \o Backlog', nextId')
  <2> SUFFICES ASSUME FileWasKept PROVE Increasing(bus' \o Backlog')
                                        /\ Below(bus' \o Backlog', nextId')
    BY <1>1 DEF FileWasKept
  <2>1. Increasing(bus \o Backlog) /\ Below(bus \o Backlog, nextId)
    BY DEF HistInv, InOrder, OldEvents
  <2> QED BY <1>1, <1>3, <2>1, BacklogType, IncreasingAppend
<1>5. InOrder' /\ OldEvents'
  BY <1>4 DEF InOrder, OldEvents, Increasing, Below
<1>6. AllAccounted'
  <2> SUFFICES ASSUME mishaps = {}, NEW id \in 1..nextId
               PROVE  id \in Range(bus' \o Backlog')
    BY <1>1 DEF AllAccounted
  <2>1. Range(bus' \o Backlog') = Range(bus \o Backlog) \cup {nextId}
    BY <1>1, <1>3, BacklogType, RangeAppend DEF Entry
  <2>2. id # nextId => id \in Range(bus \o Backlog)
    BY <1>1 DEF HistInv, AllAccounted
  <2> QED BY <2>1, <2>2
<1>7. FileIsCurrent'
  BY <1>1, <1>2 DEF SendEvent, HistInv, FileIsCurrent, FileWasKept, fifoVars
<1> QED BY <1>5, <1>6, <1>7 DEF HistoryOK

LEMMA PublishHistory == ASSUME HistInv, HistPublish PROVE HistoryOK'
<1>1. /\ pc = "publish" /\ PublishWritten(0) /\ bus' = Append(bus, Sent)
      /\ nextId' = nextId /\ mishaps' = mishaps
  BY DEF HistPublish, PublishReached
<1>2. /\ Running /\ Running' /\ file' = file
      /\ Line # <<>> /\ Head(Line) = Sent /\ Line' = Tail(Line)
  BY <1>1, HeadLeavesLine DEF HistInv
<1>3. bus' \o Backlog' = bus \o Backlog
  BY <1>1, <1>2, BacklogType, HeadMoves DEF Backlog
<1>4. FileIsCurrent'
  BY <1>1, <1>2, PublishLeavesQueue DEF HistInv, FileIsCurrent, FileWasKept
<1> QED BY <1>1, <1>3, <1>4, SameBacklog DEF HistoryOK

LEMMA PublishLostHistory == ASSUME HistInv, HistPublishLost PROVE HistoryOK'
<1>1. /\ pc = "publish" /\ bus' = bus /\ nextId' = nextId
      /\ PublishWritten(0) \/ PublishWritten(1)
      /\ mishaps' = mishaps \cup {"link"}
  BY DEF HistPublishLost, PublishIgnored, PublishSwallowed, Happened
<1>2. /\ Running /\ Running' /\ file' = file /\ Line # <<>> /\ Line' = Tail(Line)
  BY <1>1, HeadLeavesLine DEF HistInv
<1>3. Backlog # <<>> /\ Backlog' = Tail(Backlog)
  BY <1>2 DEF Backlog
<1>4. InOrder' /\ OldEvents' /\ AllAccounted'
  BY <1>1, <1>3, TailOfBacklog
<1>5. FileIsCurrent'
  BY <1>1, <1>2, PublishLeavesQueue DEF HistInv, FileIsCurrent, FileWasKept
<1> QED BY <1>4, <1>5 DEF HistoryOK

LEMMA PushHistory == ASSUME HistInv, HistPush PROVE HistoryOK'
<1>1. /\ PushEvent /\ bus' = bus /\ nextId' = nextId
      /\ mishaps' = IF Full(queue) THEN mishaps \cup {"full"} ELSE mishaps
  BY DEF HistPush, Happened
<1>2. /\ Running /\ Running'
      /\ Full(queue) => Len(Line) > CacheSize /\ Line' = Tail(Line)
      /\ ~Full(queue) => Line' = Line
  BY <1>1, PushEvictsOldest DEF HistInv
<1>3. Backlog = Line /\ Backlog' = Line'
  BY <1>2 DEF Backlog
<1>4. CASE Full(queue)
  <2>1. Backlog # <<>> /\ Backlog' = Tail(Backlog)
    BY <1>2, <1>3, <1>4, EmptyFacts, FifoAssumption
  <2> QED BY <1>1, <1>4, <2>1, TailOfBacklog, PushIsDirty DEF HistoryOK
<1>5. CASE ~Full(queue)
  <2>1. bus' \o Backlog' = bus \o Backlog
    BY <1>1, <1>2, <1>3, <1>5
  <2> QED BY <1>1, <1>5, <2>1, SameBacklog, PushIsDirty DEF HistoryOK
<1> QED BY <1>4, <1>5

LEMMA InitModuleHistory == ASSUME HistInv, HistInitModule PROVE HistoryOK'
<1>1. /\ ModuleInit /\ bus' = bus /\ nextId' = nextId
      /\ \/ /\ queue' = <<>>
            /\ mishaps' = IF file # <<>> THEN mishaps \cup {"unread"} ELSE mishaps
         \/ /\ queue' # <<>>
            /\ mishaps' = IF Len(file) >= CacheSize THEN mishaps \cup {"full"} ELSE mishaps
  BY DEF HistInitModule, Happened
<1>2. /\ ~Running /\ Running' /\ file' = file /\ Line' = queue'
      /\ \/ queue' = Loaded(file) /\ dirty' = TRUE
         \/ queue' = <<>> /\ dirty' = dirty
  BY <1>1, LoadedLine DEF HistInv
<1>3. Backlog = file /\ Backlog' = queue' /\ file \in Seq(Entry)
  BY <1>2, LineType DEF Backlog, HistInv
<1>4. CASE queue' = <<>> /\ file # <<>>
  <2>1. ~FileWasKept' /\ mishaps' # {} /\ pc' \notin {"open", "write"}
    BY <1>1, <1>4 DEF FileWasKept, ModuleInit
  <2> QED BY <2>1 DEF HistoryOK, InOrder, OldEvents, AllAccounted, FileIsCurrent
<1>5. CASE queue' = <<>> /\ file = <<>>
  <2>1. bus' \o Backlog' = bus \o Backlog /\ mishaps' = mishaps
    BY <1>1, <1>3, <1>5
  <2>2. FileIsCurrent'
    BY <1>1, <1>2, <1>5 DEF FileIsCurrent, ModuleInit
  <2> QED BY <1>1, <2>1, <2>2, SameBacklog DEF HistoryOK
<1>6. CASE queue' = Loaded(file) /\ dirty' = TRUE /\ queue' # <<>>
  <2> DEFINE all == Append(file, Bogus)
             skip == IF Len(all) > CacheSize THEN Len(all) - CacheSize ELSE 0
  <2>1. all \in Seq(Entry) /\ Len(all) = Len(file) + 1 /\ Len(file) \in Nat /\ Bogus \in Entry
    BY <1>3, AppendProperties, LenProperties DEF Entry
  <2>2. skip + 1 \in 1..(Len(all) + 1) /\ Len(all) \in 0..Len(all)
    BY <2>1, FifoAssumption
  <2>3. Backlog' = SubSeq(all, skip + 1, Len(all))
    BY <1>3, <1>6 DEF Loaded
  <2>4. bus \o all = Append(bus \o Backlog, Bogus)
    BY <1>3, <2>1, BacklogType, AppendMoves
  <2>5. mishaps \subseteq mishaps'
    BY <1>1
  <2>6. FileWasKept' => Increasing(bus' \o Backlog') /\ Below(bus' \o Backlog', nextId')
    <3> SUFFICES ASSUME FileWasKept
                 PROVE  Increasing(bus' \o Backlog') /\ Below(bus' \o Backlog', nextId')
      BY <2>5 DEF FileWasKept
    <3>1. Increasing(bus \o Backlog) /\ Below(bus \o Backlog, nextId)
      BY DEF HistInv, InOrder, OldEvents
    <3>2. Increasing(bus \o all) /\ Below(bus \o all, nextId)
      BY <2>4, <3>1, BacklogType, IncreasingBogus
    <3> HIDE DEF all, skip
    <3> QED BY <1>1, <2>1, <2>2, <2>3, <3>2, BacklogType, IncreasingPart
  <2>7. InOrder' /\ OldEvents'
    BY <2>6 DEF InOrder, OldEvents, Increasing, Below
  <2>8. AllAccounted'
    <3> SUFFICES ASSUME mishaps' = {}, NEW id \in 1..(nextId - 1)
                 PROVE  id \in Range(bus' \o Backlog')
      BY <1>1 DEF AllAccounted
    <3>1. Len(file) < CacheSize /\ mishaps = {}
      <4>1. mishaps' = IF Len(file) >= CacheSize THEN mishaps \cup {"full"} ELSE mishaps
        BY <1>1, <1>6
      <4>2. ~(Len(file) >= CacheSize)
        BY <4>1
      <4> QED BY <2>1, <4>1, <4>2, FifoAssumption
    <3>2. Len(all) <= CacheSize
      BY <2>1, <3>1, FifoAssumption
    <3>3. skip = 0
      BY <2>1, <3>2, FifoAssumption
    <3>4. Backlog' = all
      BY <2>1, <2>3, <3>3, SubSeqFull
    <3>5. id \in Range(bus \o Backlog)
      BY <3>1 DEF HistInv, AllAccounted
    <3>6. Range(bus' \o Backlog') = Range(bus \o Backlog) \cup {Bogus}
      BY <1>1, <2>1, <2>4, <3>4, BacklogType, RangeAppend
    <3> QED BY <3>5, <3>6
  <2>9. FileIsCurrent'
    BY <1>6 DEF FileIsCurrent
  <2> QED BY <2>7, <2>8, <2>9 DEF HistoryOK
<1> QED BY <1>1, <1>2, <1>4, <1>5, <1>6

(* n2a_csync only moves the file; when it is the last thing the module     *)
(* does, what is left to be sent is what the file holds.                   *)
LEMMA SyncHistory == ASSUME HistInv, HistSync PROVE HistoryOK'
<1>1. /\ Csync /\ bus' = bus /\ nextId' = nextId
      /\ mishaps' = IF faults' # faults THEN mishaps \cup {"disk"} ELSE mishaps
  BY DEF HistSync, Happened
<1>2. AgentInv /\ LineInv /\ FileIsCurrent
  BY DEF HistInv
<1>3. CASE SyncClear \/ SyncOpen \/ SyncWriteEvent
  <2>1. /\ Running /\ Running' /\ Line' = Line /\ UNCHANGED <<queue, dirty>> /\ dirty
    BY <1>2, <1>3 DEF SyncClear, SyncOpen, SyncWriteEvent, callVars, fifoVars, Line, Running,
       FileIsCurrent
  <2>2. bus' \o Backlog' = bus \o Backlog
    BY <1>1, <2>1 DEF Backlog
  <2>3. FileIsCurrent'
    BY <2>1 DEF FileIsCurrent
  <2> QED BY <1>1, <2>2, <2>3, SameBacklog DEF HistoryOK
<1>4. ASSUME NEW d, SyncReturns(d), pc \in {"csync", "open", "write"}, file' = file,
             d = TRUE \/ (queue = <<>> /\ FileWasKept => file = <<>>),
             faults' = faults => file = queue \/ (queue = <<>> /\ ~dirty)
      PROVE  HistoryOK'
  <2>1. CASE Running /\ Running' /\ Line' = Line /\ pc' = "send" /\ queue' = queue /\ dirty' = d
    <3>1. bus' \o Backlog' = bus \o Backlog
      BY <1>1, <2>1 DEF Backlog
    <3>2. FileIsCurrent'
      BY <1>1, <1>4, <2>1 DEF FileIsCurrent, FileWasKept
    <3> QED BY <1>1, <3>1, <3>2, SameBacklog DEF HistoryOK
  <2>2. CASE /\ Running /\ ~Running' /\ Line' = <<>> /\ caller = "unload"
             /\ pc' = "down" /\ queue' = <<>>
    <3>1. Line = queue /\ Backlog = queue /\ Backlog' = file
      BY <1>2, <1>4, <2>2, FileIsPrefix DEF Backlog
    <3>2. FileIsCurrent'
      BY <2>2 DEF FileIsCurrent
    <3>3. CASE file = queue
      BY <1>1, <3>1, <3>2, <3>3, SameBacklog DEF HistoryOK
    <3>4. CASE file # queue /\ faults' = faults
      <4>1. queue = <<>> /\ ~dirty
        BY <1>4, <3>4
      <4>2. ~FileWasKept
        BY <1>2, <2>2, <3>4, <4>1 DEF FileIsCurrent
      <4>3. ~FileWasKept' /\ mishaps' # {}
        BY <1>1, <3>4, <4>2 DEF FileWasKept
      <4> QED BY <3>2, <4>3 DEF HistoryOK, InOrder, OldEvents, AllAccounted
    <3>5. CASE faults' # faults /\ pc = "write"
      <4>1. Len(file) \in 0..Len(Backlog) /\ file = SubSeq(Backlog, 1, Len(file))
        BY <1>2, <3>1, <3>5, FileIsPrefix, LineType
      <4>2. mishaps' = mishaps \cup {"disk"}
        BY <1>1, <3>5
      <4>3. 1 \in 1..(Len(Backlog) + 1)
        BY <4>1
      <4> QED BY <1>1, <3>1, <3>2, <4>1, <4>2, <4>3, PartOfBacklog DEF HistoryOK
    <3>6. CASE faults' # faults /\ pc = "open"
      <4>1. file = <<>> /\ Len(Backlog) \in Nat
        BY <1>2, <3>1, <3>6, LineType, LenProperties DEF AgentInv, Writing
      <4>2. file = SubSeq(Backlog, 1, 0)
        BY <4>1, SubSeqEmpty
      <4>3. mishaps' = mishaps \cup {"disk"}
        BY <1>1, <3>6
      <4>4. 1 \in 1..(Len(Backlog) + 1) /\ 0 \in 0..Len(Backlog)
        BY <4>1
      <4> QED BY <1>1, <3>1, <3>2, <4>2, <4>3, <4>4, PartOfBacklog DEF HistoryOK
    <3>7. pc = "csync" => faults' = faults
      BY <1>1 DEF Csync, SyncUpToDate, SyncClear, SyncOpen, SyncOpenFails, SyncWriteEvent,
         SyncWriteEnd
    <3> QED BY <1>4, <3>3, <3>4, <3>5, <3>6, <3>7
  <2> QED BY <1>2, <1>4, <2>1, <2>2, SyncReturnsLine
<1>5. CASE SyncUpToDate
  <2>1. queue = <<>> /\ ~dirty /\ Running
    BY <1>2, <1>5 DEF SyncUpToDate, AgentInv, DirtyOrEmpty, Running
  <2>2. FileWasKept => file = <<>>
    BY <1>2, <2>1 DEF FileIsCurrent
  <2> QED BY <1>4, <1>5, <2>1, <2>2 DEF SyncUpToDate
<1>6. CASE SyncOpenFails
  <2>1. dirty = TRUE
    BY <1>2, <1>6 DEF SyncOpenFails, FileIsCurrent, AgentInv, TypeOK, FlagTypeOK
  <2>2. faults' # faults
    BY <1>2, <1>6 DEF SyncOpenFails, Fault, AgentInv, TypeOK, WorldTypeOK
  <2> QED BY <1>4, <1>6, <2>1, <2>2 DEF SyncOpenFails
<1>7. CASE SyncWriteEnd
  <2>1. Len(file) <= Len(queue) /\ \A k \in 1..Len(file) : file[k] = queue[k]
    BY <1>2, <1>7 DEF SyncWriteEnd, AgentInv, Writing
  <2>2. queue = <<>> => file = <<>>
    BY <1>2, <2>1, LineType, EmptySeq
  <2>3. faults' = faults => file = queue
    <3>1. faults' = faults => Len(file) = Len(queue)
      BY <1>2, <1>7 DEF SyncWriteEnd, Fault, AgentInv, TypeOK, WorldTypeOK
    <3> QED BY <1>2, <2>1, <3>1, LineType, SeqEqual
  <2> QED BY <1>4, <1>7, <2>2, <2>3 DEF SyncWriteEnd
<1> QED BY <1>1, <1>3, <1>5, <1>6, <1>7 DEF Csync

LEMMA CrashHistory == ASSUME HistInv, HistCrash PROVE HistoryOK'
<1>1. ~FileWasKept' /\ mishaps' # {} /\ pc' \notin {"open", "write"}
  BY DEF HistCrash, Crash, Happened, FileWasKept
<1> QED BY <1>1 DEF HistoryOK, InOrder, OldEvents, AllAccounted, FileIsCurrent

LEMMA OtherHistory == ASSUME HistInv, HistOther PROVE HistoryOK'
<1>1. /\ Line' = Line /\ Running' = Running /\ file' = file
      /\ pc' \in {"open", "write"} => UNCHANGED <<pc, dirty>>
      /\ queue' = <<>> /\ ~dirty' => queue = <<>> /\ ~dirty
  BY OtherKeepsLine DEF HistInv
<1>2. bus' = bus /\ nextId' = nextId /\ mishaps' = mishaps
  BY DEF HistOther, histVars
<1>3. bus' \o Backlog' = bus \o Backlog
  BY <1>1, <1>2 DEF Backlog
<1>4. FileIsCurrent'
  BY <1>1, <1>2 DEF HistInv, FileIsCurrent, FileWasKept
<1> QED BY <1>2, <1>3, <1>4, SameBacklog DEF HistoryOK

LEMMA HistInvInit == HistInit => HistInv
<1> SUFFICES ASSUME HistInit PROVE HistInv
  OBVIOUS
<1>1. AgentInv /\ LineInv
  BY InitInv, LineInvInit DEF HistInit
<1>2. NumbersOK
  BY HistAssumption, EmptyFacts DEF HistInit, NumbersOK
<1>3. bus \o Backlog = <<>> /\ DOMAIN <<>> = {}
  BY EmptyFacts, ConcatEmptySeq DEF HistInit, Init, Backlog, Running
<1>4. InOrder /\ OldEvents
  BY <1>3 DEF InOrder, OldEvents, Increasing, Below
<1>5. AllAccounted
  BY DEF HistInit, AllAccounted
<1>6. FileIsCurrent
  BY DEF HistInit, Init, FileIsCurrent
<1> QED BY <1>1, <1>2, <1>4, <1>5, <1>6 DEF HistInv

LEMMA HistInvNext == HistInv /\ [HistNext]_<<vars, histVars>> => HistInv'
<1> SUFFICES ASSUME HistInv, [HistNext]_<<vars, histVars>> PROVE HistInv'
  OBVIOUS
<1>1. AgentInv' /\ LineInv' /\ NumbersOK'
  BY HistStepIsStep, NextInv, LineInvNext, NumbersNext DEF HistInv
<1>2. CASE HistNext
  <2>1. HistoryOK'
    BY <1>2, SendEventHistory, PublishHistory, PublishLostHistory, PushHistory,
       InitModuleHistory, SyncHistory, CrashHistory, OtherHistory DEF HistNext
  <2> QED BY <1>1, <2>1 DEF HistInv, HistoryOK
<1>3. CASE UNCHANGED <<vars, histVars>>
  <2>1. /\ UNCHANGED <<pc, queue, dirty, file, bus, nextId, mishaps>>
        /\ UNCHANGED <<held, arg>>
    BY <1>3 DEF vars, callVars, fifoVars, histVars
  <2>2. bus' \o Backlog' = bus \o Backlog
    BY <2>1 DEF Backlog, Line, Running
  <2>3. FileIsCurrent'
    BY <2>1 DEF HistInv, FileIsCurrent, FileWasKept, Running
  <2> QED BY <1>1, <2>1, <2>2, <2>3, SameBacklog DEF HistInv
<1> QED BY <1>2, <1>3

(* What was sent and what is left to be sent are the events, in order.     *)
THEOREM HistInvariance == HistSpec => []HistInv
BY HistInvInit, HistInvNext, PTL DEF HistSpec

(***************************************************************************)
(* The order of the events survives outages, full queues, failed saves,    *)
(* unloading and loading again.                                            *)
(***************************************************************************)
THEOREM OrderIsKept == HistSpec => []InOrder
<1>1. HistInv => InOrder
  BY DEF HistInv
<1> QED BY <1>1, HistInvariance, PTL

(* Before a mishap, every event is on the bus, in memory or in the file.   *)
THEOREM NothingIsLost == HistSpec => []NothingLost
<1>1. HistInv => NothingLost
  <2> SUFFICES ASSUME HistInv, mishaps = {}, NEW id \in 1..(nextId - 1)
               PROVE  id \in Range(bus \o Line \o file)
    BY DEF NothingLost
  <2>1. id \in Range(bus \o Backlog)
    BY DEF HistInv, AllAccounted
  <2>2. bus \in Seq(Entry) /\ Line \in Seq(Entry) /\ file \in Seq(Entry)
    BY LineType DEF HistInv, NumbersOK
  <2> DEFINE both == bus \o Line
  <2>3. both \in Seq(Entry) /\ Range(both) = Range(bus) \cup Range(Line)
    BY <2>2, ConcatProperties, RangeConcatenation
  <2>4. Range(bus \o file) = Range(bus) \cup Range(file)
    BY <2>2, RangeConcatenation
  <2>5. id \in Range(both) \/ id \in Range(file)
    BY <2>1, <2>3, <2>4 DEF Backlog
  <2> HIDE DEF both
  <2>6. Range(both \o file) = Range(both) \cup Range(file)
    BY <2>2, <2>3, RangeConcatenation
  <2> QED BY <2>5, <2>6 DEF both
<1> QED BY <1>1, HistInvariance, PTL
=============================================================================
