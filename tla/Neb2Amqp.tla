------------------------------ MODULE Neb2Amqp ------------------------------
(***************************************************************************)
(* The agent: the Nagios event-broker module that turns Nagios callbacks   *)
(* into AMQP messages (src/neb2amqp.c), with the cache it keeps in memory  *)
(* and on disk (src/fifo.c), its loading and unloading (src/module.c), and *)
(* the world around it: Nagios, the AMQP broker, the disk and the clock.   *)
(*                                                                         *)
(* The agent has one thread, Nagios' own.  A callback runs from            *)
(* n2a_send_event to its return and is modelled step by step, because the  *)
(* world does not wait for it: the broker may vanish, the disk may fail    *)
(* and Nagios may be killed between any two steps.                         *)
(*                                                                         *)
(* Abstractions: an event is a value; the bytes of the cache file are      *)
(* grouped into events (see Loaded in module Fifo); the wall clock does    *)
(* not go backwards and advances between callbacks only; and a timestamp   *)
(* is kept as its age, which stops growing at the value of the option the  *)
(* code compares it with.  The timestamp 0 is an age at its limit.         *)
(***************************************************************************)
EXTENDS Fifo

CONSTANTS FlushOption,    \* option flush: events per flush, -1 to compute it
          FlushInterval,  \* option flush_interval, in ticks of the clock
          Autosync,       \* option autosync, in ticks of the clock
          AmqpWaitTime,   \* option amqp_wait_time, in ticks of the clock
          SockBuf,        \* publishes a dead connection accepts before it errs
          Faults,         \* the kinds of fault that may happen
          MaxFaults       \* bound: how many of them

(***************************************************************************)
(* "drop": the connection dies.  "broker": the broker goes down.           *)
(* "channel": the broker closes the channel.  "open": the cache file       *)
(* cannot be opened.  "write": it cannot be written to the end.  "crash":  *)
(* the Nagios process dies.                                                *)
(***************************************************************************)
FaultKind == {"drop", "broker", "channel", "open", "write", "crash"}

ASSUME AgentAssumption ==
    /\ FlushOption \in Int /\ (FlushOption > 0 \/ FlushOption = -1)
    /\ FlushInterval \in Int
    /\ Autosync \in Int
    /\ AmqpWaitTime \in Int
    /\ SockBuf \in Nat
    /\ Faults \subseteq FaultKind
    /\ MaxFaults \in Nat

VARIABLES
    pc,            \* where the agent is
    caller,        \* on whose behalf: what happens after the current function
    arg,           \* the event of the current callback, as a sequence
    amqp_state,    \* local of n2a_send_event
    i,             \* local of n2a_fifo_check: events flushed so far
    held,          \* the event shifted off the queue, as a sequence
    queue,         \* the fifo
    dirty,         \* pFifo->dirty: the fifo changed since it was last saved
    file,          \* the cache file; <<>> also when there is none
    connected,     \* amqp_connected
    amqp_errors,   \* amqp_errors
    blackout,      \* blackout
    conn,          \* what the connection object is worth
    swallowed,     \* publishes lost in the current dead connection
    broker,        \* whether the AMQP broker accepts connections
    sinceConnect,  \* age of amqp_last_connect
    sinceFlush,    \* age of fifo_last_flush
    sinceSync,     \* age of fifo_last_sync
    faults         \* faults so far

callVars  == <<pc, caller, arg, amqp_state, i, held>>
fifoVars  == <<queue, dirty>>
linkVars  == <<connected, amqp_errors, conn, swallowed>>
clockVars == <<sinceConnect, sinceFlush, sinceSync>>
vars == <<callVars, fifoVars, file, linkVars, blackout, broker, clockVars, faults>>

-----------------------------------------------------------------------------
(* The values of the variables.                                            *)

AtRest  == {"idle", "down", "crashed"}
InFlow  == {"check", "fifo_check", "flush", "publish", "requeue", "autosync",
            "csync", "open", "write", "send", "push"}
Callers == {"none", "init", "send", "flush", "autosync", "direct", "unload"}

(***************************************************************************)
(* "none": conn is NULL.  "failed": an object whose connection attempt     *)
(* failed.  "open": a working connection.  "mute": the broker closed the   *)
(* channel and ignores what is published on it; the agent reads nothing    *)
(* from the socket and does not know.  "dead": the peer is gone.           *)
(***************************************************************************)
ConnState == {"none", "failed", "open", "mute", "dead"}
Usable    == {"open", "mute", "dead"}

(* An age stops at the limit it is compared with, or at 0 below that.      *)
Limit(option)      == IF option > 0 THEN option ELSE 0
Older(age, option) == IF age < Limit(option) THEN age + 1 ELSE age

-----------------------------------------------------------------------------
(***************************************************************************)
(* The decisions the code takes.  The operators marked "defect" are wrong  *)
(* versions of the one that follows them: no action uses them, they are    *)
(* there to show that the properties below can fail.                       *)
(***************************************************************************)

(* n2a_amqp_check: time to try to connect again.                           *)
ReconnectDue == sinceConnect >= AmqpWaitTime

ErrorsKeptOnConnect(ok) == amqp_errors \/ ~ok   \* defect: errors not reset

(* n2a_amqp_connect resets amqp_errors, and sets it if a stage fails.      *)
ErrorsAfterConnect(ok) == ~ok

(* n2a_fifo_check: time to send a part of the backlog.                     *)
FlushDue == connected /\ queue # <<>> /\ sinceFlush >= FlushInterval

FlushNothing == 0   \* defect: the option -1 taken as a count
FlushOne == 1       \* defect: the option ignored

(* How many events one flush sends at most.                                *)
FlushCount == IF FlushOption # -1 THEN FlushOption
              ELSE IF CacheSize \div 5 > 1000 THEN 1000 ELSE CacheSize \div 5

OneMoreToFlush == i <= FlushCount /\ queue # <<>>   \* defect: off by one

(* The loop of n2a_fifo_check goes on.                                     *)
MoreToFlush == i < FlushCount /\ queue # <<>>

(* n2a_fifo_check: time to save the queue.                                 *)
SyncDue == sinceSync >= Autosync

DirectWhenUp == amqp_state   \* defect: the queue is overtaken

(* n2a_send_event: publish without queueing.                               *)
PublishDirectly == amqp_state /\ queue = <<>>

FlagTypeOK ==
    /\ amqp_state \in BOOLEAN
    /\ dirty \in BOOLEAN
    /\ connected \in BOOLEAN
    /\ amqp_errors \in BOOLEAN
    /\ blackout \in BOOLEAN

CallTypeOK ==
    /\ pc \in AtRest \cup InFlow
    /\ caller \in Callers
    /\ arg \in Seq(Event) /\ Len(arg) <= 1
    /\ i \in 0..FlushCount
    /\ held \in Seq(Entry) /\ Len(held) <= 1

DataTypeOK == queue \in Seq(Entry) /\ file \in Seq(Entry)

LinkTypeOK == conn \in ConnState /\ swallowed \in 0..SockBuf

WorldTypeOK ==
    /\ broker \in {"up", "down"}
    /\ sinceConnect \in 0..Limit(AmqpWaitTime)
    /\ sinceFlush \in 0..Limit(FlushInterval)
    /\ sinceSync \in 0..Limit(Autosync)
    /\ faults \in 0..MaxFaults

TypeOK == FlagTypeOK /\ CallTypeOK /\ DataTypeOK /\ LinkTypeOK /\ WorldTypeOK

-----------------------------------------------------------------------------
(* Parts of actions.                                                       *)

Fault(kind) == kind \in Faults /\ faults < MaxFaults /\ faults' = faults + 1

(* Nothing is left of the calls and of the queue.                          *)
Freed == /\ caller' = "none" /\ arg' = <<>> /\ amqp_state' = FALSE /\ i' = 0 /\ held' = <<>>
         /\ queue' = <<>> /\ dirty' = FALSE

(* The module's memory, as the loader leaves it and as it is lost.         *)
NoMemory ==
    /\ Freed
    /\ connected' = FALSE /\ amqp_errors' = FALSE /\ blackout' = FALSE
    /\ conn' = "none" /\ swallowed' = 0
    /\ sinceConnect' = Limit(AmqpWaitTime)
    /\ sinceFlush' = Limit(FlushInterval)
    /\ sinceSync' = Limit(Autosync)

(* A callback, or a call from Nagios to the module, returns.               *)
EndOfCall == /\ pc' = "idle" /\ caller' = "none" /\ amqp_state' = FALSE
             /\ i' = 0 /\ held' = <<>> /\ arg' = <<>>

(***************************************************************************)
(* n2a_amqp_disconnect.  Closing the channel and the connection talks to   *)
(* the peer, and a peer that is gone makes the closing functions report an *)
(* error: amqp_errors may be left TRUE.                                    *)
(***************************************************************************)
AmqpDisconnect ==
    /\ amqp_errors' \in (IF connected /\ conn # "open" THEN BOOLEAN ELSE {FALSE})
    /\ connected' = FALSE
    /\ conn' = "none"
    /\ swallowed' = 0

(***************************************************************************)
(* What follows n2a_amqp_check: nebmodule_init returns; n2a_send_event     *)
(* keeps the answer in a local and goes on; n2a_amqp_publish publishes or  *)
(* gives up.                                                               *)
(***************************************************************************)
CheckReturns(answer) ==
    \/ caller = "init" /\ EndOfCall
    \/ /\ caller = "send"
       /\ pc' = "fifo_check" /\ amqp_state' = answer
       /\ UNCHANGED <<caller, arg, i, held>>
    \/ /\ caller = "flush"
       /\ pc' = IF answer THEN "publish" ELSE "requeue"
       /\ UNCHANGED <<caller, arg, amqp_state, i, held>>
    \/ /\ caller = "direct"
       /\ pc' = IF answer THEN "publish" ELSE "push"
       /\ UNCHANGED <<caller, arg, amqp_state, i, held>>

-----------------------------------------------------------------------------
(* Loading and unloading the module.                                       *)

(* nebmodule_init: the fifo is created and filled from the cache file.     *)
ModuleInit ==
    /\ pc \in {"down", "crashed"}
    /\ \/ queue' = Loaded(file) /\ dirty' = TRUE /\ UNCHANGED faults
       \/ Fault("open") /\ UNCHANGED fifoVars
    /\ pc' = "check" /\ caller' = "init"
    /\ UNCHANGED <<arg, amqp_state, i, held, file, linkVars, blackout, broker, clockVars>>

DeinitWithoutSync ==   \* defect: the queue is freed unsaved
    /\ pc = "idle"
    /\ pc' = "down"
    /\ NoMemory
    /\ UNCHANGED <<file, broker, faults>>

(* nebmodule_deinit: disconnect, then n2a_free_fifo, which saves first.    *)
ModuleDeinit ==
    /\ pc = "idle"
    /\ AmqpDisconnect
    /\ pc' = "csync" /\ caller' = "unload"
    /\ UNCHANGED <<arg, amqp_state, i, held, fifoVars, file, blackout, broker, clockVars, faults>>

-----------------------------------------------------------------------------
(* n2a_amqp_check and n2a_amqp_connect.                                    *)

CheckBlackout ==
    /\ pc = "check" /\ blackout
    /\ CheckReturns(FALSE)
    /\ UNCHANGED <<fifoVars, file, linkVars, blackout, broker, clockVars, faults>>

CheckConnected ==
    /\ pc = "check" /\ ~blackout /\ connected
    /\ CheckReturns(TRUE)
    /\ UNCHANGED <<fifoVars, file, linkVars, blackout, broker, clockVars, faults>>

(* The last attempt is too recent to try again.                            *)
CheckTooSoon ==
    /\ pc = "check" /\ ~blackout /\ ~connected
    /\ ~ReconnectDue
    /\ CheckReturns(FALSE)
    /\ UNCHANGED <<fifoVars, file, linkVars, blackout, broker, clockVars, faults>>

(***************************************************************************)
(* n2a_amqp_connect, called by n2a_amqp_check: opens the socket, logs in,  *)
(* opens the channel and declares the exchange.  It starts by forgetting   *)
(* earlier errors; any of its stages may set amqp_errors again.  Success   *)
(* sets fifo_last_flush to 0 so that the backlog is flushed at once.  (The *)
(* broker may go down or the connection drop right after this step.)       *)
(***************************************************************************)
AmqpConnect(answer) ==
    /\ pc = "check" /\ ~blackout /\ ~connected
    /\ ReconnectDue
    /\ answer = (broker = "up")
    /\ sinceConnect' = 0
    /\ connected' = answer
    /\ conn' = IF answer THEN "open" ELSE "failed"
    /\ swallowed' = 0
    /\ sinceFlush' = IF answer THEN Limit(FlushInterval) ELSE sinceFlush
    /\ amqp_errors' = ErrorsAfterConnect(answer)
    /\ CheckReturns(answer)
    /\ UNCHANGED <<fifoVars, file, blackout, broker, sinceSync, faults>>

-----------------------------------------------------------------------------
(* n2a_send_event, and n2a_fifo_check which it calls.                      *)

(* A Nagios callback has formatted an event and calls n2a_send_event.      *)
SendEvent(e) ==
    /\ pc = "idle"
    /\ arg' = <<e>>
    /\ pc' = "check" /\ caller' = "send"
    /\ UNCHANGED <<amqp_state, i, held, fifoVars, file, linkVars, blackout, broker, clockVars, faults>>

FifoCheckFlush ==
    /\ pc = "fifo_check" /\ FlushDue
    /\ pc' = "flush" /\ caller' = "flush"
    /\ UNCHANGED <<arg, amqp_state, i, held, fifoVars, file, linkVars, blackout, broker, clockVars, faults>>

FifoCheckNoFlush ==
    /\ pc = "fifo_check" /\ ~FlushDue
    /\ pc' = "autosync"
    /\ UNCHANGED <<caller, arg, amqp_state, i, held, fifoVars, file, linkVars, blackout, broker, clockVars, faults>>

(* One turn of the loop: an event leaves the queue to be published.        *)
FlushShift ==
    /\ pc = "flush" /\ MoreToFlush
    /\ held' = <<Head(queue)>>
    /\ queue' = Shift(queue) /\ dirty' = TRUE
    /\ pc' = "check"
    /\ UNCHANGED <<caller, arg, amqp_state, i, file, linkVars, blackout, broker, clockVars, faults>>

(* The loop has sent its share, or shifted from an empty queue.            *)
FlushEnd ==
    /\ pc = "flush" /\ ~MoreToFlush
    /\ sinceFlush' = 0
    /\ pc' = "autosync" /\ caller' = "send" /\ i' = 0
    /\ UNCHANGED <<arg, amqp_state, held, fifoVars, file, linkVars, blackout, broker, sinceConnect, sinceSync, faults>>

RequeueAndRetry ==   \* defect: no break
    /\ pc = "requeue"
    /\ queue' = Prepend(queue, held[1]) /\ dirty' = TRUE
    /\ held' = <<>>
    /\ pc' = "flush"
    /\ UNCHANGED <<caller, i, arg, amqp_state, file, linkVars, blackout, broker, clockVars, faults>>

(* Publishing failed in the loop: the event goes back and the loop stops.  *)
FlushRequeue ==
    /\ pc = "requeue"
    /\ queue' = Prepend(queue, held[1]) /\ dirty' = TRUE
    /\ held' = <<>>
    /\ sinceFlush' = 0
    /\ pc' = "autosync" /\ caller' = "send" /\ i' = 0
    /\ UNCHANGED <<arg, amqp_state, file, linkVars, blackout, broker, sinceConnect, sinceSync, faults>>

AutosyncNow ==
    /\ pc = "autosync" /\ SyncDue
    /\ pc' = "csync" /\ caller' = "autosync"
    /\ UNCHANGED <<arg, amqp_state, i, held, fifoVars, file, linkVars, blackout, broker, clockVars, faults>>

AutosyncLater ==
    /\ pc = "autosync" /\ ~SyncDue
    /\ pc' = "send"
    /\ UNCHANGED <<caller, arg, amqp_state, i, held, fifoVars, file, linkVars, blackout, broker, clockVars, faults>>

SendDirectly ==
    /\ pc = "send" /\ PublishDirectly
    /\ pc' = "check" /\ caller' = "direct"
    /\ UNCHANGED <<arg, amqp_state, i, held, fifoVars, file, linkVars, blackout, broker, clockVars, faults>>

SendToQueue ==
    /\ pc = "send" /\ ~PublishDirectly
    /\ pc' = "push"
    /\ UNCHANGED <<caller, arg, amqp_state, i, held, fifoVars, file, linkVars, blackout, broker, clockVars, faults>>

PushStaysClean ==   \* defect: the queue is not marked dirty
    /\ pc = "push"
    /\ queue' = Push(queue, arg[1]) /\ dirty' = dirty
    /\ EndOfCall
    /\ UNCHANGED <<file, linkVars, blackout, broker, clockVars, faults>>

(* n2a_push of the callback's event, the last thing the callback does.     *)
PushEvent ==
    /\ pc = "push"
    /\ queue' = Push(queue, arg[1]) /\ dirty' = TRUE
    /\ EndOfCall
    /\ UNCHANGED <<file, linkVars, blackout, broker, clockVars, faults>>

-----------------------------------------------------------------------------
(* n2a_amqp_publish, once n2a_amqp_check has answered TRUE.                *)

(* The caller drops its copy of an event that was published.               *)
PublishDone(lost) ==
    /\ \/ /\ caller = "flush"
          /\ pc' = "flush" /\ held' = <<>> /\ i' = i + 1
          /\ UNCHANGED <<caller, arg, amqp_state>>
       \/ caller = "direct" /\ EndOfCall
    /\ swallowed' = swallowed + lost
    /\ UNCHANGED <<connected, amqp_errors, conn>>

FailedLikeDone ==   \* defect: the answer FALSE is not looked at
    /\ AmqpDisconnect
    /\ \/ /\ caller = "flush"
          /\ pc' = "flush" /\ held' = <<>> /\ i' = i + 1
          /\ UNCHANGED <<caller, arg, amqp_state>>
       \/ caller = "direct" /\ EndOfCall

(* An error: disconnect and answer FALSE, and the caller keeps the event.  *)
PublishFailed ==
    /\ AmqpDisconnect
    /\ pc' = IF caller = "flush" THEN "requeue" ELSE "push"
    /\ UNCHANGED <<caller, arg, amqp_state, i, held>>

(* The code tests the global amqp_errors, not the result of the call: an   *)
(* error left from earlier counts.                                         *)
PublishWritten(lost) ==
    /\ IF amqp_errors THEN PublishFailed ELSE PublishDone(lost)
    /\ UNCHANGED <<fifoVars, file, blackout, broker, clockVars, faults>>

(* The message reaches the broker.                                         *)
PublishReached == pc = "publish" /\ conn = "open" /\ PublishWritten(0)

(* The broker closed the channel: it ignores the message, nobody errs.     *)
PublishIgnored == pc = "publish" /\ conn = "mute" /\ PublishWritten(0)

(* The peer is gone: the buffer of the socket takes the message.           *)
PublishSwallowed ==
    pc = "publish" /\ conn = "dead" /\ swallowed < SockBuf /\ PublishWritten(1)

(* The peer is gone: writing fails, n2a_on_error sets amqp_errors.         *)
PublishRefused ==
    /\ pc = "publish" /\ conn = "dead"
    /\ PublishFailed
    /\ UNCHANGED <<fifoVars, file, blackout, broker, clockVars, faults>>

-----------------------------------------------------------------------------
(* n2a_csync.                                                              *)

(***************************************************************************)
(* n2a_csync returns to n2a_fifo_check, or to n2a_free_fifo, which frees   *)
(* the queue; the module is then unloaded.  Its globals are gone with it,  *)
(* or stay as they are if the library stays mapped.  `d' is what n2a_csync *)
(* leaves in dirty.                                                        *)
(***************************************************************************)
SyncReturns(d) ==
    \/ /\ caller = "autosync"
       /\ pc' = "send" /\ caller' = "send"
       /\ sinceSync' = 0
       /\ dirty' = d
       /\ UNCHANGED <<arg, amqp_state, i, held, queue, linkVars, blackout, sinceConnect, sinceFlush>>
    \/ /\ caller = "unload"
       /\ pc' = "down"
       /\ NoMemory \/ (Freed /\ UNCHANGED <<linkVars, blackout, clockVars>>)

SyncUpToDate ==
    /\ pc = "csync" /\ ~dirty
    /\ SyncReturns(FALSE)
    /\ UNCHANGED <<file, broker, faults>>

(* n2a_clear: the old file is removed before the new one is written.       *)
SyncClear ==
    /\ pc = "csync" /\ dirty
    /\ file' = <<>>
    /\ pc' = "open"
    /\ UNCHANGED <<caller, arg, amqp_state, i, held, fifoVars, linkVars, blackout, broker, clockVars, faults>>

SyncOpen ==
    /\ pc = "open"
    /\ pc' = "write"
    /\ UNCHANGED <<caller, arg, amqp_state, i, held, fifoVars, file, linkVars, blackout, broker, clockVars, faults>>

(* The file cannot be opened: nothing is saved, the queue stays dirty.     *)
SyncOpenFails ==
    /\ pc = "open" /\ Fault("open")
    /\ SyncReturns(dirty)
    /\ UNCHANGED <<file, broker>>

SyncWriteEvent ==
    /\ pc = "write" /\ Len(file) < Len(queue)
    /\ file' = Append(file, queue[Len(file) + 1])
    /\ UNCHANGED <<callVars, fifoVars, linkVars, blackout, broker, clockVars, faults>>

WriteEndStaysDirty ==   \* defect: dirty not reset
    /\ pc = "write" /\ Len(file) = Len(queue)
    /\ SyncReturns(dirty)
    /\ UNCHANGED <<file, broker, faults>>

(***************************************************************************)
(* The loop over the list ends and the file is flushed.  The results of    *)
(* fprintf and fflush are not looked at: when the disk takes no more, what *)
(* follows is missing from the file and the queue still counts as saved.   *)
(***************************************************************************)
SyncWriteEnd ==
    /\ pc = "write"
    /\ \/ Len(file) = Len(queue) /\ UNCHANGED faults
       \/ Len(file) < Len(queue) /\ Fault("write")
    /\ SyncReturns(FALSE)
    /\ UNCHANGED <<file, broker>>

-----------------------------------------------------------------------------
(* n2a_toggle_blackout, called between callbacks.                          *)

BlackoutOn ==
    /\ pc = "idle" /\ ~blackout
    /\ AmqpDisconnect
    /\ blackout' = TRUE
    /\ UNCHANGED <<callVars, fifoVars, file, broker, clockVars, faults>>

BlackoutOff ==
    /\ pc = "idle" /\ blackout
    /\ blackout' = FALSE
    /\ UNCHANGED <<callVars, fifoVars, file, linkVars, broker, clockVars, faults>>

-----------------------------------------------------------------------------
(* The world around the agent.                                             *)

(* A process that is killed takes its memory along, not the file.          *)
Crash ==
    /\ pc \notin {"down", "crashed"} /\ Fault("crash")
    /\ pc' = "crashed"
    /\ NoMemory
    /\ UNCHANGED <<file, broker>>

PeerGone == IF conn \in {"open", "mute"} THEN "dead" ELSE conn

ConnectionDrops ==
    /\ conn \in {"open", "mute"} /\ Fault("drop")
    /\ conn' = PeerGone
    /\ UNCHANGED <<callVars, fifoVars, file, connected, amqp_errors, swallowed, blackout, broker, clockVars>>

ChannelCloses ==
    /\ conn = "open" /\ Fault("channel")
    /\ conn' = "mute"
    /\ UNCHANGED <<callVars, fifoVars, file, connected, amqp_errors, swallowed, blackout, broker, clockVars>>

BrokerGoesDown ==
    /\ broker = "up" /\ Fault("broker")
    /\ broker' = "down"
    /\ conn' = PeerGone
    /\ UNCHANGED <<callVars, fifoVars, file, connected, amqp_errors, swallowed, blackout, clockVars>>

BrokerComesUp ==
    /\ broker = "down"
    /\ broker' = "up"
    /\ UNCHANGED <<callVars, fifoVars, file, linkVars, blackout, clockVars, faults>>

(* One unit of time passes between two callbacks, or until the next load.  *)
Tick ==
    /\ pc \in {"idle", "down"}
    /\ sinceConnect' = Older(sinceConnect, AmqpWaitTime)
    /\ sinceFlush' = Older(sinceFlush, FlushInterval)
    /\ sinceSync' = Older(sinceSync, Autosync)
    /\ UNCHANGED <<callVars, fifoVars, file, linkVars, blackout, broker, faults>>

-----------------------------------------------------------------------------
(* The specification.                                                      *)

Init ==
    /\ pc = "down" /\ caller = "none"
    /\ arg = <<>> /\ amqp_state = FALSE /\ i = 0 /\ held = <<>>
    /\ queue = <<>> /\ dirty = FALSE
    /\ file = <<>>
    /\ connected = FALSE /\ amqp_errors = FALSE /\ blackout = FALSE
    /\ conn = "none" /\ swallowed = 0
    /\ broker \in {"up", "down"}
    /\ sinceConnect = Limit(AmqpWaitTime)
    /\ sinceFlush = Limit(FlushInterval)
    /\ sinceSync = Limit(Autosync)
    /\ faults = 0

AmqpCheck == \/ CheckBlackout \/ CheckConnected \/ CheckTooSoon
             \/ \E answer \in BOOLEAN : AmqpConnect(answer)

FifoCheck == \/ FifoCheckFlush \/ FifoCheckNoFlush
             \/ FlushShift \/ FlushEnd \/ FlushRequeue
             \/ AutosyncNow \/ AutosyncLater

AmqpPublish == PublishReached \/ PublishIgnored \/ PublishSwallowed \/ PublishRefused

Csync == \/ SyncUpToDate \/ SyncClear \/ SyncOpen \/ SyncOpenFails
         \/ SyncWriteEvent \/ SyncWriteEnd

Send == SendDirectly \/ SendToQueue \/ PushEvent

(* The steps the agent takes by itself once it was called.                 *)
AgentStep == AmqpCheck \/ FifoCheck \/ AmqpPublish \/ Csync \/ Send

Callback == \E e \in Event : SendEvent(e)

Control == ModuleInit \/ ModuleDeinit \/ BlackoutOn \/ BlackoutOff

World == Crash \/ ConnectionDrops \/ ChannelCloses \/ BrokerGoesDown \/ BrokerComesUp \/ Tick

Next == AgentStep \/ Callback \/ Control \/ World

Spec == Init /\ [][Next]_vars

(***************************************************************************)
(* Fairness.  The agent runs on Nagios' thread and does not wait, so a     *)
(* call that was made runs to its end.  Nagios never stops checking hosts  *)
(* and services while it runs, so callbacks keep coming: they are all that *)
(* drives the agent, which has neither thread nor timer.  Time passes even *)
(* if callbacks keep the agent busy most of the time, hence the strong     *)
(* fairness of Tick.  A broker that went down is started again.            *)
(***************************************************************************)
Fairness == /\ WF_vars(AgentStep)
            /\ WF_vars(Callback)
            /\ SF_vars(Tick)
            /\ WF_vars(BrokerComesUp)

FairSpec == Spec /\ Fairness

-----------------------------------------------------------------------------
(* Safety.                                                                 *)

Running == pc \notin {"down", "crashed"}

(***************************************************************************)
(* The three globals of neb2amqp.c and the connection object agree: the    *)
(* agent thinks it is connected exactly when the object went through a     *)
(* successful n2a_amqp_connect, no error of an earlier connection is left  *)
(* to be taken for an error of this one (n2a_amqp_publish tests the global *)
(* only), and a blackout leaves no connection behind.                      *)
(***************************************************************************)
LinkCoherent ==
    /\ connected <=> conn \in Usable
    /\ connected => ~amqp_errors
    /\ blackout => ~connected

(***************************************************************************)
(* n2a_amqp_publish checks the connection again before it publishes, in    *)
(* the middle of a flush and after n2a_fifo_check may have lost the        *)
(* connection that amqp_state was computed from.  That second check always *)
(* finds the connection: it never reconnects, which would reset            *)
(* fifo_last_flush under n2a_fifo_check's feet, and never answers FALSE.   *)
(***************************************************************************)
PublishFindsLink ==
    pc = "publish" \/ (pc = "check" /\ caller \in {"flush", "direct"}) => connected /\ ~blackout

(***************************************************************************)
(* The queue and the event taken off it to be published never exceed the   *)
(* capacity together, so putting that event back after a failed publish    *)
(* never evicts the newest event (n2a_prepend would pop it).               *)
(***************************************************************************)
RequeueFits == Len(held) + Len(queue) <= CacheSize

(***************************************************************************)
(* n2a_csync does nothing when the queue is not dirty.  That never leaves  *)
(* an event unsaved, not even one that an earlier n2a_csync failed to      *)
(* write without looking at the result: it happens to an empty queue only, *)
(* because a callback that saved a queue with events in it goes on to push *)
(* one more.                                                               *)
(***************************************************************************)
SkippedSyncIsSafe == pc = "csync" /\ ~dirty => queue = <<>>

(***************************************************************************)
(* README: "the cache will always be stored when the module is unloaded".  *)
(* When the module is gone, its file holds the queue it had and no event   *)
(* that was sent since, unless the file could not be opened or written at  *)
(* that very moment.  Only an empty queue that nothing was ever put into,  *)
(* or that was saved as such, leaves the file alone.                       *)
(***************************************************************************)
StoredAtUnload ==
    [][Running /\ pc' = "down" /\ faults' = faults
         => file' = queue \/ (queue = <<>> /\ ~dirty)]_vars

(* README: "If < 0 disable autosync".                                      *)
AutosyncCanBeDisabled == Autosync < 0 => caller # "autosync"

(***************************************************************************)
(* README: the cache file is the "File in which faulty messages are        *)
(* stored".  What the module starts with is what was stored, or nothing if *)
(* the file could not be opened.                                           *)
(***************************************************************************)
LoadRestoresCache == pc = "check" /\ caller = "init" => queue = file \/ queue = <<>>

(***************************************************************************)
(* The globals amqp_connected and amqp_errors and the connection object    *)
(* behave as module Link says: no function of the agent but                *)
(* n2a_amqp_connect makes a connection, errors are those of the last call, *)
(* and a connection is only given up by n2a_amqp_disconnect or a restart.  *)
(* Module AmqpSession shows that librabbitmq keeps to the same contract.   *)
(***************************************************************************)
L == INSTANCE Link WITH errors <- amqp_errors, link <- conn

ImplementsLink == L!Spec

-----------------------------------------------------------------------------
(***************************************************************************)
(* The inductive invariant behind the safety properties.                   *)
(***************************************************************************)

(* Which functions are on the stack at each place, and what they hold.     *)
Stack ==
    /\ pc \in AtRest => caller = "none" /\ i = 0
    /\ pc = "check" => caller \in {"init", "send", "flush", "direct"}
    /\ pc \in {"fifo_check", "autosync", "send"} => caller = "send"
    /\ pc \in {"flush", "requeue"} => caller = "flush"
    /\ pc = "publish" => caller \in {"flush", "direct"}
    /\ pc \in {"csync", "open", "write"} => caller \in {"autosync", "unload"}
    /\ pc = "push" => caller \in {"send", "direct"}
    /\ Len(arg) = IF caller \in {"none", "init", "unload"} THEN 0 ELSE 1
    /\ Len(held) = IF caller = "flush" /\ pc # "flush" THEN 1 ELSE 0
    /\ caller \in {"none", "init", "unload"} => ~amqp_state
    /\ caller = "flush" /\ pc # "flush" => i < FlushCount

(* amqp_state is stale only if the queue is not empty.                     *)
StateIsFresh ==
    /\ pc = "fifo_check" \/ pc = "flush" => (amqp_state => connected)
    /\ pc \in {"autosync", "csync", "open", "write", "send"} =>
         (amqp_state /\ queue = <<>> => connected)
    /\ pc = "flush" => connected

(* A queue with events in it is dirty, but right after it was saved.       *)
DirtyOrEmpty == dirty \/ queue = <<>> \/ pc \in {"send", "push"}

(* The file being written is the beginning of the queue.                   *)
Writing ==
    /\ pc = "open" => file = <<>>
    /\ pc = "write" => /\ Len(file) <= Len(queue)
                       /\ \A k \in 1..Len(file) : file[k] = queue[k]

AgentInv == TypeOK /\ LinkCoherent /\ PublishFindsLink /\ RequeueFits
            /\ Stack /\ StateIsFresh /\ DirtyOrEmpty /\ Writing

-----------------------------------------------------------------------------
(* Liveness, under FairSpec.                                               *)

(* From some point on the module stays loaded and out of blackout.         *)
Steady == <>[](Running /\ ~blackout)

(* Every call into the module returns.                                     *)
CallsReturn == []<>(pc \in AtRest)

(***************************************************************************)
(* The agent does not get stuck with a backlog: whatever happened before,  *)
(* it goes on publishing.                                                  *)
(***************************************************************************)
KeepsPublishing == Steady => []<>(pc = "publish")

(***************************************************************************)
(* A backlog that one flush can take goes away, again and again, and the   *)
(* callback ends with nothing queued.                                      *)
(***************************************************************************)
Drains == Steady => []<>(pc = "idle" /\ queue = <<>>)

(* The queue is saved again and again, also through a long outage.         *)
KeepsSaving == <>[]Running => []<>~dirty
=============================================================================
