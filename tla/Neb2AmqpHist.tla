---------------------------- MODULE Neb2AmqpHist ----------------------------
(***************************************************************************)
(* The agent with its history: events are numbered in the order Nagios     *)
(* produces them, and what the broker receives is remembered.  This is     *)
(* what the promises about order and loss are stated on.                   *)
(***************************************************************************)
EXTENDS Neb2Amqp, Functions

CONSTANTS MaxEvents,  \* bound: events Nagios produces
          MaxBoots    \* bound: times the module is loaded

ASSUME HistAssumption == Event = 1..MaxEvents /\ MaxEvents \in Nat /\ MaxBoots \in Nat

VARIABLES bus,     \* what the broker received
          nextId,  \* the number of the next event
          boots,   \* loads so far
          unread,  \* the file, if the last load could not open it
          mishaps  \* what happened that may cost events or their order

histVars == <<bus, nextId, boots, unread, mishaps>>

(***************************************************************************)
(* "crash": the process died.  "unread": a load did not open the file.     *)
(* "disk": a save failed.  "link": a message was written to a connection   *)
(* that was not sound.  "full": a full queue dropped an event.             *)
(***************************************************************************)
Mishap == {"crash", "unread", "disk", "link", "full"}

Happened(kind, really) == mishaps' = IF really THEN mishaps \cup {kind} ELSE mishaps

Sent == IF caller = "flush" THEN held[1] ELSE arg[1]

HistInit == Init /\ bus = <<>> /\ nextId = 1 /\ boots = 0 /\ unread = <<>> /\ mishaps = {}

HistSendEvent == /\ nextId <= MaxEvents
                 /\ SendEvent(nextId)
                 /\ nextId' = nextId + 1
                 /\ UNCHANGED <<bus, boots, unread, mishaps>>

HistPublish == /\ PublishReached
               /\ bus' = Append(bus, Sent)
               /\ UNCHANGED <<nextId, boots, unread, mishaps>>

HistPublishLost == /\ PublishIgnored \/ PublishSwallowed
                   /\ Happened("link", TRUE)
                   /\ UNCHANGED <<bus, nextId, boots, unread>>

HistInitModule == /\ boots < MaxBoots
                  /\ ModuleInit
                  /\ boots' = boots + 1
                  /\ unread' = IF queue' = <<>> THEN file ELSE <<>>
                  /\ \/ queue' = <<>> /\ Happened("unread", file # <<>>)
                     \/ queue' # <<>> /\ Happened("full", Len(file) >= CacheSize)
                  /\ UNCHANGED <<bus, nextId>>

HistPush == /\ PushEvent
            /\ Happened("full", Full(queue))
            /\ UNCHANGED <<bus, nextId, boots, unread>>

HistSync == /\ Csync
            /\ Happened("disk", faults' # faults)
            /\ UNCHANGED <<bus, nextId, boots, unread>>

HistCrash == /\ Crash
             /\ Happened("crash", TRUE)
             /\ UNCHANGED <<bus, nextId, boots, unread>>

HistOther == /\ \/ AmqpCheck \/ FifoCheck \/ SendDirectly \/ SendToQueue
                \/ ConnectionDrops \/ ChannelCloses \/ BrokerGoesDown \/ BrokerComesUp \/ Tick
                \/ PublishRefused
                \/ ModuleDeinit \/ BlackoutOn \/ BlackoutOff
             /\ UNCHANGED histVars

HistNext == \/ HistSendEvent \/ HistPublish \/ HistPublishLost \/ HistPush
            \/ HistInitModule \/ HistSync \/ HistCrash \/ HistOther

HistSpec == HistInit /\ [][HistNext]_<<vars, histVars>>

-----------------------------------------------------------------------------
(* The events in memory, the next one to leave first.                      *)
Line == held \o queue \o arg

(***************************************************************************)
(* The agent implements the relay.  The line of the relay is the event     *)
(* being flushed, the queue, and the event of the current callback: that   *)
(* the head of this line is what is published says that a direct publish   *)
(* never overtakes a queued event, that an event put back goes to where it *)
(* was taken from, and that an event leaves the agent only by reaching the *)
(* bus, by the eviction of the oldest, or through an unsound connection.   *)
(***************************************************************************)
R == INSTANCE Relay WITH
       Capacity <- CacheSize,
       up       <- Running,
       sound    <- conn \notin {"mute", "dead"},
       pending  <- Line,
       saved    <- file,
       out      <- bus

ImplementsRelay == R!Spec

(* What is left to be sent, wherever it is.                                *)
Backlog == IF Running THEN Line ELSE file

(* The events of s are in the order Nagios made them.                      *)
Increasing(s) == \A j, k \in DOMAIN s :
                    j < k /\ s[j] # Bogus /\ s[k] # Bogus => s[j] < s[k]

(* Every event of s is older than the event n.                             *)
Below(s, n) == \A j \in DOMAIN s : s[j] # Bogus => s[j] < n

FileWasKept == mishaps \cap {"crash", "unread"} = {}

(***************************************************************************)
(* No event reaches the bus twice or before an older one, whatever the     *)
(* connection, the disk and a full queue do, and across unloading and      *)
(* loading again: what was sent, followed by what is left to be sent, is   *)
(* in order.  Only a crash or a load that could not read the file can      *)
(* break the order.                                                        *)
(***************************************************************************)
InOrder == FileWasKept => Increasing(bus \o Backlog)

(***************************************************************************)
(* Outages that the library reports, blackouts, unloading and loading lose *)
(* nothing: until one of the mishaps has happened, every event is on the   *)
(* bus, in memory or in the file.                                          *)
(***************************************************************************)
NothingLost ==
    mishaps = {} =>
        \A id \in 1..(nextId - 1) : id \in Range(bus \o Line \o file)

(***************************************************************************)
(* README: "if we cannot read/create the file, the cache will only run in  *)
(* memory".  A file the module could not open when it was loaded is left   *)
(* alone while the module runs.                                            *)
(***************************************************************************)
UnreadFileIsKept == Running => unread = <<>> \/ file = unread

-----------------------------------------------------------------------------
(***************************************************************************)
(* The inductive invariants behind these properties.                       *)
(***************************************************************************)

(***************************************************************************)
(* What the refinement needs beyond AgentInv: nothing is queued while      *)
(* n2a_send_event publishes its own event, and a module that is gone has   *)
(* left neither events nor a connection behind.                            *)
(***************************************************************************)
LineInv ==
    /\ caller = "direct" /\ pc # "push" => queue = <<>>
    /\ ~Running => queue = <<>> /\ conn = "none"
    /\ caller = "unload" => conn = "none"

(* The event numbers.                                                      *)
NumbersOK == bus \in Seq(Entry) /\ nextId \in 1..(MaxEvents + 1) /\ mishaps \subseteq Mishap

(* An empty queue that needs no saving has an empty file.                  *)
FileIsCurrent ==
    /\ pc \in {"open", "write"} => dirty
    /\ FileWasKept /\ Running /\ queue = <<>> /\ ~dirty => file = <<>>

(* Events made so far are numbered below nextId.                           *)
OldEvents == FileWasKept => Below(bus \o Backlog, nextId)

(* NothingLost, without counting on a file that is about to be rewritten.  *)
AllAccounted ==
    mishaps = {} => \A id \in 1..(nextId - 1) : id \in Range(bus \o Backlog)

HistInv == AgentInv /\ LineInv /\ NumbersOK /\ FileIsCurrent
           /\ InOrder /\ OldEvents /\ AllAccounted
=============================================================================
