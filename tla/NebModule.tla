------------------------------ MODULE NebModule ------------------------------
(***************************************************************************)
(* The module as Nagios sees it: loaded with a line of arguments           *)
(* (src/module.c), its callbacks registered (src/broker.c), called with    *)
(* events and sending messages under routing keys (src/events.c, the       *)
(* helpers of src/xutils.c), unloaded, loaded again.                       *)
(*                                                                         *)
(* A text is a sequence of symbols: a word, a blank, or one of the         *)
(* characters "=", ":" and "." that the code looks for or writes.  How     *)
(* many messages an event makes is module Split; one stands for them here, *)
(* all of them have the same key.  The names are other than those of       *)
(* Split, so that one module can extend both.                              *)
(***************************************************************************)
EXTENDS Integers, Sequences, SequencesExt

CONSTANTS Arguments,  \* bound: the lines of arguments Nagios may give
          Decimal,    \* the words strtol reads in base 10, and what it reads
          Binary,     \* the same in base 2
          Yes,        \* the words that begin with y or t
          BrokerOptions, \* bound: the event_broker_options of Nagios
          Events,     \* bound: the events of Nagios
          MaxLoads,   \* bound: loads
          MaxEvents   \* bound: events since the last load; less if it is not the last

Blank  == " "
NullText == <<"NULL">>

VARIABLES loads,      \* how many times the module was loaded
          line,       \* the arguments of the last load
          options,    \* g_options
          loaded,     \* nebmodule_init returned 0, nebmodule_deinit not called
          registered, \* how often Nagios has each callback
          given,      \* the events since the last load, and if the module was loaded
          messages    \* the messages sent since then

moduleVars == <<loads, line, options, loaded, registered, given, messages>>

-----------------------------------------------------------------------------
(* Texts.                                                                  *)

(* A text that is not NULL.                                                *)
IsText(text) == text \in Seq(Range(text) \ Range(NullText))

(* What Nagios and the C library provide: texts that end, numbers, and     *)
(* checks of services with a service and of hosts without.                 *)
ASSUME NebAssumption ==
    /\ \A text \in Arguments : IsText(text)
    /\ \A w \in DOMAIN Decimal : Decimal[w] \in Int
    /\ \A e \in Events :
          /\ IsText(e.host)
          /\ e.level \in {"component", "resource"}
          /\ e.level = "resource" => IsText(e.service)
          /\ e.cb = "service_check" => e.level = "resource"
          /\ e.cb = "host_check" => e.level = "component"

(* The place of the first symbol d of a text, or the one behind its end.   *)
Find(text, d) == CHOOSE p \in 1..Len(text) + 1 :
                     /\ p <= Len(text) => text[p] = d
                     /\ \A q \in 1..p - 1 : text[q] # d

(* n2a_next_token: the text before the symbol, and where the next token    *)
(* begins.  An empty text has no token (NULL), although a token may be     *)
(* empty.                                                                  *)
Token(text, d)     == SubSeq(text, 1, Find(text, d) - 1)
AfterToken(text, d) == SubSeq(text, Find(text, d) + 1, Len(text))

(* n2a_lstrip and n2a_next_field: a field goes from one blank to the next. *)
BeginsField(text, i) == text[i] # Blank /\ (i = 1 \/ text[i - 1] = Blank)
FieldAt(text, i)     == Token(SubSeq(text, i, Len(text)), Blank)

(* strtol: a text that begins with no number is 0.                         *)
Strtol(text, base) == IF text # <<>> /\ Head(text) \in DOMAIN base
                      THEN base[Head(text)] ELSE 0

(* n2a_str_join: the delimiter goes behind what is not empty; the first    *)
(* NULL ends the list.                                                     *)
Join(parts, d) ==
    LET last == Find(parts, NullText) - 1
        ret[n \in 0..last] == IF n = 0 THEN <<>>
                              ELSE IF ret[n - 1] = <<>> THEN parts[n]
                              ELSE ret[n - 1] \o d \o parts[n]
    IN  ret[last]

-----------------------------------------------------------------------------
(* Options.                                                                *)

(* What nebmodule_init sets.  It does not set urls.                        *)
Defaults ==
    [eventsource_name |-> <<"Central">>, hostname |-> <<"127.0.0.1">>, port |-> 5672,
     userid |-> <<"guest">>, password |-> <<"guest">>, virtual_host |-> <<"canopsis">>,
     exchange_name |-> <<"canopsis", ".", "events">>, exchange_type |-> NullText,
     log_level |-> 0, connector |-> <<"nagios">>, max_size |-> 8192,
     cache_size |-> 10000, autosync |-> 60, autoflush |-> 60, flush_interval |-> 5,
     rate |-> 5000, flush |-> -1, purge |-> FALSE,
     cache_file |-> <<"/tmp/neb2amqp", ".", "cache">>,
     acknowledgement |-> 0, downtime |-> 0, hostgroups |-> 0, servicegroups |-> 0,
     custom_variables |-> 0, amqp_wait_time |-> 10]

(* The options that are the number, the switch or the text they are given, *)
(* and the members of g_options they set.                                  *)
NumberOptions ==
    [debug |-> "log_level", max_size |-> "max_size", amqp_wait_time |-> "amqp_wait_time",
     autoflush |-> "autoflush", flush_interval |-> "flush_interval",
     cache_size |-> "cache_size", autosync |-> "autosync", port |-> "port"]

SwitchOptions == {"hostgroups", "servicegroups", "acknowledgement", "downtime",
                  "custom_variables", "urls"}

TextOptions ==
    [cache_file |-> "cache_file", name |-> "eventsource_name", userid |-> "userid",
     password |-> "password", virtual_host |-> "virtual_host",
     exchange_name |-> "exchange_name", exchange_type |-> "exchange_type",
     connector |-> "connector"]

(* What an option or a field sets: a function on some members of           *)
(* g_options.  The others keep their value.                                *)
NoValues == <<>>
With(o, values) == [m \in DOMAIN o |-> IF m \in DOMAIN values THEN values[m] ELSE o[m]]

(* host, port:host, or nothing.                                            *)
Address(text) ==
    IF text = <<>> THEN [hostname |-> NullText]
    ELSE IF AfterToken(text, ":") = <<>> THEN [hostname |-> Token(text, ":")]
    ELSE [hostname |-> AfterToken(text, ":"), port |-> Strtol(Token(text, ":"), Decimal)]

(* A value that is not allowed leaves the option as it is.                 *)
Rate(n)  == IF n > 0 THEN [rate |-> n * 1000] ELSE NoValues
Flush(n) == IF n > 0 \/ n = -1 THEN [flush |-> n] ELSE NoValues

(* Words that begin with f or n are FALSE; so is every number but 1.       *)
Purge(text) == Head(text) \in Yes \/ Strtol(text, Decimal) = 1

OptionValues(name, right) ==
    CASE name = "host"   -> Address(right)
      [] name = "purge"  -> [purge |-> Purge(right)]
      [] name = "rate"   -> Rate(Strtol(right, Decimal))
      [] name = "flush"  -> Flush(Strtol(right, Decimal))
      [] name \in DOMAIN NumberOptions ->
            [m \in {NumberOptions[name]} |-> Strtol(right, Decimal)]
      [] name \in SwitchOptions -> [m \in {name} |-> Strtol(right, Binary)]
      [] name \in DOMAIN TextOptions -> [m \in {TextOptions[name]} |-> right]
      [] OTHER -> NoValues

(* One field.  Without a value after "=" it is an address, whatever stands *)
(* before "=".                                                             *)
FieldValues(f) ==
    LET left == Token(f, "=") right == AfterToken(f, "=")
    IN  IF right = <<>> THEN Address(left)
        ELSE IF Len(left) = 1 THEN OptionValues(Head(left), right)
        ELSE NoValues

(* n2a_parse_arguments: one field after the other.  No arguments are the   *)
(* empty text.                                                             *)
ParseArguments(o, text) ==
    LET parsed[i \in 0..Len(text)] ==
            IF i = 0 THEN o
            ELSE IF BeginsField(text, i)
                 THEN With(parsed[i - 1], FieldValues(FieldAt(text, i)))
            ELSE parsed[i - 1]
    IN  parsed[Len(text)]

ResetSome(o) ==   \* defect: downtime keeps the value of the load before
    With(o, [m \in DOMAIN Defaults \ {"downtime"} |-> Defaults[m]])

(* nebmodule_init before it parses the arguments.                          *)
Reset(o) == With(o, Defaults)

(* A library that was just mapped: zeros, NULL pointers.                   *)
Zeroed == [m \in DOMAIN Defaults \cup {"urls"} |->
              CASE m \in SwitchOptions \cup {"port", "log_level", "max_size", "cache_size",
                       "autosync", "autoflush", "flush_interval", "rate", "flush",
                       "amqp_wait_time"} -> 0
                [] m = "purge" -> FALSE
                [] OTHER -> NullText]

-----------------------------------------------------------------------------
(* Loading and unloading.                                                  *)

Callback == {"service_check", "host_check", "acknowledgement", "downtime"}

(* Which callbacks n2a_register_callbacks registers and                    *)
(* n2a_deregister_callbacks takes back.                                    *)
Concerned(o, c) == c \in {"acknowledgement", "downtime"} => o[c] # 0

DeregisterChecks(o) ==   \* defect: only the two checks
    [c \in Callback |-> IF c \in {"service_check", "host_check"} /\ registered[c] > 0
                        THEN registered[c] - 1 ELSE registered[c]]

Register(o)   == [c \in Callback |->
                     IF Concerned(o, c) THEN registered[c] + 1 ELSE registered[c]]
Deregister(o) == [c \in Callback |->
                     IF Concerned(o, c) /\ registered[c] > 0
                     THEN registered[c] - 1 ELSE registered[c]]

(* n2a_verify_event_broker_options: both kinds of checks.                  *)
Accepted(broker_options) == {"service_checks", "host_checks"} \subseteq broker_options

ModuleInit ==
    /\ loads = 0 /\ line = <<>> /\ options = Zeroed /\ loaded = FALSE
    /\ registered = [c \in Callback |-> 0]
    /\ given = <<>> /\ messages = <<>>

(* nebmodule_init.  The library may have been mapped anew since the last   *)
(* load or not.                                                            *)
Load(text, broker_options) ==
    /\ ~loaded /\ loads < MaxLoads /\ Len(given) < MaxEvents
    /\ \E before \in {options, Zeroed} :
           options' = ParseArguments(Reset(before), text)
    /\ IF Accepted(broker_options)
       THEN loaded' = TRUE /\ registered' = Register(options')
       ELSE UNCHANGED <<loaded, registered>>
    /\ loads' = loads + 1 /\ line' = text /\ given' = <<>> /\ messages' = <<>>

(* nebmodule_deinit.  Nagios calls it only after a load that succeeded.    *)
Unload == /\ loaded
          /\ loaded' = FALSE /\ registered' = Deregister(options)
          /\ UNCHANGED <<loads, line, options, given, messages>>

-----------------------------------------------------------------------------
(* Events: [cb, type, level, host, service].  The level is "component" for *)
(* a host and "resource" for a service; a host's event has no service.     *)

PartsWithoutKind(kind, e) ==   \* defect: check, ack and downtime under one key
    <<options.connector, options.eventsource_name, <<e.level>>, e.host>>
    \o IF e.level = "resource" THEN <<e.service>> ELSE <<>>

Parts(kind, e) == <<options.connector, options.eventsource_name, <<kind>>, <<e.level>>, e.host>>
                  \o IF e.level = "resource" THEN <<e.service>> ELSE <<>>

FullKey(kind, e) == Join(Parts(kind, e), <<".">>)

(* "if the rk is too big": the length is compared as an unsigned number.   *)
Shortened(key) ==
    IF options.max_size < 0 \/ Len(key) <= options.max_size THEN key
    ELSE SubSeq(key, 1, options.max_size)

NoReference == [key |-> NullText]

RefersToSelf(e) == [key |-> FullKey("ack", e)]   \* defect: its own kind in ref_rk

(* ref_rk of n2a_nebstruct_acknowlegement_data_to_json.                    *)
Referer(e) == [key |-> FullKey("check", e)]

EventMessage(kind, e, ref) ==
    [event |-> e, key |-> Shortened(FullKey(kind, e)), ref |-> ref]

(* Nagios calls a callback as often as it was registered.                  *)
Send(e, message) == messages' = messages \o [n \in 1..registered[e.cb] |-> message]

CheckEvent(e) ==
    /\ e.cb \in {"service_check", "host_check"}
    /\ IF e.type = "processed" THEN Send(e, EventMessage("check", e, NoReference))
       ELSE UNCHANGED messages

Acknowledgement(e) ==
    /\ e.cb = "acknowledgement"
    /\ IF e.type = "add" THEN Send(e, EventMessage("ack", e, Referer(e)))
       ELSE UNCHANGED messages

Downtime(e) ==
    /\ e.cb = "downtime"
    /\ IF e.type = "add" THEN Send(e, EventMessage("downtime", e, NoReference))
       ELSE UNCHANGED messages

Event(e) == /\ Len(given) < MaxEvents
            /\ CheckEvent(e) \/ Acknowledgement(e) \/ Downtime(e)
            /\ given' = Append(given, [event |-> e, loaded |-> loaded])
            /\ UNCHANGED <<loads, line, options, loaded, registered>>

ModuleNext ==
    \/ \E text \in Arguments, broker_options \in BrokerOptions : Load(text, broker_options)
    \/ Unload
    \/ \E e \in Events : Event(e)

ModuleSpec == ModuleInit /\ [][ModuleNext]_moduleVars

-----------------------------------------------------------------------------
(* Properties.                                                             *)

(* What the arguments say, whatever was loaded before.                     *)
Asked == ParseArguments(Reset(Zeroed), line)

(***************************************************************************)
(* A load depends on its own arguments only: no option keeps a value of an *)
(* earlier load, accepted or refused, when the library stayed mapped, but  *)
(* urls, which nebmodule_init does not reset.                              *)
(***************************************************************************)
NothingFromEarlierLoad ==
    loads > 0 => \A m \in DOMAIN options \ {"urls"} : options[m] = Asked[m]

Wanted(e) == /\ e.type = (IF e.cb \in {"service_check", "host_check"} THEN "processed" ELSE "add")
             /\ Concerned(Asked, e.cb)

(***************************************************************************)
(* Every event that the arguments of this load ask for is sent, once and   *)
(* in order, as long as the module is loaded, and nothing else: no load,   *)
(* refused load or unload leaves a callback behind or registers one twice. *)
(***************************************************************************)
WantedEventsOnce ==
    LET Chosen(i)   == given[i].loaded /\ Wanted(given[i].event)
        WantedBy(j) == Cardinality({i \in 1..j : Chosen(i)})
    IN  /\ Len(messages) = WantedBy(Len(given))
        /\ \A j \in 1..Len(given) :
              Chosen(j) => messages[WantedBy(j)].event = given[j].event

Uncut(message) == options.max_size < 0 \/ Len(message.key) < options.max_size

Plain(e) == /\ e.host # <<>> /\ \A j \in DOMAIN e.host : e.host[j] # "."
            /\ e.level = "resource" => e.service # <<>>

(***************************************************************************)
(* The key tells what a message is about: two messages of one load have    *)
(* the same key only if they are of the same kind about the same object,   *)
(* unless the key was cut or the host has a dot or no name.                *)
(***************************************************************************)
KeyTellsObject ==
    \A i, j \in DOMAIN messages :
        /\ messages[i].key = messages[j].key
        /\ \A n \in {i, j} : Uncut(messages[n]) /\ Plain(messages[n].event)
        => LET a == messages[i].event b == messages[j].event
           IN  /\ a.level = b.level /\ a.host = b.host
               /\ a.level = "resource" => a.service = b.service
               /\ a.cb = b.cb

(***************************************************************************)
(* An acknowledgement refers to the key under which the checks of its      *)
(* object are sent, unless that key was cut: ref_rk never is.              *)
(***************************************************************************)
RefersToCheck ==
    \A i, j \in DOMAIN messages :
        LET a == messages[i].event c == messages[j].event
        IN  /\ a.cb = "acknowledgement" /\ c.cb \in {"service_check", "host_check"}
            /\ a.level = c.level /\ a.host = c.host
            /\ a.level = "resource" => a.service = c.service
            => IF Len(messages[i].ref.key) <= options.max_size \/ options.max_size < 0
               THEN messages[i].ref.key = messages[j].key
               ELSE IsStrictPrefix(messages[j].key, messages[i].ref.key)
=============================================================================
