----------------------------- MODULE MCCallbacks -----------------------------
(* Split and NebModule for TLC, side by side: the messages of one callback *)
(* and the life of the module.  Only one of them moves in a behaviour.     *)
EXTENDS Split, NebModule

VARIABLE part

MCDecimal == [w \in {"0", "1", "2", "5", "9", "-1", "-3"} |->
                CASE w = "0" -> 0 [] w = "1" -> 1 [] w = "2" -> 2 [] w = "5" -> 5
                  [] w = "9" -> 9 [] w = "-1" -> -1 [] OTHER -> -3]
MCBinary  == [w \in {"0", "1", "-1"} |-> CASE w = "0" -> 0 [] w = "1" -> 1 [] OTHER -> -1]

Set(name, value) == <<name, "=", value>>

(* One line for every branch of the parser, lines that set an option       *)
(* twice, and lines that give an option and its value in unusual places.   *)
MCArguments ==
    {<<>>, <<"=">>, <<"=", "x">>, <<"5", ":", "b">>, <<"5", ":">>,
     <<" ", "x", ":", "b", " ">>, <<"downtime", "=", " ", "1">>}
    \cup {Set("purge", v) : v \in {"1", "2", "true"}}
    \cup {Set(n, v) : n \in {"rate", "flush"}, v \in {"2", "-1", "no"}}
    \cup {Set(n, "5") : n \in {"debug", "max_size", "amqp_wait_time", "autoflush",
                             "flush_interval", "cache_size", "autosync", "port"}}
    \cup {Set(n, "1") : n \in {"hostgroups", "servicegroups", "acknowledgement",
                             "downtime", "custom_variables", "urls"}}
    \cup {Set(n, "x") : n \in {"cache_file", "name", "userid", "password", "virtual_host",
                             "exchange_name", "exchange_type", "connector",
                             "unknown", "port", "downtime"}}
    \cup {Set("host", "b"), <<"host", "=", "5", ":", "b">>, <<"host", "=", ":">>,
          <<"name", "=", "a", "=", "b">>}
    \cup {Set("acknowledgement", "1") \o <<" ">> \o Set("downtime", "1")
             \o <<" ">> \o Set("max_size", v) : v \in {"9", "2", "-1"}}
    \cup {Set("downtime", "1") \o <<" ", " ">> \o Set("downtime", "0")}

Service(h, s, t) == [cb |-> "service_check", type |-> t, level |-> "resource",
                     host |-> h, service |-> s]
Host(c, t, h)    == [cb |-> c, type |-> t, level |-> "component", host |-> h, service |-> <<>>]

MCEvents ==
    {Service(<<"a">>, <<"a">>, "processed"), Service(<<"a">>, <<"b">>, "processed"),
     Service(<<"a">>, <<"a">>, "initiate"), Service(<<"a", ".", "b">>, <<"a">>, "processed"),
     Service(<<"a">>, <<"b", ".", "a">>, "processed")}
    \cup {Host("host_check", "processed", h) : h \in {<<"a">>, <<"b">>}}
    \cup {Host(c, t, <<"a">>) : c \in {"acknowledgement", "downtime"}, t \in {"add", "remove"}}
    \cup {[Service(<<"a">>, <<"a">>, "add") EXCEPT !.cb = c] : c \in {"acknowledgement", "downtime"}}

MCBrokerOptions == {{"service_checks"}, {"host_checks", "service_checks"}}

MCInit == \/ part = "callback" /\ Init /\ ModuleInit
          \/ /\ part = "module" /\ ModuleInit
             /\ kind = "host" /\ base = 1 /\ text = [f \in Field |-> NoText]
             /\ stage = "done" /\ field = 1 /\ k = 0
             /\ body = [f \in Field |-> Absent] /\ sent = <<>>

MCNext == \/ part = "callback" /\ Next /\ UNCHANGED <<part, moduleVars>>
          \/ part = "module" /\ ModuleNext /\ UNCHANGED <<part, vars>>

MCSpec == MCInit /\ [][MCNext]_<<part, moduleVars, vars>>
=============================================================================
