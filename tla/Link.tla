-------------------------------- MODULE Link --------------------------------
(***************************************************************************)
(* What n2a_amqp_connect and n2a_amqp_disconnect (src/neb2amqp.c) promise  *)
(* to the rest of the agent, whatever frames they exchange to keep the     *)
(* promise: a connection that either is ready or is known not to be, and   *)
(* an error flag that tells only of the last call.                         *)
(*                                                                         *)
(* "none": there is no connection object.  "failed": there is one, whose   *)
(* connection attempt failed.  "open": messages reach the broker.  "mute": *)
(* the broker ignores them.  "dead": the peer is gone.                     *)
(***************************************************************************)
VARIABLES connected,  \* the agent takes the connection for ready
          errors,     \* the last call reported an error
          link        \* what the connection is worth

lvars == <<connected, errors, link>>

Init == connected = FALSE /\ errors = FALSE /\ link = "none"

(* The connection may already be worth nothing when the call returns.      *)
Connect ==
    /\ ~connected
    /\ \/ connected' = TRUE /\ errors' = FALSE /\ link' \in {"open", "mute", "dead"}
       \/ connected' = FALSE /\ errors' = TRUE /\ link' = "failed"

(* Closing a connection in order reports no error.                         *)
Disconnect ==
    /\ connected' = FALSE
    /\ link' = "none"
    /\ errors' \in IF connected /\ link # "open" THEN BOOLEAN ELSE {FALSE}

(* The broker closes the channel or the connection, or is gone.            *)
Breaks ==
    /\ \/ link = "open" /\ link' = "mute"
       \/ link \in {"open", "mute"} /\ link' = "dead"
    /\ UNCHANGED <<connected, errors>>

(* The module is loaded again, in a new process or not.                    *)
Restart == connected' = FALSE /\ errors' = FALSE /\ link' = "none"

Next == Connect \/ Disconnect \/ Breaks \/ Restart

Spec == Init /\ [][Next]_lvars
=============================================================================
