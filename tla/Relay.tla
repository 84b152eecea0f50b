-------------------------------- MODULE Relay -------------------------------
(***************************************************************************)
(* What the agent promises, seen from outside: a first-in first-out relay  *)
(* between Nagios and the AMQP bus.  It keeps a bounded line of events.    *)
(* Only the head of the line ever leaves it: delivered to the bus, lost if *)
(* the link is not sound, or evicted by a newer event when the line is too *)
(* long.  Now and then the relay saves the line, from its head on; after a *)
(* stop or a crash it resumes from the last save, with one damaged event   *)
(* at the end.                                                             *)
(*                                                                         *)
(* It does not promise that an event is delivered once: an event delivered *)
(* after the last save is delivered again after a crash.                   *)
(***************************************************************************)
EXTENDS Integers, Sequences

CONSTANTS Event, Bogus, Capacity

VARIABLES up,       \* the relay runs
          sound,    \* what is written to the link reaches the bus
          pending,  \* the line of events, head first
          saved,    \* the last save
          out       \* what the bus got so far

rvars == <<up, sound, pending, saved, out>>

Init == /\ up = FALSE
        /\ sound = TRUE
        /\ pending = <<>> /\ saved = <<>> /\ out = <<>>

(* A new event goes to the end of the line, which may then be too long.    *)
Accept(e) == /\ up /\ Len(pending) <= Capacity
             /\ pending' = Append(pending, e)
             /\ UNCHANGED <<up, sound, saved, out>>

Deliver == /\ up /\ sound /\ pending # <<>>
           /\ out' = Append(out, Head(pending))
           /\ pending' = Tail(pending)
           /\ UNCHANGED <<up, sound, saved>>

Lose == /\ up /\ ~sound /\ pending # <<>>
        /\ pending' = Tail(pending)
        /\ UNCHANGED <<up, sound, saved, out>>

Evict == /\ up /\ Len(pending) > Capacity
         /\ pending' = Tail(pending)
         /\ UNCHANGED <<up, sound, saved, out>>

(* A save in progress has only reached some event of the line.             *)
Save == /\ up
        /\ \E n \in 0..Len(pending) : saved' = SubSeq(pending, 1, n)
        /\ UNCHANGED <<up, sound, pending, out>>

LinkChanges == /\ up
               /\ sound' = ~sound
               /\ UNCHANGED <<up, pending, saved, out>>

(* A stop or a crash: the line is gone, the last save stays.               *)
Stop == /\ up
        /\ up' = FALSE /\ sound' = TRUE /\ pending' = <<>>
        /\ UNCHANGED <<saved, out>>

Recovered == LET all  == Append(saved, Bogus)
                 skip == IF Len(all) > Capacity THEN Len(all) - Capacity ELSE 0
             IN  SubSeq(all, skip + 1, Len(all))

(* The save may be unreadable.                                             *)
Boot == /\ ~up
        /\ up' = TRUE
        /\ pending' \in {Recovered, <<>>}
        /\ UNCHANGED <<sound, saved, out>>

Next == \/ \E e \in Event : Accept(e)
        \/ Deliver \/ Lose \/ Evict \/ Save \/ LinkChanges \/ Stop \/ Boot

Spec == Init /\ [][Next]_rvars
=============================================================================
