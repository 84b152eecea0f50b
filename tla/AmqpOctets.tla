------------------------------ MODULE AmqpOctets ------------------------------
(***************************************************************************)
(* Octets and the integers made of them (lib/librabbitmq/amqp_private.h),  *)
(* and what reading returns: whether it worked, the value and the next     *)
(* offset.                                                                 *)
(***************************************************************************)
EXTENDS Integers, Sequences

Octets == 0..255

Bad == [ok |-> FALSE, value |-> <<>>, offset |-> 0]
Read(value, offset) == [ok |-> TRUE, value |-> value, offset |-> offset]

-----------------------------------------------------------------------------
(* Integers of 8, 16 and 32 bits, in network byte order.  The octets of an *)
(* integer that does not fit are its low ones.                             *)

Shifted(v, octets) ==
    CASE octets = 0 -> v
      [] octets = 1 -> v \div 256
      [] octets = 2 -> (v \div 256) \div 256
      [] octets = 3 -> ((v \div 256) \div 256) \div 256

BigEndian(n, v) == [j \in 1..n |-> Shifted(v, n - j) % 256]

Number(s) ==
    CASE Len(s) = 1 -> s[1]
      [] Len(s) = 2 -> 256 * s[1] + s[2]
      [] Len(s) = 4 -> 256 * (256 * (256 * s[1] + s[2]) + s[3]) + s[4]

(* A 64-bit integer is the pair of its halves.  htonll swaps the halves    *)
(* and the bytes of each.                                                  *)
BigEndian64(v) == BigEndian(4, v[1]) \o BigEndian(4, v[2])
=============================================================================
