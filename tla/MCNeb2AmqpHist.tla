--------------------------- MODULE MCNeb2AmqpHist ---------------------------
(* Neb2AmqpHist for TLC: the numbered events.                              *)
EXTENDS Neb2AmqpHist

Events == 1..MaxEvents
=============================================================================
