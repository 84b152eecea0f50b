----------------------------- MODULE MCNeb2Amqp -----------------------------
(* Neb2Amqp for TLC: the sets the configurations give to its constants.    *)
EXTENDS Neb2Amqp, TLC

CONSTANTS e1, e2

OneEvent  == {e1}
TwoEvents == {e1, e2}
Symmetric == Permutations(TwoEvents)

(* A negative option cannot be written in a configuration file.            *)
Minus1 == -1
=============================================================================
