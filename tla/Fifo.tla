-------------------------------- MODULE Fifo --------------------------------
(***************************************************************************)
(* The event queue of src/fifo.c seen as a value: a sequence of events,    *)
(* oldest first.  Each operator is what one function of fifo.c leaves      *)
(* behind when it returns.  The functions allocate nothing that can fail   *)
(* and are called from one thread, so each is atomic for its callers;      *)
(* module FifoList models the doubly linked list they really work on.      *)
(*                                                                         *)
(* The lock flag `file_lock' is not kept: it is TRUE only between the      *)
(* first and the last line of n2a_load and n2a_csync, which nothing        *)
(* interrupts.  Nor is `full': n2a_check_size recomputes it before every   *)
(* read.                                                                   *)
(***************************************************************************)
EXTENDS Integers, Sequences

CONSTANTS Event,      \* the events Nagios produces (routing key and message)
          Bogus,      \* what n2a_load pushes for a record it could not read
          CacheSize   \* option cache_size, the max_size of the fifo

(***************************************************************************)
(* cache_size is not validated by the option parser; the values below 1    *)
(* break the list itself and are the subject of module FifoList.           *)
(***************************************************************************)
ASSUME FifoAssumption == /\ CacheSize \in Nat \ {0}
                         /\ Bogus \notin Event

Entry == Event \cup {Bogus}

-----------------------------------------------------------------------------
FullTooLate(q) == Len(q) > CacheSize   \* defect: off by one

(* n2a_check_size: the test whose outcome is stored in pFifo->full.        *)
Full(q) == Len(q) >= CacheSize

(* n2a_shift unlinks the first event, n2a_pop the last one.                *)
Shift(q) == Tail(q)
Pop(q)   == SubSeq(q, 1, Len(q) - 1)

(* n2a_push: a full queue loses its oldest event, then e goes last.        *)
Push(q, e) == Append(IF Full(q) THEN Shift(q) ELSE q, e)

PrependLast(q, e) == Append(q, e)   \* defect: put back at the wrong end

(* n2a_prepend: a full queue loses its newest event, then e goes first.    *)
Prepend(q, e) == <<e>> \o (IF Full(q) THEN Pop(q) ELSE q)

(***************************************************************************)
(* n2a_load reads the cache file in pairs of lines until feof() holds, and *)
(* feof() holds only once a read has failed.  After the last event of the  *)
(* file the loop therefore runs once more, both fgets fail, and what is    *)
(* left in the two buffers is pushed: the previous event cut by one        *)
(* character, or uninitialised memory when the file was empty.  A file cut *)
(* by a crash ends the same way, with one damaged pair.  Every event goes  *)
(* through n2a_push, so only the last CacheSize of them stay.              *)
(***************************************************************************)
Loaded(file) ==
    LET read == Append(file, Bogus)
        skip == IF Len(read) > CacheSize THEN Len(read) - CacheSize ELSE 0
    IN  SubSeq(read, skip + 1, Len(read))
=============================================================================
