------------------------------ MODULE CacheFile ------------------------------
(***************************************************************************)
(* The bytes of the cache file: n2a_csync writes the queue line by line,   *)
(* n2a_load reads it with fgets into two buffers (src/fifo.c).  Module     *)
(* Fifo says what a load makes of a file that is as it was written; this   *)
(* module says what happens when it is not: the process died or the disk   *)
(* was full while it was written, the old file could not be removed, or a  *)
(* line is longer than the buffer.                                         *)
(*                                                                         *)
(* The fullness of the queue and its order are modules Fifo and FifoList.  *)
(***************************************************************************)
EXTENDS Integers, Sequences, SequencesExt

CONSTANTS Byte, NewLine,
          BufferSize,  \* EVENT_MSG_MAX_SIZE, for a key as for a message
          Garbage,     \* what an uninitialised buffer may hold
          NewEvents,   \* bound: the events Nagios makes
          MaxQueue,    \* bound: events in the queue when one more is made
          MaxStarts,   \* bound: starts of the process
          MaxSyncs     \* bound: saves

Event == [rk : Seq(Byte), msg : Seq(Byte)]

ASSUME FileAssumption ==
    /\ NewLine \in Byte /\ BufferSize \in Nat /\ BufferSize > 1
    /\ Garbage \subseteq Seq(Byte) /\ NewEvents \subseteq Event

VARIABLES phase,    \* "load": in the loop of n2a_load; "run": behind it
          starts,   \* how many processes there were
          syncs,    \* how many saves
          queue,    \* the events in memory
          file,     \* the bytes of the file
          saved,    \* the queue of the last n2a_csync,
          written,  \* how many bytes of it reached the file,
          oldTail,  \* and whether older bytes follow them
          pos, eof, \* of the stream
          rk, msg,  \* the buffers of n2a_load
          read      \* the events that the last load pushed

disk     == <<file, saved, written, oldTail, syncs>>
stream   == <<pos, eof, rk, msg, read>>
fileVars == <<phase, starts, queue, disk, stream>>

-----------------------------------------------------------------------------
(* n2a_csync.                                                              *)

LineMissing(e) == e.rk \o <<NewLine>> \o e.msg   \* defect: no \n behind the message

Lines(e) == e.rk \o <<NewLine>> \o e.msg \o <<NewLine>>

Content(q) ==
    LET first[j \in 0..Len(q)] == IF j = 0 THEN <<>> ELSE first[j - 1] \o Lines(q[j])
    IN  first[Len(q)]

(* The first n bytes of the queue reach the file.  n2a_clear normally      *)
(* removes the old file; if unlink fails, r+ opens it and its end stays.   *)
Sync(n, unlinked) ==
    /\ phase = "run" /\ syncs < MaxSyncs
    /\ file' = SubSeq(Content(queue), 1, n)
               \o (IF unlinked THEN <<>> ELSE SubSeq(file, n + 1, Len(file)))
    /\ saved' = queue /\ written' = n /\ syncs' = syncs + 1
    /\ oldTail' = (~unlinked /\ Len(file) > n)
    /\ UNCHANGED <<phase, starts, queue, stream>>

(* The queue changes: an event is pushed, or the first one is sent.        *)
Push(e) == /\ phase = "run" /\ Len(queue) < MaxQueue
           /\ queue' = Append(queue, e)
           /\ UNCHANGED <<phase, starts, disk, stream>>

Pop == /\ phase = "run" /\ queue # <<>>
       /\ queue' = Tail(queue)
       /\ UNCHANGED <<phase, starts, disk, stream>>

-----------------------------------------------------------------------------
(* n2a_load.                                                               *)

(* fgets from place p into a buffer: up to a new line, the end of the file *)
(* or a full buffer.  At the end of the file the buffer stays as it is.    *)
Gets(buffer, p) ==
    LET rest == SubSeq(file, p + 1, Len(file))
        Stop(j) == rest[j] = NewLine \/ j = BufferSize - 1
        ends == {j \in 1..Len(rest) : Stop(j) /\ \A i \in 1..j - 1 : ~Stop(i)}
    IN  IF rest = <<>> THEN [line |-> buffer, pos |-> p, eof |-> TRUE]
        ELSE IF ends = {} THEN [line |-> rest, pos |-> Len(file), eof |-> TRUE]
        ELSE LET j == CHOOSE j \in ends : TRUE
             IN  [line |-> SubSeq(rest, 1, j), pos |-> p + j, eof |-> FALSE]

(* x[strlen (x) - 1] = 0: the last character, new line or not; the byte    *)
(* before the buffer if it is empty.                                       *)
Strip(line) == IF line = <<>> THEN <<>> ELSE Front(line)

AtEndOfKey(key, text) == key.eof   \* defect: the message is not looked at

(* feof, after the two calls of a turn.                                    *)
AtEnd(key, text) == key.eof \/ text.eof

(* The process starts: n2a_fifo_init opens the file and rewinds it.        *)
Start == /\ phase = "run" /\ starts < MaxStarts
         /\ phase' = "load" /\ starts' = starts + 1
         /\ queue' = <<>> /\ pos' = 0 /\ eof' = FALSE /\ read' = <<>>
         /\ rk' \in Garbage /\ msg' \in Garbage
         /\ UNCHANGED disk

(* One turn of the loop.  The second fgets may find the end of the file    *)
(* that the first one found.                                               *)
ReadTwoLines ==
    /\ phase = "load" /\ ~eof
    /\ LET key  == Gets(rk, pos)
           text == Gets(msg, key.pos)
       IN  /\ pos' = text.pos /\ eof' = AtEnd(key, text)
           /\ rk' = Strip(key.line) /\ msg' = Strip(text.line)
           /\ read' = Append(read, [rk |-> rk', msg |-> msg'])
    /\ UNCHANGED <<phase, starts, queue, disk>>

EndOfLoad == /\ phase = "load" /\ eof
             /\ phase' = "run" /\ queue' = read
             /\ pos' = 0 /\ rk' = <<>> /\ msg' = <<>> /\ read' = <<>>
             /\ UNCHANGED <<starts, disk, eof>>

FileInit ==
        /\ phase = "load" /\ starts = 1 /\ syncs = 0 /\ queue = <<>>
        /\ file = <<>> /\ saved = <<>> /\ written = 0 /\ oldTail = FALSE
        /\ pos = 0 /\ eof = FALSE /\ rk \in Garbage /\ msg \in Garbage /\ read = <<>>

FileNext ==
        \/ \E n \in 0..Len(Content(queue)), unlinked \in BOOLEAN : Sync(n, unlinked)
        \/ \E e \in NewEvents : Push(e)
        \/ Pop \/ Start \/ ReadTwoLines \/ EndOfLoad

FileSpec == FileInit /\ [][FileNext]_fileVars

-----------------------------------------------------------------------------
(* Properties.                                                             *)

(* An event whose lines n2a_load can tell: none too long for a buffer, and *)
(* none with a new line in it, as what was in a buffer may have.           *)
Clean(line)  == Len(line) < BufferSize - 1 /\ \A i \in DOMAIN line : line[i] # NewLine
Readable(e)  == Clean(e.rk) /\ Clean(e.msg)

(* How many events of the last save are in the file with all their bytes   *)
(* and behind no event that cannot be read.                                *)
Reached(j) == /\ Len(Content(SubSeq(saved, 1, j))) <= written
              /\ \A i \in 1..j : Readable(saved[i])

Intact == CHOOSE n \in 0..Len(saved) : Reached(n) /\ (n < Len(saved) => ~Reached(n + 1))

(***************************************************************************)
(* Whatever stopped the last save and whatever the file held before, the   *)
(* events that reached the file whole, up to the first one that is too     *)
(* long for the buffers of n2a_load or holds a new line, are read back     *)
(* first, unchanged and in order.                                          *)
(***************************************************************************)
IntactEventsRead ==
    phase = "load" =>
        LET n == Intact IN
        /\ \A j \in 1..Len(read) : j <= n => read[j] = saved[j]
        /\ eof => Len(read) >= n

(* The event that a load finds behind the first n.                         *)
Damaged(n, extra) ==
    LET OldKey  == n = 0 \/ extra.rk = Strip(saved[n].rk)
        OldText == n = 0 \/ extra.msg = Strip(saved[n].msg)
        NewKey  == n < Len(saved) /\ IsPrefix(extra.rk, saved[n + 1].rk)
        NewText == n < Len(saved) /\ IsPrefix(extra.msg, saved[n + 1].msg)
                   /\ extra.rk = saved[n + 1].rk
    IN  \/ OldKey /\ OldText
        \/ NewKey /\ (OldText \/ NewText)

(***************************************************************************)
(* If all events can be read and the old file was removed, a load reads     *)
(* exactly one event more, damaged in one of these ways: it is the last    *)
(* intact one without the last characters of its key and message, the      *)
(* beginning of the next one, or, when the file ends inside or behind its  *)
(* key, (the beginning of) that key with the message of the event before.  *)
(***************************************************************************)
OneDamagedEvent ==
    phase = "load" /\ eof /\ ~oldTail /\ (\A j \in DOMAIN saved : Readable(saved[j])) =>
        Len(read) = Intact + 1 /\ Damaged(Intact, read[Len(read)])
=============================================================================
