# Verification of neb2amqp

This directory holds TLA+ models of neb2amqp, the Nagios/Icinga event-broker
module that relays the results of Nagios' checks to an AMQP bus, the TLC
configurations that check them, and proofs for TLAPS. Source paths are relative
to the repository.

Run `tlc -config X.cfg M` for a configuration in the table of runs, and
`tlapm M.tla` for the proofs of a module whose name ends in `Proofs`, and of
`NaturalSets`.

## The system

Nagios loads the module, calls it back whenever it has processed a check, and
unloads it. The module has no thread and no timer of its own: everything happens
inside those calls, on Nagios' thread.

| Component | State | Operations |
|---|---|---|
| Entry points, `src/module.c` | `g_options` | `nebmodule_init` parses the arguments, creates the fifo, tries to connect, registers callbacks; `nebmodule_deinit` deregisters, disconnects, saves and frees the fifo |
| Callbacks, `src/events.c`, registered by `src/broker.c` | none | service check, host check, acknowledgement, downtime: build a routing key and a message, call `n2a_send_event`; an oversized service check is split over several messages |
| Formatting, `src/json.c` | none | one JSON object per event, with size arithmetic against `max_size` |
| Event relay, `src/neb2amqp.c` | `conn`, `amqp_connected`, `amqp_errors`, `blackout`, three timestamps | `n2a_send_event`, `n2a_fifo_check` (flush, autosync), `n2a_amqp_check`, `n2a_amqp_connect`, `n2a_amqp_publish`, `n2a_amqp_disconnect`, `n2a_toggle_blackout` |
| Event queue, `src/fifo.c` | doubly linked list, size, `full`, `dirty` | `n2a_push`, `n2a_prepend`, `n2a_shift`, `n2a_pop`, `n2a_check_size`, frees |
| Cache file, `src/fifo.c` | the file, `pFile`, `file_lock` | `n2a_load`, `n2a_csync`, `n2a_clear`, `n2a_fifo_open_file` |
| Helpers, `src/xutils.c`, `src/logger.c` | none | allocation, joins, logging |
| Tests, `test/` | | `fifo-bench.c` exercises the list; `simu.c` loads the module without Nagios and is the only caller of the blackout |
| `contrib/nagiostats2amqp` | | an independent cron script |
| `lib/librabbitmq` | `conn`: socket, two buffers, a state machine, frames read that nobody waited for | login, RPCs, publishing, closing; encoding and decoding of methods, properties and tables |
| `lib/jansson` | the values a message is built of | objects, arrays, reference counts; `json_dumps` |

A callback runs like this:

    n2a_send_event
      n2a_amqp_check           connect again, if it is time to
      n2a_fifo_check
        flush                  connected, queue not empty, flush_interval over:
          n2a_shift            take the oldest event,
          n2a_amqp_publish     check again and publish it;
          n2a_prepend          on failure put it back and stop
        n2a_csync              autosync over: rewrite the cache file
      n2a_amqp_publish         connected before the flush, and nothing queued
      n2a_push                 otherwise, or if that publish failed

What is hard about it: the world changes between any two of these lines (the
broker goes away, answers late or with a close, the disk fills up, Nagios is killed); `amqp_state` in
`n2a_send_event` is older than the flush that follows it; `amqp_errors` is a
global that several calls set and others test; an event taken off the queue must
go back to where it was; publishing is not confirmed; the file is removed before
it is rewritten and its writes are not checked; and progress depends on Nagios
calling. The hazards are listed, each at its line, in `PROJECT.json`.

What makes each component correct:

- the relay: events leave in the order they came, none twice and none lost but
  by a named cause; flags and connection agree; a backlog drains after an outage;
  every call returns;
- the queue: its two chains are one list with no freed or leaked event, and it is
  a bounded queue that loses its oldest event;
- the cache file: it holds the queue when the module is unloaded, a beginning of
  it after a crash, and what is whole in it is read back (with a damaged event
  more, see below);
- entry points, options and registration: a load acts on its own arguments alone,
  and an event that was asked for is sent once, under a key that tells what it is
  about;
- the callbacks and formatting: the pieces of a split check put together are its
  texts (but for a few characters), and no message exceeds `max_size` (some do);
- librabbitmq: what is written is what is read, malformed frames are refused, and
  the agent and the broker agree on the state of the connection;
- jansson: an object is a map, an array a sequence, a value lives while it is held,
  and a text says what its value was.

## The modules

| Module | Models |
|---|---|
| `Fifo` | the queue as a value: one operator per function of `fifo.c`, and what a reload of the file yields |
| `FifoList` | the doubly linked list, its memory and its callers' protocol |
| `EventQueue` | abstract: the bounded queue that `FifoList` implements |
| `Neb2Amqp` | the relay, load and unload, saving, with the broker, the connection, the disk and the clock around it; its properties and its inductive invariant |
| `Neb2AmqpHist` | `Neb2Amqp` with numbered events and the sequence the bus received |
| `Relay` | abstract: the first-in first-out relay that `Neb2AmqpHist` implements |
| `Split` | what one callback sends: which texts, in how many messages, in which pieces |
| `NebModule` | the options, the callbacks and the keys, over loads and unloads |
| `CacheFile` | the bytes of the cache file, written, cut and read back |
| `Link` | abstract: the connection as `Neb2Amqp` uses it |
| `AmqpSession` | the connection frame by frame, with the broker; implements `Link` |
| `AmqpOctets`, `AmqpData` | the data types of AMQP as octets: integers; strings and tables |
| `AmqpMethods`, `AmqpFraming` | the methods, their fields and the requests; methods and properties as octets |
| `AmqpWire` | frames: written, split, delivered in pieces, put together and decoded, for any encoding of methods and properties |
| `JsonValue` | jansson's hash tables, arrays and reference counts |
| `JsonContainer` | abstract: a map, a sequence and who holds what; implemented by `JsonValue` |
| `JsonText` | `json_dumps`: strings, numbers, separators, the growing buffer |
| `Neb2AmqpProofs` | theorems about `Neb2Amqp` and `Neb2AmqpHist` |
| `FifoProofs` | theorems about `FifoList` and about `CacheFile` |
| `SessionProofs` | theorems about `AmqpSession`: the connection, and the messages on it |
| `SplitProofs`, `NebModuleProofs` | theorems about `Split` and about `NebModule` |
| `JsonValueProofs` | theorems about `JsonValue` |
| `AmqpWireProofs` | theorems about `AmqpWire` |
| `NaturalSets` | the induction over natural numbers that these use |
| `MCNeb2Amqp`, `MCNeb2AmqpHist`, `MCFifoList`, `MCCallbacks`, `MCAmqpWire`, `MCLibraries` | values for TLC |

How they fit together: `Neb2Amqp` is built on the operators of `Fifo`, which
`FifoList` implements with pointers and whose loading and saving `CacheFile`
spells out in bytes (its properties say what `Fifo` assumes; there is no refinement). Its connection is `Link`, and `AmqpSession` implements the same
`Link` with frames, so that what `Neb2Amqp` assumes of a connection is what the
exchange of frames provides; the frames themselves are `AmqpWire`. `Neb2AmqpHist`
implements `Relay`. `NebModule` is what happens before and after `Neb2Amqp`, and
`Split` what happens in a callback before it sends; both end in `SendEvent`.

Three configurations run models side by side that share nothing: a variable `part`
is chosen at the start and only one of the models moves. `MCFifoList` holds
`FifoList` and `CacheFile`, `MCCallbacks` holds `Split` and `NebModule`, and
`MCLibraries` holds `AmqpWire`, `JsonValue` and `JsonText`.

### Neb2Amqp

`pc` is the line the agent is at, `caller` on whose behalf the current function
runs (`n2a_amqp_check` returns to one of four places, `n2a_csync` to one of two),
and `arg`, `amqp_state`, `i`, `held` are the locals that live across steps.
`queue`, `dirty`, `file` are the fifo and its file; `connected`, `amqp_errors`,
`blackout` the globals of those names; `sinceConnect`, `sinceFlush`, `sinceSync`
the ages of the three timestamps. `conn` says what the connection object is
worth, including what the agent cannot see: a `mute` connection had its channel
closed by the broker, a `dead` one lost its peer.

Each action is the stretch of code between two points where the world can make a
difference. `n2a_amqp_connect` is one action: its stages set `amqp_errors` or not
and only the outcome is kept. Saving is one step for the removal of the file, one
for opening it and one per event written, since a crash between them leaves
different files.

What the module abstracts, and why it is safe:

- An event is a value; routing key and message are one thing, as in `struct sEvent`.
- The cache file is a sequence of events. A record cut by a crash, the extra turn
  of the `feof` loop and an empty file all show up as one damaged event at the
  end, which is what `Loaded` appends. That this is what the bytes amount to, as
  long as no event is too long and the old file was removed, is checked in
  `CacheFile` (`IntactEventsRead`, `OneDamagedEvent`).
- Time passes between callbacks. A callback reads the clock several times; with
  second-sized options and a callback that does not block they read the same.
- A timestamp is its age, up to the option it is compared with; beyond it the
  code makes no difference. Timestamp 0 (never, or "flush at once") is an age at
  the limit. The clock does not go backwards.
- A write to a dead connection is swallowed at most `SockBuf` times, then errs: the
  kernel's buffer is finite and a reset peer is reported.
- Disconnecting from anything but a sound connection may set `amqp_errors` again.
- Connecting and disconnecting are one step each. `ImplementsLink` states that the
  steps are those of `Link`, and `AmqpSession` that the frames behind them are too.
- Unloading ends with the queue freed. The globals are then gone, or keep their values
  if the library stays mapped (`nebmodule_deinit` resets none of them), and time
  passes until the next load.

The six kinds of `Faults` are the connection dropping, the broker going down, the
channel being closed, the file not opening, the disk filling up and the process
dying. `MaxFaults` bounds how many happen in one behaviour.

### FifoList

One action per call. Memory is explicit: `allocated` is the set of blocks that
hold an event, and a freed block may be allocated again. The callers' protocol is
in the guards: the agent holds at most one shifted event and pushes nothing while
it does; pops and prepends of new events, which only `test/fifo-bench.c` makes,
meet a list with two events or more. Without that bound the list is wrong, since
taking the only event off one end leaves the pointer to the other end dangling;
`RequeueFits` in `Neb2Amqp` is what keeps the agent away from that case.

### Split

One callback from its first size computation to its last message; `Neb2Amqp` goes
on where it ends, each message being one `SendEvent`. A text is its length or
`NoText` (a NULL pointer), a piece the interval of characters it covers, the other
members of a message one length, `base`. `stage`, `field` and `k` are the place in
the three expansions of `split_message`, `body` the texts in `jdata`, which all
messages of a callback share. `Overhead` is what a member adds beside its text; the
characters that JSON escapes are not counted, so real messages are longer than
modelled ones. An acknowledgement and a downtime are the same action, `comment`.
When the message is too long without any text, the room left is zero or negative:
the code then divides by zero, sends the message bare, sends nothing, or allocates
a buffer of negative size; the stage `undefined` ends the callback in the first and
the last case. A text that is not there becomes the word "(null)" in a split
message, glibc's rendering of NULL, and is absent from a whole one.

Pieces are cut by bytes. A text whose size is in `TwoBytes` is made of two-byte
UTF-8 characters; a piece that begins or ends inside one is not UTF-8, `json_dumps`
returns NULL for the whole object, and the message sent is empty (`empty`). The
last piece of a text stays in `jdata`, so it can empty the messages of the texts
that follow.

### NebModule

A line of arguments is a sequence of words, blanks and the signs the parser looks
for, parsed as the code does: fields, then tokens. `OptionValues` has one branch per
kind of option with the test its value must pass, and gives the members of
`g_options` it sets; `With` sets them. `Load` sets the defaults, parses, checks
`event_broker_options` and registers; `Unload` deregisters by the options of that
moment; globals survive, since the library may stay mapped. Nagios calls
`nebmodule_deinit` only for a module whose load it accepted. `Event` is one call
of each callback that is registered, so that one registered twice sends twice. The
field `urls` is the one that no load resets, which `NothingFromEarlierLoad` says.

### CacheFile

The file is a sequence of bytes, a line a word and a newline. A save removes the
old file or fails to, and writes any beginning of the new content: the process died
or the disk was full. With an old file that was not removed, its tail stays behind
the new bytes. A load reads two lines at a time into two buffers that keep what
they held at the end of the file, and hold anything at the start. `Readable` events
are those whose lines fit a buffer and hold no new line: the damaged event that a
load pushes may have one in it, from an uninitialised buffer, and is then saved with
the others.

### AmqpSession

The agent's calls `n2a_amqp_connect`, `n2a_amqp_publish` and `n2a_amqp_disconnect`,
one frame sent or received per step, with the queue of frames that were read while
another reply was waited for. The broker is external and follows the protocol: it
answers in order, may refuse any request with a close, close the channel or the
connection by itself, or vanish. The variables `errors`, `connected` and `conn` are
the agent's; `trouble` remembers what the broker did. The agent asks for no
heartbeat, so there is no timer.

A body has a length in octets, and `amqp_basic_publish` cuts it by the `frame_max` that
the login of this connection agreed on (`Fragment`); the lengths of the other frames
are left to `AmqpWire`, where a limit that leaves no room for an envelope is left out
as it is here. `n2a_amqp_publish` also tests the global `amqp_errors` after a publish
that worked; nothing can have set it in between, so that this module leaves the test
out, and `Neb2Amqp`, in which it is one of the flags that matter, has it.

### AmqpOctets, AmqpData, AmqpMethods, AmqpFraming, AmqpWire

`AmqpMethods` has two lists of fields per method, what `amqp_decode_method` reads
and what `amqp_encode_method` writes: nothing in the code but its generator keeps
them equal. `AmqpFraming` turns the fields into octets and back. `AmqpWire` has the writer (`amqp_send_frame`, `amqp_basic_publish` with
its fragments, the helpers that make requests), `recv` with pieces of any size, and
the state machine of `amqp_handle_input`. A 64-bit integer is the pair of its
halves, a floating point number its bits. Publishing stops at the first frame that
`amqp_send_frame` refuses.

`amqp_handle_input` takes the number of a method, or the class and the size of a body,
from a payload without asking whether it has their 4 or 12 octets, and what remains of a
shorter one wraps: nothing bounds the decoders then, which go on with what lies
behind the frame. `Behind` has what may lie there, and a frame of this kind (`TooShort`)
has one outcome for each (`Outcomes`): refused, or handed over, which goes to
`stray` instead of `got` to tell it from what was sent. A method shorter than 4 octets is
always refused, since its end marker is read as a part of its number; a header with 0 or
1 octets too; one with 2 to 11 octets, of a class that exists, may be either. The
size of a frame has 32 bits, and wraps for the last 8 lengths that can be announced
(`TooLong`): the target is then behind the reader, and everything received is taken for
the rest of the frame. Both are only ever the last thing in a stream
(`ComesLast`), since nothing is certain behind them.

`AmqpWire` does not extend `AmqpFraming`: how the payload of a method or a header
becomes octets, how octets become one, and the copy of a table are its parameters
`EncodedPayload`, `DecodedPayload`, `CopiedTable` and `Copyable`. `Libraries.cfg` sets them to the operators of
`AmqpFraming` and `AmqpData`. So the frames can be proved about whatever the
payloads are, and the run checks them with the payloads of the code.
`StreamAssumption` lists what may be sent: things whose payload is read back as it
was written, things that must be refused, a table that can be copied exactly if no
key in it is empty. It is not taken on trust for the code: TLC evaluates it in
`libraries` for every method, property and malformed frame of the run, which
is the check that encoding and decoding are inverse.

### JsonContainer, JsonValue, JsonText

`JsonValue` keeps one object and one array. The pairs of a hash table form one
list in which each bucket is a run from its first to its last pair; a pointer to a
pair is its key. The references of the caller (`held`) and those of the container
make up `refs`, and a value is freed at 0. `JsonText` dumps a value as a list of
chunks, one step per chunk appended to the buffer. Its property needs a meaning of
texts: a reader of JSON written from the grammar, and the table of well-formed
UTF-8 of the Unicode standard.

## The runs

| Run | Bounds | Shows |
|---|---|---|
| `agent_safety` | 2 interchangeable events, `cache_size` 3, 2 per flush, every kind of fault, 2 faults | `TypeOK`, `LinkCoherent`, `PublishFindsLink`, `RequeueFits`, `SkippedSyncIsSafe`, `StoredAtUnload`, `ImplementsLink` |
| `agent_liveness` | 1 event, `cache_size` 2, 2 per flush, connection and disk faults, 2 faults | `CallsReturn`, `KeepsPublishing`, `Drains`, `KeepsSaving` |
| `relay` | 4 numbered events, 2 loads, `cache_size` 3, saving at every callback, every kind of fault, 2 faults | `ImplementsRelay`, `InOrder`, `NothingLost` |
| `fifo_list` | list: 5 blocks, `cache_size` 3; file: buffers of 5 bytes, 3 events of which one is too long, buffers that hold nothing or a new line at the start, 2 queued, 3 starts, 2 saves | `TypeOK`, `WellLinked`, `NoLeakNoDangling`, `ImplementsQueue`; `IntactEventsRead`, `OneDamagedEvent` |
| `callbacks` | split: `max_size` 8, `base` 1 to 11, texts of 0 to 12 bytes or none; module: 2 loads, about 50 lines of arguments, 2 events | `PiecesFollow`, `WholeUnlessRounded`, `EmptyByMisalignment`; `NothingFromEarlierLoad`, `WantedEventsOnce`, `KeyTellsObject`, `RefersToCheck` |
| `libraries` | frames: about 400 lists of frames, `frame_max` 320, pieces of 1 or 6 octets or all; values: 4 names in tables of 2, 3 and 5 buckets, 2 values, arrays of up to 4; texts: about 1060 values | `FramesIntact`, `MalformedRefused`, `RequestsComplete`, `PublishedWhole`, `ServerPropertiesKept`; `ImplementsContainer`; `DumpReadsBack` |
| `session` | 3 messages with bodies of 0 or 2 octets, `frame_max` 9 or none offered and 10 wanted, 3 connects, 3 faults | `ConnectedMeansReady`, `InStep`, `WholeInOrder`, `FrameMaxRespected`, `ImplementsLink`, `EveryWaitEnds` |
| `autosync_off` | 1 event, no fault | `AutosyncCanBeDisabled` is violated |
| `small_cache` | 1 event, no fault, `cache_size` 4, flush -1 | `KeepsPublishing` is violated |
| `reload` | 1 event, no fault | `LoadRestoresCache` is violated |
| `unread_file` | 3 events, 1 failing open | `UnreadFileIsKept` is violated |
| `split_size` | as the split in `callbacks`, members cost 2 characters | `FitsMaxSize` is violated |

Why the bounds are enough. `cache_size` 3 with 2 events per flush has a full
queue, a flush that stops in the middle, one that empties the queue and one that
does not, and an event put back into a queue that is not empty. Two faults are
enough for a connection to fail, be replaced and fail again, or for a disk fault
to meet an outage or a crash. Options of 1 or 2 ticks distinguish "due" from "not
yet" for each timer independently, and 0 makes it always due. In the runs with
numbered events every event is new, and two loads make one restart; those runs
stop at their bounds, hence `CHECK_DEADLOCK FALSE` in them.
`InOrder` and `NothingLost` hold until one of the `mishaps` that `Neb2AmqpHist`
records has happened: a crash (events saved and sent are sent again), a load that
could not read the file, a failed save, a message written to a connection that was
not sound, an eviction. Every fault is in the run; `ImplementsRelay` says what
remains true behind a mishap.
In `fifo_list`, 5 blocks for at most 3 listed events and 1 held one leave a block
to be reused. In its file part a line of 3 bytes just fits the buffer and one of 4
does not, writes stop at every byte, 2 saves leave the tail of an old file behind
a shorter new one, and the third start reads what the second left.

In `callbacks` the room left goes from 7 down to -3 and texts are up to 12 characters
long: they fit, split into two or more pieces, split into as many pieces as make
quotient and remainder reach the room left (so that an end is missing), and meet a
room of 1, 0 and less. A callback ends, hence `CHECK_DEADLOCK FALSE` here too. The
arguments have one line for every branch of the parser, lines that set an option
twice and lines in unusual forms; two loads are one reload, and the events are
accepted and ignored ones of every callback about objects whose names are equal,
different, and joined to equal keys by a dot. A load behind which another is
possible sends one event less, which keeps the pairs of lines cheap.

In `libraries` every method, every property and every kind of table value is sent
with several values (extremes, negative numbers, nested and empty tables) and
delivered octet by octet; bodies are one less, equal and one more than one and two
fragments; 12 malformed frames stand for the checks of the decoder, 6 headers and 9 announced
lengths for those that are missing. Short streams
arrive in all mixes of pieces, long ones (over 90 octets) in pieces of 100, since
what matters is where a frame is cut and not how often. For the values, three names
share a bucket of the smallest table and part when it grows, which it does twice; an array of 2
cells grows once. For the texts there are all strings of one byte, the first
bytes of all lengths with all borders of the bytes that may follow, numbers at the
ends of the range, reals in a locale with a comma, and strings around the size of
the buffer (16, doubled twice). A list is sent and a value dumped once: these parts
end, hence `CHECK_DEADLOCK FALSE`.

In `session` three connects are a first, a failed and a repeated one; with three
faults a connection can be refused, closed and lost in one behaviour; a message
with no body, one cut in two fragments (a limit of 9 leaves room for one octet) and one in
one fragment (a limit of 10) meet a loss before, between and behind their frames, and a
connection with one limit is followed by one with the other.

### What the properties say

- `LinkCoherent`, `PublishFindsLink`: see the comments; together they say that
  three flags in three functions, one of them read long after it was computed,
  never contradict the connection.
- `RequeueFits`: an event put back never evicts another, because nothing is
  pushed between the shift and the requeue and the queue was within its size.
- `SkippedSyncIsSafe`: `n2a_csync` resets `dirty` although its writes may have
  failed. That turns out harmless: a callback that saved a queue with events in it
  goes on to push its own event, so the queue is dirty again when the callback
  ends, and a save is skipped for an empty queue only.
- `StoredAtUnload`: the file of an unloaded module holds its queue and nothing
  else, unless the disk failed during that very save; an empty queue that was never
  touched leaves the file alone.
- `PiecesFollow`, `WholeUnlessRounded`: pieces are counted with the room left and
  cut with one character less. They still follow each other exactly, and the text
  is complete when the quotient and the remainder of its length by the room add up
  to less than the room; otherwise its end is missing, by at most the quotient.
- `ImplementsRelay`: every step of the agent is a step of the relay. In
  particular a direct publish never overtakes, a requeue restores the order, and
  an event disappears only by eviction of the oldest or through a connection that
  is already unsound.
- `ImplementsLink`, twice: in `agent_safety` the agent's steps are those of `Link`,
  and in `session` the exchange of frames is. A stale `amqp_errors`, a second
  connection object or a close that reports an error would show as a step that
  `Link` does not have.
- `InStep`: a reply that comes late, or a frame nobody waited for, is never taken
  for the reply of a later request, though frames are queued on the connection.
- `FrameMaxRespected`: the limit that a login agreed on is the one that the bodies on
  that connection are cut by. It would not be if the larger of the two limits held, if 0
  were taken for a limit, or if a limit outlived its connection.
- `MalformedRefused`: the reader gives up at a frame that makes no sense and at
  nothing else, and reads behind a frame only when it has no fixed part, or a
  size that wraps. Such a frame ought to be refused too (`amqp.h:663` has a status for
  it, "Incorrect or corrupt data was received from the broker"), but
  `amqp_connection.c:325-345` does not test for it: in the run a short header is
  refused or handed over, depending on what lies behind it. The agent meets one only if a
  broker breaks the protocol.
- `EmptyByMisalignment`: which messages of a split check arrive empty, for texts
  with characters of two bytes: at least the first piece of such a text, if the
  room left is even, and everything behind a text whose last piece begins inside a
  character.
- `NothingFromEarlierLoad`, `WantedEventsOnce`: after any arguments, refusals and
  reloads, the options are what the last line says, and each wanted event makes
  one message.
- `KeyTellsObject`, `RefersToCheck`: the key of a message tells its object unless
  the key was cut or a host name has a dot, and `ref_rk` is the key of the checks
  unless that key was cut (`ref_rk` never is, so it then names no message).
- `IntactEventsRead`, `OneDamagedEvent`: what comes back from a file that was cut
  anywhere, was not removed, or has lines too long for the buffers of a load.
- `ImplementsContainer`: after any sequence of calls, each member is found by its
  bucket, is in the list once, and is freed when nobody holds it any more.
- `DumpReadsBack`: a text says what its value was, in every locale, and is refused
  exactly if a string in it is not UTF-8.
- `KeepsPublishing`, `Drains`, `KeepsSaving`: no state of the flags, the timers or
  the queue stops the agent from publishing, from emptying its queue or from
  saving it for good.
- `CallsReturn` and `EveryWaitEnds`: in the agent a flush ends, whatever fails
  in it (connecting is one step there); in the session every wait for a frame ends
  by its reply, a close or the end of the stream.

### Fairness

`WF(AgentStep)`: a call runs on Nagios' thread without waiting (every library
call of the model returns), so a started call goes on. `WF(Callback)`: Nagios
checks hosts and services for as long as it runs. `SF(Tick)`: the clock advances
even though callbacks come again and again; ticks are only possible between
callbacks, so weak fairness would let busy callbacks stop time.
`WF(BrokerComesUp)`: a broker that went down is restarted, without which nothing
can be promised. `KeepsPublishing` and `Drains` are about behaviours in which the
module finally stays loaded and out of blackout, `KeepsSaving` about those in which
it stays loaded. `Drains` needs a flush that takes more than the callbacks between
two flushes add: in the run, 2 against 1.

In `session`: `WF(ClientStep)`, a call goes on while it can; `WF(BrokerReads)`, a
broker that is there reads what was sent to it and answers; and
`WF(BrokerHangsUp)`, a broker that has closed the connection and gets no answer
closes the socket in the end, as AMQP brokers do after a timeout. Without the last
one `EveryWaitEnds` fails: only opening the socket has a timeout, and the agent waits
for a reply that a closing broker no longer sends. No fairness makes the broker
fail, close or vanish.

### What the violated properties show

1. `autosync_off`. `README.md:61` says a negative `autosync` disables it.
   `n2a_fifo_check` compares `elapsed >= autosync`, so the cache is rewritten on
   every callback.
2. `small_cache`. With `flush=-1`, the default, a flush sends `cache_size / 5`
   events: none for a `cache_size` below 5. Loading always queues an event and
   direct publishing needs an empty queue, so the agent connects and never
   publishes.
3. `reload`. The `feof` loop of `n2a_load` runs once too often: a load queues a
   damaged event after the stored ones, and one from an empty file.
4. `unread_file`. A file that cannot be opened when the module is loaded is
   removed by the next save with the events in it.
5. `split_size`. `README.md:55` calls `max_size` the maximum size of a message.
   `json.c:262` compares the lengths of the texts with the room left and forgets
   the members they become; a split message also keeps the last piece of the
   previous texts, and a host check adds its texts unchecked.

## The proofs

What is proved, each theorem for every value of the constants that satisfies the
named assumptions of its modules:

| Module | Specification | Properties proved | Inductive invariant |
|---|---|---|---|
| `Neb2AmqpProofs` | `Neb2Amqp!Spec` | `TypeOK`, `LinkCoherent`, `PublishFindsLink`, `RequeueFits`, `SkippedSyncIsSafe`, `StoredAtUnload`, `ImplementsLink` | `AgentInv` |
| `Neb2AmqpProofs` | `HistSpec` | `ImplementsRelay`, `InOrder`, `NothingLost` | `HistInv` |
| `FifoProofs` | `FifoList!Spec` | `TypeOK`, `WellLinked`, `NoLeakNoDangling`, `ImplementsQueue` | `ListInv` |
| `FifoProofs` | `FileSpec` | `IntactEventsRead`, `OneDamagedEvent` | `FileInv` |
| `SessionProofs` | `AmqpSession!Spec` | `ConnectedMeansReady`, `InStep`, `ImplementsLink` | `SessionInv` |
| `SessionProofs` | `AmqpSession!Spec` | `FrameMaxRespected` | `SessionInv /\ BodiesFit` |
| `SessionProofs` | `AmqpSession!Spec` | `WholeInOrder` | `SessionInv /\ MessagesInv` |
| `SplitProofs` | `Split!Spec` | `PiecesFollow`, `WholeUnlessRounded`, `EmptyByMisalignment`; the arithmetic `PieceBeginsInside`, `SplitReaches` | `SplitInv` |
| `NebModuleProofs` | `ModuleSpec` | `NothingFromEarlierLoad`, `WantedEventsOnce`, `RefersToCheck`, `KeyTellsObject` | `SendInv`, `KeyInv` |
| `JsonValueProofs` | `ValuesSpec` | `ImplementsContainer` | `ValuesInv` |
| `AmqpWireProofs` | `AmqpWire!Spec` | `FramesIntact`, `MalformedRefused` | `WireInv` |
| `AmqpWireProofs` | `AmqpWire!Spec` | `PublishedWhole` | `WireInv /\ BodiesInv` |
| `AmqpWireProofs` | `AmqpWire!Spec` | `RequestsComplete` | `WireInv /\ AskedInv` |

The runs add fairness to some of these specifications, or put another model beside
one; each of their behaviours is one of the specification proved about. Every
inductive invariant was first checked by TLC with the constants of the run that
checks its properties.

### The agent

The assumptions are `FifoAssumption` and `AgentAssumption` (`cache_size` at least 1,
`flush` positive or -1, integer options). The properties are not inductive by
themselves. `PublishFindsLink` needs to know that when the agent reaches the direct
publish with `amqp_state` true and nothing queued, the connection it had at the
start of the callback is still there: `StateIsFresh` says so, because the flush
loses a connection only while putting an event back, which leaves the queue not
empty. `RequeueFits` and the range of `i` need to know which functions are active
and what they hold: `Stack`. `SkippedSyncIsSafe` needs `DirtyOrEmpty`, that a queue
with events in it is dirty but between a save and the push that follows it.
`StoredAtUnload` needs `Writing`, that the file under construction is a beginning of
the queue. `AgentInv` is the conjunction of the properties and these four.

There is one lemma per action, in the order of `Neb2Amqp`, with one step per
conjunct of the invariant; the parts that several actions share (returning from
`n2a_amqp_check`, the outcome of a publish, the return of `n2a_csync`,
disconnecting, the loss of the memory) have lemmas of their own, and lemmas about
the operators of `Fifo` give the types and lengths of their results. Unloading has two
endings, globals gone or kept; `FreedFacts` is what they share. `NextInv`
collects the actions; `Invariance` is the only induction over behaviours.

### The relay

Every step with its history is a step of the agent (`HistStepIsStep`), so `AgentInv`
is at hand. The refinement maps the line of the relay to `Line`, the event being
flushed, the queue and the event of the callback. It needs `LineInv` besides: while
`n2a_send_event` publishes its own event the queue is empty, so that this event is the
head of the line, and a module that is unloaded, or is about to be, has no connection,
nor, in the end, events. Then
each action is shown to be one step of `Relay` or none.

`InOrder` is proved by saying what an action does to the sequence `bus \o Backlog`,
what was sent followed by what is left: it stays, loses one event, gets one younger
than all others at its end, or is followed by the damaged event that a load reads.
`OldEvents` gives the third case: events made so far are numbered below the next.
`FileIsCurrent` says why a clean empty queue can trust its file to be empty, which a
crash-free reload depends on; `AllAccounted` is `NothingLost` without counting on a
file that is about to be rewritten.

### The queue's list

`ListInv` says that there is a sequence of allocated, distinct nodes whose pointers in
both directions are those of the list (`Represents`, `Holds`), that the nodes
outside of it are free or held by a caller, and that the callers' protocol is at a
place where that makes sense. Each function of `fifo.c` has a lemma that gives the
sequence after it from the one before. The properties and the refinement speak of the
sequence that is read off the pointers, `Forward` and `Backward`, which are
recursive functions: `ForwardIsSequence` and `BackwardIsSequence` prove that they
give the sequence of `ListInv`, by induction along the list. The library's induction
theorems have an operator as a parameter, which the provers cannot instantiate;
`NaturalSets` states induction about the set of the numbers at which something
holds, and proves it from the well-foundedness of the naturals.

### The cache file

The assumption is `FileAssumption`: buffers of at least 2 bytes, and events and
uninitialised buffers of any bytes. `Content`, what a save writes of a queue, is a
recursive function of its length; `ContentIsWritten` unfolds it and `UntilGrows`
gives the bytes of one event more. `FileInv` says that the file begins with the bytes
that the last save has written (`Begins`), and where the loop of `n2a_load` is
(`Loading`): while it reads intact events it stands behind the bytes of the last one,
with that event in the buffers, so that `Gets` finds exactly the two lines of the next;
behind the intact events it reads at most one, and `WhereItEnds` and
`DamagedTurn` go through the places at which a file that was cut may end: before
the next key, inside it, behind it, inside the message, or before its new line.
`OneDamagedEvent` is part of the invariant, since a turn that finds the end of the
file leaves the loop.

### Objects and arrays

The assumption is `TableAssumption`: finitely many names, natural hashes, and a last
prime above the number of names, since `hashtable_do_rehash` does not check that
there is another. `ValuesInv` says that the buckets are disjoint runs that together are
the list of pairs, that each pair is in the bucket of its hash, that no name is there
twice, that an array is within its memory, and that a value's count is the number of
places that refer to it. Each operation has a lemma that
gives the list after it (inserting behind the last pair of a bucket, removing
at either end of a run or inside it, moving all pairs to a larger table one by one) and is
then a step of `JsonContainer`, or a stutter when the code refuses.

### The frames on the wire

The assumptions are `WireAssumption` (a `frame_max` with room for an envelope and one
octet, pieces of at least one octet) and `StreamAssumption`, for any such encoding of
payloads. `WireInv` knows all octets that were ever put on the wire, `T`, where in them
each thing sent lies (`Joined`), and what is handed over of each beginning of the list
(`Handed`). Then the reader is at a place between two numbers: the things before the
k-th were taken and `got` is what they give, `inbound` holds the octets from there to
`p`, the buffer of the socket those from `p` to `q`, the wire the rest; and `state` and
`target` agree with the distance from the beginning of the thing (`Place`). However
`recv` cuts the octets, `p` and `q` only move to the right.

Each thing sent has one lemma that says what the reader makes of it: a frame is read
back (`FrameReads`: four octets of a length give that length, whatever they are), a
wrong one is refused when its announced end is reached, an unfinished one never
reaches its target, and of a frame without its fixed part, or with a size that wraps,
either comes an error or something that is not in `got`; it is the last thing of its
stream. `Opens` says what may come first: in the state `initial` the
reader takes 8 octets at once and copies 7 (`CopiedHeader`), so that the first frame
is intact only because its eighth octet is 0, the high octet of a class below 256,
or the end marker of a frame that is refused. `Readable`, a recursive
function, is the last member of `Handed` (by induction with `NaturalSets`), and the two
properties follow from where the reader can stop.

`PublishedWhole` is about the whole list at once: `Folds` says what a list of frames
makes of the messages put together before it, and lists are joined, shortened and
extended by lemmas. `BodiesInv` says that what is on the wire, followed by what is
left to send, makes the messages published so far, as long as no frame was refused
(`Counted`); and that behind a message not yet split there is no content of another
(`Waits`), so that splitting it in front of the rest adds exactly its body. That
the fragments are the body is arithmetic: their number is the length divided by
their size, rounded up (`Rounding`), all but the last begin inside the body
(`FragmentsCover`), and each begins where the one before ended (`FragmentAppended`).
The reader changes nothing of a frame that this looks at (`ReadAlike`).

`RequestsComplete` has two halves. `AskedInv` follows a request's frame: as long as
none was refused, it is among those left to send or on the wire, and what is on the
wire and not malformed is handed over (`HandedHas`). `EveryFieldSet` is about the
tables: for each of the 19 requests, every field that `amqp_encode_method` writes is
given by the caller or set to zero by the library, so that none is left as the stack
had it (`ObjectFieldsSet`, `MessageFieldsSet`). The tables are functions put together
by `Merged`, and `FieldsOfClasses` finds the entry of a method in them.

### The session

No bound on messages, faults or connections enters the proof but as the guards that
have it. The assumption is `SessionAssumption`. `SessionInv` is, place by place in
the code, what may be under way between the agent and the broker: `AlignedLogin`
and `AlignedRequest` list it for a connection without trouble (a request, or its
reply), `Incoming` what a read may meet when the broker has closed (the reply, the
close, or the reply and then the close, never a stale reply), `AlignedClose` and
the rest of `ClosingConnection` the two closes of `n2a_amqp_disconnect`, after
which late frames may still come in; `Remains` that a connection object that is
destroyed leaves nothing to the next. The refinement maps a call to its last step: `Link`'s connection changes
when the call returns, and whatever happens before is a stutter or the
environment's step.

`FrameMaxRespected` relates a body frame to the limits of the connection it is on.
`BodiesFit` says that no body frame is under way before the broker of a connection has
proposed its limit, and that those under way fit in it; `SessionInv` gives that the
socket of the connection before is gone with its frames, and that publishing begins behind
a login, whose last step sets `frame_max` to the minimum. `Fragment` is then within it.

`WholeInOrder` needs to know that the frames under way and what the broker has
already read of a message continue one another. `MessagesInv` says so with a
sequence of counts, `left`: what the message of the j-th frame under way still needs
after it, its header counting as one and its body by the octets. A first frame follows a 0 and sets the count, any other frame
follows a number above 0 and lowers it by what it holds (`Taken`), `left[0]` is what the broker still waits
for and the last count what the agent still has to send. The counts are determined
by the frames, recursively; stating that they exist makes the invariant first-order,
and each step extends or shifts the counts it was given.

### The split

`SplitProofs` proves, for every length of a text and every room left, that no piece
begins behind the end of its text (`PieceBeginsInside`, why `message + offset` is
within the string) and where the last piece ends (`SplitReaches`, the arithmetic of
`WholeUnlessRounded`). Both write the length as quotient times room plus remainder
(`Division`) and expand the product.

`SplitInv` says message by message what a callback has sent: a split sends the
messages of its texts one text after the other, so that the j-th piece of a text has
a fixed place in `sent`, and its content is determined by the text and by the last
pieces of the texts before it, which stay in `jdata`. The three properties follow
from the places. `EmptyByMisalignment` needs a parity besides: pieces
advance by `left - 1`, and while that is even every piece of a text of two-byte
characters begins and ends between two of them (`EvenOffset`, `CutPiece`).

### Options, callbacks and keys

The assumption is `NebAssumption`: arguments and names are texts without a NULL in
them, `strtol` gives integers, and Nagios checks services with a service and hosts
without. `NothingFromEarlierLoad` compares two runs of the parser: options that agree
but for `urls` still agree after any field, by induction over the places of the line
(`ParseExists` and `ParseIsParse` prove that the recursive function of
`ParseArguments` exists, `ParseAgrees` does the induction).

`SendInv` says that Nagios has a callback once if the module is loaded and its
options concern it, and otherwise not at all, and that the n-th message is that of
the n-th event that was asked for; a load, refused or not, and an unload keep that
because they register and deregister by the same options. `KeyInv` says that the
options a key is made of are texts, the connector not an empty one, whatever was
parsed: an empty value is an address (`FieldValues`). `KeyForm` then gives the place
of every part of a key: the recursion of `Join` (`JoinExists`, `JoinGrows`) puts a
dot behind every part but the last. `KeyTellsObject` follows: with equal keys the
kind and the level stand at the same places, a host without a dot ends at the first
dot behind its beginning, and the service is the rest.

### Only model-checked

- All liveness: `CallsReturn`, `KeepsPublishing`, `Drains`, `KeepsSaving`. Neither
  fairness nor `ENABLED` is in the prover's reach.
- `AmqpData`, `AmqpFraming` and `JsonText`, which use recursive operators
  on octets and values. What such an operator computes for every value needs an
  induction over data, and the prover has no arithmetic in a module that reaches one.
  So that payloads are read back, which `StreamAssumption` says, is model-checked.
- Of `AmqpWire`: `ServerPropertiesKept`. It is about the copy of a table, which is a
  parameter there and recursive in `AmqpData`.

## Not modelled

- The layout of messages, logging, allocation and its failures, the memory of
  connection objects and the pools behind decoded frames. A table is a value: that its
  copy shares no memory with the original, which `amqp_release_buffers` recycles, is
  not among the things `ServerPropertiesKept` can say.
- What follows a frame without its fixed part or with a size that wraps: one such
  frame is read, as the last of its stream. For a size that wraps the code also
  writes what it received behind a block that is too small; what that overwrites is not
  modelled, nor is what a receiver makes of a frame like this.
- In `AmqpSession`, the lengths of frames that are not bodies, and a broker that proposes
  a `frame_max` with no room for a body.
- A clock that is set back; a login against a broker that accepts the connection
  and never answers or closes (excluded by the fairness of `session`).
- `cache_size` 0, which `module.c` lets through and the list does not survive.
- What a message is when its room is zero or negative: the actions are modelled,
  but nothing in the repository says what is right, so no property is stated.
- In librabbitmq what the agent does not use: consumers, URLs, TLS, heartbeats;
  in jansson reading, packing, comparing and copying. Nagios' headers are
  declarations. `contrib/` is another program.

## Plan

Done: `Fifo`, `Neb2Amqp` with its safety and liveness, `Relay` and `Neb2AmqpHist`,
`FifoList` and `EventQueue`, `CacheFile`, `Split`, `NebModule`, `Link` and
`AmqpSession`, the wire of librabbitmq, jansson's values and texts; the proofs of
the safety and the refinements of the agent, the relay, the list, the session and
jansson's values, and of the safety of the cache file, of the split, of the
module's loads, callbacks and keys, and of the frames, messages and requests on the
wire.

Next: `FifoList` for `cache_size` 0, and its protocol derived from the agent's.
