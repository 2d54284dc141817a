# A verification of LBP and its firmware simulator

LBP is a message protocol between a host (LightBurn) and a laser machine. The
repository holds a header library for firmware authors (`lbp/`) and a simulated
firmware that uses it (`lbp-simulator/`). This directory holds TLA+ models of the
parts that carry the logic, TLC configurations that check them on small instances,
and TLAPS proofs of what holds for every instance.

    tlc -config MCJob.cfg MCFirmware       # a run
    tlapm FirmwareProofs.tla               # the proofs of a module

## 1. The system

| Component | State | Operations | Talks to |
|---|---|---|---|
| Ring buffer `ringbuffer.h` | array, head, tail, bookmark | write, read, bookmark, rewind, clear | the parser owns it |
| Parser `parser.h` | scan state, field buffers, header shift register | feed, parseNext, clear | one for the wire, one for the job file |
| Output queue `simutils.cpp`, `queue.h` | queue of messages, last response, overflow latch | push, respond, nack, lastResponse, pop | every handler pushes; `tx()` drains |
| File system `filesystem.cpp` | Idle / Receiving / Reading, the file | begin, chunk, end, startReading, feedParser, stop | fed by requests, read by `pumpJob()` |
| Movement `movement.cpp` | Idle / Jogging / Moving / Dwelling / Paused, command queue, position, laser, latches | process, step, stop, pause, resume, jogs | fed by requests and by the job; reads the configuration |
| Firmware `firmwaresim.cpp` | state flags, last transaction id, fault | rxCallback, step, setFault, process | owns all of the above |
| Configuration `configuration.cpp` | settings, staged settings, a JSON file | query, set, commit, save, load | requests; movement reads it |
| Simulation worker `simworker.cpp` | timer, transport, display points | timerEvent, start/stop transport, fault, rx, tx | one thread, runs the firmware |
| Transports `tcptransport.cpp`, `serialtransport.cpp` | server, one socket or port | start, stop, send, connect, read, discard | signals to the worker |
| Message and payload `message.h`, `payload.h`, `checksum.cpp` | a byte array and a cursor | build, read arguments, checksum | used by every handler |
| User interface, log | widgets, log entries | drawing, fault button | asks the worker |

**How they interact.** One worker thread runs everything but the user interface. Its
Qt event loop serves a 5 ms timer, which calls `FirmwareSim::step()` in slices of
0.5 ms; the transport, which calls `rxCallback()` with bytes; and the fault button,
which calls `setFault()`. None of them overlaps another, but they come in any order.
Inside `step()`, `pumpJob()` moves commands from the job file through a second parser
into the command queue; the movement loop executes them; `updateFwState()` caches the
flags and detects the end of the job; `tx()` sends what was pushed.

**What is hard.** The order of requests, steps and faults; retries of requests whose
answers were lost, against a memory of one response; a second file that arrives while
a job runs; commands from two sources in one queue; pause, jog and stop in every state;
completion detected by a latch or by running dry; a byte parser that goes back; a
settings file rewritten in place; connections that end at any point of a message, while
the firmware remembers what came over them; two threads and a list; and latches and caches that outlive what they
describe. `PROJECT.json` lists each hazard at its line.

**What makes each component correct.** Ring buffer: no byte that may be read again is
overwritten. Parser: the messages depend on the bytes, not on how they were cut, none
is lost, and it never sticks. Queue and retries: a request is executed at most once and
answered with its own answer. File system: the file is what was confirmed. Movement:
pauses lose nothing and keep the laser off. Firmware: a job is its commands, in order,
once; completion is true; a fault keeps the head still; calls return. Configuration:
what was committed is what is read, and is there after a restart. Transports: one host
is served, and whoever keeps trying is answered. Motion: the end of a path does not
depend on how time is cut, and is where the commands asked. Display: each point is drawn once. Messages: what is called
complete is well-formed, and is read as it was written.

## 2. Plan

Order of work, the most important behaviour first. Done: 1-12.

1. `RingBuffer`, `RewindableFifo`; `Frames`, `Parser`, `FrameStream` (refinements).
2. `OutputQueue`, `FileSystem`, `MovementSim`, composed in `FirmwareSim`.
3. `FirmwareHost`: the firmware under a retrying host; `FirmwareClaims`.
4. `Configuration`.
5. Proofs: parser safety, firmware types, pause and fault safety, configuration.
6. `RequestService`: what `FirmwareHost` implements.
7. `TcpTransport`, `SimWorker`, `Connections`: both transports, hosts that reconnect or
   restart, what survives a connection.
8. `Motion`: four axes, clamping, wrapping, rounding, rasters.
9. `Display`: the two threads, the lock, the timer's clamp.
10. `Checksum`, `Message`, `Payload`, `Queue`, `BoundedQueue`, composed in `Messages`.
11. The properties of pauses, jogs, faults and transfers that ended in item 3 as claims
    or as hazards without a property.
12. Proofs of every safety and action property, and of the four refinements: the parser
    and its ring (`ParserProofs`), retries, transfers, jobs, pauses and faults
    (`FirmwareProofs`), the configuration (`ConfigurationProofs`), both transports
    (`ConnectionsProofs`), the two threads (`DisplayProofs`), the geometry of `step()`
    (`MotionProofs`), the builder, the queue, the checksum and the reader
    (`MessagesProofs`); and the induction that they share (`Induction`).

## 3. Modules and code

`RingBuffer` - the array and its three indices, one action per method. A byte lives in
slot `index % Capacity`. The indices are naturals; the code's `size_t` does not wrap in
the life of a program. After `clear()` the array counts as garbage, so that a read of a
stale byte would show. `RewindableFifo` is what it promises: bytes kept, bytes unread,
and the argument of the last write, so that a write of other bytes than the caller's
is no step of it.

`Frames`, `Parser` - the message layout as parameters, and `feed()`, `clear()`, and
each iteration of the loop of `parseNext()`. `call` records whether the caller is
inside `parseNext()`, may call it, or got false. Field sizes and the checksum are
parameters; that the header register finds the magic rests on the assumption
`MagicHasNoBorder`, true of "DRGN". `FrameStream` is what it promises: the messages are
those that `Scan` finds in all bytes since `clear()`, a recursive function of the index
from which one looks for the next magic.

`OutputQueue` - messages are records; the queue is a sequence with a bound. The last
response is remembered even when the queue is full, as in the code.

`FileSystem` - a file is the sequence of job commands in it, since `Parser` shows that
bytes are parsed to those, whole. `fbuf` is what the file's parser holds. Opening may
fail, and a write may take part of a chunk (`DiskMayFail`).

`MovementSim` - one axis, one laser, whole ticks. A rate is set or not; a move of
distance d takes d ticks. `step()` is a sequence of actions, from `BeginStep` while
`budget` is left: `TakeNext`, `AdvanceMove`, `AdvanceJog`, `AdvanceDwell`. The other
axes and lasers run through the same code side by side, and share the one state
machine that is modelled.

`FirmwareSim` - `phase` is what the worker thread is in: `loop` between callbacks,
`rx` in `rxCallback()`, `pump`, `move`, `finish` in `step()`, `tx` in either. `Process`
is `process()` whole, with the duplicate test, the fault test, and the handlers in the
order the code tries them (their commands are disjoint). `Update` is
`updateFwState()`, `checkJobComplete()` and `endJob()`.

`FirmwareHost` - the host of the protocol's rules (spec.md, "Transactions"), an
external part: it numbers requests one after the other and may repeat the last one at
any time, so an answer may have been lost or late. History variables record what was
evaluated and confirmed. They never restrict the firmware. A number is not used twice: a
run has at most 65535 of them, as many as the 16 bits of a transaction id hold without
`txid_none`, and messages in a job file have none (`HostAssumption`, `NumbersAssumption`). What a number that
comes round again would meet, the memory of the request that had it before, is therefore
not in the model, nor in the theorems. A `jog_start` in a job file counts as one for
`JogStaysOff`.

`Configuration` - `phase` is how far start-up or `commit()` has come; every step may be
followed by a `Crash`. The file is `NoFile`, `Torn` or values. A set with a wrong size
is rejected before it changes anything, and has no action. The firmware's
module sees configuration requests only as requests that are answered
(`PlainOps`): they share no state but the output queue, and `UserOrigin` there is a
committed value.

`RequestService` - a request takes effect once, and whoever is told so is told the
truth. `number`, `effects` and `known` are mapped to the host's count of requests, and
to what was evaluated and confirmed of the last.

`FirmwareClaims`, and the end of `Configuration` - statements of the documents that the
code does not meet.

`TcpTransport` - `m_socket`, the server, and for every connection what both ends know of
it. `Close` is what closing does to them, `Serve` one turn of the loop of
`onNewConnection()`. `SendBytes` includes the flush that finds the peer gone and, before
it returns, has `disconnected` emitted and `discardSocket()` run.

`SimWorker` - the worker's event loop: one slot at a time, each until it returns
(`phase`). `StartTransport` stops what there is first, as the code does. `Read` is
`readSocket()` or `onBytesReady()`, of any part of what has arrived. A message is a head
and as many pieces as the head says, so that half of one can stay in `buffer` and
swallow the beginning of the next; that the real parser behaves so is module `Parser`.
The machine is reduced to requests that have an effect, have none, or are rejected;
the memory of retries is module `OutputQueue`, whole.

`Connections` - the hosts (external) and the operator. The host's actions are taken
between slots: a slot reads what had arrived when it began and only appends to what the
host reads, so that an action of the host in between commutes with it. Requests carry the
session of the host that made them, which the code does not see (`ConnectionsAssumption`):
it is what the properties tell apart.

`Motion` - `step()` as a function of a machine and any `dt`: `Stepped` is its loop,
`TakeNext`, `Execute` and `BeginMove` are `takeNextCommand()`, `Moved` and `Jogged` the
two kinds of motion. Coordinates are whole as in the code, `Rounded` is `llround()`,
ties away from zero. Time is counted in parts in which the divisions are exact
(`MotionAssumption`: each rate divides `Unit`). `Pass` is one turn of the loop, and
`Stepped` takes at most `MaxPasses` of them: the code's loop has no such bound, and
`StepIsExact` rests on a proof that it is never what ends the loop. One laser stands
for two. A go-to (`jog_to`) is told apart from a programmed absolute move (`abs`), though
the code decodes both alike. Any axis may become rotary, or none. A rate is a `uint32_t`
that a jog takes as an `int32_t`; `MaxInt32` is the greatest of these. `stale` is history:
it says that the origin is left from a job that was stopped. Where the head
is asked to be (`Destination`) is taken from the documents, `MovedTo` command by command:
a go-to from machine zero, a programmed move from the origin of its own job. `Differences`
names the kinds of commands on which the code does otherwise (section 4);
`EndsWhereAsked` is about all queues without one of them.
`MovementSim` and `Motion` are two views of one class: the first
has the answers and the latches, the second the geometry.

`Display` - `timerEvent()` of both threads, cut where the lock is taken and released.
A point is the simulated time at which it was made.

`Loops` - `AfterLoop`, the passes of a loop as a function of what it starts from.

`Checksum` - `crc16_update()` bit by bit on sets of bits, its two loops one inside the
other as in the code; `ReferenceCrc` is the remainder
of the division by x^16+x^12+x^5+1. `Message`, `Payload` - the two classes as functions on
records, each with a record of what was written, for the properties. `Queue` - the array
and two indices modulo `IndexMod`, the number of values of a `size_t`. `Messages` composes
the four: a builder that calls the methods in any order, `OutputQueue::push`, the pop in
`tx()`, a reader that asks for some arguments, or too many. `BoundedQueue` is what a
queue promises. `MessagesAssumption` is what the code asserts of its callers
(`message.h:66-82`, `:143`): the arguments fit, those of a nack too, and a size that was
written is read as it was. It also says what C++ types say: the values that are written
are values of their type (`RangeOf`), chunks are bytes, and a command has 16 bits.

The `MC...` modules hold the instances.
Definitions named `Mut...` are faulty variants of the definition behind them: each
property has one that a run finds.

## 4. Runs

| Run | Question | Bounds |
|---|---|---|
| `ring_buffer` | does the ring implement the FIFO? | capacity 4, two byte values, chunks to 3, 9 bytes written: twice round the array |
| `parser` | do the bytes alone decide the messages? can it stick or spin? | streams of three items out of seven (whole, corrupted, oversized, truncated, stray, and with a magic inside), pieces of any size up to 8, buffer 8 = one largest message |
| `transfer` | is a retried request done once, and answered rightly? does a rejected one change anything? | 4 numbered requests, 5 sends, 11 kinds, one unnumbered move, queue of 1; every open and write may fail; with and without a job on disk |
| `job` | is a job its commands, in order, once? is completion true? do pauses, stops and faults hold? | two job files, one with a job_end and a malformed command, one without; 4 requests of 10 kinds; queues of 2 and 1 |
| `job_ends` | do calls return, do jobs end, is a pause seen in the state? | the same with 3 requests, fair |
| `configuration` | does a query answer what was committed? | two codes, two values, crash and disk failure everywhere |
| `connections` | is one host served, and are answers its own? is everyone answered? | two TCP connections that are used again and again, a serial line; 2 requests for each session of a host; 3 events (a lost connection, a dropped piece, a host restart, a start or stop, the end of a job) |
| `motion` | is `step()` exact for any dt, in bounds, and right about the end? | four axes of different travel, two rates, 15 commands, 3 of them queued; 2 stops, jogs or changes of the rotary axis, to any of the four or none |
| `display` | is each point drawn once, in its turn, in the end? | ticks of 5 in steps of 2, gaps up to 7, a clock up to 10 |
| `messages` | is what is sent well-formed, and read as it was written? is the array a queue? | the protocol's sizes, magic and CRC; up to 8 bytes of arguments, queue of 2, indices modulo 4 |
| `claim_...` | two statements of the documents that the code does not meet | small instances, one property each |

**Why the bounds are enough.** A retry concerns the last request and the one response
remembered, so that three different requests with retries of the last reach every
relation between the two; the fourth is the one affected. Queues of one or two
commands are full often, and the parser of the file holds less than the job. A job of
five to eight commands has each kind of command with an effect of its own. Two codes
show an entry that is missing, 0, replaced and left alone. The ring wraps at every
offset. A connection that took the place of another, half a message from the first and
a restarted host need three events and two connections; every closed connection can be
opened again without limit. Three queued commands set a rate, an origin or raster
powers, and use them twice, from a position that the first move left. The axes of
`motion` have lengths without a common factor, so that they round differently, and a
rotary one is wrapped more than once by one move. Its greatest `int32_t` is 1, so that
the rate 2 is none for a jog. `display` has gaps of less than a
step, of several steps, of exactly a tick, and longer. The indices of `messages` wrap
after two rounds of the array, as a `size_t` does after 2^55.

**Fairness.** Weak fairness of `Step` and `RxEnd`: code that was called runs on. Strong
fairness of `StepBegin`: the timer fires again and again between other callbacks of the
same event loop, but each of them disables it for a moment. For the parser, weak
fairness of its loop and of the caller's `while (parseNext())`. In `connections`, weak
fairness of what a slot calls and strong fairness of each kind of slot, for the same
reason; and a host that goes on reading, reconnecting and retrying, which the protocol
asks of it. In `display`, weak fairness of both threads and strong fairness of
`GetSimPoints`, which waits for a lock that the other thread takes for a moment of
every tick. Nothing is assumed of the operator, the disk or the network.
`JobTerminates` therefore allows a job to stay paused or jogged over for ever, and
`EventuallyAnswered` names the cases in which nobody listens.

**Findings.** The two refuted claims are quoted in `PROJECT.json`:

- `NackMeansNoAction`: a malformed `cmd_file_begin` is rejected after the transfer
  under way was ended (`filesystem.cpp:30`).
- `QueryPure`: a query of a setting that is not there creates it with 0, which changes
  the user origin (`configuration.cpp:86`, `movement.cpp:546-550`).

Three differences are left out of `EndsWhereAsked`, as `Differences`; each of them
breaks it:

- `go_to`: the coordinates of a go-to are measured from the job origin
  (`movement.cpp:819`), not from "the machine's absolute zero" (spec.md:383).
- `stale_origin`: `stop()` keeps the origin (`movement.cpp:588`), which is meant to be
  one "for absolute moves during the current job" (movement.h:151): the absolute moves
  that come next are measured from it.
- `no_rate`: a move before any speed was set is dropped (`movement.cpp:888`), not made
  "at the rate specified by configured defaults" (spec.md:309).

Other differences, modelled as the code does them and not given a run:

- The end of a job ends the transfer of the next file too, whose `cmd_file_begin` was
  accepted once the job's own file had been read (`firmwaresim.cpp:129`).
  `TransferEndsAnnounced` says what is left to the host.
- A jog overwrites a pause, and after it the queue is processed though nobody continued
  (`movement.cpp:642`; movement.h:61). A `jog_stop` while a jog is paused does not stop
  it (`movement.cpp:647`; spec.md:410).
- A jog that is refused still looks the rotary axis up, and the move under way then
  wraps or clips by it (`movement.cpp:624`; movement.h:125 speaks of a move or jog that
  begins).
- A job that ends without a `cmd_job_end` leaves its origin as well, and so does one that
  a host sends without a file: only `cmd_job_end` and `cmd_cut_from` reset it
  (`movement.cpp:578`, `:554`). The model counts an origin as stale after `stop()` only.
- A rate that was set to 0 counts as none was set: moves at it are dropped.
- A dwell is read in microseconds (`movement.cpp:525-531`); spec.md:299 says
  milliseconds. In the model it is a number of parts of time, and no property is about
  its unit.
- Speeds are int32 in the documents (spec.md:312) and `uint32_t` in the code: a negative
  one is a great rate for moves, and none for a jog, which takes it as an `int32_t` again
  (`movement.h:154-156`, `movement.cpp:622`).
- An absolute move of a rotary axis is clipped at the travel before it could wrap
  (`movement.cpp:820`), and homing leaves that axis where it is (`:830`).
  The specification says of neither what it should do, and movement.h:142 only that a
  rotary axis wraps. Home is 0, as nothing reads the home offset (spec.md:818). `Target`
  has these as the code does.
- `cut_from_current_position` takes the position that the head has when the command is
  carried out (`movement.cpp:541`); spec.md:659 says the one "at the start of the job".
  They differ if moves of the job come before it. `Carried` has it as the code does.
- Raster powers are used up by whichever move comes next, a travel move included
  (`movement.cpp:682`; spec.md:597 speaks of the next cut).
- A crash between opening and writing `config.json` leaves an empty file, and the
  firmware cannot start again (`configuration.cpp:54`, `:63`).
- Job-file queries and jogs are answered, and a transaction id in a job file replaces
  the remembered response (spec.md:124, `movement.cpp:123-228`, `simutils.cpp:16-18`).
- `cmd_get_state` answers flags of the last step (spec.md:777, `firmwaresim.cpp:227`);
  `PauseIsReported` says that they come to be right.
- The overflow latch is never read (simutils.h:28).
- `cmd_continue` when not paused and `cmd_execute` without a file are confirmed
  (spec.md:182).
- A host that falls silent keeps its connection, and all others out, until an answer to
  it fails (`tcptransport.cpp:73`).
- `readSocket()` reads `m_socket` after its handler ran, which is null if the peer was
  found to be gone in between (`tcptransport.cpp:88`). The model lets that end the
  program.

## 5. Proofs

All proofs are checked to the last leaf. They assume the named assumptions on the
constants: capacities that are powers of two and hold the largest message, positive
field sizes, a magic without a border, positive queue sizes, travel and ticks, requests
and job files of the right shape, a host whose numbers are its own, rates of 32 bits
that divide the unit of time, values within their C++ types, a number of values of an index that the
capacity divides, and configuration values that are integers apart from the markers. TLC
evaluates each of them in the runs. Two hypotheses are stated in the theorems that need
them, because they speak of all sequences and no run can evaluate them. `CrcFits`
(`CompleteMeansSound`, `ReadsAsWritten`): the checksum is `SizeCrc` bytes long; the
lemma `crc16Fits` proves it of the checksum in the code. `CrcIsCrc16`
(`ChecksumIsDivision`): the parameter `Crc` is `crc16` of module `Checksum`, in two
bytes, which is how the run has it.

Each module states its inductive invariant as a conjunction of named parts and proves
first that a step keeps each part.

- `Induction`: the library's induction theorems take operators, which the provers
  cannot instantiate. Here induction is about a set (`Induction`, `BoundedInduction`),
  from the well-foundedness of `<`; what is to be shown of every n is the set of those n
  of which it holds. From it follow that a recursive function on an interval exists
  (`LoopExists`, `SearchExists`), so that its equation holds, and what is true of
  `AfterLoop` after any number of passes.
- `ParserProofs`, the ring: `RingIsFifo`, a refinement. A byte is found by its distance
  from the head modulo the capacity (`Distance`); a write of n bytes moves none that is
  less than `Capacity - n` behind the head (`StoredIs`), and `RingBounded` says that
  everything unread or kept is.
- `ParserProofs`, the parser: `ParserCorrect` (`Spec => []ParserInv`) and
  `ParserNeverWedges`. `ParserInv` is inductive: next to types and index order it says
  that the bookmark is held exactly inside a message and that the read position is the
  mark plus the fields read. That relation is what bounds an unfinished message by the
  largest one, from which `NeverWedged` follows.
  `NothingIsLost` and the refinement `ParserImplementsStream` need what the parser has
  understood so far (`StreamInv`): the bytes in the ring are those of the stream
  (`InStream`); what was delivered, followed by what `Scan` finds from where the parser
  looks (`Searching`) or behind the magic it found (`Reading`), is what `Scan` finds in
  all. As bytes may still arrive, both speak of every continuation of the stream
  (`LooksFrom`, `ReadsFrom`). `MagicHasNoBorder` is used while the header
  register still holds a part of the magic of the message before: that part and the
  bytes that follow are never taken for another magic (`Shifts`).
- `FirmwareProofs`, the firmware: `FirmwareTyped` (types; an inductive conjunction per
  component), `PausedIsDark`, and `FaultIsSafe`. `FaultSafe` alone is not inductive: a
  queued move, or a motion remembered by a pause, would start later. `FaultInv` adds
  that none is left and that the job is pumped only while one executes.
- `FirmwareProofs`, the firmware under its host. A step is one of three kinds of
  request, a step of the firmware, or none (`HostSteps`). `HostInv` holds what a retry
  relies on: `last` took effect exactly if the remembered response is to it, and it is
  then the last request processed (`RetryInv`) - `AtMostOnce` alone says nothing of
  either. `TransferInv` adds what is on the disk while an answer is outstanding,
  `FilesInv` that a job file has no numbers, so that no command from a file can replace
  the remembered response. `JobInv` ties the latch of `job_end` to the job that executes,
  and `HeldInv` a pause to the state. From them follow `RequestsAtMostOnce`,
  `TransfersExact`, `JogsStayOff`, `FaultsAreDark`, then the action properties step by
  step (`AnswersFit`, `NacksHarmless`, `PausesTransparent`, `PausesHold`,
  `TransferEndsSeen`, `CompletionsJustified`, `JobsInOrder`), and the refinement
  `FirmwareIsService`.
- `ConfigurationProofs`: `ConfigurationCorrect` and `QueriesAnswerCommitted`. The
  invariant relates memory, file and both histories; memory alone is not inductive,
  since a restart takes it from the file.
- `ConnectionsProofs`: `OneHostOnly` from `ServerInv` (each accepted connection is the
  socket, each waiting one is in the backlog, once). The rest needs the order of
  requests across connections. `LinksInv` says which ends can still be written to;
  `OrderInv` that what the parser holds comes before what the socket holds, and that
  before what waits in the backlog, in the order in which the hosts made it (`Follows`).
  Then a request that took effect can come again only while nothing was processed after
  it (`OnceInv`), and the memory of one response suffices: `OnceOnly`. A host sends a
  second request only after the answer to its handshake; by then no request of an
  earlier session is left but handshakes (`Greeted`, `Clean`), and every answer behind
  that one is of its own session (`Settled`): `AnswersStayHome`.
- `DisplayProofs`: `PointsDrawnOnce`, `SimulationKeepsTime`. `HandsInv` says that the
  list which is swapped in was emptied before, `ClockInv` that the newest point is as old
  as the simulation.
- `MotionProofs`: `MotionTyped` and `HeadStaysInBounds` from `Sound`, the invariant of a
  machine: the head is within the travel, each rate divides `Unit`, and of a move under
  way both the path and what was traveled are whole multiples of its speed
  (`MoveIsSound`). `StepIsExact` says that two steps
  of a and b do what one of a + b does. A pass ends in a machine of lower `Rank` or in
  one that is `Finished`, so that `MaxPasses` suffice (`Ended`) and a pass may be taken
  before the loop; a pass with more time does the same and has more left; and a move or
  a jog that is cut in two divides nothing that does not come out even. The rest is an
  induction over the rank. `HeadEndsWhereAsked` is about the
  course that a queue leads a head along (`Bound`), by what the documents ask of each
  command. On the way the differences that are met only grow (`LedDiffers`), so that a
  queue without one has none at its head. A command on which code and documents agree
  is decoded to a move that ends where the documents say (`AsAsked`), and every pass
  keeps what is left of the course. A queue with one of the three differences in it is
  not what the theorem is about.
- `MessagesProofs`, the queue: `QueueIsQueue`, a refinement. An index that wraps stays
  at its place because the capacity divides the number of indices (`AddMultiple`), and
  two items have places of their own because there are no more than places
  (`WithinOneTurn`).
- `MessagesProofs`, the builder: `CompleteMeansSound`. `Complete` says nothing until the
  last byte is written, and a builder may call anything in any order, so that every
  message is `Sound` at any time: the header is right as soon as there is one, nothing is
  written into it but the number, and whoever fills the message sets the checksum. The
  messages in the queue are, too.
- `MessagesProofs`, the checksum: `ChecksumIsDivision`, for messages of any length. The
  register of `crc16_update()` holds the sixteen highest powers that the division has
  left, up to where it is (`Aligned`); a byte that is added to it is the next eight
  powers of the message, and each shift is one step of the division.
- `MessagesProofs`, the reader: `ReadsAsWritten`. `Encoded` says that the fields written
  lie one behind the other between the header and the cursor, each as `WriteBE` makes
  it (`Piece`, `IsLaid`); no call of the builder moves one. `ReadBE` undoes `WriteBE` on
  what each type can hold (`ReadsBack`), signed or not. The reader's state is then
  `IsRead`: it has got the first so many fields, and its cursor is behind them.

**Only model-checked.** Liveness, whose proof needs fairness and `ENABLED`:
`ParseNextReturns`, `CallsReturn`, `JobTerminates`, `PauseIsReported`,
`EventuallyAnswered`, `EventuallyDrawn`. The two refuted claims are counterexamples and
have nothing to prove. Every safety and action property of the other runs, and each
refinement, is stated by a theorem.

## 6. Not modelled

Bytes inside the firmware model (a message arrives whole or not at all there; modules
`Parser`, `SimWorker` and `Messages` are about their parts of the way). Floating point in
`step()`: the model's divisions are exact, so that the drift of `double` is not in it.
Settings that nothing reads (laser enable, minimum power, frequency, air). `toWire()`,
whose clamp no position within the travel reaches, `readData()` and `takeOverflow()`,
which nothing calls. Qt's own threads, timers and buffers, apart from the order of
slots and the limit that the server's queue keeps connections waiting. The log: one
locked list with one consumer, on which no decision depends. The widgets, drawing, and
the vectors they use. JSON beyond whole or torn: `json.hpp` is vendored, and is four
fifths of the lines of the repository. The names of codes that no handler tells apart.
The three tables of configuration codes in `configuration.cpp` were compared as text and
list the same 157 codes; the model has one set of codes.
