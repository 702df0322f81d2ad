# Verification of os-tasks

os-tasks is a collection of operating-systems exercises in C. One of them is a
real distributed program, the TCP port forwarder of `src/34-35. Port forwarding/`
(PF below): two processes, a client and a server, that multiplex many TCP
connections over one tunnel. This project models it, model-checks it with TLC
and proves its data structures, its framing and its memory correct with TLAPS. A second one, a TCP proxy, is
modelled as a whole and proved correct. The other programs are small; those that read in pieces,
wait with a timer or share a pipe have a module each.

## 1. Inventory

### Port forwarder

| Part | State | Operations | Interacts with |
|---|---|---|---|
| Round buffer, `PF/round_buffer.c` | array, `offset`, `length` | two segment lists (`buf_writing_iov`, `buf_reading_iov`), two advances, `buf_read`, `buf_write` | kernel (readv, writev); manager and pump fill and drain the same buffer |
| Command queue, `PF/command_queue.c` | ring of commands, `offset`, `length` | `cmdq_enqueue`, `cmdq_dequeue` | filled by the controller, drained by the pump |
| Connection manager, `PF/manager.c` | parallel arrays of descriptors and connections; per connection three flag bytes (`state`, `in_state`, `out_state`) and two round buffers; a pipe for signals | `cm_poll` (before poll: `close_sockets`, `shrink`; poll; accept, `receive`, `transmit`), `cm_connect`, `cm_add_connection` | kernel; the controller and the pump read and set the flags |
| Controller, `PF/controller.c` | stack of free identifiers | `update` = poll, `sort_connections`, `handle_state_changes`, pump; `on_command` called back by the pump | manager, pump, the other node |
| Pump, `PF/pump.c` | `sending_to` (frame in progress), `current_index` (round robin), the command queue | `recv_from_tunnel`, `send_command`, `pump_transfer`, `encode`, `decode` | tunnel buffers, connection buffers, `on_command` |
| Program, `PF/main.c` | global controller pointer | main loop, signal handler that writes to the manager's pipe | everything |

What is hard about it:

* three actors that never wait for each other: the two nodes and the
  applications; closes, commands and data cross in the tunnel;
* identifiers are reused last in, first out, so a new session gets the one that
  was closed a moment ago;
* TCP hands the tunnel over in arbitrary pieces, buffers fill up in the middle of
  a frame, writes are short or fail;
* a connection lives in two arrays (`update`'s local index by identifier and the
  manager's) that are not changed at the same time;
* the queue, the buffers and the array of identifiers are bounded, and each place
  that meets a bound does something else (`STATE_AGAIN`, a warning, a return);
* poll has no timeout, so whatever is left undone waits for the next event.

What makes it correct: an application receives a prefix of what its peer sent;
frames stay in step; an identifier is free or used by one session; a command acts
on the session it is about; data finds its connection; a signal ends a process
and the end of one process ends the other; what was read from a socket is sent;
what has arrived is obeyed.

### Other programs

| Program | State and hard behaviour | Correct when |
|---|---|---|
| `33. Proxy` | slots (`clients[]` and `fds[]`, compacted after each round), two buffers per client, a pair of descriptors that both directions share; `accept_connection`, `transfer`, `disconnect_client`, `shrink_slots`; a signal flag | slots, sockets and poll flags agree; each application gets a prefix of its peer's bytes |
| `512-tcp-clients` | 512 processes, each an echo client with a send and a receive buffer; answers that come in pieces | it reports an error if the echo was wrong and only then |
| `5,6. File`, `7. mmap` | table of line offsets made from chunks of the file or a mapping; `read_line` with a timer in the same select as the input | the table has each line once; each typed line is answered; the program ends |
| `30. Unix domain socket` | `write_all` over a socket that takes part of a write | the other end gets the bytes once, in order |
| `25.`-`27.` pipes | writer, reader and parent, each holding pipe ends; failing fork and fcntl | the reader gets the message and sees the end; all processes end |
| `8. File locking` | one attempt to lock, an editor, one to unlock | the kernel's lock, which a model would assume |
| `4. Memory` | list of input lines | sequential; no hazard but malloc |
| `1.`-`3.`, `9.`-`11.` | a few system calls in a row | nothing to model |

`PROJECT.json` lists every component with its status and every hazard at its
line, with the properties that watch it or the reason why none does yet.

## 2. Modules

```
BoundedFifo                      what a queue promises
  ^      ^
  |      +-- CommandQueue        command_queue.c   <-- CommandQueueProofs
  +--------- RoundBuffer         round_buffer.c    <-- RoundBufferProofs

Relay                            what the two applications are promised
  ^      ^
  |      +-- Forwarder           controller.c, manager.c, pump.c: two nodes
  |            extends Connection   (one struct connection, pure operators)
  |            <-- ForwarderProofs <-- SessionProofs
  +--------- Proxy               the process of 33. Proxy   <-- ProxyProofs

Codec                            the bytes of pump.c, escapes included
  <-- CodecProofs

Exercises                        one of the small programs at a time
  extends File (5,6. File, 7. mmap), LoadTest (512-tcp-clients),
          Pipe (25. Pipe, 27. Empty lines), UnixSocket (30.),
          Lifecycle (start and end of a node of the forwarder)
          <-- ExercisesProofs

SequenceLemmas                   pieces of sequences, loops over them, induction;
                                 used by ForwarderProofs, ProxyProofs, CodecProofs
                                 and ExercisesProofs
```

**RoundBuffer** is `round_buffer.c` cell by cell. `cells` is the array, the
segment lists are sequences of `[base, len]`, `Scatter` stores through them as
readv and the pump's iterator do. Its actions are the four ways the program
touches a buffer: `BufRead` and `BufWrite` (the kernel moves any number of bytes
the segments allow), `PumpWrite` and `PumpRead` (the pump checks the free length
once, walks the iterator unchecked and advances; `decode` may count one byte more
than there is). Memory is uninitialised at first: any cells.

**CommandQueue** is `command_queue.c` with the value each call returns
(`result`), so that the truth of the return value can be stated.

**Connection** is one `struct connection` as a record: three flag sets, two
buffers, the identifier, the poll flags of its descriptor. Its operators are the
code that changes or judges one connection (`receive`, `transmit`,
`close_sockets`, `should_close_*`, and what `handle_state_changes` reports next).

**Forwarder** is the system. Each node is a program counter `phase` over the
parts of `update()`:

| phase | code | actions |
|---|---|---|
| `enter` | `cm_poll` up to `poll()` | `EnterPoll` |
| `poll` | `poll()` returns: accept, receive, transmit, close, shrink | `PollReturns`, `PollReturnsUser` (the pipe) |
| `sort` | `sort_connections` | `SortConnections` |
| `state` | `handle_state_changes` | `Report`, `StateAgain`, `StateShutdown`, `StateOk` |
| `recv` | `recv_from_tunnel` and `on_command` | `ContinueFrame`, `ReceiveCommand`, `ReceiveData`, `ReceiveNothing`, `ReceiveFails` |
| `cmds` | the queue goes into the tunnel buffer | `SendCommand`, `LoseCommand`, `CommandsSent` |
| `data` | round robin over the connections | `EncodeData`, `EncodeRefused`, `RoundDone` |
| ended | `destroy_controller`, or an `exit(2)`, or a null pointer | none |

`sorted` is `update`'s local array, `tun` the manager's connection 0, `wire` what
the kernel holds between the nodes. `Signal` is the handler in main.c.

Abstractions, and why they are allowed:

* A session's number names its connection at both nodes. The code knows only the
  identifier; the model's decisions use the identifier only. Frames carry the
  session as a ghost so that a property can say which session a command was about,
  and a byte of data is its origin (node, session, index).
* The connections' and the tunnel's buffers are sequences. RoundBuffer shows
  exactly when that is true of the ring: reading always, writing while the unread
  bytes do not wrap. The other case is a finding of its own (`round_buffer_fifo`),
  so that it does not hide what the protocol itself does.
* Escape bytes inside a frame are not counted: a byte of data takes one byte of
  the tunnel; Codec has them. Frames, commands (five bytes), the minimum of four bytes for a data
  frame, and a frame broken at any byte are modelled.
* The nodes share the wire only and touch it only when poll returns, so a node's
  update runs without interleaving with the other node's poll return. An update
  of one node and an update of the other commute.
* When a process ends the kernel delivers what it had sent or, on a reset, drops
  it.
* The order of poll's `revents` does not matter to the model: any set of events
  is served in one return, with any number of bytes each.

**Proxy** is the loop of `33. Proxy/main.c`. `slots` is `clients[]` together with
`fds[]`, `revents` what poll reported, `turn` the loop's `i` and the direction that
is next, so that a property sees the descriptors between the two transfers of one
round. `CheckSignal`, `CallPoll` and `PollReturns` are the head of the loop,
`AddClient` and `RefuseClient` the outcomes of `accept_connection`, `Transfer` the
whole of `transfer`, `EndTurn` the test for `disconnect_client`, `ShrinkSlots` the
compaction, `Terminate` the code behind the loop. A pollfd is `[of, watched,
events]`: `of` says whose socket it is, `watched` that it is not negative. A read
from a negative descriptor fails, as readv does. A hang-up that poll reports
without being asked makes the loop turn without effect and is left out.

**Codec** is one connection and one direction of the tunnel, byte by byte, for any
text. `Encode` and `EncodeCommand` are the two ends of `pump_transfer`, `Receive`
is `recv_from_tunnel` with both places that call `decode`; `Feed`, `Carry` and
`Drain` are the applications and the kernel, which take any piece. The loops are
folds over the buffer (`EncodeByte`, `DecodeByte`). When an escape is the last byte
in the buffer, `decode` runs on over cells that hold no data; `Strays` is any
bytes, and `overrun` remembers it. The meaning of the tunnel's bytes (`ReadByte`)
is defined from the framing, not from `decode`.

**File** is `5,6. File` and `7. mmap`, which differ in how they read the file.
`mode` says which loop `main` is in: `ScanRead` one chunk of `scan_file`,
`ScanMapping` the scan of the mapping, `PrintChunk` one turn of `print_line`'s loop
or `PrintMapping` its `fwrite`, `LinePrinted` the next line of `print_lines`; `shown`
is the lines that were put out for the line of the table: one for each chunk, as `puts`
(`Put`) ends each with a break and stops at a NUL, or one for the mapping;
`SelectTimer`, `SelectInput`, `SelectEndOfFile` the outcomes of `select` in
`read_line`, `Consume` the line that is taken from its buffer. `Returned` is what
`input_valid_line` does with a line and `Answer` what `main` does with an accepted
one, both in the step that returns it. The loops of `scan_file` are folds of `ScanChar` and
`MappedChar`. `Type`, `CloseInput`, `Expire` and `Shrink`
are the world: the terminal, the timer, another process that cuts the file off.
`select` does not return for its own timeout: the timer is as long and was started
before it.

**Lifecycle** is a node of the forwarder before and after what Forwarder models.
`Steps` lists what `start_controller` and the functions it calls acquire, in which
order, what each step gives back itself when it fails and the label it goes to;
`Unwind` is the labels, `DestroyManager` what `destroy_manager` closes and frees.
`held` is what the process has, `known` what the manager's arrays name, `assigned`
whether `main` has the controller: the handler reads it. A `Release` of what is not
held is a crash. Forwarder's `Init` is its state behind `Started`.

**LoadTest**, **Pipe** and **UnixSocket** are a client of the load test with a
service that answers any bytes, right or wrong, in any pieces, the parent and its two children with the pipe's ends they hold, and the
two `write_all` loops. **Exercises** runs one of the five at a time: they
share nothing, so their behaviours side by side would show no more.

**BoundedFifo** and **Relay** are the promises: a queue keeps its items and their
order; an application receives a growing prefix of what its peer sent.

## 3. Runs

| run | instance | what it shows |
|---|---|---|
| `round_buffer` | ring of 4, two byte values | cursor and segment lists stay in the array; the writing segments outlast the free length; while nothing wraps the writable cells are the free ones and every call is a FIFO step; consuming is one always |
| `command_queue` | 3 slots, 3 commands | the queue is a bounded FIFO and its calls report truly, full and empty, in every alignment |
| `streams` | 2 sessions, 1 identifier, 1 byte each, buffers of 1, tunnel buffers and wire of 7, a queue of 1, pieces of 2 or 7, failing writes | no byte of a session open at both ends is missing or strays; every receipt is a step of Relay; frames stay in step; data finds its connection; a failed write is never reported |
| `identifiers` | 3 sessions, accepted or refused by the service, 2 identifiers, commands only, tunnel buffer of 7, wire of 5 | identifiers are disciplined; commands hit their session; the queue size is enough; the server never has an identifier twice, even after lost commands and crossing closes |
| `ends` | 1 session, accepted or refused, 1 byte, signals, tunnel buffers of 5, fairness | a signal ends its process; the end of one ends the other, unless that one never asks for input of the tunnel again |
| `proxy` | 3 clients, 2 slots, 2 bytes each way for one of them, buffers of 2, failing writes, a signal | slots and sockets agree; poll is asked for exactly what the two directions need; no transfer uses a descriptor the one before it made negative or shut down; accept has a slot (`main.c:167`, in `SlotsAgree`); bytes are relayed; a signal ends the program unless it falls between the test of the flag and poll |
| `codec` | texts of up to 3 bytes of data, END and ESC, any identifier of three, 1 command, buffers of 2, tunnel buffers of 7 | nothing is lost or changed between the two applications' buffers, frames stay in step, commands keep their argument, frames stay within the room there was, and `encode` uses the room and refuses only what does not fit - until `decode` overruns |
| `exercises` | files of up to 4 characters in chunks of 3, 5 typed characters, lines of 3; 3 rounds of 2 bytes; both pipe programs with failing fork and fcntl and interrupted calls; a message of 3 bytes in short writes; a start in which any step may fail, and two signals | tables and printed lines are the file's; typed lines are answered; the load test's alarms are right; messages arrive; every process ends; a node of the forwarder ends with nothing held - with the exceptions told below |
| `round_buffer_fifo` | ring of 3 | violation: a wrapped ring offers unread cells for writing (`round_buffer.c:70`) |
| `mixed_sessions` | 2 sessions, 1 identifier, 2 bytes | violation: a command that was dequeued while the tunnel buffer was full is lost (`pump.c:249`), and two sessions' bytes get mixed |
| `stalled_command` | 1 session, fairness | violation: of two commands that arrive together the second waits for an unrelated event (`pump.c:197`) |
| `stranded_bytes` | 1 session, 2 bytes | violation: bytes that did not fit into the tunnel before the application closed its sending direction are never encoded (`pump.c:261`) |

`Undisturbed` restricts some properties to histories in which no command was lost
and no session was closed from both ends at once. The first event is the finding
`mixed_sessions`. The second makes `controller.c:111` and `controller.c:171` push
the same identifier, because a connection reported closed in this update is still
in the manager's array when the other end's CLOSE is obeyed: two later sessions
get one identifier. Until one of them happens the properties hold in all states;
`ServerIdsUnique`, `FramesInStep` and `TypeOK` do not need the restriction, and
`QueueSuffices` only its first half: a lost command ends its round with the
commands behind it still in the queue, and the next round adds to them.

### Bounds

* Rings: four cells give every alignment of offset and length, segments of one
  and more bytes on both sides of the end; from three cells on a ring can wrap
  without being full. The theorems then hold for every capacity.
* Sessions and identifiers: reuse needs more sessions than identifiers; three and
  two let one session keep its identifier while the other one changes hands.
* Tunnel buffer and wire of 7 hold one command and part of a frame, so a command
  can be refused and each frame arrives in pieces; `Chunks` names the pieces.
  In `ends` they hold 5, a command or a frame with a byte, so that a node's tunnel
  buffer does get full and turns POLLIN off. Then the peer's end may never be seen,
  in two ways that `EndsTogether` names (see below). Without the exception the run
  is violated.
* `QueueSize`: `streams` has one slot, so `StateAgain` happens; `identifiers` has
  2 * (MaxId + 1), as controller.c takes 2 * MAX_CONNECTIONS.
* `Uploads` and `Downloads` bound what the applications send. With one byte per
  session `streams` separates the sessions; `mixed_sessions` and `stranded_bytes`
  use two.

* `proxy`: a third client arrives when both slots are taken and is let in when one
  is free; the slots of the others move while they are in use. Two bytes and a
  buffer of two give short writes and a full buffer. Only the client `Talkers`
  names sends bytes; the others open, close and move slots.

* `codec`: a tunnel buffer of 7 holds a command and a part of a frame or a frame
  with an escaped byte and a part of the next; a connection's buffer of 2 fills in
  the middle of a frame, also behind an escape. Three bytes make two frames.
* `exercises`: a chunk of 3 divides files of 4 anywhere, a file of 3 ends with its
  chunk, and printing, which reads one byte less, reads past a line's end. Lines of
  3 make `read_line` return after two characters: a line fits, is too long, or fits
  exactly. Five characters are a long line and what follows it. Two signals: one
  may be lost in the start, or find `destroy_controller` under way. The files have no
  NUL, which would double the run; what `puts` makes of one is in the definition
  (`Put`), and `LinesArePrinted` holds for every set of characters.

`CHECK_DEADLOCK FALSE` is used for Forwarder and Proxy, whose processes may block
in poll for ever when no application does anything, and for Codec and Exercises,
which come to an end.

### Fairness

In Forwarder only `ends` and `stalled_command` use it. Weak fairness of `Update`: a process
that is not blocked runs on. Weak fairness of `PollReturnsUser`: a byte in the
pipe makes poll return. Strong fairness of reading and writing the tunnel: poll is
level-triggered, so a node that comes back to poll again and again is told of the
tunnel's readiness each time and serves it. Nothing is assumed of the
applications or of signals: they may send, close or come, or not.

In `proxy` the process runs on unless poll blocks it; nothing is assumed of poll,
which need not return. In `exercises` a program runs on unless `select`, a pipe or
`waitpid` blocks it, and five seconds pass (`Expire`); nobody need type, close, cut
a file off or interrupt. A node of the forwarder cleans up without blocking and is
told of a byte in its pipe (`LifeFairness`); of its start, which may wait for the
other node for ever, nothing is assumed. LoadTest and UnixSocket need no fairness: only safety is
stated of them.

### What the runs showed besides the findings

* `CLOSE_DST_TO_SRC` is never sent (`FailedWritesStayUnreported`): it asks for an
  empty `out_buf`, and a failed write leaves bytes in it. Such a connection stays
  in the manager for ever, and its full buffer blocks the tunnel for the others.
* The exits for a wrong starting byte (`pump.c:207`) and the null pointer of
  `pump.c:193` are not reached (`FramesInStep`). The exit for a closed connection
  (`pump.c:224`) is reached only after a disturbance or a refused connection.
* On a half-close `CLOSE_SRC_TO_DST` shuts the direction down while bytes still
  wait in `out_buf` (`controller.c:174`); they are never written. The application
  then has a prefix, which Relay allows; this is listed as a hazard.
* The proxy drops what is still buffered when a direction ends (`33. Proxy/main.c:266`),
  and a signal between the loop's test and poll waits for the next event.
* `decode` does not see that an escape is the last byte available
  (`pump.c:141`): it takes the next cell for the escaped byte, and as the
  iterator's count passes zero it decodes what lies behind until the destination is
  full or an END turns up, against the comment at `pump.c:121`. Until then
  `NothingLost`, `FramesInStep` and `CommandsIntact` hold; dropping `~overrun` from
  any of them gives a counterexample.
* With four bytes of room and an END first, `encode` writes a frame without data
  and returns 1 (`pump.c:79`, against the comment at `pump.c:63`). It does no harm:
  the receiver waits for one more byte and then finds the END.
* `input_valid_line` (`5,6. File/main.c:98-111`): behind a line of just the size
  `read_line` returns, or a multiple, the line break comes alone, counts as an empty
  line, and the next line is refused as too long. `InputAnswered` excludes such
  input (`HasExactFit`), without that it is violated. For all other input every
  line that fits is accepted, however it arrives.
* `print_line` prints each chunk with `puts` (`5,6. File/main.c:61`): a line longer
  than BUF_SIZE - 1 characters comes out with breaks that are not in the file, what
  stands behind a NUL in a chunk is missing, and an empty line is not printed at all.
  `7. mmap` prints all three as they are. `PrintsTheLine` says exactly this of both.
* `print_line` loops for ever when the file was cut off (`5,6. File/main.c:52`);
  `ProgramEnds` excludes that. A file that ends in a line break has one more, empty
  line in `5,6. File`, and a last line without a break is no line in `7. mmap`.
* `write_all` (`server.c:24`, `client.c:18`) begins again at the start of its
  buffer after a short write; `MessageShownOnce` holds as long as none is short.
* `512-tcp-clients/main.c:87` stores each piece of an answer at the front of its
  buffer, so a right echo in two pieces is reported as an error. For answers in one
  piece the alarm is right in both directions (`AlarmsAreRight`). The client spins when
  the service hangs up.
* `receive` takes POLLIN away when a tunnel's `in_buf` is full (`manager.c:303`), and only
  a later call of it gives it back. If the pump empties the buffer in the same update,
  poll waits without POLLIN for something else to happen; if the buffer holds a frame
  that finds no room, or a command behind one, it stays full. Either way the end of the
  other process is then not noticed: `EndsTogether` has this exception and no other.
* `27. Empty lines` goes on when close-on-exec cannot be set; `wc` then waits for
  itself (`EverybodyEnds` excludes it). In `25. Pipe` a call that is interrupted
  counts as done (`main.c:28`): the loop around it never comes round.
* A forwarder's start that fails gives back what it had, with one exception: the
  server forgets the socket it accepted when `make_connection` fails
  (`controller.c:211`), which the end of the process then closes.
* A signal during the start does nothing unless it interrupts `connect` or `accept`,
  whose EINTR fails the start; one during `destroy_controller` makes the handler
  read freed memory (`main.c:75`), as `controller` is not reset.
  `EndsWithNothingHeld` names both exceptions; without either it is violated. The
  pump's `exit(2)` (`pump.c:207`, `pump.c:224`) is a further end, without any clean-up,
  that Lifecycle does not have: the kernel is left to free what the process holds.
* A connection that waits for an identifier is not yet marked stopped and is read
  meanwhile. `pump_transfer` does not look at CS_STOPPED, so these bytes follow the NEW
  without waiting for the ACK. That is harmless as long as the service accepts; when it
  refuses, the server has no connection for them and ends at `pump.c:224`.

## 4. Theorems

`CommandQueueProofs`, for every capacity and set of commands:

* `TypeCorrect`: the cursor stays in the array. `TypeOK` is inductive; the only
  arithmetic is that `%` turns round at most once (`OneTurn`).
* `ImplementsFifo`: the ring implements BoundedFifo. The content is the function
  k -> slot (offset + k - 1) mod Cap; enqueue writes the one slot that is not
  among them, dequeue moves the offset to its successor.
* `CallsAreTruthful`: what a call returns is what happened to the content.

`RoundBufferProofs`, for every capacity and set of bytes:

* `TypeCorrect` and `SegmentsInBounds`: no segment leaves the array, which is what readv
  and writev need. Of an iterator that runs past its last segment it says nothing:
  `decode`'s does, behind an escape at the end (`pump.c:141`, see Codec). The segment
  lists are enumerated by shape (`ReadingShapes`, `WritingShapes`), and `CursorOK`
  is inductive because both advances clamp.
* `IteratorOutlasts`: the writing segments take at least the free length, wrapped
  or not, so that the unchecked writing iterators of pump.c stay in the array.
* `WritingIsSafe`: while nothing wraps the writing segments are the free cells.
* `FifoWhileUnwrapped`: from such a state every call is a step of BoundedFifo: the
  bytes of a reader are at `Place(offset, k)`, and a write changes none of them.
* `ReadingStaysFifo`: a call that stores nothing is a FIFO step in every state.

They rest on `CapacityAssumption` and `CapAssumption` (capacities are positive)
only. They justify the sequences of Forwarder for the C code's own sizes (10240
and 102400 bytes, 512 commands), which no model checker reaches.

`ForwarderProofs`, for every number of sessions and identifiers, all buffer
sizes, any pieces and all faults (`ForwarderAssumption`: the sizes are positive):

* `ForwarderInvariant`: `Inv`, the inductive invariant of the two nodes. It is
  checked by TLC first, on the instances of `identifiers`, `mixed_sessions` and
  `ends`. Its parts:
  - `MemoryInv`: types and bounds of all variables. Bounds need the steps that fill
    a buffer to know its room (`ReadBounds`, `WriteBounds`, `TunnelReadBounds`,
    `TunnelWriteBounds`). A connection also satisfies `OutputEndsRightly`: its
    sending direction ends by a failed write, which leaves bytes in the buffer for
    good, or by the other node's CLOSE_SRC_TO_DST.
  - `ArrayInv`: what `update`'s array points at is there and has an identifier, and
    the array is empty outside of `update`. Without it a step could read a field of
    a connection that is gone.
  - `FrameInv`: the frames. `Accepts` is the receiver as an automaton with six
    states, and `Parses(bytes, p, q)` says that bytes take it from p to q. For a
    running node its input, read from where `sending_to` says it is, takes the
    automaton to some state, the wire goes on from there, and the peer's output
    buffer ends between two frames as long as the peer runs. It needs no bound on
    pieces: cutting bytes anywhere splits a run in two (`ParsesSplit`), carrying
    them joins runs (`ParsesConcat`). A peer that has ended leaves a broken frame at
    the end of the wire, which is why the last clause is about running peers.
  - `ServerInv`: the server's identifiers are real and differ.
* `BuffersHold` (`TypeOK`), `ServerNamesDiffer` (`ServerIdsUnique`),
  `FailedWritesAreKept` (`FailedWritesStayUnreported`) follow. The last one rests on
  the type of the queue: no step enqueues the fourth command, as
  `OutputEndsRightly` contradicts `should_close_out` for a failed write.
* `FramesBeginRightly`: the exit for a wrong starting byte (`pump.c:207`) is never
  taken, without any restriction on the history: not after lost commands, crossing
  closes or the end of the peer. This is the first half of `FramesInStep`; the null
  pointer of `pump.c:193` is the other.
* `FrameKeepsItsConnection`: `TargetInv` is inductive. While a frame is in progress
  some connection has its identifier, and the last one that has it (`Latest`) may
  still be written to or has bytes that wait (`Writable`), so that it is not marked
  for deletion; `update`'s array, once filled, has this one. After crossing closes
  two connections of the client may have one identifier, which is why the array's
  choice is a part of the invariant; a newer one that takes the older one's place is
  writable, too. What a step does to one connection is one notion, `Carried`: what
  commands are about stays, and what can be written to can still be
  (`SettleCarries`, `ServeCarries`, `GainCarries`, `DropCarries`).
* `FramesStayInStep` (`FramesInStep`): so the frame in progress has its connection
  (`pump.c:193`), and with `FramesBeginRightly` neither exit is taken.
* `RoomForCommands` (`QueueSuffices`): in a round an identifier costs at most two
  commands, NEW and one about its end. `QueueRight` counts them: what is queued, the
  connections not yet told of and those with something to report are together at
  most 2 * MaxId while the states are handled, and an answer may follow. The queue
  is empty when a round begins, as long as no command was lost.

`SessionProofs`, from the same assumption and on top of `Inv` and `TargetInv`:

* `SessionsHaveOneName`: `SessionInv` is inductive. TLC has checked it on the instances
  of `mixed_sessions`, `streams` and `ends`. It compares what the nodes know with
  what is on its way between them: `Line(n)` is all that n has said and the other has
  not obeyed yet, from the peer's input over the wire and the output buffer to n's
  queue, `Has` and `Ahead` say what stands in it and in which order, `Meant` which
  identifier goes with a command.
  - `Tidy` holds in any history: some naming of the sessions agrees with both nodes'
    connections and with all commands (`LiveNames`, `MeantNames`), and nobody but the
    client knows a session that it has not reported (`EarlyUnknown`).
  - `Agreed` holds until a command was lost or a session was closed from both ends:
    the commands about one session stand in the order NEW, ACK, end of data, CLOSE; a
    node says CLOSE only of what it has closed; while a NEW is on its way the
    server knows nothing of its session (`NewIsFirst`); while the server has anything
    to say about a session the client has it open (`CommandsFindOpen`), so that a
    CLOSE that returns an identifier returns that of an open connection, once.
  - The data movements only shorten or shift `Line` (`Fades`), and each handler does
    one of a few things to a session: keeps it (`Lasts`), reports it, obeys a command
    about it. `QuietSession` disposes of the steps that say nothing new; the
    existential over namings changes its witness only when the client gives a session
    its identifier.
* `IdsAreDisciplined` (`IdsDisciplined`): until then the stack of free identifiers
  and the connections in use share nothing, no two connections have one identifier,
  and nothing is on the stack twice.
* `OldSessionsCloseFirst`: `HitInv` is inductive on top of these. At the client a
  command finds its session by `CommandsFindOpen` and the difference of the client's
  identifiers. The server keeps a connection until the client's CLOSE for it comes,
  and the client uses the identifier again as soon as it has sent that CLOSE. So what
  matters is order, in `Line("client")`: whatever is said about another session with
  the identifier of a connection that the server keeps stands behind the CLOSE of
  this one (`OldClosedFirst`), the same holds for a session whose NEW is still on its
  way (`NewClosedFirst`), and a CLOSE stays on its way until obeyed (`CloseComes`).
  Two facts about the program's rounds are needed: the nodes take turns (`Alone`),
  and the server deletes what it was told to close before it reads on
  (`SettledBefore`). `Behind` and `Parted` are the two relations on sequences, with
  what they become when sequences are joined or cut.
* `CommandsHit` (`CommandsHitTheirSession`): so the command at the front of the
  tunnel's input, of which nothing stands before it, has only its own session's
  connection with its identifier, at either node.

`ProxyProofs`, for every number of clients, slots and bytes (`ProxyAssumption`):

* `ProxyInvariant`: `ProxyInv` is inductive: where the loop is and what its array
  looks like there, that a slot's descriptors are its client's sockets, which flags
  the two directions ask for, and (`StreamInv`) that what an application got, what
  is buffered and what was read make one stream. The flags need the loop's position:
  between the two transfers of a round one direction is served already.
* `SlotsAlwaysAgree`, `PollIsAskedRightly`, `DescriptorsStayUsable`: the three safety
  invariants of the run `proxy`. `ShrinkSlots` is a loop over the array: the number
  of slots kept and where each came from is proved by induction on its index
  (`InductionTo`), the set-valued induction that stands in for the library's.
* `ProxyRelays`: the proxy implements Relay, step by step: a transfer is a step of
  one stream, every other action leaves the streams alone.

`ExercisesProofs`, for any sizes (`FileAssumption`: a buffer and a line have room for
more than one character; `LoadAssumption`, `SocketAssumption`):

* `FileInvariant`: `FileInv`, checked by TLC on the instance of `exercises` first.
  While a file is scanned the table has the lines that end before `at`, and the line
  that `curr` and `newLine` describe is open there (`Follows`); afterwards it has all
  of them (`HasLines`, up to `LastBreak`, as `7. mmap` leaves out a last line without a
  break); and of the line that is printed the pieces put out so far are the first ones,
  and the place in the file and the characters left go with them (`PrintInv`). All of it
  holds until somebody cuts the file off.
  - One character either ends the open line (`LineAdded`, `LineOpens`) or belongs to it
    (`LineGoesOn`); a chunk is a run of such turns (`ChunkFollows`), so it does not
    matter where chunks end.
  - `PrintChunkKeeps`: what is shown of a chunk is the next piece of the line
    (`ChunkIsPiece`), also when the chunk goes on behind the line.
* `TablesAreRight` (`TableIsTheFile`): a line has one end (`LineEndIs`, by the least
  number principle), so `HasLines` determines the table. `LinesArePrinted`
  (`PrintsTheLine`) follows from `PrintInv`: `7. mmap` puts out the line, `5,6. File` its
  pieces, each as `puts` shows it, and all of them when nothing is left.
* `InputInvariant`: `InputInv`, checked by TLC on the instance of `exercises` first.
  read_line has come to some place of the input, which is what it has taken less what
  its buffer still has (`ComeTo`). There a line is open (`ReadLine`): the characters it
  holds are the last ones of it, the parts of LineSize - 1 characters that it has
  returned before are counted, and `tooLong` says that there was one. What was
  accepted are the lines that fit and end before that place (`Answers`), for as long as
  no line of just such a size has passed (`NoExactFit`).
  - One line that read_line returns takes the place one part or one line further:
    `LineReturned`, with `Judged` for what `input_valid_line` makes of it. A line that
    ends where it fits is the next of the accepted ones (`FitsGrow`).
  - Characters that are taken without a line being returned lengthen the one that is
    held (`LineWithConsumed`, `ConsumeKeeps`), which is why it does not matter how the
    input is cut; what is typed meanwhile changes nothing before the place
    (`FitsStayAs`).
* `InputIsAnswered` (`InputAnswered`): so all lines that fit are accepted in order, and
  no others, for every size of the buffers.
* `AlarmsTellTheTruth` (`AlarmsAreRight`): of the answers in one piece `512-tcp-clients`
  reports the wrong ones and no others, whatever the service answers.
* `MessagesAreShownOnce`: unless a write was short, the terminal shows the message
  once and in order.
* `ReadersGetTheMessage`: unless a call was interrupted, a reader that ends has the
  message, in whatever order the processes run, fork and close their ends. The message
  is one unit; sizes of reads and writes are not in Pipe.

Exercises runs the programs one at a time, so each invariant holds for its program's
steps and is left alone by the others'.

`CodecProofs`, for every text, identifier, size of the buffers (`CodecAssumption`: a
frame with one escaped byte fits into the tunnel's), and every way the kernel cuts
the stream:

* `CodecInvariant`: `Inv`, that is `Types` and, until `decode` has run past the end
  of a buffer, `Streams`: read from where `sending_to` says it stands, the tunnel's
  bytes end between two frames, and the data and commands read from them complete
  what was decoded before and what is not yet encoded to what was sent. `Streams`
  is `NothingLost`, `FramesInStep` and `CommandsIntact` in one formula: none of the
  three is inductive without the other two.
  - What the three loops of the code do is one lemma each, by induction over the
    bytes: `EncodedIs` (what `encode` writes reads as the bytes it has taken and fits
    the room, with three bytes kept for the frame), `WalkIs` (what `decode` has used
    reads as what it has put into its destination, and it stops at an END, at a full
    destination or at the end of the buffer) and `ReadConcat` (reading on is reading
    both, which is why cuts do not matter).
  - `ReadAhead`: what was read before a place changes nothing of how the rest is
    read. With it a step of `recv_from_tunnel` takes bytes off the front.
  - The exits: in a stream that ends between two frames the front is never broken,
    as nothing mends a broken stream (`BrokenStays`), so that `NextFrame` ends the
    program only after an overrun.
* `CodecTypeOK`, `CodecNothingLost`, `CodecFramesInStep`, `CodecCommandsIntact`:
  the four safety properties of the run `codec`.

`SequenceLemmas` proves what the others cite about pieces of sequences, the least
element of a set of numbers, and induction up to a number over a set. Loops are the
folds of the community modules: `RunOf` proves that a fold has a run, the sequence of
the states after each turn, which is what the code's loop computes; `SeqInduction` is
the induction over sequences, for a set in place of a predicate.

Only model-checked: all liveness (fairness and ENABLED are out of the prover's
reach); of Forwarder the properties that need the two nodes' ideas of an identifier
followed over its reuse and the bytes of a session followed with it
(`NothingMissing`, `RelayedUntilDisturbed`, `DataFindsItsConnection`); of Codec
`EncodesMost`; all of Lifecycle.

## 5. Plan

The model is complete as far as the properties reach. What is left is proof:

1. **Forwarder**: `DataFindsItsConnection` and `NothingMissing`. `HitInv` follows the
   commands of a session; the bytes of a session have to be followed with them, each
   of them in a frame with the session's identifier and ahead of the end of its
   direction.
2. **Lifecycle**: the safety half of its properties.

## 6. Not modelled

* The manager's arrays index by index, its limit of 1022 connections and accept,
  malloc and poll that fail while the controller runs (`manager.c:352`): they are
  listed as hazards. A connection without a socket keeps its identifier for ever, and the
  identifiers that a checkable instance has would all be gone.
* Fairness of the round robin (`pump.c:265`) and the bytes that a half-close cuts off
  (`controller.c:174`): hazards without a property.
* Argument parsing, messages to the terminal, failing malloc and system calls that
  only end a program.
* `8. File locking`, `4. Memory`, `26. Pipe with stdio`, `1.`-`3.`, `9.`-`11.`: programs
  without a state of their own that several steps could spoil.
