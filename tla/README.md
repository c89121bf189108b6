# A TLA+ model of the Julia-set application and its Nucleo board

The repository holds the homework and the semestral project of a C course
(B3B36PRG). Nearly all of its concurrency is in the semestral project,
`src/NUCLEO/SEMESTRAL_PROJECT`: a PC application with three threads asks an
STM32 Nucleo board, over a serial line, to compute the Julia set of an image
chunk by chunk. Both sides can cut a computation off at any moment, the board can
be restarted under the application, and the user edits the parameters all the time.
This project models that system from the bytes on the line up to what the user
sees, and the homework programs beside it, checks the models with TLC and proves
properties of the queues, the threads and the protocols with TLAPS.

Paths below are relative to `src/NUCLEO/SEMESTRAL_PROJECT` unless they start with
`src/`.

## 1. Inventory

### PC application

| part | state | operations | interacts with |
|---|---|---|---|
| event queue, `event_queue.c` | ring `queue[16]`, `in`, `out`, one mutex, one condition variable | `queue_push`, `queue_pop`, `queue_cleanup` | called by all three threads |
| input thread, `semestral_project.c:650-780` | none but `data->quit` | a key press becomes one event | pushes |
| serial thread, `semestral_project.c:783-857` | parse buffer, counter, expected length | bytes become one `EV_SERIAL` per message; 500 ms timeout drops an incomplete one | pushes; reads the port |
| main thread, `semestral_project.c:141-534` | `parameters` (local), `img` | one handler per event type, one per message type | pops; also **pushes** (line 503); writes the port |
| image, `screen.c` | `W H chunksize chunksinrow nbr_chunks refresh_require`, pixel buffer | `initImage`, `setBlackScreen`, `setPixelbyIter`, `setPixel`, PPM/PNG output | only by the main thread |
| window, `xwin_sdl.c` | SDL objects | redraw | called by the main thread |
| messages, `messages.c` | none | size, encode, decode with checksum | both programs |

### Firmware of the board, `main.cpp`

| part | state | operations |
|---|---|---|
| main loop 523-637 | `parameters` (constants, chunk, `cx`, `cy`, `computing`) | abort request, one command per turn, else one pixel per turn, else sleep |
| button interrupt 151-154 | `abort_request` | set it if a computation runs |
| receive / transmit interrupts 104-150 | two ring buffers of 255 bytes | move one byte |
| `send_buffer`, `receive_message` 190-267 | the same rings | spin while full / while a message is incomplete |

### The other programs

| program | state | operations |
|---|---|---|
| HW06, linked queue (`linked_list.c`; `queue.c` is a variant with pointers and a caller's comparison, whose push checks neither entry nor `malloc`) | nodes, head, tail, a counter | push, pop, insert, erase, getEntry, size, clear |
| HW07, circular queue that grows and shrinks (`queue.c`) | array, head, size | create, push, pop, get |
| HW08, button timer | count of looks, period | a timer routine each 50 ms |
| HW09, LED control | struct shared by four threads, one mutex, one condition variable; a board | keys, answers, output, period |
| LECTURE09, alarm | period and quit flag shared by three threads | keys, alarm, output |
| HW10, an earlier form of the semestral project | batch number, task, abort request | keys, messages, button |
| HW02-HW05 | none that lasts | factors and long division; Caesar cipher and edit distance; grep; matrix expressions |

Process and IPC demos, LECTURE07/08 and the exercises of the lectures are listed in
`PROJECT.json` with the reason why they are left out.

### What is hard here

* two threads and an interrupt of another computer feed one thread, so keys and
  messages interleave freely in one queue, and **an event is handled against a
  state that has changed since it was queued**;
* an abort (from either side) and the end of a chunk cross each other on the line;
* the chain from one chunk to the next runs through the queue: `MSG_DONE` makes the
  main thread push an `EV_COMPUTE` into the queue that only it empties;
* the board forgets everything at a reset, and messages in its rings are lost;
* the image size, the pixel buffer and the parameters on the board are three copies
  of related data that change at different moments;
* chunk ids and chunk counts are bytes;
* the firmware shares two rings with its interrupts and switches the interrupt off
  and on around some of what it does, `send_buffer` acts on an `empty` it read before
  it spins, and `sleep()` is entered after a test without the interrupt disabled;
* a byte that is lost leaves either parser in the middle of a message, and what
  mends it is a silence whose length the other side does not know; until then the parser
  of the application stores what comes, whether it has room or not;
* four kinds of thread end (key, NUL, failed port, quit flag) and two joins wait for
  them after the queue is no longer emptied.

### What makes each part correct

* queue: events come out once, in order, none overwritten; no thread sleeps although
  what it waits for is there; the unlocked test of `queue_cleanup` never leads into a
  blocking pop;
* protocol: the application never waits for an end that cannot come; a request finds
  the board idle; results are painted where they belong; an image gets whole and is
  announced as whole only then; abort stops the computation;
* parameters: `computation_set` means that the board has the shown values (or will,
  before the next request);
* image: nothing is painted outside of the buffer; the grid covers the image;
* rings and parsers: the transmission never stalls, a message comes whole or not at
  all, in order and once, and after a silence both sides are in step;
* threads: the program ends when and only when it should;
* homework: the data structures agree with the abstract ones, the algorithms with
  their definitions.

## 2. Modules

| module | models | kind |
|---|---|---|
| `BoundedFifo` | a linearizable bounded FIFO: pushes and pops with a call, one atomic effect, a return | abstract |
| `EventQueue` | `event_queue.c`, statement by statement between lock operations | detailed |
| `Link` | the messages of `messages.h`, one FIFO per direction | shared |
| `Messages` | their bytes: sizes, places and order of the fields, checksum (`messages.c`, its copy in the firmware, HW10's) | operators |
| `Grid` | chunk arithmetic of `initImage`, `computeChunkSize` and the handlers | operators |
| `Pc` | the main loop with all of its handlers, the two feeding threads | component |
| `Nucleo` | the firmware's loop, the button, the reset, message by message | component |
| `Julia` | `Pc` and `Nucleo` on `Link`; properties | composition |
| `ChunkJob` | what the user relies on: chunk by chunk, none over before it is painted | abstract |
| `NucleoSerial` | the firmware byte by byte: rings, interrupts, `send_buffer`, `receive_message`, `sleep` | detailed; implements `Nucleo` |
| `LossyChannel` | what a listener may rely on when bytes get lost, until his buffer is overrun | abstract |
| `SerialRx` | the serial thread's parser, timeout and start-up | detailed; implements `LossyChannel` |
| `PcThreads` | quit flag, `EV_QUIT`, failing port, cleanup and joins | component |
| `LedControl` | HW09: four threads, and the board | component |
| `AlarmDemo` | LECTURE09: three threads | component |
| `Hw10` | HW10: the protocol of batches | composition |
| `ButtonTimer` | HW08 | component |
| `OrderedQueue` | what `linked_list.h` promises | abstract |
| `LinkedQueue` | HW06 with nodes, pointers and a bounded heap | detailed; implements `OrderedQueue` |
| `CircularQueue` | HW07 with its cells | component |
| `Factors`, `Caesar`, `Grep`, `MatrixExpression` | HW02 to HW05, each with a reference definition | operators |
| `MCEventQueue`, `MCJulia`, `MCNucleoSerial`, `MCSerialRx`, `MCCircularQueue` | instances for TLC | model checking |
| `MCJuliaSize` | `Julia` with one of two users, who aborts or resizes | model checking |
| `MCThreads` | `PcThreads`, `LedControl` and `AlarmDemo`: a behaviour is one of the program chosen at the start | model checking |
| `Homework` | the queues of HW06 and HW07, the timer, the batches, the factors of HW02, the cipher of HW03, the search of HW04, the expressions of HW05, the bytes of messages and the grid: the programs without threads, and their properties | composition |
| `MCHomework` | these, one of them at a time, in the same way as `MCThreads` | model checking |
| `DataProofs` | lemmas about numbers and sequences: least elements, induction, division, `FlattenSeq`, the places of a sequence that are kept | proofs |
| `EventQueueProofs`, `JuliaProofs`, `JuliaOrderProofs`, `NucleoSerialProofs`, `SerialRxProofs`, `ThreadsProofs`, `HomeworkProofs` | theorems | proofs |

Definitions that a comment calls *a plausible slip* are not part of a model: each is a
form that a definition could have by a plausible mistake, used to see that a property
notices it.

### EventQueue

Each thread has a program counter (`pc`): `idle`, waiting for the mutex of a push or
a pop, in the loop that tests full or empty, asleep in `pthread_cond_wait`, woken and
contending for the mutex again, after the store or the take (before the broadcast),
and after the broadcast (before the unlock). `queue`, `in`, `out` are the C
variables; the ring arithmetic is `% QUEUE_CAPACITY`. `queue_cleanup` is the main
thread's own loop: an unlocked test of `in` and `out` (`CleanTest`), then a pop.
`pthread_cond_wait` may return without a broadcast (`SpuriousWakeup`, switched by the
constant `Spurious`). `queue_init` has no action: it initialises the pthread objects.
The main thread may pop and push, the others only push, as in the program.

The refinement `ImplementsFifo` maps the ring to a sequence, and the effect of a call
to the store and the take. An abstract operation is atomic there; the detailed one
takes the lock, may sleep, and broadcasts after.

### Julia

`Pc` uses the queue as an atomic FIFO of `EVENT_CAPACITY` events (the C array has one
cell more): that is what `EventQueue` is shown to implement. One event is handled in
one step, since only the main thread touches `parameters` and `img`. The exception is
the handler of `MSG_DONE`: its `queue_push` may block, so it is a second step
(`main = "push"`, `PushNextChunk`). Each handler is one action, with the refusals of
the code as its other branch.

In `Nucleo` one turn of the firmware loop is two steps, `"abort"` (the test of
`abort_request`) and `"work"` (a command, or a pixel, or nothing), because the button
interrupt may come between. `arrived` counts the messages that are complete in the
receive ring; the loop prefers them to pixels. `Send` waits while the link holds
`LINK_CAPACITY` messages, as `send_buffer` spins while the ring is full. `Reset` is
the black button: the rings are lost (a prefix of what the PC sent, a suffix of what
the board sent), the parameters are zero again and `MSG_STARTUP` is sent.

Data is abstract: the six editable doubles are one value of `Cs`; the increments `d`
stand for the image size they were computed from; a point is given in pixels; the
result of `compute()` *is* the record of its inputs, so that a pixel painted from a
result for another point or other parameters can be told from a right one.

`ImplementsChunkJob` maps the application's `computing`, `current_chunk` and pixel
buffer to the abstract job. A step of `ChunkJob!Finish` needs all pixels of the chunk
to be painted, so the refinement says that a `MSG_DONE` is never taken for the end of
a chunk it does not belong to.

### NucleoSerial

Messages have bytes here: a byte is `[m, i]`, byte `i` of message `m`, and `payload`
says which type a byte inside a message would be taken for. The ports are external:
one byte per direction, an interrupt when one has arrived (`rdr`) or has left (`tc`).
`pc` names the places of the loop between which an interrupt can come: the test at
the top, the work, the spin of `receive_message`, the store of one byte of a reply
(interrupt disabled), the spin while the transmit ring is full (enabled), the start of
a transmission, the moment before `sleep()`, and the sleep. `ReceiveByte`,
`Store` and `StartTransmission` are the bodies; `IrqEnabled` tells where interrupts
are taken. The refinement `ImplementsNucleo` maps the bytes still to be stored, in
the ring, in the port and at the PC to whole messages, and asks of every step what
`Nucleo` allows, as long as nothing was lost. The link of `Nucleo` has a
`LINK_CAPACITY` of `TX_SIZE + 2` messages there: each has a byte of its own in the ring,
in the port or still to be stored.

Three assumptions about time are made, where the code is correct only because the line
is slow: a spinning loop sees room before another byte has left (`ByteLeaves`), no
more than one byte arrives between the test of the ring and `sleep()` (`ByteArrives`),
and `MSG_STARTUP` is sent before the application sends anything.

### SerialRx

The application may start in the middle of a message, discards until the line is
silent, and then collects bytes. `size` is the C variable, not initialised and not
changed by an unknown first byte. A message that does not parse stays unfinished
until `Timeout`, and its bytes are collected as long as there is room (`NextByte`). The
array `msg_buf` has `sizeof(message)` bytes (`BufferSize`), and nothing bounds the store: one
byte more is `Overrun`, the undefined behaviour of a write behind an array on the stack. What comes of that is
`Damaged`: at each byte the thread may push any message, or none, and take itself to be inside of one
or not; or it does nothing more, since it has no fairness from there on. `Reset` cuts the line anywhere and `Announce` sends `MSG_STARTUP`; the
500 ms of both sides race, so both orders are allowed. The refinement maps the bytes
on the line to the messages whose last byte is still to be read. `clean` is a history
variable: no fault since the last silence. `overrun` is in the abstract channel too: it
may happen only while not `clean`, and ends what a listener may rely on.

### PcThreads

Events are reduced to what matters for the life of the threads: a key, a message, a
`MSG_DONE` (whose handler pushes), and the two `EV_QUIT`, of which the main loop obeys
the serial thread's only. `quit_key` is ignored, so the way out leads from the input
thread through the flag to the serial thread and its event. The input thread also ends
when it reads NUL, without setting the flag.

### LedControl, AlarmDemo, Hw10

A critical section is one step. The output threads of both programs wait on the
condition variable without testing anything, so `Signalled` is lost when nobody
waits. `hasty` records that a key was pressed before the answer to the last one: the
answer `a` does not say what it answers, and then the state shown may be wrong.
`Hw10` has one queue per direction, with all that is on the line or waits in the
event queue of the PC. The number of a batch is a `uint16_t`: it begins again at 0 after
`CHUNK_IDS` values, and is given back by an abort modulo these (`GivenBack`). Its board takes a batch whatever it does, and does not clear
`abort_request` then.

### The homework without threads

`LinkedQueue` keeps a heap of `Nodes`, so that a node that is freed and still pointed
to, or lost, is seen; `malloc` fails when none is left. What a loop meets by following
`next` is the sequence `From`, cut off after as many nodes as the heap has, so that it
is defined whatever the pointers are. `CircularQueue` has `Garbage` in
the cells that `realloc` adds; `moved` is a history variable with the positions that
growth has put out of place. The algorithms are operators beside their reference: the
edit distance beside words that so many edits can make, the cipher beside the turned
alphabet, grep beside the occurrence of the pattern, the factors beside their product
and primality, the expression beside the usual rules of precedence. An expression has
two outcomes besides a value: `Error`, the message and code 100, and
`FreedTwice`. `mult` frees both operands also when they do not fit, and of the four
paths that report this, the one between two `*` (line 138) frees the first operand again: the message is out,
but whether the program still ends with 100 is up to the allocator.

## 3. Runs

| run | bounds | shows |
|---|---|---|
| `event_queue` | 3 threads, ring of 3, spurious wakeups | `TypeOK` (with mutual exclusion), `NoLostWakeup`, `CleanupNeverWaits`, `ImplementsFifo`, `PopReturns` |
| `julia_reset` | 3 of all keys, 1 button, 1 reset, two values of `c` | `TypeOK`, `NeverStranded`, `ParametersAgree`, `ComputationEnds` |
| `julia_size` | a user who aborts and keeps the size, 5 keys, or one who changes it and does not abort, 7 keys; 1 button; byte of 4 | `BufferFits`, `PaintedInPlace` |
| `julia_job` | 4 keys without abort and refresh, 1 button | `ComputeFindsIdle`, `ImplementsChunkJob`, `ImageCompletes`, `SuccessIsWhole` |
| `nucleo_serial` | 2 commands, 1 button, 1 lost byte; messages of 2 or 3 bytes, rings of 3 and 4 | `TransmitterRuns`, `AnswersInFrame`, `ImplementsNucleo`, `ComesToRest` |
| `serial_rx` | 2 messages of 2 or 3 bytes, a buffer of 4, 1 lost byte, 1 restart | `ImplementsChannel`, `HearsAgain` |
| `threads` | application: queue of 2, 4 keys, 3 messages; LED: 2 keys, 1 restart; alarm: 5 keys | `LeavesOnRequest`, `QuitEnds`, `LedstateAgrees`, `OnlyOutputCanHang`, `ScreenCatchesUp`, `OutputMayOversleep` |
| `homework` | see below | `WellLinked`, `ImplementsOrderedQueue`, `CellsDistinct`, `OnlyWrappedAreLost`, `PressCountsOnce`, `BeliefEnds`, `DistanceIsLeast`, `BestIsPrinted`, `PrintedIfFound`, `FactorsRight`, `ValueRight`, `ChunksCover`, `ReadAsSentOrRefused` |
| `julia_assertion` | 4 of compute, abort, set, reset chunk, refresh | violation of `ComputeFindsIdle` |
| `julia_abort_key` | 3 of the same keys | violation of `AbortStopsTheChain` |
| `julia_flood` | 6 of compute, set, show parameters | violation of `MainFindsRoom` |
| `circular_queue` | capacities 1 to 3, arrays up to 6 | violation of `FirstIsPopped` |

Deadlock is not checked: in every run the user, the board or the caller may stop
doing anything once the bound on keys, messages or calls is reached, and a program
that has ended stays as it is. What must not stop is stated as liveness.

**Julia.** `MaxKeys` key presses, `MaxPresses` of the button, `MaxResets` of the
reset button, a queue of 4 events (15 in the code), 3 messages on the way to the PC,
sizes up to `MaxDim`. A byte is 0..7 or 0..3 (`BYTE`), with chunks of 1 to 3 pixels so
that an image of a few pixels has several chunks, some of them cut off by the border,
and ids wrap. Two or three chunks are enough for the hazards: they concern one chunk
and the one that follows or precedes it, and the wrap of `current_chunk` at -1. Four
events are enough to fill the queue with the chain's own event excluded.

**NucleoSerial.** The code tells messages of 2 bytes from longer ones, so a long one
has 3. A transmit ring of 3 is full in the middle of the second answer, which the
ring of 254 is only under load; the receive ring holds more than one command. Two
commands are enough for one to be cut and the next one to be taken for its rest.

**SerialRx.** One message to be cut and one to be swallowed; a lost byte and a restart
besides, in any order. The buffer has room for one byte more than the longest message (the
code's has 56 bytes where a `double` is aligned to 8, and the longest message 35), so that a message that
does not parse can pass its size without an overrun, and the next one overruns it.

**Threads.** A queue of 2 is filled by either feeding thread alone, with a `MSG_DONE`
handled in between. The LED control needs one key on the way while another is answered.

**Homework.** Linked queue: 4 nodes, values -1 to 1. Circular queue: capacities 1 to 3,
grown up to 6 cells, which contains growing twice, growing while wrapped, shrinking
and growing again. HW10: 4 keys, 1 button, 1 reset, 1 task, 3 messages on a line, numbers
modulo 3, so that they begin again. Timer:
6 presses. Edit distance: words of up to 3 letters of two. Cipher: words of up to 2
letters from both ends of both halves of the alphabet, with every offset. Grep: lines of up
to 6 letters of two, patterns of up to 4. Factors: a sieve to 30 and every number beyond
its square; quotients of four digits. Expressions: two or four of four matrices, of
three shapes and with every pair of operators. Grid: **the code's own constants**,
images of 10 to 600 pixels either way in steps of 10. Messages: every type, fields at
both ends of their range, a byte of 16 values and a double of two bytes.

Limits of what holds that are worth knowing. `ComputeFindsIdle` and
`ImplementsChunkJob` hold while the user does not abort from the keyboard; with the
button alone they hold, because there the board's `MSG_ABORT` and `MSG_DONE` come in
one order on one line. `PaintedInPlace` holds while one user does not both abort and
change the size. With eight keys he can: compute, abort, another size, refresh, set and
compute again, while a result of the aborted chunk is still on its way. It has the
number of the new chunk, and nothing in a result says for which size it was computed, so it is painted
with the new grid. `PaintedInPlace` and `SuccessIsWhole` are not checked with resets: a
request that survives a reset is computed with the zero parameters of the board and
painted, and the `MSG_DONE` of one that the reset overtook is taken for the answer to the
next, so that an image is announced as whole with black pixels. `ChunksCover` says of
which images the chunks cover all: not of those with 256 chunks or more, as 320 x 310
pixels are: 16 * 16 chunks of 20, a count of 0 as a byte, so that the chain ends after the
first chunk and announces the whole image. `ComesToRest`, `QuitEnds`, `OnlyOutputCanHang` and `OutputMayOversleep`
name the ways to get stuck that there are, and say that there is no other.

Some of what holds, holds because the model is easier than the world there:

* `Nucleo!Reset` cuts the line between messages and always delivers `MSG_STARTUP`.
  `NeverStranded`, `ParametersAgree` and `ComputationEnds` rest on that. `SerialRx` has the bytes, and
  shows when it is so: if the line is silent for 500 ms between the cut message and
  `MSG_STARTUP` (`HearsAgain`). If it is not, the cut message swallows `MSG_STARTUP`, and an application that
  waits for the end of a computation goes on waiting until the user aborts;
* `SerialRx` promises something only until `msg_buf` is overrun. One lost byte is
  enough for that if the board sends without a pause, as it does while it computes;
* `NucleoSerial!ByteLeaves` does not let the transmit interrupt take out a byte while
  a spinning `send_buffer` has not yet seen the room left by the one before. `send_buffer`
  decides whether to start the transmission before it spins, so that a ring emptied during one spin would
  stay at rest; the loop would have to be slower than 254 bytes on the line. `TransmitterRuns` and
  `ComesToRest` say nothing of such a loop;
* `LedstateAgrees` is about a user who waits for each answer (`hasty`); with two keys in a row the
  state shown and the LED may part, which no property denies;
* `Pc!HandleSetChange` does not make a side of the image smaller than 1 or larger than
  `MaxDim`. The code has no such bounds (`semestral_project.c:199`, `211`): these are
  bounds of the exploration, and a side of 0 or less is outside of the model.

### Fairness

`Julia!FairSpec`: weak fairness of the main thread, of the serial thread, of the
firmware's loop and of the delivery of a message. Each is the only process that takes
its step, and the operating system (the processor of the board) runs it; a step once
enabled stays enabled, apart from the competition for room in the queue, which ends
because the keys do. Keys, button and reset have no fairness.

`EventQueue!FairSpec`: weak fairness of each thread inside a call. A pthread mutex is not
fair, so nothing stronger is assumed; spurious wakeups have no fairness, and each of
them needs a thread that went to sleep again.

`NucleoSerial!FairSpec`: weak fairness of the loop and of the line; strong fairness of
the two interrupts, because the loop disables them again and again: a pending
interrupt is taken at the first instruction at which it is enabled.

`SerialRx!FairSpec`: weak fairness of the thread (`poll` returns) as long as it has not
written behind its buffer, and of the boot of
the board. `PcThreads!FairSpec`, `LedControl!FairSpec`, `AlarmDemo!FairSpec`: weak
fairness of every thread; a read returns after its timeout, a sleep after its period.
Keys, boards, lost bytes and spurious wakeups have none. `MCThreads` states the same
for the program that was chosen.

### Findings

1. `julia_assertion`: compute, then abort just as `MSG_DONE` is under way, then
   compute: the old `MSG_DONE` ends the new request, and the next `MSG_COMPUTE` meets
   a board that computes, contrary to the `//assert` at `main.cpp:578`. The board
   acknowledges the request and drops it.
2. `julia_abort_key`: an abort handled after `MSG_DONE` and before the queued
   `EV_COMPUTE` is refused and the chain goes on.
3. `julia_flood`: the main thread blocks in its own push when the other threads have
   filled the queue.
4. `circular_queue`: `realloc` leaves the elements that had wrapped where they are,
   and `pop_from_queue` returns a cell that was never written. `OnlyWrappedAreLost`
   bounds the damage to the elements that had wrapped at that moment.

Two more were met while modelling, and are part of the models without a run that
asks for their absence:

5. `SerialRx!Overrun`: `msg_buf` is declared as the "maximal buffer for all possible
   messages" (`semestral_project.c:792`), but line 815 stores without a bound. After a message
   that fails its checksum `counter` has passed `size`, so that no test ends the
   message before a silence of 500 ms, which a board that sends result after result does not
   give. `ImplementsChannel` says that this takes a fault, and `HearsAgain` names it as the
   other way for a message not to end.
6. `MatrixExpression!FreedTwice`: a product that does not fit, at the beginning of an
   expression and with another factor behind it, ends in a double free instead
   of "Chybny vstup!" with 100. `ValueRight` says that it is this case and no other.

## 4. Proofs

`EventQueueProofs` proves, for any sets of pushing and popping threads (they may
overlap), any events and any ring of at least two cells:

* `TypeCorrect`: `TypeOK`, whose last conjunct is mutual exclusion: the mutex belongs
  to exactly the thread that is between lock and unlock. It is inductive as it stands.
* `WakeupsNotLost`: `NoLostWakeup`. It is inductive together with `TypeOK`: a step
  that makes room or brings an event enters an announcing label, where the property
  asks nothing; the broadcast that leaves it empties the set of sleepers; and a
  thread can fall asleep only with the mutex, hence while nobody announces, having
  just tested its condition.
* `CleanupDoesNotBlock`: `CleanupNeverWaits`. The strengthening is `OnlyPoppersPop`
  (a thread inside `queue_cleanup` is at its test or in a pop, and only poppers pop):
  with a single popper nobody else moves `out`, and a push, which tests for room
  first, cannot make `in` equal to `out`.
* `QueueIsFifo`: `ImplementsFifo`, the refinement. The ring between `out` and `in`
  is read as a sequence (`PlaceFacts`, `ItemsFacts`), a store appends to it
  (`StoreAppends`), a take removes its head (`TakeTakesHead`), and every other step
  is a call, a return, or a stutter of the abstract queue. It needs `TypeOK` only: that
  a push stores only into a ring with room, and a pop takes only from one that is not
  empty, is in the guards of the loops and in mutual exclusion.

`JuliaProofs` proves about the whole system, with any keys
pressed any number of times up to any bound, any number of aborts and resets, any
image size, queue, link and width of a byte:

* `TypeCorrect`: `TypeOK`, inductive as it stands. Its content is in the arithmetic:
  `computeChunkSize` is a `CHOOSE` of the smallest candidate that fits, so a smallest
  one must exist (lemma `SmallestCandidate`, from the well-foundedness of the natural
  numbers); chunk ids and counts stay bytes; and after a reset the firmware still
  counts on no message that was lost (`arrived`).
* `BufferAlwaysFits`: `BufferFits`, inductive together with `TypeOK`. A size changes
  only when nothing is computed, and sets `refresh_require`; every action that writes
  the whole buffer is refused then, or is the refresh itself, and writing one result
  never changes the buffer's extent.
* `NotStranded`: `NeverStranded`. The property is a disjunction of three reasons for
  the belief that the board computes: the news of an end is on its way, the board
  computes and no abort comes, or a request comes with no abort behind it. It is
  inductive together with `TypeOK`, and the proof shows how each step hands one reason
  over to the next: the board takes the request and computes; it finds itself
  computing already, and that is the second reason; it ends or is aborted, and sends
  the news; it restarts, and sends the news whatever was lost; the serial thread moves
  the news into the queue; the main thread takes the news, and gives up the belief. An
  abort from the keyboard gives it up at once. A dead application is excluded: an image with
  no chunks in a row makes the handler of `EV_COMPUTE` divide by zero after it has set
  `computing` and before it sends the request, which is the one way to be stranded
  that there is.
* `ParametersDoAgree`: `ParametersAgree`. Again three reasons: a restart of the board
  is on its way to the application, the board has the parameters and no others come,
  or they are under way as the last ones sent. Every key that changes a parameter
  clears `computation_set` in the same step, and `MSG_SET_COMPUTE` carries the values
  of the moment.

`JuliaOrderProofs` proves two properties that depend on what the user does, so that
their theorems name it as hypotheses on the constants: `NoAbortKey` (the user does not
abort from the keyboard; he may press the button), `NoReset`, and for the second one
`NoArtKey` (he does not ask for the artwork, which is drawn with the increments that were
set last, whatever the size is by then). The users of `julia_job` and the second of
`julia_size` are such users, and `julia_assertion` shows that the first hypothesis
is needed.

* `RequestFindsIdle`: `ComputeFindsIdle`. The two ways by which the board's messages
  reach the main thread, its queue and the line, are read as one sequence, `Coming`.
  The invariant `OneRequest` gives a request four phases. While the application
  believes the board idle it is `Resting`: no request is on the line, the board does not
  compute, and no end (`MSG_DONE`, `MSG_ABORT`) and no result is coming. While it
  believes the board to compute, the request is `Asked` (one on the line, nothing else), `Working`
  (the board computes, no end is coming) or `Closed` (the board is idle, one end is coming, and
  no result after it). A second request would need the belief that the board is idle, which only
  an end brings about, so that the first phase holds again.
  The button makes the board send one end instead of another, which is why it does no harm;
  an abort from the keyboard makes the application believe it without an end.
* `ResultsPaintedInPlace`: `PaintedInPlace`. On top of `OneRequest`, the invariant
  `InPlace` ties sizes together along the whole way: the application is settled on
  the size it has set, or still has to set it (`SizeKnown`); a request, the board that
  works on it and every result still coming carry the corner of the current chunk and
  the increments of the current size (`RequestsFit`, `BoardFits`, `ResultsFit`).
  The size cannot change under them, since a change is refused while the application
  believes the board to compute, and by `OneRequest` nothing is on its way when it
  does not. What a request cannot be sent without (`refresh`, then `set`) settles
  the new size before the next one.

The same module proves the refinement of the chunk job. Its hypotheses are `NoReset`,
`JobUser` (the user does not abort from the keyboard, change the size, refresh, compute on
the PC or ask for the artwork; he may do anything else, and press the button), and
`FirstFits` (the first image has less than 256 chunks: 192 with the code's constants,
320 x 240 pixels in chunks of 20). The user of `julia_job` is such a user; what becomes
of the property without these hypotheses is said at the end of section 3.

* `ChunkJobIsDone`: `ImplementsChunkJob`. The invariant is `JobInv`, on top of `OneRequest`
  and `PaintedInPlace`. `SameGrid` and `OnlyJobs` say that the grid stays that of the first image.
  `Current`: a request, the board that works on it and every result still coming are for
  the current chunk, the whole of it, and within its bounds. Its heart is `NoneForgotten`:
  while a chunk is computed, its request is still on the line, or an abort is coming, or each of
  its pixels is painted, or still ahead of the board (`Pending`, in the order of the two
  counters of the firmware's loop), or its result is coming. A result sent moves one pixel
  from ahead to coming, one painted from coming to painted; at `MSG_DONE` the board is idle
  and nothing comes after it, so all pixels are painted, which is the guard of `Finish`.
  From the invariant each handler is one of six effects (`Keeps`, `Begins`,
  `Rewinds`, `Paints`, `Finishes`, `GivesUp`; lemma `PcJob`), each a step of the abstract job or a
  stutter (`JobRefined`). That a pixel lies in exactly one place of exactly one chunk is the lemmas
  `PixelInChunk` and `ChunkOfPixel` of `JuliaProofs`.
* `AnnouncedIsWhole`: `SuccessIsWhole`. `EarlierWhole` (the pixels of all chunks before the
  current one are painted) is an invariant of the abstract job: every one of its steps
  keeps it (lemma `WholeStep`), so that the protocol is not looked at again.
* `LateResultsPaintedInPlace`: `PaintedInPlace` for the other user of `julia_size`, who
  may abort and refresh whenever he likes but keeps the size (`KeepsSize`, with `NoArtKey`
  and `NoReset`). Nothing of `OneRequest` holds for him: results and ends of aborted
  chunks come in the middle of the next one, and the application may even believe it is
  a chunk ahead of the board. The invariant `Kept` says instead that there is `OneGrid`, that
  requests, the board and all results, whatever chunk they belong to, agree on where a chunk is
  (`Cornered`), and that the board has the increments or gets them before any request
  (`Sized`). `SizeIsChosen`, the last hypothesis, says that a refresh cuts the first image as
  it was cut at the start (320 * 240 <= 20 * 20 * 255, so the code's is). It is needed: with
  a first image of 3 x 2 pixels, chunks of 1 and a byte of 4 values the refresh chooses chunks of 2, and TLC
  finds a result of the old grid painted in the new one after seven keys.

`NucleoSerialProofs` proves about the bytes of the firmware, for every set of messages
the application may send, any sizes of long messages and rings, and any number of
commands, presses and lost bytes:

* `TransmitterKeepsRunning`: `TransmitterRuns`. `send_buffer` starts the transmission
  or not by a test it made before it stored. The strengthening is `RunsInv` (outside of
  `send_buffer`, and inside if the test found the ring not empty, bytes in the ring are
  under way) with `SendInv`: if the test found it empty, the ring holds what has been stored since and nothing
  else, so that it cannot fill up, since a message fits into it, and the interrupts
  stay disabled until the transmission is started; and when the ring did fill up, it is still full, or
  the port is taken, until the loop goes on.
* `AnswersStayInFrame`: `AnswersInFrame`. The invariant is about the whole stream:
  the bytes the PC has, the one in the port, those in the ring and those still to be
  stored, in this order, are whole messages up to the last byte (`FrameInv`). A byte
  that moves from one part to the next leaves the stream as it is; the only step
  that changes it appends a whole message; and what is received is a prefix.
* `NucleoIsImplemented`: `ImplementsNucleo`, the refinement of the firmware that the Julia
  runs use by the firmware with its bytes. The messages in a sequence of bytes are those
  whose last byte is in it, so that the laws of `FlattenSeq` in `DataProofs` say what a byte that moves
  does to them (`MessagesConcat`, `MessagesTaken`, `MessagesWhole`). On the way to the PC
  (`Back`) `send_buffer` appears as one `Send` at the moment it begins, and what it and the
  transmit interrupt do to the ring goes unnoticed. On the way from the PC the invariant
  is `RecvInv`: as long as no byte is lost, the bytes `receive_message` has collected, those
  in the receive ring, in the port and on the line are, one behind the other, whole messages, and
  none that was collected is the last of its message. From it follows that
  `receive_message`, which knows a message by its length only, is done with the last byte
  and not before (`OneMessage`, `KnownByLength`); that is the byte with which `Nucleo` takes
  the command. Every other step is a step of `Nucleo`, of the PC that sends or reads, or a stutter
  (`StepImplemented`).

`SerialRxProofs` proves `ChannelIsImplemented`: `ImplementsChannel`, for any messages and any
numbers of messages, lost bytes and restarts. `Channel` allows messages to be missed
after a fault and demands every one after a silence, and it promises nothing more once the buffer is
overrun, which it does not allow after a silence before the next fault (lemma `OverrunUnclean`: while
`clean` a message is collected that has `size` bytes, and these fit). The invariant `RxInv` is what a silence
brings about: while `clean`, the bytes on the line are chained (each is the next byte of
the same message, or a first byte after a last one; `Chained`), and if the first of them is
not the first of its message, `msg_buf` has exactly those before it, and `size` is the size of
that message (`Begun`, `InStep`). A byte that is
read and does not end its message changes nothing in the abstract channel; one that ends it lets the message
be missed, or heard, which while `clean` it is, since what is collected parses
(`StepInMessage`). A fault takes messages from the line, and ends the silence.

`ThreadsProofs` proves, for any length of the queue and any numbers of keys and
messages, `TypeCorrect` and `LeavesOnlyOnRequest`. `LeavesOnRequest` alone is not
inductive: the reason to end has to be carried from the flag or the failed port into
the serial thread's `end`, from there into the `EV_QUIT` in the queue, and from there to
the main thread; and no step may take it away (lemma `ReasonStays`), which needs that the
input thread, the only writer of the flag, never writes it back to false.

It proves `LedIsAsStated` besides: `LedstateAgrees` of the LED control in `MCThreads`, for any number of keys,
restarts and bytes on the line. The invariant `OneKey` says where the one key of a user who waits
for his answers is: not sent, with the board, obeyed (its answer is on the line, somewhere between the reports
of a blinking LED) or received. In each place it says what the LED will be
once the answer is understood; the answer means nothing without `lastsent`, which only the
next key changes.

`HomeworkProofs` proves about the programs in `Homework`:

* the circular queue, for any capacities, entries and calls: `TypeCorrect`,
  `CellsAreDistinct` (from the types alone: `Cell` is injective below `allocated`, lemma
  `CellFacts`) and `OnlyWrappedLost`, inductive with the types: a push changes no cell that
  an element in place is read from, since what had wrapped when the array grew is counted
  in `moved`; and a pop shifts every position by one, whether the array is copied or not;
* `BeliefDoesEnd`: `BeliefEnds` of HW10, for any number of keys, presses, restarts and
  tasks, and any number of values of a `chunk_id`: the three reasons of `NeverStranded` in the simpler protocol, and that a batch is
  counted before its number can be given back. The invariant `Counts` says that the number never
  exceeds the keys pressed, and that a batch under way has number 0 only after so many keys that the
  numbers began again (65536 in the code), so that 0 is not given back, as the highest number, before that
  (`NeighbourIds`, `GivenBackCounts`);
* `PressIsCountedOnce`: `PressCountsOnce` of HW08, for any table of periods. A press that
  is down, or that the timer has looked at, is not counted yet; the invariant `TimerInv`
  says that the period leaves room for it, also when the button is let go and pressed
  again between two looks, which the timer takes for one press;
* `GridIsCovered`, for an image of any size and a byte of any number of values: the chunks
  that `computeChunkSize` leads to lie over the whole image if and only if their number is a
  byte. It rests on `CeilingFacts` and `CeilingIsUnique` (the rounded quotient is the one
  number of pieces that is enough and not one too many) and on `DivisionIsUnique`. In one
  direction nothing wraps; in the other, chunks that end where the image ends leave only
  one possible number in a row, and one of rows, so that nothing can have wrapped.
  `ChunksDoCover` is `ChunksCover` itself, for every image instead of the sizes of the run;
* `LinkedIsWell`: `WellLinked` of HW06, for any integers, any positions asked for and any
  number of nodes. The invariant `LinkedInv` says that there is a chain of `mysize` different nodes,
  from `head` to `tail`, each pointing to the next and the last to `NULL`, which are all
  that is allocated (`Holds`). Such a chain is what the loops meet (`ChainIsMet`,
  `RestIsMet`). `push` and `insert` put a node in after the first k of it (`AddedHolds`; where, is
  `LastAboveFacts`); `pop`, `erase` and `clear` leave an increasing sequence of its places, each
  linked to the next one (`RemainingHolds`; that both loops of `erase` do, is `SkipFacts`);
* `LinkedIsImplemented`: `ImplementsOrderedQueue`. The same lemmas say what becomes of the
  values in the chain, and so each call is the one of the abstract queue (`PromisedStep`);
* `PrintedAsFound`: `PrintedIfFound` of HW04, for any line and any pattern (a line with more than
  the 100 remembered places that the code has room for is outside of the model). The
  search never goes back; behind each character a place where the pattern is has been
  found, or is remembered, or is where the try that is going on began (`Caught`), since a
  try that breaks off at a first character of the pattern begins again with it, and one that goes on
  over such a character remembers it;
* `DistanceIsIndeedLeast`: `DistanceIsLeast` of HW03, for any two words. Rows of the table are
  added letter by letter (`LastRowAppend`). Neighbours in a row, and rows of words one edit
  apart, differ by one at most, whatever letters are added behind (`RowStep`, `NearKept`,
  `EditNear`): n edits bring a word nearer by no more than n (`NotNearer`), so that fewer than the last cell
  says do not do. And each cell counts edits that there are, since edits can be made before and
  beside others (`WithinBefore`, `WithinAppend`, `ReachedCell`);
* `BestIsIndeedPrinted`: `BestIsPrinted` of HW03, for any text and any letters heard of it. Shifting a
  letter is turning the alphabet (`ShiftedIsTurned`); behind each offset, the best so far
  fits better than all before it and no worse than all behind it, or nothing has been better than nothing
  (`BestBelow`), and at the end the first offset is the best one then, because no text needs
  more edits than the longer one has letters (`CellBound`);
* `FactorsAreFound`: `FactorsRight` of HW02, for any number, any size of the sieve whose `sqrt`
  is large enough, and quotients of any digits by any divider. After pass i the sieve has what no number up to
  i divides, itself excepted (`PassKeeps`: striking out the multiples of a number that is gone would
  change nothing), and what is left after the last pass are the primes, since of a number and its cofactor
  one is below the root (`Cofactor`, `FactorBelowRoot`). `manage_output` keeps that the factors found times
  what is left make up the number, and that no number tried divides what is left
  (`Factored`, `TriedFactors`), so that what is left at the end is 1, or beyond the sieve, and then a
  prime if the number is below the square of `range` (`RestIsPrime`). `divide` keeps that
  the digits so far are the quotient so far times the divider and a remainder (`TakenDivides`);
* `ExpressionsAreRight`: `ValueRight` of HW05, for any number of matrices of any size, with
  any integers and operators (`ExpressionOf`), in an expression whose sums fit. What is kept
  from one operator to the next (`Evaluated`) has three forms. As long as only products were
  read, `A` is the product so far and `B` the operand behind it; once a sum or a difference
  was read, `A` is the signed sum of all terms but the last, or an error if one of these is
  (`Summed`), and `B` the last term as far as it was read (`EvaluatedAtFirst`,
  `EvaluatedNext`). The third is what the double free leaves behind: a product at the
  beginning did not fit, and another factor was read (`ClearedBy`); it is entered from the
  first form only (`TurnKeeps`), and never left. Where the next term begins, or the line ends, `A` with `B` is the sum
  of one term more (`Closed`, from `SummedFirst` and `SummedMore`). That the sums fit is a
  hypothesis of the property itself: the code adds matrices of different sizes without a
  look at the second one's. Numbers are integers here: an expression whose value
  does not fit an `int` is outside of the model;
* `MessagesAreReadOrRefused`: `ReadAsSentOrRefused`, for every type, everything that its fields can
  hold (`IsMessage`), and any number of values of a byte, width of a double and length of the
  startup text. The two tables, sizes and fields, agree (`SizesAgree`); a field lies where the sum
  of the widths before it says (`FlattenPlace`); a number that fits into its bytes is read from
  them in either order (`ReadsAsWritten`: reading goes backwards through the remainders of the
  shifts); with the checksum the bytes sum up to the highest byte (`ChecksumIs`), and one
  that is another changes the sum by less than a byte, hence its remainder (`ChangeIsNoticed`).

The assumptions are `QueueAssumption`, `PcAssumption`, `KeysAssumption`,
`GridAssumption`, `NucleoAssumption`, `SerialAssumption`, `ThreadsAssumption`, `CircularAssumption` and
`ProgramsAssumption`, stated
where the constants are declared; TLC evaluates them in the runs of those modules.
(Of modules that `MCThreads`, `Homework` and `MCHomework` only instantiate, the like is a
definition, which those assume of their instances.) They ask for no more than positive
capacities, a byte of at least two values (in `Messages` of as many as there are types), chunk sizes that are bytes, first parameters
within their limits, a zero constant the user cannot enter, and that an unpainted pixel
can be told from a painted one (`BlackAssumption`).

`DataProofs` has what these proofs share. The library's induction theorems
take an operator as a parameter, which the provers cannot instantiate; `Induction` is for a
set of numbers instead, and follows from the least element of its complement. Recursive
functions are not defined by their equation but as a function that satisfies it: that
there is one is proved for functions that carry a value on step by step
(`IterationExists`), for those that go back to any smaller argument (`BackwardExists`), for
the library's own (`FlatteningExists`, `FlatteningUnique`, and the equation
`FlattenUnfold`) and for the walks of HW06 (`WalkExists`, `WalkUnique`). An operator of the library that takes an operator (`SelectSeq`, `FoldLeft`) is out of their
reach, which is why what `NucleoSerial`, `SerialRx` and `OrderedQueue` filter is
written with `FlattenSeq`.

Model-checked only:

* liveness (`PopReturns`, `ComputationEnds`, `ImageCompletes`, `ComesToRest`, `HearsAgain`,
  `QuitEnds` and the like), which needs fairness and `ENABLED`, out of the prover's reach.

Every other property that a passing run checks is stated by a theorem.

## 5. Not modelled

* `EV_ENHANCE_BAUD` / `MSG_ENHANCE_BAUD`: the application closes nothing and opens the port at
  another speed while the serial thread may be reading the old descriptor; which bytes
  survive depends on the USB driver. For the same reason its two hazards, the board that
  refuses the switch while it computes and the old descriptor, have no property;
* bytes that parse although they belong to two messages (a mixture never has the right
  checksum here; one wrong byte is covered by `Messages`);
* an overrun of the board's receive ring, and of the ports;
* an application that starts while the board computes for an earlier one: the board
  is fresh at the start of the Julia runs;
* `n = 0`, which the application permits (a division by zero in the colours);
* accesses outside of an array, which have no outcome a model could choose from:
  `ledstate` of HW09 (three bytes, four written), `remember` of HW04, a second matrix of HW05 smaller
  than the first, capacity 0 in HW07. Inputs that lead there are left out. Of
  the overrun of `msg_buf` and of the double free of HW05 it is modelled that they happen,
  and when; what comes of them is left open;
* HW10's rings, event queue and byte parser (whose buffer is overrun in the same way),
  earlier copies of what `EventQueue`,
  `NucleoSerial` and `SerialRx` model, and its `MSG_GET_VERSION`;
* HW02's loop over the divisors of a long number and the input of all homework
  programs; the optional part of HW05;
* output: window, files, text;
* LECTURE07 and LECTURE08, the process and IPC demos, and the exercises in `src/LECTURES`:
  a few lines each around a library call, without state that lasts;
* the vendored STM32 drivers and CMSIS headers in `LECTURE07/Drivers`. They are 232,160
  of the repository's 241,483 lines of C, C++ and headers (96 %), and register definitions for the
  most part, so that the share of all lines that has a model is small however much of
  the programs is modelled. The programs themselves, without superseded and teacher's
  copies, tests and demos, are about 4,500 lines.

## 6. Plan

Event queue, protocol, firmware, parser, threads and homework are modelled; every
invariant, every action property and every refinement that a run checks is proved. What is left is
to model more: the switch of the baud rate, if the driver's part in it is ever pinned
down, and the demos of section 5, if they come to keep a state.
