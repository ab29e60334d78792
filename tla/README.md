# Verification of the NanoPi-Duo2 library

TLA+ models of the C++ library in this repository, TLC configurations that
check them on small instances, and TLAPS proofs of the main results for every
value of the constants. Paths are relative to the repository's root.

## 1. The system

A library for programs on a NanoPi Duo2 board: a message queue, a TCP client and
server, character devices with a worker thread each, an encrypted store of
passwords, a display, and small helpers. `NanoPi/main.cpp` is a demonstration.
The parts meet in a few places only: the TCP client counts its calls in a message
queue; the server hands what it receives to `NPDProtocol`, which is built on
`NPDbuffer`; devices, database and client report through `ErrorCreate`.

| Component | State | Operations | What is hard, and what makes it correct |
|---|---|---|---|
| `NPDMessageQueue` (`LibNPDBase/NPDMessageQueue.hpp`) | a `std::queue`, a mutex | `push`, `pop`, `size` (`clear` does not compile when used) | `pop()` asks `empty()` before it locks. Nothing may be lost, duplicated or reordered; `front()` and `pop()` need an element. |
| `NPDTCPClient` (`LibNPDNet/NPDTCP.*`) | `_sockfd`, `_maxLength`, task counter, queue of tasks | `init`, `connect`, `send`, `recv`, `disconnect` | Any thread may call; each `send()` pushes a task and pops some task; `disconnect()` spins until the queue is empty. Frames, shared retries, balance of the tasks, closing behind the calls waited for. |
| `NPDTCPServer` (same files) | `prerecv`, `recvsec`, the list of clients, `_run` | `init`, `start`, `fork`, `waitForClient` (one thread per connection) | The header and the block are members shared by all connection threads, without a lock; no result of `recv` is looked at. Bodies whole, in order, memory safe. |
| `NPDDevBase`, `NPDSerial` (`LibNPDDevDriver`) | `_initflag`/`_fullinit`, `_fd`, `_serial_fd`, `_run`, a thread, a static registry | `init`, `start`, `stop`, the worker `NPD_run_task` | `stop()` against a worker in `read`; descriptors that are forgotten; a registry keyed by `_fd`; the inverted test of `nfopen()`. |
| `NPDIIC` | descriptor, one ioctl structure, two locks | `nfopen`, `read`, `write` | Two locks around one structure; an error closes under the other direction. |
| `NPDSPI` | descriptor, one buffer and one lock per direction | `read`, `write` in parts | 8-bit offset, remaining length. |
| `AES` (`LibNPDBase/NPDAES`) | key, initial value; the file of records | `Load`, `WriteToFile`, `ReadFromFile` | The file is truncated and written anew at every write: crashes, full disks, offsets. |
| `NPDbuffer`, `NPDProtocol` | bytes; header, payload, trailer | appending, `get`/`set`/`remove`, `pack`, `unpack` | 32-bit sums in bounds checks, ownership of `_proto`, over-reads. |
| `NPDOLED` | cursor, bus lines | drawing over a bit-banged bus | Order of the edges of clock and data. |
| `Error`, `NPDLOG`, `NPDDataBase` | last error; SQLite handle | create and handle errors; `open`, `exec`, `close` | Success reported after a failure; leaks. |
| `NPDCommon`, `NPDRPC`, `NPDFileDeal`, `NanoPi`, `NPDThirdparty` | – | – | Shell commands and constants; not built; empty; demonstration; vendored. |

`PROJECT.json` lists every component with its status, and under `hazards` what
is hard to test, each at its line, with the properties that watch it.

## 2. Modules

| Module | Models | Abstract specification |
|---|---|---|
| `MessageQueue` | the queue's steps, to be used by others | |
| `QueueUse` | threads that push and pop freely | `FIFOQueue` |
| `TCPClient` (extends `MessageQueue`) | the client, all threads, the queue's steps inside its calls | |
| `TCPServer` | the server with its clients as environment | |
| `DevBase` | devices, their workers, descriptors, the registry | |
| `AESStore` | the file of encrypted records | `RecordStore` |
| `SPITransfer` | reads and writes of an SPI device in parts | |
| `SSD1306` (external) | the display controller, as far as `NPDOLED` relies on it | |
| `OLED` (extends `SSD1306`) | the drawing functions and the two lines they drive | `OLEDDisplay` |
| `Buffer` | `NPDbuffer` as operators on sequences | |
| `Protocol` (extends `Buffer`) | protocol objects with their heap blocks, and a buffer of the caller | the history variable `meant` |
| `QueueUse_proofs`, `TCPClient_proofs`, `TCPServer_proofs`, `DevBase_proofs`, `AESStore_proofs`, `SPITransfer_proofs`, `Protocol_proofs`, `OLED_proofs` | theorems, each about the module of its name | |
| `MC…` | instances for TLC | |

Definitions named `Mut…` are negative controls: definitions with a plausible bug,
with which the properties must fail. They are used by nothing else.

### MessageQueue, QueueUse, FIFOQueue

The `std::queue` is two cursors, `start` and the end of `store` (everything ever
pushed). `push()` is call, lock, store and unlock. `pop()` is call, then the
unlocked `empty()`: two loads of the two cursors in either order (which of them
comes first is the compiler's choice, and the race is undefined in C++; the model
takes the outcomes of word-sized loads), then throw or lock, `front()`, removal and
unlock. `front()` of an empty queue yields `Garbage`. Taking a mutex is one step,
and everything up to the release is visible only through the unlocked loads.

`FIFOQueue` promises what the header's class comment announces. `QueueUse` is
the queue with a set `Pushers` and a set `Poppers`. With one popper it implements
`FIFOQueue` (`IsFIFO`): a refused `pop()` takes effect when the end cursor was seen
equal to `start`. With two poppers it underflows.

### TCPClient

One action per call that ends at once (`SendRefuse`, `RecvRefuse`, `Connect`,
`ClientInit`), and for the others one per step another thread can come between:
the two halves of `++_task_queue_num`, the queue's own steps, every `::send`,
`disconnect()`'s look at the queue and its close. `pc` is the place in the client,
`qpc` the place in the queue. The frame loop keeps the code's counters. Variables
marked *history* record what properties need and no guard reads.

What `::send` is given is memory, and a place in it is counted from `const_data()` on. `const_data()` is
the payload; `data.size()` counts the 20 bytes of `sProtocol` as well (`HeaderSize`, `Sizes`), which do not
lie in front of it. So of every message the payload is handed over and 20 places behind it, and never
the header: section 5. The argument of `send()` is a copy of a protocol object, the matter of `Protocol`.

The environment is the kernel's `send()`: it fails, takes a frame, or part of it, or
never returns, because the other side does not read (`Stall`).
That is more than the code can meet today: `init()` keeps neither address nor port,
so `connect()` of an initialised client always answers the initialisation error and
no socket is ever connected (`Connect`). The properties of `send()` are therefore
stated for any answer of the kernel. A descriptor number used again by somebody else
after the close is not modelled.

### TCPServer

Each connection has the thread `waitForClient()` and a client. `Got` says how many
bytes a `recv()` may return, `Filled` what that leaves in the buffer: `prerecv` keeps
its old bytes where nothing was received. `heap` tracks the blocks of `new[]`.
The three comparisons of the header are one step (`Check`); reading them one
by one only matters with two connections, where the weaker model already fails.
A `recv()` waits while the client is silent, for no bytes as well as for some: behind the header of an empty
body the thread rests in it (`WaitsBehindEmpty`). `outside` records what has been accessed that is not allocated. After a
write or a `delete` outside, or a termination, `up` is false and nothing follows. `unpack()` is given the
size of the block as that of the payload, and reads the 20 bytes of `sProtocol` around it, behind
the block: such a read ends the server, or goes unnoticed (`Unpack`). `recvData` is returned by value:
either it is constructed in the place of the caller (`ReturnInPlace`), or copied, and its header deleted,
read and deleted again (`ReturnCopy`); C++ leaves that to the compiler.
`faults` bounds how many kinds of things go wrong in one behaviour.
`init()` is only modelled before `start()`.

### DevBase

A control thread calls `init()`, `start()` and `stop()` of any device; each device
has its worker. The base class's `_fd` and the derived class's `_serial_fd` are
separate, as in the code. `start()` takes the branch of the failed open when the
open has worked (`StartOpened`), so a worker is only created after a failed open
(`StartUnopened`), and gets a descriptor from a later `start()`. `_run` has no
initial value and is only ever cleared. `ClassSteps` is what a derived
class marks done by itself: no class of this repository marks any step but the first, so with
a known mode it never gets past `check_init()`; `d2` in the runs is a derived class
that marks steps 2 to 8, for which `_initflag` and `SetBit()` are protected, not private.
With a mode `init()` does not know, no step is required, and `start()` goes on for `NPDSerial` too.
Left out: control by several threads (the static map has no lock and is
not meant to be shared), names and types, reads and writes by the user.

### AESStore

A record is a key and a text; another key, or none, decrypts it to `Garbage`.
`WriteToFile()` is: read and search (`WriteBegin`), open the output, which
truncates (`Truncate`), write back (`Restore`), then overwrite the content
(`Replace`) or append index and content (`AppendBoth`). The stream hands the two
appended records to the kernel together, on close. A short write ends at a
disk-block boundary, which 64-byte records divide evenly (`BlockRecords` is even).
The process may be killed between any two of these steps; the new one has no key.
`RecordStore` promises that a content is found under the key and index it was written
with, as last written; a failure may lose contents, but not change, swap or revive
them. Contents are compared with the index too (`AES.cpp:320`), and a text may be both: a search that ends at a content is
`Astray`. A read then answers the next record, and a write goes over the next index, or behind the end. `RecordStore` says
when that may happen: in a call for a text that is held as a content under the key in use (`Held`). After such a write
(`mixed`) nothing is promised. Bound of the model: texts fit a record.

### SPITransfer

`read()` and `write()` in half duplex, the mode the header sets, by any number of
threads. A call is `Call` (with the test of the descriptor before the lock),
`Lock`, and a loop: of a `read()`, the `ioctl()` that fills `RX_Buffer` (`ReadClock`)
and the `memcpy()` to the caller (`ReadCopy`); of a `write()`, filling `TX_Buffer`
(`WriteFillPart`, `WriteFillLast`) and the `ioctl()` that sends it. `Fail` is an
`ioctl()` that fails, `Close` a device stopped by somebody else at any point.
`lock_guard` gives the lock back on every way out (`Leave`). A byte is named by its
call and its place, so that one that is lost, repeated or another call's shows. The
length of a part is `CHUNK`, the values of the 8-bit offset `WIDTH`; 4096 and 256
in the code, of which only matters that one divides the other.

The model keeps what the code does: the address of a register is never
sent, the byte for it is taken from the total once or twice, and a `write()` with a register
of exactly `CHUNK` bytes, or a `read()` of none with one, ends in a `memcpy()` of a
negative length (`WriteCrash`, `ReadCrash`). `ReadsInside`, `WritesInside`, `OnePartWhole` and
`ReturnsMoved` say what is right nevertheless: no `read()` writes outside the caller's memory; a `write()` reads
nothing outside it but, with a register, one byte behind it (`NPDSPI.cpp:248`); and transfers of one part without a
register are whole. Of transfers with a register, or of more than one part, nothing is promised about the contents.

### OLED, SSD1306, OLEDDisplay

A drawing function is the sequence of `OLED_WR_Byte()` calls it makes (`ProgramOf`),
and `OLED_WR_Byte()` is the sequence of changes of clock and data line it makes; one
change is one step (`Pin`). The controller listens: a bit at every rising clock, a
start or stop when the data line moves under a high clock, an acknowledgement after
eight bits. A write is performed at the acknowledgement of its third byte. `Kill`
ends the process between any two changes, and the next one begins with
`OLED_Init()`. One thread draws: the functions have no lock, and two threads would mix their changes.

Three things are assumed of the board, not read in the code. `OLED_SCL` and `OLED_SDIN` are plain ints
(`NPDOLED.h:14-30`), which nothing outputs: they stand for the two lines of a display. They are not volatile,
so a compiler might drop or reorder stores: every store is taken for a change of its line, in the order of the
code. And the lines of a killed process are low when the next one begins.

`OLEDDisplay` promises that the writes of a call reach the screen once each, in
order and unchanged, and that a kill drops the rest (`IsDisplay`), with two exceptions. A
write of which only the acknowledgement was missing may still be performed: the
next process's first rising clock is that acknowledgement. And a process killed within the
first two changes of its lines leaves a further zero bit in the receiver, and its bus is not at rest (`AtRest`); when
that happens often enough, the bits of several processes make a byte, and a write arrives of
which only the first bits were sent (`Torn`). The proof of the refinement brought this to light: it
takes two kills at least, in the right places. `Drawn` states by place what
the screen shows after a call whose picture fits the screen and whose characters do not
overlap (`Fits`: the code leaves both to its callers); `Recovered` what `OLED_Init()` makes of whatever a kill has left.
The fonts are constants, characters places in them; a character below the space,
which the code would look for in front of the font, is not drawn. A string has at most 255
characters (`WellCalled`): its index is a `uint8_t` (`NPDOLED.cpp:123`), and a longer one never ends.

### Buffer, Protocol

`Buffer` has each operation of `NPDbuffer` three times over: the check it makes (a sum
modulo 2^32, `WORD`), whether the range really is inside, and the result as a splice of slices. In
`Protocol` a caller uses such a buffer, and `meant` is what it should hold, stated as
functions of places. An object is a block (`proto`, on `heap`) and a payload; `init()`, the
constructors, the copy the compiler writes, the destructor, `addPayload()`, `unpack()`, `clear()`
and `pack<T>()` are actions. Integers of a message are not cut into bits: a field of w
bytes is w cells that only together give the value back, so a field read one byte early is
`Garbled`. `odd` collects what callers have done that the code does not stand
(`OddThings`); each property names the things it excludes, and holds
under all the others. After an access outside an object `up` is false.

## 3. What is checked

| Run | Instance | Shows |
|---|---|---|
| `queue_one` | 3 threads, all push, one pops; 2 elements, 3 pushes | `IsFIFO`, `NoUnderflow`, every `pop()` returns |
| `queue_two` (violation) | 2 threads push and pop | `NoUnderflow` fails: "线程安全队列" does not hold of two poppers |
| `client_calls` | 2 threads that send payloads of 1 and 25 bytes (messages of 21 and 45) in frames of 21, one of which also closes; one retry, a call each, descriptors -1, 0 and 3 | balance of the tasks, no underflow, drain before close, frames and retries; `send()` and `disconnect()` return, unless the kernel keeps a call |
| `client_last_frame` (violation) | a message of 27 in frames of 20 | after the loop the last frame need not be sent |
| `devices_life` | 2 devices, 2 descriptors, 6 calls | reads on open descriptors only, no device closes another's, registry, `stop()` returns |
| `server_alone` | one connection, bodies of 0 to 2 bytes, 5 writes | the bodies are unpacked whole, in order, all but for the wait behind an empty one |
| `server_faults` | 2 connections, any one kind of fault | while one connection is served, no access outside but `unpack()`'s reads and a returned copy's header; no leak, no second `delete[]` of a block |
| `server_two` (violation) | 2 correct clients | a thread takes another connection's header |
| `aes_store` | 2 keys, 2 indices, 2 contents, one of them an index, 4 writes, 2 failures | pairs stay whole, until a write has taken a content for its index; the file implements `RecordStore` |
| `spi` | 2 threads, a call each, lengths 0 to 9 around parts of 4, offset of one bit | no `read()` writes outside its memory, no `write()` reads outside it but for the byte of a register, transfers of one part without a register are whole, answers count what went over the bus, calls return |
| `oled` | 11 drawings, one of them off the edge, 3 in a row, up to two kills; 24 columns, 3 pages | the lines carry the writes to the screen (`IsDisplay`), the screen shows what was drawn, `OLED_Init()` recovers |
| `protocol` | 2 objects, 3 blocks, 5 calls, words of 8 values | bytes, blocks, lengths and fields of messages are right as long as nothing odd was done |

Bounds. Every cap is a constant named `Max…` that guards a call or an environment
action, never an internal step, except two that bound history. In the queue, three threads suffice for
one to act between two steps of another while a third waits for the lock; in the client, a message of 45 in
frames of 21 has a first frame, a full one and a remainder, and one of 21 is sent whole; a remainder of 0, and longer messages, are left to
the theorem on `OffersEachOnce`; one retry distinguishes "retry" from "give up" (the code has 3; the
theorems hold for any number). Bodies of 0, 1 and 2 bytes give an empty, a whole and a
cut body; 5 writes are two bodies and a header that asks for nothing. Six device calls open, start, stop and restart
one device while another uses its number. Four writes and two failures crash a
store that holds two pairs, and use what the crash has left; a content that is an index is searched for behind its
own pair, in front of it and at the end of the file. SPI lengths of 0, 1, 3, 4, 5 and 9
lie below, at and above one part and above two, with and without a register, and an offset
of two values wraps within a part, as 256 does within 4096. A display of 24 columns and
3 pages has a line break, an edge and a page below; every picture but one fits it (`DrawingsFit`), and that one leaves
a command without its argument to the next call; the kill may fall into `Init`, `on` and `BMP`,
which have commands of one and of two bytes, and data. Two kills are the
least that make a torn write: one in the last bits of a byte, and one before the next process has its bus at rest. Five protocol calls construct two
objects, fill, unpack and clear or destroy; ranges with a sum of 8 and 9 wrap in words of 8
values, and payloads of 4 wrap a length of 4.

`CHECK_DEADLOCK FALSE` is set where the system may rest: all calls made, all
clients silent, all pictures drawn.

Fairness. Weak fairness of the steps of each thread inside a call: the operating
system schedules runnable threads, and a thread that asks for a free mutex gets it
in the end. For SPI the same (`FairSpec`: each thread's `Step`). The models of the display, the protocol and the
store claim no liveness and have none. No fairness for calls, for clients, for data from a device (`ReadData`), for
failures. `StopReturns` therefore excepts a worker that waits for its device for ever, `SendReturns` a call whose
`::send` never answers, which `Stall` may decide at any time, and `DisconnectReturns` such a call of any
thread, or a task left behind by an exception or by `recv()`; for the rest, `::send` answers. `UnpacksAllAlone` excepts the wait
behind an empty body.
Weak fairness of the mutex is stronger than what POSIX promises, but each run has
finitely many calls, so no thread can be overtaken for ever.

## 4. What is proved

`TCPClient_proofs`, for any set of threads, sizes, frame lengths and retries, from the
named assumptions of `MessageQueue` and `TCPClient` (finite set of threads,
positive sizes, `_maxLength` other than 0, tasks of 8 bits):

- `ShapeCorrect`: the inductive invariant `Shape`. `TypeOK` alone is not inductive:
  the drop in `PopDrop` needs the holder of the mutex (`LockInv`), a store needs an
  argument (`TaskInv`), and the division in `SendStart` needs that a call in progress
  found the object initialised (`ReadyInv`), which `PlaceInv` ties to its place.
  `TypeCorrect` follows.
- `TasksBalanceCorrect`: the length of the queue is the number of calls between
  their push and their pop, plus what was left behind. Each step is one of three: it
  stores a task and enters `InFlight`, it removes one and leaves, or it changes
  neither side (`Calm`).
- `NoUnderflowCorrect`: a call at `front()` is itself counted, so the queue is not
  empty. This is why the unlocked `empty()` does no harm in the client, although two
  calls pop at once.
- `ClosesAfterDrainCorrect`: by `TasksBalance` an empty queue means that no call is in
  flight (`EmptyMeansIdle`); whatever is in flight later was stored behind `seen`.
- `RetryBudgetCorrect`: failures plus remaining retries are constant over all frames.
- `OffersEachOnceCorrect`: by `LoopInv`, which relates `ncount`, `offset`,
  `sendLength` and what was offered; the remainder is below a frame by the lemma `Remainder`.

`QInv` and its lemmas, what the queue's own steps preserve, stand in `TCPClient_proofs` and in `QueueUse_proofs`.

`QueueUse_proofs`, for any pushers; `QTypeCorrect` also for any poppers, the others for one
popper (`SinglePopper`), without which `queue_two` refutes them:

- `NoUnderflowCorrect`. The invariant `IInv` says what the unlocked loads know (`Knows`): only the popper
  moves `start`, and the end only grows, so an end seen beyond `start` stays there.
- `IsFIFOCorrect`: each step of the queue is a step of `FIFOQueue` or none. The abstract items are the
  rest of `store` behind `start`; a call's phase is computed from its place. The
  refusal takes effect at the load that saw both cursors equal.

`DevBase_proofs`, for any devices, descriptors and derived classes: `TypeCorrect`,
`ReadsOpenDescriptorCorrect`, `OwnDescriptorCorrect`, `ListedStartedCorrect`. Only the device that
opened a descriptor ever closes it, at the end of `stop()`. What `start()`
forgets nobody can close any more, and therefore nobody can open under that number again: this is why
a forgotten descriptor leaks, and does no other harm.

`AESStore_proofs`, for any keys and texts, common to indices and contents or not, and
disk blocks of an even number of records:

- `PairedCorrect`: the invariant says that, until `mixed`, indices and contents alternate and end with a
  content (`Whole`), an index has one place under a key (`Single`), in the file and in what `WriteToFile()` has saved of it, and that
  the search of the write in progress has not gone astray (`Apart`); prefixes that end at a disk
  block keep the first two (`BlocksAreEven`).
- `IsStoreCorrect`: the file implements `RecordStore`. `AstrayHeld`: a search that ends at a content is for a text that the
  abstract store holds as well, for which `Single` is needed. The lemmas `KeptIn...` say which records
  survive a prefix, a replacement and an addition; there is one `...Maps` lemma for each action.

`TCPServer_proofs`, for any connections, blocks and bodies of up to 255 bytes (the size is one byte of
the header): `TypeCorrect`, and `MemorySafeAloneCorrect`, whose invariant says that while one connection is
served there is one block, of the size its thread is going to receive, exactly between `new` and
`delete[]` (`OneBlock`), and that nothing but the tail of `unpack()` and a returned header has been accessed outside (`Expected`). `UnpacksOwnAloneCorrect` needs the stream parsed: `Splits` says that the bytes not yet
received fall into parts, each a header or the body owed, that lead a reader from the bodies read so far to the last one
sent; a write adds a part at the end (`WriteReads`), a `recv()` without a fault takes exactly the first
(`ReadsFirst`, `TakesAll`), and `Understood` says what a thread has read at each of its places.

`SPITransfer_proofs`, for any threads, lengths and registers, and parts of which the width of the
offset is a divisor: `ShapeCorrect`, the invariant, relates total, offset and bytes moved at each place of a call;
`TypeCorrect`, `ReadsInsideCorrect` and `ReturnsMovedCorrect` follow. For `WritesInsideCorrect` the invariant `SourceInv` adds that
who is in the loop holds the lock, so that the buffer is filled by no other call, and from which places. For `OnePartWholeCorrect` the invariant `PartInv` adds
the lock (`Holds`), and what buffers, memory and bus contain at each place of a
transfer of one part; `OthersKept` is the argument of exclusion. Without a register the offset is back at 0
after every full part; with one, a part has gone by before the offset counts.

`Protocol_proofs`, for any objects, blocks, messages, word size and bounds below it, shows every property of
the run `protocol`: `BufferAsMeantCorrect` (a splice is the function of places its operation
promises), `TypeCorrect`, `MemorySafeCorrect`, `LengthAgreesCorrect` and `UnpackedCorrect`. `WireIs` says where each field of a message
lies and `HeaderIs` what is read there; `IInv` adds to the properties that different objects have
different blocks, and how many blocks are in use; `ModSum` is why lengths that wrap still agree.

`OLED_proofs`, for any fonts, calls, screen sizes up to 128 by 8, and any number of kills, from the
assumptions of `OLED` and `SSD1306` (arguments of their C++ types, characters that have a picture,
numbers of at most ten digits, strings of at most 255 characters, pictures of the size the call names), and the
assumptions on the lines in section 2:

- `Inductive`: the invariant `IInv`. `LinesAt` gives both lines and the receiver as a function of the step, 0
  to 87, in a write; `Leftover` says that what a kill leaves of a byte are its first bits;
  `Met` says that a receiver which is not silent at the beginning of a write is met by the first write
  of `OLED_Init()` only. `FrameAt` unfolds the 88 changes of `Write_IIC()` once; `FrameNext` shows that each leads
  from `LinesAt` to `LinesAt`, and `LeftoverAt` what is left when it is the last one.
- `TypeCorrect`. For it every drawing function must make bytes, whatever the arguments (`ProgramTyped`): the recursion of
  `OLED_ShowString()` has its solution (`PlacesExist`), and `OLED_Pow()` is not 0 where a digit is divided by it (`PowIs`).
- `Implements`: a change of a line is a write of `OLEDDisplay` exactly at the acknowledgement of a third
  byte (`FrameTakes`, `PinDisplay`), and is a stutter or the coming to rest elsewhere; `KillDisplay` says what a kill
  leaves of the queue, in each third of a write.
- `Recovers`: the controller follows the 27 settings by place (`SetUp`). The first one either is
  the argument of an unfinished command or does nothing, so the second one is a command in any case.
- `Pictured`, in two halves. `CallShows`: the writes of every call that fits are, behind the settings of
  `OLED_Init()`, the rows of boxes of one size that do not overlap, each row the three commands of a position and
  then its bytes (`Segment`, `Rect`, `Figure`, `Draws`). That is where `Zeros` shows that the digits
  `OLED_ShowNum()` leaves out are the leading zeros, and `TextPlaces` and `TextApart` that the line breaks of
  `OLED_ShowString()` neither overlap nor wrap around. And `DrawInv`: while a
  call is under way, its box, row and write follow from the number of writes made (`At`); the memory
  holds the cells they cover over what was there (`Painted`), and page and column are those of the next byte (`Cursor`).
  It needs that no write is taken for the argument of the one before: no call leaves a command half given
  (`ProgramClosed`, `Held`), and `RecInv` says so of `OLED_Init()` after a kill.

Model-checked only: every liveness property (`PopReturns`, `SendReturns`, `DisconnectReturns`,
`StopReturns`, `UnpacksAllAlone`, `CallsReturn`), which is out of the prover's reach.

## 5. Where the code and its comments disagree

1. `LibNPDBase/NPDMessageQueue.hpp:4` calls the queue thread-safe; two poppers
   underflow it (`:45`).
2. `LibNPDNet/NPDTCP.cpp:229` says that the last frame has been sent; a short
   `::send` counts as a whole one (`:233`).
3. `LibNPDNet/NPDTCP.cpp:143` and `:154` describe a header and then its data; with two
   clients the header may be another connection's (`:144`).

These three are shown by runs (`queue_two`, `client_last_frame`, `server_two`). The following were met
while modelling; the models contain them where they model the code, no run is spent on them.

- `NPDDevBase.cpp:62` handles a failed open, in the branch taken when `nfopen()` succeeds (`:60`).
- `NPDProtocol.h:158-160` calls `size()` the length of the whole message ("总报文长度"); `NPDTCPClient::send()` hands that many
  bytes from `const_data()` on to `::send` (`NPDTCP.cpp:233`, `:275`), where the payload alone lies
  (`NPDProtoacol.cpp:97-100`): the header is never sent, 20 bytes behind the payload are.
- `AES.cpp:270` says the result tells success; failures to open or write return true (`:366`).
- SPI: `NPDSPI.cpp:166` announces the copy of a register's address and `NPDSPI.h:90` speaks of transfers by
  register address, but the first byte sent is the caller's first byte (`:199`, `:242`), and the data after it
  starts at the second. A `read()` with a register hands over one byte less than asked for (`:135`). Parts beyond
  the first repeat or overwrite the beginning (`:29`, `:157`). A `write()` with a register also reads the byte behind the
  caller's memory (`:248`). A `write()` of `SPI_MAX_TRANS_LENGTN` bytes with
  a register ends with a total of -1 (`:201`, `:230`).
- Display: `NPDOLED.h:64` gives y as 0 to 63; it is a page, and 16 and more are other commands (`NPDOLED.cpp:304`).
- Protocol: the table in `NPDProtocol.h:26-49` lacks the fields `run`, `cmd` and `reserve` of the struct. The
  constructors with a payload always throw, unless it is empty, and leak the header
  (`NPDProtoacol.cpp:22-51`). There is no copy constructor, and a copy deletes `_proto` again. `unpack()` given the
  whole length of a message, or of the block it is in, as the server does (`NPDTCP.cpp:158`), reads 20 bytes beyond it;
  what the server returns may be such a copy (`:161`). `pack<T>()` copies
  from the result into the object, and beyond it.
- Database: `open()` and `exec()` replace the error they created by a successful one
  (`NPDDataBase.cpp:25`, `:56`), although `NPDDataBase.h:39` and `:51` promise to tell; the first `exec()` looks at
  memory of `malloc()` (`:41`); the text of an error is not freed (`:53`); `close()` keeps the closed handle (`:32`).

## 6. Done, not modelled, and left

Done: the queue and its refinement, client, server, devices, encrypted store, SPI, display,
buffer and protocol, with the proofs of section 4.

Not modelled, and why:

- `NPDIIC`: as it is built no transfer is defined. `start()` reaches `dev_init_setting()`, which allocates
  the messages, after a failed open only, and `buff` is never set; the first `memcpy()` of a transfer goes to
  no memory, before the two locks around one structure could matter.
- `NPDDataBase`: each operation is one call of SQLite, without loop, retry or lock; a model would restate
  lines. `Error` and `NPDLOG` keep nothing another step depends on.
- Of `NPDDevBase` and its classes: `write()`, reads and writes by users, terminal settings, tables of names and types.
- `NPDCommon` (shell commands, time, a CRC table), the cipher and base64, fonts and pictures: data, or algorithms
  without state.
- `NPDRPC` is not built, `NPDFileDeal` is empty, `NanoPi` a demonstration, `NPDThirdparty` vendored. By far
  most lines of the repository are these last ones.

Left: the composition of `TCPClient` and `TCPServer` with `Protocol`: the fields of a message that is
received, and the copies of the object that `send()` takes by value and the server returns.
