# Verification of the Amptek hardware interface

TLA+ specifications of the C++ library that drives Amptek PX5/DP5 detectors:
what the connection handlers, the caches and the commands do when answers are
late, lost, broken or refused, model-checked with TLC on small instances; the safety
properties are also proved with TLAPS for every value of the constants. Source
locations are relative to the repository's root, which the project file calls `src/`.

## The system

| component | source | state | operations |
|---|---|---|---|
| connection handler interface | `include/AmptekConnectionHandler.h` | none | `sendAndReceive`, `ClearCommunicationBuffer` |
| UDP handler | `src/AmptekUdpConnectionHandler.cpp` | socket, peer address, receive timeout, semaphore `mu` | constructor, `sendAndReceive`, `ClearCommunicationBuffer` |
| USB handler | `src/AmptekUsbConnectionHandler.cpp` | `usb_handle`, `input_buffer`, `comm_mutex` | constructor (search by serial number), `sendAndReceive`, destructor |
| simulator | `src/AmptekSimulatorConnectionHandler.cpp` | flags, counters, `spectrum` with its length, text configuration, a counting thread | `sendAndReceive`, the thread's loop |
| hardware interface | `src/AmptekHardwareInterface.cpp` | `connection_handler`, `current_state`, `last_status`, `last_spectrum` | connect, commands, cached reads, buffered reads |
| text configuration | same, 249-338 | none | `SetTextConfiguration`, `GetTextConfiguration` |
| list mode | same, 461-518 | `listmode_flag`, worker thread, `streamfile` | `EnableListMode`, `DisableListMode`, the worker's loop |
| packets | `src/packet.cpp`, `src/types.cpp` | a byte vector and `dataLength` | framing, checksum, request generation |
| status, spectrum | `src/AmptekStatus.cpp`, `include/AmptekSpectrum.h` | raw bytes, timestamp | field extraction, age |
| Tango server | `python/amptek_hardware_interface/AmptekPX5` | cached status, acquisition state | attributes and commands |

How they interact: every operation of the hardware interface is one (the text
configuration: several) `sendAndReceive` on the handler. The list-mode worker
calls the same handler from a thread of its own, so the handler is what two
threads share and what must serialise them. The detector answers each request
with one reply; the protocol has **no request identifier**, so request and
answer are matched by order alone. The Tango server is a client of the
interface.

Where it is hard:

- An exchange that timed out leaves its answer behind; from then on every
  answer may belong to an earlier request (UDP and USB).
- Replies longer than 520 bytes arrive as several datagrams that carry neither
  number nor owner, and are glued together in the order of arrival.
- `mu` must be posted on each of six ways out of `sendAndReceive`.
- Data is cached by the time it *arrived*, while the detector refuses or delays.
- The USB handler's endpoint keeps what nobody read, also for the next program,
  and its `input_buffer` keeps the tail of the answer before.
- The list-mode worker, `DisableListMode` and the destructor share a flag, a file
  and the handler.
- Two threads use one connection, and in the simulator a thread shares plain
  variables with its callers.

What makes each component correct: calls are serialised and return (handlers);
an answer belongs to the caller's own request whenever the code can know it, is
never replayed and never goes back in time (handlers); reads are as fresh as
asked for, the status is never older than the spectrum it came with, `true` means
carried out (interface); every command reaches the detector once, in order, in requests
that fit (text configuration); no record is lost, repeated or written after the
file is closed (list mode); the right device is kept, none that fits is passed over, and the others are
released (USB); what is read from the bytes is what the detector held (packets, status);
the reported acquisition follows the commands (simulator).

## Modules

| module | models |
|---|---|
| `ConnectionHandler` | the promise of the handler interface: serialised turns; each answer of the detector is returned at most once and never after a newer one. The interface cannot promise the *own* answer |
| `UdpConnectionHandler` | the UDP handler at the grain of its system calls, the network and the device |
| `UdpConnectionHandler_proofs` | theorems about it |
| `UsbConnectionHandler` | the USB handler: the constructor's search for a device, exchanges over an endpoint that forgets nothing, the destructor |
| `UsbConnectionHandler_proofs` | theorems about it |
| `AmptekHardwareInterface` | commands, caches, `GetState` over `ConnectionHandler`, and the detector with its clock |
| `AmptekHardwareInterface_proofs` | theorems about it |
| `ListMode` | `EnableListMode`, `DisableListMode`, the worker and the destructor over `ConnectionHandler`, and the detector's FIFO |
| `ListMode_proofs` | theorems about it |
| `AmptekSimulatorConnectionHandler` | the simulator's counting thread against its callers' requests, at the grain of loads and stores |
| `AmptekSimulatorConnectionHandler_proofs` | theorems about it |
| `TextConfiguration` | packing lists of commands into requests, and what a failing request leaves |
| `TextConfiguration_proofs` | theorems about it |
| `Packet` | framing, checksum, requests and `fromByteArray`, byte by byte |
| `AmptekStatus` | the getters of `AmptekStatus` and `AmptekSpectrum` over raw bytes |
| `StatusReport` | a number's way from a detector through packet and buffer to a getter, and a request's way back |
| `StatusReport_proofs` | theorems about these three |
| `Counting` | lemmas on sums over finite sets, for the proofs about counts and checksums |
| `MC*` | instances for TLC |

`UdpConnectionHandler` and `UsbConnectionHandler` implement `ConnectionHandler`;
`AmptekHardwareInterface` and `ListMode` are composed with it, so what they show
holds over either. `StatusReport` uses `Packet` and `AmptekStatus`. The other two
stand alone, the simulator because it takes no lock and answers at once, the text
configuration because it adds only a sequence of exchanges.

### UdpConnectionHandler

State and code: `peer` and `rcvtimeo` are what the constructor leaves in
`server` and in `SO_RCVTIMEO`; `mu` is the semaphore; `pc[t]` is where thread
`t` is in its call (`wait`/`drainwait` at `sem_wait`, `send` before `sendto`,
`recv` at the first `recvfrom`, `gather` in the `while (offset < packet_size)`
loop, `drain` in `ClearCommunicationBuffer`); `packet[t]` is `packet_buffer`.
`outbound`, `reply` and `inbound` are the requests on the wire, the reply the
device is sending, and the datagrams on the way back or in the socket buffer.

Each acquisition of `mu` is a *turn*; requests and datagrams are tagged with
their turn so that properties can say whose answer is returned. The code does
not see the tag: the guards of its actions read only a datagram's place in its
reply (what the LEN field and the byte count tell it), except that a
reassembled packet whose pieces belong together passes the checksum while a
mixture may fail or pass, the checksum being a 16-bit sum. A stray tail fragment
read as a header yields an arbitrary LEN, hence three outcomes, one of which
overruns `packet_buffer` (`crashed`).

The network loses requests and datagrams; it does not reorder or duplicate
(detector and host share a link, and the code treats neither case). A receive
may time out at any moment while a datagram is still on its way. `sem_wait` is
assumed to return with the semaphore: the code does not look at its result, so a
thread that a signal handler interrupts (`EINTR`) would go on without it and post
it all the same. The library installs no handler; a program around it may.

### UsbConnectionHandler

`stage`, `probe` and `step` are where the constructor is in its loop over the
devices: a device is opened, claimed, asked for its status, and kept or closed;
any of these calls may fail, and a device whose interface cannot be released
stays claimed (`hist.stuck`). The device wanted is found by comparing the bytes
at the serial number's place in `input_buffer`, whatever is there; `scratch` is
that place, which `new byte[]` leaves undefined and a read that fails may have
overwritten in part (`Garbled`). So the device that is kept need not be the one
asked for: `UsbWrongDevice` shows it. What does hold of the search is
`NoFitPassedOver`: the constructor goes on behind a device that fails, and misses
no detector that fits but one it got no serial number of (`hist.failed`). `pipe[d]` is the endpoint pair
of device `d`: requests that the detector turns into responses, which wait there
for whoever reads next; `Leftovers` is what another program left behind. A read
that fails leaves the response, its tail, or the empty packet that ends a
transfer of full packets. `fromByteArray` does not look at `bytes_transferred`,
so after an empty packet it returns the response that is still in the buffer,
which is the next one in turn all the same; a tail taken for a header can have
any LEN (`crashed`). A transfer that is short in any other way is not modelled
byte by byte: what it and the response before it spell is junk.

### AmptekHardwareInterface

The handler is the one `ConnectionHandler` promises, so the results do not
depend on UDP: `Receive(r)` hands the caller the answer to turn `r`,
which may be an earlier turn's; `ReceiveJunk` a packet that was never sent;
`Throw` none. `Decode` is what each operation makes of it: commands go through
`expectAcknowledge`, and those in `MarkingCommands` set `current_state` to
`ERROR`, which nothing ever clears; `updateStatus` and `GetBufferedSpectrum`
throw at a foreign packet, `GetSpectrum` ignores it. `updateSpectrum` takes a
packet with its status (`spectrum`), without it (`bare`: the spectrum is stored and
the status left as it is) or with a PID2 it does not know (`unknown`: it throws),
also when the packet was put together from several datagrams. A cache holds `at`
(the code's timestamp: arrival) and, as history, `taken` (when the detector took the
data) and `own`; `paired` says whether the cached spectrum came with a status.

The detector serves requests in their order, possibly after the caller gave up; it
refuses spectrum requests in buffering mode, as `AmptekHardwareInterface.cpp:551`
says, and may refuse any command. `Enable` and `Disable` take effect at once or, as
in the simulator, after their acknowledge (`device.todo`), then in either order; once
a preset was set the acquisition may end by itself at any moment (`DeviceMoves`).
`adrift` is set while the latest switch did not get its own answer: then, and while
a switch is still to take effect or overtook another, nothing is said of the
acquisition.

Calls made before `connect*` dereference a null pointer and are not modelled:
`Begin` requires `connected`. `preset` stands for the `SetPreset*` calls, text
configurations of one command. Time is in milliseconds and never goes back,
although `system_clock` may be set.

### ListMode

`op` is where the caller is in `EnableListMode` (`reset`, `start`),
`DisableListMode` (`join`) or another operation, `at[w]` where a worker is in its
loop. `list_reader_thread` is the pointer, `Workers` the threads it may point to:
a second `EnableListMode` starts a second worker and loses the first. An event is
a number; the detector hands out the first `FifoSize` since its FIFO was emptied
and drops the others, with `full` set. `exchange` are requests and replies by
turn, of which `ConnectionHandler` hands a thread a late one or junk; what a
worker accepts is recorded in `hist.accepted` as well as written. A stream that
is opened while it is open, or cannot be opened, gets its error bit and writes
nothing. `listmode_flag` is not initialised, nor does anything depend on that.

### AmptekSimulatorConnectionHandler

`worker.at` is the statement the thread has reached in its loop, `call.at` that
of the caller in `clear()`, in the answer with spectrum and status, or in the
destructor. `x += 1` and `x++` are a load and a store, loops over the spectrum go
a channel at a time (in any order, for the channels are alike), and the other
thread may run between any two steps. The variables are plain; the model takes
each access to be whole and in the order of the source, which the language does
not promise. `elapsed` is `now - start_time` in periods of the thread's sleep.
A clear that meets the thread between load and store is marked in
`hist.disturbed`: the store brings that channel's old counts back. MCAC is three
steps, `speclen`, `delete[]` and `new`, of which the thread may see any; once it
has indexed memory that is not the spectrum's, nothing more is said
(`Undefined`). New memory holds anything, 0 or 1 here, and is cleared.

The length that MCAC gives is any integer, for nobody checks it. `new[]` always
fails for a negative one, and may for any other: `catch (...)` swallows the exception,
and `spectrum` still points to what was deleted (`freed`), to be counted into, cleared,
read or deleted again. With no channel `rand() % 0` divides by zero; with more than
`AnswerSpeclen` (21823: a LEN of 16 bits, 3 bytes a channel and a status) the
answer is too short for its spectrum.

### TextConfiguration

A command is its length; `cmdstream` always holds an interval of the argument,
`first..i`, of `bytes` bytes, and a request is that interval. `streamsize` is the
code's own count, which is not `bytes` once the stream has been cleared. A
request that fails may have been carried out. Commands fit in a packet by
assumption: a longer one would be preceded by an empty request and then sent as
it is. A readback never clears `cmdstream`, so each request asks again for what the
ones before it asked. The answer, between `ShortestAnswer` and `LongestAnswer` bytes
for each command, is copied into `configbuffer` of `BufferSize` bytes with a zero
behind it; if it does not fit, nothing more is said of the program (`undefined`).

### Packet, AmptekStatus, StatusReport

The first two are operators: bytes to packets, packets to numbers. `StatusReport`
is their use. A detector (the simulator's `createStatusData` and
`createSpectrumData`) answers; the answer comes as it is (`direct`), or over USB
through `input_buffer`, whole or with one byte changed, over whatever response,
of whatever length, was there before (`ArriveOther`). Counts are 32 bits, given as
two words, since half of them are beyond TLC's integers; `ToInt` is what becomes of
one in a getter that returns `int`. `response` is what `sendAndReceive` returns. A
request is its name and its words; `COMMTEST_STREAM` carries a period computed
from the FPGA clock and truncated to 16 bits. `Sum16` adds the bytes by halves where the
code adds them one after the other: recursion over the parts of a sequence is as
deep as the logarithm of its length, and additions modulo 2^16 may be done in any
order.

## Runs

| run | shows | bounds |
|---|---|---|
| `UdpHandler` | types; the semaphore survives every path; a call that started while nothing was on its way never gets another call's answer; while no call went unanswered everybody gets his own; the handler implements `ConnectionHandler`; a call that has the semaphore returns, and the calls that wait get their turn | two threads, 3 calls, replies of up to 3 datagrams |
| `UdpZeroTimeout` (violation) | a timeout of 0, or below 1 us, blocks a call for ever | 2 calls |
| `UsbHandler` | types; whichever device fails at whichever call, none that fits is passed over but those that gave no serial number, and no other than the one kept stays open, but those that could not be released; while nothing was left in the endpoint everybody gets his own answer; the handler implements `ConnectionHandler`; calls return | two devices, the second wanted or any, 2 constructions, two threads, 2 calls |
| `UsbWrongDevice` (violation) | a short response left in the endpoint of another detector makes it pass for the one asked for | two devices, the first wanted, 2 constructions |
| `HwInterface` | types; the status is never older than the spectrum it came with; data read in step is as fresh as asked for, up to the length of an exchange; if the last switch got its own answer, the acquisition is as the last successful one left it or as a preset ended it, whatever became of the other calls | 3 exchanges, 2 ms; behaviours that switch the acquisition read only the status (`MCApart`) |
| `HwLateAnswer` (violation) | a late ACK makes the next command return `true` | 3 exchanges |
| `HwBusySpectrum` (violation) | in buffering mode `GetSpectrum` returns any old spectrum | 3 exchanges, 2 ms |
| `ListMode` | types; once list mode is disabled no worker runs, nor touches the destroyed object; the closed file holds all that was accepted; no event is written twice or out of order, even when answers are late; missing events follow a packet marked FULL, if no exchange went wrong; `DisableListMode` returns | two workers, 3 exchanges, 4 events, FIFO of 2, enabled twice |
| `Simulator` | a snapshot's status accounts for its spectrum but for the event being recorded; a clear empties every channel it does not race for; memory is misused in three ways only: MCAC was set while the thread counted or had to take up an enable, its `new[]` failed, or the length has no channel or is too long for an answer; a command prevails if it came when the thread had taken up all before it; a preset ends an acquisition; the destructor returns | 2 channels, as many as an answer holds, MCAC to -1, 0, 1 or 3, 2 events, 3 requests, preset after 1 of 2 periods |
| `TextPacking` | commands are carried out once and in order, all of them if the call returns `true`; requests fit; a readback of one request that does not overrun its buffer has each answer once and in order, a longer one has them last | packets of 8 bytes, up to 5 commands of 0, 3 or 7 bytes, 2 commands to a readback, answers of 1 or 2 bytes a command into a buffer of 6 |
| `TextAnswers` (violation) | a readback asks for more than `max_commands_per_request` at once | 3 commands |
| `StatusReports` | the accumulation time, the enabled flag and every channel are read as the detector held them, the counts as an `int` takes them, the real time as a hundredth of it and the preset flag as the simulator sets it (both unlike their comments); a spectrum without a length code is refused; each status bit belongs to one reading at most; a changed byte (not of LEN) is noticed, whatever was in the buffer; every request is valid, fits, and reads back; a commtest runs at the rate asked for while its period has 16 bits | 8 detectors, 7 lengths, every byte and bit of a status, 3 other responses in the buffer, 11 rates |

Why the bounds are enough: two threads are what the program has (the caller and
the list-mode worker). An answer can be late for the next call, which then leaves
its own to a third. Three datagrams make a head, a middle and a tail, hence every way of the gather loop. Three exchanges let one
command prepare the detector, one go wrong and one suffer from it. In the
simulator three requests are two commands and the one that observes them, two
channels are the one being counted in and another, and two events are one before
a clear and one during it. Five commands of lengths that fill a packet of 8
exactly (3 and 3, 7), or not (0 and 3), make up to five requests, the last one
full or not.

For the hardware interface, commands and reads share nothing but the connection and
the clock, so `MCApart` takes the switches and presets with the status, which is
enough for late answers, and the spectra by themselves; the proofs need no such bound.
For USB, one device is passed over or fails before the wanted one, a second
construction meets what the first left, and two calls are one that leaves a
response and one that finds it. In list mode three exchanges are a
timer reset that is answered late, the record that takes its place, and one more;
two starts are a restart or a double start; four events overflow the FIFO of two
and go on. The detectors of `StatusReports` lie on both sides of each byte's
limit (255, 256, 65535, ...), of the sign of an `int` (2^31 - 1, 2^31, 2^32 - 1) and of
a tenth of a second, the rates on both sides of a period of 8 and of 2^16 for both
clocks; the other responses are shorter than a status, or longer. In the simulator one
length of MCAC is negative, one is no channel, one fits and one is beyond an answer. After
an MCAC that spoils the memory two requests are followed instead of three (`MCUsable`):
what misuses it is the thread or the next request. An
answer of 1 or 2 bytes a command overruns a buffer of 6 from three commands on, and
always from six on.

The five violations are disagreements between code and documents; each is a
finding in `PROJECT.json` with the line it contradicts. Others show in the model
without a run; the properties leave them out or state what the code does:

- A host given by name is addressed as 255.255.255.255.
- `streamsize` is never reset, so that after the first full request every command
  has a request of its own (line 264 speaks of a packet size that "would be
  exceeded").
- A readback of more than 33 commands returns the answers of its first requests again
  behind each other; lines 299-300 promise the strings of the commands asked for.
  `AnswersComplete` says which part of the vector these are.
- `CloseUsbDevice` leaves a device open that cannot be released (`hist.stuck`).
- `EnableListMode` while a worker runs starts a second one and loses the first; a
  destructor without a `DisableListMode` deletes the handler under the worker.
- `Enable` behind a `Disable` within 2 ms is acknowledged by the simulator and undone:
  the thread takes up the enable first. `QuietCommandPrevails` is about commands that
  find the flags taken up.
- A clear of the simulator that meets its thread between load and store is undone for
  one channel (`hist.disturbed`).
- MCAC while the thread counts, with a length below 1 or above 21823, or without
  memory: see `MemorySafe`.
- The simulator's real time is sent in tenths of a second where
  `AmptekStatus.cpp:90-94` reads and documents milliseconds, and its "preset reached"
  (`AmptekStatus.cpp:197-201`) is set below the preset and not above it.
  `FastCount` and the other counts return `int`, so they are negative from 2^31 on.
  `ReadsBack` states all of it.
- A commtest at a rate whose period has more than 16 bits (below 306 per second at
  20 MHz, 1221 at 80 MHz) runs at another, though line 680 of
  `AmptekHardwareInterface.cpp` gives the rate in evt/sec without a limit. `RateKept` leaves these out.

### Fairness

`FairSpec` assumes weak fairness of every thread that holds the semaphore
(`Proceed(t)`: the operating system runs it, and a receive with a timeout
returns) and of handing the semaphore on (`GetTurn`: `sem_post` wakes a waiter).
Which waiter is left open, so a single call may starve; `TurnsGoOn` claims only
that some call gets on. Nothing is assumed of the network and the device.

The simulator's `FairSpec` assumes weak fairness of its two threads (`Work`,
`Proceed`: the operating system runs them) and of the clock (`Tick`), until memory
was misused. Callers need not ask anything.

The USB handler's is that of the UDP handler: `Construct` and `Proceed(t)` go on,
because libusb ends each transfer within its timeout of 1000 ms, and somebody
gets the mutex (`Lock`). The detector need not serve anything.

In `ListMode` the worker runs (`Work`), exchanges begin when it is their turn
(`Send`: while `DisableListMode` waits, the caller makes no calls and no worker
begins another) and the caller's operation goes on once begun. The detector
need not answer: an exchange may end in an exception.

## Proofs

For any set of threads, any number of calls and any length of replies,
`UdpConnectionHandler_proofs` proves the five safety properties of `UdpHandler`:
`TypeCorrect`, `SemaphoreCorrect`, `UdpImplementsHandler` (a refinement),
`QuietStartCorrect` and `InStepCorrect`.

The inductive invariant is `IInv`: the types, `SemaphoreConserved` (without it
`sem_post` could leave {0, 1}), `Order` and `NoAnswerYet`. `Order` is the reason
the refinement holds: along outbound, the reply being sent, inbound and the
packet being gathered, turns never decrease, fragments follow each other in
their reply, and all of it is newer than the last answer returned. So whatever
is completed next is newer than `last`, which is `Deliver`'s guard.
`QuietInv` adds that a call that started quietly finds only its own turn in
transit, and `StepInv` that while nothing went wrong every exchange starts
quietly and leaves nothing behind. The assumptions are those of the module:
timeouts are integers, hosts are of the three kinds, bounds are naturals.

For any packet size, any number of commands and any lengths that fit,
`TextConfiguration_proofs` proves the four properties of `TextPacking`:
`TypeCorrect`, `RequestsAlwaysFit`, `CarriedOutInOrder` and `AllAnswersRead` (for
answers and buffers of any size). Its invariant
adds four parts. `Place` ties the step of a call to its operation and to how many
commands are left. `Room` is why requests fit: `bytes <=
streamsize`, since the count only grows while the stream is cleared, and a stream
just cleared is empty. `Order` is why commands are carried out once: what was
carried out ends just before `first`. `AtOnce`: up to the limit and one more, nothing
was asked before. The lemmas on intervals say that two
adjoining ones make one, and that what is appended to a sequence is its end.
Assumed is that a command and its separator fit in a packet.

For any number of workers, exchanges and events and any size of the FIFO,
`ListMode_proofs` proves the five safety properties of `ListMode`: `TypeCorrect`,
`WorkerStops`, `FileIsComplete`, `FileIsInOrder` and `NoLossUnmarked`. Each needs
what the property itself does not say. `Owner`: the only worker there can be is
the one that `list_reader_thread` points to, and none is there while one is being
started; so after `join` none runs. `Filed`: the file is what was accepted, but for
the record that is just being written; `Prefix` is what remains of it when the
stream has an error. `Order`: along the turns, data is in the order of the events
and all of it behind what was accepted, and the turns up to the last one handed
over hold nothing; so a late answer can be skipped, but never be written behind a
newer one. `Serialised` and `InStep`: while every exchange succeeded, nothing is on its way but
what belongs to the exchange in progress, and the caller is not handed list data;
`Chain`: then what was accepted adjoins, record by record, and the last record
adjoins what is still to come, or says `FULL`.

For any devices, whatever is in their endpoints, and any number of threads and
calls, `UsbConnectionHandler_proofs` proves the five safety properties of
`UsbHandler`: `TypeCorrect`, `FirstFitKept`, `OthersAreClosed`, `AnswersInStep`
and `UsbImplementsHandler` (a refinement). `Scan` says that a device is claimed
before it is asked and that one closed again does not fit or failed, and `Closed` why nothing stays open: every device is closed,
could not be released, is the one kept, or is the one the constructor is looking at.
The other two need `Exchange`. `Mutex`: one thread at most is between write and read.
`Order`: along the endpoint of the kept device turns only increase and are newer than
`last`, what was there before has no turn, and other endpoints hold nothing of this
program; so what is read next is newer than what was returned, although
requests become responses and fragments of them get lost in between (`Thinned`).
`InStep`: until something went wrong the endpoint holds at most the request
of the thread in the call.

For any operations, ages, threads and number of exchanges, over any connection
that keeps `ConnectionHandler`'s promise, `AmptekHardwareInterface_proofs` proves
the four safety properties of `HwInterface`: `TypeCorrect`,
`StatusNeverBeforeSpectrum`, `ReadsAreFresh` and `AcquisitionFollows`. `InProgress`
ties the call to the turn in progress, and `Replies` every reply to its request.
`Order` is why the status is never older than the spectrum: the detector takes
data in the order of the requests, and a status that may still be handed
over is from after the cached spectrum, if that came with one, for the answers of
earlier turns are skipped. `InTime`: an exchange ends by its deadline, and data of one's own turn was
taken between its beginning and its end, which is where the slack in `DataFresh`
comes from. `InStep`: since a switch last got its own answer, no other is on its way, and the
last one that the detector acknowledged is what the caller wanted, or the one in
progress, whatever became of the calls in between; `Switching` says what the detector
has made of it. Assumed is that ages are no
longer than the time since `from_time_t(0)` (`EpochAssumption`, `AgesAssumption`),
the time stamp of a cache that was never filled.

For any lengths (of MCAC too, negative or not), presets, requests and events, any
outcome of `new[]` and any schedule of the two threads, `AmptekSimulatorConnectionHandler_proofs` proves type correctness and the
three state invariants of `Simulator`: `StatusAccountsForSpectrum`, `ClearForgets`
and `MemoryIsSafe`. What a snapshot shows is a sum over channels, some of them
cleared, some read, one being counted in. `KeptCounted` bounds the channels that a
clear in progress has done (or all) by the total plus the event being recorded;
`ReadCounted` bounds what was read together with what is still to be read;
`TotalLoaded` covers a clear between load and store. `Shape`, `Quiet` and `Loaded`
say where the spectrum has its length, and that the thread is not counting when
MCAC replaces it, or it was raced, dangles or has a length of no use (`Unusable`).

A sum over a finite set is not inductive in form, so that the provers need not do
induction over data: `Counting` tells it by the cardinality of a set of pairs
(`Held`), of which the library's theorems on finite sets say that disjoint unions
add up and that one more in a channel is one more in the sum. `Least`, that sets of
natural numbers have a least element, takes the place of induction elsewhere.

For any detectors with counts of 32 bits and a time that fits in its field
(`FieldsAssumption`: 24 bits of tenths of a second), any other responses in the
buffer, spectra of any length and content,
requests with up to four 16-bit arguments, and any size of the USB input buffer
that holds a status, `StatusReport_proofs` proves all properties of `StatusReports`:

- `SumLemma`: `Sum16` is the sum of all bytes modulo 2^16. Two functions that make
  its recursive step are equal (`SumsUnique`), as there is no shortest part where
  they differ; one is the sum (`SumsExist`). From it follows `OneByte` (two valid
  packets of one length do not differ in one byte).
- `DamageIsNoticed`: `Buffered` is the invariant: the buffer holds bytes, whatever
  responses they are of. A changed byte (other than LEN's) leaves a packet of the same
  length, so `OneByte` applies; what is behind it in the buffer is not read.
- `StatusesAreRead`, `SpectraAreRead`: a number's bytes, merged again, are that
  number (`OctetsMerged`, `ThreeMerged`), or the two words of it (`WordMerged`,
  `CountsRead`), at the places where the detector put them
  (`StatusBytes`, `SpectrumBytes`), in whichever packet they came (`Tells`,
  `Spectrum`).
- `ReadingsAreDisjoint`: `Owner` names the reading that each bit belongs to, and
  `OwnerOnly` says that every other reading is as without it, because its bytes are
  elsewhere (`MergesKept`, `BytesKept`) or its mask leaves the bit out (`BitsKept`).
- `RequestsAreRead`, `RateIsKept`: each request is made of its name and words
  (`Asked`), and `RequestRead` says that this is what the receiver finds; the period
  of a rate is a quotient, which is off by less than one tick (`PeriodLemma`).

Only model-checked: the liveness properties, since fairness and ENABLED are beyond
the prover's reach: `CallReturns` and `TurnsGoOn` of the handlers, `DisableReturns`,
and the simulator's `QuietCommandPrevails`, `PresetEndsAcquisition` and
`DestructorReturns`. Every other property of a passing run is proved. What `Merge`, `Sum16` and the octets compute is proved for
the lengths and places that the program uses or, for `Sum16`, by the least number, not
by induction over data.

## Not modelled, and the plan

Not modelled yet: the configuration texts that the simulator stores and gives
back (`initConfigs`, `readConfig`, `buildConfigResponse`; `readConfig`'s effect on
MCAC and PRET is), with the value that a setting without one inherits from the
setting before it; signals (`EINTR`); what a short USB transfer and the response before
it spell together.

Worth proving next: the safety half of the liveness properties. That a thread in a call
of a handler can always go on, that a worker of list mode which was told to stop begins
no other exchange, and that a command which the simulator's thread has taken up is
undone by nothing but the next one or the preset are invariants and action properties,
which only the last, temporal step of `CallReturns`, `DisableReturns` and
`QuietCommandPrevails` goes beyond.

Left out for good: the Tango server (a Python client that calls the interface from
one thread at a time and formats files), the printing of packets, the SWIG
interface and `numpy.i`, the examples, `setup.py`, and the construction and
destruction of sockets.
