# libr1k in TLA+

libr1k is a C++ library for transport streams, elementary streams, sockets and
files. This directory holds a TLA+ development of its stateful parts: modules
translated from the source, TLC configurations that check them on small
instances, and proofs that TLAPS checks for every value of the constants.
`PROJECT.json` is the manifest: components, runs, the slips each property is
known to catch, the source lines behind every definition, the disagreements
found between code and comments, the hazards, and the main theorems.

Parse with `tlasany M.tla`, check with `tlc -workers 2 -config X.cfg M`, prove
with `tlapm M_proofs.tla`.

Paths below are relative to the root of the repository's source. `EAC3.cpp` has six
carriage returns without a line feed at line 308; line numbers of it count them as
ends of lines.

## 1. The system

The library has no main program of its own; the one program in the repository is
the example server in `Example Code/JSON and SocketListenerGroup/main.cpp`. A
typical use of the stream part is a loop around `fileReader`, `pcr` and one
handler per PID:

    fileReader -> TransportPacket -> TSPacketHandler::NextPacket   (packets of the PID)
                                  -> pcr::NextPacket -> TSPacketHandler::PCRTick(clock)
    TSPacketHandler -> PESProcessor::PESDecode -> AC3Decoder / EAC3Decoder / ...
                                               -> WAVFile, CSV, debug log

Everything but `_runnable` runs in one thread. What is hard about the code is
therefore not data races but the order of calls (packets and clock ticks
interleave freely), loss and repetition in the stream, data split at any place,
counters that wrap, state left over from one call to the next, and, in the
server, clients that come, stall and go at any moment.

| Component | State | Operations | What makes it correct |
|---|---|---|---|
| `TSPacketHandler` | state machine, queue of PES packets, `BufferLevel`, continuity counter | `NextPacket`, `PCRTick`, `SetStreamID`, destructor | the queue is first-in first-out, only its last packet is incomplete, only complete packets are decoded, errors do not spread |
| `AC3Decoder`, `AC3PacketHandler` | elementary-stream buffer | `PESDecode`, `DecodeFrame`, `DecodeFrame_PassThru` | frames do not depend on where PES packets are cut; recovery after a gap |
| `EAC3Decoder`, `EAC3PacketHandler` | queue of PES data, block counts per substream | `PESDecode`, `DecodeFrame_PassThru` | access units are complete, in order, of one PES packet; the loop ends |
| `SocketListeningGroup`, event server | list of sockets, descriptor set, largest descriptor; list of clients | `addSocket`, `removeSocket`, `Select`; main loop | the records agree, no deleted socket is used, clients are accepted and removed |
| `CSocket`, `CIpAddress` | a descriptor, a port; four bytes | construct, `bind`, `listen`, `accept`, `connect`, `send`, `receive`, with and without timeout, `close`, options | one owner per descriptor, true reports, nothing changed by a call that throws |
| `fileWriter` | buffer, packet length, file | `writeTsPacket`, `setPacketLength`, `flush`, `close`, destructor | no overrun, nothing lost or reordered |
| `fileReader` | buffer, position, packet length | constructor (`SyncToTSHeader`), `readTsPacket` | the packets of the file, all of them, wherever the file begins |
| `pcr`, `StreamTime` | the last three clock references, average, start of the stream | `NextPacket`, `getPCR` | a clock that follows the sender's, and finds back to it after a loss or a wrap |
| `PTSPacketHandler` | as `TSPacketHandler`, without payload | `NextPacket` | each row shows the time stamp of the start taken last, which is that of the PES packet being sent unless something was lost |
| `WAVFile`, AES bursts | samples, sizes in the header, count of bytes | open, write, `Close`, read | what is read is what was written, bursts lie where their spacing puts them |
| LPCM, DTS, ES dump, PES handlers | a pointer and a count, the debug log | `PESDecode`, `SetDebugOutput`, destructor | they stay within the packet, the log is not used after it is deleted |
| `TeletextDecode` | page, magazine, language, triplets, lines | `PESDecode`, `SetPage` | a line shows its box |
| `TransportPacket`, audio headers | fields | setters, `findPayload`, `InterpretFrame` | every field is read from its place |
| BigNum, BitReverse, crc, bit reader, `SampleBuffer`, `wav.cpp` | none, or a position | pure functions | agree with their definitions |
| `CommandLineParse` | arguments | `GetValue`, `Exists` | options are found |
| `_runnable`, `Log`, `json_parser`, Goertzel | little | – | – |
| a52dec, liba52, json_spirit | third party | – | – |

## 2. Modules

| Module | Role |
|---|---|
| `PESFifo` | abstract specification: what a reassembler of PES packets promises |
| `TSPacketHandler` | the handler, one action per call; refines `PESFifo` |
| `TSReception` | the handler behind a channel that loses and repeats transport packets |
| `TSReception_proofs` | of the handler: type, queue discipline, complete decoding, buffer level, refinement; behind the channel: order, at most one fault, clean PES packets kept |
| `AC3Decoder` | PESDecode's loop over the byte buffer |
| `AC3Stream` | the decoder behind a stream cut into PES packets, some of them lost |
| `AC3Decoder_proofs` | the search ends where it is said to; frames are stretches of the input; nothing is left behind; the whole stream is cut, losses cost a frame each, and the decoder gets back in step |
| `EAC3Decoder` | PESDecode's loop over syncframes and the block counts; the access units of a PES packet against those returned |
| `EAC3Decoder_proofs` | queue discipline, order of units, agreement of their block counts, legal units returned, writes outside of the table |
| `SocketListeningGroup` | the group's three fields and its operations |
| `EventServer` | the server's main loop, its clients and their connections |
| `EventServer_proofs` | the records agree, no deleted socket is used, only clients that are gone are removed |
| `FileWriter` | the writer |
| `TransportStreamFile` | the writer's file, cut, and read with `fileReader` |
| `TransportStreamFile_proofs` | the writer overruns and loses nothing; the reader returns the packets of the file |
| `CIpAddress` | addresses as bytes, their conversions |
| `CSocket` | every call on a few sockets, and the system behind them |
| `CSocket_proofs` | owners, reports, calls that throw |
| `WAVFile` | a file of samples: writing, closing, reading |
| `ElementaryOutput` | the handlers that write what a PES packet carries, and their log; uses the one above |
| `TeletextDecode` | the teletext handler and its subtitling task |
| `ProgramClock` | `pcr` and the start time of the stream |
| `PTSPacketHandler` | the report of time stamps; uses the clock |
| `PTSReport` | clock and report behind a channel that loses packets |
| `BitOperations`, `AudioHeaders`, `TransportPacketFields` | operators: the library's calculations (products and bits, fields of audio headers, fields of packets) |
| `Calculations` | one call of a calculation with operands of a small range; the sizes of `wav.cpp`, times, and options of a command line are operators of it |
| `LibraryParts` | `ElementaryOutput`, `TeletextDecode`, `PTSReport` and `Calculations`, of which a program uses one |
| `LibraryParts_proofs` | the report of time stamps and its clock, the rows of teletext, bursts, reading back, faults, calculations |
| `Sums` | sums of natural numbers |
| `Sums_proofs` | they exist, and how they change |
| `MC*` | constants for TLC, nothing else |

An operator that begins with "Slip" in its comment is not part of a
specification. It is a version of the definition next to it with a plausible
mistake, used to show that a property can fail.

### 2.1 TSPacketHandler

The variables are the members of the class: `CurrentState` (with `NextState`
merged into it, since every call ends by assigning one to the other), `PESdata`,
`BufferLevel` modulo 2^32, `stream_id`, `ContinuityCount`, `doubleCC`. `decoding`
is the packet the last call gave to `PESDecode`, `status` says whether the object
still exists. `NextPacket(ts)` is the whole call: the continuity check, which
may force the state `CCError`, then one branch of the switch. `PCRTick(clock)`
releases or discards at most the front packet. Each is atomic: a handler is used
by one thread.

Abstractions. A transport packet is a record: continuity counter, payload unit
start, whether it has a payload, and what a PES header at the start of the
payload says. The payload is a sequence of units; `pesPacketLength` and
`Complete` are computed from it as the code does from bytes. Its size is the one
`findPayload` computes, negative when the adaptation field claims to be longer than
the packet: then nothing is copied, and the size is added to `BufferLevel` all the
same. The stored header of
the PES packet is assumed to lie inside its payload. `PESDataError` is never
assigned by the code, and `CCError` never survives a call, so neither is a value
of `CurrentState`. Memory that is not freed when a packet is popped is left out.

`TSReception` sends PES packets cut into transport packets (for TLC three, cut
into 2, 1 and 3). Every transport packet carries one unit that names it, so a
reassembled packet shows what it is made of; the constant `Units` lists all of
them in the order of sending, and `StreamPacket` makes a transport packet of one.
The channel loses some packets and repeats some (for TLC up to three and two).
It loses fewer than the counter has values (`ChannelAssumption`; 4 in the run, 16
in a stream), because with a full turn of the counter a loss cannot be seen at
all, in the code as in the model.

`PESFifo` knows units, at most one of which is partial, a queue of ready ones,
and that units leave at the front only. `TSPacketHandler!FifoSpec` is that
specification under the mapping ready = the complete packets of the queue,
partial = the incomplete one at its back.

### 2.2 AC3

`AC3Decoder` works on bytes: the buffer is what is left of all data fed.
`PESDecode` is the pair of actions `AddData`/`DecodeFrame`, as its loop calls the
decoder until it gets null. `FindSyncWord` is given by where the search stops, so
that it can be reasoned about; `Search` is the search itself, as the code computes
it (scan, check, remove a byte, start again), and `SearchEndsThere` says that the
two agree: by the run on every buffer that is reached, by proof on every buffer.
The element one past the end that the search reads has no effect on what it
returns. Frames have 4 or
7 words instead of 64 to 1920, and a header of 6 bytes as in the code.
`AC3Stream` is given streams of bytes of which some stretches are frames
(`StreamsAssumption`: they do not overlap, each has a header that says its length,
and no header lies outside of a frame). For TLC there are three, cut into PES
packets of 1 to 9 bytes in every way, of which one is lost.

The bursts the handler writes and its log are in `ElementaryOutput`, the fields
of the header in `AudioHeaders`.

### 2.3 E-AC-3

`EAC3Decoder` works on syncframes: the data of a PES packet is a sequence of
items, each a whole syncframe, the beginning of one, data in which `FindSyncWord`
finds nothing (junk), or a stub of fewer than six bytes, which is only found at the
end of the data (`EAC3Assumption`). Six bytes of a syncframe at the end are junk as
well, since the search wants a seventh (`EAC3.cpp:525`); junk at the end costs the
access unit in front of it (section 4), which `LegalUnitsAreReturned` states as the
exception. A syncword thus occurs only where a syncframe begins. The queue records
how many items have left its front. After junk the code tests a wrong byte for `bsid` (`eac3_junk`); what it finds there is a
nondeterministic choice. A dependent substream before any independent one is
counted in row -1 of the table; that write is undefined behaviour, `strayWrite`
records it, and the specification goes no further. `CountsInTable` says when it
can happen: in the first call for a PES packet that does not begin with an
independent syncframe, and never after a unit was returned. Syncframes of more than 2048
bytes are counted with one block, as in `preProcessHeader`.

The properties read the substreams of an access unit off its own syncframes: a
dependent one belongs to the last independent one in front of it. `Starts` are
where the data says that access units begin. The two may differ behind junk,
where a syncframe can be skipped and its dependents are then counted in the row
of another.

### 2.4 The event server

`SocketListeningGroup` is the class; `EventServer` puts it into the main loop.
`pc` is the place in the loop: taking a packet, sending an event to the clients
one by one, `Select`, and handling the list it returned in the order of
descriptors. The system's side of a connection is external and modelled as the
calls see it: a send blocks while the client has not read the previous one; a
client that closes in order can be read (0 bytes) and answers a send with a
reset, after which a send kills the process with SIGPIPE; a client that closes
with unread data resets at once, and one call fails before the connection reads
as closed. `accept` fails when no descriptor is left, which ends the main loop.
Descriptors are given out smallest first, so they are used again.

The order in which `accept` takes waiting clients is left open. The signal
handler, `select` failing for other reasons than a closed descriptor, and
descriptors beyond `FD_SETSIZE` are not modelled.

### 2.5 Files

`FileWriter` keeps bytes: the buffer is what lies between `pkt_buffer` and
`next_available_packet`, so an overrun would be seen. A write to a full device
stores any prefix of the buffer and nothing afterwards. `TransportStreamFile`
cuts up to 4 bytes off the front of the file and reads the rest.
`SyncToTSHeader` is given by the set of places where it may stop: bytes of
`test_buffer` that the file did not fill were never written, and may or may not
look like a sync byte; when nothing in the file stops the search, it may also run
out of the array ("lost"). Each such byte is decided anew at each comparison,
which allows a little more than the code does. Packets have 3 and 4 bytes instead
of 188 and 204, `MAX_NUM_PACKETS` is 2 instead of 20000, and `test_buffer` has 12
bytes instead of 2000, enough for three packets of either length from any offset.

### 2.6 Sockets

`CSocket` is a program of one thread that makes any sequence of calls on a few
objects. `mSocket` and `mBindPort` are the members; `endpoint` is what the system
keeps of each descriptor: its kind, what has arrived (connections, pieces of a
stream, datagrams), whether the peer has closed. A call that waits has phases:
`select`, if it has a timeout, then the call itself, then "returned". Between
`select` and the call the system may take back what `select` saw. `result` holds
the caller's variables, which the code sets on some paths only. `TimeoutInterval`
keeps the arithmetic of milliseconds, with another number than 1000. Ports keep
their two bytes, and `ntohs` swaps them.

Failures (no descriptor, a port in use, an option refused, `select` interrupted)
are choices of the system. A receive
with address may be called on a connected stream: the system then leaves `recvAddr`
as it is, and what was on the stack is converted; it may succeed with no bytes at
the end of the stream, or fail there. The stream send with a timeout has no body: it
returns at once, with any answer. `close` only shuts the connection down, as in the code,
so a descriptor is freed by the destructor only. Calls with a timeout on an object
without descriptor are not made: `FD_SET` of -1 is undefined.

### 2.7 The handlers that write

`ElementaryOutput` creates one handler, hands it PES packets, switches its log on
and off, destroys it, and lets a program read the file back. A handler works
through a packet with a pointer and an unsigned count: `PES.at` and `PES.left`. The
count begins as `GetPESDataLength`, which is negative when the header says that it
is longer than the packet, and then a huge unsigned number. `PES.rest` is what there
really is behind the pointer: the 15 bytes that `DTSMetadata` reads, and the search
for auxiliary data, which goes back from where `FSIZE` says that the frame ends, may
pass it. `frame.beyond` is how far behind the frame that search reads, when the
frame ends in the beginning of an auxiliary sync word. Where the count passes zero,
something behind the packet is read, or a null or deleted log is used, or a log is deleted
twice, the code is undefined; `fault` names what happened, and nothing is done
after it. What is expected of these is not that they do not happen, because they
do, but that they happen for the causes `FaultsHaveCauses` lists.

A packet of AC-3 is the frames that `AC3Decoder` completes in it: `PES.at` are the
words of those that are not written yet. Samples and bursts are kept word by word, so the file shows where each burst
begins. A payload word is 1, padding 0. The lengths of frames are small; the
relation of frame, spacing and header is that of the code.

The file may be read before it is closed. What the stream has buffered need not be
on the disk then: the chunk of the header is missing (0), nothing is ready, and no
function to read with is set. `ReadsBack` says of samples of 16 bits that they are
the program's; those of 20 and 24 bits come back in another order of bytes and in
another place than the header file says (section 4), and only their number is right.

### 2.8 Teletext

A data unit is what the packet handler reads of it, and within it `inner`, what
the subtitling task reads two bytes further on, since the two disagree on where a
unit begins. Hamming bytes are given decoded, or as the error value. Characters
are the five that the code tells apart. `print_ttx` is a fold over the
characters of a row.

### 2.9 Clock and time stamps

`ProgramClock` has the three references, in words of their own modulus, so that
the unsigned difference is what the code computes when the clock wraps.
`PTSPacketHandler` keeps the state machine that it inherits, without payload.
`PTSReport` puts both behind a channel that loses packets; the sender's clock
advances by the same amount per packet, and `TrueClock` tells it. A PES header of
the stream may have no time stamp, which the code reads as 0. `lastStart` is the
stamp of the start that was taken last. `RowsAreRight` says what the code does on both sides of a gap: the
stamp sticks until another start is taken, although a comment says otherwise
(section 4).

### 2.10 Calculations, and why they share a run

A step of `Calculations` calls one function with operands from small sets; the
invariants compare the outcome with a definition that is written independently
(a product, a reversed sequence, a division with remainder, the layout of the
standard). Words have 6 and 8 bits instead of 32, so every operand is tried.
`CalculationsAreRight` is what is proved for words of any size as well,
`BitsAreRight` (reversals, checks, headers) what is only compared. Three functions
do not do what their comments say; of these `CalculationsAreRight` claims no more
than is so (of the product of two double words its lowest word, of that of two words
its remainder, and all of it for small positive ones; of `SetPID` and `SetCC`
nothing), and section 4 says what is not so.

The parts that `LibraryParts` names share no state, and no program of the library
connects them. `part` says which one a behaviour uses; the others keep one initial
state. Their behaviours are therefore explored one after the other and never
multiplied. Nothing is claimed of a program that uses two of them at once.

## 3. Runs

| Run | Question | Bounds |
|---|---|---|
| `ts_handler` | is the queue discipline kept, is `BufferLevel` right, is `PESFifo` implemented, for any packets and ticks? | queue of 2, counter modulo 2, time stamps 0..7, payload sizes of -2 to 2 |
| `ts_reception` | what reaches the decoder over a bad channel, and does a clean stream drain? | 3 PES packets, 3 losses, 2 repeats, clock to 6 |
| `ts_restart` (violated) | does a unit that starts early replace the unfinished one? | as above |
| `ts_wrap` (violated) | is a packet due after the clock wraps kept? | as `ts_handler` |
| `ac3_stream` | are all frames returned however the stream is cut, and how does the decoder recover? | 3 streams, PES packets to 9 bytes, 1 loss |
| `ac3_split` (violated) | is the beginning of a header kept for the next PES packet? | as above |
| `eac3_units` | are legal access units returned whatever follows, do wrong ones stay out, when is the table written outside of, does the loop end? | 3 units, 6 kinds of errors, 2 ways to skip a syncframe behind junk, 4 endings |
| `eac3_junk` (violated) | is a unit behind junk returned? | as above |
| `event_server` | do the records agree, is no deleted socket used, is every client served? | 3 clients, 3 descriptors, 2 events |
| `socket_calls` | who owns a descriptor, is what a call reports true, does a timed call return? | 2 sockets, 3 descriptors, 1 host, 1 arrival (connection, piece of a stream, or datagram, perhaps empty) per descriptor, a timeout of 3 where a second has 2 |
| `library_parts` | are the samples, bursts, lines, rows, clock values and results the right ones? | 9 handlers and 3 PES packets; 3 teletext units; a clock of 32, 6 packets, 1 loss; operands of 6 to 8 bits |
| `ts_file` | is the file what was written, and is what is read what is in it? | 15 bytes: up to 5 packets, 3 blocks |

Why the bounds are enough. In `ts_handler` one packet can be ready and one
partial, every branch of `NextPacket` and every decision of `PCRTick` is taken,
and the counters are small enough to wrap; the proofs cover what the bounds leave
open. In `ts_reception` the three packets let an error in one be seen from both
sides. In `ac3_stream` a PES packet can hold part of a frame, a whole one, or the
end of one and the beginning of the next, and one stream has a header inside a
payload. In `eac3_units` a wrong unit comes before and behind right ones. In `event_server` a third client finds either the descriptor of one that
left or none; two events are what it takes to be killed by SIGPIPE. In `ts_file`
five packets span three blocks, and a buffer is full once and half full once. In
`socket_calls` there is a descriptor more than sockets, so that an accept into an
object that has one would show; two arrivals would only repeat a call. In
`library_parts` a DTS packet has a frame that fits, one that fills its burst, one
that is odd, one that is cut at an odd or an even place, two clean ones, one that
looks like auxiliary data at its end, and bytes behind its frames or a negative
length; every row of six characters out of three is tried;
the clock wraps within the six packets, and three references fit behind a loss.

Type invariants are not part of the runs, as they are proved (section 5), and so is
`DecodesComplete`; `ts_handler` checks more with `FifoSpec`.

Deadlock is not checked, because each of these systems may stop: a handler that
crashed or was destroyed, a stream that has been sent, a server that ended, a file
that has been read. Liveness properties say what must not stop.

### Fairness

* `TSReception`: the receiver goes on delivering and the clock goes on. The
  caller is outside of the library; it is a loop over a file or a socket that does
  both for every packet.
* `EAC3Decoder`: the step is the body of PESDecode's `while`, so nothing can keep
  it from being taken.
* `EventServer`: the server's steps (one thread in an endless loop over a stream
  that goes on) and reading by each client. Without the second a client that
  never reads stops the server for good: `send` blocks, and it is the only
  thread. Clients connect at most once each; with clients on lower descriptors
  that come and go for ever, the `break` after a removal can keep one on a higher
  descriptor from being removed.
* `CSocket`: the thread's step inside a call. It is a blocking call of one
  thread, and its timer runs. A call with a timeout returns under that, unless
  what `select` saw has vanished (`vanished`): then it waits without limit.
* The other specifications have no fairness and state no liveness.

## 4. Findings

Each is a run whose one property is what a comment says, and which TLC violates.

1. `ts_restart`, `libr1k/src/TSPacketHandler.cpp:140`: a payload unit that starts
   inside an unfinished packet does not overstamp it; the packet is popped and a
   null pointer is used in its place.
2. `ts_wrap`, `TSPacketHandler.cpp:275`: the branch commented "Wrap around" can
   never be taken for 33-bit values. The theorem `WrapBranchIsDead` proves that
   for every clock and time stamp.
3. `ac3_split`, `libr1k/src/AC3.cpp:509`: one to five bytes of a header at the end
   of a PES packet are cleared, not saved.
4. `eac3_junk`, `libr1k/src/EAC3.cpp:530`: after junk was removed, `bsid` is read
   as many bytes too far along as were removed.

Also met. These are what the code does, and the models do the same.

*Comments that the code does not keep.* A property that passes names each of these
as what it does not claim.

* A beginning of a syncframe at the end of a PES packet: "save the current state and
  bail out" (`EAC3.cpp:425`). `FindSyncWord` wants more than six bytes (`:525`) and its
  caller goes on with six; nothing is saved, the PES packet is popped (`:492`), and the
  access unit that was complete in front of it is dropped. The second conjunct of
  `LegalUnitsAreReturned` states that this always happens.
* "left shifted up to the far left" (`WAVFile.h:149`): only the samples of 16 bits are
  (`WAVFile.cpp:520`). Those of 20 and 24 bits come in the low bits, with their most
  significant byte last. `ReadsBack` claims their number only.
* "y = a * b" (`BigNum.cpp:66`): the middle products are shifted within words of 32
  bits before they are added to the wide one (`:82`). "y = a * b" (`:95`) again: the
  test for a carry is the wrong way round (`:115`), and the test of that function is
  disabled (`:285`). `CalculationsAreRight` claims the lowest word of both, and of the
  first all of it for factors below 2^15.
* `SetPID` and `SetCC` are declared as setters of one field each
  (`TransportPacket.h:17`). `SetCC` combines two masks with `&` and clears the byte
  (`TransportPacket.cpp:101`); `SetPID` keeps the top bit of the old PID and clears the
  error indicator (`:89`). Nothing is claimed of either.
* "throw away the last PES packet if it is incomplete" (`PTSPacketHandler.cpp:203`):
  the branch is empty (`:205`), and rows behind a gap show a time stamp from before it.
  `RowsAreRight` states that they do.

*Streams.* A continuity error also throws away the transport packet in hand, and
so a PES packet that starts there (`TSPacketHandler.cpp:157`). The comment at
`PCRTick` says "~21ms" of a window of 200 ticks of 90 kHz, about 2.2 ms. A PES
packet that is shorter than the header it claims gives its decoder a negative
length (`TSPacketHandler.h:68`), and an adaptation field longer than the packet gives
its handler a negative payload (`TransportPacket.cpp:32`). `MakeNULLPID` fills as many bytes as the packet has from the payload on (`TransportPacket.cpp:71`),
the first loop of `fgetTSsync` does not end without a sync byte (`:186`). Packets
that are not the last stay in `PTSPacketHandler`'s queue for ever. `fileReader`
never sets `readPackets`, so `getPercentageUsed` is undefined.

*Audio.* `BitReverseX`
extends the sign. A copy of a `SampleBuffer` forgets its depth. The AC-3 report
prints `cmixlev` for one channel and leaves out `surmixlev` for 3/2 and 2/1 with
three front channels; the E-AC-3 report prints nothing else that was read than
the size. `JumpToNextByteBoundary` skips a byte when it is at one already. The LPCM
handler writes zeros only, and takes an eighth of the samples. Auxiliary DTS data is looked
for with lengths that count from another place, and a channel arrangement above 15
is outside of the table. In `wav.cpp` a frame rate that is not listed
gives a header of no samples (`wav.cpp:131`). `EAC3PacketHandler` has no WAV file
to write to.

*The rest.* The log's pointer survives its deletion in five handlers. The task
of teletext keeps its magazine unset, since the constructor computes it into a
variable of its own; the test for a unit's id can never fail; the
task reads the page two bytes behind where it is. `Select` returns -1 on error,
which the server takes for true; a datagram receive reports a failed `select` as
a timeout; `CIpAddress::setAddress` tests the old address instead of the new one.
An option whose value is the text of an option is taken for it.
`close` and the destructor of `fileWriter` both close the file. `CSocket.cpp` does
not compile as it stands (line 202 lacks a semicolon), and is modelled as it is
evidently meant.

## 5. Proofs

All proofs are for every value of the constants under the named assumptions of
the modules, which say no more than what the constants are (a set of packets, a
positive modulus, frame lengths longer than a header, ...).

* **TSPacketHandler** (in `TSReception_proofs`). `IInv` = `TypeOK` /\ `QueueDiscipline` /\
  `DecodesComplete`. `DecodesComplete` is not inductive alone: that a released
  packet is complete follows from the queue discipline and the test in
  `PCRTick`, and the discipline needs to know that the handler waits for data
  exactly while the last packet is incomplete. A lemma on sequences gives the
  effect of popping at either end of such a queue. `ImplementsFifo` maps every
  branch of `NextPacket` to one of `PESFifo`'s Begin, BeginWhole, Extend, Finish,
  Abandon or Rest, and `PCRTick` to Take or Rest. `DriftHasCauses` is about
  the sum of the payloads in the queue: appending adds to it and popping takes the
  front from it, so that what remains are a payload size that is negative and a PES
  packet shorter than the payload that begins it.
* **Sums.** A sum is a recursive function. That it exists, that it is the only one,
  that it rises, and what appending to, changing or splitting the numbers does to
  it are lemmas. Each is proved by the least counterexample, as this prover has no
  induction over data. Handler, bursts and access units all use them.
* **TSReception.** `ReceptionInv` holds of any stream, any pattern of losses of
  less than a turn of the counter, and any number of repetitions, and implies the
  three safety properties. It looks at `Passing`, the decoded payloads followed
  by the queued ones, as one sequence, since a tick only moves its border.
  `InTouch` says that the handler's counter is that of the last packet that
  arrived, behind which only lost ones were sent; a mismatch is therefore seen
  exactly when a packet does not follow the last arrival. `InStep` says that what
  is being assembled without a gap ends with the last arrival, so that without a
  mismatch it goes on without one. `OneFault` says that no payload is flawed before
  the mismatch that `doubleCC` forgives, and one at most after it: every later
  mismatch drops what it would flaw. `CleanIsAssembled` says that an unbroken run
  of arrivals from the first unit of a PES packet is what the handler assembles,
  which makes `CleanPESIsKept` inductive. A repeated packet and a delivered one are
  one case of a lemma, `ArrivalKeepsOrder`, which knows only where the packet comes
  from in the stream and what `NextPacket` does with it.
* **AC3Decoder.** `IInv` = `TypeOK` /\ the buffer is a suffix of the data /\
  `FramesAreCut` /\ `NothingLeftBehind`. A frame is a stretch of the data
  because it is a prefix of a suffix. Where the search stops is chosen by least
  index, whose existence is proved from well-foundedness.
  * *The search.* `SearchEndsThere` holds of every buffer of bytes. `Search` is a
    recursive function on positions; that it has a value at each of them is shown
    by giving one, and that it is what `FindSyncWord` says by the greatest position
    where it would not be: there the search either stops at once or goes on behind.
* **AC3Stream** (in `AC3Decoder_proofs`). `StreamInv` adds to that where the bytes
  fed come from: `origin` rises, and at least as fast as the positions in `fed`
  (`Carried`); a stretch that is not contiguous in the stream has a gap in it
  (`BrokenAtGaps`), and there are no more gaps than losses (`GapsAreLosses`). A
  wrong frame has a gap inside, because a header that arrives in one piece is a
  frame's; frames do not overlap, so each has a gap of its own, which gives
  `OneWrongFramePerLoss`. `DecodeEffect` sums up a call of `DecodeFrame` for the
  other two: what it skips holds no complete header. A frame whose header is
  incomplete when a call is made is in `split` (`SplitIsKnown`), so the others are
  not skipped; none can be swallowed by a frame in front of it, as that would
  overlap it in the stream or begin more than a frame length ahead
  (`UndisturbedIsTaken`, `WholeFramesAreTaken`). The streams are any that
  `StreamsAssumption` admits, cut and lost in any way.
* **EAC3Decoder.** `IInv` = `TypeOK` /\ `QueueDiscipline` /\ `UnitsInOrder` /\
  `TakenIsGone`. The last says that the syncframes in `au` and in the units
  returned lie in the part of the data that has left the queue; it makes order
  and uniqueness inductive. Three more invariants rest on it, for any number of
  substreams, blocks and syncframes:
  * *Units agree.* `CountInv`: the table holds, per substream, the blocks of the
    syncframes in `au`, and the current stream is that of its last independent one.
    A syncframe behind all others of `au` changes one slot of the table and adds
    its blocks to it; a new unit and a failed one start from a table of zeros.
    `EndUnit`'s test of the table is then a test of the unit.
  * *Legal units are returned.* `LegalInv`: each legal access unit at the front of a
    PES packet was returned, is being assembled and has had every item since it
    began, or is still to come behind the one being assembled, which is legal too.
    What may follow the last one is not junk, which costs it.
    The step needs that a legal unit never looks complete before it is: while a
    syncframe of the first substream is to come, the blocks so far are less than
    six, as they and positive others make six; and at the next start they are six.
  * *Counting in the table.* A call begins at the front of the packet or, once a
    unit was returned, at the independent syncframe that ended it. With that,
    `CountsInTable` is inductive: the first syncframe a later call counts has a row.
* **EventServer.** `IInv` = `TypeOK` /\ `GroupsAgree` /\ four facts that make them
  inductive: watched sockets are open, what `Select` found is watched and is empty
  outside of its handling, an event's receivers are clients and there are none
  outside of its sending, and a client has no descriptor before it is accepted. The
  last makes the descriptor that `accept` returns a new one, and with no two equal
  descriptors `removeClient`'s search by descriptor finds the right client.
  `NoSocketIsUsedAfterDelete` follows. `OnlyGoneAreRemoved` needs two facts more:
  every open socket is watched, and what made a socket readable lasts from `Select`
  to the removal. The assumption is that descriptors are natural numbers below
  `FD_SETSIZE`; the existence of a smallest and a largest one is proved.
* **FileWriter** (in `TransportStreamFile_proofs`). `BufferFits` needs that the buffer holds whole packets of the
  present length, or the test for a full buffer, an equality, could be passed by.
  `NothingIsLost` is inductive with the types.
* **TransportStreamFile.** `PacketsAreThoseOfTheFile` for every capacity of the
  block buffer, pair of lengths, size of `test_buffer`, and offset. The search
  stops at the first complete packet, because the sync byte of a clean file has
  its offset as remainder, and with its length, because a shorter one would need
  a sync byte in between. From there `Following` is inductive: what is in the
  buffer is the file from the last packet returned on, and the position in the
  file is behind it, or at the end with less than a packet in between. The
  arithmetic of blocks (a quotient, a minimum, a sum of multiples) is in lemmas.
* **CSocket.** `OwnersInv` = `TypeOK` /\ `InProgress` /\ `ClosedIsClosed` /\
  `OwnersAgree`: a call in progress keeps its objects, and a closed descriptor
  holds nothing, which makes the least free one a new one. `ReportsInv` =
  `ResultIsRecord` /\ `Pending` /\ `ReportsAreTrue`: `timedOut` is cleared when
  `select` returns, before the call that may not set it. The stream send without a
  body does not clear it, and a receive from a stream converts what nobody wrote. That the sender's port
  comes back needs its two bytes swapped twice to be itself. `ThrowsChangeNothing`
  follows from the first for every step. Ports are below 65536, by assumption.
* **LibraryParts.** All of it holds whatever part a program uses.
  * *The queue of the report.* `ReportInv` is the type of the handler and
    `OnlyLastIsStarted`. `RowsInv` adds that, as long as nothing of the PES packet
    has been lost, the handler's continuity counter is the sender's, and what is at
    the back of the queue is what is being sent; and that in any case what waits for
    data there carries the stamp of the start taken last (`HandlerShows`).
  * *Its clock.* `ClockInv` says that each of the three references is what the
    sender's clock said at its packet, read as odd, and that the average is that of
    the references held. `ClockFollowsSender` follows for any rate, offset and
    modulus, under its own condition: no loss between the references and less than
    a turn of the clock. The rest is a division with remainder.
  * *Teletext.* `PrintInv` says what `print_ttx` knows behind each column: whether
    a box is open (`InBox`, in terms of the row), where the first one opened, where
    it ends if it is the only one, and what has been written. It holds after each
    of a row's characters, and gives `LinesShowTheirBox` for rows of any length.
    `TeletextAssumption`: the rows of the packets are full.
  * *Working through a packet.* `PESInv`: the frames at the pointer are the rest of
    the packet's, and in a packet whose frames are all whole and even (`RegularDTS`)
    the count is what is behind the pointer, so that no read passes it. With the
    state of the log that is all `FaultsHaveCauses` needs.
  * *Reading back.* `WavInv` relates the counts and the header to the data and says
    when the file is open; `OwnInv` says where the bytes of each sample are,
    `ReaderInv` where the reader is and that what it returned are the samples in
    front of it. `ReadsBack` is for any samples, depth and number of them. Sizes
    are natural numbers: a file stays below 4 GiB.
  * *Bursts.* `PlaceInv` says that a burst stands where the spacing of those before
    it puts it, as long as all of them were exact, and that the file then ends where
    the next one begins, without which the first part is not inductive.
    `CleanInv` says that of a packet of clean frames those in front of the pointer
    are written and the count is the bytes of the others; when it is zero there are
    none, because the sums of positive numbers rise. `OutputAssumption` says
    that frames have bytes, headers have channels, and there are three DTS types.

  * *Calculations.* `CalculationInv`: what was returned is right, or nothing was
    called yet. Each job is one step, so the argument is arithmetic. Widths of words
    are constants, and a power of two is only known to count the subsets of a set;
    that it is positive and multiplies (`2^(a+b)`) follows by counting subsets. On
    that rest remainders by powers, signed readings of them, products put together
    from halves (`Carried`), and shifts. A sum of samples over frames in a cycle of
    five is compared with its closed form by its differences (`SumsAre`). The search
    for the size of a packet makes three steps from the first sync byte; each is by
    188 bytes or by 204, as only one of the two places has a sync byte, and the
    fourth packet ends it. For addresses and options the least index of a text in a
    list is what is used. `OperandsAssumption` says of which sets the operands are
    (integers, lists of arguments, PIDs below the null one), `FilesAssumption` that a
    file has a sync byte at the start of each packet and nowhere else, with anything
    in front and behind, `PacketSizesAssumption` how the two sizes relate.

Model-checked only:

* liveness (`CleanStreamIsHandled`, `PESDecodeReturns`, `GoneAreRemoved`,
  `WaitingAreAccepted`, `TimedCallsReturn`), which is beyond the prover;
* `BitsAreRight`. Reversals are folds over the digits of a word, which needs
  induction over data. That a check catches every single wrong bit is a property of
  the polynomial. A table of fields is read by a fold over its rows, each of which
  may depend on what an earlier one read; all combinations of the fields that others
  depend on are tried.

## 6. What is not modelled

* a52dec, liba52 and its wrapper, json_spirit: third party. `json_parser` is a few
  lines around the last of them.
* The Goertzel filters and `SampleBuffer_norm`: floating point.
* `_runnable`: nothing derives from it, and its constructor is declared and never
  defined. `Log`: formatting; when a handler has a log is in `ElementaryOutput`.
* `WAVFile::WriteExtensibleWAVChunk`, which nothing calls; the drawing of a line of
  teletext and the three Hamming tables.
* Of the event server the signal handler, the configuration and the contents of
  events; of E-AC-3 what follows the stray write to row -1.
* Files that cannot be opened: `fileReader` and `fileWriter` then use pointers
  that were never set.

What could come next: the composition of `TSPacketHandler` with a decoder, from
transport packets to frames, with the header of a PES packet in bytes.
