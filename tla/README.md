# GCFFlasher: a verification development

GCFFlasher updates and resets the Zigbee sticks and boards of dresden elektronik
(ConBee I/II, RaspBee I/II, Hive). It is one single-threaded C program: an event
driven state machine (`src/gcf.c`) on top of a platform layer with a poll loop
(`src/main_posix.c`) and a byte protocol (`src/protocol.c`). This directory holds
TLA+ models of it, TLC instances, and proofs checked by TLAPS.

## 1. Inventory

| component | state | operations | interacts with |
|---|---|---|---|
| Flash session (`gcf.c`: `ST_Init` ... `ST_V3ProgramWaitID`, `gcfRetry`, `GCF_Received`, `PROT_Packet`) | `state`, `substate`, `retry`, `ascii`/`wp`, `task`, `devType`, `file`, `maxTime` | one handler per state, called with one event | platform layer by calls; handlers raise events themselves |
| Poll loop and serial port (`main_posix.c`) | `fd`, `timer`, `running`, the result of `poll()` | `PL_Loop`, `PL_Connect`, `PL_Disconnect`, `PL_SetTimeout`, `PL_ClearTimeout`, `PL_ShutDown` | raises `EV_TIMEOUT`, `EV_DISCONNECTED`; hands bytes to `GCF_Received` |
| Ring of bytes to send (`main_posix.c`) | `txbuf`, `tx_rp`, `tx_wp` | `PROT_Putc`, `PROT_Flush`, `PROT_Write` | frame protocol, loop |
| Frame protocol (`protocol.c`) | `PROT_RxState` | `PROT_SendFlagged`, `PROT_ReceiveFlagged` | ring, `PROT_Packet` |
| Device (not in the repository) | bootloader mode, flash memory | answers to V1 texts and V3 frames | serial line |
| Flash dump `-k`, connect `-c` (`gcf.c`) | flash address and size; state | handlers of their states | frame protocol, loop |
| Sniffer `-s` (`gcf.c`, `net_udp_posix.c`) | `ascii`, `rp`, `wp`, `sniffPacket`, the UDP socket | handlers of six states, `GCF_Received` | serial line, UDP peer |
| Command line, GCF header (`gcf.c`) | the fields of `GCF` they fill | `gcfProcessCommandline`, `GCF_ParseFile`, `gcfGetDevices`, `gcfGetDeviceType` | read again at every attempt; devices, files |
| Device enumeration (`linux_get_usb_devices.c`) | none | `PL_GetDevices` by udevadm, by-id links, serial0 | command line, `-l` |
| Hardware reset (`linux_libgpiod_v1/v2_reset.c`) | handle of the library | `PL_ResetFTDI`, `PL_ResetRaspBee` | session, libgpiod |
| Line editor `-i` (`gcf.c`, `main_posix.c`) | `uiInputLine`, position, size | `GCF_KeyboardInput`, `GCF_ProcessInput` | loop, frame protocol |
| Number parsing, string stream (`u_sstream.c`) | position, status | `U_strtol`, getters, search | command line, editor |
| Network clients (`net.c`, off in the build) | table of clients | `NET_Step` and friends | sockets |

What makes it hard. There are no threads, but there are interleavings: a handler
raises events in the middle of its work (closing the port calls the state machine
again), timers race answers that are under way, the result of `poll()` is used
after another handler has run, and the device may restart, be unplugged, fall
silent, or answer late. The timer is one-shot, so a single handler that forgets to
set it strands the session. All hazards are listed with their lines in
`PROJECT.json`.

What makes each component correct:

* session: it is never stranded; it ends once the retry time is over and never
  before, it says "successful" only of a device that holds the whole file, and it
  gets over faults while retry time is left;
* loop: the result of one `poll()` is used for the descriptor it is about; a
  hang-up is noticed; the loop ends;
* ring and frames: bytes leave in order, what is delivered was sent, the receiver
  resynchronises after damage;
* sniffer, dump: no frame and no address is skipped or counted twice, no part of a
  frame is taken for one, and both get over a device that comes and goes;
* command line, devices: an attempt depends on the arguments and on what is there
  now, the right device is talked to at its rate, numbers are what was typed;
* editor: the line is what was typed, and so is the query sent for it;
* reset line: what a reset took of the library it gives back, whichever call fails.

## 2. Plan

| step | module | composes / implements | status |
|---|---|---|---|
| 1 | `GcfHost`: session and poll loop, open to every environment | | done |
| 2 | `GcfHostProofs`: inductive invariant of the host | `GcfHost` | done |
| 3 | `Device`, `FlashSystem`: session, port, device and faults | `GcfHost` + `Device` | done |
| 4 | `FlashJob`: what a session promises | implemented by `FlashSystem` | done |
| 5 | `Link`, `LinkProofs`: frame protocol over the ring of bytes to send | | done |
| 6 | `SerialHost`, `DumpFlash`, `Sniffer`; `SerialTasks`: `-c`, `-s`, `-k` in the loop, with device, port and faults | each other | done |
| 7 | `NumberParser`, `SStream`, `GcfFile`, `Devices`, `CommandLine` | each extends the one before | done |
| 8 | `LineEditor`, implementing `TextLine` | `SStream` | done |
| 9 | `HardReset`; `Console`: command line, keyboard, reset line | `CommandLine` + `LineEditor` + `HardReset` | done |
| 10 | `NumberParserProofs` | `NumberParser` | done |
| 11 | `FoldLemmas`: induction over data, for the proofs | | done |
| 12 | `ChannelProofs`: an undamaged line delivers what was sent | `LinkProofs` | done |
| 13 | `SerialTasksProofs`: types, timers, sockets, the dump and what the sniffer forwards | `SerialTasks` | done |
| 14 | `FlashSystemProofs`: session with device, implementing `FlashJob` | `FlashSystem` + `GcfHostProofs` | done |
| 15 | `ConsoleProofs`: editor, query, attempts, arguments, file and reset line | `Console` + `NumberParserProofs` | done |

Left for the proofs: `RightBaud`.

## 3. Modules and how they correspond to the code

**`GcfHost`** is the program for the tasks `-f` and `-r`. `h` is a record with the
fields of `GCF` and `PL_Internal` that matter; `port` in it lists what the current
step did to the port. A C handler becomes an operator from the host to the host
named after state and event (`QueryTimeout` is `ST_BootloaderQuery` on
`EV_TIMEOUT`), and a call to `GCF_HandleEvent` inside a handler becomes an
application of the operator of the state that is current then: `PL_Disconnect` ends
with `Disconnected`, `Write` to a closed port too. So every action is one event of
the loop with all that it sets off. `loop` says where `PL_Loop` stands (`poll`, then
the timer, then input; `broken` once `poll()` has failed, `PollFails`, and the loop is left
although the session is running), `snap` is the result of the last `poll()`: a timer handler
runs in between and may close and reopen the port, exactly as in the code. `job` is
what the command line and the file ask for; it never changes, since
`gcfProcessCommandline` reads the same arguments at every attempt. `window` is
`gcf->maxTime > PL_Time()`.

Data is abstracted to what the handlers tell apart. A received line is a text of a
kind (`id` for a complete greeting, `ready`, `get` with a page number, ...), a V3
frame is a record. `gcf->ascii` is a sequence of texts of at most `AsciiCap`
elements, with the overflow behaviour of `GCF_Received` (`Collected`); bytes of a
bootloader frame are copied over it as `PROT_Packet` does. `gcf->retry` saturates at
`RetryCap`; a wrap of the C `int` after 2^31 timeouts is left out. Timers have no
durations: an armed timer may expire at any iteration.

**`Device`** is external: application firmware and V1 and V3 bootloader, as far as
`gcf.c` tells what it sends and expects. Places of the flash memory hold the old
firmware, nothing, a page of the file or junk.

**`FlashSystem`** closes the host with the device, two queues of at most `LinkCap`
messages, and a budget of faults: loss, corruption (of V1 page numbers and pages,
which carry no checksum of their own; a damaged frame is a lost one), restart of the
device, repeated request, texts that arrive split, a failing `poll()`, a failing `open()`, a
failing reset line, unplugging, and death of the device. With `Prompt` a timer expires only when nothing
is under way; without it, timeouts race answers.

**`FlashJob`** is the abstract specification: flash memory, verdict, and whether the job is
`open`. `FlashSystem!Job` is the refinement mapping: `Flash` is what the device's memory
amounts to, `Verdict` what the user was told, and the job is open while retry time is left
and no failing `poll()` has broken the loop.

**`Link`** is what `GcfHost` takes for granted about frames: `PROT_SendFlagged` puts a
packet, with its escapes and its 16 bit sum, byte by byte into the ring of bytes to
send; `PROT_Flush` writes at most a burst of it; `PL_Loop` writes the rest when
`poll()` reports something (`Leftover`; iterations in which it reports nothing end before
they come there); `PROT_ReceiveFlagged` takes the bytes apart again. Bytes
are bytes in this module. An action is one turn of a loop of the code; `tx` is where
`PROT_SendFlagged` stands, with its `crc`. The line may change or lose bytes, `write()`
may fail or be short, a disconnect empties the ring and may cut off what is under way.
The other side's receiver is the same code, and sending on a closed port, which only
raises `EV_DISCONNECTED`, is `Write` of `GcfHost`. The wrap of the unsigned counters is
invisible (`TX_BUF_SIZE` divides 2^32) and left out.

**`SerialHost`** is the host for the other tasks: the fields of `GCF` and of the platform
layer they use, and the calls they share. `Sniffer` and `DumpFlash` hold the handlers,
written like those of `GcfHost`; `PL_Disconnect` and writing to a closed port apply the
current state's handler of `EV_DISCONNECTED` to the host in the middle of a step.

**`Sniffer`** works on bytes, since markers occur inside frames: `gcf->ascii` with its
rollback (`Collect`), the search for a frame, a step of which each `EV_RX_ASCII` and each
turn of the loop makes, and the copy, move and forwarding of a frame. Each byte carries
the frame it is of, which only the properties read. The 8 bytes of the timestamp and the
length from which a frame is data are constants, smaller in the instance.

**`DumpFlash`** counts addresses in steps; `said` is what the user is told at the end.

**`SerialTasks`** is the loop of `main_posix.c` around them, one action for each part of
an iteration, with the device, the bytes under way, hang-up, and a budget of faults: an
answer refused, lost or repeated, a restart, unplugging, a failing `open()` or `poll()`, a timer
that overtakes an answer or input that is there to be read. `seen` is history for the
properties: frames begun and read in full, frames whose start marker was the last byte
collected, whether the buffer rolled back, records the device refused.

**`NumberParser`** is `U_strtol` over characters, counting modulo `Word`; **`SStream`**
the reading half of the string stream; **`GcfFile`** `GCF_ParseFile` on a file reduced to
size, header fields and the version its name tells. **`Devices`** has the three ways
to find a device on Linux. **`CommandLine`** is `gcfProcessCommandline`: arguments are
sequences of characters (or of the parts of a path the code looks for), an option that
wants an argument leaves it to the next round, and ST_Init runs the whole again for each
attempt, on a machine whose files and devices may have changed.

**`LineEditor`** is `GCF_KeyboardInput` and `GCF_ProcessInput`: `line` is the array, cell 0
to `UI_MAX_INPUT_LENGTH` - 1, `pos` and `size` the two ints. `query` is the parameter query last
sent. `spilt` is history: which of two things has been stored behind an array (section 6), the
terminator of a full line, or the echo of a line that is longer than its buffer (`EchoCap`).
The module goes on with the line as if nothing else had changed, or stops, as it may anywhere. **`TextLine`** promises what an editor does, with the text in front of the cursor
and the text behind it as two sequences; `LineEditor!Editor` is the refinement mapping.

**`HardReset`** is the reset through libgpiod. `gpio.held` counts what the program holds of
the library; an outcome says which call works and what each chip turns out to be. Levels,
pauses and labels are abstracted, in which the two devices and hence the two functions
of each file differ.

**`Console`** puts the last three side by side: they share the process, not their state,
apart from what decides when a key or a reset can happen. Its bounds are named there:
keys are pressed with `-c` only (in the program, every task takes them, and a query that
is typed is sent into whatever runs), there is no attempt once somebody has typed, and
one reset in an attempt.

**`MCGcfHost`, `MCFlashSystem`, `MCLink`, `MCSerialTasks`, `MCConsole`** give the constants
their values for TLC. **`GcfHostProofs`, `FlashSystemProofs`, `LinkProofs`, `ChannelProofs`,
`SerialTasksProofs`, `ConsoleProofs`, `NumberParserProofs`** hold the proofs of section 5, and
**`FoldLemmas`** the induction some of them need.

## 4. Runs

Files have two pages or blocks: the first is not the last, which is what every
comparison in the upload distinguishes. `AsciiCap` 2 or 3 lets the buffer overflow,
`RetryCap` 4 lies beyond the limit of 3 that the code compares with, and blocks and
pages reach beyond the end of the file and beyond the largest block.

| run | asks | instance |
|---|---|---|
| `host` | `TypeOK` (the buffer is never overrun), `NeverStranded`, `QueryBudget`, `VerifyAfterTheEnd`, `EndsForAReason` (no session ends without a word while retry time is left, except by a command line that cannot be processed again, the end of stdin or a failing `poll()`) | open host, six jobs that between them take every way through the reset, both entries to the bootloader, both protocols, aligned and unaligned files; all inputs, all outcomes of system calls |
| `recovers` | `Recovers`: after two faults out of seven kinds, the device is flashed while retry time lasts | four kinds of devices, prompt timers |
| `ends` | `EndsAfterWindow`, `ResetEnds` | devices on the USB bus (`ST_BootloaderConnect`), `-f` and `-r`, racing timers, one fault out of three kinds (a message lost, one repeated, a failing `open()`) |
| `job` | `SysTypeOK`, `PraiseImpliesImage`, `ImplementsJob` | four kinds of devices, prompt timers, up to four messages under way in each direction, three faults out of ten kinds. No deadlock check: see `stalepoll` |
| `link` | `LinkTypeOK`, `NothingInvented`, `AtMostOneLost`, `ArrivesAsSent`, `AllArrive` | two packets, each one without escapes, with escapes in the data, with an escape in the checksum, or too long for the receiver; one byte damaged or lost, one failing `write()`, one disconnect |
| `serial` | `SerialTypeOK`, `SerialNeverStranded`, `SocketPaired`, `ForwardedIsSent`, `NothingElseDropped`, `DumpComplete`, `DumpEnds`, `Resumes` | `-c` plain and interactive, `-s`, `-k`; two faults out of all kinds; three frames, whose data are a start marker, nothing, and an end marker; chunks of every size |
| `console` | `CommandTypeOK`, `NoMemory`, `RightBaud`, `NumbersAsTyped`, `FileWithinRead`, `LineTypeOK`, `EditsLine`, `CommandIsTyped`, `GpioPaired` | 30 command lines, 26 machines, two attempts; four keys on lines of up to 11 characters, echoed into a buffer of 10, four lines to start from; both builds of the reset, every outcome with two chips |
| `marker` | violated: `EveryFrameForwarded` | one frame, no fault |
| `conbee3` | violated: `SerialsTrue` | `-l` on the machines of `console` |
| `dead` | violated: `EndsAfterWindow` | ConBee I that falls silent |
| `behind` | violated: `ServesOnlyTheFile` | V1 file, pages behind its end |
| `stalepoll` | violated: `ReadNeverBlocks` | RaspBee II that restarts |

In `link` the ring (11 bytes) holds one frame and not two, so that it overflows; the
burst (6) is smaller than the longest frame (8), so that a frame takes more than one
call; the receive buffer (4) is filled and overrun by the packets. In the program these
are 2048, 512 and, for the host's own receiver, 256: a V3 frame of a full block
passes 512 bytes once enough of its bytes need an escape. The sum of 16 bits is no
proof against damage: bytes that change places or a zero byte that gets lost are not
noticed. The instance damages one byte and leaves out the loss of a zero.

In `serial` the buffer (12 bytes) holds one frame with its markers and the beginning of
the next, so that it is filled, moved and rolled back (512 bytes in the program, where a
frame has at most 258); a read returns up to 14 bytes and so more than the buffer takes. Two
steps of flash memory are the first and the last. In `console` `Word` is 2^21 instead of
2^32 or 2^64: large enough that the numbers which options accept do not wrap
(`NumberAssumption`), small enough for TLC's integers; 2097163 is 11 modulo `Word`. The
list has room for two devices and three are attached; the line of 11 characters is reached, the one of 10 before it,
and a parameter payload (`ArgCap` 2) too. Two attempts are enough for `NoMemory`, which
compares an attempt with one from a fresh start. Where `unsigned long` has 32
bits, a file of type 90 that ends inside its header (14 to 17 bytes) and gives its size as
2^32 less the missing bytes passes the comparison of sizes; `FileWithinRead` holds where
it has 64, and the instance has no such file.

**Fairness.** `HostStep` is weakly fair: the loop of a running process turns, and
`poll()` returns at the latest when its timeout does. `SysTimeout` is strongly fair:
each iteration may find the timer not yet due, and would disable the action, but time
passes and `PL_Loop` compares with the clock each time. `DeviceStep` and `Reboot` are
weakly fair: a device that is neither dead nor unplugged reads its line and finishes
its boot. `DeviceGivesUp` is strongly fair: a bootloader left in the middle of an
update starts again at some time. No fault is fair, a failing `poll()` among them, and the passing of the retry time
is not: `Recovers` assumes it does not pass, `EndsAfterWindow` that it has.

In `Link` a call of `PROT_SendFlagged` runs to its end, and what is on the line is read.
`Leftover` has no fairness: an iteration in which `poll()` reports nothing ends at
main_posix.c:481-484, before the flush of 504-507, so that with a silent peer and nobody at the
keyboard a rest in the ring stays there. `AllArrive` names this, and says that it is the only
way in which a packet fails to arrive on an undamaged line.

In `SerialTasks` the loop turns (`WF_loop(Turns)`, which says more than weak fairness of a
step: `poll()` returns after 5 ms at the latest), an armed timer expires in the end
(`SF_vars(TimerDue)`, for the reason above), the device answers, and a device that was
unplugged is plugged in again (`WF_vars(Replug)`): `Resumes` says what -c and -s make of
that. `Console` has no fairness: nobody has to type.

## 5. Proofs

Each module of proofs starts with the invariant of its component, has a lemma for each
handler ("from a typed host to a good one", events that are raised inside a handler
included) and one step for each action.

**The host, `GcfHostProofs`**, for every set of jobs, every file and buffer size and every
set of pages and blocks a device may ask for, from `HostAssumption` alone:

* `Invariance`: `Spec => []HostInv`;
* `TypeCorrect`: `[]TypeOK`, and so that `gcf->ascii` is never overrun;
* `AlwaysArmed`: `[]NeverStranded`;
* `AtMostTwoQueries`: `[]QueryBudget`;
* `VerifiesAfterTheEnd`: `Spec => VerifyAfterTheEnd`, a property of steps;
* `EndsWithAReason`: `Spec => EndsForAReason`, another.

`NeverStranded` is not inductive: an armed timer is used up by the event it raises,
and a handler of a state that ignores `EV_TIMEOUT` would not arm it again. `HostInv`
adds `Placed`: a running host rests in a state that handles `EV_TIMEOUT`, `ST_Reset`
only with its substate, and `ST_BootloaderQuery` with a count below the limit where
the count is reset on entry. `Good(g)` is the conjunction of types, `Placed` and
`Armed` for a host value.

For `VerifiesAfterTheEnd` every other handler is shown to be calm: it does not enter the
wait for the verdict. For `EndsWithAReason` a handler is `Wordless` (it says nothing and
does not stop a session that has retry time left) or `Honest` (it may stop it, with a
word). The only one that is neither is the attempt whose command line cannot be processed;
it leaves `ST_Void`. A loop that is left with the session still running was broken by a
`poll()` that failed (`LoopEnds`). `Told` remembers that a session that has said its verdict does not
run, so that no later handler takes the word back.

**The session with a device, `FlashSystemProofs`**, for every device, file, block and line
size and every number and order of faults, from `SystemAssumption` and the assumptions it
extends (the device asks for places of the file, and `Pages` and `Blocks` hold what it may
ask for):

* `SystemTypes`: `[]SysTypeOK`;
* `SystemRunsHost`: `SysSpec => Spec`, the composition is a behaviour of the open host;
* `SessionsAreSound`: so the four theorems above hold of every session with a device;
* `PraiseIsTrue`: if `Prompt`, then `SysSpec => []PraiseImpliesImage`;
* `DoesItsJob`: if `Prompt` and every job is to program, then `SysSpec => ImplementsJob`.

`PraiseImpliesImage` relates what the host says to what the device holds, but what connects
them are words on two lines, some of them lost, repeated, damaged or of an earlier attempt.
The invariant `Sound` is about these words: which of them are on the lines in which state
of the host; that of a question and its answer at most one is under way; that no
matching identification stands behind the answer that starts an update, unless the file is
there; that a "good" word (the acknowledgement of V1, an identification with a matching checksum) is on
its way only while the device holds the file; that an erasure is asked for once and before
anything is reported; and that a device in the middle of an update has not stored what it
has not asked for. `Effect` says what the device may do on a word, `Moves` what a host that
reads may do, `Mild` that a handler does neither, and `Follows` what losses do to a line: the
invariant is proved once for each of these and not once for each pair of handlers.

`Prompt` is a hypothesis and not a convenience: without it both theorems are false, as
section 6 tells, and the runs that let timers race answers (`ends`) check what does not
depend on it. It is satisfiable, the run `job` is an instance. `DoesItsJob` leaves out `-r`,
which has another job than `FlashJob`, and uses that stdin does not end and that command
lines can be processed again; both are what `FlashSystem` does.

**The frames, `LinkProofs` and `ChannelProofs`**, for every size of ring, burst and receive
buffer and every set of packets, from `LinkAssumption`:

* `LinkBounded`: `LinkSpec => []LinkTypeOK`, for every amount of damage. The pointers are
  less than a round apart, so `w % TxSize = rp % TxSize` after a put says that a whole
  round is reached (`OneRound`) and the oldest byte has to go (`PutcKeepsRing`); and then
  `PROT_Flush` finds no more bytes than there are (`WaitingBound`).
* `ChannelDelivers`: `LinkSpec => []ArrivesAsSent`: on an undamaged line the packets read
  are a prefix of those sent, and all of them once everything is read. The bytes on the line
  and in the ring are one stream, and the invariant says where a receiver that read it to its
  end would stand: behind the last frame, or behind as much of a packet as was put so far. A
  put adds a step of that receiver, a read takes its first step away, a flush
  changes nothing.

**`-c`, `-s` and `-k`, `SerialTasksProofs`**, for every script of the sniffer, every size of
the flash memory and of a read and every number of faults:

* `SerialTypes`: `[]SerialTypeOK`, the sniffer's buffer included;
* `NeverStranded`: `[]SerialNeverStranded`;
* `SocketsPaired`: `[]SocketPaired`, since a socket is open only in states that
  `ST_SniffTeardown` follows;
* `DumpsAreComplete`: `[]DumpComplete`. The invariant is a ledger (`Books`): what was asked,
  what was answered and is on the line, what the chunk being read still holds, and what was
  printed. At most one read is open, it is about the present address, and everything below
  that address was printed or refused.
* `ForwardsWhatWasSent`: if `Unmistakable`, then `[]ForwardedIsSent`;
* `NothingIsLost`: if `Unmistakable`, then `[]NothingElseDropped`. The invariant of the sniffer
  (`SniffInv`, `Session`) is that host and stream are in step (`InStep`): there is a stretch of
  what the sniffer said, beginning anywhere in a frame and going on in whole ones, that is what
  `gcf->ascii` holds followed by what is on the line (`Shows`); the frames that begin in it are
  later than those that were sent on (`Ahead`); and each frame that began while the host
  synchronised was sent on, is excused, or has its first byte at or behind the read index
  (`Accounted`). One lemma for each way out of the search says how the stretch moves: all is
  dropped, the index moves on, the rest is awaited, a frame is sent and cut off (`SyncKeeps`); a
  read moves bytes from the line into the buffer and may lose the oldest (`ReadKeeps`), a word
  of the sniffer joins its end (`HeardKeeps`), a closed port ends it (`ClosedKeeps`).

`Unmistakable` is a hypothesis about the packets: no byte of a stretch, except the first of a
frame, is a start marker with a length behind it and an end marker where that length points.
The stream has no escapes, so that a host that begins to read in the middle of a frame cannot
tell such bytes from a frame, and both theorems are false without it. What needs no
hypothesis is that a frame found at its first byte is cut off where it ends, markers inside it
or not. `MCSerialTasks` shows that the packets of the run `serial` satisfy it, two of them with
markers in their data: no length byte there reaches beyond five words, and TLC evaluates
every stretch of five (`FiveWords`).

**The line editor, `ConsoleProofs`**, for every length of the line, every starting text and
every order of keys:

* `LineRefines`: `Spec => EditsLine`. The invariant (`LineOK`) is the bounds of cursor and size
  and, in a line that is not full, the terminator; what is proved of each key is that moving cells one by one is
  insertion or removal between the text in front of the cursor and the text behind it.
* `LineTyped`: `[]LineTypeOK`, with what the invariant leaves out: the number of a query fits
  its byte, and its payload the command; and what lies behind an array is the terminator of a
  full line and, since a key adds one character at most, before that the echo of a long one
  (`SpiltOK`).
* `QueriesAreTyped`: `[]CommandIsTyped`. A text that is taken for a query has a space behind
  its command, so that is the first one the search finds; nothing in front of the number is a
  digit or a blank, so `U_strtol` reads the digits that stand there, and up to 255 they are not
  wrapped (`SmallParse`); what is in front of 0x has no x in it (`PayloadTyped`).

**The command line, `ConsoleProofs`**: `AttemptsHaveNoMemory`, `Spec => NoMemory`, for every
command line, every set of files, devices and tools, and any number of attempts. No invariant
of one state says it: `GCF_Init` does not clear everything, so that an attempt that runs has
fields of the attempt before, and they are right because they were read from the same
arguments. The invariant (`LastAttempt`) is that a program that runs holds what a fresh one
would have made of these arguments on some machine, and the argument is about three readings
of the arguments side by side (`Abreast`): the one before, the one that starts from it, and a
fresh one on the machine of now. Fields that only arguments decide agree in all three; the
others agree in the last two, or nobody has touched them yet, and then `ResetGcf` has put
them where they start. An argument keeps the three abreast (`ArgumentAbreast`), the fold over
the arguments by induction (`ArgumentsAbreast`), and so do the search for the device and the
choice of the task after it. `CommandAssumption` adds that arguments, paths and file names are
sequences.

**What was read, `ConsoleProofs`**: along the same fold over the arguments, every reading keeps
`AsRead`: channel, debug level and retry time are numbers that stand in an argument, and the
file is the one its name led to. So

* `NumbersAreTyped`: `[]NumbersAsTyped`, with `NoSmallFromLarge` below;
* `FlashesWhatWasRead`: if `WideLong`, then `[]FileWithinRead`, for every file, its header
  fields unconstrained. `WideLong` says that a size of the header (32 bits) and 4 do not wrap
  an `unsigned long`; section 4 tells what happens where they do. The run `console` satisfies
  it. `GCF_ParseFile` compares with a difference that may wrap below 0; it then is larger than
  any size a file can give (`Remainder`, `AcceptedFits`).

The other assumption these theorems use is that 115200 is not beyond `Small`, the largest number an
option takes (`CommandAssumption`).

**The fields of the command line, `ConsoleProofs`**: `CommandTypes`, `[]CommandTypeOK`, for
every command line, every set of devices and any number of attempts. Options, enumeration and
the header of the file overwrite the same fields in turn, so the invariant (`FieldsOK`) says of
each field what it may hold (`May`) and is kept by every argument (`Ranged`), by the search for
the device and by the choice of the task. The list of devices never outgrows its array: each
row of the listing adds at most one entry and none to a full list (`OneRow`), and the listing
is a fold over its rows (`ListedFits`). This uses that the array has room for one device and
that what the machine lists is a sequence (`CommandAssumption`).

**The reset line, `ConsoleProofs`**: `ResetsArePaired`, `Spec => []GpioPaired`, for both
builds, every choice of calls that fail, any number of chips and any number of resets: what a
search for the chip took is given back before the next chip is looked at (induction over the
chips), and what a found chip left is given back by each way out.

**Numbers, `NumberParserProofs`**: `NoSmallFromLarge`, about `Strtol` itself, from
`NumberAssumption` (ten times the largest number the program accepts, and nine, is an
`unsigned long`): if a text of any length is accepted as a number from 1 to `Small`, that
number is `Decimal` of the digits behind its blanks, counted without a bound. `U_strtol` takes
a sum that is smaller than the number before it for an overflow; a wrapped sum may be larger,
so the test misses some. What a small result that is not flagged says of the sum before is the
invariant: were the last sum below the number before, it would be flagged, so the number
before is small as well, and ten times a small number and a digit do not reach `Word`
(`SmallAdd`). It is carried along the fold over the digits (`ParseSteps`, `CountSteps`,
`SmallParse`).

**Induction, `FoldLemmas`.** The library's induction theorems take an operator as their
parameter, which no prover at hand can instantiate. `NatSetInduction` takes a set instead,
from the library's theorem about minimal elements; from it come the facts about `FoldLeft`
that the sum of a packet, the commands put on a line and the listing of a dump need
(`FoldExists`, `FoldSteps`).

**What stays with TLC, and why.**

* Liveness: `Recovers`, `EndsAfterWindow`, `ResetEnds`, `AllArrive`, `DumpEnds` and `Resumes`
  are beyond the provers.
* `NothingInvented` and `AtMostOneLost` are not true for every packet and every damage: a sum
  of 16 bits does not notice bytes that change places. What the runs show is that one
  damaged byte of these packets is caught.
* `RightBaud` depends on the names that the kernel and udev give to a device, which the
  instance has and no assumption states. The run `console` goes through all of its machines.

## 6. What the code does otherwise than it says

Found while modelling, each with a run that shows it:

* `dead`: for a ConBee I or RaspBee I, `ST_Program` enters `ST_BootloaderQuery`
  without `EV_ACTION` (gcf.c:667), so `gcf->retry` keeps its value from earlier
  attempts. Once it is past 3, `++gcf->retry == 3` (gcf.c:732) never holds again and a
  silent device is queried for ever. `QueryBudget` and `EndsAfterWindow` therefore
  except these devices.
* `behind`: `Assert(page < end)` (gcf.c:902) is followed, in builds without
  assertions, by a `gcfRetry` without return; `gcf->remaining` wraps and bytes behind
  the firmware are sent.
* `stalepoll`: the timer's handler may close and reopen the port between `poll()` and
  the `read()` that relies on it (main_posix.c:457-494); the read of the new port
  blocks the loop, timers included, until the device speaks.

* `marker`: the search for a frame (gcf.c:1296) needs the byte behind the start marker.
  When the marker is the last byte collected, the code goes on to gcf.c:1326, "no sync
  data found", and drops it: the frame it begins is lost although every byte of it
  arrives. `NothingElseDropped` excuses exactly these frames, and those behind an overrun
  of the buffer.
* `conbee3`: the by-id links are searched for "ConBee_II" before "ConBee_III"
  (linux_get_usb_devices.c:274 and 284), so that a ConBee III is listed as a ConBee II whose
  serial number is `_DEDEADAFFE`. The branch for it is never reached.

Found while modelling, and named as exceptions in a property that holds, `LineTypeOK` (run
`console`; `spilt` remembers them):

* a full line has 1024 characters, and `uiInputLine` as many cells: the guard of gcf.c:2076
  takes the last character, and gcf.c:2085 stores the terminator one behind the array, in the
  first byte of `gcf->retry`. Keys are taken in every task, so the count of queries or of
  attempts may lose its low byte. Delete in such a line reads that byte too, into a cell that
  then becomes the terminator;
* a line of 384 to 1023 characters is echoed into `char buf[384]` (gcf.c:2092-2103), behind
  which the rest, or the terminator, is written over the stack.

Seen, and taken into the properties, without a run of their own:

* a `poll()` that fails (main_posix.c:466-470) breaks the loop, and the program ends with a
  debug message only, whatever retry time is left. `EndsForAReason` and `ImplementsJob`
  name it;
* the rest of a frame that is longer than a burst, or whose `write()` failed, waits in the
  ring until `poll()` reports something or another frame is sent, the host's own timers
  notwithstanding (main_posix.c:481-484 and 504-507). `AllArrive` names this;
* a device on the USB bus that is unplugged for good keeps `ST_BootloaderConnect`
  trying every 500 ms without a look at the retry time (gcf.c:681-701; the comment at
  693 says "todo retry, a couple of times and revert to gcfRetry()"). The run `ends`
  has no fault "unplug" for this reason;
* a refused data request of length 0 satisfies `gcf->remaining == length`
  (gcf.c:1091) and ends the upload; `VerifyAfterTheEnd` names this exception;
* any identification ends the wait for the V3 verdict, also one that was already
  under way, or that a restarted bootloader sends unasked; a checksum that does not
  match is reported and ends the session although retry time is left (gcf.c:1142).
  `Recovers` names this exception; it concerns V3 devices behind a UART.
* an answer to a flash read that arrives twice is taken for the answer to the next read
  (gcf.c:1592 does not look at the address): the dump ends as complete with a gap.
  `DumpComplete` leaves these runs out;
* a CH340 has no rate of its own where only by-id links are available, and a path that
  contains another device's (`/dev/ttyACM10`, `/dev/ttyACM1`) is taken for that one
  (gcf.c:590). `RightBaud` names both;
* a library without `gpiod_api_version` stays loaded (linux_libgpiod_v2_reset.c:85-88), and
  the next reset of a debug build stops at the assertion on the handle. `GpioPaired` names
  this exception.

* a device that is slower than the timers by whole attempts finds requests of an earlier
  attempt on its line after it reported a good image: with `Prompt = FALSE` and room for
  four messages TLC finds a RaspBee II that the user is told is "finished (OK)", and
  that then obeys an old request to erase its memory. It takes timeouts of three attempts,
  seconds each, while the device reads nothing; `PraiseImpliesImage` and `ImplementsJob` are
  therefore stated of devices that answer before a timer expires.

Seen, without influence on a property: a RaspBee's line is requested at offset 17 and set at
offset 0 by the libgpiod 2 file (line 293, marked there as not tested), and failing sets are
only asserted, so that a release build reports the reset as done; the help says that `-d`
takes a device number and that the default host of `-H` is 172.0.0.1, where the code opens
the number as a path and uses 127.0.0.1; `rp -1` and `-s 11abc` are accepted, as `U_strtol`
stops in front of what it does not know; several characters in one read from the keyboard are
ignored; the debug output of a sniffed frame prints `ascii` instead of the frame.

## 7. Not modelled

* The network clients (`net.c`): `USE_NET` is off in the build, and with it binding and
  receiving of the sockets.
* macOS: device enumeration through I/O Kit, and the reset through libftdi.
* The Windows and DOS platform layers: the same loop on other system calls.
* The writing half of the string stream, the byte stream, copying and formatting, and screen
  output: no state of a session depends on them, but for the echo of the line editor, of which
  the model has only that it overruns its buffer. What the two overruns of section 6 do to
  `gcf->retry` and to the stack is left out. Escape sequences of the keyboard are decoded before a key reaches the model, and what is not a key
  is the action `Ignored`.
* `gcfSeq`, the number of a command: no handler looks at the number of an answer.
* The 24 bit address and the checksum of a dump's records, the content of ZEP headers except
  number and length.
* `offset + length` of a data request (gcf.c:1044) is added in `unsigned long` and wraps where
  that has 32 bits and the offset is within 64 KB of its end; `DataStatus` adds without a
  bound, as 64 bits do for a 32 bit offset.
* A ZEP message is written into 256 bytes (gcf.c:1418-1458), so that a packet of more than 224
  would be cut off; `UdpSend` sends it whole. Packets of 802.15.4 have at most 127.
* Signals and failed assertions, which end the process wherever it is.
* Wrap-around of C ints after 2^31 timeouts, and durations: an armed timer may expire at any
  iteration.
