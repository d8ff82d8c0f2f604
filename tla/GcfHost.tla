------------------------------ MODULE GcfHost ------------------------------
(***************************************************************************)
(* The host side of a flash session: the event driven state machine of     *)
(* src/gcf.c for the tasks "program" (-f) and "reset" (-r), and the poll   *)
(* loop of src/main_posix.c that feeds it.                                 *)
(*                                                                         *)
(* The program is one thread.  A handler runs to completion and raises     *)
(* further events by calling GCF_HandleEvent itself, so a handler is an    *)
(* operator from the host's state h to the host's state when it returns,   *)
(* nested events included, and an action is one event of the loop.         *)
(*                                                                         *)
(* This module is an open specification: what the serial port delivers,    *)
(* what the system calls return and when the timer is due are arbitrary.   *)
(* FlashSystem closes it with a device.                                    *)
(***************************************************************************)
EXTENDS Integers, Sequences

CONSTANTS
  Jobs,         \* what the command line may ask for
  FileSize,     \* size of the firmware, in pages (V1) or blocks (V3)
  MaxLen,       \* longest block a V3 data request may ask for
  Pages,        \* page numbers that a GET request read from the port carries
  Blocks,       \* [offset, length] of the data requests read from the port
  AsciiCap,     \* texts that fit in gcf->ascii
  RetryCap      \* gcf->retry is not told apart from here on

DevTypes == {"DEV_CONBEE_1", "DEV_RASPBEE_1", "DEV_CONBEE_2",
             "DEV_RASPBEE_2", "DEV_HIVE", "DEV_UNKNOWN"}
Tasks == {"T_PROGRAM", "T_RESET"}

\* A task, the device type gcfGetDeviceType derives from path and file, whether
\* the file is for a V3 bootloader (gcfFileType >= 30) and whether its size is a
\* multiple of V1_PAGESIZE.  Type 60 is a Hive, types above 9 are not for a
\* ConBee I, and only -f tells a RaspBee II from a RaspBee I.
AllJobs ==
  {j \in [task : Tasks, devType : DevTypes, fileV3 : BOOLEAN, aligned : BOOLEAN] :
     /\ j.devType = "DEV_CONBEE_1" => ~j.fileV3
     /\ j.devType = "DEV_HIVE" => j.fileV3
     /\ j.devType = "DEV_RASPBEE_2" => j.task = "T_PROGRAM"}

ASSUME HostAssumption ==
  /\ Jobs \subseteq AllJobs
  /\ FileSize \in Nat \ {0}
  /\ MaxLen \in Nat \ {0}
  /\ Pages \subseteq Nat
  /\ Blocks \subseteq [offset : Nat, length : Nat]
  /\ AsciiCap \in Nat \ {0}
  /\ RetryCap \in Nat /\ RetryCap > 3

VARIABLES
  job,      \* the job of this run of the program
  h,        \* the GCF and platform structures, and what this step did to the port
  window,   \* TRUE while gcf->maxTime > PL_Time()
  loop,     \* where PL_Loop stands; "broken": behind the break on a failed poll()
  snap      \* result of the last poll(), of which the handlers know nothing

hostVars == <<job, h, window, loop, snap>>

Task == job.task
DevType == job.devType
FileV3 == job.fileV3
PageAligned == job.aligned

-----------------------------------------------------------------------------
(* What travels on the port.                                               *)

\* Lines and requests of a V1 bootloader and of the terminal kind.
Texts == [kind : {"id", "ready", "eol", "valid", "invalid"}]
           \cup [kind : {"get"}, page : Pages]

\* Frames protocol.c has accepted, by what PROT_Packet tells apart.
BtlFrames == [kind : {"idResponse"}, crcOk : BOOLEAN]
               \cup [kind : {"updateResponse"}, success : BOOLEAN]
               \cup [kind : {"dataRequest"}, block : Blocks]
AppFrames == [kind : {"watchdogWritten", "other"}]
Frames    == BtlFrames \cup AppFrames

Input == Texts \cup Frames

\* What one read() returns: one frame, or some texts.
Chunks == {<<m>> : m \in Input} \cup {<<m, n>> : m \in Texts, n \in Texts}

\* Answers to data requests; a block that is not refused lies within the file and
\* fits in the answer.
DataAnswers ==
  {m \in [kind : {"data"}, status : 0..3, offset : Nat, length : Nat] :
     m.status = 0 => m.offset + m.length <= FileSize /\ m.length \in 1..MaxLen}

\* What a step does to the port, in order: system calls and written commands.
Output ==
  [kind : {"close", "open", "hardReset", "queryFw", "uartReset", "ID",
           "idRequest", "sync", "header", "updateRequest"}]
    \cup [kind : {"page"}, page : Nat]
    \cup DataAnswers

\* The states a handler can be left in; ST_Program and ST_V1ProgramWriteHeader
\* are passed through inside one event.
RestStates == {"ST_Init", "ST_Reset", "ST_BootloaderConnect",
               "ST_BootloaderQuery", "ST_V1ProgramSync", "ST_V1ProgramUpload",
               "ST_V1ProgramValidate", "ST_V3ProgramSync",
               "ST_V3ProgramUpload", "ST_V3ProgramWaitID"}
States == RestStates \cup {"ST_Void"}

Verdicts == {"none", "written", "finishedOk", "finishedBad"}

Host == [state    : States,
         substate : {"ST_Void", "ST_ResetUart"},
         retry    : 0..RetryCap,
         ascii    : Seq(Input),
         fd       : {0, 1},
         timer    : BOOLEAN,
         running  : BOOLEAN,
         said     : Verdicts,
         port     : Seq(Output)]

\* Results of the system calls one step may make: open() of the port, the
\* FTDI or GPIO reset, and gcfProcessCommandline reading its file again.
Outcomes == [open : BOOLEAN, reset : BOOLEAN, args : BOOLEAN]

-----------------------------------------------------------------------------
(* Platform layer, main_posix.c.                                           *)

PL_SetTimeout(g)   == [g EXCEPT !.timer = TRUE]
PL_ClearTimeout(g) == [g EXCEPT !.timer = FALSE]
PL_ShutDown(g)     == [g EXCEPT !.running = FALSE]

Port(g, m) == [g EXCEPT !.port = Append(@, m)]

\* PL_Connect fails, or is already connected, or opens the path.
Connects(g, o) == g.fd # 0 \/ o.open
PL_Connect(g, o) ==
  IF g.fd = 0 /\ o.open
  THEN Port([g EXCEPT !.fd = 1], [kind |-> "open"])
  ELSE g

\* Mutants: the window is not looked at, and never looked at.
gcfRetryForEver(g) == PL_SetTimeout([g EXCEPT !.state = "ST_Init", !.substate = "ST_Void"])
gcfRetryNever(g)   == PL_ShutDown(g)

\* gcfRetry: back to ST_Init while the window is open, else shut down.
gcfRetry(g) ==
  IF window
  THEN PL_SetTimeout([g EXCEPT !.state = "ST_Init", !.substate = "ST_Void"])
  ELSE PL_ShutDown(g)

\* ST_Program on EV_RESET_SUCCESS.  The first branch enters ST_BootloaderQuery
\* without EV_ACTION, and so keeps gcf->retry and gcf->ascii.
ProgramResetSuccess(g) ==
  PL_SetTimeout([g EXCEPT !.state = IF DevType \in {"DEV_RASPBEE_1", "DEV_CONBEE_1"}
                                    THEN "ST_BootloaderQuery"
                                    ELSE "ST_BootloaderConnect"])

\* Mutant: -r goes on to the bootloader like -f.
ResetSuccessProgram(g) == ProgramResetSuccess([g EXCEPT !.substate = "ST_Void"])

\* ST_Reset on EV_UART/FTDI/RASPBEE_RESET_SUCCESS.
ResetSuccess(g) ==
  LET a == [g EXCEPT !.substate = "ST_Void"]
  IN  IF Task = "T_RESET" THEN PL_ShutDown(a) ELSE ProgramResetSuccess(a)

\* EV_DISCONNECTED, raised by PL_Disconnect and by PROT_Flush on a closed port.
Disconnected(g) ==
  CASE g.state = "ST_Reset" /\ g.substate = "ST_ResetUart"
                                      -> ResetSuccess(PL_SetTimeout(PL_ClearTimeout(g)))
    [] g.state = "ST_BootloaderQuery" -> gcfRetry(g)
    [] OTHER                          -> g

PL_Disconnect(g) ==
  Disconnected(IF g.fd = 0 THEN g ELSE Port([g EXCEPT !.fd = 0], [kind |-> "close"]))

\* PROT_Write and PROT_SendFlagged: bytes for an open port, else a disconnect event.
Write(g, m) == IF g.fd = 0 THEN Disconnected(g) ELSE Port(g, m)

-----------------------------------------------------------------------------
(* Reset, gcf.c.                                                           *)

ResetUartAction(g, o) ==
  LET a == PL_SetTimeout(g)
      b == PL_Connect(a, o)
      c == IF Task = "T_RESET" THEN Write(b, [kind |-> "queryFw"]) ELSE b
  IN  IF Connects(a, o) THEN Write(c, [kind |-> "uartReset"]) ELSE b

ResetAction(g, o) ==
  ResetUartAction([g EXCEPT !.state = "ST_Reset", !.substate = "ST_ResetUart",
                            !.ascii = << >>], o)

\* ST_ResetFtdi and ST_ResetRaspBee on EV_ACTION: a failed reset counts as done.
HardReset(g, o) ==
  IF o.reset
  THEN ResetSuccess(Port(g, [kind |-> "hardReset"]))
  ELSE ResetSuccess(PL_SetTimeout(g))

\* ST_Reset on EV_UART_RESET_FAILED.
UartResetFailed(g, o) ==
  IF DevType \in {"DEV_CONBEE_1", "DEV_RASPBEE_1", "DEV_RASPBEE_2"} /\ Connects(g, o)
  THEN HardReset(PL_Connect(g, o), o)
  ELSE ResetSuccess(PL_SetTimeout(g))

\* ST_ResetUart on EV_TIMEOUT; the disconnect event finds ST_Void.
ResetUartTimeout(g, o) ==
  UartResetFailed(PL_Disconnect([g EXCEPT !.substate = "ST_Void"]), o)

\* ST_ResetUart on EV_PKG_UART_RESET: only parts behind an FTDI or a UART go on.
ResetUartWatchdog(g) ==
  IF DevType \in {"DEV_RASPBEE_1", "DEV_CONBEE_1"}
  THEN ResetSuccess(PL_ClearTimeout(g))
  ELSE g

\* ST_ResetUart on EV_RX_BTL_PKG_DATA.
ResetUartBtl(g, m) ==
  IF m.kind = "idResponse"
  THEN ResetSuccess(PL_SetTimeout(PL_ClearTimeout(g)))
  ELSE g

\* ST_Init on EV_PL_STARTED and EV_TIMEOUT: the command line is processed again
\* and EV_ACTION starts the attempt.
InitEvent(g, o) ==
  IF ~o.args
  THEN PL_ShutDown([g EXCEPT !.state = "ST_Void", !.substate = "ST_Void"])
  ELSE ResetAction(g, o)

-----------------------------------------------------------------------------
(* Bootloader detection, gcf.c.                                            *)

Has(g, k) == \E i \in DOMAIN g.ascii : g.ascii[i].kind = k
LastText(g) == g.ascii[Len(g.ascii)].kind

\* Mutant: the count of the last attempt is kept.
QueryActionKeepsRetry(g) ==
  PL_SetTimeout([g EXCEPT !.state = "ST_BootloaderQuery", !.ascii = << >>])

QueryAction(g) ==
  PL_SetTimeout([g EXCEPT !.state = "ST_BootloaderQuery", !.retry = 0, !.ascii = << >>])

\* ST_BootloaderConnect on EV_TIMEOUT: without a port it tries for ever.
ConnectTimeout(g, o) ==
  IF Connects(g, o) THEN QueryAction(PL_Connect(g, o)) ELSE PL_SetTimeout(g)

\* gcf->retry + 1; every value from RetryCap on behaves alike until the
\* counter wraps.
RetryPlusOne(n) == IF n < RetryCap THEN n + 1 ELSE n

\* ST_BootloaderQuery on EV_TIMEOUT.
QueryTimeout(g) ==
  LET a == [g EXCEPT !.retry = RetryPlusOne(@)]
      ask == IF FileV3 THEN [kind |-> "idRequest"] ELSE [kind |-> "ID"]
  IN  IF a.retry = 3 THEN gcfRetry(a) ELSE PL_SetTimeout(Write(a, ask))

\* Mutant: the timer that QueryAscii cleared is not set again.
V1SyncActionUnarmed(g) ==
  Write([g EXCEPT !.state = "ST_V1ProgramSync", !.ascii = << >>], [kind |-> "sync"])

V1SyncAction(g) ==
  PL_SetTimeout(Write([g EXCEPT !.state = "ST_V1ProgramSync", !.ascii = << >>],
                      [kind |-> "sync"]))

V3SyncAction(g) ==
  Write(PL_SetTimeout([g EXCEPT !.state = "ST_V3ProgramSync"]), [kind |-> "updateRequest"])

\* A V1 bootloader has introduced itself with a complete line.
QueryAscii(g) ==
  IF Has(g, "id") /\ LastText(g) \in {"id", "eol"}
  THEN V1SyncAction(PL_ClearTimeout(g))
  ELSE g

QueryBtl(g, m) == IF m.kind = "idResponse" THEN V3SyncAction(g) ELSE g

-----------------------------------------------------------------------------
(* V1 upload, gcf.c.                                                       *)

\* Mutant: what was read before the header is kept.
WriteHeaderKeepsAscii(g) ==
  PL_SetTimeout(Write([g EXCEPT !.state = "ST_V1ProgramUpload"], [kind |-> "header"]))

WriteHeaderAction(g) ==
  PL_SetTimeout(Write([g EXCEPT !.state = "ST_V1ProgramUpload", !.ascii = << >>],
                      [kind |-> "header"]))

V1SyncAscii(g) ==
  IF Has(g, "ready") THEN WriteHeaderAction(PL_ClearTimeout(g)) ELSE PL_SetTimeout(g)

\* Page p starts at or behind the end of the firmware.
BehindFile(p) == p >= FileSize

\* Nothing is left to send after page p.  Behind the file "remaining" is zero
\* at the end of an aligned file and wraps to a huge number elsewhere.
LastPage(p) == p = FileSize - 1 \/ (PageAligned /\ p = FileSize)

\* The page request p is served.  A page behind the file first calls gcfRetry
\* and is then handled like any other.
ServePage(g, p) ==
  LET a == [(IF BehindFile(p) THEN gcfRetry(g) ELSE g) EXCEPT !.ascii = << >>]
      b == IF BehindFile(p) /\ LastPage(p) THEN a ELSE Write(a, [kind |-> "page", page |-> p])
  IN  PL_SetTimeout(IF LastPage(p) THEN [b EXCEPT !.state = "ST_V1ProgramValidate"] ELSE b)

\* Only a request that starts the buffer is seen; what precedes it stays there.
UploadAscii(g) ==
  IF g.ascii # << >> /\ g.ascii[1].kind = "get" THEN ServePage(g, g.ascii[1].page) ELSE g

\* Mutant: "invalid CRC" contains "valid CRC".
ValidateAsciiAny(g) ==
  IF Has(g, "valid") \/ Has(g, "invalid")
  THEN PL_ShutDown([g EXCEPT !.said = "written"])
  ELSE PL_SetTimeout(g)

ValidateAscii(g) ==
  IF Has(g, "valid") THEN PL_ShutDown([g EXCEPT !.said = "written"]) ELSE PL_SetTimeout(g)

-----------------------------------------------------------------------------
(* V3 upload, gcf.c.                                                       *)

V3SyncBtl(g, m) ==
  IF m.kind = "updateResponse" /\ m.success
  THEN PL_SetTimeout([g EXCEPT !.state = "ST_V3ProgramUpload"])
  ELSE g

\* Status of the answer to a data request.  The sum is an unsigned long; where that has
\* 32 bits an offset at its end makes it wrap, which is left out.
DataStatus(b) == IF b.offset + b.length > FileSize THEN 1
                 ELSE IF b.length > MaxLen THEN 2
                 ELSE IF b.length = 0 THEN 3
                 ELSE 0

\* What is left of the firmware from the block on; zero for a refused block.
Remaining(b) == IF DataStatus(b) = 0 THEN FileSize - b.offset ELSE 0

\* Mutant: the upload ends when no more than the block is left.
ServeBlockEarly(g, b) ==
  LET a == Write(PL_SetTimeout(g), [kind |-> "data", status |-> DataStatus(b),
                                    offset |-> b.offset, length |-> b.length])
  IN  IF Remaining(b) <= b.length
      THEN PL_SetTimeout([a EXCEPT !.state = "ST_V3ProgramWaitID"])
      ELSE a

ServeBlock(g, b) ==
  LET a == Write(PL_SetTimeout(g), [kind |-> "data", status |-> DataStatus(b),
                                    offset |-> b.offset, length |-> b.length])
  IN  IF Remaining(b) = b.length
      THEN PL_SetTimeout([a EXCEPT !.state = "ST_V3ProgramWaitID"])
      ELSE a

V3UploadBtl(g, m) == IF m.kind = "dataRequest" THEN ServeBlock(g, m.block) ELSE g

\* Any identification ends the session; the checksum is only reported.
WaitIDBtl(g, m) ==
  IF m.kind = "idResponse"
  THEN PL_ShutDown([g EXCEPT !.said = IF m.crcOk THEN "finishedOk" ELSE "finishedBad"])
  ELSE g

-----------------------------------------------------------------------------
(* Input, gcf.c.                                                           *)

\* States in which GCF_Received collects the raw bytes.
Collects(g) == g.state \in {"ST_BootloaderQuery", "ST_V1ProgramSync",
                            "ST_V1ProgramUpload", "ST_V1ProgramValidate"}

\* Mutant: no check for room.
CollectedUnchecked(s, chunk) == s \o chunk

\* Append while there is room; the first text without room is dropped, and
\* with it all that was collected ("sanity rollback").
Collected(s, chunk) ==
  LET room == AsciiCap - Len(s)
  IN  IF Len(chunk) <= room THEN s \o chunk ELSE SubSeq(chunk, room + 2, Len(chunk))

\* EV_RX_ASCII is raised when at least one byte was appended.
Appended(s, chunk) == Len(s) < AsciiCap \/ Len(chunk) > 1

RxAscii(g) ==
  CASE g.state = "ST_BootloaderQuery"   -> QueryAscii(g)
    [] g.state = "ST_V1ProgramSync"     -> V1SyncAscii(g)
    [] g.state = "ST_V1ProgramUpload"   -> UploadAscii(g)
    [] g.state = "ST_V1ProgramValidate" -> ValidateAscii(g)
    [] OTHER                            -> g

RxBtl(g, m) ==
  CASE g.state = "ST_Reset" /\ g.substate = "ST_ResetUart" -> ResetUartBtl(g, m)
    [] g.state = "ST_BootloaderQuery" -> QueryBtl(g, m)
    [] g.state = "ST_V3ProgramSync"   -> V3SyncBtl(g, m)
    [] g.state = "ST_V3ProgramUpload" -> V3UploadBtl(g, m)
    [] g.state = "ST_V3ProgramWaitID" -> WaitIDBtl(g, m)
    [] OTHER                          -> g

\* A bootloader packet is copied over gcf->ascii before its event is raised.
PROT_Packet(g, m) ==
  CASE m \in BtlFrames -> RxBtl([g EXCEPT !.ascii = <<m>>], m)
    [] m.kind = "watchdogWritten" /\ g.state = "ST_Reset" /\ g.substate = "ST_ResetUart"
                       -> ResetUartWatchdog(g)
    [] OTHER           -> g

CollectAscii(g, chunk) ==
  LET a == [g EXCEPT !.ascii = Collected(@, chunk)]
  IN  IF Appended(g.ascii, chunk) THEN RxAscii(a) ELSE a

\* The bytes are first collected as text, then run through PROT_ReceiveFlagged.
GCF_Received(g, chunk) ==
  LET a == IF Collects(g) THEN CollectAscii(g, chunk) ELSE g
  IN  IF chunk[1] \in Frames THEN PROT_Packet(a, chunk[1]) ELSE a

-----------------------------------------------------------------------------
(* PL_Loop, main_posix.c.                                                  *)

Init ==
  /\ job \in Jobs
  /\ h = [state |-> "ST_Init", substate |-> "ST_Void", retry |-> 0, ascii |-> << >>,
          fd |-> 0, timer |-> FALSE, running |-> TRUE, said |-> "none", port |-> << >>]
  /\ window = TRUE
  /\ loop = "start"
  /\ snap = [in |-> FALSE, hup |-> FALSE, eof |-> FALSE]

\* The host as a handler finds it: nothing done to the port yet.
Fresh == [h EXCEPT !.port = << >>]

\* EV_PL_STARTED, before the first iteration.
Started(o) ==
  /\ loop = "start"
  /\ h' = InitEvent(Fresh, o)
  /\ loop' = "poll"
  /\ UNCHANGED <<job, window, snap>>

\* EV_PL_LOOP does nothing for these tasks; poll() looks at the port that is
\* open now and at stdin.
Poll(s) ==
  /\ loop = "poll"
  /\ h.running
  /\ s.in \/ s.hup => h.fd # 0
  /\ snap' = s
  /\ h' = Fresh
  /\ loop' = "timer"
  /\ UNCHANGED <<job, window>>

\* poll() fails, and the loop is left although the session is running.
PollFails ==
  /\ loop = "poll"
  /\ h.running
  /\ h' = Fresh
  /\ loop' = "broken"
  /\ UNCHANGED <<job, window, snap>>

\* After the timer, an iteration ends unless poll() reported something.
AfterTimer == loop' = IF snap.in \/ snap.hup \/ snap.eof THEN "io" ELSE "poll"

TimerNotDue ==
  /\ loop = "timer"
  /\ AfterTimer
  /\ UNCHANGED <<job, h, window, snap>>

\* The timer is one-shot: it is cleared before EV_TIMEOUT is raised.
Expired == [Fresh EXCEPT !.timer = FALSE]

TimeoutIn(states) ==
  /\ loop = "timer"
  /\ h.timer
  /\ h.state \in states
  /\ AfterTimer
  /\ UNCHANGED <<job, window, snap>>

InitTimeout(o) == TimeoutIn({"ST_Init"}) /\ h' = InitEvent(Expired, o)

\* ST_Reset passes the event to its substate; ST_Void ignores it.
ResetTimeout(o) ==
  /\ TimeoutIn({"ST_Reset"})
  /\ h' = IF h.substate = "ST_ResetUart" THEN ResetUartTimeout(Expired, o) ELSE Expired

BootloaderConnectTimeout(o) ==
  TimeoutIn({"ST_BootloaderConnect"}) /\ h' = ConnectTimeout(Expired, o)

BootloaderQueryTimeout ==
  TimeoutIn({"ST_BootloaderQuery"}) /\ h' = QueryTimeout(Expired)

\* The upload states all give the attempt up.
ProgramTimeout ==
  /\ TimeoutIn(RestStates \ {"ST_Init", "ST_Reset", "ST_BootloaderConnect",
                             "ST_BootloaderQuery"})
  /\ h' = gcfRetry(Expired)

\* POLLHUP, POLLERR or POLLNVAL of the descriptor polled: the port that is
\* open by now is closed, and the iteration ends.
HangUp ==
  /\ loop = "io"
  /\ snap.hup
  /\ h' = PL_Disconnect(Fresh)
  /\ loop' = "poll"
  /\ UNCHANGED <<job, window, snap>>

\* read() of the descriptor polled, which a handler may have closed or
\* reopened since.
CanRead == loop = "io" /\ ~snap.hup /\ snap.in /\ h.fd # 0

Receive(chunk) ==
  /\ CanRead
  /\ h' = GCF_Received(Fresh, chunk)
  /\ snap' = [snap EXCEPT !.in = FALSE]
  /\ UNCHANGED <<job, window, loop>>

\* A read of a port whose device is gone returns nothing.
ReadNothing ==
  /\ CanRead
  /\ h' = Fresh
  /\ snap' = [snap EXCEPT !.in = FALSE]
  /\ UNCHANGED <<job, window, loop>>

\* The end of an iteration, after a read that returned nothing if the port was
\* closed meanwhile; the end of stdin ends the loop.
Stdin ==
  /\ loop = "io"
  /\ ~snap.hup
  /\ snap.in => h.fd = 0
  /\ h' = IF snap.eof THEN PL_ShutDown(Fresh) ELSE Fresh
  /\ loop' = "poll"
  /\ UNCHANGED <<job, window, snap>>

\* The loop is left; main returns.
Exit ==
  /\ loop = "broken" \/ (loop = "poll" /\ ~h.running)
  /\ h' = PL_Disconnect(Fresh)
  /\ loop' = "done"
  /\ UNCHANGED <<job, window, snap>>

\* gcf->maxTime passes.
WindowCloses ==
  /\ window
  /\ window' = FALSE
  /\ UNCHANGED <<job, h, loop, snap>>

Terminated == loop = "done" /\ UNCHANGED hostVars

Timeout(o) ==
  \/ InitTimeout(o)
  \/ ResetTimeout(o)
  \/ BootloaderConnectTimeout(o)
  \/ BootloaderQueryTimeout
  \/ ProgramTimeout

Next ==
  \/ \E o \in Outcomes : Started(o) \/ Timeout(o)
  \/ \E s \in [in : BOOLEAN, hup : BOOLEAN, eof : BOOLEAN] : Poll(s)
  \/ PollFails
  \/ TimerNotDue
  \/ HangUp
  \/ \E chunk \in Chunks : Receive(chunk)
  \/ ReadNothing
  \/ Stdin
  \/ Exit
  \/ WindowCloses
  \/ Terminated

Spec == Init /\ [][Next]_hostVars

\* The loop of a running process turns, and an armed timer expires although an
\* iteration may find it not yet due.  When the window closes is left open.
LoopStep ==
  \/ \E o \in Outcomes : Started(o)
  \/ \E s \in [in : BOOLEAN, hup : BOOLEAN, eof : BOOLEAN] : Poll(s)
  \/ PollFails
  \/ TimerNotDue
  \/ HangUp
  \/ \E chunk \in Chunks : Receive(chunk)
  \/ ReadNothing
  \/ Stdin
  \/ Exit

AnyTimeout == \E o \in Outcomes : Timeout(o)

LiveSpec == Spec /\ WF_hostVars(LoopStep) /\ SF_hostVars(AnyTimeout)

-----------------------------------------------------------------------------
(* Properties.                                                             *)

\* The variables keep their types, and gcf->ascii is never overrun.
TypeOK ==
  /\ job \in Jobs
  /\ h \in Host
  /\ Len(h.ascii) <= AsciiCap
  /\ window \in BOOLEAN
  /\ loop \in {"start", "poll", "timer", "io", "broken", "done"}
  /\ snap \in [in : BOOLEAN, hup : BOOLEAN, eof : BOOLEAN]

\* A running session never waits without a timer: whatever the device sends or
\* does not send, in every state, some handler has called PL_SetTimeout and no
\* later one cleared it for good, although the timer is one-shot and five
\* handlers call PL_ClearTimeout (gcf.c 397-1149).
NeverStranded == (h.running /\ loop # "start") => h.timer

\* An attempt asks for the bootloader at most twice: ST_BootloaderQuery gives up
\* on its third timeout (gcf.c 732).  It holds where the state is entered through
\* EV_ACTION, which resets gcf->retry.
QueryBudget ==
  (h.running /\ h.state = "ST_BootloaderQuery"
     /\ DevType \notin {"DEV_RASPBEE_1", "DEV_CONBEE_1"}) => h.retry < 3

\* The step has just handed out the last page or block of the firmware.
HandsOutTheEnd ==
  \E i \in DOMAIN h'.port :
    \/ h'.port[i] = [kind |-> "page", page |-> FileSize - 1]
    \/ /\ h'.port[i].kind = "data"
       /\ h'.port[i].status = 0
       /\ h'.port[i].offset + h'.port[i].length = FileSize

Verifying(g) == g.state \in {"ST_V1ProgramValidate", "ST_V3ProgramWaitID"}

\* The device has asked for nothing: an empty block, or the page directly behind
\* an aligned file.  "remaining" is zero then, and so is the length.
AsksForNothing ==
  \/ \E i \in DOMAIN h'.port : h'.port[i].kind = "data" /\ h'.port[i].length = 0
  \/ PageAligned /\ h'.port = << >>

\* The host waits for the verdict only in the step that hands out the end of the
\* firmware or refuses a request for nothing (gcf.c 924 and 1091): requests out
\* of order, repeated or refused do not end the upload.
VerifyAfterTheEnd ==
  [][(~Verifying(h) /\ Verifying(h')) => HandsOutTheEnd \/ AsksForNothing]_hostVars

\* PL_Loop is not about to be left.
GoesOn == h.running /\ loop \notin {"broken", "done"}

\* What the user was told stands.  A session that programs does not end without a
\* word while retry time is left, whatever goes wrong in whatever state: of what the
\* loop meets only a command line that cannot be processed again, the end of stdin
\* and a poll() that fails end it (gcf.c 397-1149 and 2260-2283, main_posix.c
\* 451-564).  A signal or a failed assertion ends the process wherever it is.
EndsForAReason ==
  [][/\ h.said # "none" => h'.said = h.said
     /\ (Task = "T_PROGRAM" /\ GoesOn /\ ~GoesOn')
          => \/ h'.said # "none"
             \/ ~window
             \/ h'.state = "ST_Void"
             \/ snap.eof
             \/ loop' = "broken"]_hostVars

\* No page behind the end of the firmware is handed out (the assertion at
\* gcf.c 902).
ServesOnlyTheFile ==
  [][\A i \in DOMAIN h'.port : h'.port[i].kind = "page" => h'.port[i].page < FileSize]_hostVars

\* A reset without programming (-r) ends by itself, whatever the device does and
\* whether or not it is there: ST_ResetUart is left by its timer at the latest
\* (gcf.c 418-535).
ResetEnds == (Task = "T_RESET") ~> (loop = "done")

=============================================================================
