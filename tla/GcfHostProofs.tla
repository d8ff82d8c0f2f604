--------------------------- MODULE GcfHostProofs ---------------------------
(***************************************************************************)
(* Proofs about the host for every device type, task and file size, every  *)
(* behaviour of the device and every outcome of the system calls.          *)
(*                                                                         *)
(* A handler starts from a typed host and has to leave one that is typed   *)
(* and, if it still runs, waits in a state that has a timeout, with the    *)
(* timer armed.  There is one lemma for each handler, and one proof step   *)
(* for each action.                                                        *)
(***************************************************************************)
EXTENDS GcfHost, SequenceTheorems, TLAPS

HostOK(g) == g \in Host /\ Len(g.ascii) <= AsciiCap

\* The states in which the budget of queries counts.
Counted == DevType \notin {"DEV_RASPBEE_1", "DEV_CONBEE_1"}

\* A running host rests in a state that handles EV_TIMEOUT.
Placed(g) ==
  g.running => /\ g.state \in RestStates
               /\ g.state = "ST_Reset" => g.substate = "ST_ResetUart"
               /\ (g.state = "ST_BootloaderQuery" /\ Counted) => g.retry < 3

Armed(g) == g.running => g.timer

Good(g) == HostOK(g) /\ Placed(g) /\ Armed(g)

\* The inductive invariant.
HostInv ==
  /\ TypeOK
  /\ loop = "start" => h.state = "ST_Init"
  /\ loop # "start" => Placed(h) /\ Armed(h)

-----------------------------------------------------------------------------
(* Platform layer.                                                         *)

\* An emptied gcf->ascii.
LEMMA EmptyTyped == << >> \in Seq(Input) /\ Len(<< >>) = 0 /\ Len(<< >>) <= AsciiCap
  BY HostAssumption

\* Setting the timer, clearing it and shutting down keep the types.
LEMMA TimerTyped ==
  ASSUME NEW g, HostOK(g)
  PROVE  /\ HostOK(PL_SetTimeout(g))
         /\ HostOK(PL_ClearTimeout(g))
         /\ HostOK(PL_ShutDown(g))
  BY DEF HostOK, Host, PL_SetTimeout, PL_ClearTimeout, PL_ShutDown

\* What is done to the port is recorded and changes nothing else.
LEMMA PortTyped ==
  ASSUME NEW g, HostOK(g), NEW m \in Output
  PROVE  /\ HostOK(Port(g, m))
         /\ Placed(g) => Placed(Port(g, m))
         /\ Armed(g) => Armed(Port(g, m))
  BY DEF HostOK, Host, Port, Placed, Armed

\* Connecting changes the descriptor and the record of the port only.
LEMMA ConnectTyped ==
  ASSUME NEW g, HostOK(g), NEW o
  PROVE  /\ HostOK(PL_Connect(g, o))
         /\ Placed(g) => Placed(PL_Connect(g, o))
         /\ Armed(g) => Armed(PL_Connect(g, o))
<1> DEFINE a == [g EXCEPT !.fd = 1]
<1>1. HostOK(a) /\ (Placed(g) => Placed(a)) /\ (Armed(g) => Armed(a))
  BY DEF HostOK, Host, Placed, Armed
<1>2. [kind |-> "open"] \in Output
  BY DEF Output
<1>3. PL_Connect(g, o) \in {g, Port(a, [kind |-> "open"])}
  BY DEF PL_Connect
<1> QED
  BY <1>1, <1>2, <1>3, PortTyped

\* gcfRetry leaves a host that waits in ST_Init or has shut down.
LEMMA RetryGood ==
  ASSUME NEW g, HostOK(g)
  PROVE  Good(gcfRetry(g))
  BY DEF Good, HostOK, Host, Placed, Armed, gcfRetry, PL_SetTimeout, PL_ShutDown,
         States, RestStates

\* The end of the reset leads to the bootloader, or to the end.
LEMMA ResetSuccessGood ==
  ASSUME NEW g, HostOK(g)
  PROVE  Good(ResetSuccess(g))
  BY HostAssumption
  DEF Good, HostOK, Host, Placed, Armed, ResetSuccess, ProgramResetSuccess, PL_SetTimeout,
      PL_ShutDown, States, RestStates, Counted

\* EV_DISCONNECTED keeps the types, and keeps a good host good.
LEMMA DisconnectedGood ==
  ASSUME NEW g, HostOK(g)
  PROVE  /\ HostOK(Disconnected(g))
         /\ Placed(g) => Placed(Disconnected(g))
         /\ Good(g) => Good(Disconnected(g))
         /\ ~g.running => Placed(Disconnected(g)) /\ Armed(Disconnected(g))
<1> DEFINE a == PL_SetTimeout(PL_ClearTimeout(g))
<1>1. HostOK(a)
  BY TimerTyped
<1>2. Good(ResetSuccess(a)) /\ Good(gcfRetry(g))
  BY <1>1, ResetSuccessGood, RetryGood
<1>3. Disconnected(g) \in {ResetSuccess(a), gcfRetry(g), g}
  BY DEF Disconnected
<1> QED
  BY <1>2, <1>3 DEF Good, Placed, Armed

\* Writing keeps the types and keeps a good host good.
LEMMA WriteGood ==
  ASSUME NEW g, HostOK(g), NEW m \in Output
  PROVE  /\ HostOK(Write(g, m))
         /\ Placed(g) => Placed(Write(g, m))
         /\ Good(g) => Good(Write(g, m))
  BY PortTyped, DisconnectedGood DEF Write, Good

\* So does closing the port.
LEMMA DisconnectGood ==
  ASSUME NEW g, HostOK(g)
  PROVE  /\ HostOK(PL_Disconnect(g))
         /\ Good(g) => Good(PL_Disconnect(g))
         /\ ~g.running => Placed(PL_Disconnect(g)) /\ Armed(PL_Disconnect(g))
<1> DEFINE a == [g EXCEPT !.fd = 0]
           b == Port(a, [kind |-> "close"])
<1>1. HostOK(a) /\ (Placed(g) => Placed(a)) /\ (Armed(g) => Armed(a)) /\ a.running = g.running
  BY DEF HostOK, Host, Placed, Armed
<1>2. [kind |-> "close"] \in Output
  BY DEF Output
<1>3. HostOK(b) /\ (Placed(g) => Placed(b)) /\ (Armed(g) => Armed(b)) /\ b.running = g.running
  BY <1>1, <1>2, PortTyped DEF Port, HostOK, Host
<1>4. PL_Disconnect(g) \in {Disconnected(g), Disconnected(b)}
  BY DEF PL_Disconnect
<1> HIDE DEF a, b
<1> QED
  BY <1>3, <1>4, DisconnectedGood DEF Good

-----------------------------------------------------------------------------
(* Reset.                                                                  *)

\* A new attempt starts with the timer armed, connected or not.
LEMMA ResetActionGood ==
  ASSUME NEW g, HostOK(g), NEW o
  PROVE  Good(ResetAction(g, o))
<1> DEFINE r == [g EXCEPT !.state = "ST_Reset", !.substate = "ST_ResetUart", !.ascii = << >>]
           a == PL_SetTimeout(r)
           b == PL_Connect(a, o)
           c == IF Task = "T_RESET" THEN Write(b, [kind |-> "queryFw"]) ELSE b
<1>1. Good(a)
  <2>1. HostOK(r)
    BY EmptyTyped DEF HostOK, Host, States, RestStates
  <2>2. Placed(r)
    BY DEF Placed, RestStates, HostOK, Host
  <2> QED
    BY <2>1, <2>2 DEF Good, HostOK, Host, Placed, Armed, PL_SetTimeout
<1>2. Good(b)
  BY <1>1, ConnectTyped DEF Good
<1>3. [kind |-> "queryFw"] \in Output /\ [kind |-> "uartReset"] \in Output
  BY DEF Output
<1>4. Good(c)
  BY <1>2, <1>3, WriteGood DEF Good
<1>5. ResetAction(g, o) \in {b, Write(c, [kind |-> "uartReset"])}
  BY DEF ResetAction, ResetUartAction
<1> HIDE DEF r, a, b, c
<1> QED
  BY <1>2, <1>3, <1>4, <1>5, WriteGood DEF Good

\* EV_PL_STARTED and EV_TIMEOUT in ST_Init.
LEMMA InitEventGood ==
  ASSUME NEW g, HostOK(g), NEW o
  PROVE  Good(InitEvent(g, o))
<1>1. Good(PL_ShutDown([g EXCEPT !.state = "ST_Void", !.substate = "ST_Void"]))
  BY DEF Good, HostOK, Host, Placed, Armed, PL_ShutDown, States
<1> QED
  BY <1>1, ResetActionGood DEF InitEvent

\* The timeout of ST_ResetUart, with the reopened port and the hardware reset.
LEMMA ResetUartTimeoutGood ==
  ASSUME NEW g, HostOK(g), NEW o
  PROVE  Good(ResetUartTimeout(g, o))
<1> DEFINE a == [g EXCEPT !.substate = "ST_Void"]
           d == PL_Disconnect(a)
           c == PL_Connect(d, o)
<1>1. HostOK(a)
  BY DEF HostOK, Host
<1>2. HostOK(d)
  BY <1>1, DisconnectGood
<1>3. HostOK(c)
  BY <1>2, ConnectTyped
<1>4. Good(HardReset(c, o))
  <2>1. [kind |-> "hardReset"] \in Output
    BY DEF Output
  <2>2. HostOK(Port(c, [kind |-> "hardReset"])) /\ HostOK(PL_SetTimeout(c))
    BY <1>3, <2>1, PortTyped, TimerTyped
  <2> QED
    BY <2>2, ResetSuccessGood DEF HardReset
<1>5. Good(ResetSuccess(PL_SetTimeout(d)))
  BY <1>2, TimerTyped, ResetSuccessGood
<1> HIDE DEF d, c
<1>6. UartResetFailed(d, o) \in {HardReset(c, o), ResetSuccess(PL_SetTimeout(d))}
  BY DEF UartResetFailed, c
<1>7. ResetUartTimeout(g, o) = UartResetFailed(d, o)
  BY DEF ResetUartTimeout, d
<1> QED
  BY <1>4, <1>5, <1>6, <1>7

-----------------------------------------------------------------------------
(* Detection and upload.                                                   *)

\* A written command is an output.
LEMMA Commands ==
  /\ \A k \in {"ID", "idRequest", "sync", "header", "updateRequest"} : [kind |-> k] \in Output
  /\ \A p \in Nat : [kind |-> "page", page |-> p] \in Output
  /\ \A b \in [offset : Nat, length : Nat] :
        [kind |-> "data", status |-> DataStatus(b), offset |-> b.offset, length |-> b.length]
          \in Output
<1>1. ASSUME NEW b \in [offset : Nat, length : Nat]
      PROVE  /\ DataStatus(b) \in 0..3
             /\ DataStatus(b) = 0 => b.offset + b.length <= FileSize /\ b.length \in 1..MaxLen
  BY HostAssumption DEF DataStatus
<1>2. ASSUME NEW b \in [offset : Nat, length : Nat]
      PROVE  [kind |-> "data", status |-> DataStatus(b), offset |-> b.offset,
              length |-> b.length] \in DataAnswers
  BY <1>1 DEF DataAnswers
<1> QED
  BY <1>2 DEF Output

\* Arming the timer of a placed host makes it good.
LEMMA SetTimeoutGood ==
  ASSUME NEW g, HostOK(g), Placed(g)
  PROVE  Good(PL_SetTimeout(g))
  BY DEF Good, HostOK, Host, Placed, Armed, PL_SetTimeout

\* Writing and then arming the timer does, too.
LEMMA WriteThenTimeoutGood ==
  ASSUME NEW g, HostOK(g), Placed(g), NEW m \in Output
  PROVE  Good(PL_SetTimeout(Write(g, m)))
  BY WriteGood, SetTimeoutGood

\* Entering a state with an empty gcf->ascii.
LEMMA EnterTyped ==
  ASSUME NEW g, HostOK(g),
         NEW st \in RestStates \ {"ST_Reset", "ST_BootloaderQuery"}
  PROVE  LET e == [g EXCEPT !.state = st, !.ascii = << >>]
             f == [g EXCEPT !.state = st]
         IN  HostOK(e) /\ Placed(e) /\ HostOK(f) /\ Placed(f)
  BY EmptyTyped DEF HostOK, Host, Placed, States, RestStates

\* The handlers that enter the next state through EV_ACTION.
LEMMA ActionsGood ==
  ASSUME NEW g, HostOK(g)
  PROVE  /\ Good(QueryAction(g))
         /\ Good(V1SyncAction(g))
         /\ Good(WriteHeaderAction(g))
         /\ Good(V3SyncAction(g))
<1>1. Good(QueryAction(g))
  <2> DEFINE e == [g EXCEPT !.state = "ST_BootloaderQuery", !.retry = 0, !.ascii = << >>]
  <2>1. HostOK(e)
    <3>1. 0 \in 0..RetryCap
      BY HostAssumption
    <3> QED
      BY <3>1, EmptyTyped DEF HostOK, Host, States, RestStates
  <2>2. Placed(e)
    BY DEF HostOK, Host, Placed, RestStates
  <2> QED
    BY <2>1, <2>2, SetTimeoutGood DEF QueryAction
<1>2. Good(V1SyncAction(g))
  BY EnterTyped, WriteThenTimeoutGood, Commands DEF V1SyncAction, RestStates
<1>3. Good(WriteHeaderAction(g))
  BY EnterTyped, WriteThenTimeoutGood, Commands DEF WriteHeaderAction, RestStates
<1>4. Good(V3SyncAction(g))
  BY EnterTyped, SetTimeoutGood, WriteGood, Commands DEF V3SyncAction, RestStates, Good
<1> QED
  BY <1>1, <1>2, <1>3, <1>4

\* The timeout of ST_BootloaderConnect.
LEMMA ConnectTimeoutGood ==
  ASSUME NEW g, HostOK(g), Placed(g), NEW o
  PROVE  Good(ConnectTimeout(g, o))
  BY ConnectTyped, ActionsGood, SetTimeoutGood DEF ConnectTimeout

\* The timeout of ST_BootloaderQuery: the third one gives up.
LEMMA QueryTimeoutGood ==
  ASSUME NEW g, HostOK(g), Placed(g), g.state = "ST_BootloaderQuery"
  PROVE  Good(QueryTimeout(g))
<1> DEFINE a == [g EXCEPT !.retry = RetryPlusOne(@)]
           ask == IF FileV3 THEN [kind |-> "idRequest"] ELSE [kind |-> "ID"]
<1>1. HostOK(a)
  <2>1. RetryPlusOne(g.retry) \in 0..RetryCap
    BY HostAssumption DEF HostOK, Host, RetryPlusOne
  <2> QED
    BY <2>1 DEF HostOK, Host
<1>2. CASE a.retry = 3
  BY <1>1, <1>2, RetryGood DEF QueryTimeout
<1>3. CASE a.retry # 3
  <2>1. Placed(a)
    BY <1>3, HostAssumption DEF HostOK, Host, Placed, RetryPlusOne
  <2>2. ask \in Output
    BY Commands
  <2>3. QueryTimeout(g) = PL_SetTimeout(Write(a, ask))
    BY <1>3 DEF QueryTimeout
  <2> QED
    BY <1>1, <2>1, <2>2, <2>3, WriteThenTimeoutGood
<1> QED
  BY <1>2, <1>3

\* Page requests, also those behind the end of the firmware.
LEMMA ServePageGood ==
  ASSUME NEW g, Good(g), g.state = "ST_V1ProgramUpload", NEW p \in Nat
  PROVE  Good(ServePage(g, p))
<1> DEFINE q == IF BehindFile(p) THEN gcfRetry(g) ELSE g
           a == [q EXCEPT !.ascii = << >>]
           b == IF BehindFile(p) /\ LastPage(p) THEN a
                ELSE Write(a, [kind |-> "page", page |-> p])
           c == IF LastPage(p) THEN [b EXCEPT !.state = "ST_V1ProgramValidate"] ELSE b
<1>1. Good(q)
  BY RetryGood DEF Good
<1>2. HostOK(a) /\ Placed(a)
  BY <1>1, EmptyTyped DEF Good, HostOK, Host, Placed
<1>3. HostOK(b) /\ Placed(b)
  BY <1>2, WriteGood, Commands
<1>4. HostOK(c) /\ Placed(c)
  BY <1>3, EnterTyped DEF RestStates
<1>5. ServePage(g, p) = PL_SetTimeout(c)
  BY DEF ServePage
<1> HIDE DEF c
<1> QED
  BY <1>4, <1>5, SetTimeoutGood

\* Data requests, whatever block they ask for.
LEMMA ServeBlockGood ==
  ASSUME NEW g, Good(g), NEW b \in [offset : Nat, length : Nat]
  PROVE  Good(ServeBlock(g, b))
<1> DEFINE m == [kind |-> "data", status |-> DataStatus(b), offset |-> b.offset,
                 length |-> b.length]
           a == Write(PL_SetTimeout(g), m)
<1>1. Good(a)
  BY SetTimeoutGood, WriteGood, Commands DEF Good
<1>2. Good(PL_SetTimeout([a EXCEPT !.state = "ST_V3ProgramWaitID"]))
  BY <1>1, EnterTyped, SetTimeoutGood DEF Good, RestStates
<1> HIDE DEF a
<1> QED
  BY <1>1, <1>2 DEF ServeBlock, a

-----------------------------------------------------------------------------
(* Input.                                                                  *)

\* What is read from the port, by its kind.
LEMMA InputKinds ==
  /\ \A m \in Input : m.kind = "get" => m.page \in Nat
  /\ \A m \in BtlFrames : m.kind = "dataRequest" => m.block \in [offset : Nat, length : Nat]
  /\ BtlFrames \subseteq Input
  BY HostAssumption DEF Input, Texts, Frames, BtlFrames, AppFrames

\* What is left of a chunk after the first text that found no room.
LEMMA TailTyped ==
  ASSUME NEW S, NEW c \in Seq(S), NEW k \in 1..2, Len(c) = k, NEW n \in Nat
  PROVE  SubSeq(c, n + 2, k) \in Seq(S) /\ Len(SubSeq(c, n + 2, k)) <= 1
<1>1. \A i \in (n + 2)..k : c[i] \in S
  <2>1. \A i \in (n + 2)..k : i \in 1..k
    OBVIOUS
  <2> QED
    BY <2>1
<1>2. n + 2 \in Int /\ k \in Int
  OBVIOUS
<1>3. SubSeq(c, n + 2, k) \in Seq(S)
  BY <1>1, <1>2, SubSeqProperties
<1>4. Len(SubSeq(c, n + 2, k)) = IF n + 2 <= k THEN k - (n + 2) + 1 ELSE 0
  BY <1>1, <1>2, SubSeqProperties
<1>5. (IF n + 2 <= k THEN k - (n + 2) + 1 ELSE 0) <= 1
  OBVIOUS
<1> QED
  BY <1>3, <1>4, <1>5

\* Collecting a chunk never overruns gcf->ascii.
LEMMA CollectedTyped ==
  ASSUME NEW s \in Seq(Input), Len(s) <= AsciiCap, NEW chunk \in Chunks
  PROVE  Collected(s, chunk) \in Seq(Input) /\ Len(Collected(s, chunk)) <= AsciiCap
<1>1. chunk \in Seq(Input) /\ Len(chunk) \in 1..2
  <2>1. Texts \subseteq Input
    BY DEF Input
  <2>2. CASE \E m \in Input : chunk = <<m>>
    BY <2>2
  <2>3. CASE \E m \in Texts, n \in Texts : chunk = <<m, n>>
    BY <2>1, <2>3
  <2> QED
    BY <2>2, <2>3 DEF Chunks
<1> DEFINE room == AsciiCap - Len(s)
<1>2. room \in Nat /\ Len(s) \in Nat
  BY HostAssumption
<1>3. CASE Len(chunk) <= room
  <2>1. Len(s \o chunk) = Len(s) + Len(chunk) /\ s \o chunk \in Seq(Input)
    BY <1>1
  <2>2. Collected(s, chunk) = s \o chunk
    BY <1>3 DEF Collected
  <2> QED
    BY <1>1, <1>2, <1>3, <2>1, <2>2, HostAssumption
<1>4. CASE ~(Len(chunk) <= room)
  <2>1. Collected(s, chunk) = SubSeq(chunk, room + 2, Len(chunk))
    BY <1>4 DEF Collected
  <2>2. Collected(s, chunk) \in Seq(Input) /\ Len(Collected(s, chunk)) <= 1
    BY <1>1, <1>2, <2>1, TailTyped
  <2> QED
    BY <2>2, HostAssumption
<1> QED
  BY <1>3, <1>4

\* EV_RX_ASCII in every state.
LEMMA RxAsciiGood ==
  ASSUME NEW g, Good(g)
  PROVE  Good(RxAscii(g))
<1> HostOK(g) /\ Placed(g)
  BY DEF Good
<1>1. HostOK(PL_ClearTimeout(g))
  BY TimerTyped
<1>2. Good(QueryAscii(g))
  BY <1>1, ActionsGood DEF QueryAscii
<1>3. Good(V1SyncAscii(g))
  BY <1>1, ActionsGood, SetTimeoutGood DEF V1SyncAscii
<1>4. g.state = "ST_V1ProgramUpload" => Good(UploadAscii(g))
  <2>1. g.ascii # << >> => g.ascii[1] \in Input
    BY DEF HostOK, Host
  <2> QED
    BY <2>1, InputKinds, ServePageGood DEF UploadAscii
<1>5. Good(ValidateAscii(g))
  <2>1. Good(PL_ShutDown([g EXCEPT !.said = "written"]))
    BY DEF Good, HostOK, Host, Placed, Armed, PL_ShutDown, Verdicts
  <2> QED
    BY <2>1, SetTimeoutGood DEF ValidateAscii
<1> QED
  BY <1>2, <1>3, <1>4, <1>5 DEF RxAscii

\* EV_RX_BTL_PKG_DATA in every state.
LEMMA RxBtlGood ==
  ASSUME NEW g, Good(g), NEW m \in BtlFrames
  PROVE  Good(RxBtl(g, m))
<1> HostOK(g) /\ Placed(g)
  BY DEF Good
<1>1. Good(ResetUartBtl(g, m))
  BY TimerTyped, ResetSuccessGood DEF ResetUartBtl
<1>2. Good(QueryBtl(g, m))
  BY ActionsGood DEF QueryBtl
<1>3. Good(V3SyncBtl(g, m))
  BY EnterTyped, SetTimeoutGood DEF V3SyncBtl, RestStates
<1>4. Good(V3UploadBtl(g, m))
  BY InputKinds, ServeBlockGood DEF V3UploadBtl
<1>5. Good(WaitIDBtl(g, m))
  <2>1. \A v \in Verdicts : Good(PL_ShutDown([g EXCEPT !.said = v]))
    BY DEF Good, HostOK, Host, Placed, Armed, PL_ShutDown
  <2> QED
    BY <2>1 DEF WaitIDBtl, Verdicts
<1> QED
  BY <1>1, <1>2, <1>3, <1>4, <1>5 DEF RxBtl

\* A frame, whoever sent it.
LEMMA PacketGood ==
  ASSUME NEW g, Good(g), NEW m \in Frames
  PROVE  Good(PROT_Packet(g, m))
<1>1. ASSUME m \in BtlFrames PROVE Good([g EXCEPT !.ascii = <<m>>])
  <2>1. <<m>> \in Seq(Input) /\ Len(<<m>>) = 1 /\ 1 <= AsciiCap
    BY <1>1, InputKinds, HostAssumption
  <2> QED
    BY <2>1 DEF Good, HostOK, Host, Placed, Armed
<1>2. Good(ResetUartWatchdog(g))
  BY TimerTyped, ResetSuccessGood DEF ResetUartWatchdog, Good
<1> QED
  BY <1>1, <1>2, RxBtlGood DEF PROT_Packet

\* Everything GCF_Received does with a chunk.
LEMMA ReceivedGood ==
  ASSUME NEW g, Good(g), NEW chunk \in Chunks
  PROVE  Good(GCF_Received(g, chunk))
<1> DEFINE c == [g EXCEPT !.ascii = Collected(@, chunk)]
           a == IF Collects(g) THEN CollectAscii(g, chunk) ELSE g
<1>1. Good(c)
  <2>1. Collected(g.ascii, chunk) \in Seq(Input) /\ Len(Collected(g.ascii, chunk)) <= AsciiCap
    BY CollectedTyped DEF Good, HostOK, Host
  <2> QED
    BY <2>1 DEF Good, HostOK, Host, Placed, Armed
<1>2. Good(a)
  BY <1>1, RxAsciiGood DEF CollectAscii
<1>3. GCF_Received(g, chunk) = IF chunk[1] \in Frames THEN PROT_Packet(a, chunk[1]) ELSE a
  BY DEF GCF_Received
<1> HIDE DEF a
<1> QED
  BY <1>2, <1>3, PacketGood

-----------------------------------------------------------------------------
(* The invariant.                                                          *)

\* A handler's host is the one the loop keeps, with an empty record of the port;
\* at a timeout the timer is cleared as well.
LEMMA FreshGood ==
  ASSUME HostInv
  PROVE  /\ HostOK(Fresh) /\ HostOK(Expired)
         /\ loop # "start" => Good(Fresh) /\ Placed(Expired)
         /\ Expired.state = h.state /\ Fresh.running = h.running
<1>1. << >> \in Seq(Output)
  OBVIOUS
<1>2. HostOK(Fresh)
  BY <1>1 DEF HostInv, TypeOK, HostOK, Host, Fresh
<1>3. HostOK(Expired)
  BY <1>2 DEF HostOK, Host, Expired
<1>4. loop # "start" => Placed(Fresh) /\ Armed(Fresh)
  BY DEF HostInv, TypeOK, Host, Fresh, Placed, Armed
<1>5. loop # "start" => Placed(Expired)
  BY <1>2, <1>4 DEF HostOK, Host, Expired, Placed
<1>6. Expired.state = h.state /\ Fresh.running = h.running
  BY DEF HostInv, TypeOK, Host, Fresh, Expired
<1> QED
  BY <1>2, <1>3, <1>4, <1>5, <1>6 DEF Good

\* It holds before the program has done anything.
LEMMA InitHolds == Init => HostInv
<1> SUFFICES ASSUME Init PROVE HostInv
  OBVIOUS
<1>1. << >> \in Seq(Output) /\ 0 \in 0..RetryCap
  BY HostAssumption
<1>2. HostOK(h)
  BY <1>1, EmptyTyped DEF Init, HostOK, Host, States, RestStates, Verdicts
<1> QED
  BY <1>2 DEF Init, HostInv, TypeOK, HostOK

\* Every step keeps it.
LEMMA StepHolds == HostInv /\ [Next]_hostVars => HostInv'
<1> SUFFICES ASSUME HostInv, [Next]_hostVars
             PROVE  HostInv'
  OBVIOUS
<1> DEFINE Rest == /\ job' = job
                   /\ window' \in BOOLEAN
                   /\ loop' \in {"poll", "timer", "io", "broken", "done"}
                   /\ snap' \in [in : BOOLEAN, hup : BOOLEAN, eof : BOOLEAN]
<1>a. ASSUME Good(h'), Rest PROVE HostInv'
  BY <1>a DEF HostInv, TypeOK, Good, HostOK, Placed, Armed, Counted, DevType
<1>b. AfterTimer => loop' \in {"poll", "io"}
  BY DEF AfterTimer
<1>c. Good(h) \/ loop = "start"
  BY DEF HostInv, TypeOK, Good, HostOK
<1>1. ASSUME NEW o \in Outcomes, Started(o) PROVE HostInv'
  <2>1. Good(h')
    BY <1>1, FreshGood, InitEventGood DEF Started
  <2> QED
    BY <1>1, <1>a, <2>1 DEF Started, HostInv, TypeOK
<1>2. ASSUME NEW o \in Outcomes, Timeout(o) PROVE HostInv'
  <2>1. loop = "timer" /\ h.timer /\ AfterTimer /\ UNCHANGED <<job, window, snap>>
    BY <1>2 DEF Timeout, InitTimeout, ResetTimeout, BootloaderConnectTimeout,
                BootloaderQueryTimeout, ProgramTimeout, TimeoutIn
  <2>2. HostOK(Expired) /\ Placed(Expired) /\ Expired.state = h.state
    BY <2>1, FreshGood
  <2>t. Good(h') => HostInv'
    BY <1>a, <1>b, <2>1 DEF HostInv, TypeOK
  <2>3. CASE InitTimeout(o)
    <3>1. Good(h')
      BY <2>2, <2>3, InitEventGood DEF InitTimeout
    <3> QED
      BY <3>1, <2>t
  <2>4. CASE ResetTimeout(o)
    <3>1. CASE h.substate = "ST_ResetUart"
      <4>1. Good(h')
        BY <2>2, <2>4, <3>1, ResetUartTimeoutGood DEF ResetTimeout
      <4> QED
        BY <4>1, <2>t
    <3>2. CASE h.substate # "ST_ResetUart"
      <4>1. h' = Expired /\ h.state = "ST_Reset" /\ Expired.substate = h.substate
        BY <2>4, <3>2 DEF ResetTimeout, TimeoutIn, Expired, Fresh, HostInv, TypeOK, Host
      <4>2. ~Expired.running
        BY <2>2, <3>2, <4>1 DEF Placed
      <4>3. Good(h')
        BY <2>2, <4>1, <4>2 DEF Good, Armed
      <4> QED
        BY <4>3, <2>t
    <3> QED
      BY <3>1, <3>2
  <2>5. CASE BootloaderConnectTimeout(o)
    <3>1. Good(h')
      BY <2>2, <2>5, ConnectTimeoutGood DEF BootloaderConnectTimeout
    <3> QED
      BY <3>1, <2>t
  <2>6. CASE BootloaderQueryTimeout
    <3>1. Good(h')
      BY <2>2, <2>6, QueryTimeoutGood DEF BootloaderQueryTimeout, TimeoutIn
    <3> QED
      BY <3>1, <2>t
  <2>7. CASE ProgramTimeout
    <3>1. Good(h')
      BY <2>2, <2>7, RetryGood DEF ProgramTimeout
    <3> QED
      BY <3>1, <2>t
  <2> QED
    BY <1>2, <2>3, <2>4, <2>5, <2>6, <2>7 DEF Timeout
<1>3. ASSUME NEW s \in [in : BOOLEAN, hup : BOOLEAN, eof : BOOLEAN], Poll(s) PROVE HostInv'
  <2>1. Good(h')
    BY <1>3, FreshGood DEF Poll
  <2> QED
    BY <1>3, <1>a, <2>1 DEF Poll, HostInv, TypeOK
<1>13. CASE PollFails
  <2>1. Good(h')
    BY <1>13, FreshGood DEF PollFails
  <2> QED
    BY <1>13, <1>a, <2>1 DEF PollFails, HostInv, TypeOK
<1>4. CASE TimerNotDue
  <2>1. Good(h')
    BY <1>4, <1>c DEF TimerNotDue
  <2> QED
    BY <1>4, <1>a, <1>b, <2>1 DEF TimerNotDue, HostInv, TypeOK
<1>5. CASE HangUp
  <2>1. Good(h')
    BY <1>5, FreshGood, DisconnectGood DEF HangUp
  <2> QED
    BY <1>5, <1>a, <2>1 DEF HangUp, HostInv, TypeOK
<1>6. ASSUME NEW chunk \in Chunks, Receive(chunk) PROVE HostInv'
  <2>1. Good(h')
    BY <1>6, FreshGood, ReceivedGood DEF Receive, CanRead
  <2> QED
    BY <1>6, <1>a, <2>1 DEF Receive, CanRead, HostInv, TypeOK
<1>7. CASE ReadNothing
  <2>1. Good(h')
    BY <1>7, FreshGood DEF ReadNothing, CanRead
  <2> QED
    BY <1>7, <1>a, <2>1 DEF ReadNothing, CanRead, HostInv, TypeOK
<1>8. CASE Stdin
  <2>1. Good(Fresh) /\ Good(PL_ShutDown(Fresh))
    BY <1>8, FreshGood, TimerTyped DEF Stdin, Good, Placed, Armed, PL_ShutDown, HostOK, Host
  <2>2. Good(h')
    BY <1>8, <2>1 DEF Stdin
  <2> QED
    BY <1>8, <1>a, <2>2 DEF Stdin, HostInv, TypeOK
<1>9. CASE Exit
  <2>1. loop # "start" /\ h' = PL_Disconnect(Fresh) /\ loop' = "done"
          /\ UNCHANGED <<job, window, snap>>
    BY <1>9 DEF Exit
  <2>2. Good(Fresh)
    BY <2>1, FreshGood
  <2>3. Good(h')
    BY <2>1, <2>2, DisconnectGood DEF Good
  <2> QED
    BY <1>a, <2>1, <2>3 DEF HostInv, TypeOK
<1>10. CASE WindowCloses
  BY <1>10 DEF WindowCloses, HostInv, TypeOK, Placed, Armed, Counted, DevType
<1>11. CASE UNCHANGED hostVars
  BY <1>11 DEF hostVars, HostInv, TypeOK, Placed, Armed, Counted, DevType
<1>12. CASE Terminated
  BY <1>11, <1>12 DEF Terminated
<1> QED
  BY <1>1, <1>2, <1>3, <1>4, <1>5, <1>6, <1>7, <1>8, <1>9, <1>10, <1>11, <1>12, <1>13 DEF Next

\* The invariant the theorems rest on.
THEOREM Invariance == Spec => []HostInv
  BY InitHolds, StepHolds, PTL DEF Spec

\* The variables keep their types in every behaviour, and no sequence of bytes
\* overruns gcf->ascii (GCF_Received, gcf.c 1866-1928).
THEOREM TypeCorrect == Spec => []TypeOK
<1>1. HostInv => TypeOK
  BY DEF HostInv
<1> QED
  BY <1>1, Invariance, PTL

\* A running session always has its timer armed, for every device type, task and
\* file, whatever the device and the system calls do (gcf.c 397-1149).
THEOREM AlwaysArmed == Spec => []NeverStranded
<1>1. HostInv => NeverStranded
  BY DEF HostInv, NeverStranded, Armed
<1> QED
  BY <1>1, Invariance, PTL

\* Where ST_BootloaderQuery is entered through EV_ACTION, an attempt sends at
\* most two queries (gcf.c 714-806).
THEOREM AtMostTwoQueries == Spec => []QueryBudget
<1>1. HostInv => QueryBudget
  <2> SUFFICES ASSUME HostInv PROVE QueryBudget
    OBVIOUS
  <2>1. CASE loop = "start"
    BY <2>1 DEF QueryBudget, HostInv
  <2>2. CASE loop # "start"
    BY <2>2 DEF QueryBudget, HostInv, Placed, Counted
  <2> QED
    BY <2>1, <2>2
<1> QED
  BY <1>1, Invariance, PTL

-----------------------------------------------------------------------------
(* Where the upload ends.                                                  *)

\* VerifyAfterTheEnd of the record p of the port.
Ended(p) ==
  \/ \E i \in DOMAIN p :
       \/ p[i] = [kind |-> "page", page |-> FileSize - 1]
       \/ p[i].kind = "data" /\ p[i].status = 0 /\ p[i].offset + p[i].length = FileSize
  \/ \E i \in DOMAIN p : p[i].kind = "data" /\ p[i].length = 0
  \/ PageAligned /\ p = << >>

\* The platform layer, the giving up and the end of a reset never lead into a
\* verifying state.
LEMMA PlatformCalm ==
  ASSUME NEW g, HostOK(g), ~Verifying(g)
  PROVE  /\ ~Verifying(PL_SetTimeout(g)) /\ ~Verifying(PL_ClearTimeout(g))
         /\ ~Verifying(PL_ShutDown(g))
         /\ \A m \in Output : ~Verifying(Port(g, m)) /\ ~Verifying(Write(g, m))
         /\ \A o : ~Verifying(PL_Connect(g, o))
         /\ ~Verifying(gcfRetry(g)) /\ ~Verifying(ResetSuccess(g))
         /\ ~Verifying(Disconnected(g)) /\ ~Verifying(PL_Disconnect(g))
<1>1. ASSUME NEW x, HostOK(x), ~Verifying(x)
      PROVE  /\ ~Verifying(PL_SetTimeout(x)) /\ ~Verifying(PL_ClearTimeout(x))
             /\ ~Verifying(PL_ShutDown(x))
             /\ \A m \in Output : ~Verifying(Port(x, m))
  BY <1>1 DEF HostOK, Host, Verifying, PL_SetTimeout, PL_ClearTimeout, PL_ShutDown, Port
<1>2. ASSUME NEW x, HostOK(x), ~Verifying(x)
      PROVE  ~Verifying(gcfRetry(x)) /\ ~Verifying(ResetSuccess(x))
  BY <1>2 DEF HostOK, Host, Verifying, PL_SetTimeout, PL_ShutDown, gcfRetry, ResetSuccess,
              ProgramResetSuccess
<1>3. ASSUME NEW x, HostOK(x), ~Verifying(x) PROVE ~Verifying(Disconnected(x))
  <2> DEFINE a == PL_SetTimeout(PL_ClearTimeout(x))
  <2>1. HostOK(PL_ClearTimeout(x)) /\ ~Verifying(PL_ClearTimeout(x))
    BY <1>1, <1>3, TimerTyped
  <2>2. HostOK(a) /\ ~Verifying(a)
    BY <1>1, <2>1, TimerTyped
  <2>3. ~Verifying(gcfRetry(x)) /\ ~Verifying(ResetSuccess(a))
    BY <1>2, <1>3, <2>2
  <2>4. Disconnected(x) \in {ResetSuccess(a), gcfRetry(x), x}
    BY DEF Disconnected
  <2> HIDE DEF a
  <2> QED
    BY <1>3, <2>3, <2>4
<1>4. ASSUME NEW m \in Output PROVE ~Verifying(Write(g, m))
  BY <1>1, <1>3 DEF Write
<1>5. ASSUME NEW o PROVE ~Verifying(PL_Connect(g, o))
  BY DEF PL_Connect, Port, HostOK, Host, Verifying
<1>6. ~Verifying(PL_Disconnect(g))
  <2> DEFINE a == Port([g EXCEPT !.fd = 0], [kind |-> "close"])
  <2>1. HostOK([g EXCEPT !.fd = 0]) /\ ~Verifying([g EXCEPT !.fd = 0])
    BY DEF HostOK, Host, Verifying
  <2>2. [kind |-> "close"] \in Output
    BY DEF Output
  <2>3. HostOK(a) /\ ~Verifying(a)
    BY <1>1, <2>1, <2>2, PortTyped
  <2>4. PL_Disconnect(g) = Disconnected(IF g.fd = 0 THEN g ELSE a)
    BY DEF PL_Disconnect
  <2> HIDE DEF a
  <2> QED
    BY <1>3, <2>3, <2>4
<1> QED
  BY <1>1, <1>2, <1>3, <1>4, <1>5, <1>6

\* Neither does the start of an attempt or the end of its reset.
LEMMA AttemptCalm ==
  ASSUME NEW g, HostOK(g), NEW o
  PROVE  /\ ~Verifying(InitEvent(g, o))
         /\ ~Verifying(g) => ~Verifying(ResetUartTimeout(g, o))
<1>1. ~Verifying(InitEvent(g, o))
  <2> DEFINE r == [g EXCEPT !.state = "ST_Reset", !.substate = "ST_ResetUart", !.ascii = << >>]
             a == PL_SetTimeout(r)
             b == PL_Connect(a, o)
             c == IF Task = "T_RESET" THEN Write(b, [kind |-> "queryFw"]) ELSE b
  <2>1. HostOK(r) /\ ~Verifying(r)
    BY EmptyTyped DEF HostOK, Host, States, RestStates, Verifying
  <2>2. HostOK(a) /\ ~Verifying(a)
    BY <2>1, TimerTyped, PlatformCalm
  <2> HIDE DEF a
  <2>3. HostOK(b) /\ ~Verifying(b)
    BY <2>2, ConnectTyped, PlatformCalm
  <2> HIDE DEF b
  <2>4. [kind |-> "queryFw"] \in Output /\ [kind |-> "uartReset"] \in Output
    BY DEF Output
  <2>5. HostOK(c) /\ ~Verifying(c)
    BY <2>3, <2>4, WriteGood, PlatformCalm
  <2>6. ResetAction(g, o) \in {b, Write(c, [kind |-> "uartReset"])}
    BY DEF ResetAction, ResetUartAction, a, b
  <2> HIDE DEF c
  <2>7. ~Verifying(ResetAction(g, o))
    BY <2>3, <2>4, <2>5, <2>6, PlatformCalm
  <2>8. ~Verifying(PL_ShutDown([g EXCEPT !.state = "ST_Void", !.substate = "ST_Void"]))
    BY DEF HostOK, Host, PL_ShutDown, Verifying
  <2> QED
    BY <2>7, <2>8 DEF InitEvent
<1>2. ASSUME ~Verifying(g) PROVE ~Verifying(ResetUartTimeout(g, o))
  <2> DEFINE a == [g EXCEPT !.substate = "ST_Void"]
             d == PL_Disconnect(a)
             c == PL_Connect(d, o)
  <2>1. HostOK(a) /\ ~Verifying(a)
    BY <1>2 DEF HostOK, Host, Verifying
  <2>2. HostOK(d) /\ ~Verifying(d)
    BY <2>1, DisconnectGood, PlatformCalm
  <2>3. HostOK(c) /\ ~Verifying(c)
    BY <2>2, ConnectTyped, PlatformCalm
  <2>4. [kind |-> "hardReset"] \in Output
    BY DEF Output
  <2>5. /\ HostOK(Port(c, [kind |-> "hardReset"])) /\ ~Verifying(Port(c, [kind |-> "hardReset"]))
        /\ HostOK(PL_SetTimeout(c)) /\ ~Verifying(PL_SetTimeout(c))
        /\ HostOK(PL_SetTimeout(d)) /\ ~Verifying(PL_SetTimeout(d))
    BY <2>2, <2>3, <2>4, PortTyped, TimerTyped, PlatformCalm
  <2>6. ~Verifying(HardReset(c, o)) /\ ~Verifying(ResetSuccess(PL_SetTimeout(d)))
    BY <2>5, PlatformCalm DEF HardReset
  <2> HIDE DEF d, c
  <2>7. UartResetFailed(d, o) \in {HardReset(c, o), ResetSuccess(PL_SetTimeout(d))}
    BY DEF UartResetFailed, c
  <2>8. ResetUartTimeout(g, o) = UartResetFailed(d, o)
    BY DEF ResetUartTimeout, d
  <2> QED
    BY <2>6, <2>7, <2>8
<1> QED
  BY <1>1, <1>2

\* Nor do the timeouts of the search for the bootloader.
LEMMA SearchCalm ==
  ASSUME NEW g, HostOK(g), ~Verifying(g), NEW o
  PROVE  ~Verifying(ConnectTimeout(g, o)) /\ ~Verifying(QueryTimeout(g))
<1>1. ~Verifying(ConnectTimeout(g, o))
  <2>1. HostOK(PL_Connect(g, o))
    BY ConnectTyped
  <2>2. ~Verifying(QueryAction(PL_Connect(g, o)))
    BY <2>1 DEF QueryAction, PL_SetTimeout, HostOK, Host, Verifying
  <2> QED
    BY <2>2, PlatformCalm DEF ConnectTimeout
<1>2. ~Verifying(QueryTimeout(g))
  <2> DEFINE a == [g EXCEPT !.retry = RetryPlusOne(@)]
             ask == IF FileV3 THEN [kind |-> "idRequest"] ELSE [kind |-> "ID"]
  <2>1. HostOK(a) /\ ~Verifying(a)
    <3>1. RetryPlusOne(g.retry) \in 0..RetryCap
      BY HostAssumption DEF HostOK, Host, RetryPlusOne
    <3> QED
      BY <3>1 DEF HostOK, Host, Verifying
  <2>2. ask \in Output
    BY Commands
  <2>3. QueryTimeout(g) \in {gcfRetry(a), PL_SetTimeout(Write(a, ask))}
    BY DEF QueryTimeout
  <2> HIDE DEF a, ask
  <2>4. HostOK(Write(a, ask)) /\ ~Verifying(Write(a, ask))
    BY <2>1, <2>2, WriteGood, PlatformCalm
  <2> QED
    BY <2>1, <2>3, <2>4, PlatformCalm
<1> QED
  BY <1>1, <1>2

\* A page request ends the upload when it hands out the last page, or when it
\* asks for the page behind an aligned file.
LEMMA ServePageEnds ==
  ASSUME NEW g, HostOK(g), g.fd # 0, g.port = << >>, g.state = "ST_V1ProgramUpload",
         NEW p \in Nat
  PROVE  /\ ServePage(g, p).state \in {"ST_Init", "ST_V1ProgramUpload", "ST_V1ProgramValidate"}
         /\ Verifying(ServePage(g, p)) => Ended(ServePage(g, p).port)
<1> DEFINE q == IF BehindFile(p) THEN gcfRetry(g) ELSE g
           a == [q EXCEPT !.ascii = << >>]
           m == [kind |-> "page", page |-> p]
           b == IF BehindFile(p) /\ LastPage(p) THEN a ELSE Write(a, m)
           c == IF LastPage(p) THEN [b EXCEPT !.state = "ST_V1ProgramValidate"] ELSE b
<1>1. HostOK(q) /\ q.fd # 0 /\ q.port = << >> /\ q.state \in {"ST_Init", "ST_V1ProgramUpload"}
  BY RetryGood DEF Good, HostOK, Host, gcfRetry, PL_SetTimeout, PL_ShutDown
<1>2. HostOK(a) /\ a.fd # 0 /\ a.port = << >> /\ a.state \in {"ST_Init", "ST_V1ProgramUpload"}
  BY <1>1, EmptyTyped DEF HostOK, Host
<1> HIDE DEF q, a
<1>3. m \in Output
  BY Commands
<1>4. b = (IF BehindFile(p) /\ LastPage(p) THEN a ELSE [a EXCEPT !.port = <<m>>])
  BY <1>2 DEF Write, Port
<1> HIDE DEF m
<1>5. HostOK(b) /\ b.state = a.state
        /\ b.port = IF BehindFile(p) /\ LastPage(p) THEN << >> ELSE <<m>>
  <2>1. <<m>> \in Seq(Output)
    BY <1>3
  <2> QED
    BY <1>2, <1>4, <2>1 DEF HostOK, Host
<1> HIDE DEF b
<1>6. c.port = b.port /\ c.state = IF LastPage(p) THEN "ST_V1ProgramValidate" ELSE a.state
  BY <1>5 DEF HostOK, Host
<1>7. ServePage(g, p) = PL_SetTimeout(c)
  BY DEF ServePage, b, a, q, m
<1>8. PL_SetTimeout(c).port = c.port /\ PL_SetTimeout(c).state = c.state
  <2>1. HostOK(c)
    BY <1>5, EnterTyped DEF RestStates
  <2> HIDE DEF c
  <2> QED
    BY <2>1 DEF PL_SetTimeout, HostOK, Host
<1> HIDE DEF c
<1>9. ASSUME LastPage(p) PROVE Ended(c.port)
  <2>1. CASE BehindFile(p)
    <3>1. p # FileSize - 1
      BY <2>1, HostAssumption DEF BehindFile
    <3> QED
      BY <1>5, <1>6, <1>9, <2>1, <3>1 DEF LastPage, Ended
  <2>2. CASE ~BehindFile(p)
    <3>1. p = FileSize - 1
      BY <1>9, <2>2, HostAssumption DEF LastPage, BehindFile
    <3>2. c.port = <<m>>
      BY <1>5, <1>6, <2>2
    <3>3. 1 \in DOMAIN c.port /\ c.port[1] = [kind |-> "page", page |-> FileSize - 1]
      BY <3>1, <3>2 DEF m
    <3> QED
      BY <3>3 DEF Ended
  <2> QED
    BY <2>1, <2>2
<1> QED
  BY <1>2, <1>6, <1>7, <1>8, <1>9 DEF Verifying

\* A data request ends the upload when the block reaches the end of the firmware,
\* or when it is empty.
LEMMA ServeBlockEnds ==
  ASSUME NEW g, HostOK(g), g.fd # 0, ~Verifying(g), NEW b \in [offset : Nat, length : Nat],
         Verifying(ServeBlock(g, b))
  PROVE  Ended(ServeBlock(g, b).port)
<1> DEFINE m == [kind |-> "data", status |-> DataStatus(b), offset |-> b.offset,
                 length |-> b.length]
           s == PL_SetTimeout(g)
           a == Write(s, m)
           e == PL_SetTimeout([a EXCEPT !.state = "ST_V3ProgramWaitID"])
<1>1. HostOK(s) /\ s.fd # 0 /\ ~Verifying(s)
  BY DEF PL_SetTimeout, HostOK, Host, Verifying
<1>2. m \in Output
  BY Commands
<1> HIDE DEF s
<1>3. HostOK(a) /\ ~Verifying(a)
  BY <1>1, <1>2, WriteGood, PlatformCalm
<1>4. a.port = Append(s.port, m)
  BY <1>1 DEF Write, Port, HostOK, Host
<1> HIDE DEF a
<1>5. ServeBlock(g, b) = IF Remaining(b) = b.length THEN e ELSE a
  BY DEF ServeBlock, a, s
<1>6. Remaining(b) = b.length /\ ServeBlock(g, b) = e
  BY <1>3, <1>5
<1>7. e.port = Append(s.port, m)
  BY <1>3, <1>4 DEF PL_SetTimeout, HostOK, Host
<1>8. s.port \in Seq(Output)
  BY <1>1 DEF HostOK, Host
<1> HIDE DEF e
<1>9. Len(s.port) + 1 \in DOMAIN e.port /\ e.port[Len(s.port) + 1] = m
  BY <1>2, <1>7, <1>8
<1>10. m.kind = "data" /\ m.status = DataStatus(b) /\ m.offset = b.offset /\ m.length = b.length
  OBVIOUS
<1> HIDE DEF m
<1>11. CASE DataStatus(b) = 0
  <2>1. b.offset + b.length = FileSize
    BY <1>6, <1>11, HostAssumption DEF Remaining
  <2> QED
    BY <1>6, <1>9, <1>10, <1>11, <2>1 DEF Ended
<1>12. CASE DataStatus(b) # 0
  <2>1. b.length = 0
    BY <1>6, <1>12 DEF Remaining
  <2> QED
    BY <1>6, <1>9, <1>10, <2>1 DEF Ended
<1> QED
  BY <1>11, <1>12

\* What a read as text does to the state, and that it begins the verification
\* only at the end.
LEMMA RxAsciiEnds ==
  ASSUME NEW g, HostOK(g), g.fd # 0, g.port = << >>, ~Verifying(g)
  PROVE  /\ RxAscii(g).state \in {g.state, "ST_Init", "ST_V1ProgramSync", "ST_V1ProgramUpload",
                                  "ST_V1ProgramValidate"}
         /\ Verifying(RxAscii(g)) => Ended(RxAscii(g).port)
<1>1. ASSUME NEW x, HostOK(x), x.fd # 0
      PROVE  /\ V1SyncAction(x).state = "ST_V1ProgramSync"
             /\ WriteHeaderAction(x).state = "ST_V1ProgramUpload"
  <2>1. ASSUME NEW st \in {"ST_V1ProgramSync", "ST_V1ProgramUpload"}, NEW m \in Output
        PROVE  PL_SetTimeout(Write([x EXCEPT !.state = st, !.ascii = << >>], m)).state = st
    <3> DEFINE e == [x EXCEPT !.state = st, !.ascii = << >>]
    <3>1. HostOK(e) /\ e.fd # 0 /\ e.state = st
      BY <1>1, EnterTyped DEF RestStates, HostOK, Host
    <3> HIDE DEF e
    <3>2. Write(e, m) = Port(e, m) /\ HostOK(Port(e, m))
      BY <3>1, PortTyped DEF Write
    <3>3. Port(e, m).state = st
      BY <3>1 DEF Port, HostOK, Host
    <3>4. PL_SetTimeout(Write(e, m)).state = st
      BY <3>2, <3>3 DEF PL_SetTimeout, HostOK, Host
    <3> QED
      BY <3>4 DEF e
  <2> QED
    BY <2>1, Commands DEF V1SyncAction, WriteHeaderAction
<1>2. HostOK(PL_ClearTimeout(g)) /\ PL_ClearTimeout(g).fd # 0
  BY TimerTyped DEF PL_ClearTimeout, HostOK, Host
<1>3. QueryAscii(g).state \in {g.state, "ST_V1ProgramSync"}
  BY <1>1, <1>2 DEF QueryAscii
<1>4. V1SyncAscii(g).state \in {g.state, "ST_V1ProgramUpload"}
  <2>1. PL_SetTimeout(g).state = g.state
    BY DEF PL_SetTimeout, HostOK, Host
  <2> QED
    BY <1>1, <1>2, <2>1 DEF V1SyncAscii
<1>5. ASSUME g.state = "ST_V1ProgramUpload"
      PROVE  /\ UploadAscii(g).state \in {g.state, "ST_Init", "ST_V1ProgramUpload",
                                          "ST_V1ProgramValidate"}
             /\ Verifying(UploadAscii(g)) => Ended(UploadAscii(g).port)
  <2>1. g.ascii # << >> => g.ascii[1] \in Input
    BY DEF HostOK, Host
  <2> QED
    BY <1>5, <2>1, InputKinds, ServePageEnds DEF UploadAscii
<1>6. g.state # "ST_V1ProgramValidate"
  BY DEF Verifying
<1> QED
  BY <1>3, <1>4, <1>5, <1>6 DEF RxAscii, Verifying

\* The same of a bootloader packet.
LEMMA RxBtlEnds ==
  ASSUME NEW g, HostOK(g), ~Verifying(g), NEW m \in BtlFrames,
         g.state = "ST_V3ProgramUpload" => g.fd # 0
  PROVE  Verifying(RxBtl(g, m)) => Ended(RxBtl(g, m).port)
<1>1. ~Verifying(ResetUartBtl(g, m))
  <2>1. HostOK(PL_ClearTimeout(g)) /\ ~Verifying(PL_ClearTimeout(g))
    BY TimerTyped, PlatformCalm
  <2>2. HostOK(PL_SetTimeout(PL_ClearTimeout(g))) /\ ~Verifying(PL_SetTimeout(PL_ClearTimeout(g)))
    BY <2>1, TimerTyped, PlatformCalm
  <2> QED
    BY <2>2, PlatformCalm DEF ResetUartBtl
<1>2. ~Verifying(QueryBtl(g, m))
  <2> DEFINE e == PL_SetTimeout([g EXCEPT !.state = "ST_V3ProgramSync"])
  <2>1. HostOK([g EXCEPT !.state = "ST_V3ProgramSync"])
          /\ ~Verifying([g EXCEPT !.state = "ST_V3ProgramSync"])
    <3>1. HostOK([g EXCEPT !.state = "ST_V3ProgramSync"])
      BY EnterTyped DEF RestStates
    <3>2. [g EXCEPT !.state = "ST_V3ProgramSync"].state = "ST_V3ProgramSync"
      BY DEF HostOK, Host
    <3> QED
      BY <3>1, <3>2 DEF Verifying
  <2>4. HostOK(e) /\ ~Verifying(e)
    BY <2>1, TimerTyped, PlatformCalm
  <2>2. [kind |-> "updateRequest"] \in Output
    BY Commands
  <2>3. V3SyncAction(g) = Write(e, [kind |-> "updateRequest"])
    BY DEF V3SyncAction
  <2> HIDE DEF e
  <2>5. ~Verifying(V3SyncAction(g))
    BY <2>2, <2>3, <2>4, PlatformCalm
  <2> QED
    BY <2>5 DEF QueryBtl
<1>3. ~Verifying(V3SyncBtl(g, m))
  BY DEF V3SyncBtl, PL_SetTimeout, HostOK, Host, Verifying
<1>4. ASSUME g.state = "ST_V3ProgramUpload", Verifying(V3UploadBtl(g, m))
      PROVE  Ended(V3UploadBtl(g, m).port)
  <2>1. m.kind = "dataRequest" /\ V3UploadBtl(g, m) = ServeBlock(g, m.block)
    BY <1>4 DEF V3UploadBtl
  <2>2. m.block \in [offset : Nat, length : Nat]
    BY <2>1, InputKinds
  <2> QED
    BY <1>4, <2>1, <2>2, ServeBlockEnds
<1>5. g.state # "ST_V3ProgramWaitID"
  BY DEF Verifying
<1> QED
  BY <1>1, <1>2, <1>3, <1>4, <1>5 DEF RxBtl

\* A frame does not move a host that verifies already, and its record stays.
LEMMA PacketVerifying ==
  ASSUME NEW g, HostOK(g), Verifying(g), NEW m \in Frames
  PROVE  PROT_Packet(g, m).port = g.port
<1> DEFINE x == [g EXCEPT !.ascii = <<m>>]
<1>1. m \in BtlFrames => HostOK(x) /\ Verifying(x) /\ x.port = g.port
  <2> SUFFICES ASSUME m \in BtlFrames PROVE HostOK(x) /\ Verifying(x) /\ x.port = g.port
    OBVIOUS
  <2>1. <<m>> \in Seq(Input) /\ Len(<<m>>) = 1 /\ 1 <= AsciiCap
    BY InputKinds, HostAssumption
  <2> QED
    BY <2>1 DEF HostOK, Host, Verifying
<1> HIDE DEF x
<1>2. HostOK(x) /\ Verifying(x) => RxBtl(x, m).port = x.port
  BY DEF RxBtl, WaitIDBtl, PL_ShutDown, HostOK, Host, Verifying
<1>3. g.state # "ST_Reset"
  BY DEF Verifying
<1>4. PROT_Packet(g, m) = IF m \in BtlFrames THEN RxBtl(x, m) ELSE g
  BY <1>3 DEF PROT_Packet, x
<1> QED
  BY <1>1, <1>2, <1>4

\* A frame begins the verification only at the end.
LEMMA PacketEnds ==
  ASSUME NEW g, HostOK(g), ~Verifying(g), NEW m \in Frames,
         g.state = "ST_V3ProgramUpload" => g.fd # 0
  PROVE  Verifying(PROT_Packet(g, m)) => Ended(PROT_Packet(g, m).port)
<1> DEFINE x == [g EXCEPT !.ascii = <<m>>]
<1>1. m \in BtlFrames => HostOK(x) /\ ~Verifying(x) /\ x.fd = g.fd /\ x.state = g.state
  <2> SUFFICES ASSUME m \in BtlFrames
               PROVE  HostOK(x) /\ ~Verifying(x) /\ x.fd = g.fd /\ x.state = g.state
    OBVIOUS
  <2>1. <<m>> \in Seq(Input) /\ Len(<<m>>) = 1 /\ 1 <= AsciiCap
    BY InputKinds, HostAssumption
  <2> QED
    BY <2>1 DEF HostOK, Host, Verifying
<1> HIDE DEF x
<1>2. ~Verifying(ResetUartWatchdog(g))
  <2>1. HostOK(PL_ClearTimeout(g)) /\ ~Verifying(PL_ClearTimeout(g))
    BY TimerTyped, PlatformCalm
  <2> QED
    BY <2>1, PlatformCalm DEF ResetUartWatchdog
<1>3. PROT_Packet(g, m) \in {ResetUartWatchdog(g), g} \/ (m \in BtlFrames /\ PROT_Packet(g, m) = RxBtl(x, m))
  BY DEF PROT_Packet, x
<1> QED
  BY <1>1, <1>2, <1>3, RxBtlEnds

\* What one read brings begins the verification only at the end: the bytes taken
\* as text, and the frame found in them.
LEMMA ReceivedEnds ==
  ASSUME NEW g, Good(g), g.fd # 0, g.port = << >>, ~Verifying(g), NEW chunk \in Chunks,
         Verifying(GCF_Received(g, chunk))
  PROVE  Ended(GCF_Received(g, chunk).port)
<1> DEFINE c == [g EXCEPT !.ascii = Collected(@, chunk)]
           a == IF Collects(g) THEN CollectAscii(g, chunk) ELSE g
<1>1. Good(c) /\ c.fd # 0 /\ c.port = << >> /\ ~Verifying(c) /\ c.state = g.state
  <2>1. Collected(g.ascii, chunk) \in Seq(Input) /\ Len(Collected(g.ascii, chunk)) <= AsciiCap
    BY CollectedTyped DEF Good, HostOK, Host
  <2> QED
    BY <2>1 DEF Good, HostOK, Host, Placed, Armed, Verifying
<1>2. CollectAscii(g, chunk) \in {RxAscii(c), c}
  BY DEF CollectAscii
<1> HIDE DEF c
<1>3. Good(RxAscii(c))
  BY <1>1, RxAsciiGood
<1>4. /\ RxAscii(c).state \in {g.state, "ST_Init", "ST_V1ProgramSync", "ST_V1ProgramUpload",
                               "ST_V1ProgramValidate"}
      /\ Verifying(RxAscii(c)) => Ended(RxAscii(c).port)
  BY <1>1, RxAsciiEnds DEF Good
<1>5. Good(a) /\ (Verifying(a) => Ended(a.port))
  BY <1>1, <1>2, <1>3, <1>4
<1>6. GCF_Received(g, chunk) = IF chunk[1] \in Frames THEN PROT_Packet(a, chunk[1]) ELSE a
  BY DEF GCF_Received
<1>7. CASE Verifying(a)
  <2> HIDE DEF a
  <2> QED
    BY <1>5, <1>6, <1>7, PacketVerifying DEF Good
<1>8. CASE ~Verifying(a)
  <2>1. a.state = "ST_V3ProgramUpload" => a.fd # 0
    BY <1>1, <1>2, <1>4 DEF Collects
  <2> HIDE DEF a
  <2> QED
    BY <1>5, <1>6, <1>8, <2>1, PacketEnds DEF Good
<1> QED
  BY <1>7, <1>8

\* Every step but a read leaves a host that does not verify as it is.
LEMMA StepCalm ==
  ASSUME HostInv, [Next]_hostVars, ~Verifying(h), Verifying(h')
  PROVE  Ended(h'.port)
<1>1. HostOK(Fresh) /\ HostOK(Expired) /\ ~Verifying(Fresh) /\ ~Verifying(Expired)
        /\ Fresh.fd = h.fd /\ Fresh.port = << >>
  BY FreshGood DEF HostInv, TypeOK, Host, Fresh, Expired, Verifying
<1>2. ASSUME NEW o \in Outcomes, Started(o) PROVE FALSE
  BY <1>1, <1>2, AttemptCalm DEF Started
<1>3. ASSUME NEW o \in Outcomes, Timeout(o) PROVE FALSE
  <2>1. CASE InitTimeout(o)
    BY <1>1, <2>1, AttemptCalm DEF InitTimeout
  <2>2. CASE ResetTimeout(o)
    BY <1>1, <2>2, AttemptCalm DEF ResetTimeout
  <2>3. CASE BootloaderConnectTimeout(o)
    BY <1>1, <2>3, SearchCalm DEF BootloaderConnectTimeout
  <2>4. CASE BootloaderQueryTimeout
    BY <1>1, <2>4, SearchCalm DEF BootloaderQueryTimeout
  <2>5. CASE ProgramTimeout
    BY <1>1, <2>5, PlatformCalm DEF ProgramTimeout
  <2> QED
    BY <1>3, <2>1, <2>2, <2>3, <2>4, <2>5 DEF Timeout
<1>4. ASSUME NEW s \in [in : BOOLEAN, hup : BOOLEAN, eof : BOOLEAN], Poll(s) PROVE FALSE
  BY <1>1, <1>4 DEF Poll
<1>9. ASSUME PollFails PROVE FALSE
  BY <1>1, <1>9 DEF PollFails
<1>5. ASSUME HangUp \/ Exit PROVE FALSE
  BY <1>1, <1>5, PlatformCalm DEF HangUp, Exit
<1>6. ASSUME NEW chunk \in Chunks, Receive(chunk) PROVE Ended(h'.port)
  <2>1. Good(Fresh) /\ Fresh.fd # 0 /\ h' = GCF_Received(Fresh, chunk)
    BY <1>1, <1>6, FreshGood DEF Receive, CanRead
  <2> QED
    BY <1>1, <1>6, <2>1, ReceivedEnds
<1>7. ASSUME ReadNothing \/ Stdin PROVE FALSE
  BY <1>1, <1>7, PlatformCalm DEF ReadNothing, Stdin
<1>8. ASSUME TimerNotDue \/ WindowCloses \/ Terminated \/ UNCHANGED hostVars PROVE FALSE
  BY <1>8 DEF TimerNotDue, WindowCloses, Terminated, hostVars
<1> QED
  BY <1>2, <1>3, <1>4, <1>5, <1>6, <1>7, <1>8, <1>9 DEF Next

\* The host begins to wait for the verdict only in the step that hands out the
\* end of the firmware or answers a request for nothing, for every size of the
\* firmware and every order, repetition and range of the requests (gcf.c 893-931
\* and 1044-1096).
THEOREM VerifiesAfterTheEnd == Spec => VerifyAfterTheEnd
<1>1. HostInv /\ [Next]_hostVars
        => [(~Verifying(h) /\ Verifying(h')) => HandsOutTheEnd \/ AsksForNothing]_hostVars
  <2> SUFFICES ASSUME HostInv, [Next]_hostVars, ~Verifying(h), Verifying(h')
               PROVE  HandsOutTheEnd \/ AsksForNothing
    OBVIOUS
  <2>1. Ended(h'.port)
    BY StepCalm
  <2> QED
    BY <2>1 DEF Ended, HandsOutTheEnd, AsksForNothing
<1> QED
  BY <1>1, Invariance, PTL DEF Spec, VerifyAfterTheEnd


-----------------------------------------------------------------------------
(* How a session ends.                                                     *)

\* A handler that says nothing: it starts nothing that has been shut down, and it
\* ends a session that programs only when the window has closed.
Wordless(g, r) ==
  /\ r.said = g.said
  /\ r.running => g.running
  /\ (window /\ Task = "T_PROGRAM" /\ g.running) => r.running

\* A handler that may also end the session with a word.
Honest(g, r) ==
  /\ r.said = g.said \/ ~r.running
  /\ g.said # "none" => r.said # "none"
  /\ r.running => g.running
  /\ (window /\ Task = "T_PROGRAM" /\ g.running) => r.running \/ r.said # "none"

\* Two silent handlers, one after the other, are silent; a silent one is honest;
\* two honest ones are honest.
LEMMA OneAfterTheOther ==
  ASSUME NEW g, NEW a, NEW r
  PROVE  /\ Wordless(g, a) /\ Wordless(a, r) => Wordless(g, r)
         /\ Wordless(g, a) => Honest(g, a)
         /\ Honest(g, a) /\ Honest(a, r) => Honest(g, r)
  BY DEF Wordless, Honest

\* A change of the other fields is silent.
LEMMA FieldsSilent ==
  ASSUME NEW g, HostOK(g)
  PROVE  /\ \A v : Wordless(g, [g EXCEPT !.state = v]) /\ Wordless(g, [g EXCEPT !.substate = v])
                   /\ Wordless(g, [g EXCEPT !.ascii = v]) /\ Wordless(g, [g EXCEPT !.retry = v])
                   /\ Wordless(g, [g EXCEPT !.fd = v]) /\ Wordless(g, [g EXCEPT !.timer = v])
                   /\ Wordless(g, [g EXCEPT !.port = v])
         /\ \A st, s : Wordless(g, [g EXCEPT !.state = st, !.ascii = s])
         /\ \A st, n, s : Wordless(g, [g EXCEPT !.state = st, !.retry = n, !.ascii = s])
         /\ \A st, su, s : Wordless(g, [g EXCEPT !.state = st, !.substate = su, !.ascii = s])
  BY DEF HostOK, Host, Wordless

\* The platform layer, the giving up and the end of a reset are silent.
LEMMA PlatformSilent ==
  ASSUME NEW g, HostOK(g)
  PROVE  /\ Wordless(g, PL_SetTimeout(g)) /\ Wordless(g, PL_ClearTimeout(g))
         /\ \A m \in Output : Wordless(g, Port(g, m)) /\ Wordless(g, Write(g, m))
         /\ \A o : Wordless(g, PL_Connect(g, o))
         /\ Wordless(g, gcfRetry(g)) /\ Wordless(g, ResetSuccess(g))
         /\ Wordless(g, Disconnected(g)) /\ Wordless(g, PL_Disconnect(g))
<1>1. ASSUME NEW x, HostOK(x)
      PROVE  /\ Wordless(x, PL_SetTimeout(x)) /\ Wordless(x, PL_ClearTimeout(x))
             /\ \A m : Wordless(x, Port(x, m))
  BY <1>1, FieldsSilent DEF PL_SetTimeout, PL_ClearTimeout, Port
<1>2. ASSUME NEW x, HostOK(x) PROVE Wordless(x, gcfRetry(x))
  BY <1>2 DEF HostOK, Host, Wordless, PL_SetTimeout, PL_ShutDown, gcfRetry
<1>3. ASSUME NEW x, HostOK(x) PROVE Wordless(x, ResetSuccess(x))
  BY <1>3 DEF HostOK, Host, Wordless, PL_SetTimeout, PL_ShutDown, ResetSuccess,
              ProgramResetSuccess
<1>4. ASSUME NEW x, HostOK(x) PROVE Wordless(x, Disconnected(x))
  <2> DEFINE b == PL_ClearTimeout(x)
             a == PL_SetTimeout(b)
  <2>1. HostOK(b) /\ HostOK(a)
    BY <1>4, TimerTyped
  <2>2. Wordless(x, b) /\ Wordless(b, a) /\ Wordless(a, ResetSuccess(a))
    BY <1>1, <1>3, <1>4, <2>1
  <2>3. Disconnected(x) \in {ResetSuccess(a), gcfRetry(x), x}
    BY DEF Disconnected
  <2>4. Wordless(x, x)
    BY DEF Wordless
  <2> HIDE DEF a, b
  <2> QED
    BY <1>2, <1>4, <2>2, <2>3, <2>4, OneAfterTheOther
<1>5. ASSUME NEW m \in Output PROVE Wordless(g, Write(g, m))
  BY <1>1, <1>4 DEF Write
<1>6. ASSUME NEW o PROVE Wordless(g, PL_Connect(g, o))
  <2> DEFINE a == [g EXCEPT !.fd = 1]
  <2>1. HostOK(a) /\ Wordless(g, a)
    BY FieldsSilent DEF HostOK, Host
  <2>2. PL_Connect(g, o) \in {g, Port(a, [kind |-> "open"])}
    BY DEF PL_Connect
  <2> HIDE DEF a
  <2>3. Wordless(g, g)
    BY DEF Wordless
  <2> QED
    BY <1>1, <2>1, <2>2, <2>3, OneAfterTheOther
<1>7. Wordless(g, PL_Disconnect(g))
  <2> DEFINE a == [g EXCEPT !.fd = 0]
             b == Port(a, [kind |-> "close"])
  <2>1. HostOK(a) /\ Wordless(g, a)
    BY FieldsSilent DEF HostOK, Host
  <2>2. [kind |-> "close"] \in Output
    BY DEF Output
  <2>3. PL_Disconnect(g) \in {Disconnected(g), Disconnected(b)}
    BY DEF PL_Disconnect
  <2> HIDE DEF a
  <2>4. HostOK(b) /\ Wordless(a, b)
    BY <1>1, <2>1, <2>2, PortTyped
  <2> HIDE DEF b
  <2> QED
    BY <1>4, <2>1, <2>3, <2>4, OneAfterTheOther
<1> QED
  BY <1>1, <1>2, <1>3, <1>4, <1>5, <1>6, <1>7

\* The start of an attempt is silent unless the command line cannot be processed
\* again; so is the end of its reset.
LEMMA AttemptSilent ==
  ASSUME NEW g, HostOK(g), NEW o
  PROVE  /\ Wordless(g, ResetUartTimeout(g, o))
         /\ o.args => Wordless(g, InitEvent(g, o))
         /\ \/ Wordless(g, InitEvent(g, o))
            \/ /\ InitEvent(g, o).state = "ST_Void" /\ InitEvent(g, o).said = g.said
               /\ ~InitEvent(g, o).running
<1>1. Wordless(g, ResetAction(g, o))
  <2> DEFINE r == [g EXCEPT !.state = "ST_Reset", !.substate = "ST_ResetUart", !.ascii = << >>]
             a == PL_SetTimeout(r)
             b == PL_Connect(a, o)
             c == IF Task = "T_RESET" THEN Write(b, [kind |-> "queryFw"]) ELSE b
  <2>1. HostOK(r)
    BY EmptyTyped DEF HostOK, Host, States, RestStates
  <2>2. Wordless(g, r)
    BY FieldsSilent
  <2>3. ResetAction(g, o) \in {b, Write(c, [kind |-> "uartReset"])}
    BY DEF ResetAction, ResetUartAction
  <2> HIDE DEF r
  <2>4. HostOK(a) /\ Wordless(g, a)
    BY <2>1, <2>2, TimerTyped, PlatformSilent, OneAfterTheOther
  <2> HIDE DEF a
  <2>5. HostOK(b) /\ Wordless(g, b)
    BY <2>4, ConnectTyped, PlatformSilent, OneAfterTheOther
  <2> HIDE DEF b
  <2>6. [kind |-> "queryFw"] \in Output /\ [kind |-> "uartReset"] \in Output
    BY DEF Output
  <2>7. HostOK(c) /\ Wordless(g, c)
    BY <2>5, <2>6, WriteGood, PlatformSilent, OneAfterTheOther
  <2> HIDE DEF c
  <2> QED
    BY <2>3, <2>5, <2>6, <2>7, PlatformSilent, OneAfterTheOther
<1>2. LET v == PL_ShutDown([g EXCEPT !.state = "ST_Void", !.substate = "ST_Void"])
      IN  v.state = "ST_Void" /\ v.said = g.said /\ ~v.running
  BY DEF HostOK, Host, PL_ShutDown
<1>3. Wordless(g, ResetUartTimeout(g, o))
  <2> DEFINE a == [g EXCEPT !.substate = "ST_Void"]
             d == PL_Disconnect(a)
             c == PL_Connect(d, o)
  <2>1. HostOK(a) /\ Wordless(g, a)
    BY FieldsSilent DEF HostOK, Host
  <2>2. HostOK(d) /\ Wordless(g, d)
    BY <2>1, DisconnectGood, PlatformSilent, OneAfterTheOther
  <2>7. ResetUartTimeout(g, o) = UartResetFailed(d, o)
    BY DEF ResetUartTimeout
  <2> HIDE DEF d
  <2>3. HostOK(c) /\ Wordless(g, c)
    BY <2>2, ConnectTyped, PlatformSilent, OneAfterTheOther
  <2>4. UartResetFailed(d, o) \in {HardReset(c, o), ResetSuccess(PL_SetTimeout(d))}
    BY DEF UartResetFailed
  <2> HIDE DEF c
  <2>5. [kind |-> "hardReset"] \in Output
    BY DEF Output
  <2>6. ASSUME NEW x \in {Port(c, [kind |-> "hardReset"]), PL_SetTimeout(c), PL_SetTimeout(d)}
        PROVE  Wordless(g, ResetSuccess(x))
    <3>1. HostOK(x) /\ Wordless(g, x)
      <4>1. CASE x = Port(c, [kind |-> "hardReset"])
        BY <2>3, <2>5, <4>1, PortTyped, PlatformSilent, OneAfterTheOther
      <4>2. CASE x = PL_SetTimeout(c)
        BY <2>3, <4>2, TimerTyped, PlatformSilent, OneAfterTheOther
      <4>3. CASE x = PL_SetTimeout(d)
        BY <2>2, <4>3, TimerTyped, PlatformSilent, OneAfterTheOther
      <4> QED
        BY <2>6, <4>1, <4>2, <4>3
    <3> QED
      BY <3>1, PlatformSilent, OneAfterTheOther
  <2>8. Wordless(g, HardReset(c, o)) /\ Wordless(g, ResetSuccess(PL_SetTimeout(d)))
    BY <2>6 DEF HardReset
  <2> QED
    BY <2>4, <2>7, <2>8
<1> QED
  BY <1>1, <1>2, <1>3 DEF InitEvent

\* The handlers that enter the next state are silent.
LEMMA ActionsSilent ==
  ASSUME NEW g, HostOK(g)
  PROVE  /\ Wordless(g, QueryAction(g))
         /\ Wordless(g, V1SyncAction(g))
         /\ Wordless(g, WriteHeaderAction(g))
         /\ Wordless(g, V3SyncAction(g))
<1>1. Wordless(g, QueryAction(g))
  BY DEF QueryAction, PL_SetTimeout, HostOK, Host, Wordless
<1>2. ASSUME NEW st \in {"ST_V1ProgramSync", "ST_V1ProgramUpload"}, NEW m \in Output
      PROVE  Wordless(g, PL_SetTimeout(Write([g EXCEPT !.state = st, !.ascii = << >>], m)))
  <2> DEFINE e == [g EXCEPT !.state = st, !.ascii = << >>]
             w == Write(e, m)
  <2>1. HostOK(e) /\ Wordless(g, e)
    BY EnterTyped, FieldsSilent DEF RestStates
  <2> HIDE DEF e
  <2>2. HostOK(w) /\ Wordless(g, w)
    BY <2>1, WriteGood, PlatformSilent, OneAfterTheOther
  <2> HIDE DEF w
  <2>3. Wordless(g, PL_SetTimeout(w))
    BY <2>2, PlatformSilent, OneAfterTheOther
  <2> QED
    BY <2>3 DEF w, e
<1>3. Wordless(g, V1SyncAction(g)) /\ Wordless(g, WriteHeaderAction(g))
  BY <1>2, Commands DEF V1SyncAction, WriteHeaderAction
<1>4. Wordless(g, V3SyncAction(g))
  <2> DEFINE e == [g EXCEPT !.state = "ST_V3ProgramSync"]
             s == PL_SetTimeout(e)
  <2>1. HostOK(e) /\ Wordless(g, e)
    BY EnterTyped, FieldsSilent DEF RestStates
  <2>4. V3SyncAction(g) = Write(s, [kind |-> "updateRequest"])
    BY DEF V3SyncAction
  <2> HIDE DEF e
  <2>2. HostOK(s) /\ Wordless(g, s)
    BY <2>1, TimerTyped, PlatformSilent, OneAfterTheOther
  <2> HIDE DEF s
  <2>3. [kind |-> "updateRequest"] \in Output
    BY Commands
  <2> QED
    BY <2>2, <2>3, <2>4, PlatformSilent, OneAfterTheOther
<1> QED
  BY <1>1, <1>3, <1>4

\* So are the timeouts of the search for the bootloader.
LEMMA SearchSilent ==
  ASSUME NEW g, HostOK(g), NEW o
  PROVE  Wordless(g, ConnectTimeout(g, o)) /\ Wordless(g, QueryTimeout(g))
<1>1. Wordless(g, ConnectTimeout(g, o))
  <2>1. HostOK(PL_Connect(g, o)) /\ Wordless(g, PL_Connect(g, o))
    BY ConnectTyped, PlatformSilent
  <2>2. Wordless(g, QueryAction(PL_Connect(g, o)))
    BY <2>1, ActionsSilent, OneAfterTheOther
  <2> QED
    BY <2>2, PlatformSilent DEF ConnectTimeout
<1>2. Wordless(g, QueryTimeout(g))
  <2> DEFINE a == [g EXCEPT !.retry = RetryPlusOne(@)]
             ask == IF FileV3 THEN [kind |-> "idRequest"] ELSE [kind |-> "ID"]
             w == Write(a, ask)
  <2>1. HostOK(a) /\ Wordless(g, a)
    <3>1. RetryPlusOne(g.retry) \in 0..RetryCap
      BY HostAssumption DEF HostOK, Host, RetryPlusOne
    <3> QED
      BY <3>1, FieldsSilent DEF HostOK, Host
  <2>2. ask \in Output
    BY Commands
  <2>3. QueryTimeout(g) \in {gcfRetry(a), PL_SetTimeout(w)}
    BY DEF QueryTimeout
  <2> HIDE DEF a, ask
  <2>4. HostOK(w) /\ Wordless(g, w)
    BY <2>1, <2>2, WriteGood, PlatformSilent, OneAfterTheOther
  <2> HIDE DEF w
  <2> QED
    BY <2>1, <2>3, <2>4, PlatformSilent, OneAfterTheOther
<1> QED
  BY <1>1, <1>2

\* So are the answers to page and data requests, whatever they ask for.
LEMMA ServeSilent ==
  ASSUME NEW g, HostOK(g)
  PROVE  /\ \A p \in Nat : Wordless(g, ServePage(g, p))
         /\ \A b \in [offset : Nat, length : Nat] : Wordless(g, ServeBlock(g, b))
<1>1. ASSUME NEW p \in Nat PROVE Wordless(g, ServePage(g, p))
  <2> DEFINE q == IF BehindFile(p) THEN gcfRetry(g) ELSE g
             a == [q EXCEPT !.ascii = << >>]
             b == IF BehindFile(p) /\ LastPage(p) THEN a
                  ELSE Write(a, [kind |-> "page", page |-> p])
             c == IF LastPage(p) THEN [b EXCEPT !.state = "ST_V1ProgramValidate"] ELSE b
  <2>1. HostOK(q) /\ Wordless(g, q)
    BY RetryGood, PlatformSilent DEF Good, Wordless
  <2>2. ServePage(g, p) = PL_SetTimeout(c)
    BY DEF ServePage
  <2> HIDE DEF q
  <2>3. HostOK(a) /\ Wordless(g, a)
    BY <2>1, EmptyTyped, FieldsSilent, OneAfterTheOther DEF HostOK, Host
  <2> HIDE DEF a
  <2>4. HostOK(b) /\ Wordless(g, b)
    BY <2>3, WriteGood, Commands, PlatformSilent, OneAfterTheOther
  <2> HIDE DEF b
  <2>5. HostOK(c) /\ Wordless(g, c)
    BY <2>4, EnterTyped, FieldsSilent, OneAfterTheOther DEF RestStates
  <2> HIDE DEF c
  <2> QED
    BY <2>2, <2>5, PlatformSilent, OneAfterTheOther
<1>2. ASSUME NEW b \in [offset : Nat, length : Nat] PROVE Wordless(g, ServeBlock(g, b))
  <2> DEFINE m == [kind |-> "data", status |-> DataStatus(b), offset |-> b.offset,
                   length |-> b.length]
             s == PL_SetTimeout(g)
             a == Write(s, m)
             e == [a EXCEPT !.state = "ST_V3ProgramWaitID"]
  <2>1. HostOK(s) /\ Wordless(g, s) /\ m \in Output
    BY TimerTyped, PlatformSilent, Commands
  <2>2. ServeBlock(g, b) \in {PL_SetTimeout(e), a}
    BY DEF ServeBlock
  <2> HIDE DEF s, m
  <2>3. HostOK(a) /\ Wordless(g, a)
    BY <2>1, WriteGood, PlatformSilent, OneAfterTheOther
  <2> HIDE DEF a
  <2>4. HostOK(e) /\ Wordless(g, e)
    BY <2>3, EnterTyped, FieldsSilent, OneAfterTheOther DEF RestStates
  <2> HIDE DEF e
  <2> QED
    BY <2>2, <2>3, <2>4, PlatformSilent, OneAfterTheOther
<1> QED
  BY <1>1, <1>2

\* What is read as text is answered honestly: only the device's "valid" ends the
\* session with a word.
LEMMA RxAsciiHonest ==
  ASSUME NEW g, HostOK(g)
  PROVE  Honest(g, RxAscii(g))
<1>1. HostOK(PL_ClearTimeout(g)) /\ Wordless(g, PL_ClearTimeout(g)) /\ Wordless(g, g)
  BY TimerTyped, PlatformSilent DEF Wordless
<1>2. Wordless(g, QueryAscii(g)) /\ Wordless(g, V1SyncAscii(g))
  BY <1>1, ActionsSilent, PlatformSilent, OneAfterTheOther DEF QueryAscii, V1SyncAscii
<1>3. Wordless(g, UploadAscii(g))
  <2>1. g.ascii # << >> => g.ascii[1] \in Input
    BY DEF HostOK, Host
  <2> QED
    BY <1>1, <2>1, InputKinds, ServeSilent DEF UploadAscii
<1>4. Honest(g, ValidateAscii(g))
  <2>1. Honest(g, PL_ShutDown([g EXCEPT !.said = "written"]))
    BY DEF PL_ShutDown, HostOK, Host, Honest
  <2> QED
    BY <2>1, PlatformSilent, OneAfterTheOther DEF ValidateAscii
<1> QED
  BY <1>1, <1>2, <1>3, <1>4, OneAfterTheOther DEF RxAscii

\* So is a bootloader packet: only the identification after the upload ends the
\* session with a word.
LEMMA PacketHonest ==
  ASSUME NEW g, HostOK(g), NEW m \in Frames
  PROVE  Honest(g, PROT_Packet(g, m))
<1>1. ASSUME NEW x, HostOK(x) PROVE Wordless(x, ResetSuccess(PL_SetTimeout(PL_ClearTimeout(x))))
  <2>1. HostOK(PL_ClearTimeout(x)) /\ Wordless(x, PL_ClearTimeout(x))
    BY <1>1, TimerTyped, PlatformSilent
  <2>2. HostOK(PL_SetTimeout(PL_ClearTimeout(x))) /\ Wordless(x, PL_SetTimeout(PL_ClearTimeout(x)))
    BY <2>1, TimerTyped, PlatformSilent, OneAfterTheOther
  <2> QED
    BY <2>2, PlatformSilent, OneAfterTheOther
<1>2. Wordless(g, ResetUartWatchdog(g))
  <2>1. HostOK(PL_ClearTimeout(g)) /\ Wordless(g, PL_ClearTimeout(g)) /\ Wordless(g, g)
    BY TimerTyped, PlatformSilent DEF Wordless
  <2> QED
    BY <2>1, PlatformSilent, OneAfterTheOther DEF ResetUartWatchdog
<1>3. ASSUME NEW x, HostOK(x), m \in BtlFrames PROVE Honest(x, RxBtl(x, m))
  <2>1. Wordless(x, ResetUartBtl(x, m)) /\ Wordless(x, x)
    BY <1>1, <1>3 DEF ResetUartBtl, Wordless
  <2>2. Wordless(x, QueryBtl(x, m))
    BY <1>3, <2>1, ActionsSilent DEF QueryBtl
  <2>3. Wordless(x, V3SyncBtl(x, m))
    <3> DEFINE e == [x EXCEPT !.state = "ST_V3ProgramUpload"]
    <3>1. HostOK(e) /\ Wordless(x, e)
      BY <1>3, EnterTyped, FieldsSilent DEF RestStates
    <3>2. V3SyncBtl(x, m) \in {PL_SetTimeout(e), x}
      BY DEF V3SyncBtl
    <3> HIDE DEF e
    <3> QED
      BY <2>1, <3>1, <3>2, PlatformSilent, OneAfterTheOther
  <2>4. Wordless(x, V3UploadBtl(x, m))
    BY <1>3, <2>1, InputKinds, ServeSilent DEF V3UploadBtl
  <2>5. Honest(x, WaitIDBtl(x, m))
    <3>1. \A v \in {"finishedOk", "finishedBad"} : Honest(x, PL_ShutDown([x EXCEPT !.said = v]))
      BY <1>3 DEF PL_ShutDown, HostOK, Host, Honest
    <3> QED
      BY <2>1, <3>1, OneAfterTheOther DEF WaitIDBtl
  <2> QED
    BY <2>1, <2>2, <2>3, <2>4, <2>5, OneAfterTheOther DEF RxBtl
<1>4. m \in BtlFrames => HostOK([g EXCEPT !.ascii = <<m>>]) /\ Wordless(g, [g EXCEPT !.ascii = <<m>>])
  <2> SUFFICES ASSUME m \in BtlFrames
               PROVE  HostOK([g EXCEPT !.ascii = <<m>>]) /\ Wordless(g, [g EXCEPT !.ascii = <<m>>])
    OBVIOUS
  <2>1. <<m>> \in Seq(Input) /\ Len(<<m>>) = 1 /\ 1 <= AsciiCap
    BY InputKinds, HostAssumption
  <2> QED
    BY <2>1, FieldsSilent DEF HostOK, Host
<1>5. Wordless(g, g)
  BY DEF Wordless
<1> QED
  BY <1>2, <1>3, <1>4, <1>5, OneAfterTheOther DEF PROT_Packet

\* Everything a read brings is answered honestly.
LEMMA ReceivedHonest ==
  ASSUME NEW g, Good(g), NEW chunk \in Chunks
  PROVE  Honest(g, GCF_Received(g, chunk))
<1> DEFINE c == [g EXCEPT !.ascii = Collected(@, chunk)]
           a == IF Collects(g) THEN CollectAscii(g, chunk) ELSE g
<1>1. Good(c) /\ Wordless(g, c) /\ Wordless(g, g)
  <2>1. Collected(g.ascii, chunk) \in Seq(Input) /\ Len(Collected(g.ascii, chunk)) <= AsciiCap
    BY CollectedTyped DEF Good, HostOK, Host
  <2> QED
    BY <2>1, FieldsSilent DEF Good, HostOK, Host, Placed, Armed, Wordless
<1>2. CollectAscii(g, chunk) \in {RxAscii(c), c}
  BY DEF CollectAscii
<1>3. GCF_Received(g, chunk) = IF chunk[1] \in Frames THEN PROT_Packet(a, chunk[1]) ELSE a
  BY DEF GCF_Received
<1> HIDE DEF c
<1>4. Good(RxAscii(c)) /\ Honest(c, RxAscii(c))
  BY <1>1, RxAsciiGood, RxAsciiHonest DEF Good
<1>5. Honest(g, a) /\ HostOK(a)
  BY <1>1, <1>2, <1>4, OneAfterTheOther DEF Good
<1> HIDE DEF a
<1> QED
  BY <1>3, <1>5, PacketHonest, OneAfterTheOther

\* Once the user has been told the result, the loop does not turn again: what is
\* left of the iteration and the exit say nothing.
Told ==
  h.said # "none" => /\ ~h.running
                     /\ loop \in {"io", "poll", "done"}
                     /\ loop = "io" => ~snap.in

\* The loop is broken only out of a poll() that fails, and left only when it is broken
\* or the program has been shut down.
LEMMA LoopEnds ==
  ASSUME [Next]_hostVars, GoesOn, h'.running, ~GoesOn'
  PROVE  loop' = "broken"
<1>1. ASSUME loop' \in {"poll", "timer", "io"} PROVE FALSE
  BY <1>1 DEF GoesOn
<1>2. ASSUME NEW o \in Outcomes, Started(o) PROVE FALSE
  BY <1>1, <1>2 DEF Started
<1>3. ASSUME NEW o \in Outcomes, Timeout(o) PROVE FALSE
  BY <1>1, <1>3 DEF Timeout, InitTimeout, ResetTimeout, BootloaderConnectTimeout,
                    BootloaderQueryTimeout, ProgramTimeout, TimeoutIn, AfterTimer
<1>4. ASSUME NEW s \in [in : BOOLEAN, hup : BOOLEAN, eof : BOOLEAN], Poll(s) PROVE FALSE
  BY <1>1, <1>4 DEF Poll
<1>5. ASSUME TimerNotDue \/ HangUp \/ Stdin PROVE FALSE
  BY <1>1, <1>5 DEF TimerNotDue, AfterTimer, HangUp, Stdin
<1>6. ASSUME NEW chunk \in Chunks, Receive(chunk) PROVE FALSE
  BY <1>1, <1>6 DEF Receive, CanRead
<1>7. ASSUME ReadNothing PROVE FALSE
  BY <1>1, <1>7 DEF ReadNothing, CanRead
<1>8. ASSUME Exit PROVE FALSE
  BY <1>8 DEF Exit, GoesOn
<1>9. ASSUME WindowCloses \/ Terminated \/ UNCHANGED hostVars PROVE FALSE
  BY <1>9 DEF WindowCloses, Terminated, hostVars, GoesOn
<1>10. ASSUME PollFails PROVE loop' = "broken"
  BY <1>10 DEF PollFails
<1> QED
  BY <1>2, <1>3, <1>4, <1>5, <1>6, <1>7, <1>8, <1>9, <1>10 DEF Next

\* Every step keeps what was told, starts nothing that has been shut down and ends
\* a session only for a reason.
LEMMA StepEnds ==
  ASSUME HostInv, Told, [Next]_hostVars
  PROVE  /\ Told'
         /\ h.said # "none" => h'.said = h.said
         /\ h'.running => h.running
         /\ (Task = "T_PROGRAM" /\ h.running /\ ~h'.running)
              => \/ h'.said # "none" \/ ~window \/ snap.eof
                 \/ h'.state = "ST_Void" /\ loop \in {"start", "timer"}
<1> DEFINE Reason == \/ h'.said # "none" \/ ~window \/ snap.eof
                     \/ h'.state = "ST_Void" /\ loop \in {"start", "timer"}
           Ends == /\ Told'
                   /\ h.said # "none" => h'.said = h.said
                   /\ h'.running => h.running
                   /\ (Task = "T_PROGRAM" /\ h.running /\ ~h'.running) => Reason
<1>1. /\ HostOK(Fresh) /\ HostOK(Expired) /\ Wordless(h, Fresh) /\ Wordless(h, Expired)
      /\ Fresh.said = h.said /\ Fresh.running = h.running /\ window \in BOOLEAN
  BY FreshGood DEF HostInv, TypeOK, Host, Fresh, Expired, Wordless
<1>2. ASSUME Wordless(h, h'), loop' \in {"io", "poll", "done"}, loop' = "io" => ~snap'.in
      PROVE  Ends
  BY <1>1, <1>2 DEF Wordless, Told
<1>3. ASSUME Wordless(h, h'), h.said = "none" PROVE Ends
  BY <1>1, <1>3 DEF Wordless, Told
<1>4. ASSUME NEW o, NEW g \in {Fresh, Expired}, h' = InitEvent(g, o), h.said = "none",
             loop \in {"start", "timer"}
      PROVE  Ends
  <2>1. HostOK(g) /\ Wordless(h, g)
    BY <1>1
  <2>2. CASE Wordless(g, h')
    <3>1. Wordless(h, h')
      BY <2>1, <2>2, OneAfterTheOther
    <3> QED
      BY <1>3, <1>4, <3>1
  <2>3. CASE h'.state = "ST_Void" /\ h'.said = g.said /\ ~h'.running
    BY <1>4, <2>1, <2>3 DEF Wordless, Told
  <2> QED
    BY <1>4, <2>1, <2>2, <2>3, AttemptSilent
<1>5. ASSUME NEW o \in Outcomes, Started(o) PROVE Ends
  BY <1>4, <1>5 DEF Started, Told
<1>6. ASSUME NEW o \in Outcomes, Timeout(o) PROVE Ends
  <2>1. h.said = "none"
    BY <1>6 DEF Timeout, InitTimeout, ResetTimeout, BootloaderConnectTimeout,
                BootloaderQueryTimeout, ProgramTimeout, TimeoutIn, Told
  <2>2. CASE InitTimeout(o)
    BY <1>4, <2>1, <2>2 DEF InitTimeout, TimeoutIn
  <2>3. ASSUME Wordless(Expired, h') PROVE Ends
    BY <1>1, <1>3, <2>1, <2>3, OneAfterTheOther
  <2>4. CASE ResetTimeout(o)
    BY <1>1, <2>3, <2>4, AttemptSilent DEF ResetTimeout, Wordless
  <2>5. CASE BootloaderConnectTimeout(o)
    BY <1>1, <2>3, <2>5, SearchSilent DEF BootloaderConnectTimeout
  <2>6. CASE BootloaderQueryTimeout
    BY <1>1, <2>3, <2>6, SearchSilent DEF BootloaderQueryTimeout
  <2>7. CASE ProgramTimeout
    BY <1>1, <2>3, <2>7, PlatformSilent DEF ProgramTimeout
  <2> QED
    BY <1>6, <2>2, <2>4, <2>5, <2>6, <2>7 DEF Timeout
<1>7. ASSUME NEW s \in [in : BOOLEAN, hup : BOOLEAN, eof : BOOLEAN], Poll(s) PROVE Ends
  BY <1>1, <1>3, <1>7 DEF Poll, Told
<1>14. CASE PollFails
  BY <1>1, <1>3, <1>14 DEF PollFails, Told
<1>8. CASE TimerNotDue
  BY <1>3, <1>8 DEF TimerNotDue, Told, Wordless
<1>9. CASE HangUp \/ Exit
  <2>1. Wordless(h, h')
    BY <1>1, <1>9, PlatformSilent, OneAfterTheOther DEF HangUp, Exit
  <2> QED
    BY <1>2, <1>9, <2>1 DEF HangUp, Exit
<1>10. ASSUME NEW chunk \in Chunks, Receive(chunk) PROVE Ends
  <2>1. h.said = "none" /\ loop' = loop /\ loop = "io" /\ ~snap'.in
    BY <1>10 DEF Receive, CanRead, Told, HostInv, TypeOK
  <2>2. Good(Fresh) /\ h' = GCF_Received(Fresh, chunk)
    BY <1>10, <2>1, FreshGood DEF Receive
  <2>3. Honest(h, h')
    BY <1>1, <1>10, <2>2, ReceivedHonest, OneAfterTheOther
  <2> QED
    BY <1>1, <2>1, <2>3 DEF Honest, Told
<1>11. CASE ReadNothing
  <2>1. Wordless(h, h') /\ loop' = "io" /\ ~snap'.in
    BY <1>1, <1>11 DEF ReadNothing, CanRead, HostInv, TypeOK
  <2> QED
    BY <1>2, <2>1
<1>12. CASE Stdin
  <2>1. PL_ShutDown(Fresh).said = h.said /\ ~PL_ShutDown(Fresh).running
    BY <1>1 DEF PL_ShutDown, HostOK, Host
  <2>2. h'.said = h.said /\ loop' = "poll" /\ (snap.eof => ~h'.running)
          /\ (~snap.eof => h'.running = h.running)
    BY <1>1, <1>12, <2>1 DEF Stdin
  <2> QED
    BY <2>2 DEF Told
<1>13. CASE WindowCloses \/ Terminated \/ UNCHANGED hostVars
  BY <1>13 DEF WindowCloses, Terminated, hostVars, Told
<1> QED
  BY <1>5, <1>6, <1>7, <1>8, <1>9, <1>10, <1>11, <1>12, <1>13, <1>14 DEF Next

\* Nothing has been told at the start.
LEMMA NothingTold == Init => Told
  BY DEF Init, Told

\* What the user was told stands, and a session that programs ends without a word
\* only when the retry time is over, the command line cannot be processed again,
\* stdin ends or poll() fails, for every device, file and fault (gcf.c 397-1149,
\* main_posix.c 451-564).
THEOREM EndsWithAReason == Spec => EndsForAReason
<1>1. HostInv /\ Told /\ [Next]_hostVars
        => Told' /\ [/\ h.said # "none" => h'.said = h.said
                     /\ (Task = "T_PROGRAM" /\ GoesOn /\ ~GoesOn')
                          => \/ h'.said # "none"
                             \/ ~window
                             \/ h'.state = "ST_Void"
                             \/ snap.eof
                             \/ loop' = "broken"]_hostVars
  <2> SUFFICES ASSUME HostInv, Told, [Next]_hostVars
               PROVE  /\ Told'
                      /\ h.said # "none" => h'.said = h.said
                      /\ (Task = "T_PROGRAM" /\ GoesOn /\ ~GoesOn')
                           => \/ h'.said # "none"
                              \/ ~window
                              \/ h'.state = "ST_Void"
                              \/ snap.eof
                              \/ loop' = "broken"
    OBVIOUS
  <2>1. GoesOn => h.running
    BY DEF GoesOn
  <2>2. GoesOn /\ h'.running /\ ~GoesOn' => loop' = "broken"
    BY LoopEnds
  <2> QED
    BY <2>1, <2>2, StepEnds
<1> QED
  BY <1>1, NothingTold, Invariance, PTL DEF Spec, EndsForAReason

=============================================================================
