----------------------------- MODULE SerialHost -----------------------------
(***************************************************************************)
(* What the tasks "connect" (-c), "sniff" (-s) and "dump flash" (-k) share: *)
(* the fields of GCF and of the platform layer they use, the calls into     *)
(* main_posix.c, and the event they all receive in the middle of a call,    *)
(* EV_DISCONNECTED.  As in GcfHost a handler is an operator from the host   *)
(* to the host it leaves, nested events included.                           *)
(***************************************************************************)
EXTENDS Integers, Sequences

CONSTANTS
  AsciiCap,     \* bytes that fit in gcf->ascii
  Bytes         \* values a byte of a sniffed stream takes

SniffStates == {"ST_SniffConfig", "ST_SniffConfigConfirm", "ST_SniffSyncData",
                "ST_SniffRecvData"}

States == {"ST_Init", "ST_Connected", "ST_SniffTeardown", "ST_DumpFlashConnect",
           "ST_DumpFlashQueryFirmwareVersion", "ST_DumpFlashSend", "ST_DumpFlashWait"}
            \cup SniffStates

\* What the program says of a dump when it ends.
Verdicts == {"none", "complete", "noConnection", "noVersion", "unsupported",
             "status", "timeout"}

\* What a step writes to the port.
Commands == [cmd : {"status", "parameter", "version", "sniff"}, addr : {0}]
              \cup [cmd : {"read"}, addr : Nat]

Host ==
  [state       : States,
   fd          : {0, 1},
   timer       : BOOLEAN,
   running     : BOOLEAN,
   evAction    : BOOLEAN,
   ascii       : Seq(Bytes),        \* ascii[0] to ascii[wp - 1]
   rp          : Nat,
   sniffLength : Nat,
   sniffPacket : Seq(Bytes),        \* its length is sniffWp
   sniffSeqNum : Nat,
   udp         : {"free", "open"},  \* gcf->sniffUdp
   leaks       : Nat,               \* sockets opened over one that was open
   zep         : Seq([seq : Nat, data : Seq(Bytes)]),   \* sent since sniffing began
   address     : Nat,               \* gcf->flashAddress, in steps
   printed     : Seq(Nat),          \* addresses of the records printed
   said        : Verdicts,
   port        : Seq(Commands)]

Booted ==
  [state |-> "ST_Init", fd |-> 0, timer |-> FALSE, running |-> TRUE, evAction |-> FALSE,
   ascii |-> << >>, rp |-> 0, sniffLength |-> 0, sniffPacket |-> << >>, sniffSeqNum |-> 0,
   udp |-> "free", leaks |-> 0, zep |-> << >>, address |-> 0, printed |-> << >>,
   said |-> "none", port |-> << >>]

-----------------------------------------------------------------------------
(* Platform layer, main_posix.c and net_udp_posix.c.                       *)

Armed(g)    == [g EXCEPT !.timer = TRUE]       \* PL_SetTimeout
Shut(g)     == [g EXCEPT !.running = FALSE]    \* PL_ShutDown
Schedule(g) == [g EXCEPT !.evAction = TRUE]    \* gcfScheduleEventAction

Connects(g, open) == g.fd # 0 \/ open
Connect(g, open)  == IF Connects(g, open) THEN [g EXCEPT !.fd = 1] ELSE g

UdpFree(g) == [g EXCEPT !.udp = "free"]

\* SOCK_UdpInit overwrites the handle of a socket that is still open.
UdpInit(g) ==
  [g EXCEPT !.udp = "open", !.leaks = IF g.udp = "open" THEN @ + 1 ELSE @]

\* Mutant: the socket is left behind.
SniffTeardownLeaks(g) == Armed([g EXCEPT !.state = "ST_Init"])

\* ST_SniffTeardown, on any event.
SniffTeardown(g) == Armed([UdpFree(g) EXCEPT !.state = "ST_Init"])

\* EV_DISCONNECTED.  The dump ignores it and lets its timer run out.
Disconnected(g) ==
  CASE g.state = "ST_Connected"     -> Armed([g EXCEPT !.state = "ST_Init"])
    [] g.state \in SniffStates      -> Armed([g EXCEPT !.state = "ST_SniffTeardown"])
    [] g.state = "ST_SniffTeardown" -> SniffTeardown(g)
    [] OTHER                        -> g

Disconnect(g) == Disconnected([g EXCEPT !.fd = 0])

\* PROT_Write and PROT_SendFlagged.
Write(g, c, a) ==
  IF g.fd = 0 THEN Disconnected(g)
  ELSE [g EXCEPT !.port = Append(@, [cmd |-> c, addr |-> a])]

=============================================================================
