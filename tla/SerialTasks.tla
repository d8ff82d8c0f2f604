---------------------------- MODULE SerialTasks ----------------------------
(***************************************************************************)
(* The tasks beside flashing, end to end: "connect" (-c), "sniff" (-s) and  *)
(* "dump flash" (-k) in the loop of main_posix.c, with the device they      *)
(* speak to, the port between them, and a bounded number of faults.         *)
(***************************************************************************)
EXTENDS Sniffer, DumpFlash

CONSTANTS
  Jobs,       \* what the command line may ask for
  Script,     \* the frames a sniffer hears, each the bytes behind its timestamp
  RxCap,      \* most bytes one read() returns
  DevCap,     \* commands under way to the device
  MaxFaults

ASSUME SerialAssumption ==
  /\ Jobs \subseteq [task : {"T_CONNECT", "T_SNIFF", "T_DUMP_FLASH"}, interactive : BOOLEAN]
  /\ Script \in Seq(Seq(Bytes))
  /\ 1..MinLength \subseteq Bytes
  /\ \A f \in DOMAIN Script : MinLength + Len(Script[f]) \in Bytes
  /\ RxCap \in Nat \ {0} /\ DevCap \in Nat \ {0} /\ MaxFaults \in Nat

VARIABLES
  job,      \* gcf->task and gcf->uiInteractive
  t,        \* the fields of SerialHost
  loop,     \* where PL_Loop is
  snap,     \* what poll() reported
  dev,      \* mode and frames heard
  toDev,    \* written and not yet read by the device
  line,     \* sent by the device and not yet read by the host
  hup,      \* the device behind the open port is gone
  faults,   \* faults that may still happen
  seen      \* history: what the host was told, for the properties

vars == <<job, t, loop, snap, dev, toDev, line, hup, faults, seen>>

Task == job.task

Nothing == [in |-> FALSE, hup |-> FALSE, key |-> "none"]

Costs(n)  == faults >= n /\ faults' = faults - n
Cost(bad) == IF bad THEN 1 ELSE 0
Pays(bad) == Costs(Cost(bad))

-----------------------------------------------------------------------------
(* The device, as gcf.c expects it.                                        *)

\* A frame as the sniffer sends it: each byte with the frame it is of and its
\* place in it.
FrameBytes(f) ==
  LET stamp == [i \in 1..MinLength |-> i]
      bytes == <<Start, MinLength + Len(Script[f])>> \o stamp \o Script[f] \o <<End>>
  IN  [i \in 1..Len(bytes) |-> [byte |-> bytes[i], frame |-> f, at |-> i]]

\* What the ZEP message of a frame should carry.
Expected(f) == IF MinLength + Len(Script[f]) >= DataLength THEN Script[f] ELSE << >>

\* Its answer to the configuration, which is of no frame.
Said(s) == [i \in 1..Len(s) |-> [byte |-> s[i], frame |-> 0, at |-> i]]

\* The first byte of a frame, and the last.
IsFirst(b) == b.frame # 0 /\ b.at = 1
IsLast(b)  == b.frame # 0 /\ b.at = Len(FrameBytes(b.frame))

Packet(c, r21, status, a) == [cmd |-> c, r21 |-> r21, status |-> status, addr |-> a]

Answers(m) ==
  CASE m.cmd = "version" -> {Packet("version", b, "SUCCESS", 0) : b \in BOOLEAN}
    [] m.cmd = "read"    -> {Packet("read", TRUE, s, m.addr) :
                               s \in {"SUCCESS", "EOFFSET", "ERROR"}}
    [] OTHER             -> {Packet("other", TRUE, "SUCCESS", 0)}

-----------------------------------------------------------------------------
(* The tasks: ST_Init and the states of -c, and what each event does.      *)

\* ST_Connect on EV_ACTION.
ConnectAction(g, open) ==
  IF Connects(g, open) THEN Armed([Connect(g, open) EXCEPT !.state = "ST_Connected"])
  ELSE Armed([g EXCEPT !.state = "ST_Init"])

\* ST_Connected on EV_TIMEOUT.
ConnectedTimeout(g) == Armed(IF job.interactive THEN g ELSE Write(g, "status", 0))

\* ST_Init on EV_PL_STARTED and EV_TIMEOUT: the command line is processed again
\* and the first state of the task runs.
InitEvent(g, open) ==
  CASE Task = "T_CONNECT" -> ConnectAction(g, open)
    [] Task = "T_SNIFF"   -> SniffConnectAction(g, open)
    [] OTHER              -> DumpConnectAction(g, open)

\* EV_TIMEOUT; the timer is one-shot.
Timeout(g, open) ==
  LET a == [g EXCEPT !.timer = FALSE]
  IN  CASE a.state = "ST_Init"                                -> InitEvent(a, open)
        [] a.state = "ST_Connected"                           -> ConnectedTimeout(a)
        [] a.state \in SniffStates \cup {"ST_SniffTeardown"} -> SniffTimeout(a)
        [] OTHER                                              -> DumpTimeout(a)

\* EV_PL_LOOP: a handler of its own while synchronising, else an action that
\* was scheduled.
LoopEvent(g) ==
  IF g.state = "ST_SniffSyncData" THEN SniffSyncData(g)
  ELSE IF g.evAction THEN DumpAction([g EXCEPT !.evAction = FALSE])
  ELSE g

\* GCF_Received: bytes for the sniffer, else what protocol.c makes of them.
Received(g, chunk) ==
  IF Task = "T_SNIFF" THEN SniffReceived(g, [i \in DOMAIN chunk |-> chunk[i].byte])
  ELSE FoldLeft(DumpPacket, g, chunk)

-----------------------------------------------------------------------------
(* History.                                                                *)

Fresh == [begun |-> {}, arrived |-> {}, marker |-> {}, excused |-> {}, rolled |-> FALSE,
          skipped |-> {}, repeated |-> FALSE]

Begun(s) == {s[i].frame : i \in {j \in DOMAIN s : IsFirst(s[j])}}
Ended(s) == {s[i].frame : i \in {j \in DOMAIN s : IsLast(s[j])}}

\* Frames that began while the host was synchronising, those that were then read
\* to their end, and the one of which the start marker is the last byte read.
Notes(chunk) ==
  IF Task # "T_SNIFF" \/ t.state # "ST_SniffSyncData" THEN seen
  ELSE LET begun == seen.begun \cup Begun(chunk)
       IN  [seen EXCEPT !.begun = begun,
                        !.arrived = @ \cup (Ended(chunk) \cap begun),
                        !.marker = Begun(<<Last(chunk)>>),
                        !.rolled = @ \/ Len(t.ascii) + Len(chunk) > AsciiCap]

\* The host throws away all it has, a start marker included; or a new session
\* of the sniffer begins.
Noted(g, note) ==
  IF g.state = "ST_SniffConfig" /\ t.state # "ST_SniffConfig" THEN Fresh
  ELSE IF g.state = "ST_SniffSyncData" /\ g.ascii = << >>
  THEN [note EXCEPT !.excused = @ \cup note.marker, !.marker = {}]
  ELSE note

-----------------------------------------------------------------------------
(* The loop, PL_Loop.                                                      *)

Top(g) == IF g.running THEN "top" ELSE "exit"

\* A step of the host: what it wrote reaches the device behind an open port, a
\* closed port forgets what was not read.
Turn(g, unread, note) ==
  /\ t' = [g EXCEPT !.port = << >>]
  /\ toDev' = IF hup \/ dev.mode = "gone" THEN toDev
              ELSE LET s == toDev \o g.port
                   IN  IF Len(s) <= DevCap THEN s ELSE SubSeq(s, 1, DevCap)
  /\ line' = IF g.fd = 0 THEN << >> ELSE unread
  /\ hup' = (hup /\ g.fd = 1)
  /\ seen' = Noted(g, note)
  /\ UNCHANGED <<job, dev>>

\* open() fails for a device that is gone; that it fails for another is a fault.
Opens(open) == open => dev.mode # "gone"
Refused(open) == ~open /\ dev.mode # "gone" /\ t.fd = 0

Started ==
  /\ loop = "start"
  /\ \E open \in BOOLEAN :
       LET g == InitEvent(t, open)
       IN  /\ Opens(open) /\ Pays(Refused(open))
           /\ Turn(g, line, seen)
           /\ loop' = Top(g)
  /\ UNCHANGED snap

\* EV_PL_LOOP and poll(); a line typed on the keyboard counts as a fault.
Poll ==
  /\ loop = "top"
  /\ LET g == LoopEvent(t)
     IN  /\ Turn(g, line, seen)
         /\ \E key \in {"none", "typed", "eof"} :
              /\ snap' = [in |-> g.fd = 1 /\ line # << >>, hup |-> g.fd = 1 /\ hup,
                          key |-> key]
              /\ Pays(key = "typed")
  /\ loop' = "timer"

\* poll() fails, a fault: the loop is left although the program is running.
PollFails ==
  /\ loop = "top"
  /\ Pays(TRUE)
  /\ Turn(LoopEvent(t), line, seen)
  /\ loop' = "exit"
  /\ UNCHANGED snap

AfterTimer(g) == IF snap = Nothing THEN Top(g) ELSE IF snap.in \/ snap.hup THEN "io" ELSE "keys"

TimerNotDue ==
  /\ loop = "timer"
  /\ loop' = AfterTimer(t)
  /\ UNCHANGED <<job, t, snap, dev, toDev, line, hup, faults, seen>>

\* A timer that overtakes an answer, or input that waits to be read, counts as
\* a fault.
TimerDue ==
  /\ loop = "timer" /\ t.timer
  /\ \E open \in BOOLEAN :
       LET g == Timeout(t, open)
       IN  /\ Opens(open)
           /\ Costs(Cost(Refused(open)) + Cost(toDev # << >> \/ line # << >>))
           /\ Turn(g, line, seen)
           /\ loop' = AfterTimer(g)
  /\ UNCHANGED snap

HangUp ==
  /\ loop = "io" /\ snap.hup
  /\ LET g == Disconnect(t) IN Turn(g, << >>, seen) /\ loop' = Top(g)
  /\ UNCHANGED <<snap, faults>>

AfterRead(g) == IF snap.key = "none" THEN Top(g) ELSE "keys"

\* read() returns the bytes there are, or as many as there were when it looked.
Read ==
  /\ loop = "io" /\ ~snap.hup
  /\ \E n \in 1..RxCap :
       /\ n <= Len(line)
       /\ LET chunk == SubSeq(line, 1, n)
              g == Received(t, chunk)
          IN  Turn(g, SubSeq(line, n + 1, Len(line)), Notes(chunk)) /\ loop' = AfterRead(g)
  /\ UNCHANGED <<snap, faults>>

ReadNothing ==
  /\ loop = "io" /\ ~snap.hup /\ line = << >>
  /\ loop' = AfterRead(t)
  /\ UNCHANGED <<job, t, snap, dev, toDev, line, hup, faults, seen>>

\* A typed command is sent whatever the task does; the end of stdin ends the
\* program.
Keys ==
  /\ loop = "keys"
  /\ LET g == IF snap.key = "eof" THEN Shut(t) ELSE Write(t, "parameter", 0)
     IN  Turn(g, line, seen) /\ loop' = Top(g)
  /\ UNCHANGED <<snap, faults>>

Exit ==
  /\ loop = "exit"
  /\ Turn(Disconnect(t), << >>, seen)
  /\ loop' = "done"
  /\ UNCHANGED <<snap, faults>>

Terminated == loop = "done" /\ UNCHANGED vars

HostStep ==
  Started \/ Poll \/ PollFails \/ TimerNotDue \/ HangUp \/ Read \/ ReadNothing \/ Keys \/ Exit

-----------------------------------------------------------------------------
(* The device and the line.                                                *)

Heard(s) == IF t.fd = 1 /\ ~hup THEN line \o s ELSE line

\* The device starts to sniff, or answers; a lost answer is a fault.
DeviceStep ==
  /\ toDev # << >>
  /\ toDev' = Tail(toDev)
  /\ LET m == Head(toDev)
     IN  \/ /\ m.cmd = "sniff"
            /\ dev' = [dev EXCEPT !.mode = "sniff"]
            /\ line' = Heard(Said(<<O, K>>))
            /\ UNCHANGED <<seen, faults>>
         \/ /\ m.cmd # "sniff" /\ Task # "T_SNIFF"
            /\ \E p \in Answers(m) :
                 /\ line' = Heard(<<p>>)
                 /\ seen' = IF p.status = "EOFFSET"
                            THEN [seen EXCEPT !.skipped = @ \cup {p.addr}] ELSE seen
            /\ UNCHANGED <<dev, faults>>
         \/ /\ m.cmd # "sniff"
            /\ Pays(Task # "T_SNIFF")
            /\ UNCHANGED <<dev, line, seen>>
  /\ UNCHANGED <<job, t, loop, snap, hup>>

\* The sniffer hears the next frame.
Air ==
  /\ dev.mode = "sniff" /\ dev.air < Len(Script)
  /\ dev' = [dev EXCEPT !.air = @ + 1]
  /\ line' = Heard(FrameBytes(dev.air + 1))
  /\ UNCHANGED <<job, t, loop, snap, toDev, hup, faults, seen>>

\* A packet nobody asked for, or the last one once more.
Repeat ==
  /\ Task # "T_SNIFF" /\ line # << >> /\ Len(line) < DevCap + 1 /\ t.fd = 1
  /\ Pays(TRUE)
  /\ \/ line' = Append(line, Last(line))
     \/ line' = <<Packet("other", TRUE, "SUCCESS", 0)>> \o line
  /\ seen' = [seen EXCEPT !.repeated = @ \/ Last(line').cmd = "read"]
  /\ UNCHANGED <<job, t, loop, snap, dev, toDev, hup>>

Restart ==
  /\ dev.mode = "sniff"
  /\ Pays(TRUE)
  /\ dev' = [dev EXCEPT !.mode = "app"]
  /\ UNCHANGED <<job, t, loop, snap, toDev, line, hup, seen>>

Unplug ==
  /\ dev.mode # "gone"
  /\ Pays(TRUE)
  /\ dev' = [dev EXCEPT !.mode = "gone"]
  /\ line' = << >> /\ toDev' = << >>
  /\ hup' = (t.fd = 1)
  /\ UNCHANGED <<job, t, loop, snap, seen>>

\* A new port takes the place of the old one, which stays hung up.
Replug ==
  /\ dev.mode = "gone"
  /\ dev' = [dev EXCEPT !.mode = "app"]
  /\ UNCHANGED <<job, t, loop, snap, toDev, line, hup, faults, seen>>

Init ==
  /\ job \in Jobs
  /\ t = Booted
  /\ loop = "start" /\ snap = Nothing
  /\ dev = [mode |-> "app", air |-> 0]
  /\ toDev = << >> /\ line = << >> /\ hup = FALSE
  /\ faults = MaxFaults
  /\ seen = Fresh

Next ==
  \/ HostStep \/ TimerDue \/ Terminated
  \/ DeviceStep \/ Air \/ Repeat \/ Restart \/ Unplug \/ Replug

Spec == Init /\ [][Next]_vars

\* Each step of the host moves the loop on, and no other step does.
Turns == loop # "done" /\ loop' \in {"top", "timer", "io", "keys", "exit", "done"}

\* The loop turns, an armed timer expires in the end, the device answers, and a
\* device that was unplugged is plugged in again.
FairSpec ==
  Spec /\ WF_loop(Turns) /\ SF_vars(TimerDue) /\ WF_vars(DeviceStep) /\ WF_vars(Replug)

-----------------------------------------------------------------------------
(* What a packet must not look like.  The stream has no escapes: a host that *)
(* begins to read in the middle of a frame cannot tell a start marker from a *)
(* byte of a packet.                                                       *)

\* What the sniffer says at a time.
Word(f) == IF f = 0 THEN Said(<<O, K>>) ELSE FrameBytes(f)

Sniffed == [byte : Bytes, frame : 0..Len(Script), at : Nat]

\* A stretch of the stream: whole words, but for the first and the last, with
\* the frames in their order.
Stretch(s) ==
  /\ s \in Seq(Sniffed)
  /\ \A i \in DOMAIN s : s[i].at \in DOMAIN Word(s[i].frame) /\ s[i] = Word(s[i].frame)[s[i].at]
  /\ \A i, j \in DOMAIN s : i < j =>
       LET w == Word(s[i].frame)
           k == s[i].at + (j - i)
       IN  IF k <= Len(w) THEN s[j] = w[k]
           ELSE /\ k = Len(w) + 1 => s[j].at = 1
                /\ 0 \in {s[i].frame, s[j].frame} \/ s[i].frame < s[j].frame

\* No byte but the first of a frame has a length and an end marker behind it as
\* a frame has.
Legible(s) ==
  \A i \in DOMAIN s : s[i].byte = Start /\ s[i].at # 1 /\ i + 1 \in DOMAIN s =>
    LET length == s[i + 1].byte
    IN  length >= MinLength /\ i + 2 + length \in DOMAIN s => s[i + 2 + length].byte # End

Unmistakable == \A s : Stretch(s) => Legible(s)

-----------------------------------------------------------------------------
(* Properties.                                                             *)

\* Types, and the bounds of gcf->ascii and gcf->sniffPacket, the latter guarded
\* by an Assert only (gcf.c 1358, 1883-1899).
SerialTypeOK ==
  /\ t \in Host
  /\ Len(t.ascii) <= AsciiCap
  /\ Len(t.sniffPacket) <= t.sniffLength + 1
  /\ t.address \in 0..FlashSteps
  /\ toDev \in Seq(Commands) /\ Len(toDev) <= DevCap
  /\ seen.excused \subseteq seen.begun

\* A running task always has a timer armed or an action scheduled, after any
\* event in any state, EV_DISCONNECTED in the middle of a write included
\* (gcf.c 1151-1642).
SerialNeverStranded == loop \notin {"start", "exit", "done"} /\ t.running => t.timer \/ t.evAction

\* Every session of the sniffer closes its socket before the next opens one,
\* whatever ended it (gcf.c 1197, 1483).
SocketPaired == t.leaks = 0

\* What is sent on is numbered without gaps, and is what the sniffer sent, in
\* its order: no part of a frame is taken for a frame, although the start and
\* end markers occur inside frames (gcf.c 1278-1467).
ForwardedIsSent ==
  /\ \A i \in DOMAIN t.zep : t.zep[i].seq = i - 1
  /\ \E of \in [DOMAIN t.zep -> 1..dev.air] :
       /\ \A i, j \in DOMAIN t.zep : i < j => of[i] < of[j]
       /\ \A i \in DOMAIN t.zep : t.zep[i].data = Expected(of[i])

Forwarded(f) == \E i \in DOMAIN t.zep : t.zep[i].data = Expected(f)

\* When the host has nothing left to look at, every frame that was read in full
\* was sent on, in whatever chunks it came, unless the buffer overran or the
\* host threw the start marker away (gcf.c 1278-1378).
NothingElseDropped ==
  (t.state = "ST_SniffSyncData" /\ t.ascii = << >> /\ ~seen.rolled) =>
    \A f \in seen.arrived \ seen.excused : Forwarded(f)

\* The same without the excuse: only bytes in which no sync data was found are
\* dropped (comment at gcf.c 1326).
EveryFrameForwarded ==
  (t.state = "ST_SniffSyncData" /\ t.ascii = << >> /\ ~seen.rolled) =>
    \A f \in seen.arrived : Forwarded(f)

\* A dump that ends as it should printed every record the device could read,
\* once and in order, if no answer came twice (gcf.c 1552-1636).
DumpComplete ==
  (t.said = "complete" /\ ~seen.repeated) =>
    /\ {t.printed[i] : i \in DOMAIN t.printed} = (0..(FlashSteps - 1)) \ seen.skipped
    /\ \A i, j \in DOMAIN t.printed : i < j => t.printed[i] < t.printed[j]

\* A dump ends, with all of the flash memory or without.
DumpEnds == (Task = "T_DUMP_FLASH") ~> (loop = "done")

Works ==
  /\ t.fd = 1 /\ ~hup
  /\ \/ Task = "T_CONNECT" /\ t.state = "ST_Connected"
     \/ Task = "T_SNIFF" /\ t.state = "ST_SniffSyncData" /\ dev.mode = "sniff"

\* Faults come to an end, and then -c and -s are back at work: the device was
\* unplugged or restarted, an open failed, an answer was lost (gcf.c 403-416,
\* 1151-1276, 1479-1490).  The end of stdin and a poll() that fails end the program.
Resumes == (Task # "T_DUMP_FLASH") => []<>(Works \/ loop = "done")

=============================================================================
