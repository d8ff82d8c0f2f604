---------------------------- MODULE FlashSystem ----------------------------
(***************************************************************************)
(* A flash session end to end: the host of GcfHost, the device of Device,  *)
(* the port between them, and a bounded number of faults.                  *)
(***************************************************************************)
EXTENDS GcfHost, Device, SequencesExt

CONSTANTS
  Prompt,     \* device and line answer before a timer of the host expires
  LinkCap,    \* messages under way in one direction
  Faults,     \* kinds of faults that may happen
  MaxFaults   \* and how many

FaultKinds == {"lose", "corrupt", "restart", "repeat", "connect", "reset",
               "split", "poll", "unplug", "die"}

ASSUME SystemAssumption ==
  /\ Prompt \in BOOLEAN
  /\ LinkCap \in Nat \ {0}
  /\ Faults \subseteq FaultKinds
  /\ MaxFaults \in Nat
  /\ ImageSize = FileSize
  /\ \A i \in Places : /\ i \in Pages
                      /\ [offset |-> i, length |-> Smaller(BlockSize, ImageSize - i)] \in Blocks

VARIABLES
  dev,      \* the device
  toDev,    \* what the host wrote and the device has not read
  toHost,   \* what the device wrote and the host has not read
  hup,      \* the device behind the host's open port is gone
  faults    \* faults that may still happen

sysVars == <<job, h, window, loop, snap, dev, toDev, toHost, hup, faults>>

\* These devices are on the USB bus themselves, and leave it when they reboot;
\* the others are behind a bridge or a UART that stays.
Usb == DevType \in {"DEV_CONBEE_2", "DEV_HIVE"}

-----------------------------------------------------------------------------
(* Faults.                                                                 *)

May(f) == f \in Faults /\ faults > 0
Happens(f) == May(f) /\ faults' = faults - 1

\* An outcome is free of charge, or costs a fault.
Pays(f, bad) == IF bad THEN Happens(f) ELSE UNCHANGED faults

\* At most one of the calls a step may make fails, apart from the open of a
\* device that is gone.  The file stays readable and stdin open: the end of the
\* program when they do not is a matter of GcfHost.
OutcomeCosts(o) ==
  LET free == [open |-> dev.mode # "gone", reset |-> TRUE, args |-> TRUE]
  IN  \/ o = free /\ UNCHANGED faults
      \/ o = [free EXCEPT !.open  = FALSE] /\ Happens("connect")
      \/ o = [free EXCEPT !.reset = FALSE] /\ Happens("reset")

-----------------------------------------------------------------------------
(* The port.                                                               *)

Closes == \E i \in DOMAIN h'.port : h'.port[i].kind = "close"
Onto(line, m) == IF m.kind \in {"open", "close"} THEN line ELSE Append(line, m)
Written == FoldLeft(Onto, << >>, h'.port)

AtMost(s, n) == IF Len(s) <= n THEN s ELSE SubSeq(s, 1, n)

\* What the host's step leaves on the line.  The last close of a terminal
\* discards what was not read; writes into a port that was hung up are lost.
Carry(unread) ==
  /\ toHost' = IF Closes THEN << >> ELSE unread
  /\ hup'    = (hup /\ ~Closes)
  /\ toDev'  = IF hup /\ ~Closes THEN toDev ELSE AtMost(toDev \o Written, LinkCap)
  /\ UNCHANGED dev

\* The device's words reach an open port only.
Deliver(s) == toHost' = IF h.fd = 1 /\ ~hup THEN AtMost(toHost \o s, LinkCap) ELSE toHost

Quiet == toDev = << >> /\ toHost = << >> /\ ~hup /\ dev.mode # "rebooting"

-----------------------------------------------------------------------------
(* The host.                                                               *)

SysStarted == \E o \in Outcomes : Started(o) /\ OutcomeCosts(o) /\ Carry(toHost)

SysPoll ==
  /\ Poll([in |-> toHost # << >> /\ h.fd # 0, hup |-> hup /\ h.fd # 0, eof |-> FALSE])
  /\ Carry(toHost)
  /\ UNCHANGED faults

SysPollFails == Happens("poll") /\ PollFails /\ Carry(toHost)

SysTimerNotDue == TimerNotDue /\ UNCHANGED <<dev, toDev, toHost, hup, faults>>

SysTimeout ==
  /\ Prompt => Quiet
  /\ \E o \in Outcomes : Timeout(o) /\ OutcomeCosts(o)
  /\ Carry(toHost)

SysHangUp == HangUp /\ Carry(toHost) /\ UNCHANGED faults

\* One frame, or as many texts as have arrived, up to two.
Readable(n) ==
  /\ n \in 1..Smaller(2, Len(toHost))
  /\ n = 2 => toHost[1] \in Texts /\ toHost[2] \in Texts
MoreReadable(n) == n = 1 /\ Len(toHost) > 1 /\ toHost[1] \in Texts /\ toHost[2] \in Texts

SysReceive ==
  \E n \in 1..2 :
    /\ Readable(n)
    /\ Receive(SubSeq(toHost, 1, n))
    /\ Pays("split", MoreReadable(n))
    /\ Carry(SubSeq(toHost, n + 1, Len(toHost)))

SysReadNothing == hup /\ ReadNothing /\ Carry(toHost) /\ UNCHANGED faults

SysStdin == Stdin /\ Carry(toHost) /\ UNCHANGED faults
SysExit  == Exit /\ Carry(toHost) /\ UNCHANGED faults

SysWindowCloses == WindowCloses /\ UNCHANGED <<dev, toDev, toHost, hup, faults>>

SysTerminated == Terminated /\ UNCHANGED sysVars

HostStep ==
  \/ SysStarted
  \/ SysPoll
  \/ SysTimerNotDue
  \/ SysHangUp
  \/ SysReceive
  \/ SysReadNothing
  \/ SysStdin
  \/ SysExit

-----------------------------------------------------------------------------
(* The device and the line.                                                *)

DeviceStep ==
  /\ toDev # << >>
  /\ LET a == DeviceReceives(dev, Head(toDev)) IN dev' = a.dev /\ Deliver(a.reply)
  /\ toDev' = Tail(toDev)
  /\ UNCHANGED <<job, h, window, loop, snap, hup, faults>>

\* The bootloader starts.  A USB device leaves the bus for that; any device
\* may or may not introduce itself.
Reboot ==
  /\ dev.mode = "rebooting"
  /\ dev' = [dev EXCEPT !.mode = "boot", !.next = 0]
  /\ IF Usb
     THEN hup' = (h.fd = 1) /\ toHost' = << >> /\ toDev' = << >>
     ELSE /\ Deliver(<<Identify(dev)>>) \/ UNCHANGED toHost
          /\ UNCHANGED <<hup, toDev>>
  /\ UNCHANGED <<job, h, window, loop, snap, faults>>

\* A bootloader that waits in vain for the host starts again.
DeviceGivesUp ==
  /\ dev.mode \in {"synced", "loading"}
  /\ toDev = << >> /\ toHost = << >>
  /\ dev' = [dev EXCEPT !.mode = "rebooting"]
  /\ UNCHANGED <<job, h, window, loop, snap, toDev, toHost, hup, faults>>

Restart ==
  /\ Happens("restart")
  /\ dev.mode \in {"app", "boot", "synced", "loading"}
  /\ dev' = [dev EXCEPT !.mode = "rebooting"]
  /\ UNCHANGED <<job, h, window, loop, snap, toDev, toHost, hup>>

Repeat ==
  /\ Happens("repeat")
  /\ dev.mode = "loading"
  /\ Deliver(<<Request(dev)>>)
  /\ UNCHANGED <<job, h, window, loop, snap, dev, toDev, hup>>

\* The youngest message to the host is still on the line; poll() has reported
\* at least the oldest one.
OnTheLine == Len(toHost) > (IF loop \in {"timer", "io"} /\ snap.in THEN 1 ELSE 0)

Lose ==
  /\ Happens("lose")
  /\ \/ toDev # << >> /\ toDev' = Tail(toDev) /\ UNCHANGED toHost
     \/ OnTheLine /\ toHost' = Front(toHost) /\ UNCHANGED toDev
  /\ UNCHANGED <<job, h, window, loop, snap, dev, hup>>

\* The V1 protocol has no checksum but the one over the whole image: page
\* numbers and pages may arrive changed.  A changed frame is lost (see Lose).
Corrupt ==
  /\ Happens("corrupt")
  /\ \/ /\ OnTheLine /\ Last(toHost).kind = "get"
        /\ \E p \in Pages : toHost' = [toHost EXCEPT ![Len(toHost)].page = p]
        /\ UNCHANGED toDev
     \/ /\ toDev # << >> /\ toDev[1].kind = "page"
        /\ toDev' = <<[toDev[1] EXCEPT !.page = Junk]>> \o Tail(toDev)
        /\ UNCHANGED toHost
  /\ UNCHANGED <<job, h, window, loop, snap, dev, hup>>

Unplug ==
  /\ Happens("unplug")
  /\ dev.mode # "gone"
  /\ dev' = [dev EXCEPT !.mode = "gone"]
  /\ hup' = (h.fd = 1) /\ toHost' = << >> /\ toDev' = << >>
  /\ UNCHANGED <<job, h, window, loop, snap>>

Die ==
  /\ Happens("die")
  /\ dev.mode \notin {"gone", "dead"}
  /\ dev' = [dev EXCEPT !.mode = "dead"]
  /\ UNCHANGED <<job, h, window, loop, snap, toDev, toHost, hup>>

Fault == Restart \/ Repeat \/ Lose \/ Corrupt \/ Unplug \/ Die

SysInit ==
  /\ Init
  /\ dev = OldDevice(FileV3)
  /\ toDev = << >> /\ toHost = << >>
  /\ hup = FALSE
  /\ faults = MaxFaults

SysNext ==
  \/ HostStep
  \/ SysPollFails
  \/ SysTimeout
  \/ SysWindowCloses
  \/ DeviceStep
  \/ Reboot
  \/ DeviceGivesUp
  \/ Fault
  \/ SysTerminated

SysSpec == SysInit /\ [][SysNext]_sysVars

\* The loop of a running process turns, the device answers, and time passes:
\* an armed timer expires although each iteration may find it not yet due.
Fairness ==
  /\ WF_sysVars(HostStep)
  /\ SF_sysVars(SysTimeout)
  /\ WF_sysVars(DeviceStep)
  /\ WF_sysVars(Reboot)
  /\ SF_sysVars(DeviceGivesUp)

FairSpec == SysSpec /\ Fairness

-----------------------------------------------------------------------------
(* Properties.                                                             *)

\* The variables of the composition keep their types.
SysTypeOK ==
  /\ TypeOK
  /\ dev \in DeviceRec
  /\ toDev \in Seq(Output) /\ Len(toDev) <= LinkCap
  /\ toHost \in Seq(Input) /\ Len(toHost) <= LinkCap
  /\ hup \in BOOLEAN
  /\ faults \in 0..MaxFaults

Praised == h.said \in {"written", "finishedOk"}

\* "firmware successful written" and a checksum reported "(OK)" are said only of
\* a device that holds every page of the file in its place, although pages of
\* the V1 protocol carry no number and requests may be lost, repeated, corrupted
\* or answered late (gcf.c 878-961 and 1007-1149).
PraiseImpliesImage == Praised => GoodImage(dev)

\* A checksum of another firmware ends the session (WaitIDBtl).
Condemned == h.said = "finishedBad"

\* The session implements FlashJob: what the flash memory holds, and what the
\* user knows.
Flash == IF GoodImage(dev) THEN "new"
         ELSE IF \A i \in Places : dev.image[i] = Old THEN "old" ELSE "partial"
Verdict == IF Praised THEN "good" ELSE IF Condemned THEN "bad"
           ELSE IF h.running /\ loop # "done" THEN "none" ELSE "failed"

Job == INSTANCE FlashJob WITH flash   <- Flash, verdict <- Verdict,
                              open    <- window /\ loop \notin {"broken", "done"}

\* Praise only for the new firmware, nothing written to a praised device, and no
\* giving up while retry time is left, but for a poll() that fails (gcf.c 2260-2283,
\* 878-961; main_posix.c 466-470).
ImplementsJob == Job!JobSpec

\* Once the retry time is over the program ends: the attempt under way succeeds
\* or ends in gcfRetry, which shuts down (gcf.c 2260-2283; README "-t retry
\* until timeout (seconds) is reached").
EndsAfterWindow == (~window) ~> (loop = "done")

\* While the retry time lasts, a session gets over what goes wrong a bounded
\* number of times, and flashes the device in the end: every attempt that fails
\* is noticed, and the next one starts from the beginning.  A V3 bootloader that
\* introduces itself unasked, as those behind a UART do when they restart, is
\* taken for the end of the upload and ends the session with its checksum.  A poll()
\* that fails ends the program and is not among the faults this is asked with.
Recovers ==
  []window => <>((Praised /\ GoodImage(dev)) \/ (Condemned /\ ~Usb /\ FileV3))

\* An iteration of the loop never waits in read(): there is something to read
\* whenever it is called on an open port (main_posix.c 456-507 relies on poll()
\* for its timeout).
ReadNeverBlocks == CanRead => (toHost # << >> \/ hup)

=============================================================================
