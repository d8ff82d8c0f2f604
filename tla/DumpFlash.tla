----------------------------- MODULE DumpFlash -----------------------------
(***************************************************************************)
(* The flash dump (-k) of gcf.c: one request per step of 32 bytes, from     *)
(* 0x5100 to 0x40000, each answer printed as an S-record.  Addresses are    *)
(* counted in steps, from 0.                                                *)
(***************************************************************************)
EXTENDS SerialHost

CONSTANT FlashSteps   \* gcf->flashSize, in steps behind the first address

ASSUME DumpAssumption == FlashSteps \in Nat \ {0}

\* A packet as protocol.c delivers it, in the fields the handlers read.
Packets ==
  [cmd : {"version", "read", "other"}, r21 : BOOLEAN,
   status : {"SUCCESS", "EOFFSET", "ERROR"}, addr : 0..FlashSteps]

DumpConnectAction(g, open) ==
  IF Connects(g, open)
  THEN Schedule([Connect(g, open) EXCEPT !.state = "ST_DumpFlashQueryFirmwareVersion"])
  ELSE Shut([g EXCEPT !.state = "ST_DumpFlashConnect", !.said = "noConnection"])

QueryVersionAction(g) == Armed(Write(g, "version", 0))

\* The version decides whether there is flash memory to read.
QueryVersionPacket(g, p) ==
  IF p.cmd # "version" THEN g
  ELSE IF p.r21
  THEN Schedule([g EXCEPT !.timer = FALSE, !.address = 0, !.state = "ST_DumpFlashSend"])
  ELSE Shut([g EXCEPT !.timer = FALSE, !.said = "unsupported"])

\* Mutant: nothing gives up on a lost answer.
SendActionUnarmed(g) ==
  IF g.address = FlashSteps THEN Shut([g EXCEPT !.said = "complete"])
  ELSE [Write(g, "read", g.address) EXCEPT !.state = "ST_DumpFlashWait"]

\* Mutant: the last step is left out.
SendActionShort(g) ==
  IF g.address + 1 = FlashSteps THEN Shut([g EXCEPT !.said = "complete"])
  ELSE [Write(Armed(g), "read", g.address) EXCEPT !.state = "ST_DumpFlashWait"]

\* The end is where the address equals the size.
SendAction(g) ==
  IF g.address = FlashSteps THEN Shut([g EXCEPT !.said = "complete"])
  ELSE [Write(Armed(g), "read", g.address) EXCEPT !.state = "ST_DumpFlashWait"]

NextAddress(g) == Schedule([g EXCEPT !.address = @ + 1, !.state = "ST_DumpFlashSend"])

\* Mutant: a record that cannot be read ends nothing and moves nothing.
WaitPacketStays(g, p) ==
  IF p.cmd # "read" THEN g
  ELSE LET a == [g EXCEPT !.timer = FALSE]
       IN  CASE p.status = "SUCCESS" -> NextAddress([a EXCEPT !.printed = Append(@, p.addr)])
             [] p.status = "EOFFSET" -> Schedule([a EXCEPT !.state = "ST_DumpFlashSend"])
             [] OTHER                -> Shut([a EXCEPT !.said = "status"])

\* The answer is taken for the one to the last request; the record is printed
\* with the address it names.
WaitPacket(g, p) ==
  IF p.cmd # "read" THEN g
  ELSE LET a == [g EXCEPT !.timer = FALSE]
       IN  CASE p.status = "SUCCESS" -> NextAddress([a EXCEPT !.printed = Append(@, p.addr)])
             [] p.status = "EOFFSET" -> NextAddress(a)
             [] OTHER                -> Shut([a EXCEPT !.said = "status"])

\* EV_ACTION, raised by the loop when gcf->evAction is set.
DumpAction(g) ==
  CASE g.state = "ST_DumpFlashQueryFirmwareVersion" -> QueryVersionAction(g)
    [] g.state = "ST_DumpFlashSend"                 -> SendAction(g)
    [] OTHER                                        -> g

\* EV_RX_PKG_DATA: in ST_DumpFlashSend an answer falls on deaf ears.
DumpPacket(g, p) ==
  CASE g.state = "ST_DumpFlashQueryFirmwareVersion" -> QueryVersionPacket(g, p)
    [] g.state = "ST_DumpFlashWait"                 -> WaitPacket(g, p)
    [] OTHER                                        -> g

DumpTimeout(g) ==
  CASE g.state = "ST_DumpFlashQueryFirmwareVersion" -> Shut([g EXCEPT !.said = "noVersion"])
    [] g.state = "ST_DumpFlashWait"                 -> Shut([g EXCEPT !.said = "timeout"])
    [] OTHER                                        -> g

=============================================================================
