------------------------------ MODULE Sniffer ------------------------------
(***************************************************************************)
(* The sniffer (-s) of gcf.c.  A device with sniffer firmware answers the   *)
(* configuration with "OK" and then sends frames                            *)
(*                                                                         *)
(*     0x01, length, dummy timestamp 01 02 ... 08, packet, 0x04             *)
(*                                                                         *)
(* in one stream of bytes, which GCF_Received appends to gcf->ascii and     *)
(* these handlers take apart.  Each frame is sent on as one ZEP message     *)
(* over UDP.  Bytes are small numbers, and the timestamp has MinLength of   *)
(* them instead of eight.                                                   *)
(***************************************************************************)
EXTENDS SerialHost, SequencesExt

CONSTANTS
  MinLength,    \* length of the timestamp, and so of the shortest frame
  DataLength    \* from this length on the ZEP message carries the packet

Start == 1      \* 0x01
End   == 4      \* 0x04
O     == 5      \* the letters of "OK"
K     == 6

ASSUME SnifferAssumption ==
  /\ AsciiCap \in Nat \ {0}
  /\ Bytes \subseteq Nat /\ {Start, End, O, K} \subseteq Bytes
  /\ MinLength \in Nat /\ DataLength \in Nat /\ MinLength <= DataLength

-----------------------------------------------------------------------------
(* Collecting, GCF_Received.                                               *)

\* Mutant: no check for room.
CollectUnchecked(g, chunk) == [g EXCEPT !.ascii = @ \o chunk]

\* A byte without room is dropped with all that was collected; the read index
\* stays where it is.
Collect(g, chunk) ==
  LET put(s, b) == IF Len(s) < AsciiCap THEN Append(s, b) ELSE << >>
  IN  [g EXCEPT !.ascii = FoldLeft(put, @, chunk)]

\* At least one byte was appended, and EV_RX_ASCII is raised.
Collects(g, chunk) == Len(g.ascii) < AsciiCap \/ Len(chunk) > 1

-----------------------------------------------------------------------------
(* Starting, gcf.c 1191-1276.                                              *)

SniffConnectAction(g, open) ==
  LET a == UdpInit([g EXCEPT !.sniffSeqNum = 0, !.zep = << >>])
  IN  IF Connects(a, open)
      THEN Armed([Connect(a, open) EXCEPT !.state = "ST_SniffConfig"])
      ELSE Armed([a EXCEPT !.state = "ST_SniffTeardown"])

\* "idle", "chan" and "sniff".  On a closed port the nested event has already
\* changed the state when this one is set.
SniffConfigTimeout(g) ==
  Armed([Write(g, "sniff", 0) EXCEPT !.ascii = << >>, !.state = "ST_SniffConfigConfirm"])

FindsOK(s) == \E i \in 1..(Len(s) - 1) : s[i] = O /\ s[i + 1] = K

SniffConfigConfirmAscii(g) ==
  IF FindsOK(g.ascii)
  THEN Armed([g EXCEPT !.state = "ST_SniffSyncData", !.sniffPacket = << >>,
                       !.sniffLength = 0, !.ascii = << >>, !.rp = 0])
  ELSE g

-----------------------------------------------------------------------------
(* One frame, gcf.c 1343-1477.                                             *)

\* Data or acknowledge; the latter goes without the packet.
ZepData(length, packet) ==
  IF length >= DataLength THEN SubSeq(packet, MinLength + 1, length) ELSE << >>

\* The message leaves with the next sequence number.  The buffer of 256 bytes has room
\* for packets of up to 224, which those of 802.15.4 (127) never reach.
UdpSend(g) ==
  [g EXCEPT !.zep = Append(@, [seq  |-> g.sniffSeqNum,
                               data |-> ZepData(g.sniffLength, g.sniffPacket)]),
            !.sniffSeqNum = @ + 1]

\* Mutant: the bytes behind the frame are not kept.
SniffRecvDataForgets(g) ==
  LET k == g.sniffLength
      a == [g EXCEPT !.sniffPacket = SubSeq(g.ascii, g.rp + 1, g.rp + k)]
  IN  [UdpSend(a) EXCEPT !.sniffPacket = << >>, !.sniffLength = 0, !.ascii = << >>, !.rp = 0,
                         !.state = "ST_SniffSyncData"]

\* The frame with its end marker moves from gcf->ascii to gcf->sniffPacket, and
\* the rest to the start of gcf->ascii.
SniffRecvDataAscii(g) ==
  LET n == Len(g.ascii) - g.rp
      k == LET wanted == g.sniffLength + 1 - Len(g.sniffPacket)
           IN  IF n < wanted THEN n ELSE wanted
      a == [g EXCEPT !.sniffPacket = @ \o SubSeq(g.ascii, g.rp + 1, g.rp + k),
                     !.ascii = SubSeq(g.ascii, g.rp + k + 1, Len(g.ascii)),
                     !.rp = 0]
      b == IF a.sniffPacket[a.sniffLength + 1] = End THEN UdpSend(a) ELSE a
  IN  IF Len(a.sniffPacket) = a.sniffLength + 1
      THEN [b EXCEPT !.sniffPacket = << >>, !.sniffLength = 0, !.state = "ST_SniffSyncData"]
      ELSE a

-----------------------------------------------------------------------------
(* Synchronising, gcf.c 1278-1341.                                         *)

\* The index of the first start marker from rp on, or wp.
StartMarker(g) ==
  LET found == {i \in g.rp..(Len(g.ascii) - 1) : g.ascii[i + 1] = Start}
  IN  IF found = {} THEN Len(g.ascii)
      ELSE CHOOSE i \in found : \A j \in found : i <= j

\* A start marker with its length byte behind it.
\* Mutant: frames shorter than the timestamp are not refused.
SniffFrameAnyLength(g, i) ==
  LET length == g.ascii[i + 2]
      a == [g EXCEPT !.rp = i, !.sniffPacket = << >>, !.sniffLength = length]
  IN  IF 2 + length >= Len(g.ascii) - i THEN a
      ELSE IF g.ascii[i + 2 + length + 1] = End
           THEN SniffRecvDataAscii([a EXCEPT !.rp = i + 2, !.state = "ST_SniffRecvData"])
           ELSE [a EXCEPT !.rp = i + 1]

\* A start marker with its length byte behind it: too short, not there in full
\* yet, a frame, or no frame.
SniffFrame(g, i) ==
  LET length == g.ascii[i + 2]
      a == [g EXCEPT !.rp = i, !.sniffPacket = << >>, !.sniffLength = length]
  IN  IF length < MinLength THEN [a EXCEPT !.rp = i + 1]
      ELSE IF 2 + length >= Len(g.ascii) - i THEN a
      ELSE IF g.ascii[i + 2 + length + 1] = End
           THEN SniffRecvDataAscii([a EXCEPT !.rp = i + 2, !.state = "ST_SniffRecvData"])
           ELSE [a EXCEPT !.rp = i + 1]

\* EV_RX_ASCII and EV_PL_LOOP: at most one frame.  Without a start marker that
\* has its length byte, everything collected is dropped.
SniffSyncData(g) ==
  LET i == StartMarker(g)
      a == [g EXCEPT !.sniffLength = 0]
  IN  IF g.rp < Len(g.ascii) /\ i + 1 < Len(g.ascii)
      THEN SniffFrame(a, i)
      ELSE [a EXCEPT !.rp = 0, !.ascii = << >>]

\* EV_RX_ASCII in the states of the sniffer.
SniffAscii(g) ==
  CASE g.state = "ST_SniffConfigConfirm" -> SniffConfigConfirmAscii(g)
    [] g.state = "ST_SniffSyncData"      -> SniffSyncData(g)
    [] g.state = "ST_SniffRecvData"      -> SniffRecvDataAscii(g)
    [] g.state = "ST_SniffTeardown"      -> SniffTeardown(g)
    [] OTHER                             -> g

\* Mutant: the hour that the sniffer may be silent never ends.
SniffTimeoutStays(g) ==
  CASE g.state = "ST_SniffConfig"   -> SniffConfigTimeout(g)
    [] g.state = "ST_SniffTeardown" -> SniffTeardown(g)
    [] OTHER                        -> Armed(g)

\* EV_TIMEOUT in the states of the sniffer.
SniffTimeout(g) ==
  CASE g.state = "ST_SniffConfig"   -> SniffConfigTimeout(g)
    [] g.state = "ST_SniffTeardown" -> SniffTeardown(g)
    [] OTHER                        -> Armed([g EXCEPT !.state = "ST_SniffTeardown"])

SniffReceived(g, chunk) ==
  LET a == Collect(g, chunk) IN IF Collects(g, chunk) THEN SniffAscii(a) ELSE a

=============================================================================
