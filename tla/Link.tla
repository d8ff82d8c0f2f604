-------------------------------- MODULE Link --------------------------------
(***************************************************************************)
(* The frame protocol of src/protocol.c over the ring of bytes to send of  *)
(* src/main_posix.c, from one side's PROT_SendFlagged to the other side's  *)
(* PROT_ReceiveFlagged.  Bytes are bytes here: escapes and checksums are   *)
(* what the properties are about.                                          *)
(*                                                                         *)
(* PROT_SendFlagged and PROT_ReceiveFlagged take a byte in each turn of    *)
(* their loops; an action is one turn.  The receiver keeps its state from  *)
(* call to call, so how the bytes are cut into calls does not matter, and  *)
(* a handler may send between two bytes of the same call.                  *)
(***************************************************************************)
EXTENDS Integers, Sequences, SequencesExt

CONSTANTS
  Packets,      \* what is sent, each a sequence of bytes
  TxSize,       \* TX_BUF_SIZE
  Burst,        \* bytes that one PROT_Flush writes at most
  RxSize,       \* bytes that fit in PROT_RxState.buf
  Noise,        \* what a damaged byte may turn into
  MaxSent,      \* packets sent
  MaxDamage,    \* damaged bytes
  MaxFails,     \* failing calls of write()
  MaxCuts       \* disconnects

Byte == 0..255
Word == 65536   \* values of crc, an unsigned short

FR_END   == 192
FR_ESC   == 219
T_FR_END == 220
T_FR_ESC == 221

ASSUME LinkAssumption ==
  /\ Packets \subseteq Seq(Byte)
  /\ TxSize \in Nat /\ TxSize > 1
  /\ Burst \in Nat \ {0}
  /\ RxSize \in Nat /\ RxSize > 2
  /\ Noise \subseteq Byte
  /\ {MaxSent, MaxDamage, MaxFails, MaxCuts} \subseteq Nat

VARIABLES
  connected,  \* platform.fd # 0
  ring,       \* platform.txbuf, tx_rp and tx_wp
  tx,         \* PROT_SendFlagged: where it stands, the data to come and crc
  line,       \* bytes written and not yet read by the other side
  rx,         \* the other side's PROT_RxState
  sent,       \* packets handed to PROT_SendFlagged
  got,        \* packets the other side handed to PROT_Packet
  harm        \* what went wrong so far

linkVars == <<connected, ring, tx, line, rx, sent, got, harm>>

-----------------------------------------------------------------------------
(* Frames, protocol.c.                                                     *)

Sum(s) == FoldLeft(LAMBDA sum, c : sum + c, 0, s)

\* The checksum of bytes with this sum, 16 bit, low byte first.
Crc(sum) == (Word - (sum % Word)) % Word
CrcBytes(sum) == <<Crc(sum) % 256, Crc(sum) \div 256>>

\* Mutant: the checksum is not compared.
AcceptsAny(buf) == Len(buf) > 2

\* Packet and checksum are complete and match.
Accepts(buf) ==
  /\ Len(buf) > 2
  /\ CrcBytes(Sum(SubSeq(buf, 1, Len(buf) - 2))) = SubSeq(buf, Len(buf) - 1, Len(buf))

\* A delimiter ends a frame, unless it follows an escape.
RxEnd(r) == [buf |-> << >>, escaped |-> FALSE]
Delivers(r, c) == c = FR_END /\ ~r.escaped /\ Accepts(r.buf)

Unescape(c) == CASE c = T_FR_ESC -> FR_ESC
                 [] c = T_FR_END -> FR_END
                 [] OTHER        -> c

\* Another byte.  An unknown escape and a full buffer throw away what was
\* collected; the byte after an unknown escape is kept, that without room is not.
RxData(r, c) ==
  LET bad  == r.escaped /\ c \notin {T_FR_ESC, T_FR_END}
      kept == IF bad THEN << >> ELSE r.buf
      byte == IF r.escaped THEN Unescape(c) ELSE c
  IN  [buf     |-> IF Len(kept) < RxSize THEN Append(kept, byte) ELSE << >>,
       escaped |-> FALSE]

\* One turn of the loop in PROT_ReceiveFlagged.
RxByte(r, c) ==
  CASE c = FR_END -> RxEnd(r)
    [] c = FR_ESC -> [r EXCEPT !.escaped = TRUE]
    [] OTHER      -> RxData(r, c)

-----------------------------------------------------------------------------
(* The ring of bytes to send, main_posix.c.  TX_BUF_SIZE divides 2^32, so  *)
(* the wrap of the unsigned counters is invisible and left out.            *)

Empty(r) == [buf |-> r.buf, rp |-> 0, wp |-> 0]

\* Mutant: the oldest byte is not given up.
PutcKeepsOldest(r, c) == [r EXCEPT !.buf[r.wp % TxSize] = c, !.wp = @ + 1]

\* PROT_Putc on an open port.
PROT_Putc(r, c) ==
  LET w == r.wp + 1
  IN  [buf |-> [r.buf EXCEPT ![r.wp % TxSize] = c],
       wp  |-> w,
       rp  |-> IF w % TxSize = r.rp % TxSize THEN r.rp + 1 ELSE r.rp]

\* protPutc: a delimiter or an escape in a packet is put as two bytes.
protPutc(r, c) ==
  CASE c = FR_ESC -> PROT_Putc(PROT_Putc(r, FR_ESC), T_FR_ESC)
    [] c = FR_END -> PROT_Putc(PROT_Putc(r, FR_ESC), T_FR_END)
    [] OTHER      -> PROT_Putc(r, c)

\* Bytes PROT_Flush finds: it looks for the first index that meets the write
\* pointer, and at most for Burst bytes.
Waiting(r) == LET n == (r.wp - r.rp) % TxSize IN IF n < Burst THEN n ELSE Burst

Oldest(r, n) == [i \in 1..n |-> r.buf[(r.rp + i - 1) % TxSize]]

\* Mutant: what write() did not take is forgotten.
PROT_FlushForgets ==
  \E n \in 0..Waiting(ring) :
    /\ line' = line \o Oldest(ring, n)
    /\ ring' = [ring EXCEPT !.rp = ring.wp]
    /\ IF n = Waiting(ring) THEN UNCHANGED harm
       ELSE harm.fails < MaxFails /\ harm' = [harm EXCEPT !.fails = @ + 1]

\* PROT_Flush writes all it found, or fails on the way.
PROT_Flush ==
  \E n \in 0..Waiting(ring) :
    /\ line' = line \o Oldest(ring, n)
    /\ ring' = [ring EXCEPT !.rp = @ + n]
    /\ IF n = Waiting(ring) THEN UNCHANGED harm
       ELSE harm.fails < MaxFails /\ harm' = [harm EXCEPT !.fails = @ + 1]

-----------------------------------------------------------------------------

LinkInit ==
  /\ connected = FALSE
  /\ ring = [buf |-> [i \in 0..(TxSize - 1) |-> 0], rp |-> 0, wp |-> 0]
  /\ tx = [at |-> "idle", data |-> << >>, crc |-> 0]
  /\ line = << >>
  /\ rx = [buf |-> << >>, escaped |-> FALSE]
  /\ sent = << >>
  /\ got = << >>
  /\ harm = [damage |-> 0, fails |-> 0, cuts |-> 0, overwritten |-> FALSE]

\* PL_Connect.
Connect ==
  /\ ~connected
  /\ tx.at = "idle"
  /\ connected' = TRUE
  /\ ring' = Empty(ring)
  /\ UNCHANGED <<tx, line, rx, sent, got, harm>>

\* PL_Disconnect, by a handler or a hang-up: what has left already may arrive
\* or not.
Disconnect ==
  /\ connected
  /\ tx.at = "idle"
  /\ harm.cuts < MaxCuts
  /\ connected' = FALSE
  /\ ring' = Empty(ring)
  /\ line' \in {line, << >>}
  /\ harm' = [harm EXCEPT !.cuts = @ + 1]
  /\ UNCHANGED <<tx, rx, sent, got>>

\* Mutant: no delimiter before the packet.
SendNotOpened(p) ==
  /\ connected
  /\ tx.at = "idle"
  /\ Len(sent) < MaxSent
  /\ sent' = Append(sent, p)
  /\ tx' = [at |-> "data", data |-> p, crc |-> 0]
  /\ UNCHANGED <<connected, ring, line, rx, got, harm>>

\* PROT_SendFlagged is called; on a closed port nothing is put.
SendFlagged(p) ==
  /\ connected
  /\ tx.at = "idle"
  /\ Len(sent) < MaxSent
  /\ sent' = Append(sent, p)
  /\ tx' = [at |-> "open", data |-> p, crc |-> 0]
  /\ UNCHANGED <<connected, ring, line, rx, got, harm>>

\* The ring after a turn is r.
Puts(r) ==
  /\ ring' = r
  /\ harm' = [harm EXCEPT !.overwritten = @ \/ r.rp # ring.rp]
  /\ UNCHANGED <<connected, line, rx, sent, got>>

\* A delimiter before the packet and one after it.
PutEnd ==
  \E step \in {<<"open", "data">>, <<"close", "flush">>} :
    /\ tx.at = step[1]
    /\ tx' = [tx EXCEPT !.at = step[2]]
    /\ Puts(PROT_Putc(ring, FR_END))

PutData ==
  /\ tx.at = "data"
  /\ tx.data # << >>
  /\ tx' = [at |-> "data", data |-> Tail(tx.data),
            crc |-> (tx.crc + Head(tx.data)) % Word]
  /\ Puts(protPutc(ring, Head(tx.data)))

\* Mutant: the checksum is not escaped.
PutCrcRaw ==
  \/ /\ tx.at = "data" /\ tx.data = << >>
     /\ tx' = [tx EXCEPT !.at = "high"]
     /\ Puts(PROT_Putc(ring, CrcBytes(tx.crc)[1]))
  \/ /\ tx.at = "high"
     /\ tx' = [tx EXCEPT !.at = "close"]
     /\ Puts(PROT_Putc(ring, CrcBytes(tx.crc)[2]))

\* The checksum is escaped as the data are.
PutCrc ==
  \/ /\ tx.at = "data" /\ tx.data = << >>
     /\ tx' = [tx EXCEPT !.at = "high"]
     /\ Puts(protPutc(ring, CrcBytes(tx.crc)[1]))
  \/ /\ tx.at = "high"
     /\ tx' = [tx EXCEPT !.at = "close"]
     /\ Puts(protPutc(ring, CrcBytes(tx.crc)[2]))

Flush ==
  /\ tx.at = "flush"
  /\ PROT_Flush
  /\ tx' = [tx EXCEPT !.at = "idle"]
  /\ UNCHANGED <<connected, rx, sent, got>>

\* PL_Loop, in an iteration in which poll() reported something: a byte of the peer
\* or a key.  Iterations in which it reports nothing end before they come here.
Leftover ==
  /\ connected
  /\ tx.at = "idle"
  /\ ring.rp # ring.wp
  /\ PROT_Flush
  /\ UNCHANGED <<connected, tx, rx, sent, got>>

ReceiveByte ==
  /\ line # << >>
  /\ rx' = RxByte(rx, Head(line))
  /\ got' = IF Delivers(rx, Head(line))
            THEN Append(got, SubSeq(rx.buf, 1, Len(rx.buf) - 2)) ELSE got
  /\ line' = Tail(line)
  /\ UNCHANGED <<connected, ring, tx, sent, harm>>

\* A byte is changed or lost.  A lost zero does not change a sum, and is left
\* out: nothing in the protocol can tell.
Damage ==
  /\ harm.damage < MaxDamage
  /\ \E i \in DOMAIN line :
       \/ \E c \in Noise \ {line[i]} : line' = [line EXCEPT ![i] = c]
       \/ line[i] # 0 /\ line' = RemoveAt(line, i)
  /\ harm' = [harm EXCEPT !.damage = @ + 1]
  /\ UNCHANGED <<connected, ring, tx, rx, sent, got>>

AllSent == Len(sent) = MaxSent /\ tx.at = "idle" /\ ring.rp = ring.wp /\ line = << >>
           /\ UNCHANGED linkVars

LinkNext ==
  \/ Connect
  \/ Disconnect
  \/ \E p \in Packets : SendFlagged(p)
  \/ PutEnd
  \/ PutData
  \/ PutCrc
  \/ Flush
  \/ Leftover
  \/ ReceiveByte
  \/ Damage
  \/ AllSent

LinkSpec == LinkInit /\ [][LinkNext]_linkVars

\* A call of PROT_SendFlagged runs to its end, and what is on the line is read.
\* Leftover has no fairness: the peer may be silent for ever, and nobody at the
\* keyboard.
LinkFair == LinkSpec /\ WF_linkVars(PutEnd \/ PutData \/ PutCrc)
                     /\ WF_linkVars(Flush) /\ WF_linkVars(ReceiveByte)

-----------------------------------------------------------------------------
(* Properties.                                                             *)

RingOK(r) ==
  /\ r \in [buf : [0..(TxSize - 1) -> Byte], rp : Nat, wp : Nat]
  /\ r.rp <= r.wp /\ r.wp < r.rp + TxSize

RxOK(r) == r \in [buf : Seq(Byte), escaped : BOOLEAN] /\ Len(r.buf) <= RxSize

Sender == [at : {"idle", "open", "data", "high", "close", "flush"},
           data : Seq(Byte), crc : 0..(Word - 1)]

Harm == [damage : 0..MaxDamage, fails : 0..MaxFails, cuts : 0..MaxCuts,
         overwritten : BOOLEAN]

\* The variables keep their types; the ring holds fewer than TX_BUF_SIZE bytes
\* and the receive buffer does not overrun.
LinkTypeOK ==
  /\ connected \in BOOLEAN
  /\ RingOK(ring)
  /\ tx \in Sender
  /\ line \in Seq(Byte)
  /\ RxOK(rx)
  /\ sent \in Seq(Packets)
  /\ got \in Seq(Seq(Byte))
  /\ harm \in Harm

\* What the other side's PROT_Packet gets was sent, in this order, each packet at
\* most once: whatever is cut off by a disconnect, overwritten in the ring or
\* damaged on the line, no part of a frame and no two frames run together pass
\* for a packet (protocol.c 62-143).
NothingInvented ==
  \E f \in [1..Len(got) -> 1..Len(sent)] :
    \A i \in 1..Len(got) : got[i] = sent[f[i]] /\ (i > 1 => f[i - 1] < f[i])

Fits(p) == Len(p) + 2 <= RxSize

\* All that was sent has been read.
AllRead == tx.at = "idle" /\ ring.rp = ring.wp /\ line = << >>

\* A damaged byte costs at most one packet, also when it is a delimiter or looks
\* like one: the frame after it is found again (protocol.c 44 and 58-59, 74-109).
AtMostOneLost ==
  (AllRead /\ harm.cuts = 0 /\ ~harm.overwritten)
     => Len(got) + harm.damage >= Len(SelectSeq(sent, Fits))

Unharmed == harm.damage = 0 /\ harm.cuts = 0 /\ ~harm.overwritten

Deliverable(p) == p # << >> /\ Fits(p)

\* On an undamaged line the other side gets exactly what was sent, in this order,
\* and once the line is empty all of it: escapes, checksums, the ring's wrap and
\* bytes that a failing PROT_Flush leaves behind do not show (protocol.c 18-143,
\* main_posix.c 316-377).
ArrivesAsSent ==
  (Unharmed /\ \A i \in 1..Len(sent) : Deliverable(sent[i]))
     => IsPrefix(got, sent) /\ (AllRead => got = sent)

\* Bytes wait in the ring, and no call of PROT_SendFlagged is about to flush them.
Held == tx.at = "idle" /\ ring.rp # ring.wp

\* On an undamaged line every packet that fits arrives, whatever bytes it and its
\* checksum consist of, and although a frame may take several calls of
\* PROT_Flush and some of these fail (main_posix.c 345-374 and 504-507).  The
\* exception is a rest that stays in the ring for ever, because nothing is sent
\* after it and poll() reports nothing (main_posix.c 481-484): nothing else loses
\* a packet, and if poll() reports something again and again, none is lost.
AllArrive ==
  \A n \in 1..MaxSent :
    []Unharmed => ((Len(SelectSeq(sent, Fits)) >= n) ~> (Len(got) >= n \/ []Held))

=============================================================================
