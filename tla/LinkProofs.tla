----------------------------- MODULE LinkProofs -----------------------------
(***************************************************************************)
(* The bounds of the ring and of the receive buffer, for every size, every *)
(* set of packets and every sequence of failures.                          *)
(***************************************************************************)
EXTENDS Link, SequenceTheorems, TLAPS

-----------------------------------------------------------------------------
(* The ring.                                                               *)

\* Quotient and remainder.
LEMMA DivMod ==
  ASSUME NEW a \in Nat, NEW n \in Nat, n > 0
  PROVE  a = n * (a \div n) + (a % n) /\ a \div n \in Int /\ a % n \in 0..(n - 1)
  BY SMTT(30)

\* There is only one remainder.
LEMMA RemainderUnique ==
  ASSUME NEW n \in Int, n > 0, NEW q1 \in Int, NEW q2 \in Int,
         NEW r1 \in 0..(n - 1), NEW r2 \in 0..(n - 1), n * q1 + r1 = n * q2 + r2
  PROVE  r1 = r2
<1>1. n * (q1 - q2) = r2 - r1
  OBVIOUS
<1>2. CASE q1 - q2 >= 1
  <2>1. n * (q1 - q2) >= n * 1
    BY <1>2
  <2> QED
    BY <2>1, <1>1
<1>3. CASE q1 - q2 <= -1
  <2>1. n * (q1 - q2) <= n * (-1)
    BY <1>3
  <2> QED
    BY <2>1, <1>1
<1>4. CASE q1 = q2
  BY <1>4
<1> QED
  BY <1>2, <1>3, <1>4

\* One round further is the same place of the ring.
LEMMA OneRound ==
  ASSUME NEW a \in Nat, NEW n \in Nat, n > 0
  PROVE  (a + n) % n = a % n
<1> DEFINE p == a \div n
           q == (a + n) \div n
           r == a % n
           s == (a + n) % n
<1>1. a = n * p + r /\ p \in Int /\ r \in 0..(n - 1)
  BY DivMod
<1>2. a + n = n * q + s /\ q \in Int /\ s \in 0..(n - 1)
  BY DivMod
<1> HIDE DEF p, q, r, s
<1>3. n * (p + 1) + r = n * q + s /\ p + 1 \in Int
  BY <1>1, <1>2
<1>4. r = s
  BY <1>1, <1>2, <1>3, RemainderUnique
<1> QED
  BY <1>4 DEF r, s

\* Putting a byte keeps the ring's bounds: when the write pointer meets the read
\* pointer, the oldest byte is given up.
LEMMA PutcKeepsRing ==
  ASSUME NEW r, RingOK(r), NEW c \in Byte
  PROVE  RingOK(PROT_Putc(r, c))
<1> DEFINE w == r.wp + 1
           q == PROT_Putc(r, c)
<1>1. r.rp \in Nat /\ r.wp \in Nat /\ w \in Nat /\ TxSize \in Nat /\ TxSize > 1
  BY LinkAssumption DEF RingOK
<1>2. r.wp % TxSize \in 0..(TxSize - 1)
  BY <1>1
<1>3. q.buf \in [0..(TxSize - 1) -> Byte]
  BY <1>2 DEF RingOK, PROT_Putc
<1>4. q.wp = w
  BY DEF PROT_Putc
<1>5. q.rp = IF w % TxSize = r.rp % TxSize THEN r.rp + 1 ELSE r.rp
  BY DEF PROT_Putc
<1>6. (r.rp + TxSize) % TxSize = r.rp % TxSize
  <2>1. r.rp \in Nat /\ TxSize \in Nat /\ TxSize > 0
    BY <1>1
  <2> QED
    BY <2>1, OneRound, Zenon
<1>7. r.rp <= r.wp /\ r.wp < r.rp + TxSize
  BY DEF RingOK
<1>8. q = [buf |-> q.buf, wp |-> q.wp, rp |-> q.rp]
  BY DEF PROT_Putc
<1> HIDE DEF q
<1>9. q.rp \in Nat /\ q.wp \in Nat /\ q.rp <= q.wp /\ q.wp < q.rp + TxSize
  <2>1. CASE w = r.rp + TxSize
    <3>1. q.rp = r.rp + 1
      BY <1>5, <1>6, <2>1
    <3> QED
      BY <1>1, <1>4, <1>7, <2>1, <3>1
  <2>2. CASE w # r.rp + TxSize
    <3>1. q.rp \in {r.rp, r.rp + 1}
      BY <1>5
    <3> QED
      BY <1>1, <1>4, <1>7, <2>2, <3>1
  <2> QED
    BY <2>1, <2>2
<1>10. RingOK(q)
  BY <1>3, <1>8, <1>9 DEF RingOK
<1> QED
  BY <1>10 DEF q

\* So does putting it with its escape.
LEMMA EscapedPutcKeepsRing ==
  ASSUME NEW r, RingOK(r), NEW c \in Byte
  PROVE  RingOK(protPutc(r, c))
<1>1. {FR_ESC, T_FR_ESC, T_FR_END} \subseteq Byte
  BY DEF FR_ESC, T_FR_ESC, T_FR_END, Byte
<1>2. RingOK(PROT_Putc(r, c)) /\ RingOK(PROT_Putc(r, FR_ESC))
  BY <1>1, PutcKeepsRing
<1>3. \A d \in {T_FR_ESC, T_FR_END} : RingOK(PROT_Putc(PROT_Putc(r, FR_ESC), d))
  BY <1>1, <1>2, PutcKeepsRing
<1> QED
  BY <1>2, <1>3 DEF protPutc

\* PROT_Flush finds no more bytes than there are.
LEMMA WaitingBound ==
  ASSUME NEW r, RingOK(r)
  PROVE  Waiting(r) \in 0..(r.wp - r.rp)
<1>1. r.wp - r.rp \in 0..(TxSize - 1) /\ TxSize \in Nat \ {0} /\ Burst \in Nat
  BY LinkAssumption DEF RingOK
<1>2. (r.wp - r.rp) % TxSize = r.wp - r.rp
  BY <1>1
<1> QED
  BY <1>1, <1>2 DEF Waiting

\* What is taken from the ring are bytes.
LEMMA OldestTyped ==
  ASSUME NEW r, RingOK(r), NEW n \in Nat
  PROVE  Oldest(r, n) \in Seq(Byte)
<1>1. \A i \in 1..n : (r.rp + i - 1) % TxSize \in 0..(TxSize - 1)
  BY LinkAssumption DEF RingOK
<1>2. \A i \in 1..n : r.buf[(r.rp + i - 1) % TxSize] \in Byte
  BY <1>1 DEF RingOK
<1> DEFINE g == [i \in 1..n |-> r.buf[(r.rp + i - 1) % TxSize]]
<1>3. g \in [1..n -> Byte]
  BY <1>2
<1> HIDE DEF g
<1>4. g \in Seq(Byte)
  BY <1>3, SeqDef
<1>5. Oldest(r, n) = g
  BY DEF Oldest, g
<1> QED
  BY <1>4, <1>5

\* Emptying it keeps the bounds.
LEMMA EmptyKeepsRing == ASSUME NEW r, RingOK(r) PROVE RingOK(Empty(r))
<1>1. r.buf \in [0..(TxSize - 1) -> Byte]
  BY DEF RingOK
<1>2. Empty(r) = [buf |-> r.buf, rp |-> 0, wp |-> 0]
  BY DEF RingOK, Empty
<1>3. RingOK([buf |-> r.buf, rp |-> 0, wp |-> 0])
  BY <1>1, LinkAssumption DEF RingOK
<1> QED
  BY <1>2, <1>3

-----------------------------------------------------------------------------
(* The receiver.                                                           *)

\* A byte never overruns the receive buffer.
LEMMA RxByteTyped ==
  ASSUME NEW r, RxOK(r), NEW c \in Byte
  PROVE  RxOK(RxByte(r, c))
<1>1. RxOK(RxEnd(r))
  BY LinkAssumption DEF RxOK, RxEnd
<1>2. RxOK([r EXCEPT !.escaped = TRUE])
  BY DEF RxOK
<1>3. RxOK(RxData(r, c))
  <2> DEFINE bad  == r.escaped /\ c \notin {T_FR_ESC, T_FR_END}
             kept == IF bad THEN << >> ELSE r.buf
             byte == IF r.escaped THEN Unescape(c) ELSE c
             new  == IF Len(kept) < RxSize THEN Append(kept, byte) ELSE << >>
  <2>1. kept \in Seq(Byte)
    BY DEF RxOK
  <2>2. byte \in Byte
    BY DEF Unescape, Byte, FR_ESC, FR_END
  <2>3. new \in Seq(Byte) /\ Len(new) <= RxSize
    BY <2>1, <2>2, LinkAssumption
  <2>4. RxData(r, c) = [buf |-> new, escaped |-> FALSE]
    BY DEF RxData
  <2> HIDE DEF new
  <2> QED
    BY <2>3, <2>4 DEF RxOK
<1> QED
  BY <1>1, <1>2, <1>3 DEF RxByte

-----------------------------------------------------------------------------
(* The sender and the line.                                                *)

\* What there is to know of 2^16, which the solver had better not see.
LEMMA WordSize == Word \in Nat /\ Word = 256 * 256 /\ Word > 0
  BY DEF Word

\* Most steps need less.
LEMMA WordPositive == Word \in Nat /\ Word > 0
  BY WordSize

\* Remainders of crc stay in 16 bits.
LEMMA WordMod ==
  ASSUME NEW n \in Nat
  PROVE  n % Word \in Nat /\ n % Word < Word /\ n % Word \in 0..(Word - 1)
  BY WordPositive, DivMod

\* The two bytes of a checksum are bytes, and crc stays in 16 bits.
LEMMA CrcTyped ==
  ASSUME NEW crc \in 0..(Word - 1), NEW c \in Byte
  PROVE  /\ CrcBytes(crc)[1] \in Byte
         /\ CrcBytes(crc)[2] \in Byte
         /\ (crc + c) % Word \in 0..(Word - 1)
<1> DEFINE k == Crc(crc)
           q == k \div 256
           m == k % 256
<1>1. crc \in Nat /\ c \in Nat /\ crc + c \in Nat
  <2>1. c \in Nat
    BY DEF Byte
  <2>2. crc \in Nat
    BY WordPositive
  <2> QED
    BY <2>1, <2>2
<1>2. (crc + c) % Word \in 0..(Word - 1)
  BY <1>1, WordMod
<1>3. k \in Nat /\ k < Word
  <2>1. crc % Word \in Nat /\ crc % Word < Word
    BY <1>1, WordMod
  <2>2. Word - (crc % Word) \in Nat
    BY <2>1, WordPositive
  <2> QED
    BY <2>2, WordMod DEF Crc
<1>4. CrcBytes(crc) = <<m, q>>
  BY DEF CrcBytes
<1> HIDE DEF k
<1>5. k = 256 * q + m /\ q \in Int /\ m \in 0..255
  BY <1>3, DivMod
<1> HIDE DEF q, m
<1>6. m \in Byte
  BY <1>5 DEF Byte
<1>7. q \in 0..255
  <2>1. k < 256 * 256
    BY <1>3, WordSize, Zenon
  <2> QED
    BY <1>3, <1>5, <2>1
<1>8. q \in Byte
  BY <1>7 DEF Byte
<1> QED
  BY <1>2, <1>4, <1>6, <1>8

\* A byte lost or changed leaves bytes.
LEMMA RemoveTyped ==
  ASSUME NEW s \in Seq(Byte), NEW i \in DOMAIN s, NEW c \in Byte
  PROVE  RemoveAt(s, i) \in Seq(Byte) /\ [s EXCEPT ![i] = c] \in Seq(Byte)
<1>1. i \in 1..Len(s) /\ Len(s) \in Nat
  OBVIOUS
<1>2. SubSeq(s, 1, i - 1) \in Seq(Byte) /\ SubSeq(s, i + 1, Len(s)) \in Seq(Byte)
  BY <1>1, SubSeqProperties
<1>3. RemoveAt(s, i) \in Seq(Byte)
  BY <1>2, ConcatProperties DEF RemoveAt
<1> QED
  BY <1>3

\* Counting a failure keeps the record of harm.
LEMMA HarmTyped ==
  ASSUME NEW g \in Harm
  PROVE  /\ g.fails < MaxFails => [g EXCEPT !.fails = @ + 1] \in Harm
         /\ g.cuts < MaxCuts => [g EXCEPT !.cuts = @ + 1] \in Harm
         /\ g.damage < MaxDamage => [g EXCEPT !.damage = @ + 1] \in Harm
         /\ \A b \in BOOLEAN : [g EXCEPT !.overwritten = @ \/ b] \in Harm
<1>1. g.fails < MaxFails => [g EXCEPT !.fails = @ + 1] \in Harm
  BY LinkAssumption DEF Harm
<1>2. g.cuts < MaxCuts => [g EXCEPT !.cuts = @ + 1] \in Harm
  BY LinkAssumption DEF Harm
<1>3. g.damage < MaxDamage => [g EXCEPT !.damage = @ + 1] \in Harm
  BY LinkAssumption DEF Harm
<1>4. \A b \in BOOLEAN : [g EXCEPT !.overwritten = @ \/ b] \in Harm
  BY DEF Harm
<1> QED
  BY <1>1, <1>2, <1>3, <1>4

\* PROT_Flush leaves the ring in its bounds and bytes on the line.
LEMMA FlushTyped ==
  ASSUME RingOK(ring), line \in Seq(Byte), harm \in Harm, PROT_Flush
  PROVE  RingOK(ring') /\ line' \in Seq(Byte) /\ harm' \in Harm
<1>1. PICK n \in 0..Waiting(ring) :
        /\ line' = line \o Oldest(ring, n)
        /\ ring' = [ring EXCEPT !.rp = @ + n]
        /\ IF n = Waiting(ring) THEN UNCHANGED harm
           ELSE harm.fails < MaxFails /\ harm' = [harm EXCEPT !.fails = @ + 1]
  BY DEF PROT_Flush
<1>2. Waiting(ring) \in 0..(ring.wp - ring.rp)
  BY WaitingBound
<1>3. ring.rp \in Nat /\ ring.wp \in Nat /\ ring.buf \in [0..(TxSize - 1) -> Byte]
      /\ ring.rp <= ring.wp /\ ring.wp < ring.rp + TxSize /\ TxSize \in Nat
  BY LinkAssumption DEF RingOK
<1>4. n \in Nat /\ n <= ring.wp - ring.rp
  BY <1>2, <1>3
<1>5. ring' = [buf |-> ring.buf, rp |-> ring.rp + n, wp |-> ring.wp]
  BY <1>1 DEF RingOK
<1>6. RingOK(ring')
  BY <1>3, <1>4, <1>5 DEF RingOK
<1>7. line' \in Seq(Byte)
  <2>1. Oldest(ring, n) \in Seq(Byte)
    BY <1>4, OldestTyped
  <2> QED
    BY <1>1, <2>1, ConcatProperties
<1>8. harm' \in Harm
  BY <1>1, HarmTyped
<1> QED
  BY <1>6, <1>7, <1>8

\* A turn of PROT_SendFlagged that leaves the ring r in its bounds keeps the types
\* of everything but tx.
LEMMA PutsTyped ==
  ASSUME LinkTypeOK, NEW r, RingOK(r), Puts(r), tx' \in Sender
  PROVE  LinkTypeOK'
<1>1. ring' = r /\ UNCHANGED <<connected, line, rx, sent, got>>
  BY DEF Puts
<1>2. harm' \in Harm
  <2>1. harm \in Harm /\ (r.rp # ring.rp) \in BOOLEAN
    BY DEF LinkTypeOK
  <2>2. harm' = [harm EXCEPT !.overwritten = @ \/ r.rp # ring.rp]
    BY DEF Puts
  <2> QED
    BY <2>1, <2>2, HarmTyped, Zenon
<1>3. RingOK(ring')
  BY <1>1
<1> QED
  BY <1>1, <1>2, <1>3 DEF LinkTypeOK, RingOK, RxOK

-----------------------------------------------------------------------------
(* The invariant.                                                          *)

\* Nothing is sent yet and the ring is empty.
LEMMA LinkInitHolds == LinkInit => LinkTypeOK
<1> SUFFICES ASSUME LinkInit PROVE LinkTypeOK
  OBVIOUS
<1>1. RingOK(ring) /\ RxOK(rx)
  BY LinkAssumption DEF LinkInit, RingOK, RxOK, Byte
<1>2. tx \in Sender /\ harm \in Harm
  BY LinkAssumption, WordSize DEF LinkInit, Sender, Harm
<1>3. << >> \in Seq(Byte) /\ << >> \in Seq(Packets) /\ << >> \in Seq(Seq(Byte))
  OBVIOUS
<1>4. connected \in BOOLEAN /\ line = << >> /\ sent = << >> /\ got = << >>
  BY DEF LinkInit
<1> QED
  BY <1>1, <1>2, <1>3, <1>4 DEF LinkTypeOK

\* Every step keeps the bounds.
LEMMA LinkStepHolds == LinkTypeOK /\ [LinkNext]_linkVars => LinkTypeOK'
<1> SUFFICES ASSUME LinkTypeOK, [LinkNext]_linkVars PROVE LinkTypeOK'
  OBVIOUS
<1>a. /\ RingOK(ring) /\ RingOK(Empty(ring)) /\ RxOK(rx)
      /\ connected \in BOOLEAN /\ tx \in Sender /\ line \in Seq(Byte)
      /\ sent \in Seq(Packets) /\ got \in Seq(Seq(Byte)) /\ harm \in Harm
  BY EmptyKeepsRing DEF LinkTypeOK
<1>b. FR_END \in Byte
  BY DEF FR_END, Byte
<1>1. CASE Connect
  <2>1. RingOK(ring')
    BY <1>1, <1>a DEF Connect
  <2> QED
    BY <1>1, <1>a, <2>1 DEF Connect, LinkTypeOK, RxOK
<1>2. CASE Disconnect
  <2>1. harm' \in Harm
    BY <1>2, <1>a, HarmTyped DEF Disconnect
  <2>2. RingOK(ring')
    BY <1>2, <1>a DEF Disconnect
  <2>3. line' \in Seq(Byte)
    <3>1. line' \in {line, << >>} /\ << >> \in Seq(Byte)
      BY <1>2 DEF Disconnect
    <3> QED
      BY <3>1, <1>a
  <2> QED
    BY <1>2, <1>a, <2>1, <2>2, <2>3 DEF Disconnect, LinkTypeOK, RxOK
<1>3. CASE \E p \in Packets : SendFlagged(p)
  <2>1. PICK p \in Packets : SendFlagged(p)
    BY <1>3
  <2>2. sent' \in Seq(Packets)
    BY <1>a, <2>1, AppendProperties DEF SendFlagged
  <2>3. tx' \in Sender
    BY <2>1, LinkAssumption, WordSize DEF SendFlagged, Sender
  <2> QED
    BY <1>a, <2>1, <2>2, <2>3 DEF SendFlagged, LinkTypeOK, RingOK, RxOK
<1>4. CASE PutEnd
  <2>1. RingOK(PROT_Putc(ring, FR_END)) /\ Puts(PROT_Putc(ring, FR_END))
    BY <1>4, <1>a, <1>b, PutcKeepsRing DEF PutEnd
  <2>2. PICK step \in {<<"open", "data">>, <<"close", "flush">>} :
          tx' = [tx EXCEPT !.at = step[2]]
    BY <1>4 DEF PutEnd
  <2>3. step[2] \in {"data", "flush"}
    OBVIOUS
  <2>4. tx' \in Sender
    BY <1>a, <2>2, <2>3 DEF Sender
  <2> QED
    BY <2>1, <2>4, PutsTyped
<1>5. CASE PutData
  <2>1. /\ Puts(protPutc(ring, Head(tx.data)))
        /\ tx.data # << >>
        /\ tx' = [at |-> "data", data |-> Tail(tx.data),
                  crc |-> (tx.crc + Head(tx.data)) % Word]
    BY <1>5 DEF PutData
  <2>2. tx.data \in Seq(Byte) /\ tx.crc \in 0..(Word - 1)
    BY <1>a DEF Sender
  <2>3. Head(tx.data) \in Byte /\ Tail(tx.data) \in Seq(Byte)
    BY <2>1, <2>2, HeadTailProperties
  <2>4. (tx.crc + Head(tx.data)) % Word \in 0..(Word - 1)
    BY <2>2, <2>3, CrcTyped
  <2>5. RingOK(protPutc(ring, Head(tx.data)))
    BY <2>3, <1>a, EscapedPutcKeepsRing
  <2>6. tx' \in Sender
    BY <2>1, <2>3, <2>4 DEF Sender
  <2> QED
    BY <2>1, <2>5, <2>6, PutsTyped
<1>6. CASE PutCrc
  <2>1. CrcBytes(tx.crc)[1] \in Byte /\ CrcBytes(tx.crc)[2] \in Byte
    BY <1>a, <1>b, CrcTyped DEF Sender
  <2>2. PICK i \in {1, 2}, at \in {"high", "close"} :
          Puts(protPutc(ring, CrcBytes(tx.crc)[i])) /\ tx' = [tx EXCEPT !.at = at]
    BY <1>6 DEF PutCrc
  <2>3. RingOK(protPutc(ring, CrcBytes(tx.crc)[i]))
    BY <2>1, <1>a, EscapedPutcKeepsRing
  <2>4. tx' \in Sender
    BY <1>a, <2>2 DEF Sender
  <2> QED
    BY <2>2, <2>3, <2>4, PutsTyped
<1>7. CASE Flush
  <2>1. RingOK(ring') /\ line' \in Seq(Byte) /\ harm' \in Harm
    BY <1>7, <1>a, FlushTyped DEF Flush
  <2>2. tx' \in Sender
    BY <1>7, <1>a DEF Flush, Sender
  <2> QED
    BY <1>7, <1>a, <2>1, <2>2 DEF Flush, LinkTypeOK, RxOK
<1>8. CASE Leftover
  <2>1. RingOK(ring') /\ line' \in Seq(Byte) /\ harm' \in Harm
    BY <1>8, <1>a, FlushTyped DEF Leftover
  <2> QED
    BY <1>8, <1>a, <2>1 DEF Leftover, LinkTypeOK, RxOK
<1>9. CASE ReceiveByte
  <2>1. Head(line) \in Byte /\ line' \in Seq(Byte)
    BY <1>9, <1>a, HeadTailProperties DEF ReceiveByte
  <2>2. RxOK(rx')
    BY <1>9, <1>a, <2>1, RxByteTyped DEF ReceiveByte
  <2>3. got' \in Seq(Seq(Byte))
    <3>1. CASE Delivers(rx, Head(line))
      <4>1. rx.buf \in Seq(Byte) /\ Len(rx.buf) > 2
        BY <1>a, <3>1 DEF Delivers, Accepts, RxOK
      <4>2. SubSeq(rx.buf, 1, Len(rx.buf) - 2) \in Seq(Byte)
        BY <4>1, SubSeqProperties
      <4> QED
        BY <1>9, <1>a, <3>1, <4>2, AppendProperties DEF ReceiveByte
    <3>2. CASE ~Delivers(rx, Head(line))
      BY <1>9, <1>a, <3>2 DEF ReceiveByte
    <3> QED
      BY <3>1, <3>2
  <2> QED
    BY <1>9, <1>a, <2>1, <2>2, <2>3 DEF ReceiveByte, LinkTypeOK, RingOK
<1>10. CASE Damage
  <2>1. line' \in Seq(Byte)
    <3>1. PICK i \in DOMAIN line :
            \/ \E c \in Noise \ {line[i]} : line' = [line EXCEPT ![i] = c]
            \/ line[i] # 0 /\ line' = RemoveAt(line, i)
      BY <1>10 DEF Damage
    <3> QED
      BY <1>a, <1>b, <3>1, RemoveTyped, LinkAssumption
  <2>2. harm' \in Harm
    BY <1>10, <1>a, HarmTyped DEF Damage
  <2> QED
    BY <1>10, <1>a, <2>1, <2>2 DEF Damage, LinkTypeOK, RingOK, RxOK
<1>11. CASE UNCHANGED linkVars
  BY <1>11 DEF linkVars, LinkTypeOK, RingOK, RxOK
<1>12. CASE AllSent
  BY <1>11, <1>12 DEF AllSent
<1> QED
  BY <1>1, <1>2, <1>3, <1>4, <1>5, <1>6, <1>7, <1>8, <1>9, <1>10, <1>11, <1>12 DEF LinkNext

\* Whatever is sent, lost or damaged, the ring holds fewer than TX_BUF_SIZE bytes,
\* its pointers never pass each other and the receive buffer does not overrun
\* (main_posix.c 316-377, protocol.c 62-143).
THEOREM LinkBounded == LinkSpec => []LinkTypeOK
  BY LinkInitHolds, LinkStepHolds, PTL DEF LinkSpec

=============================================================================
