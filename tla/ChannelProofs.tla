---------------------------- MODULE ChannelProofs ----------------------------
(***************************************************************************)
(* An undamaged line delivers exactly what was sent, for every size of the *)
(* ring and of the receive buffer and for every set of packets.            *)
(*                                                                         *)
(* The bytes on the line and the bytes in the ring are one stream.  The    *)
(* receiver, if it read that stream to its end, would stand where          *)
(* PROT_SendFlagged stands: behind the last frame, or behind as much of a  *)
(* packet as was put so far.  Putting a byte lengthens the stream by a     *)
(* step of the receiver, reading one takes the first step away, and        *)
(* PROT_Flush leaves the stream as it is.                                  *)
(***************************************************************************)
EXTENDS LinkProofs, FoldLemmas

-----------------------------------------------------------------------------
(* The sum of the bytes, by which checksums are made.                      *)

\* The additions of Sum, one by one.
LEMMA SumSteps ==
  ASSUME NEW s \in Seq(Byte)
  PROVE  \E t \in [0..Len(s) -> Nat] :
           /\ t[0] = 0
           /\ \A i \in 1..Len(s) : t[i] = t[i - 1] + s[i]
           /\ t[Len(s)] = Sum(s)
<1> DEFINE N == Len(s)
           Is(f) == f = [q \in SUBSET (1..N) |->
                           IF q = {} THEN 0 ELSE f[q \ {Max(q)}] + s[Max(q)]]
           iter == CHOOSE f : Is(f)
           next == [z \in Nat \X (1..N) |-> z[1] + s[z[2]]]
<1>1. N \in Nat /\ DOMAIN s = 1..N /\ \A i \in 1..N : s[i] \in Nat
  <2>1. N \in Nat /\ DOMAIN s = 1..N /\ \A i \in 1..N : s[i] \in Byte
    OBVIOUS
  <2>2. \A b \in Byte : b \in Nat
    BY DEF Byte
  <2> HIDE DEF N
  <2> QED
    BY <2>1, <2>2
<1>2. Sum(s) = iter[1..N]
  BY <1>1 DEF Sum, FoldLeft, MapThenFoldSet
<1> HIDE DEF N
<1>3. /\ next \in [Nat \X (1..N) -> Nat]
      /\ \A x \in Nat, i \in 1..N : next[<<x, i>>] = x + s[i]
  BY <1>1
<1> HIDE DEF next
<1>4. \A q \in SUBSET (1..N) : q # {} => Max(q) \in 1..N
  BY <1>1, MaxIn
<1>5. PICK f \in [SUBSET (1..N) -> Nat] : IsFold(f, N, 0, next)
  BY <1>1, <1>3, FoldExists
<1>6. Is(f)
  BY <1>3, <1>4, <1>5 DEF IsFold
<1>7. Is(iter)
  <2> HIDE DEF Is
  <2> QED
    BY <1>6
<1> HIDE DEF iter
<1>8. FoldsIn(Nat, iter, N, 0, next)
  BY <1>3, <1>4, <1>7 DEF FoldsIn
<1> HIDE DEF Is
<1>9. PICK t \in [0..N -> Nat] : Steps(t, N, 0, next) /\ t[N] = iter[1..N]
  <2> DEFINE X == Nat
  <2>1. 0 \in X /\ N \in Nat /\ FoldsIn(X, iter, N, 0, next)
    BY <1>1, <1>8
  <2> HIDE DEF X
  <2>2. \E t \in [0..N -> X] : Steps(t, N, 0, next) /\ t[N] = iter[1..N]
    BY <2>1, FoldSteps
  <2> QED
    BY <2>2 DEF X
<1>10. ASSUME NEW i \in 1..N PROVE t[i] = t[i - 1] + s[i]
  <2>1. i - 1 \in 0..N
    BY <1>1
  <2> QED
    BY <1>3, <1>9, <2>1 DEF Steps
<1> QED
  BY <1>2, <1>9, <1>10 DEF N, Steps

\* Another byte adds to the sum.
LEMMA SumAppend ==
  ASSUME NEW s \in Seq(Byte), NEW c \in Byte
  PROVE  Sum(Append(s, c)) = Sum(s) + c /\ Sum(s) \in Nat /\ Sum(<< >>) = 0
<1> DEFINE a == Append(s, c)
           N == Len(s)
<1>1. a \in Seq(Byte) /\ Len(a) = N + 1 /\ N \in Nat
      /\ a[N + 1] = c /\ \A i \in 1..N : a[i] = s[i]
  BY AppendProperties
<1>2. PICK t \in [0..N -> Nat] :
        t[0] = 0 /\ (\A i \in 1..N : t[i] = t[i - 1] + s[i]) /\ t[N] = Sum(s)
  BY SumSteps
<1> HIDE DEF a
<1>3. PICK u \in [0..Len(a) -> Nat] :
        u[0] = 0 /\ (\A i \in 1..Len(a) : u[i] = u[i - 1] + a[i]) /\ u[Len(a)] = Sum(a)
  BY <1>1, SumSteps
<1> HIDE DEF N
<1> DEFINE S == {n \in Nat : n <= N => u[n] = t[n]}
<1>4. 0 \in S
  BY <1>2, <1>3
<1>5. ASSUME NEW n \in Nat, n \in S PROVE n + 1 \in S
  <2> SUFFICES ASSUME n + 1 <= N PROVE u[n + 1] = t[n + 1]
    OBVIOUS
  <2>1. n + 1 \in 1..N /\ n + 1 \in 1..(N + 1) /\ (n + 1) - 1 = n /\ u[n] = t[n]
    BY <1>1, <1>5
  <2> QED
    BY <1>1, <1>2, <1>3, <2>1
<1> HIDE DEF S
<1>6. N \in S
  BY <1>1, <1>4, <1>5, NatSetInduction
<1>7. u[N] = Sum(s)
  BY <1>1, <1>2, <1>6 DEF S
<1>8. u[N + 1] = u[N] + c
  <2>1. N + 1 \in 1..(N + 1) /\ (N + 1) - 1 = N
    BY <1>1
  <2> QED
    BY <1>1, <1>3, <2>1
<1>9. Sum(s) \in Nat
  BY <1>1, <1>2
<1>10. Sum(<< >>) = 0
  <2>1. << >> \in Seq(Byte) /\ Len(<< >>) = 0
    BY EmptySeq
  <2> QED
    BY <2>1, SumSteps
<1> QED
  BY <1>1, <1>3, <1>7, <1>8, <1>9, <1>10 DEF a

\* A checksum depends on the sum only modulo 2^16.
LEMMA CrcOfSum ==
  ASSUME NEW sum \in Nat
  PROVE  CrcBytes(sum % Word) = CrcBytes(sum)
<1>1. sum % Word \in Nat /\ sum % Word < Word
  BY WordMod
<1>2. (sum % Word) % Word = sum % Word
  <2> DEFINE m == sum % Word
  <2> HIDE DEF m
  <2>1. \A k \in Nat : Word \in Nat /\ k < Word => k % Word = k
    OBVIOUS
  <2> QED
    BY <1>1, <2>1, WordSize DEF m
<1> QED
  BY <1>2, Zenon DEF CrcBytes, Crc

\* crc, kept in 16 bits, follows the sum.
LEMMA CrcFollows ==
  ASSUME NEW sum \in Nat, NEW c \in Byte
  PROVE  ((sum % Word) + c) % Word = (sum + c) % Word
<1> DEFINE m == sum % Word
           q == sum \div Word
           n == (m + c) % Word
           p == (m + c) \div Word
           k == (sum + c) % Word
           j == (sum + c) \div Word
<1>0. c \in Nat /\ Word \in Nat /\ Word > 0
  BY WordSize DEF Byte
<1>1. sum = Word * q + m /\ q \in Int /\ m \in 0..(Word - 1)
  BY <1>0, DivMod
<1>2. m + c \in Nat /\ sum + c \in Nat
  BY <1>0, <1>1
<1> HIDE DEF m, q
<1>3. m + c = Word * p + n /\ p \in Int /\ n \in 0..(Word - 1)
  BY <1>0, <1>2, DivMod
<1>4. sum + c = Word * j + k /\ j \in Int /\ k \in 0..(Word - 1)
  BY <1>0, <1>2, DivMod
<1> HIDE DEF n, p, j, k
<1> DEFINE W == Word
<1>5. W * (q + p) = W * q + W * p
  <2>1. W \in Int
    BY <1>0
  <2> HIDE DEF W
  <2> QED
    BY <1>1, <1>3, <2>1
<1>6. Word * (q + p) + n = Word * j + k
  <2>1. W \in Int /\ W * q \in Int /\ W * p \in Int /\ W * j \in Int /\ W * (q + p) \in Int
        /\ n \in Int /\ k \in Int /\ m \in Int
    BY <1>0, <1>1, <1>3, <1>4
  <2> DEFINE A == W * q
             B == W * p
             C == W * j
             D == W * (q + p)
  <2>2. A \in Int /\ B \in Int /\ C \in Int /\ D \in Int
    BY <2>1
  <2>3. sum = A + m /\ m + c = B + n /\ sum + c = C + k /\ D = A + B
    BY <1>1, <1>3, <1>4, <1>5
  <2> HIDE DEF A, B, C, D
  <2>4. D + n = C + k
    BY <1>0, <2>1, <2>2, <2>3
  <2> QED
    BY <2>4 DEF C, D
<1>7. n = k
  <2>1. q + p \in Int /\ j \in Int /\ W \in Int /\ W > 0
        /\ n \in 0..(W - 1) /\ k \in 0..(W - 1) /\ W * (q + p) + n = W * j + k
    BY <1>0, <1>1, <1>3, <1>4, <1>6
  <2> HIDE DEF W
  <2> QED
    BY <2>1, RemainderUnique
<1> QED
  BY <1>7 DEF k, m, n

-----------------------------------------------------------------------------
(* The receiver reading a stream to its end.                               *)

\* The first sequence begins the second.
Begins(s, t) == Len(s) <= Len(t) /\ \A i \in 1..Len(s) : s[i] = t[i]

\* What a byte does to the receiver and to the packets it handed on.
Step(a, c) ==
  [rx  |-> RxByte(a.rx, c),
   got |-> IF Delivers(a.rx, c)
           THEN Append(a.got, SubSeq(a.rx.buf, 1, Len(a.rx.buf) - 2)) ELSE a.got]

Readers == [rx : [buf : Seq(Byte), escaped : BOOLEAN], got : Seq(Seq(Byte))]

\* w is the way of the receiver from a through the stream s.
IsWay(w, a, s) ==
  /\ w \in [0..Len(s) -> Readers]
  /\ w[0] = a
  /\ \A i \in 1..Len(s) : w[i] = Step(w[i - 1], s[i])

\* The way ends at b, which has all the packets of every place on it.
Reads(a, s, b) ==
  \E w : /\ IsWay(w, a, s)
         /\ w[Len(s)] = b
         /\ \A i \in 0..Len(s) : Begins(w[i].got, b.got)

\* A step keeps types and never takes a packet back.
LEMMA StepTyped ==
  ASSUME NEW a \in Readers, RxOK(a.rx), NEW c \in Byte
  PROVE  Step(a, c) \in Readers /\ RxOK(Step(a, c).rx) /\ Begins(a.got, Step(a, c).got)
<1>1. RxOK(RxByte(a.rx, c)) /\ a.rx.buf \in Seq(Byte) /\ a.got \in Seq(Seq(Byte))
  BY RxByteTyped DEF RxOK, Readers
<1>2. CASE Delivers(a.rx, c)
  <2> DEFINE p == SubSeq(a.rx.buf, 1, Len(a.rx.buf) - 2)
  <2>1. Len(a.rx.buf) > 2 /\ Len(a.rx.buf) \in Nat
    BY <1>1, <1>2 DEF Delivers, Accepts
  <2>2. p \in Seq(Byte)
    BY <1>1, <2>1, SubSeqProperties
  <2>3. Step(a, c) = [rx |-> RxByte(a.rx, c), got |-> Append(a.got, p)]
    BY <1>2 DEF Step
  <2> HIDE DEF p
  <2>4. Append(a.got, p) \in Seq(Seq(Byte)) /\ Begins(a.got, Append(a.got, p))
    BY <1>1, <2>2, AppendProperties DEF Begins
  <2> QED
    BY <1>1, <2>3, <2>4 DEF Readers, RxOK
<1>3. CASE ~Delivers(a.rx, c)
  <2>1. Step(a, c) = [rx |-> RxByte(a.rx, c), got |-> a.got]
    BY <1>3 DEF Step
  <2>2. Begins(a.got, a.got)
    BY <1>1 DEF Begins
  <2> QED
    BY <1>1, <2>1, <2>2 DEF Readers, RxOK
<1> QED
  BY <1>2, <1>3

\* Nothing to read.
LEMMA ReadsNothing ==
  ASSUME NEW a \in Readers
  PROVE  Reads(a, << >>, a)
<1> DEFINE w == [i \in 0..0 |-> a]
<1>1. IsWay(w, a, << >>) /\ w[Len(<< >>)] = a
  BY DEF IsWay
<1>2. \A i \in 0..Len(<< >>) : Begins(w[i].got, a.got)
  BY DEF Begins, Readers
<1> QED
  BY <1>1, <1>2 DEF Reads

\* At the end of the stream there is another byte.
LEMMA ReadsMore ==
  ASSUME NEW a, NEW s \in Seq(Byte), NEW b \in Readers, Reads(a, s, b), RxOK(b.rx),
         NEW c \in Byte
  PROVE  Reads(a, Append(s, c), Step(b, c))
<1> DEFINE n == Len(s)
           u == Append(s, c)
           d == Step(b, c)
<1>1. n \in Nat /\ Len(u) = n + 1 /\ u[n + 1] = c /\ \A i \in 1..n : u[i] = s[i]
  BY AppendProperties
<1>2. PICK w : IsWay(w, a, s) /\ w[n] = b /\ \A i \in 0..n : Begins(w[i].got, b.got)
  BY DEF Reads
<1>3. d \in Readers /\ Begins(b.got, d.got)
  BY StepTyped
<1> DEFINE v == [i \in 0..(n + 1) |-> IF i = n + 1 THEN d ELSE w[i]]
<1> HIDE DEF u, d
<1>4. w \in [0..n -> Readers] /\ w[0] = a /\ \A i \in 1..n : w[i] = Step(w[i - 1], s[i])
  BY <1>2 DEF IsWay
<1> HIDE DEF n
<1>5. v \in [0..(n + 1) -> Readers] /\ v[0] = a /\ v[n + 1] = d
      /\ \A i \in 0..n : v[i] = w[i]
  BY <1>1, <1>3, <1>4
<1> HIDE DEF v
<1>6. ASSUME NEW i \in 1..(n + 1) PROVE v[i] = Step(v[i - 1], u[i])
  <2>1. i - 1 \in 0..n /\ v[i - 1] = w[i - 1]
    BY <1>1, <1>5
  <2>2. CASE i = n + 1
    <3>1. i - 1 = n
      BY <1>1, <2>2
    <3> QED
      BY <1>1, <1>2, <1>5, <2>1, <2>2, <3>1 DEF d
  <2>3. CASE i # n + 1
    <3>1. i \in 1..n /\ i \in 0..n
      BY <1>1, <2>3
    <3> QED
      BY <1>1, <1>4, <1>5, <2>1, <3>1
  <2> QED
    BY <2>2, <2>3
<1>7. ASSUME NEW i \in 0..(n + 1) PROVE Begins(v[i].got, d.got)
  <2>1. CASE i = n + 1
    <3>1. d.got \in Seq(Seq(Byte))
      BY <1>3 DEF Readers
    <3> QED
      BY <1>5, <2>1, <3>1 DEF Begins
  <2>2. CASE i # n + 1
    <3>1. i \in 0..n
      BY <1>1, <2>2
    <3>2. Begins(w[i].got, b.got) /\ v[i] = w[i]
      BY <1>2, <1>5, <3>1 DEF n
    <3>3. w[i].got \in Seq(Seq(Byte)) /\ b.got \in Seq(Seq(Byte)) /\ d.got \in Seq(Seq(Byte))
      BY <1>3, <1>4, <3>1 DEF Readers
    <3> DEFINE x == w[i].got
               y == b.got
               z == d.got
    <3>4. /\ Len(x) \in Nat /\ Len(y) \in Nat /\ Len(z) \in Nat
          /\ Begins(x, y) /\ Begins(y, z)
      BY <1>3, <3>2, <3>3
    <3> HIDE DEF x, y, z
    <3>5. Begins(x, z)
      BY <3>4 DEF Begins
    <3> QED
      BY <3>2, <3>5 DEF x, z
  <2> QED
    BY <2>1, <2>2
<1>8. IsWay(v, a, u)
  BY <1>1, <1>5, <1>6 DEF IsWay
<1> QED
  BY <1>1, <1>5, <1>7, <1>8 DEF Reads, u, d

\* The first byte of the stream is read.
LEMMA ReadsOn ==
  ASSUME NEW a, NEW s \in Seq(Byte), s # << >>, NEW b, Reads(a, s, b)
  PROVE  Reads(Step(a, Head(s)), Tail(s), b)
<1> DEFINE n == Len(s)
           u == Tail(s)
<1>1. n \in Nat /\ n >= 1 /\ Len(u) = n - 1 /\ Head(s) = s[1]
      /\ \A i \in 1..(n - 1) : u[i] = s[i + 1]
  <2>1. Len(s) \in Nat \ {0} /\ Head(s) = s[1]
    BY EmptySeq
  <2> QED
    BY <2>1, HeadTailProperties
<1>2. PICK w : IsWay(w, a, s) /\ w[n] = b /\ \A i \in 0..n : Begins(w[i].got, b.got)
  BY DEF Reads
<1>3. w \in [0..n -> Readers] /\ w[0] = a /\ \A i \in 1..n : w[i] = Step(w[i - 1], s[i])
  BY <1>2 DEF IsWay
<1> HIDE DEF n, u
<1> DEFINE v == [i \in 0..(n - 1) |-> w[i + 1]]
<1>4. \A i \in 0..(n - 1) : i + 1 \in 1..n /\ i + 1 \in 0..n /\ v[i] = w[i + 1]
  BY <1>1
<1>5. v \in [0..(n - 1) -> Readers]
  BY <1>3, <1>4
<1>6. v[0] = Step(a, Head(s))
  <2>1. 0 \in 0..(n - 1) /\ 1 \in 1..n /\ 1 - 1 = 0
    BY <1>1
  <2>2. v[0] = w[1]
    BY <1>4, <2>1
  <2>3. w[1] = Step(w[0], s[1])
    BY <1>3, <2>1
  <2> QED
    BY <1>1, <1>3, <2>2, <2>3
<1>7. ASSUME NEW i \in 1..(n - 1) PROVE v[i] = Step(v[i - 1], u[i])
  <2>1. i - 1 \in 0..(n - 1) /\ i \in 0..(n - 1) /\ (i - 1) + 1 = i /\ i + 1 \in 1..n
        /\ (i + 1) - 1 = i
    BY <1>1
  <2>2. v[i] = w[i + 1] /\ v[i - 1] = w[i] /\ u[i] = s[i + 1]
    BY <1>1, <1>4, <2>1
  <2>3. w[i + 1] = Step(w[i], s[i + 1])
    BY <1>3, <2>1
  <2> QED
    BY <2>2, <2>3
<1>8. v[n - 1] = b
  <2>1. n - 1 \in 0..(n - 1) /\ (n - 1) + 1 = n
    BY <1>1
  <2> QED
    BY <1>2, <1>4, <2>1 DEF n
<1>9. \A i \in 0..(n - 1) : Begins(v[i].got, b.got)
  BY <1>2, <1>4 DEF n
<1> HIDE DEF v
<1>10. IsWay(v, Step(a, Head(s)), u)
  BY <1>1, <1>5, <1>6, <1>7 DEF IsWay
<1> QED
  BY <1>1, <1>8, <1>9, <1>10 DEF Reads, u

-----------------------------------------------------------------------------
(* The stream: what is on the line, then what is in the ring.              *)

Content(r) == Oldest(r, r.wp - r.rp)

Stream == line \o Content(ring)

\* Two counters less than a round apart are at different places of the ring.
LEMMA PlacesDiffer ==
  ASSUME NEW n \in Nat, NEW a \in Nat, NEW b \in Nat, n > 0, a < b, b < a + n
  PROVE  a % n # b % n
<1> DEFINE p == a \div n
           q == b \div n
           r == a % n
           s == b % n
<1>1. a = n * p + r /\ p \in Int /\ r \in 0..(n - 1)
  BY DivMod
<1>2. b = n * q + s /\ q \in Int /\ s \in 0..(n - 1)
  BY DivMod
<1> HIDE DEF p, q, r, s
<1> SUFFICES ASSUME r = s PROVE FALSE
  BY DEF r, s
<1>3. n * (q - p) = b - a
  BY <1>1, <1>2
<1>4. CASE q - p >= 1
  <2>1. n * (q - p) >= n * 1
    BY <1>1, <1>2, <1>4
  <2> QED
    BY <1>3, <2>1
<1>5. CASE q - p <= 0
  <2>1. n * (q - p) <= n * 0
    BY <1>1, <1>2, <1>5
  <2> QED
    BY <1>3, <2>1
<1> QED
  BY <1>1, <1>2, <1>4, <1>5

\* The bytes of the ring, by their places.
LEMMA OldestIs ==
  ASSUME NEW r, RingOK(r), NEW n \in Nat
  PROVE  /\ Oldest(r, n) \in Seq(Byte) /\ Len(Oldest(r, n)) = n
         /\ \A i \in 1..n : Oldest(r, n)[i] = r.buf[(r.rp + i - 1) % TxSize]
  BY OldestTyped DEF Oldest

\* The number of bytes in the ring.
LEMMA RingNumbers ==
  ASSUME NEW r, RingOK(r)
  PROVE  /\ r.rp \in Nat /\ r.wp \in Nat /\ r.wp - r.rp \in Nat /\ r.wp < r.rp + TxSize
         /\ TxSize \in Nat /\ TxSize > 0 /\ r.buf \in [0..(TxSize - 1) -> Byte]
  BY LinkAssumption DEF RingOK

\* A byte that pushes none out is the last one in the ring.
LEMMA PutcAppends ==
  ASSUME NEW r, RingOK(r), NEW c \in Byte, PROT_Putc(r, c).rp = r.rp
  PROVE  Content(PROT_Putc(r, c)) = Append(Content(r), c)
<1> DEFINE q == PROT_Putc(r, c)
           n == r.wp - r.rp
           place(i) == (r.rp + i - 1) % TxSize
<1>1. /\ r.rp \in Nat /\ r.wp \in Nat /\ n \in Nat /\ r.wp < r.rp + TxSize
      /\ TxSize \in Nat /\ TxSize > 0 /\ r.buf \in [0..(TxSize - 1) -> Byte]
  BY RingNumbers
<1>2. RingOK(q) /\ q.rp = r.rp /\ q.wp = r.wp + 1
      /\ q.buf = [r.buf EXCEPT ![r.wp % TxSize] = c]
  <2>1. q.wp = r.wp + 1 /\ q.buf = [r.buf EXCEPT ![r.wp % TxSize] = c]
    BY DEF PROT_Putc
  <2> QED
    BY <2>1, PutcKeepsRing
<1> HIDE DEF q
<1>3. q.wp - q.rp = n + 1 /\ n + 1 \in Nat
  BY <1>1, <1>2
<1>4. ASSUME NEW i \in 1..n PROVE q.buf[place(i)] = r.buf[place(i)]
  <2> DEFINE k == r.rp + i - 1
             m == TxSize
             w == r.wp
  <2>1. k \in Nat /\ w \in Nat /\ m \in Nat /\ m > 0 /\ k < w /\ w < k + m
    BY <1>1
  <2>2. k % m # w % m
    <3> HIDE DEF k, m, w
    <3> QED
      BY <2>1, PlacesDiffer
  <2>3. k % m \in 0..(m - 1)
    BY <2>1
  <2> HIDE DEF k
  <2>4. q.buf[k % m] = r.buf[k % m]
    BY <1>1, <1>2, <2>2, <2>3, Zenon
  <2> QED
    BY <2>4 DEF k
<1>5. q.buf[place(n + 1)] = c
  <2>1. r.rp + (n + 1) - 1 = r.wp
    BY <1>1
  <2>2. r.wp % TxSize \in 0..(TxSize - 1)
    BY <1>1
  <2>3. q.buf[r.wp % TxSize] = c
    BY <1>1, <1>2, <2>2, Zenon
  <2> QED
    BY <2>1, <2>3
<1> DEFINE s == Oldest(r, n)
           t == Oldest(q, n + 1)
<1>6. s \in Seq(Byte) /\ Len(s) = n /\ \A i \in 1..n : s[i] = r.buf[place(i)]
  BY <1>1, OldestIs
<1>7. t \in Seq(Byte) /\ Len(t) = n + 1 /\ \A i \in 1..(n + 1) : t[i] = q.buf[place(i)]
  <2>1. t \in Seq(Byte) /\ Len(t) = n + 1
        /\ \A i \in 1..(n + 1) : t[i] = q.buf[(q.rp + i - 1) % TxSize]
    BY <1>2, <1>3, OldestIs
  <2> QED
    BY <1>2, <2>1
<1> HIDE DEF place, s, t
<1>8. t = Append(s, c)
  <2>1. /\ Append(s, c) \in Seq(Byte) /\ Len(Append(s, c)) = n + 1
        /\ \A i \in 1..n : Append(s, c)[i] = s[i]
        /\ Append(s, c)[n + 1] = c
    BY <1>6, AppendProperties
  <2> DEFINE a == Append(s, c)
  <2> HIDE DEF a, n
  <2>2. \A i \in 1..(n + 1) : i \in 1..n \/ i = n + 1
    BY <1>1
  <2>3. n + 1 \in 1..(n + 1) /\ \A i \in 1..n : i \in 1..(n + 1)
    BY <1>1
  <2>4. \A i \in 1..(n + 1) : t[i] = a[i]
    BY <1>4, <1>5, <1>6, <1>7, <2>1, <2>2, <2>3 DEF a
  <2>5. a \in Seq(Byte) /\ Len(a) = n + 1
    BY <2>1 DEF a
  <2>6. t = a
    BY <1>7, <2>4, <2>5, SeqEqual
  <2> QED
    BY <2>6 DEF a
<1> QED
  BY <1>3, <1>8 DEF Content, s, t, q

\* Two sequences in a row, by their lengths.
LEMMA InARow ==
  ASSUME NEW s \in Seq(Byte), NEW t \in Seq(Byte), NEW m, NEW n, Len(s) = m, Len(t) = n
  PROVE  /\ s \o t \in Seq(Byte) /\ Len(s \o t) = m + n
         /\ \A i \in 1..(m + n) : (s \o t)[i] = IF i <= m THEN s[i] ELSE t[i - m]
<1>1. /\ s \o t \in Seq(Byte) /\ Len(s \o t) = Len(s) + Len(t)
      /\ \A i \in 1..(Len(s) + Len(t)) :
           (s \o t)[i] = IF i <= Len(s) THEN s[i] ELSE t[i - Len(s)]
  BY ConcatProperties
<1> QED
  BY <1>1, Zenon

\* The same for the stream.
LEMMA StreamGrows ==
  ASSUME NEW r, RingOK(r), line \in Seq(Byte), NEW c \in Byte, PROT_Putc(r, c).rp = r.rp
  PROVE  /\ line \o Content(r) \in Seq(Byte)
         /\ line \o Content(PROT_Putc(r, c)) = Append(line \o Content(r), c)
<1> DEFINE s == Content(r)
<1>1. s \in Seq(Byte)
  BY RingNumbers, OldestIs DEF Content
<1>2. Content(PROT_Putc(r, c)) = Append(s, c)
  BY PutcAppends
<1> HIDE DEF s
<1>3. Append(s, c) = s \o <<c>> /\ <<c>> \in Seq(Byte)
  BY <1>1, AppendIsConcat
<1>4. line \o Append(s, c) = (line \o s) \o <<c>>
  BY <1>1, <1>3, ConcatAssociative
<1>5. line \o s \in Seq(Byte)
  BY <1>1, ConcatProperties
<1>6. (line \o s) \o <<c>> = Append(line \o s, c)
  BY <1>5, AppendIsConcat
<1> QED
  BY <1>2, <1>4, <1>5, <1>6 DEF s

\* The stream consists of bytes; it is empty when the line and the ring are, and
\* its first byte is the line's.
LEMMA StreamTyped ==
  ASSUME RingOK(ring), line \in Seq(Byte)
  PROVE  /\ Stream \in Seq(Byte) /\ Content(ring) \in Seq(Byte)
         /\ line = << >> /\ ring.rp = ring.wp => Stream = << >>
         /\ line # << >> => /\ Stream # << >> /\ Head(Stream) = Head(line)
                            /\ Tail(Stream) = Tail(line) \o Content(ring)
<1> DEFINE s == Content(ring)
           n == ring.wp - ring.rp
<1>1. s \in Seq(Byte) /\ Len(s) = n /\ n \in Nat
  BY RingNumbers, OldestIs DEF Content
<1>2. ring.rp = ring.wp => n = 0
  BY RingNumbers
<1> HIDE DEF s, n
<1>3. line \o s \in Seq(Byte) /\ Len(line \o s) = Len(line) + n /\ Len(line) \in Nat
      /\ \A i \in 1..(Len(line) + n) : (line \o s)[i] =
             IF i <= Len(line) THEN line[i] ELSE s[i - Len(line)]
  BY <1>1, InARow
<1>4. ASSUME line = << >>, n = 0 PROVE line \o s = << >>
  <2>1. Len(line \o s) = 0
    BY <1>3, <1>4
  <2> QED
    BY <1>3, <2>1, EmptySeq
<1>5. ASSUME line # << >>
      PROVE  line \o s # << >> /\ Head(line \o s) = Head(line) /\ Tail(line \o s) = Tail(line) \o s
  <2>1. Len(line) >= 1
    BY EmptySeq, <1>5
  <2> DEFINE a == line \o s
             b == Tail(line)
             m == Len(line)
  <2>2. a # << >>
    <3>1. Len(a) # 0
      BY <1>1, <1>3, <2>1
    <3> QED
      BY <3>1
  <2>3. Head(a) = a[1] /\ Head(line) = line[1] /\ a[1] = line[1]
    BY <1>1, <1>3, <1>5, <2>1, <2>2
  <2>4. b \in Seq(Byte) /\ Len(b) = m - 1 /\ \A i \in 1..(m - 1) : b[i] = line[i + 1]
    BY <1>5, HeadTailProperties
  <2>5. Tail(a) \in Seq(Byte) /\ Len(Tail(a)) = m + n - 1
        /\ \A i \in 1..(m + n - 1) : Tail(a)[i] = a[i + 1]
    BY <1>1, <1>3, <2>2, HeadTailProperties
  <2> HIDE DEF b
  <2>6. b \o s \in Seq(Byte) /\ Len(b \o s) = (m - 1) + n
        /\ \A i \in 1..((m - 1) + n) : (b \o s)[i] = IF i <= m - 1 THEN b[i] ELSE s[i - (m - 1)]
    <3> HIDE DEF a, m
    <3>1. b \in Seq(Byte) /\ s \in Seq(Byte) /\ Len(b) = m - 1 /\ Len(s) = n
      BY <1>1, <2>4
    <3> QED
      BY <3>1, InARow
  <2> DEFINE t == Tail(a)
             u == b \o s
  <2>7. ASSUME NEW i \in 1..(m + n - 1) PROVE t[i] = u[i]
    <3>0. m \in Nat /\ m >= 1 /\ n \in Nat
      BY <1>1, <1>3, <2>1
    <3>1. t[i] = a[i + 1]
      BY <2>5
    <3> HIDE DEF t, u, m
    <3>2. i + 1 \in 1..(m + n) /\ i \in 1..((m - 1) + n)
      BY <3>0
    <3>3. a[i + 1] = IF i + 1 <= m THEN line[i + 1] ELSE s[(i + 1) - m]
      BY <1>3, <3>2 DEF m
    <3>4. u[i] = IF i <= m - 1 THEN b[i] ELSE s[i - (m - 1)]
      BY <2>6, <3>2 DEF u
    <3>5. CASE i <= m - 1
      <4>1. i + 1 <= m /\ i \in 1..(m - 1)
        BY <3>0, <3>5
      <4> QED
        BY <2>4, <3>1, <3>3, <3>4, <3>5, <4>1
    <3>6. CASE ~(i <= m - 1)
      <4>1. ~(i + 1 <= m) /\ (i + 1) - m = i - (m - 1)
        BY <3>0, <3>6
      <4> QED
        BY <3>1, <3>3, <3>4, <3>6, <4>1
    <3> QED
      BY <3>5, <3>6
  <2>8. t = u
    <3>1. t \in Seq(Byte) /\ u \in Seq(Byte) /\ Len(t) = m + n - 1 /\ Len(u) = Len(t)
      BY <1>1, <1>3, <2>5, <2>6
    <3> HIDE DEF t, u, m
    <3> QED
      BY <2>7, <3>1, SeqEqual
  <2> QED
    BY <2>2, <2>3, <2>8 DEF b
<1> QED
  BY <1>1, <1>2, <1>3, <1>4, <1>5 DEF s, Stream

\* PROT_Flush moves bytes from the ring to the line: the stream stays.
LEMMA FlushKeepsStream ==
  ASSUME RingOK(ring), line \in Seq(Byte), PROT_Flush
  PROVE  Stream' = Stream
<1>1. PICK n \in 0..Waiting(ring) :
        line' = line \o Oldest(ring, n) /\ ring' = [ring EXCEPT !.rp = @ + n]
  BY DEF PROT_Flush
<1> DEFINE m == ring.wp - ring.rp
           q == [ring EXCEPT !.rp = @ + n]
<1>2. n \in Nat /\ m \in Nat /\ n <= m /\ m - n \in Nat
  BY WaitingBound, RingNumbers
<1>3. q.rp = ring.rp + n /\ q.wp = ring.wp /\ q.buf = ring.buf
  BY DEF RingOK
<1>4. RingOK(q)
  <2>1. q = [buf |-> ring.buf, rp |-> ring.rp + n, wp |-> ring.wp]
    BY DEF RingOK
  <2> HIDE DEF q
  <2>2. ring.rp \in Nat /\ ring.wp \in Nat /\ ring.buf \in [0..(TxSize - 1) -> Byte]
        /\ ring.wp < ring.rp + TxSize /\ TxSize \in Nat
    BY RingNumbers
  <2>3. ring.rp + n \in Nat /\ ring.rp + n <= ring.wp /\ ring.wp < (ring.rp + n) + TxSize
    BY <1>2, <2>2, SMTT(30)
  <2> HIDE DEF m
  <2> QED
    BY <2>1, <2>2, <2>3 DEF RingOK
<1> HIDE DEF q
<1>5. q.wp - q.rp = m - n
  BY <1>2, <1>3, RingNumbers
<1> DEFINE s == Oldest(ring, m)
           a == Oldest(ring, n)
           b == Oldest(q, m - n)
<1>6. s \in Seq(Byte) /\ Len(s) = m
      /\ \A i \in 1..m : s[i] = ring.buf[(ring.rp + i - 1) % TxSize]
  BY <1>2, OldestIs
<1>7. a \in Seq(Byte) /\ Len(a) = n
      /\ \A i \in 1..n : a[i] = ring.buf[(ring.rp + i - 1) % TxSize]
  BY <1>2, OldestIs
<1>8. b \in Seq(Byte) /\ Len(b) = m - n
      /\ \A i \in 1..(m - n) : b[i] = ring.buf[((ring.rp + n) + i - 1) % TxSize]
  BY <1>2, <1>3, <1>4, OldestIs, ZenonT(30)
<1> HIDE DEF s, a, b, m
<1>9. a \o b \in Seq(Byte) /\ Len(a \o b) = n + (m - n)
      /\ \A i \in 1..(n + (m - n)) : (a \o b)[i] = IF i <= n THEN a[i] ELSE b[i - n]
  BY <1>7, <1>8, InARow
<1>10. ASSUME NEW i \in 1..m PROVE (a \o b)[i] = s[i]
  <2>0. i \in 1..(n + (m - n)) /\ i \in Nat
    BY <1>2
  <2>1. CASE i <= n
    <3>1. i \in 1..n
      BY <2>0, <2>1
    <3> QED
      BY <1>6, <1>7, <1>9, <2>0, <2>1, <3>1
  <2>2. CASE ~(i <= n)
    <3>1. i - n \in 1..(m - n) /\ (ring.rp + n) + (i - n) - 1 = ring.rp + i - 1
      BY <1>2, <2>0, <2>2, RingNumbers, SMTT(30)
    <3>2. b[i - n] = ring.buf[(ring.rp + i - 1) % TxSize]
      BY <1>8, <3>1
    <3> QED
      BY <1>6, <1>9, <2>0, <2>2, <3>2
  <2> QED
    BY <2>1, <2>2
<1>11. a \o b = s
  <2>1. Len(a \o b) = m
    BY <1>2, <1>9
  <2> QED
    BY <1>6, <1>9, <1>10, <2>1, SeqEqual, SMTT(30), ZenonT(40)
<1>12. (line \o a) \o b = line \o (a \o b)
  BY <1>7, <1>8, ConcatAssociative, SMTT(30), ZenonT(40)
<1>13. Stream' = (line \o a) \o b
  <2>1. line' = line \o a
    BY <1>1 DEF a
  <2>2. Content(ring)' = b
    BY <1>1, <1>5 DEF Content, b, q, Oldest
  <2> QED
    BY <2>1, <2>2 DEF Stream
<1>14. Stream = line \o s
  BY DEF Stream, Content, s, m
<1> QED
  BY <1>11, <1>12, <1>13, <1>14

-----------------------------------------------------------------------------
(* A byte of a packet, put with its escape, and read again.                *)

\* The receiver within a frame.
Within(bytes, packets) == [rx |-> [buf |-> bytes, escaped |-> FALSE], got |-> packets]

\* The receiver gets the byte that protPutc escaped.
LEMMA EscapesUndone ==
  ASSUME NEW d \in Seq(Byte), Len(d) < RxSize, NEW g \in Seq(Seq(Byte)), NEW c \in Byte
  PROVE  /\ c \notin {FR_END, FR_ESC} => Step(Within(d, g), c) = Within(Append(d, c), g)
         /\ Step(Step(Within(d, g), FR_ESC), T_FR_ESC) = Within(Append(d, FR_ESC), g)
         /\ Step(Step(Within(d, g), FR_ESC), T_FR_END) = Within(Append(d, FR_END), g)
<1> DEFINE r == [buf |-> d, escaped |-> FALSE]
           e == [r EXCEPT !.escaped = TRUE]
<1>0. e.buf = d /\ e.escaped = TRUE
  OBVIOUS
<1>1. ASSUME c \notin {FR_END, FR_ESC} PROVE Step(Within(d, g), c) = Within(Append(d, c), g)
  <2>1. RxByte(r, c) = [buf |-> Append(d, c), escaped |-> FALSE]
    BY <1>1 DEF RxByte, RxData
  <2>2. ~Delivers(r, c)
    BY <1>1 DEF Delivers
  <2> QED
    BY <2>1, <2>2 DEF Step, Within
<1>2. Step(Within(d, g), FR_ESC) = [rx |-> e, got |-> g]
  <2>1. RxByte(r, FR_ESC) = e
    <3>1. FR_ESC # FR_END
      BY DEF FR_ESC, FR_END
    <3> HIDE DEF r
    <3> QED
      BY <3>1, Zenon DEF RxByte
  <2>2. ~Delivers(r, FR_ESC)
    BY DEF Delivers, FR_ESC, FR_END
  <2> QED
    BY <2>1, <2>2 DEF Step, Within
<1> HIDE DEF e
<1>3. Step([rx |-> e, got |-> g], T_FR_ESC) = Within(Append(d, FR_ESC), g)
  <2>1. RxByte(e, T_FR_ESC) = [buf |-> Append(d, FR_ESC), escaped |-> FALSE]
    <3>1. T_FR_ESC # FR_END /\ T_FR_ESC # FR_ESC /\ Unescape(T_FR_ESC) = FR_ESC
      BY DEF Unescape, FR_ESC, FR_END, T_FR_ESC, T_FR_END
    <3>2. RxByte(e, T_FR_ESC) = RxData(e, T_FR_ESC)
      BY <3>1 DEF RxByte
    <3> QED
      BY <1>0, <3>1, <3>2 DEF RxData
  <2>2. ~Delivers(e, T_FR_ESC)
    BY <1>0 DEF Delivers
  <2> QED
    BY <2>1, <2>2 DEF Step, Within
<1>4. Step([rx |-> e, got |-> g], T_FR_END) = Within(Append(d, FR_END), g)
  <2>1. RxByte(e, T_FR_END) = [buf |-> Append(d, FR_END), escaped |-> FALSE]
    <3>1. T_FR_END # FR_END /\ T_FR_END # FR_ESC /\ Unescape(T_FR_END) = FR_END
      BY DEF Unescape, FR_ESC, FR_END, T_FR_ESC, T_FR_END
    <3>2. RxByte(e, T_FR_END) = RxData(e, T_FR_END)
      BY <3>1 DEF RxByte
    <3> QED
      BY <1>0, <3>1, <3>2 DEF RxData
  <2>2. ~Delivers(e, T_FR_END)
    BY <1>0 DEF Delivers
  <2> QED
    BY <2>1, <2>2 DEF Step, Within
<1> QED
  BY <1>1, <1>2, <1>3, <1>4

\* A byte that pushes none out makes the receiver's way one step longer.
LEMMA PutcReads ==
  ASSUME NEW r, RingOK(r), line \in Seq(Byte), NEW c \in Byte, PROT_Putc(r, c).rp = r.rp,
         NEW a, NEW b \in Readers, RxOK(b.rx), Reads(a, line \o Content(r), b)
  PROVE  /\ Reads(a, line \o Content(PROT_Putc(r, c)), Step(b, c))
         /\ Step(b, c) \in Readers /\ RxOK(Step(b, c).rx)
<1>1. line \o Content(r) \in Seq(Byte)
      /\ line \o Content(PROT_Putc(r, c)) = Append(line \o Content(r), c)
  BY StreamGrows
<1>2. Reads(a, Append(line \o Content(r), c), Step(b, c))
  BY <1>1, ReadsMore
<1> QED
  BY <1>1, <1>2, StepTyped

\* The read pointer never moves back.
LEMMA ReadPointer ==
  ASSUME NEW r, RingOK(r), NEW c
  PROVE  PROT_Putc(r, c).rp \in Nat /\ PROT_Putc(r, c).rp >= r.rp
<1>1. PROT_Putc(r, c).rp \in {r.rp, r.rp + 1} /\ r.rp \in Nat
  BY DEF PROT_Putc, RingOK
<1> QED
  BY <1>1

\* protPutc makes it longer by a byte of the packet.
LEMMA EscapedReads ==
  ASSUME RingOK(ring), line \in Seq(Byte), NEW c \in Byte, protPutc(ring, c).rp = ring.rp,
         NEW a, NEW d \in Seq(Byte), Len(d) < RxSize, NEW g \in Seq(Seq(Byte)),
         Reads(a, line \o Content(ring), Within(d, g))
  PROVE  Reads(a, line \o Content(protPutc(ring, c)), Within(Append(d, c), g))
<1>1. {FR_END, FR_ESC, T_FR_ESC, T_FR_END} \subseteq Byte
  BY DEF FR_END, FR_ESC, T_FR_ESC, T_FR_END, Byte
<1> DEFINE b == Within(d, g)
<1>2. b \in Readers /\ RxOK(b.rx)
  <2>1. Len(d) \in Nat /\ Len(d) <= RxSize
    BY LinkAssumption
  <2> QED
    BY <2>1 DEF Within, Readers, RxOK
<1>3. CASE c \notin {FR_END, FR_ESC}
  <2>1. protPutc(ring, c) = PROT_Putc(ring, c)
    BY <1>3 DEF protPutc
  <2>2. Reads(a, line \o Content(PROT_Putc(ring, c)), Step(b, c))
    BY <1>2, <2>1, PutcReads
  <2> QED
    BY <1>3, <2>1, <2>2, EscapesUndone
<1>4. ASSUME NEW e \in Byte,
             protPutc(ring, c) = PROT_Putc(PROT_Putc(ring, FR_ESC), e)
      PROVE  Reads(a, line \o Content(protPutc(ring, c)), Step(Step(b, FR_ESC), e))
  <2> DEFINE q == PROT_Putc(ring, FR_ESC)
             s == Step(b, FR_ESC)
  <2>1. RingOK(q)
    BY <1>1, PutcKeepsRing
  <2>2. q.rp = ring.rp /\ PROT_Putc(q, e).rp = q.rp
    <3>1. q.rp \in Nat /\ q.rp >= ring.rp /\ ring.rp \in Nat
      BY ReadPointer, RingNumbers
    <3> DEFINE u == PROT_Putc(q, e)
    <3>2. u.rp \in Nat /\ u.rp >= q.rp
      BY <2>1, ReadPointer
    <3>3. u.rp = ring.rp
      BY <1>4
    <3> HIDE DEF q, u
    <3>4. q.rp = ring.rp /\ u.rp = q.rp
      BY <3>1, <3>2, <3>3
    <3> QED
      BY <3>4 DEF u
  <2>3. Reads(a, line \o Content(q), s) /\ s \in Readers /\ RxOK(s.rx)
    BY <1>1, <1>2, <2>2, PutcReads
  <2> HIDE DEF q, s, b
  <2>4. Reads(a, line \o Content(PROT_Putc(q, e)), Step(s, e))
    BY <2>1, <2>2, <2>3, PutcReads
  <2> QED
    BY <1>4, <2>4 DEF q, s
<1>5. CASE c = FR_ESC
  <2>1. protPutc(ring, c) = PROT_Putc(PROT_Putc(ring, FR_ESC), T_FR_ESC)
    BY <1>5 DEF protPutc, FR_END, FR_ESC
  <2>2. Reads(a, line \o Content(protPutc(ring, c)), Step(Step(b, FR_ESC), T_FR_ESC))
    BY <1>1, <1>4, <2>1
  <2> QED
    BY <1>5, <2>2, EscapesUndone
<1>6. CASE c = FR_END
  <2>1. protPutc(ring, c) = PROT_Putc(PROT_Putc(ring, FR_ESC), T_FR_END)
    BY <1>6 DEF protPutc, FR_END, FR_ESC
  <2>2. Reads(a, line \o Content(protPutc(ring, c)), Step(Step(b, FR_ESC), T_FR_END))
    BY <1>1, <1>4, <2>1
  <2> QED
    BY <1>6, <2>2, EscapesUndone
<1> QED
  BY <1>3, <1>5, <1>6

\* A delimiter behind a complete packet delivers it.
LEMMA EndDelivers ==
  ASSUME NEW p \in Seq(Byte), Deliverable(p), NEW g \in Seq(Seq(Byte)),
         NEW crc, crc = Sum(p) % Word,
         NEW d, d = Append(Append(p, CrcBytes(crc)[1]), CrcBytes(crc)[2])
  PROVE  Step(Within(d, g), FR_END) = Within(<< >>, Append(g, p))
<1> DEFINE lo == CrcBytes(crc)[1]
           hi == CrcBytes(crc)[2]
           n == Len(p)
<1>1. Sum(p) \in Nat /\ CrcBytes(crc) = CrcBytes(Sum(p))
  <2>1. 0 \in Byte
    BY DEF Byte
  <2> QED
    BY <2>1, SumAppend, CrcOfSum
<1>2. lo \in Byte /\ hi \in Byte /\ CrcBytes(crc) = <<lo, hi>>
  <2>1. crc \in 0..(Word - 1) /\ FR_END \in Byte
    BY <1>1, WordMod DEF Byte, FR_END
  <2> QED
    BY <2>1, CrcTyped DEF CrcBytes
<1> HIDE DEF lo, hi
<1>3. n \in Nat /\ n >= 1
  BY EmptySeq DEF Deliverable
<1>4. d \in Seq(Byte) /\ Len(d) = n + 2 /\ (\A i \in 1..n : d[i] = p[i])
      /\ d[n + 1] = lo /\ d[n + 2] = hi
  <2> DEFINE e == Append(p, lo)
  <2>1. e \in Seq(Byte) /\ Len(e) = n + 1 /\ (\A i \in 1..n : e[i] = p[i]) /\ e[n + 1] = lo
    BY <1>2, AppendProperties
  <2>2. d = Append(e, hi)
    BY DEF lo, hi
  <2> HIDE DEF e
  <2>3. /\ d \in Seq(Byte) /\ Len(d) = Len(e) + 1 /\ d[Len(e) + 1] = hi
        /\ \A i \in 1..Len(e) : d[i] = e[i]
    BY <1>2, <2>1, <2>2, AppendProperties
  <2> HIDE DEF n
  <2>4. (n + 1) + 1 = n + 2 /\ n + 1 \in 1..(n + 1) /\ \A i \in 1..n : i \in 1..(n + 1)
    BY <1>3
  <2>5. \A i \in 1..n : d[i] = p[i]
    BY <2>1, <2>3, <2>4
  <2> QED
    BY <2>1, <2>3, <2>4, <2>5
<1> HIDE DEF n
<1>5. SubSeq(d, 1, Len(d) - 2) = p
  <2> DEFINE m == Len(d) - 2
             s == SubSeq(d, 1, m)
  <2>1. m = n /\ m \in Int /\ \A i \in 1..m : d[i] \in Byte
    BY <1>3, <1>4
  <2>2. s \in Seq(Byte) /\ Len(s) = (IF 1 <= m THEN m - 1 + 1 ELSE 0)
        /\ \A i \in 1..(m - 1 + 1) : s[i] = d[1 + i - 1]
    BY <2>1, SubSeqProperties
  <2> HIDE DEF s, m
  <2>3. Len(s) = n /\ \A i \in 1..n : s[i] = p[i]
    <3>1. \A i \in 1..n : 1 + i - 1 = i /\ i \in 1..(m - 1 + 1)
      BY <1>3, <2>1
    <3>2. \A i \in 1..n : s[i] = d[i]
      BY <2>2, <3>1
    <3>3. Len(s) = n
      BY <1>3, <2>1, <2>2
    <3> QED
      BY <1>4, <3>2, <3>3
  <2>4. s = p
    BY <2>2, <2>3, SeqEqual DEF n
  <2> QED
    BY <2>4 DEF s, m
<1>6. SubSeq(d, Len(d) - 1, Len(d)) = <<lo, hi>>
  <2> DEFINE j == Len(d) - 1
             k == Len(d)
             s == SubSeq(d, j, k)
  <2>1. j = n + 1 /\ k = n + 2 /\ j \in Int /\ k \in Int /\ \A i \in j..k : d[i] \in Byte
    BY <1>3, <1>4
  <2>2. s \in Seq(Byte) /\ Len(s) = (IF j <= k THEN k - j + 1 ELSE 0)
        /\ \A i \in 1..(k - j + 1) : s[i] = d[j + i - 1]
    BY <2>1, SubSeqProperties
  <2> HIDE DEF s, j, k
  <2>3. Len(s) = 2 /\ s[1] = d[n + 1] /\ s[2] = d[n + 2]
    <3>1. k - j + 1 = 2 /\ j <= k /\ j + 1 - 1 = n + 1 /\ j + 2 - 1 = n + 2
      BY <1>3, <2>1
    <3>2. Len(s) = 2
      BY <2>2, <3>1
    <3>3. 1 \in 1..(k - j + 1) /\ 2 \in 1..(k - j + 1)
      BY <3>1
    <3>4. s[1] = d[j + 1 - 1] /\ s[2] = d[j + 2 - 1]
      BY <2>2, <3>3
    <3> QED
      BY <3>1, <3>2, <3>4
  <2>4. s = <<lo, hi>>
    <3> DEFINE u == <<lo, hi>>
    <3>1. u \in Seq(Byte) /\ Len(u) = 2 /\ u[1] = lo /\ u[2] = hi
      BY <1>2
    <3> HIDE DEF u
    <3>2. \A i \in 1..2 : s[i] = u[i]
      <4>1. \A i \in 1..2 : i = 1 \/ i = 2
        OBVIOUS
      <4>2. s[1] = u[1] /\ s[2] = u[2]
        BY <1>4, <2>3, <3>1
      <4> QED
        BY <4>1, <4>2
    <3>3. s = u
      BY <2>2, <2>3, <3>1, <3>2, SeqEqual
    <3> QED
      BY <3>3 DEF u
  <2> QED
    BY <2>4 DEF s, j, k
<1> DEFINE r == [buf |-> d, escaped |-> FALSE]
<1>7. Delivers(r, FR_END)
  <2>1. Len(d) > 2
    BY <1>3, <1>4
  <2>2. Accepts(d)
    BY <1>1, <1>2, <1>5, <1>6, <2>1 DEF Accepts
  <2>3. r.buf = d /\ ~r.escaped
    OBVIOUS
  <2> QED
    BY <2>2, <2>3 DEF Delivers
<1>8. RxByte(r, FR_END) = [buf |-> << >>, escaped |-> FALSE]
  BY DEF RxByte, RxEnd, FR_END, FR_ESC
<1> QED
  BY <1>5, <1>7, <1>8 DEF Step, Within

-----------------------------------------------------------------------------
(* Sender and receiver.                                                    *)

\* Nothing was damaged, cut off or overwritten, and every packet fits.
Calm == Unharmed /\ \A i \in 1..Len(sent) : Deliverable(sent[i])

\* Nothing is put and nothing waits on a closed port.
Closed == ~connected => tx.at = "idle" /\ ring.rp = ring.wp

Reader == [rx |-> rx, got |-> got]

\* The receiver b within packet p, after the packets g, as PROT_SendFlagged is.
Amid(b, g, p) ==
  \/ tx.at = "open" /\ tx.data = p /\ tx.crc = 0 /\ b = Within(<< >>, g)
  \/ /\ tx.at = "data"
     /\ \E d \in Seq(Byte) : p = d \o tx.data /\ tx.crc = Sum(d) % Word /\ b = Within(d, g)
  \/ /\ tx.at = "high" /\ tx.crc = Sum(p) % Word
     /\ b = Within(Append(p, CrcBytes(tx.crc)[1]), g)
  \/ /\ tx.at = "close" /\ tx.crc = Sum(p) % Word
     /\ b = Within(Append(Append(p, CrcBytes(tx.crc)[1]), CrcBytes(tx.crc)[2]), g)

\* b stands where the sender stands.
Stands(b) ==
  \/ tx.at \in {"idle", "flush"} /\ b = Within(<< >>, sent)
  \/ \E g \in Seq(Packets), p \in Packets : sent = Append(g, p) /\ Amid(b, g, p)

Mirrors == \E b \in Readers : RxOK(b.rx) /\ Reads(Reader, Stream, b) /\ Stands(b)

ChannelInv == LinkTypeOK /\ Closed /\ (Calm => Mirrors)

\* What the types give.
LEMMA Typed ==
  ASSUME LinkTypeOK
  PROVE  /\ RingOK(ring) /\ line \in Seq(Byte) /\ RxOK(rx) /\ Reader \in Readers
         /\ tx \in Sender /\ sent \in Seq(Packets) /\ sent \in Seq(Seq(Byte))
         /\ got \in Seq(Seq(Byte))
         /\ \A g \in Seq(Packets) : g \in Seq(Seq(Byte))
         /\ \A p \in Packets : p \in Seq(Byte)
<1>1. Packets \subseteq Seq(Byte)
  BY LinkAssumption
<1>2. \A g \in Seq(Packets) : g \in Seq(Seq(Byte))
  BY <1>1, SeqMonotonic
<1> QED
  BY <1>1, <1>2 DEF LinkTypeOK, RxOK, Reader, Readers

\* The last packet fits.
LEMMA LastFits ==
  ASSUME Calm, NEW g \in Seq(Packets), NEW p \in Packets, sent = Append(g, p)
  PROVE  p \in Seq(Byte) /\ Deliverable(p) /\ Len(p) \in Nat /\ Len(p) + 2 <= RxSize /\ RxSize \in Nat
<1>1. Len(sent) = Len(g) + 1 /\ Len(g) \in Nat /\ sent[Len(g) + 1] = p
  BY AppendProperties
<1>2. Len(g) + 1 \in 1..Len(sent)
  BY <1>1
<1>3. Deliverable(p)
  BY <1>1, <1>2 DEF Calm
<1>4. p \in Seq(Byte)
  BY LinkAssumption
<1>5. Len(p) \in Nat /\ RxSize \in Nat
  BY <1>4, LinkAssumption
<1> QED
  BY <1>3, <1>4, <1>5 DEF Deliverable, Fits

\* A step that leaves things calm found them calm.
LEMMA CalmBefore ==
  ASSUME LinkTypeOK, LinkNext, Calm'
  PROVE  Calm /\ ~Disconnect /\ ~Damage
<1>1. harm \in Harm /\ sent \in Seq(Packets)
  BY DEF LinkTypeOK
<1>2. harm.damage \in Nat /\ harm.cuts \in Nat /\ harm.overwritten \in BOOLEAN
      /\ harm = [damage |-> harm.damage, fails |-> harm.fails, cuts |-> harm.cuts,
                 overwritten |-> harm.overwritten]
  BY <1>1, LinkAssumption DEF Harm
<1>3. ~Disconnect
  <2> SUFFICES ASSUME Disconnect PROVE FALSE
    OBVIOUS
  <2>1. harm'.cuts = harm.cuts + 1
    BY <1>2 DEF Disconnect
  <2> QED
    BY <1>2, <2>1 DEF Calm, Unharmed
<1>4. ~Damage
  <2> SUFFICES ASSUME Damage PROVE FALSE
    OBVIOUS
  <2>1. harm'.damage = harm.damage + 1
    BY <1>2 DEF Damage
  <2> QED
    BY <1>2, <2>1 DEF Calm, Unharmed
<1>5. ASSUME NEW r, Puts(r) PROVE Unharmed /\ UNCHANGED sent
  <2>1. harm'.damage = harm.damage /\ harm'.cuts = harm.cuts
        /\ harm'.overwritten = (harm.overwritten \/ r.rp # ring.rp)
    BY <1>2, <1>5 DEF Puts
  <2> QED
    BY <1>5, <2>1 DEF Puts, Calm, Unharmed
<1>6. ASSUME PROT_Flush PROVE Unharmed
  <2>1. harm'.damage = harm.damage /\ harm'.cuts = harm.cuts /\ harm'.overwritten = harm.overwritten
    BY <1>2, <1>6 DEF PROT_Flush
  <2> QED
    BY <2>1 DEF Calm, Unharmed
<1>7. ASSUME UNCHANGED harm PROVE Unharmed
  BY <1>7 DEF Calm, Unharmed
<1>8. ASSUME UNCHANGED sent, Unharmed PROVE Calm
  BY <1>8 DEF Calm
<1>9. CASE \E p \in Packets : SendFlagged(p)
  <2>1. PICK p \in Packets : SendFlagged(p)
    BY <1>9
  <2>2. UNCHANGED harm /\ sent' = Append(sent, p)
    BY <2>1 DEF SendFlagged
  <2>3. Len(sent') = Len(sent) + 1 /\ Len(sent) \in Nat
        /\ \A i \in 1..Len(sent) : sent'[i] = sent[i]
    BY <1>1, <2>2, AppendProperties
  <2>4. \A i \in 1..Len(sent) : i \in 1..Len(sent') /\ sent'[i] = sent[i]
    BY <2>3
  <2>5. \A i \in 1..Len(sent) : Deliverable(sent[i])
    BY <2>4 DEF Calm, Deliverable, Fits
  <2> QED
    BY <1>3, <1>4, <1>7, <2>2, <2>5 DEF Calm
<1>10. CASE PutEnd \/ PutData \/ PutCrc
  <2>1. \E r : Puts(r)
    BY <1>10 DEF PutEnd, PutData, PutCrc
  <2> QED
    BY <1>3, <1>4, <1>5, <1>8, <2>1
<1>11. CASE Flush \/ Leftover
  <2>1. PROT_Flush /\ UNCHANGED sent
    BY <1>11 DEF Flush, Leftover
  <2> QED
    BY <1>3, <1>4, <1>6, <1>8, <2>1
<1>12. CASE Connect \/ ReceiveByte \/ AllSent
  <2>1. UNCHANGED harm /\ UNCHANGED sent
    BY <1>12 DEF Connect, ReceiveByte, AllSent, linkVars
  <2> QED
    BY <1>3, <1>4, <1>7, <1>8, <2>1
<1> QED
  BY <1>3, <1>4, <1>9, <1>10, <1>11, <1>12 DEF LinkNext

\* On a closed port nothing is put: the port is open whenever PROT_SendFlagged is
\* under way.
LEMMA ClosedKept ==
  ASSUME LinkTypeOK, Closed, LinkNext
  PROVE  Closed'
<1>1. tx \in Sender
  BY DEF LinkTypeOK
<1>2. CASE Connect
  BY <1>2 DEF Connect, Closed
<1>3. CASE Disconnect
  BY <1>3 DEF Disconnect, Closed, Empty
<1>4. CASE \E p \in Packets : SendFlagged(p)
  BY <1>4 DEF SendFlagged, Closed
<1>5. CASE PutEnd \/ PutData \/ PutCrc
  <2>1. tx.at # "idle" /\ UNCHANGED connected
    BY <1>5 DEF PutEnd, PutData, PutCrc, Puts
  <2> QED
    BY <2>1 DEF Closed
<1>6. CASE Flush
  BY <1>6 DEF Flush, Closed
<1>7. CASE Leftover
  BY <1>7 DEF Leftover, Closed
<1>8. CASE ReceiveByte
  BY <1>8 DEF ReceiveByte, Closed
<1>9. CASE Damage
  BY <1>9 DEF Damage, Closed
<1>10. CASE AllSent
  BY <1>10 DEF AllSent, linkVars, Closed
<1> QED
  BY <1>2, <1>3, <1>4, <1>5, <1>6, <1>7, <1>8, <1>9, <1>10 DEF LinkNext

\* A turn of PROT_SendFlagged that pushes nothing out: the receiver's way goes on
\* to where the sender is then.
LEMMA PutKeepsMirror ==
  ASSUME LinkTypeOK, Calm', NEW r, Puts(r), NEW b \in Readers, RxOK(b.rx),
         r.rp = ring.rp => Reads(Reader, line \o Content(r), b), Stands(b)'
  PROVE  Mirrors'
<1>1. ring' = r /\ UNCHANGED <<line, rx, got>> /\ (r.rp # ring.rp => harm'.overwritten)
  <2>1. harm \in Harm
    BY DEF LinkTypeOK
  <2>2. harm'.overwritten = (harm.overwritten \/ r.rp # ring.rp)
    BY <2>1 DEF Puts, Harm
  <2> QED
    BY <2>2 DEF Puts
<1>2. ~harm'.overwritten
  BY DEF Calm, Unharmed
<1>3. Reads(Reader, line \o Content(r), b)
  BY <1>1, <1>2
<1>4. Reader' = Reader /\ Stream' = line \o Content(r)
  BY <1>1 DEF Reader, Stream, Content, Oldest
<1> QED
  BY <1>3, <1>4 DEF Mirrors

\* The delimiters.
LEMMA EndMirrors ==
  ASSUME LinkTypeOK, Calm, Calm', Mirrors, PutEnd
  PROVE  Mirrors'
<1>1. /\ RingOK(ring) /\ line \in Seq(Byte) /\ tx \in Sender /\ FR_END \in Byte
      /\ \A g \in Seq(Packets) : g \in Seq(Seq(Byte))
  BY Typed DEF FR_END, Byte
<1> DEFINE r == PROT_Putc(ring, FR_END)
<1>2. Puts(r) /\ tx.at \in {"open", "close"} /\ UNCHANGED sent
      /\ tx' = [tx EXCEPT !.at = IF tx.at = "open" THEN "data" ELSE "flush"]
  BY DEF PutEnd, Puts
<1>3. PICK b \in Readers : RxOK(b.rx) /\ Reads(Reader, line \o Content(ring), b) /\ Stands(b)
  BY DEF Mirrors, Stream
<1>4. PICK g \in Seq(Packets), p \in Packets : sent = Append(g, p) /\ Amid(b, g, p)
  BY <1>2, <1>3 DEF Stands
<1>5. r.rp = ring.rp => Reads(Reader, line \o Content(r), Step(b, FR_END))
  BY <1>1, <1>3, PutcReads
<1>6. Step(b, FR_END) \in Readers /\ RxOK(Step(b, FR_END).rx)
  BY <1>1, <1>3, StepTyped
<1> HIDE DEF r
<1>7. p \in Seq(Byte) /\ Deliverable(p) /\ g \in Seq(Seq(Byte))
  BY <1>1, <1>4, LastFits
<1>8. Stands(Step(b, FR_END))'
  <2>1. CASE tx.at = "open"
    <3>1. tx.data = p /\ tx.crc = 0 /\ b = Within(<< >>, g)
      BY <1>4, <2>1 DEF Amid
    <3>2. tx'.at = "data" /\ tx'.data = p /\ tx'.crc = 0
      BY <1>1, <1>2, <2>1, <3>1 DEF Sender
    <3>3. Step(b, FR_END) = Within(<< >>, g)
      <4> DEFINE q == [buf |-> << >>, escaped |-> FALSE]
      <4>1. ~Delivers(q, FR_END)
        BY DEF Delivers, Accepts
      <4>2. RxByte(q, FR_END) = q
        BY DEF RxByte, RxEnd, FR_END, FR_ESC
      <4> QED
        BY <3>1, <4>1, <4>2 DEF Step, Within
    <3>4. << >> \in Seq(Byte) /\ p = << >> \o p /\ 0 = Sum(<< >>) % Word
      <4>1. << >> \in Seq(Byte) /\ p = << >> \o p
        BY <1>7, ConcatEmptySeq
      <4>2. Sum(<< >>) = 0
        BY <1>1, <4>1, SumAppend
      <4>3. 0 = 0 % Word
        BY DEF Word
      <4> QED
        BY <4>1, <4>2, <4>3
    <3>5. Amid(Step(b, FR_END), g, p)'
      BY <3>2, <3>3, <3>4 DEF Amid
    <3> QED
      BY <1>2, <1>4, <3>5 DEF Stands
  <2>2. CASE tx.at = "close"
    <3>1. /\ tx.crc = Sum(p) % Word
          /\ b = Within(Append(Append(p, CrcBytes(tx.crc)[1]), CrcBytes(tx.crc)[2]), g)
      BY <1>4, <2>2 DEF Amid
    <3>2. Step(b, FR_END) = Within(<< >>, Append(g, p))
      BY <1>7, <3>1, EndDelivers
    <3>3. tx'.at = "flush"
      BY <1>1, <1>2, <2>2 DEF Sender
    <3> QED
      BY <1>2, <1>4, <3>2, <3>3 DEF Stands
  <2> QED
    BY <1>2, <2>1, <2>2
<1> QED
  BY <1>2, <1>5, <1>6, <1>8, PutKeepsMirror

\* A state of the receiver within a frame.
LEMMA WithinTyped ==
  ASSUME NEW d \in Seq(Byte), Len(d) <= RxSize, NEW g \in Seq(Seq(Byte))
  PROVE  Within(d, g) \in Readers /\ RxOK(Within(d, g).rx)
  BY DEF Within, Readers, RxOK

\* A byte moves from the data to come to the data put.
LEMMA MoveByte ==
  ASSUME NEW d \in Seq(Byte), NEW e \in Seq(Byte), e # << >>
  PROVE  d \o e = Append(d, Head(e)) \o Tail(e)
<1> DEFINE c == Head(e)
           t == Tail(e)
<1>1. c \in Byte /\ t \in Seq(Byte) /\ <<c>> \in Seq(Byte)
  BY HeadTailProperties
<1>2. e = <<c>> \o t
  <2>1. Len(e) \in Nat /\ Len(e) >= 1
    BY EmptySeq
  <2>2. e = SubSeq(e, 1, Len(e)) /\ t = SubSeq(e, 2, Len(e)) /\ c = e[1]
    BY <2>1, SubSeqFull, TailIsSubSeq
  <2>3. 1 \in 1..Len(e) /\ Len(e) \in 1..Len(e)
    BY <2>1
  <2>4. SubSeq(e, 1, Len(e)) = <<e[1]>> \o SubSeq(e, 1 + 1, Len(e))
    BY <2>3, SubSeqRecursiveFirst
  <2> HIDE DEF t, c
  <2> QED
    BY <2>2, <2>4
<1> HIDE DEF c, t
<1>3. d \o (<<c>> \o t) = (d \o <<c>>) \o t
  BY <1>1, ConcatAssociative
<1>4. d \o <<c>> = Append(d, c)
  BY <1>1, AppendIsConcat
<1> QED
  BY <1>2, <1>3, <1>4 DEF c, t

\* A byte of the packet.
LEMMA DataMirrors ==
  ASSUME LinkTypeOK, Calm, Calm', Mirrors, PutData
  PROVE  Mirrors'
<1>1. /\ RingOK(ring) /\ line \in Seq(Byte) /\ tx \in Sender
      /\ \A g \in Seq(Packets) : g \in Seq(Seq(Byte))
  BY Typed
<1> DEFINE c == Head(tx.data)
           r == protPutc(ring, c)
<1>2. Puts(r) /\ tx.at = "data" /\ tx.data # << >> /\ UNCHANGED sent
      /\ tx'.at = "data" /\ tx'.data = Tail(tx.data) /\ tx'.crc = (tx.crc + c) % Word
  BY DEF PutData, Puts
<1>3. PICK b \in Readers : RxOK(b.rx) /\ Reads(Reader, line \o Content(ring), b) /\ Stands(b)
  BY DEF Mirrors, Stream
<1>4. PICK g \in Seq(Packets), p \in Packets : sent = Append(g, p) /\ Amid(b, g, p)
  BY <1>2, <1>3 DEF Stands
<1>5. PICK d \in Seq(Byte) : p = d \o tx.data /\ tx.crc = Sum(d) % Word /\ b = Within(d, g)
  BY <1>2, <1>4 DEF Amid
<1>6. tx.data \in Seq(Byte) /\ c \in Byte /\ g \in Seq(Seq(Byte)) /\ Tail(tx.data) \in Seq(Byte)
  <2>1. tx.data \in Seq(Byte)
    BY <1>1 DEF Sender
  <2> QED
    BY <1>1, <1>2, <2>1, HeadTailProperties
<1>7. Len(d) + 1 <= RxSize /\ Len(d) \in Nat /\ Len(d) < RxSize /\ RxSize \in Nat
  <2>1. Len(p) = Len(d) + Len(tx.data) /\ Len(d) \in Nat /\ Len(tx.data) \in Nat
    BY <1>5, <1>6, ConcatProperties
  <2>2. Len(p) + 2 <= RxSize /\ RxSize \in Nat
    BY <1>4, LastFits
  <2> QED
    BY <2>1, <2>2
<1>e. PICK e : e = Append(d, c)
  OBVIOUS
<1>8. e \in Seq(Byte) /\ Len(e) = Len(d) + 1 /\ Sum(e) = Sum(d) + c /\ Sum(d) \in Nat
  BY <1>e, <1>6, AppendProperties, SumAppend
<1>9. p = e \o Tail(tx.data)
  BY <1>e, <1>2, <1>5, <1>6, MoveByte
<1>10. tx'.crc = Sum(e) % Word
  BY <1>2, <1>5, <1>6, <1>8, CrcFollows
<1>11. r.rp = ring.rp => Reads(Reader, line \o Content(r), Within(e, g))
  BY <1>e, <1>1, <1>3, <1>5, <1>6, <1>7, EscapedReads
<1> HIDE DEF r, c
<1>12. Within(e, g) \in Readers /\ RxOK(Within(e, g).rx)
  <2>1. Len(e) <= RxSize
    BY <1>7, <1>8
  <2> QED
    BY <1>6, <1>8, <2>1, WithinTyped
<1>13. Stands(Within(e, g))'
  <2>1. Amid(Within(e, g), g, p)'
    BY <1>2, <1>8, <1>9, <1>10 DEF Amid
  <2> QED
    BY <1>2, <1>4, <2>1 DEF Stands
<1> QED
  BY <1>2, <1>11, <1>12, <1>13, PutKeepsMirror

\* The checksum.
LEMMA CrcMirrors ==
  ASSUME LinkTypeOK, Calm, Calm', Mirrors, PutCrc
  PROVE  Mirrors'
<1>1. /\ RingOK(ring) /\ line \in Seq(Byte) /\ tx \in Sender
      /\ \A g \in Seq(Packets) : g \in Seq(Seq(Byte))
  BY Typed
<1> DEFINE lo == CrcBytes(tx.crc)[1]
           hi == CrcBytes(tx.crc)[2]
<1>2. lo \in Byte /\ hi \in Byte
  <2>1. tx.crc \in 0..(Word - 1) /\ FR_END \in Byte
    BY <1>1 DEF Sender, FR_END, Byte
  <2> QED
    BY <2>1, CrcTyped
<1>3. PICK b \in Readers : RxOK(b.rx) /\ Reads(Reader, line \o Content(ring), b) /\ Stands(b)
  BY DEF Mirrors, Stream
<1>4. tx.at \in {"data", "high"}
  BY DEF PutCrc
<1>5. PICK g \in Seq(Packets), p \in Packets : sent = Append(g, p) /\ Amid(b, g, p)
  BY <1>3, <1>4 DEF Stands
<1>6. p \in Seq(Byte) /\ g \in Seq(Seq(Byte)) /\ Len(p) \in Nat /\ Len(p) + 2 <= RxSize
      /\ RxSize \in Nat
  BY <1>1, <1>5, LastFits
<1>q. PICK q : q = Append(p, lo)
  OBVIOUS
<1>s. PICK s : s = Append(q, hi)
  OBVIOUS
<1>7. q \in Seq(Byte) /\ Len(q) = Len(p) + 1
  BY <1>q, <1>2, <1>6, AppendProperties
<1>8. s \in Seq(Byte) /\ Len(s) = Len(q) + 1
  BY <1>s, <1>2, <1>7, AppendProperties
<1>9. Len(p) < RxSize /\ Len(q) <= RxSize /\ Len(q) < RxSize /\ Len(s) <= RxSize
  BY <1>6, <1>7, <1>8
<1> HIDE DEF lo, hi
<1>11. CASE tx.at = "data"
  <2> DEFINE r == protPutc(ring, lo)
  <2>1. Puts(r) /\ tx.data = << >> /\ UNCHANGED sent /\ tx' = [tx EXCEPT !.at = "high"]
    BY <1>11 DEF PutCrc, Puts, lo
  <2>2. PICK d \in Seq(Byte) : p = d \o tx.data /\ tx.crc = Sum(d) % Word /\ b = Within(d, g)
    BY <1>5, <1>11 DEF Amid
  <2>3. p = d
    BY <2>1, <2>2, ConcatEmptySeq
  <2>5. r.rp = ring.rp => Reads(Reader, line \o Content(r), Within(q, g))
    BY <1>1, <1>2, <1>3, <1>6, <2>2, <2>3, <1>9, <1>q, <1>s, EscapedReads
  <2>6. Within(q, g) \in Readers /\ RxOK(Within(q, g).rx)
    BY <1>6, <1>7, <1>9, WithinTyped
  <2> HIDE DEF r
  <2>7. tx'.at = "high" /\ tx'.crc = tx.crc
    BY <1>1, <2>1 DEF Sender
  <2>8. Stands(Within(q, g))'
    <3>1. Amid(Within(q, g), g, p)'
      BY <1>q, <2>2, <2>3, <2>7 DEF Amid, lo
    <3> QED
      BY <1>5, <2>1, <3>1 DEF Stands
  <2> QED
    BY <2>1, <2>5, <2>6, <2>8, PutKeepsMirror
<1>12. CASE tx.at = "high"
  <2> DEFINE r == protPutc(ring, hi)
  <2>1. Puts(r) /\ UNCHANGED sent /\ tx' = [tx EXCEPT !.at = "close"]
    BY <1>12 DEF PutCrc, Puts, hi
  <2>2. tx.crc = Sum(p) % Word /\ b = Within(q, g)
    BY <1>q, <1>5, <1>12 DEF Amid, lo
  <2>5. r.rp = ring.rp => Reads(Reader, line \o Content(r), Within(s, g))
    BY <1>1, <1>2, <1>3, <1>6, <1>7, <2>2, <1>9, <1>q, <1>s, EscapedReads
  <2>6. Within(s, g) \in Readers /\ RxOK(Within(s, g).rx)
    BY <1>6, <1>7, <1>8, <1>9, WithinTyped
  <2> HIDE DEF r
  <2>7. tx'.at = "close" /\ tx'.crc = tx.crc
    BY <1>1, <2>1 DEF Sender
  <2>8. Stands(Within(s, g))'
    <3>1. Amid(Within(s, g), g, p)'
      BY <1>q, <1>s, <2>2, <2>7 DEF Amid, lo, hi
    <3> QED
      BY <1>5, <2>1, <3>1 DEF Stands
  <2> QED
    BY <2>1, <2>5, <2>6, <2>8, PutKeepsMirror
<1> QED
  BY <1>4, <1>11, <1>12

\* The other steps leave the place where the receiver will be.
LEMMA OthersMirror ==
  ASSUME LinkTypeOK, Closed, Calm, Mirrors,
         Connect \/ (\E p \in Packets : SendFlagged(p)) \/ Flush \/ Leftover
           \/ ReceiveByte \/ UNCHANGED linkVars
  PROVE  Mirrors'
<1>1. /\ RingOK(ring) /\ line \in Seq(Byte) /\ tx \in Sender /\ sent \in Seq(Packets)
      /\ sent \in Seq(Seq(Byte))
  BY Typed
<1>2. PICK b \in Readers : RxOK(b.rx) /\ Reads(Reader, Stream, b) /\ Stands(b)
  BY DEF Mirrors
<1>3. CASE Connect
  <2>1. Content(ring)' = Content(ring)
    <3>1. RingOK(Empty(ring)) /\ Empty(ring).wp - Empty(ring).rp = 0
      BY <1>1, EmptyKeepsRing DEF Empty
    <3>2. ring.rp = ring.wp /\ ring' = Empty(ring)
      BY <1>3 DEF Connect, Closed
    <3>3. ring.wp - ring.rp = 0
      BY <1>1, <3>2, RingNumbers
    <3>4. Oldest(ring, 0) \in Seq(Byte) /\ Len(Oldest(ring, 0)) = 0
      BY <1>1, OldestIs
    <3>5. Oldest(Empty(ring), 0) \in Seq(Byte) /\ Len(Oldest(Empty(ring), 0)) = 0
      BY <3>1, OldestIs
    <3>6. Oldest(ring, 0) = << >> /\ Oldest(Empty(ring), 0) = << >>
      BY <3>4, <3>5, EmptySeq
    <3>7. Content(ring) = << >>
      BY <3>3, <3>6 DEF Content
    <3>8. Content(Empty(ring)) = << >>
      BY <3>1, <3>6 DEF Content
    <3>9. Content(ring)' = Content(Empty(ring))
      BY <3>2 DEF Content, Oldest
    <3> QED
      BY <3>7, <3>8, <3>9
  <2>2. Stream' = Stream /\ Reader' = Reader /\ UNCHANGED <<tx, sent>>
    BY <1>3, <2>1 DEF Connect, Stream, Reader
  <2> QED
    BY <1>2, <2>2, ZenonT(30) DEF Mirrors, Stands, Amid
<1>4. CASE \E p \in Packets : SendFlagged(p)
  <2>1. PICK p \in Packets : SendFlagged(p)
    BY <1>4
  <2>2. tx.at = "idle" /\ tx' = [at |-> "open", data |-> p, crc |-> 0] /\ sent' = Append(sent, p)
        /\ UNCHANGED <<ring, line, rx, got>>
    BY <2>1 DEF SendFlagged
  <2>3. Stream' = Stream /\ Reader' = Reader
    BY <2>2 DEF Stream, Content, Oldest, Reader
  <2>4. b = Within(<< >>, sent)
    BY <1>2, <2>2 DEF Stands, Amid
  <2>5. tx'.at = "open" /\ tx'.data = p /\ tx'.crc = 0
    BY <2>2
  <2>6. Stands(b)'
    <3>1. \E h \in Seq(Packets), q \in Packets : sent' = Append(h, q) /\ q = p
            /\ b = Within(<< >>, h)
      BY <1>1, <2>2, <2>4
    <3>2. \A h, q : q = p /\ b = Within(<< >>, h) => Amid(b, h, q)'
      BY <2>5 DEF Amid
    <3> QED
      BY <3>1, <3>2 DEF Stands
  <2> QED
    BY <1>2, <2>3, <2>6 DEF Mirrors
<1>5. CASE Flush \/ Leftover
  <2>1. PROT_Flush /\ UNCHANGED <<rx, sent, got>> /\ tx.at \in {"flush", "idle"}
    BY <1>5 DEF Flush, Leftover
  <2>2. tx'.at = "idle"
    BY <1>1, <1>5 DEF Flush, Leftover, Sender
  <2>3. Stream' = Stream
    BY <1>1, <2>1, FlushKeepsStream
  <2>4. b = Within(<< >>, sent)
    BY <1>2, <2>1 DEF Stands, Amid
  <2>5. Stands(b)' /\ Reader' = Reader
    BY <2>1, <2>2, <2>4 DEF Stands, Reader
  <2> QED
    BY <1>2, <2>3, <2>5 DEF Mirrors
<1>6. CASE ReceiveByte
  <2>1. line # << >> /\ line' = Tail(line) /\ UNCHANGED <<ring, tx, sent>>
        /\ rx' = RxByte(rx, Head(line))
        /\ got' = IF Delivers(rx, Head(line))
                  THEN Append(got, SubSeq(rx.buf, 1, Len(rx.buf) - 2)) ELSE got
    BY <1>6 DEF ReceiveByte
  <2>2. Stream \in Seq(Byte) /\ Stream # << >> /\ Head(Stream) = Head(line)
        /\ Tail(Stream) = Tail(line) \o Content(ring)
    BY <1>1, <2>1, StreamTyped
  <2>3. Reader' = Step(Reader, Head(line))
    BY <2>1 DEF Reader, Step
  <2>4. Stream' = Tail(Stream)
    BY <2>1, <2>2 DEF Stream, Content, Oldest
  <2>5. Reads(Step(Reader, Head(line)), Tail(Stream), b)
    BY <1>2, <2>2, ReadsOn
  <2>6. Stands(b)'
    BY <1>2, <2>1 DEF Stands, Amid
  <2> QED
    BY <1>2, <2>3, <2>4, <2>5, <2>6 DEF Mirrors
<1>7. CASE UNCHANGED linkVars
  <2>1. Stream' = Stream /\ Reader' = Reader /\ UNCHANGED <<tx, sent>>
    BY <1>7 DEF linkVars, Stream, Content, Oldest, Reader
  <2> QED
    BY <1>2, <2>1, ZenonT(30) DEF Mirrors, Stands, Amid
<1> QED
  BY <1>3, <1>4, <1>5, <1>6, <1>7

-----------------------------------------------------------------------------
(* The invariant and the theorem.                                          *)

\* Nothing is sent and nothing on its way.
LEMMA ChannelStarts == LinkInit => ChannelInv
<1> SUFFICES ASSUME LinkInit PROVE ChannelInv
  OBVIOUS
<1>1. LinkTypeOK
  BY LinkInitHolds
<1>2. Closed
  BY DEF LinkInit, Closed
<1>3. Mirrors
  <2>1. RingOK(ring) /\ line \in Seq(Byte) /\ Reader \in Readers /\ RxOK(rx)
    BY <1>1, Typed
  <2>2. line = << >> /\ ring.rp = ring.wp /\ sent = << >> /\ tx.at = "idle"
    BY DEF LinkInit
  <2>3. Stream = << >>
    BY <2>1, <2>2, StreamTyped
  <2>4. Reads(Reader, Stream, Reader)
    BY <2>1, <2>3, ReadsNothing
  <2>5. Reader = Within(<< >>, sent)
    BY DEF LinkInit, Reader, Within
  <2>6. Stands(Reader)
    BY <2>2, <2>5 DEF Stands
  <2>7. RxOK(Reader.rx)
    BY <2>1 DEF Reader
  <2> QED
    BY <2>1, <2>4, <2>6, <2>7 DEF Mirrors
<1> QED
  BY <1>1, <1>2, <1>3 DEF ChannelInv

\* Every step keeps it.
LEMMA ChannelKept == ChannelInv /\ [LinkNext]_linkVars => ChannelInv'
<1> SUFFICES ASSUME ChannelInv, [LinkNext]_linkVars PROVE ChannelInv'
  OBVIOUS
<1>1. LinkTypeOK /\ Closed /\ (Calm => Mirrors)
  BY DEF ChannelInv
<1>2. LinkTypeOK'
  BY <1>1, LinkStepHolds
<1>3. CASE UNCHANGED linkVars
  <2>1. Closed' /\ (Calm' => Calm)
    BY <1>1, <1>3 DEF linkVars, Closed, Calm, Unharmed
  <2>2. Calm' => Mirrors'
    BY <1>1, <1>3, <2>1, OthersMirror
  <2> QED
    BY <1>2, <2>1, <2>2 DEF ChannelInv
<1>4. CASE LinkNext
  <2>1. Closed'
    BY <1>1, <1>4, ClosedKept
  <2>2. ASSUME Calm' PROVE Mirrors'
    <3>1. Calm /\ ~Disconnect /\ ~Damage
      BY <1>1, <1>4, <2>2, CalmBefore
    <3>2. Mirrors
      BY <1>1, <3>1
    <3>3. CASE PutEnd
      BY <1>1, <2>2, <3>1, <3>2, <3>3, EndMirrors
    <3>4. CASE PutData
      BY <1>1, <2>2, <3>1, <3>2, <3>4, DataMirrors
    <3>5. CASE PutCrc
      BY <1>1, <2>2, <3>1, <3>2, <3>5, CrcMirrors
    <3>6. CASE AllSent
      <4>1. UNCHANGED linkVars
        BY <3>6 DEF AllSent
      <4> QED
        BY <1>1, <3>1, <3>2, <4>1, OthersMirror
    <3>7. CASE Connect \/ (\E p \in Packets : SendFlagged(p)) \/ Flush \/ Leftover \/ ReceiveByte
      BY <1>1, <3>1, <3>2, <3>7, OthersMirror
    <3> QED
      BY <1>4, <3>1, <3>3, <3>4, <3>5, <3>6, <3>7 DEF LinkNext
  <2> QED
    BY <1>2, <2>1, <2>2 DEF ChannelInv
<1> QED
  BY <1>3, <1>4

\* What it says of the packets handed on.
LEMMA ChannelExact == ChannelInv => ArrivesAsSent
<1> SUFFICES ASSUME ChannelInv, Unharmed, \A i \in 1..Len(sent) : Deliverable(sent[i])
             PROVE  IsPrefix(got, sent) /\ (AllRead => got = sent)
  BY DEF ArrivesAsSent
<1>1. LinkTypeOK /\ Calm /\ Mirrors
  BY DEF ChannelInv, Calm
<1>2. /\ RingOK(ring) /\ line \in Seq(Byte) /\ sent \in Seq(Packets)
      /\ sent \in Seq(Seq(Byte)) /\ got \in Seq(Seq(Byte)) /\ Reader \in Readers
      /\ \A g \in Seq(Packets) : g \in Seq(Seq(Byte))
  BY <1>1, Typed
<1>3. PICK b \in Readers : Reads(Reader, Stream, b) /\ Stands(b)
  BY <1>1 DEF Mirrors
<1>4. Begins(got, b.got) /\ (Stream = << >> => b = Reader)
  <2>1. PICK w : IsWay(w, Reader, Stream) /\ w[Len(Stream)] = b
                 /\ \A i \in 0..Len(Stream) : Begins(w[i].got, b.got)
    BY <1>3 DEF Reads
  <2>2. Stream \in Seq(Byte)
    BY <1>2, StreamTyped
  <2>3. 0 \in 0..Len(Stream) /\ w[0] = Reader
    BY <2>1, <2>2 DEF IsWay
  <2>4. Reader.got = got
    BY DEF Reader
  <2>5. Begins(w[0].got, b.got)
    BY <2>1, <2>3
  <2>6. Stream = << >> => Len(Stream) = 0
    OBVIOUS
  <2> QED
    BY <2>1, <2>3, <2>4, <2>5, <2>6
<1>5. Begins(b.got, sent) /\ b.got \in Seq(Seq(Byte))
  <2>1. CASE b = Within(<< >>, sent)
    BY <1>2, <2>1 DEF Within, Begins
  <2>2. CASE \E g \in Seq(Packets), p \in Packets : sent = Append(g, p) /\ Amid(b, g, p)
    <3>1. PICK g \in Seq(Packets), p \in Packets : sent = Append(g, p) /\ Amid(b, g, p)
      BY <2>2
    <3>2. b.got = g
      BY <3>1 DEF Amid, Within
    <3>3. Begins(g, sent)
      BY <3>1, AppendProperties DEF Begins
    <3> QED
      BY <1>2, <3>2, <3>3
  <2> QED
    BY <1>3, <2>1, <2>2 DEF Stands
<1>6. Begins(got, sent)
  <2> DEFINE h == b.got
  <2>1. Len(h) \in Nat /\ Len(got) \in Nat /\ Len(sent) \in Nat /\ Begins(got, h) /\ Begins(h, sent)
    BY <1>2, <1>4, <1>5
  <2> HIDE DEF h
  <2> QED
    BY <2>1 DEF Begins
<1>7. IsPrefix(got, sent)
  <2> DEFINE n == Len(got)
             s == SubSeq(got, 1, n)
             t == SubSeq(sent, 1, n)
  <2>1. n \in Nat /\ n <= Len(sent) /\ Len(sent) \in Nat /\ \A i \in 1..n : got[i] = sent[i]
    BY <1>2, <1>6 DEF Begins
  <2>2. /\ \A i \in 1..n : got[i] \in Seq(Byte)
        /\ \A i \in 1..n : sent[i] \in Seq(Byte)
    BY <1>2, <2>1
  <2>3. s \in Seq(Seq(Byte)) /\ Len(s) = (IF 1 <= n THEN n - 1 + 1 ELSE 0)
        /\ \A i \in 1..(n - 1 + 1) : s[i] = got[1 + i - 1]
    BY <2>1, <2>2, SubSeqProperties
  <2>4. t \in Seq(Seq(Byte)) /\ Len(t) = (IF 1 <= n THEN n - 1 + 1 ELSE 0)
        /\ \A i \in 1..(n - 1 + 1) : t[i] = sent[1 + i - 1]
    BY <2>1, <2>2, SubSeqProperties
  <2> HIDE DEF n, s, t
  <2>5. n - 1 + 1 = n /\ \A i \in 1..n : 1 + i - 1 = i
    BY <2>1
  <2>6. Len(s) = n /\ Len(t) = n
    BY <2>1, <2>3, <2>4
  <2>7. \A i \in 1..n : s[i] = t[i]
    BY <2>1, <2>3, <2>4, <2>5
  <2>8. s = t
    BY <2>3, <2>4, <2>6, <2>7, SeqEqual
  <2> QED
    BY <2>1, <2>8 DEF IsPrefix, n, s, t
<1>8. ASSUME AllRead PROVE got = sent
  <2>1. Stream = << >> /\ tx.at = "idle"
    BY <1>2, <1>8, StreamTyped DEF AllRead
  <2>2. b = Within(<< >>, sent)
    BY <1>3, <2>1 DEF Stands, Amid
  <2> QED
    BY <1>4, <2>1, <2>2 DEF Within, Reader
<1> QED
  BY <1>7, <1>8

\* On an undamaged line the packets that PROT_Packet gets are those that
\* PROT_SendFlagged was given, in the same order and none twice, and all of them once
\* nothing is under way: whatever bytes they and their checksums hold, however the
\* ring wraps, wherever PROT_Flush fails (protocol.c 18-143, main_posix.c 316-377).
THEOREM ChannelDelivers == LinkSpec => []ArrivesAsSent
  BY ChannelStarts, ChannelKept, ChannelExact, PTL DEF LinkSpec

=============================================================================
