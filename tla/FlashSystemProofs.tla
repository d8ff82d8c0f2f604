------------------------- MODULE FlashSystemProofs -------------------------
(***************************************************************************)
(* The composition of host, device and line, for every kind of device,     *)
(* every size of the firmware, of the blocks and of the line, and every    *)
(* number and order of faults: its types, and that what the host does in   *)
(* it is a behaviour of the open host of GcfHost, so that everything       *)
(* proved about that host holds of a session with a device.                *)
(*                                                                         *)
(* For a device and a line that answer before a timer of the host expires: *)
(* that a praised device holds the firmware, and that a session implements *)
(* FlashJob.  The argument speaks of the words on the two lines (Sound):   *)
(* one question is under way at a time, what belongs to a state of the     *)
(* host is on the lines in that state only, and an erasure is asked for    *)
(* once and before anything is reported.                                   *)
(***************************************************************************)
EXTENDS FlashSystem, GcfHostProofs, FoldLemmas

\* A loading device waits for a page or block of the firmware.
DeviceOK(d) == d \in DeviceRec /\ (d.mode = "loading" => d.next < ImageSize)

LineOK(s, S) == s \in Seq(S) /\ Len(s) <= LinkCap

\* The inductive invariant.
SysInv ==
  /\ HostInv
  /\ DeviceOK(dev)
  /\ LineOK(toDev, Output)
  /\ LineOK(toHost, Input)
  /\ hup \in BOOLEAN
  /\ faults \in 0..MaxFaults

-----------------------------------------------------------------------------
(* The device.                                                             *)

\* What a place of the flash memory holds.
Content == {Old, Blank, Junk} \cup Places

\* The parts of the commands that the device looks at.
LEMMA OutputKinds ==
  ASSUME NEW m \in Output
  PROVE  /\ m.kind = "page" => m.page \in Nat
         /\ m.kind = "data" => /\ m.status \in 0..3 /\ m.offset \in Nat /\ m.length \in Nat
                               /\ m.status = 0 => m.offset + m.length <= FileSize
  BY DEF Output, DataAnswers

\* What the device says is input of the host.
LEMMA WordsTyped ==
  ASSUME NEW d, d \in DeviceRec
  PROVE  /\ Identify(d) \in Input
         /\ d.next < ImageSize => Request(d) \in Input
         /\ \A k \in {"ready", "eol", "valid", "invalid", "watchdogWritten", "other"} :
              [kind |-> k] \in Input
         /\ [kind |-> "updateResponse", success |-> TRUE] \in Input
<1>1. Identify(d) \in Input
  <2>1. GoodImage(d) \in BOOLEAN
    BY DEF GoodImage
  <2> QED
    BY <2>1 DEF Identify, Input, Texts, Frames, BtlFrames
<1>2. ASSUME d.next < ImageSize PROVE Request(d) \in Input
  <2>1. d.next \in Places
    BY <1>2, DeviceAssumption DEF DeviceRec, Places
  <2>2. /\ d.next \in Pages
        /\ [offset |-> d.next, length |-> Smaller(BlockSize, ImageSize - d.next)] \in Blocks
    BY <2>1, SystemAssumption
  <2> QED
    BY <2>2 DEF Request, Input, Texts, Frames, BtlFrames
<1>3. /\ \A k \in {"ready", "eol", "valid", "invalid", "watchdogWritten", "other"} :
           [kind |-> k] \in Input
      /\ [kind |-> "updateResponse", success |-> TRUE] \in Input
  BY DEF Input, Texts, Frames, BtlFrames, AppFrames
<1> QED
  BY <1>1, <1>2, <1>3

\* An answer leaves a sound device and says what the host may read.
AnswerOK(a) == DeviceOK(a.dev) /\ a.reply \in Seq(Input)

\* The device in another mode, and erased.
LEMMA ModesTyped ==
  ASSUME NEW d, d \in DeviceRec
  PROVE  /\ \A md \in Modes \ {"loading"} : DeviceOK([d EXCEPT !.mode = md])
         /\ \A md \in Modes \ {"loading"} : DeviceOK([d EXCEPT !.mode = md, !.next = 0])
         /\ DeviceOK(Erased(d)) /\ Erased(d) \in DeviceRec /\ Erased(d).next < ImageSize
<1>1. 0 \in 0..ImageSize /\ 0 < ImageSize
  BY DeviceAssumption
<1>2. ASSUME NEW md \in Modes
      PROVE  [d EXCEPT !.mode = md] \in DeviceRec /\ [d EXCEPT !.mode = md].mode = md
  BY DEF DeviceRec
<1>3. ASSUME NEW md \in Modes
      PROVE  LET e == [d EXCEPT !.mode = md, !.next = 0]
             IN  e \in DeviceRec /\ e.mode = md /\ e.next = 0
  BY <1>1 DEF DeviceRec
<1>4. Erased(d) \in DeviceRec /\ Erased(d).next = 0
  <2> DEFINE im == [i \in Places |-> Blank]
  <2>1. im \in [Places -> {Old, Blank, Junk} \cup Places]
    OBVIOUS
  <2>2. Erased(d) = [d EXCEPT !.mode = "loading", !.next = 0, !.image = im]
    BY DEF Erased
  <2> HIDE DEF im
  <2>3. "loading" \in Modes
    BY DEF Modes
  <2> QED
    BY <1>1, <2>1, <2>2, <2>3 DEF DeviceRec
<1> QED
  BY <1>1, <1>2, <1>3, <1>4 DEF DeviceOK

\* Storing the next place ends the loading or asks on.
LEMMA StoredTyped ==
  ASSUME NEW d, d \in DeviceRec
  PROVE  AnswerOK(Stored(d))
<1>1. CASE d.next < ImageSize
  BY <1>1, WordsTyped DEF Stored, Answer, AnswerOK, DeviceOK
<1>2. CASE ~(d.next < ImageSize)
  <2>1. \A md \in {"app", "boot"} : DeviceOK([d EXCEPT !.mode = md, !.next = 0])
    BY ModesTyped DEF Modes
  <2>2. /\ <<Identify(d)>> \in Seq(Input) /\ <<[kind |-> "valid"]>> \in Seq(Input)
        /\ <<[kind |-> "invalid"]>> \in Seq(Input)
    BY WordsTyped
  <2> QED
    BY <1>2, <2>1, <2>2 DEF Stored, Answer, AnswerOK
<1> QED
  BY <1>1, <1>2

\* A page goes where the device is, a block where it belongs.
LEMMA StoresTyped ==
  ASSUME NEW d, DeviceOK(d), d.mode = "loading"
  PROVE  /\ \A p \in Nat : AnswerOK(StorePage(d, p))
         /\ \A m \in Output : m.kind = "data" => AnswerOK(StoreBlock(d, m))
<1>1. d.next \in Nat /\ d.next + 1 \in 0..ImageSize /\ d.image \in [Places -> Content]
  BY DeviceAssumption DEF DeviceOK, DeviceRec, Content
<1>2. ASSUME NEW p \in Nat PROVE AnswerOK(StorePage(d, p))
  <2> DEFINE im == [d.image EXCEPT ![d.next] = Smaller(p, Junk)]
             e == [d EXCEPT !.image[d.next] = Smaller(p, Junk), !.next = @ + 1]
  <2>1. Smaller(p, Junk) \in Content
    BY DeviceAssumption DEF Smaller, Junk, Content, Places
  <2>2. im \in [Places -> Content]
    BY <1>1, <2>1
  <2>3. e = [[d EXCEPT !.image = im] EXCEPT !.next = d.next + 1]
    BY DEF DeviceOK, DeviceRec
  <2> HIDE DEF im
  <2>4. e \in DeviceRec
    BY <1>1, <2>2, <2>3 DEF DeviceOK, DeviceRec, Content
  <2>5. StorePage(d, p) = Stored(e)
    BY DEF StorePage
  <2> HIDE DEF e
  <2> QED
    BY <2>4, <2>5, StoredTyped
<1>3. ASSUME NEW m \in Output, m.kind = "data" PROVE AnswerOK(StoreBlock(d, m))
  <2>1. CASE m.status = 0 /\ m.offset = d.next /\ m.length > 0
    <3> DEFINE im == [i \in Places |-> IF i \in d.next..(d.next + m.length - 1)
                                       THEN i ELSE d.image[i]]
               e == [d EXCEPT !.image = [i \in Places |-> IF i \in d.next..(d.next + m.length - 1)
                                                          THEN i ELSE @[i]],
                              !.next = @ + m.length]
    <3>1. d.next + m.length \in 0..ImageSize
      BY <1>1, <1>3, <2>1, OutputKinds, SystemAssumption, DeviceAssumption
    <3>2. im \in [Places -> Content]
      BY <1>1 DEF Content
    <3>3. e = [[d EXCEPT !.image = im] EXCEPT !.next = d.next + m.length]
      BY DEF DeviceOK, DeviceRec
    <3> HIDE DEF im
    <3>4. e \in DeviceRec
      BY <3>1, <3>2, <3>3 DEF DeviceOK, DeviceRec, Content
    <3>5. StoreBlock(d, m) = Stored(e)
      BY <2>1 DEF StoreBlock
    <3> HIDE DEF e
    <3> QED
      BY <3>4, <3>5, StoredTyped
  <2>2. CASE ~(m.status = 0 /\ m.offset = d.next /\ m.length > 0)
    BY <2>2 DEF StoreBlock, Silent, Answer, AnswerOK
  <2> QED
    BY <2>1, <2>2
<1> QED
  BY <1>2, <1>3

\* Whatever the device receives, in whatever mode.
LEMMA DeviceTyped ==
  ASSUME NEW d, DeviceOK(d), NEW m \in Output
  PROVE  AnswerOK(DeviceReceives(d, m))
<1>0. d \in DeviceRec
  BY DEF DeviceOK
<1>1. AnswerOK(Silent(d))
  BY DEF AnswerOK, Silent, Answer
<1>2. \A md \in {"rebooting", "synced"} : DeviceOK([d EXCEPT !.mode = md])
  BY <1>0, ModesTyped DEF Modes
<1>3. AnswerOK(Silent([d EXCEPT !.mode = "rebooting"]))
  BY <1>2 DEF AnswerOK, Silent, Answer
<1>4. AnswerOK(InApp(d, m))
  <2>1. /\ <<[kind |-> "watchdogWritten"]>> \in Seq(Input)
        /\ <<[kind |-> "other"]>> \in Seq(Input)
    BY <1>0, WordsTyped
  <2>2. /\ AnswerOK(Answer([d EXCEPT !.mode = "rebooting"], <<[kind |-> "watchdogWritten"]>>))
        /\ AnswerOK(Answer(d, <<[kind |-> "other"]>>))
    BY <1>2, <2>1 DEF AnswerOK, Answer
  <2> QED
    BY <1>1, <2>2 DEF InApp
<1>5. /\ AnswerOK(Answer(d, <<Identify(d)>>))
      /\ AnswerOK(Answer([d EXCEPT !.mode = "synced"], <<[kind |-> "ready"], [kind |-> "eol"]>>))
      /\ AnswerOK(Answer(Erased(d), <<Request(Erased(d))>>))
      /\ AnswerOK(Answer(Erased(d), <<[kind |-> "updateResponse", success |-> TRUE],
                                      Request(Erased(d))>>))
  <2>1. DeviceOK(Erased(d)) /\ Erased(d) \in DeviceRec /\ Erased(d).next < ImageSize
    BY <1>0, ModesTyped
  <2>2. Request(Erased(d)) \in Input
    BY <2>1, WordsTyped
  <2>3. /\ <<Identify(d)>> \in Seq(Input)
        /\ <<[kind |-> "ready"], [kind |-> "eol"]>> \in Seq(Input)
    BY <1>0, WordsTyped
  <2>4. /\ <<Request(Erased(d))>> \in Seq(Input)
        /\ <<[kind |-> "updateResponse", success |-> TRUE], Request(Erased(d))>> \in Seq(Input)
    BY <1>0, <2>2, WordsTyped
  <2> QED
    BY <1>2, <2>1, <2>3, <2>4 DEF AnswerOK, Answer
<1>6. AnswerOK(InV1Bootloader(d, m))
  <2>1. (m.kind = "page" /\ d.mode = "loading") => AnswerOK(StorePage(d, m.page))
    BY OutputKinds, StoresTyped
  <2> QED
    BY <1>1, <1>5, <2>1 DEF InV1Bootloader
<1>7. AnswerOK(InV3Bootloader(d, m))
  <2>1. (m.kind = "data" /\ d.mode = "loading") => AnswerOK(StoreBlock(d, m))
    BY StoresTyped
  <2> QED
    BY <1>1, <1>5, <2>1 DEF InV3Bootloader
<1> QED
  BY <1>1, <1>3, <1>4, <1>6, <1>7 DEF DeviceReceives


-----------------------------------------------------------------------------
(* The line.                                                               *)

\* Cutting a sequence to the capacity of the line.
LEMMA CutTyped ==
  ASSUME NEW S, NEW s \in Seq(S)
  PROVE  LineOK(AtMost(s, LinkCap), S)
<1>1. LinkCap \in Nat /\ LinkCap \in Int /\ 1 \in Int
  BY SystemAssumption
<1>2. CASE Len(s) <= LinkCap
  BY <1>2 DEF AtMost, LineOK
<1>3. CASE ~(Len(s) <= LinkCap)
  <2>1. \A i \in 1..LinkCap : s[i] \in S
    BY <1>1, <1>3
  <2>2. SubSeq(s, 1, LinkCap) \in Seq(S)
    BY <1>1, <2>1, SubSeqProperties
  <2>3. Len(SubSeq(s, 1, LinkCap)) = IF 1 <= LinkCap THEN LinkCap - 1 + 1 ELSE 0
    BY <1>1, <2>1, SubSeqProperties
  <2>4. Len(SubSeq(s, 1, LinkCap)) <= LinkCap
    BY <1>1, <2>3
  <2> QED
    BY <1>3, <2>2, <2>4 DEF AtMost, LineOK
<1> QED
  BY <1>2, <1>3

\* The rest of a line, from any place on.
LEMMA RestTyped ==
  ASSUME NEW S, NEW s, LineOK(s, S), NEW n \in Nat
  PROVE  LineOK(SubSeq(s, n + 1, Len(s)), S)
<1>1. s \in Seq(S) /\ Len(s) \in Nat /\ n + 1 \in Int /\ Len(s) \in Int /\ Len(s) <= LinkCap
  BY DEF LineOK
<1>2. \A i \in (n + 1)..Len(s) : s[i] \in S
  <2>1. \A i \in (n + 1)..Len(s) : i \in 1..Len(s)
    BY <1>1
  <2> QED
    BY <1>1, <2>1
<1>3. SubSeq(s, n + 1, Len(s)) \in Seq(S)
  BY <1>1, <1>2, SubSeqProperties
<1>4. Len(SubSeq(s, n + 1, Len(s))) = IF n + 1 <= Len(s) THEN Len(s) - (n + 1) + 1 ELSE 0
  BY <1>1, <1>2, SubSeqProperties
<1>5. (IF n + 1 <= Len(s) THEN Len(s) - (n + 1) + 1 ELSE 0) <= LinkCap
  BY <1>1, SystemAssumption
<1> QED
  BY <1>3, <1>4, <1>5 DEF LineOK

\* The commands among what a step did to the port are taken one after the other.
LEMMA WrittenFold ==
  ASSUME NEW c \in Seq(Output), NEW X, NEW e \in X, e = << >>,
         \A x \in X, i \in 1..Len(c) : Onto(x, c[i]) \in X
  PROVE  \E u \in [0..Len(c) -> X] :
            /\ u[0] = << >> /\ u[Len(c)] = FoldLeft(Onto, << >>, c)
            /\ \A i \in 1..Len(c) : u[i] = Onto(u[i - 1], c[i])
<1> DEFINE N == Len(c)
           Is(f) == f = [q \in SUBSET (1..N) |->
                           IF q = {} THEN e ELSE Onto(f[q \ {Max(q)}], c[Max(q)])]
           iter == CHOOSE f : Is(f)
           next == [z \in X \X (1..N) |-> Onto(z[1], c[z[2]])]
<1>1. N \in Nat /\ DOMAIN c = 1..N
  OBVIOUS
<1>2. FoldLeft(Onto, << >>, c) = iter[1..N]
  BY <1>1 DEF FoldLeft, MapThenFoldSet
<1>a. \A x \in X, i \in 1..N : Onto(x, c[i]) \in X
  OBVIOUS
<1> HIDE DEF N
<1>3. next \in [X \X (1..N) -> X] /\ \A x \in X, i \in 1..N : next[<<x, i>>] = Onto(x, c[i])
  BY <1>1, <1>a
<1> HIDE DEF next
<1>4. \A q \in SUBSET (1..N) : q # {} => Max(q) \in 1..N
  BY <1>1, MaxIn
<1>5. PICK f \in [SUBSET (1..N) -> X] : IsFold(f, N, e, next)
  BY <1>1, <1>3, FoldExists
<1>6. Is(f)
  BY <1>3, <1>4, <1>5 DEF IsFold
<1>7. Is(iter)
  <2> HIDE DEF Is
  <2> QED
    BY <1>6
<1> HIDE DEF iter
<1>8. FoldsIn(X, iter, N, e, next)
  BY <1>3, <1>4, <1>7 DEF FoldsIn
<1> HIDE DEF Is
<1>9. PICK u \in [0..N -> X] : Steps(u, N, e, next) /\ u[N] = iter[1..N]
  BY <1>1, <1>8, FoldSteps
<1>10. ASSUME NEW i \in 1..N PROVE u[i] = Onto(u[i - 1], c[i])
  <2>1. u[i - 1] \in X
    <3>1. i - 1 \in 0..N
      BY <1>1
    <3> QED
      BY <1>9, <3>1
  <2> QED
    BY <1>3, <1>9, <2>1 DEF Steps
<1>11. u[0] = << >>
  BY <1>9 DEF Steps
<1> QED
  BY <1>2, <1>9, <1>10, <1>11 DEF N

\* They are commands of the step, and one is one.
LEMMA WrittenCommands ==
  ASSUME NEW c \in Seq(Output)
  PROVE  LET w == FoldLeft(Onto, << >>, c)
         IN  /\ w \in Seq({c[i] : i \in 1..Len(c)}) /\ w \in Seq(Output)
             /\ Len(c) = 0 => w = << >>
             /\ Len(c) = 1 => w \in {<< >>, <<c[1]>>}
<1> DEFINE S == {c[i] : i \in 1..Len(c)}
           X == Seq(S)
           e == << >>
           w == FoldLeft(Onto, << >>, c)
<1>1. Len(c) \in Nat /\ S \subseteq Output
  OBVIOUS
<1>2. e \in X /\ \A x \in X, i \in 1..Len(c) : Onto(x, c[i]) \in X
  BY DEF Onto
<1> HIDE DEF X, w
<1>3. PICK u \in [0..Len(c) -> X] :
        /\ u[0] = << >> /\ u[Len(c)] = w
        /\ \A i \in 1..Len(c) : u[i] = Onto(u[i - 1], c[i])
  BY <1>2, WrittenFold DEF w
<1>4. w \in X
  BY <1>1, <1>3
<1>5. w \in Seq(S)
  BY <1>4 DEF X
<1>6. w \in Seq(Output)
  <2> HIDE DEF S
  <2> QED
    BY <1>1, <1>5
<1>7. Len(c) = 1 => w \in {<< >>, <<c[1]>>}
  <2> SUFFICES ASSUME Len(c) = 1 PROVE w \in {<< >>, <<c[1]>>}
    OBVIOUS
  <2>1. w = Onto(u[0], c[1])
    <3>1. 1 \in 1..Len(c) /\ 1 - 1 = 0
      OBVIOUS
    <3>2. u[1] = Onto(u[1 - 1], c[1])
      BY <1>3, <3>1
    <3> QED
      BY <1>3, <3>1, <3>2
  <2>2. Append(<< >>, c[1]) = <<c[1]>>
    OBVIOUS
  <2> QED
    BY <1>3, <2>1, <2>2 DEF Onto
<1>8. Len(c) = 0 => w = << >>
  BY <1>3
<1> QED
  BY <1>5, <1>6, <1>7, <1>8 DEF w

\* An empty line.
LEMMA EmptyLine == \A S : LineOK(<< >>, S)
  BY SystemAssumption DEF LineOK

\* What a step of the host leaves on the lines.
LEMMA CarryTyped ==
  ASSUME SysInv, HostInv', NEW unread, LineOK(unread, Input), Carry(unread), faults' \in 0..MaxFaults
  PROVE  SysInv'
<1>1. h'.port \in Seq(Output)
  BY DEF HostInv, TypeOK, Host
<1>2. Written \in Seq(Output)
  BY <1>1, WrittenCommands DEF Written
<1>3. LineOK(AtMost(toDev \o Written, LinkCap), Output)
  <2>1. toDev \o Written \in Seq(Output)
    BY <1>2 DEF SysInv, LineOK
  <2> QED
    BY <2>1, CutTyped
<1>4. LineOK(toDev', Output)
  BY <1>3 DEF Carry, SysInv
<1>5. LineOK(toHost', Input)
  BY EmptyLine DEF Carry
<1>6. DeviceOK(dev') /\ hup' \in BOOLEAN
  <2>1. hup \in BOOLEAN /\ dev' = dev /\ hup' = (hup /\ ~Closes) /\ DeviceOK(dev)
    BY DEF Carry, SysInv
  <2> QED
    BY <2>1
<1> QED
  BY <1>4, <1>5, <1>6 DEF SysInv

\* What the device says is cut to the line, or lost.
LEMMA DeliverTyped ==
  ASSUME SysInv, NEW s \in Seq(Input), Deliver(s)
  PROVE  LineOK(toHost', Input)
<1>1. toHost \o s \in Seq(Input) /\ LineOK(toHost, Input)
  BY DEF SysInv, LineOK
<1> QED
  BY <1>1, CutTyped DEF Deliver

\* The first one or two elements of a sequence.
LEMMA FirstOnes ==
  ASSUME NEW S, NEW s \in Seq(S), NEW n \in 1..2, n <= Len(s)
  PROVE  /\ n = 1 => SubSeq(s, 1, n) = <<s[1]>>
         /\ n = 2 => SubSeq(s, 1, n) = <<s[1], s[2]>>
         /\ s[1] \in S
<1> DEFINE t == SubSeq(s, 1, n)
<1>1. 1 \in Int /\ n \in Int /\ \A i \in 1..n : s[i] \in S
  OBVIOUS
<1>2. t \in Seq(S)
  BY <1>1, SubSeqProperties
<1>3. Len(t) = IF 1 <= n THEN n - 1 + 1 ELSE 0
  BY <1>1, SubSeqProperties
<1>4. \A i \in 1..(n - 1 + 1) : t[i] = s[1 + i - 1]
  BY <1>1, SubSeqProperties
<1> HIDE DEF t
<1>5. Len(t) = n /\ \A i \in 1..n : t[i] = s[i]
  <2>1. n - 1 + 1 = n /\ 1 <= n /\ \A i \in 1..n : 1 + i - 1 = i
    OBVIOUS
  <2> QED
    BY <1>3, <1>4, <2>1
<1>6. CASE n = 1
  <2>1. <<s[1]>> \in Seq(S) /\ Len(<<s[1]>>) = 1
    BY <1>1, <1>6
  <2>2. t = <<s[1]>>
    BY <1>2, <1>5, <1>6, <2>1, SeqEqual
  <2> QED
    BY <1>1, <1>6, <2>2 DEF t
<1>7. CASE n = 2
  <2>1. <<s[1], s[2]>> \in Seq(S) /\ Len(<<s[1], s[2]>>) = 2
    BY <1>1, <1>7
  <2>3. \A i \in 1..2 : t[i] = <<s[1], s[2]>>[i]
    BY <1>5, <1>7
  <2>2. t = <<s[1], s[2]>>
    BY <1>2, <1>5, <1>7, <2>1, <2>3, SeqEqual
  <2> QED
    BY <1>1, <1>7, <2>2 DEF t
<1> QED
  BY <1>6, <1>7

\* One frame or some texts from the line are what one read() may return.
LEMMA ReadTyped ==
  ASSUME SysInv, NEW n \in 1..2, Readable(n)
  PROVE  SubSeq(toHost, 1, n) \in Chunks
<1>1. toHost \in Seq(Input) /\ n <= Len(toHost)
  <2>1. toHost \in Seq(Input) /\ Len(toHost) \in Nat
    BY DEF SysInv, LineOK
  <2> QED
    BY <2>1 DEF Readable, Smaller
<1>2. CASE n = 1
  <2>1. SubSeq(toHost, 1, n) = <<toHost[1]>> /\ toHost[1] \in Input
    BY <1>1, <1>2, FirstOnes
  <2> QED
    BY <2>1 DEF Chunks
<1>3. CASE n = 2
  <2>1. SubSeq(toHost, 1, n) = <<toHost[1], toHost[2]>>
    BY <1>1, <1>3, FirstOnes
  <2>2. toHost[1] \in Texts /\ toHost[2] \in Texts
    BY <1>3 DEF Readable
  <2> QED
    BY <2>1, <2>2 DEF Chunks
<1> QED
  BY <1>2, <1>3


-----------------------------------------------------------------------------
(* The steps.                                                              *)

\* What the host does in the system is a step of the open host, and the device,
\* the line and the faults leave the host alone.
LEMMA StepMaps ==
  ASSUME SysInv, [SysNext]_sysVars
  PROVE  [Next]_hostVars
<1>1. ASSUME HostStep PROVE Next
  <2>1. CASE SysStarted
    BY <2>1 DEF SysStarted, Next
  <2>2. CASE SysPoll
    <3> DEFINE s == [in |-> toHost # << >> /\ h.fd # 0, hup |-> hup /\ h.fd # 0, eof |-> FALSE]
    <3>1. Poll(s)
      BY <2>2 DEF SysPoll
    <3>2. s \in [in : BOOLEAN, hup : BOOLEAN, eof : BOOLEAN]
      BY DEF SysInv
    <3> HIDE DEF s
    <3> QED
      BY <3>1, <3>2 DEF Next
  <2>3. CASE SysReceive
    <3>1. PICK n \in 1..2 : Readable(n) /\ Receive(SubSeq(toHost, 1, n))
      BY <2>3 DEF SysReceive
    <3>2. SubSeq(toHost, 1, n) \in Chunks
      BY <3>1, ReadTyped
    <3> QED
      BY <3>1, <3>2 DEF Next
  <2>4. CASE SysTimerNotDue \/ SysHangUp \/ SysReadNothing \/ SysStdin \/ SysExit
    BY <2>4 DEF SysTimerNotDue, SysHangUp, SysReadNothing, SysStdin, SysExit, Next
  <2> QED
    BY <1>1, <2>1, <2>2, <2>3, <2>4 DEF HostStep
<1>2. ASSUME SysPollFails \/ SysTimeout \/ SysWindowCloses \/ SysTerminated PROVE Next
  BY <1>2 DEF SysPollFails, SysTimeout, SysWindowCloses, SysTerminated, Next
<1>3. ASSUME DeviceStep \/ Reboot \/ DeviceGivesUp \/ Fault \/ UNCHANGED sysVars
      PROVE  UNCHANGED hostVars
  BY <1>3 DEF DeviceStep, Reboot, DeviceGivesUp, Fault, Restart, Repeat, Lose, Corrupt,
              Unplug, Die, sysVars, hostVars
<1> QED
  BY <1>1, <1>2, <1>3 DEF SysNext

\* A fault is paid for from what is left of them.
LEMMA Paid ==
  ASSUME SysInv
  PROVE  /\ \A f : Happens(f) => faults' \in 0..MaxFaults
         /\ \A f, bad : Pays(f, bad) => faults' \in 0..MaxFaults
         /\ \A o : OutcomeCosts(o) => faults' \in 0..MaxFaults
         /\ UNCHANGED faults => faults' \in 0..MaxFaults
<1>1. faults \in 0..MaxFaults
  BY DEF SysInv
<1>2. ASSUME NEW f, Happens(f) PROVE faults' \in 0..MaxFaults
  BY <1>1, <1>2, SystemAssumption DEF Happens, May
<1> QED
  BY <1>1, <1>2 DEF Pays, OutcomeCosts

\* The steps of the host keep the invariant.
LEMMA HostStepHolds ==
  ASSUME SysInv, HostInv',
         HostStep \/ SysPollFails \/ SysTimeout \/ SysWindowCloses \/ SysTerminated
  PROVE  SysInv'
<1>0. LineOK(toHost, Input)
  BY DEF SysInv
<1>1. ASSUME UNCHANGED <<dev, toDev, toHost, hup, faults>> PROVE SysInv'
  BY <1>1 DEF SysInv
<1>2. ASSUME SysTimerNotDue \/ SysWindowCloses \/ SysTerminated PROVE SysInv'
  BY <1>1, <1>2 DEF SysTimerNotDue, SysWindowCloses, SysTerminated, sysVars
<1>3. ASSUME SysStarted \/ SysPoll \/ SysPollFails \/ SysTimeout \/ SysHangUp \/ SysReadNothing
               \/ SysStdin \/ SysExit
      PROVE  SysInv'
  <2>1. Carry(toHost) /\ faults' \in 0..MaxFaults
    BY <1>3, Paid DEF SysStarted, SysPoll, SysPollFails, SysTimeout, SysHangUp, SysReadNothing,
                      SysStdin, SysExit
  <2> QED
    BY <1>0, <2>1, CarryTyped
<1>4. ASSUME SysReceive PROVE SysInv'
  <2>1. PICK n \in 1..2 : /\ Pays("split", MoreReadable(n))
                          /\ Carry(SubSeq(toHost, n + 1, Len(toHost)))
    BY <1>4 DEF SysReceive
  <2>2. LineOK(SubSeq(toHost, n + 1, Len(toHost)), Input)
    BY <1>0, RestTyped
  <2>3. faults' \in 0..MaxFaults
    BY <2>1, Paid
  <2> QED
    BY <2>1, <2>2, <2>3, CarryTyped
<1> QED
  BY <1>2, <1>3, <1>4 DEF HostStep

\* The line without its oldest and without its youngest message.
LEMMA ShorterLine ==
  ASSUME NEW S, NEW s, LineOK(s, S), s # << >>
  PROVE  LineOK(Tail(s), S) /\ LineOK(Front(s), S) /\ Head(s) \in S
<1>1. s \in Seq(S) /\ Len(s) \in Nat /\ Len(s) > 0 /\ Len(s) <= LinkCap
  BY DEF LineOK
<1>2. Head(s) \in S /\ Tail(s) \in Seq(S) /\ Len(Tail(s)) = Len(s) - 1
  BY <1>1, HeadTailProperties
<1>3. Front(s) = SubSeq(s, 1, Len(s) - 1)
  BY DEF Front
<1>4. Front(s) \in Seq(S) /\ Len(Front(s)) <= Len(s)
  <2>1. 1 \in Int /\ Len(s) - 1 \in Int /\ \A i \in 1..(Len(s) - 1) : s[i] \in S
    BY <1>1
  <2>2. SubSeq(s, 1, Len(s) - 1) \in Seq(S)
    BY <2>1, SubSeqProperties
  <2>3. Len(SubSeq(s, 1, Len(s) - 1)) = IF 1 <= Len(s) - 1 THEN Len(s) - 1 - 1 + 1 ELSE 0
    BY <2>1, SubSeqProperties
  <2> QED
    BY <1>1, <1>3, <2>2, <2>3
<1>5. Len(Tail(s)) <= LinkCap /\ Len(Front(s)) <= LinkCap
  BY <1>1, <1>2, <1>4, SystemAssumption
<1> QED
  BY <1>2, <1>4, <1>5 DEF LineOK

\* A corrupted page number, and a corrupted page.
LEMMA CorruptTyped ==
  ASSUME SysInv, Corrupt
  PROVE  LineOK(toHost', Input) /\ LineOK(toDev', Output)
<1>1. ASSUME NEW p \in Pages, OnTheLine, Last(toHost).kind = "get",
             toHost' = [toHost EXCEPT ![Len(toHost)].page = p]
      PROVE  LineOK(toHost', Input)
  <2> DEFINE n == Len(toHost)
             m == toHost[n]
             g == [m EXCEPT !.page = p]
  <2>1. toHost \in Seq(Input) /\ n \in 1..Len(toHost) /\ n <= LinkCap
    <3>1. toHost \in Seq(Input) /\ Len(toHost) <= LinkCap /\ Len(toHost) \in Nat
      BY DEF SysInv, LineOK
    <3>2. Len(toHost) > 0
      BY <1>1, <3>1 DEF OnTheLine
    <3> QED
      BY <3>1, <3>2
  <2>2. m \in Input /\ m.kind = "get"
    BY <1>1, <2>1 DEF Last
  <2>3. m \in [kind : {"get"}, page : Pages]
    BY <2>2 DEF Input, Texts, Frames, BtlFrames, AppFrames
  <2>4. g \in [kind : {"get"}, page : Pages]
    BY <1>1, <2>3
  <2>5. g \in Input
    BY <2>4 DEF Input, Texts
  <2>6. toHost' = [toHost EXCEPT ![n] = g]
    BY <1>1
  <2> HIDE DEF n, m, g
  <2>7. [toHost EXCEPT ![n] = g] \in Seq(Input) /\ Len([toHost EXCEPT ![n] = g]) = Len(toHost)
    BY <2>1, <2>5, ExceptSeq
  <2> QED
    BY <2>1, <2>6, <2>7 DEF LineOK, n
<1>2. ASSUME toDev # << >>, toDev[1].kind = "page",
             toDev' = <<[toDev[1] EXCEPT !.page = Junk]>> \o Tail(toDev)
      PROVE  LineOK(toDev', Output)
  <2> DEFINE m == toDev[1]
             g == [m EXCEPT !.page = Junk]
  <2>1. /\ toDev \in Seq(Output) /\ Len(toDev) \in Nat /\ Len(toDev) > 0
        /\ Len(toDev) <= LinkCap /\ m \in Output
    <3>1. toDev \in Seq(Output) /\ Len(toDev) <= LinkCap
      BY DEF SysInv, LineOK
    <3> QED
      BY <1>2, <3>1
  <2>2. m \in [kind : {"page"}, page : Nat]
    BY <1>2, <2>1 DEF Output, DataAnswers
  <2>3. g \in [kind : {"page"}, page : Nat]
    BY <2>2, DeviceAssumption DEF Junk
  <2>4. g \in Output
    BY <2>3 DEF Output
  <2>5. Tail(toDev) \in Seq(Output) /\ Len(Tail(toDev)) = Len(toDev) - 1
    BY <1>2, <2>1, HeadTailProperties
  <2> HIDE DEF m, g
  <2>6. <<g>> \in Seq(Output) /\ Len(<<g>>) = 1
    BY <2>4
  <2>7. /\ <<g>> \o Tail(toDev) \in Seq(Output)
        /\ Len(<<g>> \o Tail(toDev)) = Len(<<g>>) + Len(Tail(toDev))
    BY <2>5, <2>6, ConcatProperties
  <2>8. toDev' = <<g>> \o Tail(toDev)
    BY <1>2 DEF g, m
  <2>9. Len(<<g>>) + Len(Tail(toDev)) <= LinkCap
    BY <2>1, <2>5, <2>6, SystemAssumption
  <2> QED
    BY <2>7, <2>8, <2>9 DEF LineOK
<1>3. LineOK(toHost, Input) /\ LineOK(toDev, Output)
  BY DEF SysInv
<1> QED
  BY <1>1, <1>2, <1>3 DEF Corrupt

\* So do the steps of the device, and the faults.
LEMMA DeviceStepHolds ==
  ASSUME SysInv, HostInv', DeviceStep \/ Reboot \/ DeviceGivesUp \/ Fault
  PROVE  SysInv'
<1> DEFINE Lines == LineOK(toDev', Output) /\ LineOK(toHost', Input)
<1>0. /\ LineOK(toDev, Output) /\ LineOK(toHost, Input) /\ DeviceOK(dev) /\ dev \in DeviceRec
      /\ hup \in BOOLEAN /\ faults \in 0..MaxFaults
  BY DEF SysInv, DeviceOK
<1>a. \A S : LineOK(<< >>, S)
  BY EmptyLine
<1>b. (h.fd = 1) \in BOOLEAN
  OBVIOUS
<1>c. /\ \A md \in {"rebooting", "gone", "dead"} : DeviceOK([dev EXCEPT !.mode = md])
      /\ DeviceOK([dev EXCEPT !.mode = "boot", !.next = 0])
  BY <1>0, ModesTyped DEF Modes
<1>1. CASE DeviceStep
  <2> DEFINE a == DeviceReceives(dev, Head(toDev))
  <2>1. toDev # << >> /\ dev' = a.dev /\ Deliver(a.reply) /\ toDev' = Tail(toDev)
          /\ UNCHANGED <<hup, faults>>
    BY <1>1 DEF DeviceStep
  <2>2. LineOK(Tail(toDev), Output) /\ Head(toDev) \in Output
    BY <1>0, <2>1, ShorterLine
  <2>3. AnswerOK(a)
    BY <1>0, <2>2, DeviceTyped
  <2> HIDE DEF a
  <2>4. LineOK(toHost', Input)
    BY <2>1, <2>3, DeliverTyped DEF AnswerOK
  <2> QED
    BY <1>0, <2>1, <2>2, <2>3, <2>4 DEF AnswerOK, SysInv
<1>2. CASE Reboot
  <2>1. DeviceOK(dev') /\ faults' = faults
    BY <1>2, <1>c DEF Reboot
  <2>2. <<Identify(dev)>> \in Seq(Input)
    BY <1>0, WordsTyped
  <2>3. Lines /\ hup' \in BOOLEAN
    <3>1. CASE Usb
      BY <1>2, <1>a, <1>b, <3>1 DEF Reboot
    <3>2. CASE ~Usb
      BY <1>0, <1>2, <2>2, <3>2, DeliverTyped DEF Reboot
    <3> QED
      BY <3>1, <3>2
  <2> QED
    BY <1>0, <2>1, <2>3 DEF SysInv
<1>3. CASE DeviceGivesUp
  <2>1. DeviceOK(dev') /\ UNCHANGED <<toDev, toHost, hup, faults>>
    BY <1>3, <1>c DEF DeviceGivesUp
  <2> QED
    BY <1>0, <2>1 DEF SysInv
<1>4. CASE Restart \/ Die
  <2>1. DeviceOK(dev') /\ UNCHANGED <<toDev, toHost, hup>> /\ faults' \in 0..MaxFaults
    BY <1>4, <1>c, Paid DEF Restart, Die
  <2> QED
    BY <1>0, <2>1 DEF SysInv
<1>5. CASE Repeat
  <2>1. Deliver(<<Request(dev)>>) /\ UNCHANGED <<dev, toDev, hup>> /\ faults' \in 0..MaxFaults
    BY <1>5, Paid DEF Repeat
  <2>2. <<Request(dev)>> \in Seq(Input)
    <3>1. dev.next < ImageSize
      BY <1>0, <1>5 DEF Repeat, DeviceOK
    <3> QED
      BY <1>0, <3>1, WordsTyped
  <2>3. LineOK(toHost', Input)
    BY <2>1, <2>2, DeliverTyped
  <2> QED
    BY <1>0, <2>1, <2>3 DEF SysInv
<1>6. CASE Lose
  <2>1. UNCHANGED <<dev, hup>> /\ faults' \in 0..MaxFaults
    BY <1>6, Paid DEF Lose
  <2>2. OnTheLine => toHost # << >>
    BY DEF OnTheLine
  <2>3. Lines
    BY <1>0, <1>6, <2>2, ShorterLine DEF Lose
  <2> QED
    BY <1>0, <2>1, <2>3 DEF SysInv
<1>7. CASE Corrupt
  <2>1. UNCHANGED <<dev, hup>> /\ faults' \in 0..MaxFaults
    BY <1>7, Paid DEF Corrupt
  <2> QED
    BY <1>0, <1>7, <2>1, CorruptTyped DEF SysInv
<1>8. CASE Unplug
  <2>1. DeviceOK(dev') /\ hup' \in BOOLEAN /\ faults' \in 0..MaxFaults /\ Lines
    BY <1>8, <1>a, <1>b, <1>c, Paid DEF Unplug
  <2> QED
    BY <2>1 DEF SysInv
<1> QED
  BY <1>1, <1>2, <1>3, <1>4, <1>5, <1>6, <1>7, <1>8 DEF Fault

\* Every step keeps the invariant.
LEMMA SysStepHolds == SysInv /\ [SysNext]_sysVars => SysInv' /\ [Next]_hostVars
<1> SUFFICES ASSUME SysInv, [SysNext]_sysVars
             PROVE  SysInv' /\ [Next]_hostVars
  OBVIOUS
<1>1. [Next]_hostVars
  BY StepMaps
<1>2. HostInv'
  BY <1>1, StepHolds DEF SysInv
<1>3. CASE UNCHANGED sysVars
  <2>1. dev' = dev /\ toDev' = toDev /\ toHost' = toHost /\ hup' = hup /\ faults' = faults
    BY <1>3 DEF sysVars
  <2> QED
    BY <1>1, <1>2, <2>1 DEF SysInv
<1> QED
  BY <1>1, <1>2, <1>3, HostStepHolds, DeviceStepHolds DEF SysNext

\* It holds before the program is started.
LEMMA SysInitHolds == SysInit => SysInv /\ Init
<1> SUFFICES ASSUME SysInit PROVE SysInv /\ Init
  OBVIOUS
<1>1. HostInv /\ Init
  BY InitHolds DEF SysInit
<1>2. job \in AllJobs
  BY <1>1, HostAssumption DEF HostInv, TypeOK
<1>3. DeviceOK(OldDevice(FileV3))
  <2> DEFINE im == [i \in Places |-> Old]
  <2>1. im \in [Places -> {Old, Blank, Junk} \cup Places]
    OBVIOUS
  <2>2. FileV3 \in BOOLEAN /\ 0 \in 0..ImageSize
    BY <1>2, DeviceAssumption DEF FileV3, AllJobs
  <2>3. OldDevice(FileV3) = [v3 |-> FileV3, mode |-> "app", next |-> 0, image |-> im]
    BY DEF OldDevice
  <2> HIDE DEF im
  <2> QED
    BY <2>1, <2>2, <2>3 DEF DeviceOK, DeviceRec, Modes
<1>4. LineOK(toDev, Output) /\ LineOK(toHost, Input)
  BY EmptyLine DEF SysInit
<1>5. MaxFaults \in 0..MaxFaults
  BY SystemAssumption
<1>6. dev = OldDevice(FileV3) /\ hup = FALSE /\ faults = MaxFaults
  BY DEF SysInit
<1>7. hup \in BOOLEAN
  BY <1>6
<1> QED
  BY <1>1, <1>3, <1>4, <1>5, <1>6, <1>7 DEF SysInv

\* The invariant of the composition.
THEOREM SysInvariance == SysSpec => []SysInv
  BY SysInitHolds, SysStepHolds, PTL DEF SysSpec

\* Host, device, both directions of the line and the count of faults keep their
\* types, whatever is lost, cut, repeated, corrupted, restarted or unplugged.
THEOREM SystemTypes == SysSpec => []SysTypeOK
<1>1. SysInv => SysTypeOK
  BY DEF SysInv, SysTypeOK, HostInv, DeviceOK, LineOK
<1> QED
  BY <1>1, SysInvariance, PTL

\* A session with a device is a behaviour of the open host: every chunk the line
\* delivers, every outcome of a call and every hang-up is one the host's module
\* allows (PL_Loop, main_posix.c 439-520).
THEOREM SystemRunsHost == SysSpec => Spec
  BY SysInitHolds, SysStepHolds, SysInvariance, PTL DEF SysSpec, Spec

\* So what is proved of the host holds of every session: it is never stranded
\* without a timer, asks at most twice, verifies only after the end of the
\* firmware, and ends for a reason (gcf.c 397-1149).
THEOREM SessionsAreSound ==
  SysSpec => []NeverStranded /\ []QueryBudget /\ VerifyAfterTheEnd /\ EndsForAReason
  BY SystemRunsHost, AlwaysArmed, AtMostTwoQueries, VerifiesAfterTheEnd, EndsWithAReason, PTL


-----------------------------------------------------------------------------
(* Words on the lines.                                                     *)

\* A message by its kind; a checksum is part of it.
Word(m) == IF m.kind = "idResponse" THEN (IF m.crcOk THEN "idOk" ELSE "idBad") ELSE m.kind

Holds(s, w) == \E i \in DOMAIN s : Word(s[i]) = w
Once(s, w)  == \A i, j \in DOMAIN s : Word(s[i]) = w /\ Word(s[j]) = w => i = j

\* No w comes behind a v.
NoneBehind(s, v, w) ==
  \A i, j \in DOMAIN s : i < j /\ Word(s[i]) = v => Word(s[j]) # w

\* t is what is left of s with r behind it, after losses at either end.
Follows(t, s, r) ==
  \E d \in Nat : \A i \in DOMAIN t :
    \/ i + d \in DOMAIN s /\ Word(t[i]) = Word(s[i + d])
    \/ /\ i + d > Len(s) /\ (i + d) - Len(s) \in DOMAIN r
       /\ Word(t[i]) = Word(r[(i + d) - Len(s)])

\* Then every word of t is one of s or of r, and words stay as rare and in order.
LEMMA FollowsKeeps ==
  ASSUME NEW S, NEW t \in Seq(S), NEW s \in Seq(S), NEW r \in Seq(S), Follows(t, s, r)
  PROVE  /\ \A w : Holds(t, w) => Holds(s, w) \/ Holds(r, w)
         /\ \A w : Once(s, w) /\ Once(r, w) /\ ~(Holds(s, w) /\ Holds(r, w)) => Once(t, w)
         /\ \A v, w : NoneBehind(s, v, w) /\ NoneBehind(r, v, w) /\ ~(Holds(s, v) /\ Holds(r, w))
              => NoneBehind(t, v, w)
<1>1. /\ Len(s) \in Nat /\ DOMAIN s = 1..Len(s) /\ DOMAIN r = 1..Len(r) /\ Len(r) \in Nat
      /\ DOMAIN t = 1..Len(t) /\ Len(t) \in Nat
  OBVIOUS
<1>2. PICK d \in Nat : \A i \in DOMAIN t :
        \/ i + d \in DOMAIN s /\ Word(t[i]) = Word(s[i + d])
        \/ /\ i + d > Len(s) /\ (i + d) - Len(s) \in DOMAIN r
           /\ Word(t[i]) = Word(r[(i + d) - Len(s)])
  BY DEF Follows
<1>3. ASSUME NEW w, Holds(t, w) PROVE Holds(s, w) \/ Holds(r, w)
  BY <1>2, <1>3 DEF Holds
<1>4. ASSUME NEW w, Once(s, w), Once(r, w), ~(Holds(s, w) /\ Holds(r, w)) PROVE Once(t, w)
  <2> SUFFICES ASSUME NEW i \in DOMAIN t, NEW j \in DOMAIN t, Word(t[i]) = w, Word(t[j]) = w
               PROVE  i = j
    BY DEF Once
  <2>1. i \in Nat /\ j \in Nat
    BY <1>1
  <2>2. CASE i + d \in DOMAIN s /\ j + d \in DOMAIN s
    <3>1. Word(s[i + d]) = w /\ Word(s[j + d]) = w
      BY <1>1, <1>2, <2>1, <2>2
    <3>2. i + d = j + d
      BY <1>4, <2>2, <3>1 DEF Once
    <3> QED
      BY <2>1, <3>2
  <2>3. CASE i + d \notin DOMAIN s /\ j + d \notin DOMAIN s
    <3>1. /\ (i + d) - Len(s) \in DOMAIN r /\ Word(r[(i + d) - Len(s)]) = w
          /\ (j + d) - Len(s) \in DOMAIN r /\ Word(r[(j + d) - Len(s)]) = w
      BY <1>2, <2>3
    <3>2. (i + d) - Len(s) = (j + d) - Len(s)
      BY <1>4, <3>1 DEF Once
    <3> QED
      BY <1>1, <2>1, <3>2
  <2>4. CASE i + d \in DOMAIN s /\ j + d \notin DOMAIN s
    <3>1. Word(s[i + d]) = w
      BY <1>1, <1>2, <2>1, <2>4
    <3>2. (j + d) - Len(s) \in DOMAIN r /\ Word(r[(j + d) - Len(s)]) = w
      BY <1>2, <2>4
    <3> QED
      BY <1>4, <2>4, <3>1, <3>2 DEF Holds
  <2>5. CASE i + d \notin DOMAIN s /\ j + d \in DOMAIN s
    <3>1. Word(s[j + d]) = w
      BY <1>1, <1>2, <2>1, <2>5, SMTT(30)
    <3>2. (i + d) - Len(s) \in DOMAIN r /\ Word(r[(i + d) - Len(s)]) = w
      BY <1>2, <2>5
    <3> QED
      BY <1>4, <2>5, <3>1, <3>2 DEF Holds
  <2> QED
    BY <2>2, <2>3, <2>4, <2>5
<1>5. ASSUME NEW v, NEW w, NoneBehind(s, v, w), NoneBehind(r, v, w),
             ~(Holds(s, v) /\ Holds(r, w))
      PROVE  NoneBehind(t, v, w)
  <2> SUFFICES ASSUME NEW i \in DOMAIN t, NEW j \in DOMAIN t, i < j, Word(t[i]) = v,
                      Word(t[j]) = w
               PROVE  FALSE
    BY DEF NoneBehind
  <2>1. i \in Nat /\ j \in Nat
    BY <1>1
  <2>2. CASE i + d \in DOMAIN s /\ j + d \in DOMAIN s
    <3>1. Word(s[i + d]) = v /\ Word(s[j + d]) = w
      BY <1>1, <1>2, <2>1, <2>2
    <3>2. i + d < j + d
      BY <2>1
    <3> QED
      BY <1>5, <2>2, <3>1, <3>2 DEF NoneBehind
  <2>3. CASE i + d \notin DOMAIN s /\ j + d \notin DOMAIN s
    <3>1. /\ (i + d) - Len(s) \in DOMAIN r /\ Word(r[(i + d) - Len(s)]) = v
          /\ (j + d) - Len(s) \in DOMAIN r /\ Word(r[(j + d) - Len(s)]) = w
      BY <1>2, <2>3
    <3>2. (i + d) - Len(s) < (j + d) - Len(s)
      BY <1>1, <2>1
    <3> QED
      BY <1>5, <3>1, <3>2 DEF NoneBehind
  <2>4. CASE i + d \in DOMAIN s /\ j + d \notin DOMAIN s
    <3>1. Word(s[i + d]) = v
      BY <1>1, <1>2, <2>1, <2>4
    <3>2. (j + d) - Len(s) \in DOMAIN r /\ Word(r[(j + d) - Len(s)]) = w
      BY <1>2, <2>4
    <3> QED
      BY <1>5, <2>4, <3>1, <3>2 DEF Holds
  <2>5. CASE i + d \notin DOMAIN s /\ j + d \in DOMAIN s
    BY <1>1, <1>2, <2>1, <2>5
  <2> QED
    BY <2>2, <2>3, <2>4, <2>5
<1> QED
  BY <1>3, <1>4, <1>5

\* An empty sequence holds nothing, and one message is alone.
LEMMA FewWords ==
  /\ \A w : ~Holds(<< >>, w) /\ Once(<< >>, w)
  /\ \A v, w : NoneBehind(<< >>, v, w)
  /\ \A m, w : Once(<<m>>, w) /\ (Holds(<<m>>, w) <=> Word(m) = w)
  /\ \A m, v, w : NoneBehind(<<m>>, v, w)
<1>1. DOMAIN << >> = {}
  OBVIOUS
<1>2. \A m : DOMAIN <<m>> = {1} /\ <<m>>[1] = m
  OBVIOUS
<1> QED
  BY <1>1, <1>2 DEF Holds, Once, NoneBehind

\* Two messages, in their order.
LEMMA TwoWords ==
  ASSUME NEW m, NEW n
  PROVE  /\ \A w : Holds(<<m, n>>, w) <=> Word(m) = w \/ Word(n) = w
         /\ \A w : Word(m) # Word(n) => Once(<<m, n>>, w)
         /\ \A v, w : ~(Word(m) = v /\ Word(n) = w) => NoneBehind(<<m, n>>, v, w)
<1>1. DOMAIN <<m, n>> = {1, 2} /\ <<m, n>>[1] = m /\ <<m, n>>[2] = n
  <2>1. 1..2 = {1, 2}
    OBVIOUS
  <2> QED
    BY <2>1
<1> HIDE DEF Word
<1>2. ASSUME NEW v, NEW w, ~(Word(m) = v /\ Word(n) = w) PROVE NoneBehind(<<m, n>>, v, w)
  BY <1>1, <1>2 DEF NoneBehind
<1> QED
  BY <1>1, <1>2 DEF Holds, Once

\* Nothing happens to a line, or it is emptied.
LEMMA FollowsSame ==
  ASSUME NEW S, NEW s \in Seq(S), NEW r \in Seq(S)
  PROVE  Follows(s, s, r) /\ Follows(<< >>, s, r)
<1>1. \A i \in DOMAIN s : i + 0 = i
  OBVIOUS
<1>2. DOMAIN << >> = {}
  OBVIOUS
<1> QED
  BY <1>1, <1>2 DEF Follows

\* Its oldest messages leave.
LEMMA FollowsRest ==
  ASSUME NEW S, NEW s \in Seq(S), NEW r \in Seq(S), NEW n \in Nat
  PROVE  Follows(SubSeq(s, n + 1, Len(s)), s, r)
<1> DEFINE t == SubSeq(s, n + 1, Len(s))
<1>1. n + 1 \in Int /\ Len(s) \in Int /\ Len(s) \in Nat
  OBVIOUS
<1>2. \A i \in (n + 1)..Len(s) : s[i] \in S
  <2>1. \A i \in (n + 1)..Len(s) : i \in 1..Len(s)
    BY <1>1
  <2> QED
    BY <2>1
<1>3. t \in Seq(S)
  BY <1>1, <1>2, SubSeqProperties
<1>4. Len(t) = IF n + 1 <= Len(s) THEN Len(s) - (n + 1) + 1 ELSE 0
  BY <1>1, <1>2, SubSeqProperties
<1>5. \A i \in 1..(Len(s) - (n + 1) + 1) : t[i] = s[(n + 1) + i - 1]
  BY <1>1, <1>2, SubSeqProperties
<1> HIDE DEF t
<1>6. ASSUME NEW i \in DOMAIN t PROVE i + n \in DOMAIN s /\ t[i] = s[i + n]
  <2>1. i \in 1..Len(t) /\ DOMAIN s = 1..Len(s)
    BY <1>3
  <2>2. i \in Nat /\ i >= 1 /\ i <= Len(t) /\ Len(t) = Len(s) - (n + 1) + 1
    <3>1. ASSUME ~(n + 1 <= Len(s)) PROVE FALSE
      <4>1. Len(t) = 0
        BY <1>4, <3>1
      <4> QED
        BY <2>1, <4>1
    <3>2. Len(t) = Len(s) - (n + 1) + 1
      BY <1>4, <3>1
    <3> QED
      BY <1>1, <2>1, <3>2
  <2>3. i \in 1..(Len(s) - (n + 1) + 1) /\ (n + 1) + i - 1 = i + n /\ i + n \in 1..Len(s)
    BY <1>1, <2>2
  <2> QED
    BY <1>5, <2>1, <2>3
<1> QED
  BY <1>6 DEF Follows, t

\* Messages are added, and what does not fit is cut off.
LEMMA FollowsAdded ==
  ASSUME NEW S, NEW s \in Seq(S), NEW r \in Seq(S)
  PROVE  Follows(AtMost(s \o r, LinkCap), s, r)
<1> DEFINE u == s \o r
           t == AtMost(u, LinkCap)
<1>1. u \in Seq(S) /\ Len(u) = Len(s) + Len(r) /\ Len(s) \in Nat /\ Len(r) \in Nat
  BY ConcatProperties
<1>2. \A i \in 1..(Len(s) + Len(r)) : u[i] = IF i <= Len(s) THEN s[i] ELSE r[i - Len(s)]
  BY ConcatProperties
<1> HIDE DEF u
<1>3. DOMAIN s = 1..Len(s) /\ DOMAIN r = 1..Len(r) /\ DOMAIN u = 1..Len(u) /\ LinkCap \in Nat
  BY <1>1, SystemAssumption
<1>4. \A i \in DOMAIN t : i \in DOMAIN u /\ t[i] = u[i]
  <2>1. CASE Len(u) <= LinkCap
    BY <2>1 DEF AtMost
  <2>2. CASE ~(Len(u) <= LinkCap)
    <3> DEFINE c == SubSeq(u, 1, LinkCap)
    <3>1. 1 \in Int /\ LinkCap \in Int /\ \A i \in 1..LinkCap : u[i] \in S
      BY <1>1, <1>3, <2>2
    <3>2. c \in Seq(S)
      BY <3>1, SubSeqProperties
    <3>3. Len(c) = IF 1 <= LinkCap THEN LinkCap - 1 + 1 ELSE 0
      BY <3>1, SubSeqProperties
    <3>4. \A i \in 1..(LinkCap - 1 + 1) : c[i] = u[1 + i - 1]
      BY <3>1, SubSeqProperties
    <3>5. t = c
      BY <2>2 DEF AtMost
    <3> HIDE DEF c, t
    <3>6. ASSUME NEW i \in DOMAIN c PROVE i \in DOMAIN u /\ c[i] = u[i]
      <4>1. i \in 1..Len(c)
        BY <3>2
      <4>2. i \in 1..(LinkCap - 1 + 1) /\ 1 + i - 1 = i /\ i \in 1..Len(u)
        BY <1>1, <1>3, <2>2, <3>3, <4>1
      <4> QED
        BY <1>3, <3>4, <4>2
    <3> QED
      BY <3>5, <3>6
  <2> QED
    BY <2>1, <2>2
<1>5. ASSUME NEW i \in DOMAIN t
      PROVE  \/ i + 0 \in DOMAIN s /\ Word(t[i]) = Word(s[i + 0])
             \/ /\ i + 0 > Len(s) /\ (i + 0) - Len(s) \in DOMAIN r
                /\ Word(t[i]) = Word(r[(i + 0) - Len(s)])
  <2>1. i \in 1..(Len(s) + Len(r)) /\ t[i] = u[i] /\ i + 0 = i
    BY <1>1, <1>3, <1>4
  <2>2. CASE i <= Len(s)
    BY <1>2, <1>3, <2>1, <2>2
  <2>3. CASE ~(i <= Len(s))
    <3>1. i - Len(s) \in 1..Len(r) /\ i > Len(s)
      BY <1>1, <2>1, <2>3
    <3> QED
      BY <1>2, <1>3, <2>1, <2>3, <3>1
  <2> QED
    BY <2>2, <2>3
<1> QED
  BY <1>5 DEF Follows, t, u


\* The oldest or the youngest message is lost, or a message keeps its word.
LEMMA FollowsLoss ==
  ASSUME NEW S, NEW s \in Seq(S), s # << >>, NEW r \in Seq(S)
  PROVE  /\ Follows(Tail(s), s, r) /\ Follows(Front(s), s, r)
         /\ \A w : (w = Word(Head(s)) /\ Once(s, w)) => ~Holds(Tail(s), w)
         /\ Holds(s, Word(Head(s)))
<1>1. /\ Len(s) \in Nat /\ Len(s) >= 1 /\ DOMAIN s = 1..Len(s) /\ Head(s) = s[1]
  OBVIOUS
<1>2. /\ Tail(s) \in Seq(S) /\ Len(Tail(s)) = Len(s) - 1
      /\ \A i \in 1..Len(Tail(s)) : Tail(s)[i] = s[i + 1]
  BY HeadTailProperties
<1>3. ASSUME NEW i \in DOMAIN Tail(s)
      PROVE  i + 1 \in DOMAIN s /\ Tail(s)[i] = s[i + 1] /\ i + 1 # 1
  <2>1. i \in 1..(Len(s) - 1)
    BY <1>2
  <2> QED
    BY <1>1, <1>2, <2>1
<1>4. Follows(Tail(s), s, r)
  BY <1>3 DEF Follows
<1>5. Follows(Front(s), s, r)
  <2>1. Front(s) = SubSeq(s, 1, Len(s) - 1)
    BY DEF Front
  <2>2. 1 \in Int /\ Len(s) - 1 \in Int /\ \A i \in 1..(Len(s) - 1) : s[i] \in S
    BY <1>1
  <2>3. SubSeq(s, 1, Len(s) - 1) \in Seq(S)
    BY <2>2, SubSeqProperties
  <2>4. Len(SubSeq(s, 1, Len(s) - 1)) = IF 1 <= Len(s) - 1 THEN Len(s) - 1 - 1 + 1 ELSE 0
    BY <2>2, SubSeqProperties
  <2>5. \A i \in 1..(Len(s) - 1 - 1 + 1) : SubSeq(s, 1, Len(s) - 1)[i] = s[1 + i - 1]
    BY <2>2, SubSeqProperties
  <2>6. Len(Front(s)) = Len(s) - 1 /\ Front(s) \in Seq(S)
    BY <1>1, <2>1, <2>3, <2>4
  <2>7. ASSUME NEW i \in DOMAIN Front(s) PROVE i + 0 \in DOMAIN s /\ Front(s)[i] = s[i + 0]
    <3>1. i \in 1..(Len(s) - 1)
      BY <2>6
    <3>2. i \in 1..(Len(s) - 1 - 1 + 1) /\ 1 + i - 1 = i /\ i + 0 = i /\ i \in 1..Len(s)
      BY <1>1, <3>1
    <3> QED
      BY <1>1, <2>1, <2>5, <3>2
  <2> QED
    BY <2>7 DEF Follows
<1>6. ASSUME NEW w, w = Word(Head(s)), Once(s, w), Holds(Tail(s), w) PROVE FALSE
  <2>1. PICK i \in DOMAIN Tail(s) : Word(Tail(s)[i]) = w
    BY <1>6 DEF Holds
  <2>2. i + 1 \in DOMAIN s /\ Word(s[i + 1]) = w /\ i + 1 # 1
    BY <1>3, <2>1
  <2>3. 1 \in DOMAIN s /\ Word(s[1]) = w
    BY <1>1, <1>6
  <2> QED
    BY <1>6, <2>2, <2>3 DEF Once
<1>7. Holds(s, Word(Head(s)))
  BY <1>1 DEF Holds
<1> QED
  BY <1>4, <1>5, <1>6, <1>7

\* One message of a line is exchanged for another with the same word.
LEMMA FollowsChange ==
  ASSUME NEW S, NEW s \in Seq(S), NEW n \in DOMAIN s, NEW m, Word(m) = Word(s[n]), NEW r \in Seq(S)
  PROVE  Follows([s EXCEPT ![n] = m], s, r)
<1> DEFINE t == [s EXCEPT ![n] = m]
<1>1. DOMAIN t = DOMAIN s /\ DOMAIN s = 1..Len(s)
  OBVIOUS
<1>2. ASSUME NEW i \in DOMAIN t PROVE i + 0 \in DOMAIN s /\ Word(t[i]) = Word(s[i + 0])
  <2>1. i \in DOMAIN s /\ i + 0 = i
    BY <1>1
  <2>2. CASE i = n
    BY <2>1, <2>2
  <2>3. CASE i # n
    BY <2>1, <2>3
  <2> QED
    BY <2>2, <2>3
<1> QED
  BY <1>2 DEF Follows


-----------------------------------------------------------------------------
(* What the words on the lines say about the device.                       *)

Sending == {"ST_V1ProgramUpload", "ST_V1ProgramValidate"}

\* At most one question v and one answer w, and not both.
Asked(D, H, v, w) == Once(D, v) /\ Once(H, w) /\ ~(Holds(D, v) /\ Holds(H, w))

\* A loading device has not stored what it has not asked for yet.
Unfilled(d) == d.mode = "loading" => \A i \in Places : i >= d.next => d.image[i] = Blank

\* The host in state st with the texts A, the device d and the lines D to it and
\* H from it: what belongs to one state of the host is on the lines in that state
\* only, an erasure is asked for once and before anything is reported, and what
\* the host would take for a good end is true.
Sound(st, A, said, d, D, H) ==
  /\ Holds(D, "updateRequest") \/ Holds(H, "updateResponse") => st = "ST_V3ProgramSync"
  /\ Holds(D, "sync") \/ Holds(H, "ready") => st = "ST_V1ProgramSync"
  /\ Holds(D, "header") \/ Holds(D, "page") \/ Holds(H, "valid") => st \in Sending \cup {"ST_Init"}
  /\ Asked(D, H, "updateRequest", "updateResponse")
  /\ Asked(D, H, "sync", "ready")
  /\ Once(D, "header")
  /\ Holds(D, "header") => /\ d.mode # "loading"
                           /\ ~Holds(H, "valid")
                           /\ st \in Sending => ~Holds(A, "valid")
  /\ Holds(H, "ready") => d.mode # "loading"
  /\ st = "ST_V1ProgramSync" => ~Holds(A, "ready")
  /\ Holds(H, "valid") => GoodImage(d)
  /\ st \in Sending /\ Holds(A, "valid") => GoodImage(d)
  /\ st \in {"ST_V3ProgramUpload", "ST_V3ProgramWaitID"} /\ Holds(H, "idOk") => GoodImage(d)
  /\ NoneBehind(H, "updateResponse", "idOk") \/ GoodImage(d)
  /\ said \in {"written", "finishedOk"} =>
       /\ GoodImage(d) /\ ~Holds(D, "header")
       /\ st \in {"ST_V1ProgramValidate", "ST_V3ProgramWaitID"}
  /\ Unfilled(d)

\* The device d becomes e and says r, on the word k or, for "none", by itself: it
\* is erased only by a header or an update request, and reports a good image only
\* when it has one.
Effect(d, k, e, r) ==
  /\ Holds(r, "updateResponse") => k = "updateRequest"
  /\ Holds(r, "ready") => k = "sync" /\ e.mode # "loading"
  /\ Holds(r, "valid") => k = "page" /\ d.mode = "loading" /\ GoodImage(e)
  /\ Holds(r, "idOk") => GoodImage(e)
  /\ Once(r, "updateResponse") /\ Once(r, "ready")
  /\ NoneBehind(r, "updateResponse", "idOk")
  /\ GoodImage(d) /\ ~GoodImage(e) => k \in {"updateRequest", "header"}
  /\ e.mode = "loading" => d.mode = "loading" \/ k \in {"updateRequest", "header"}
  /\ Unfilled(e)

\* A loading device does not hold the firmware.
LEMMA LoadingIsPartial ==
  ASSUME NEW d, DeviceOK(d), Unfilled(d), d.mode = "loading"
  PROVE  ~GoodImage(d)
<1>1. d.next \in Places /\ d.image[d.next] = Blank
  BY DeviceAssumption DEF DeviceOK, DeviceRec, Places, Unfilled
<1>2. Blank # d.next
  BY <1>1, DeviceAssumption DEF Blank, Places
<1> QED
  BY <1>1, <1>2 DEF GoodImage

\* A device that keeps what it holds and says nothing of weight.
LEMMA HarmlessEffect ==
  ASSUME NEW d, NEW k, NEW e, NEW r, Unfilled(e), GoodImage(d) => GoodImage(e),
         e.mode = "loading" => d.mode = "loading",
         \A w \in {"updateResponse", "ready", "valid"} : ~Holds(r, w),
         Holds(r, "idOk") => GoodImage(e)
  PROVE  Effect(d, k, e, r)
<1>1. ASSUME NEW w, ~Holds(r, w) PROVE Once(r, w) /\ NoneBehind(r, w, "idOk")
  BY <1>1 DEF Holds, Once, NoneBehind
<1> QED
  BY <1>1 DEF Effect

\* The words of single answers.
LEMMA AnswerWords ==
  /\ \A d : Word(Identify(d)) = IF d.v3 THEN (IF GoodImage(d) THEN "idOk" ELSE "idBad") ELSE "id"
  /\ \A d : Word(Request(d)) \in {"dataRequest", "get"}
  /\ \A k : k # "idResponse" => Word([kind |-> k]) = k
  /\ Word([kind |-> "updateResponse", success |-> TRUE]) = "updateResponse"
  BY DEF Word, Identify, Request

\* Storing ends with the truth about the image.
LEMMA StoredEffect ==
  ASSUME NEW d, d \in DeviceRec, Unfilled(d), d.mode = "loading"
  PROVE  LET a == Stored(d)
         IN  /\ Unfilled(a.dev) /\ (GoodImage(d) <=> GoodImage(a.dev))
             /\ \A w \in {"updateResponse", "ready"} : ~Holds(a.reply, w)
             /\ Holds(a.reply, "valid") => GoodImage(a.dev)
             /\ Holds(a.reply, "idOk") => GoodImage(a.dev)
<1>1. ASSUME NEW md \in {"app", "boot"}
      PROVE  LET e == [d EXCEPT !.mode = md, !.next = 0]
             IN  Unfilled(e) /\ (GoodImage(d) <=> GoodImage(e)) /\ e.v3 = d.v3
  <2> DEFINE e == [d EXCEPT !.mode = md, !.next = 0]
  <2>1. e.mode = md /\ e.image = d.image /\ e.v3 = d.v3
    BY DEF DeviceRec
  <2> HIDE DEF e
  <2>2. Unfilled(e) /\ (GoodImage(d) <=> GoodImage(e)) /\ e.v3 = d.v3
    BY <2>1 DEF Unfilled, GoodImage
  <2> QED
    BY <2>2 DEF e
<1>2. ASSUME NEW m, NEW w PROVE Holds(<<m>>, w) <=> Word(m) = w
  BY FewWords
<1>3. CASE d.next < ImageSize
  <2>1. Stored(d).dev = d /\ Stored(d).reply = <<Request(d)>>
    BY <1>3 DEF Stored, Answer
  <2> QED
    BY <1>2, <2>1, AnswerWords
<1>4. CASE ~(d.next < ImageSize) /\ d.v3
  <2>1. Stored(d).dev = [d EXCEPT !.mode = "app", !.next = 0] /\ Stored(d).reply = <<Identify(d)>>
    BY <1>4 DEF Stored, Answer
  <2> QED
    BY <1>1, <1>2, <2>1, AnswerWords
<1>5. CASE ~(d.next < ImageSize) /\ ~d.v3 /\ GoodImage(d)
  <2>1. /\ Stored(d).dev = [d EXCEPT !.mode = "app", !.next = 0]
        /\ Stored(d).reply = <<[kind |-> "valid"]>>
    BY <1>5 DEF Stored, Answer
  <2> QED
    BY <1>1, <1>2, <1>5, <2>1, AnswerWords
<1>6. CASE ~(d.next < ImageSize) /\ ~d.v3 /\ ~GoodImage(d)
  <2>1. /\ Stored(d).dev = [d EXCEPT !.mode = "boot", !.next = 0]
        /\ Stored(d).reply = <<[kind |-> "invalid"]>>
    BY <1>6 DEF Stored, Answer
  <2> QED
    BY <1>1, <1>2, <2>1, AnswerWords
<1> QED
  BY <1>3, <1>4, <1>5, <1>6


\* A stored page or block has the effect of what it may complete.
LEMMA StoresEffect ==
  ASSUME NEW d, DeviceOK(d), Unfilled(d), d.mode = "loading"
  PROVE  /\ \A p \in Nat : LET a == StorePage(d, p) IN Effect(d, "page", a.dev, a.reply)
         /\ \A m \in Output : (m.kind = "data" /\ d.v3) =>
              LET a == StoreBlock(d, m) IN Effect(d, "data", a.dev, a.reply)
<1>0. /\ d.next \in Nat /\ d.next + 1 \in 0..ImageSize /\ d.image \in [Places -> Content]
      /\ d \in DeviceRec
  BY DeviceAssumption DEF DeviceOK, DeviceRec, Content
<1>1. ~GoodImage(d)
  BY LoadingIsPartial
<1>2. ASSUME NEW e, e \in DeviceRec, Unfilled(e), e.mode = "loading"
      PROVE  LET a == Stored(e)
             IN  /\ Effect(d, "page", a.dev, a.reply)
                 /\ e.v3 => Effect(d, "data", a.dev, a.reply)
  <2> DEFINE a == Stored(e)
  <2>1. /\ Unfilled(a.dev)
        /\ \A w \in {"updateResponse", "ready"} : ~Holds(a.reply, w)
        /\ Holds(a.reply, "valid") => GoodImage(a.dev)
        /\ Holds(a.reply, "idOk") => GoodImage(a.dev)
    BY <1>2, StoredEffect
  <2>2. e.v3 => ~Holds(a.reply, "valid")
    <3> SUFFICES ASSUME e.v3 PROVE ~Holds(a.reply, "valid")
      OBVIOUS
    <3>1. a.reply \in {<<Request(e)>>, <<Identify(e)>>}
      BY DEF Stored, Answer
    <3> QED
      BY <3>1, AnswerWords, FewWords
  <2> HIDE DEF a
  <2>3. ASSUME NEW w, ~Holds(a.reply, w) PROVE Once(a.reply, w) /\ NoneBehind(a.reply, w, "idOk")
    BY <2>3 DEF Holds, Once, NoneBehind
  <2>4. Effect(d, "page", a.dev, a.reply)
    BY <1>1, <2>1, <2>3 DEF Effect
  <2>5. e.v3 => Effect(d, "data", a.dev, a.reply)
    BY <1>1, <2>1, <2>2, <2>3 DEF Effect
  <2> QED
    BY <2>4, <2>5 DEF a
<1>3. ASSUME NEW p \in Nat PROVE LET a == StorePage(d, p) IN Effect(d, "page", a.dev, a.reply)
  <2> DEFINE im == [d.image EXCEPT ![d.next] = Smaller(p, Junk)]
             e == [d EXCEPT !.image[d.next] = Smaller(p, Junk), !.next = @ + 1]
  <2>1. Smaller(p, Junk) \in Content
    BY DeviceAssumption DEF Smaller, Junk, Content, Places
  <2>2. im \in [Places -> Content] /\ \A i \in Places : i # d.next => im[i] = d.image[i]
    BY <1>0, <2>1
  <2>3. e = [[d EXCEPT !.image = im] EXCEPT !.next = d.next + 1]
    BY DEF DeviceOK, DeviceRec
  <2> HIDE DEF im
  <2>4. e \in DeviceRec /\ e.mode = "loading" /\ e.image = im /\ e.next = d.next + 1
    BY <1>0, <2>2, <2>3 DEF DeviceOK, DeviceRec, Content
  <2>5. StorePage(d, p) = Stored(e)
    BY DEF StorePage
  <2> HIDE DEF e
  <2>6. Unfilled(e)
    <3>1. \A i \in Places : i >= d.next + 1 => i # d.next /\ i >= d.next
      BY <1>0 DEF Places
    <3> QED
      BY <2>2, <2>4, <3>1 DEF Unfilled
  <2> QED
    BY <1>2, <2>4, <2>5, <2>6
<1>4. ASSUME NEW m \in Output, m.kind = "data", d.v3
      PROVE  LET a == StoreBlock(d, m) IN Effect(d, "data", a.dev, a.reply)
  <2>1. CASE m.status = 0 /\ m.offset = d.next /\ m.length > 0
    <3> DEFINE im == [i \in Places |-> IF i \in d.next..(d.next + m.length - 1)
                                       THEN i ELSE d.image[i]]
               e == [d EXCEPT !.image = [i \in Places |-> IF i \in d.next..(d.next + m.length - 1)
                                                          THEN i ELSE @[i]],
                              !.next = @ + m.length]
    <3>1. d.next + m.length \in 0..ImageSize /\ m.length \in Nat
      BY <1>0, <1>4, <2>1, OutputKinds, SystemAssumption, DeviceAssumption
    <3>2. im \in [Places -> Content]
      BY <1>0 DEF Content
    <3>6. \A i \in Places : i >= d.next + m.length => im[i] = d.image[i] /\ i >= d.next
      BY <1>0, <3>1 DEF Places
    <3>3. e = [[d EXCEPT !.image = im] EXCEPT !.next = d.next + m.length]
      BY DEF DeviceOK, DeviceRec
    <3> HIDE DEF im
    <3>4. /\ e \in DeviceRec /\ e.mode = "loading" /\ e.image = im
          /\ e.next = d.next + m.length /\ e.v3 = d.v3
      BY <1>0, <3>1, <3>2, <3>3 DEF DeviceOK, DeviceRec, Content
    <3>5. StoreBlock(d, m) = Stored(e)
      BY <2>1 DEF StoreBlock
    <3> HIDE DEF e
    <3>7. Unfilled(e)
      BY <3>4, <3>6 DEF Unfilled
    <3> QED
      BY <1>2, <1>4, <3>4, <3>5, <3>7
  <2>2. CASE ~(m.status = 0 /\ m.offset = d.next /\ m.length > 0)
    <3>1. StoreBlock(d, m).dev = d /\ StoreBlock(d, m).reply = << >>
      BY <2>2 DEF StoreBlock, Silent, Answer
    <3> QED
      BY <3>1, FewWords, HarmlessEffect
  <2> QED
    BY <2>1, <2>2
<1> QED
  BY <1>3, <1>4

\* Erasing leaves nothing filled.
LEMMA ErasedUnfilled ==
  ASSUME NEW d, d \in DeviceRec
  PROVE  Unfilled(Erased(d)) /\ Erased(d).v3 = d.v3
<1> DEFINE im == [i \in Places |-> Blank]
<1>1. \A i \in Places : im[i] = Blank
  OBVIOUS
<1>2. Erased(d) = [d EXCEPT !.mode = "loading", !.next = 0, !.image = im]
  BY DEF Erased
<1> HIDE DEF im
<1>3. Erased(d).image = im /\ Erased(d).v3 = d.v3
  BY <1>2 DEF DeviceRec
<1> QED
  BY <1>1, <1>3 DEF Unfilled

\* The device in another mode that is not loading.
LEMMA ModeEffect ==
  ASSUME NEW d \in DeviceRec, NEW md, md # "loading", NEW k, NEW r,
         \A w \in {"updateResponse", "ready", "valid"} : ~Holds(r, w),
         Holds(r, "idOk") => GoodImage(d)
  PROVE  Effect(d, k, [d EXCEPT !.mode = md], r) /\ Effect(d, k, [d EXCEPT !.mode = md, !.next = 0], r)
<1>1. ASSUME NEW e, e.mode = md, e.image = d.image PROVE Effect(d, k, e, r)
  <2>1. Unfilled(e) /\ (GoodImage(d) <=> GoodImage(e))
    BY <1>1 DEF Unfilled, GoodImage
  <2> QED
    BY <1>1, <2>1, HarmlessEffect
<1>2. /\ [d EXCEPT !.mode = md].mode = md /\ [d EXCEPT !.mode = md].image = d.image
      /\ [d EXCEPT !.mode = md, !.next = 0].mode = md
      /\ [d EXCEPT !.mode = md, !.next = 0].image = d.image
  BY DEF DeviceRec
<1> QED
  BY <1>1, <1>2

\* What the device does with a command has an effect of this kind.
LEMMA DeviceEffect ==
  ASSUME NEW d, DeviceOK(d), Unfilled(d), NEW m \in Output
  PROVE  LET a == DeviceReceives(d, m) IN Effect(d, Word(m), a.dev, a.reply)
<1> DEFINE Fits(a) == Effect(d, Word(m), a.dev, a.reply)
<1>0. d \in DeviceRec /\ Word(m) = m.kind
  BY DEF DeviceOK, Word, Output, DataAnswers
<1>a. ASSUME NEW n, NEW w PROVE Holds(<<n>>, w) <=> Word(n) = w
  BY FewWords
<1>b. ASSUME NEW e, NEW r PROVE Answer(e, r).dev = e /\ Answer(e, r).reply = r
  BY DEF Answer
<1>c. ASSUME NEW e, NEW r, Effect(d, Word(m), e, r) PROVE Fits(Answer(e, r))
  BY <1>b, <1>c
<1> HIDE DEF Fits
<1>1. Fits(Silent(d))
  BY <1>c, FewWords, HarmlessEffect DEF Silent
<1>2. Fits(Answer(d, <<Identify(d)>>)) /\ Fits(Answer(d, <<[kind |-> "other"]>>))
  <2>1. Effect(d, Word(m), d, <<Identify(d)>>)
    BY <1>a, AnswerWords, HarmlessEffect
  <2>2. Effect(d, Word(m), d, <<[kind |-> "other"]>>)
    BY <1>a, AnswerWords, HarmlessEffect
  <2> QED
    BY <1>c, <2>1, <2>2
<1>3. /\ Fits(Silent([d EXCEPT !.mode = "rebooting"]))
      /\ Fits(Answer([d EXCEPT !.mode = "rebooting"], <<[kind |-> "watchdogWritten"]>>))
  <2>1. Effect(d, Word(m), [d EXCEPT !.mode = "rebooting"], << >>)
    BY <1>0, FewWords, ModeEffect
  <2>2. Effect(d, Word(m), [d EXCEPT !.mode = "rebooting"], <<[kind |-> "watchdogWritten"]>>)
    <3> DEFINE r == <<[kind |-> "watchdogWritten"]>>
    <3>1. \A w : Holds(r, w) <=> w = "watchdogWritten"
      BY <1>a, AnswerWords
    <3> HIDE DEF r
    <3> QED
      BY <1>0, <3>1, ModeEffect DEF r
  <2> QED
    BY <1>c, <2>1, <2>2 DEF Silent
<1>4. m.kind = "sync" => Fits(Answer([d EXCEPT !.mode = "synced"],
                                     <<[kind |-> "ready"], [kind |-> "eol"]>>))
  <2> SUFFICES ASSUME m.kind = "sync"
               PROVE  Fits(Answer([d EXCEPT !.mode = "synced"],
                                  <<[kind |-> "ready"], [kind |-> "eol"]>>))
    OBVIOUS
  <2> DEFINE e == [d EXCEPT !.mode = "synced"]
             p == [kind |-> "ready"]
             q == [kind |-> "eol"]
             r == <<p, q>>
  <2>1. Word(p) = "ready" /\ Word(q) = "eol"
    BY AnswerWords
  <2>2. e.mode = "synced" /\ e.image = d.image
    BY <1>0 DEF DeviceRec
  <2>3. Unfilled(e) /\ (GoodImage(d) <=> GoodImage(e))
    BY <2>2 DEF Unfilled, GoodImage
  <2> HIDE DEF e, p, q
  <2>4. /\ \A w : Holds(r, w) <=> Word(p) = w \/ Word(q) = w
        /\ \A w : Word(p) # Word(q) => Once(r, w)
        /\ \A v, w : ~(Word(p) = v /\ Word(q) = w) => NoneBehind(r, v, w)
    BY TwoWords
  <2> HIDE DEF r
  <2>5. Effect(d, Word(m), e, r)
    BY <1>0, <2>1, <2>2, <2>3, <2>4 DEF Effect
  <2>6. Fits(Answer(e, r))
    BY <1>c, <2>5
  <2> QED
    BY <2>6 DEF e, p, q, r
<1>5. m.kind = "header" => Fits(Answer(Erased(d), <<Request(Erased(d))>>))
  <2> SUFFICES ASSUME m.kind = "header" PROVE Fits(Answer(Erased(d), <<Request(Erased(d))>>))
    OBVIOUS
  <2> DEFINE r == <<Request(Erased(d))>>
  <2>1. \A w : Holds(r, w) <=> Word(Request(Erased(d))) = w
    BY <1>a
  <2>2. \A v, w : Once(r, w) /\ NoneBehind(r, v, w)
    BY FewWords
  <2> HIDE DEF r
  <2>3. Word(Request(Erased(d))) \in {"dataRequest", "get"}
    BY AnswerWords
  <2>4. Effect(d, Word(m), Erased(d), r)
    BY <1>0, <2>1, <2>2, <2>3, ErasedUnfilled DEF Effect
  <2> QED
    BY <1>c, <2>4 DEF r
<1>6. m.kind = "updateRequest" => Fits(Answer(Erased(d), <<[kind |-> "updateResponse", success |-> TRUE],
                                                         Request(Erased(d))>>))
  <2> SUFFICES ASSUME m.kind = "updateRequest"
               PROVE  Fits(Answer(Erased(d), <<[kind |-> "updateResponse", success |-> TRUE],
                                               Request(Erased(d))>>))
    OBVIOUS
  <2> DEFINE p == [kind |-> "updateResponse", success |-> TRUE]
             q == Request(Erased(d))
             r == <<p, q>>
  <2>1. Word(p) = "updateResponse" /\ Word(q) \in {"dataRequest", "get"}
    BY AnswerWords
  <2> HIDE DEF p, q
  <2>4. /\ \A w : Holds(r, w) <=> Word(p) = w \/ Word(q) = w
        /\ \A w : Word(p) # Word(q) => Once(r, w)
        /\ \A v, w : ~(Word(p) = v /\ Word(q) = w) => NoneBehind(r, v, w)
    BY TwoWords
  <2> HIDE DEF r
  <2>5. Effect(d, Word(m), Erased(d), r)
    BY <1>0, <2>1, <2>4, ErasedUnfilled DEF Effect
  <2>6. Fits(Answer(Erased(d), r))
    BY <1>c, <2>5
  <2> QED
    BY <2>6 DEF p, q, r
<1>7. Fits(InApp(d, m))
  BY <1>1, <1>2, <1>3 DEF InApp
<1>8. Fits(InV1Bootloader(d, m))
  <2>1. (m.kind = "page" /\ d.mode = "loading") => Fits(StorePage(d, m.page))
    BY <1>0, OutputKinds, StoresEffect DEF Fits
  <2> QED
    BY <1>1, <1>2, <1>4, <1>5, <2>1 DEF InV1Bootloader
<1>9. d.v3 => Fits(InV3Bootloader(d, m))
  <2>1. (m.kind = "data" /\ d.mode = "loading" /\ d.v3) => Fits(StoreBlock(d, m))
    BY <1>0, StoresEffect DEF Fits
  <2> QED
    BY <1>1, <1>2, <1>6, <2>1 DEF InV3Bootloader
<1>10. Fits(DeviceReceives(d, m))
  BY <1>1, <1>3, <1>7, <1>8, <1>9 DEF DeviceReceives
<1> QED
  BY <1>10 DEF Fits


\* Whatever the device does on a word it reads or by itself, the host unmoved,
\* and whatever is lost on the way, the lines stay sound.
LEMMA DeviceMoves ==
  ASSUME NEW S, NEW T, NEW st, NEW A, NEW said, NEW d, NEW e, NEW k, NEW r \in Seq(S),
         NEW D \in Seq(T), NEW H \in Seq(S), NEW D2 \in Seq(T), NEW H2 \in Seq(S),
         Sound(st, A, said, d, D, H), Effect(d, k, e, r),
         Follows(D2, D, << >>), Follows(H2, H, r),
         k # "none" => Holds(D, k) /\ (Once(D, k) => ~Holds(D2, k))
  PROVE  Sound(st, A, said, e, D2, H2)
<1>1. /\ \A w : Holds(D2, w) => Holds(D, w)
      /\ \A w : Once(D, w) => Once(D2, w)
  <2> DEFINE n == << >>
  <2>1. n \in Seq(T) /\ (\A w : ~Holds(n, w) /\ Once(n, w)) /\ Follows(D2, D, n)
    BY FewWords
  <2> HIDE DEF n
  <2> QED
    BY <2>1, FollowsKeeps
<1>2. /\ \A w : Holds(H2, w) => Holds(H, w) \/ Holds(r, w)
      /\ \A w : Once(H, w) /\ Once(r, w) /\ ~(Holds(H, w) /\ Holds(r, w)) => Once(H2, w)
      /\ \A v, w : NoneBehind(H, v, w) /\ NoneBehind(r, v, w) /\ ~(Holds(H, v) /\ Holds(r, w))
           => NoneBehind(H2, v, w)
  BY FollowsKeeps
<1>3. /\ k \in {"updateRequest", "sync", "header", "page"} => Holds(D, k)
      /\ k \in {"updateRequest", "sync", "header"} => ~Holds(D2, k)
  BY DEF Sound, Asked
<1>4. Asked(D2, H2, "updateRequest", "updateResponse") /\ Asked(D2, H2, "sync", "ready")
  BY <1>1, <1>2, <1>3 DEF Sound, Asked, Effect
<1>5. /\ Holds(D2, "updateRequest") \/ Holds(H2, "updateResponse") => st = "ST_V3ProgramSync"
      /\ Holds(D2, "sync") \/ Holds(H2, "ready") => st = "ST_V1ProgramSync"
      /\ Holds(D2, "header") \/ Holds(D2, "page") \/ Holds(H2, "valid")
           => st \in Sending \cup {"ST_Init"}
      /\ Once(D2, "header")
  BY <1>1, <1>2, <1>3 DEF Sound, Effect
<1>6. Holds(D2, "header") => /\ e.mode # "loading"
                             /\ ~Holds(H2, "valid")
                             /\ st \in Sending => ~Holds(A, "valid")
  BY <1>1, <1>2, <1>3 DEF Sound, Effect, Sending
<1>7. Holds(H2, "ready") => e.mode # "loading"
  BY <1>1, <1>2, <1>3 DEF Sound, Effect, Sending
<1>8. CASE GoodImage(d) /\ ~GoodImage(e)
  <2>1. k \in {"updateRequest", "header"}
    BY <1>8 DEF Effect
  <2>2. ~Holds(H2, "valid") /\ ~(st \in Sending /\ Holds(A, "valid"))
        /\ ~(said \in {"written", "finishedOk"})
        /\ ~(st \in {"ST_V3ProgramUpload", "ST_V3ProgramWaitID"})
    BY <1>2, <1>3, <1>8, <2>1 DEF Sound, Effect, Sending
  <2>3. ~Holds(H, "updateResponse")
    BY <1>3, <2>1 DEF Sound, Asked, Sending
  <2>4. NoneBehind(H, "updateResponse", "idOk")
    BY <2>3 DEF NoneBehind, Holds
  <2>5. NoneBehind(H2, "updateResponse", "idOk")
    BY <1>2, <2>3, <2>4 DEF Effect
  <2> QED
    BY <1>4, <1>5, <1>6, <1>7, <2>2, <2>5 DEF Sound, Effect
<1>9. CASE GoodImage(d) => GoodImage(e)
  <2>1. /\ Holds(H2, "valid") => GoodImage(e)
        /\ st \in Sending /\ Holds(A, "valid") => GoodImage(e)
        /\ st \in {"ST_V3ProgramUpload", "ST_V3ProgramWaitID"} /\ Holds(H2, "idOk") => GoodImage(e)
    BY <1>2, <1>9 DEF Sound, Effect
  <2>2. NoneBehind(H2, "updateResponse", "idOk") \/ GoodImage(e)
    BY <1>2, <1>9 DEF Sound, Effect
  <2>3. said \in {"written", "finishedOk"} =>
          /\ GoodImage(e) /\ ~Holds(D2, "header")
          /\ st \in {"ST_V1ProgramValidate", "ST_V3ProgramWaitID"}
    BY <1>1, <1>9 DEF Sound
  <2> QED
    BY <1>4, <1>5, <1>6, <1>7, <2>1, <2>2, <2>3 DEF Sound, Effect
<1> QED
  BY <1>8, <1>9


\* The lines of the session are sound, and empty before the program is started.
SoundNow == Sound(h.state, h.ascii, h.said, dev, toDev, toHost)
AtStart  == loop = "start" => toDev = << >> /\ toHost = << >> /\ h.fd = 0

\* What is delivered is added to the line, cut off or not delivered.
LEMMA DeliverFollows ==
  ASSUME SysInv, NEW s \in Seq(Input), Deliver(s)
  PROVE  Follows(toHost', toHost, s)
<1>1. toHost \in Seq(Input)
  BY DEF SysInv, LineOK
<1> QED
  BY <1>1, FollowsAdded, FollowsSame DEF Deliver

\* The device, the line and the faults keep the lines sound.
LEMMA DeviceStepSound ==
  ASSUME SysInv, SysInv', SoundNow, DeviceStep \/ Reboot \/ DeviceGivesUp \/ Fault
  PROVE  SoundNow'
<1>0. /\ toDev \in Seq(Output) /\ toHost \in Seq(Input) /\ DeviceOK(dev) /\ dev \in DeviceRec
      /\ toDev' \in Seq(Output) /\ toHost' \in Seq(Input) /\ << >> \in Seq(Input)
      /\ << >> \in Seq(Output)
  BY DEF SysInv, LineOK, DeviceOK
<1>a. h' = h
  BY DEF DeviceStep, Reboot, DeviceGivesUp, Fault, Restart, Repeat, Lose, Corrupt, Unplug, Die
<1>b. ASSUME NEW k, NEW r \in Seq(Input), Effect(dev, k, dev', r),
             Follows(toDev', toDev, << >>), Follows(toHost', toHost, r),
             k # "none" => Holds(toDev, k) /\ (Once(toDev, k) => ~Holds(toDev', k))
      PROVE  SoundNow'
  BY <1>0, <1>a, <1>b, DeviceMoves DEF SoundNow
<1>c. /\ Unfilled(dev)
      /\ Effect(dev, "none", dev, << >>)
      /\ \A md \in {"rebooting", "gone", "dead"} :
           Effect(dev, "none", [dev EXCEPT !.mode = md], << >>)
  <2>1. Unfilled(dev)
    BY DEF SoundNow, Sound
  <2>2. \A w : ~Holds(<< >>, w)
    BY FewWords
  <2> QED
    BY <1>0, <2>1, <2>2, HarmlessEffect, ModeEffect
<1>d. /\ Follows(toDev, toDev, << >>) /\ Follows(<< >>, toDev, << >>)
      /\ \A r \in Seq(Input) : Follows(toHost, toHost, r) /\ Follows(<< >>, toHost, r)
  BY <1>0, FollowsSame
<1>1. CASE DeviceStep
  <2> DEFINE a == DeviceReceives(dev, Head(toDev))
  <2>1. toDev # << >> /\ dev' = a.dev /\ Deliver(a.reply) /\ toDev' = Tail(toDev)
    BY <1>1 DEF DeviceStep
  <2>2. Head(toDev) \in Output
    BY <1>0, <2>1
  <2>3. AnswerOK(a) /\ Effect(dev, Word(Head(toDev)), a.dev, a.reply)
    BY <1>0, <1>c, <2>2, DeviceTyped, DeviceEffect
  <2> HIDE DEF a
  <2>4. a.reply \in Seq(Input) /\ Follows(toHost', toHost, a.reply)
    BY <2>1, <2>3, DeliverFollows DEF AnswerOK
  <2> DEFINE k == Word(Head(toDev))
  <2>5. /\ Follows(toDev', toDev, << >>)
        /\ Holds(toDev, k) /\ (Once(toDev, k) => ~Holds(toDev', k))
    BY <1>0, <2>1, FollowsLoss
  <2>6. Effect(dev, k, dev', a.reply)
    BY <2>1, <2>3
  <2> HIDE DEF k
  <2> QED
    BY <1>b, <2>4, <2>5, <2>6
<1>2. CASE Reboot
  <2> DEFINE r == <<Identify(dev)>>
  <2>1. dev' = [dev EXCEPT !.mode = "boot", !.next = 0]
    BY <1>2 DEF Reboot
  <2>2. r \in Seq(Input)
    BY <1>0, WordsTyped
  <2>3. \A w : Holds(r, w) <=> Word(Identify(dev)) = w
    BY FewWords
  <2>4. Deliver(r) => Follows(toHost', toHost, r)
    BY <2>2, DeliverFollows
  <2>5. Follows(toDev', toDev, << >>) /\ Follows(toHost', toHost, r)
    BY <1>2, <1>d, <2>2, <2>4 DEF Reboot
  <2> HIDE DEF r
  <2>6. Effect(dev, "none", dev', r)
    BY <1>0, <2>1, <2>3, AnswerWords, ModeEffect
  <2> QED
    BY <1>b, <2>2, <2>5, <2>6
<1>3. CASE DeviceGivesUp \/ Restart \/ Die \/ Unplug
  <2>1. \E md \in {"rebooting", "gone", "dead"} : dev' = [dev EXCEPT !.mode = md]
    BY <1>3 DEF DeviceGivesUp, Restart, Die, Unplug
  <2>2. toDev' \in {toDev, << >>} /\ toHost' \in {toHost, << >>}
    BY <1>3 DEF DeviceGivesUp, Restart, Die, Unplug
  <2> DEFINE n == << >>
  <2>3. Effect(dev, "none", dev', n)
    BY <1>c, <2>1
  <2>4. n \in Seq(Input) /\ Follows(toDev', toDev, n) /\ Follows(toHost', toHost, n)
    BY <1>0, <1>d, <2>2
  <2>5. Follows(toDev', toDev, << >>)
    BY <2>4
  <2> HIDE DEF n
  <2> QED
    BY <1>b, <2>3, <2>4, <2>5
<1>4. CASE Repeat
  <2> DEFINE r == <<Request(dev)>>
  <2>1. dev' = dev /\ toDev' = toDev /\ Deliver(r) /\ dev.mode = "loading"
    BY <1>4 DEF Repeat
  <2>2. r \in Seq(Input)
    BY <1>0, <2>1, WordsTyped DEF DeviceOK
  <2>3. \A w : Holds(r, w) <=> Word(Request(dev)) = w
    BY FewWords
  <2>4. Follows(toHost', toHost, r)
    BY <2>1, <2>2, DeliverFollows
  <2> HIDE DEF r
  <2>5. Effect(dev, "none", dev, r)
    BY <1>c, <2>3, AnswerWords, HarmlessEffect
  <2> QED
    BY <1>b, <1>d, <2>1, <2>2, <2>4, <2>5
<1>5. CASE Lose
  <2>1. dev' = dev
    BY <1>5 DEF Lose
  <2>2. OnTheLine => toHost # << >>
    BY DEF OnTheLine
  <2>3. Follows(toDev', toDev, << >>) /\ Follows(toHost', toHost, << >>)
    BY <1>0, <1>5, <1>d, <2>2, FollowsLoss DEF Lose
  <2> QED
    BY <1>0, <1>b, <1>c, <2>1, <2>3
<1>6. CASE Corrupt
  <2>1. dev' = dev
    BY <1>6 DEF Corrupt
  <2>2. ASSUME NEW p \in Pages, OnTheLine, Last(toHost).kind = "get",
               toHost' = [toHost EXCEPT ![Len(toHost)].page = p]
        PROVE  Follows(toHost', toHost, << >>)
    <3> DEFINE n == Len(toHost)
               m == [toHost[n] EXCEPT !.page = p]
    <3>1. n \in DOMAIN toHost
      <4>1. Len(toHost) \in Nat /\ toHost # << >>
        BY <1>0, <2>2 DEF OnTheLine
      <4> QED
        BY <1>0, <4>1
    <3>2. toHost[n] \in Input /\ toHost[n].kind = "get"
      BY <1>0, <2>2, <3>1 DEF Last
    <3>3. Word(m) = Word(toHost[n])
      <4>1. m.kind = "get"
        BY <3>2 DEF Input, Texts, Frames, BtlFrames, AppFrames
      <4> QED
        BY <3>2, <4>1 DEF Word
    <3>4. toHost' = [toHost EXCEPT ![n] = m]
      BY <2>2
    <3> HIDE DEF n, m
    <3> QED
      BY <1>0, <3>1, <3>3, <3>4, FollowsChange
  <2>3. ASSUME toDev # << >>, toDev[1].kind = "page",
               toDev' = <<[toDev[1] EXCEPT !.page = Junk]>> \o Tail(toDev)
        PROVE  Follows(toDev', toDev, << >>)
    <3> DEFINE m == [toDev[1] EXCEPT !.page = Junk]
    <3>1. 1 \in DOMAIN toDev /\ toDev[1] \in Output
      BY <1>0, <2>3
    <3>2. m \in Output /\ Word(m) = Word(toDev[1])
      <4>1. toDev[1] \in [kind : {"page"}, page : Nat]
        BY <2>3, <3>1 DEF Output, DataAnswers
      <4>2. m \in [kind : {"page"}, page : Nat]
        BY <4>1, DeviceAssumption DEF Junk
      <4> QED
        BY <4>1, <4>2 DEF Output, Word
    <3>3. toDev' = <<m>> \o Tail(toDev)
      BY <2>3
    <3> HIDE DEF m
    <3>4. /\ Tail(toDev) \in Seq(Output) /\ Len(Tail(toDev)) = Len(toDev) - 1
          /\ \A i \in 1..Len(Tail(toDev)) : Tail(toDev)[i] = toDev[i + 1]
      BY <1>0, <2>3, HeadTailProperties
    <3>5. <<m>> \in Seq(Output) /\ Len(<<m>>) = 1 /\ <<m>>[1] = m
      BY <3>2
    <3>6. /\ Len(toDev') = Len(toDev) /\ DOMAIN toDev' = DOMAIN toDev
          /\ \A i \in DOMAIN toDev : toDev'[i] = IF i = 1 THEN m ELSE toDev[i]
      <4> DEFINE u == <<m>> \o Tail(toDev)
      <4>1. u \in Seq(Output) /\ Len(u) = Len(<<m>>) + Len(Tail(toDev))
        BY <3>4, <3>5, ConcatProperties
      <4>2. \A i \in 1..(Len(<<m>>) + Len(Tail(toDev))) :
              u[i] = IF i <= Len(<<m>>) THEN <<m>>[i] ELSE Tail(toDev)[i - Len(<<m>>)]
        BY <3>4, <3>5, ConcatProperties
      <4> HIDE DEF u
      <4>3. Len(toDev) \in Nat /\ DOMAIN toDev = 1..Len(toDev) /\ Len(toDev) >= 1
        BY <1>0, <2>3
      <4>4. Len(u) = Len(toDev) /\ DOMAIN u = DOMAIN toDev
        BY <3>4, <3>5, <4>1, <4>3
      <4>5. ASSUME NEW i \in DOMAIN toDev PROVE u[i] = IF i = 1 THEN m ELSE toDev[i]
        <5>1. i \in 1..(Len(<<m>>) + Len(Tail(toDev)))
          BY <3>4, <3>5, <4>3
        <5>2. CASE i = 1
          BY <3>5, <4>2, <5>1, <5>2
        <5>3. CASE i # 1
          <6>1. ~(i <= Len(<<m>>)) /\ i - Len(<<m>>) = i - 1 /\ i - 1 \in 1..Len(Tail(toDev))
                  /\ (i - 1) + 1 = i
            BY <3>4, <3>5, <4>3, <5>3
          <6> QED
            BY <3>4, <4>2, <5>1, <5>3, <6>1
        <5> QED
          BY <5>2, <5>3
      <4>6. toDev' = u
        BY <3>3 DEF u
      <4> QED
        BY <4>4, <4>5, <4>6
    <3>7. \A i \in DOMAIN toDev' : i + 0 \in DOMAIN toDev /\ Word(toDev'[i]) = Word(toDev[i + 0])
      <4>1. \A i \in DOMAIN toDev : i + 0 = i
        BY <1>0
      <4> QED
        BY <3>2, <3>6, <4>1
    <3> QED
      BY <3>7 DEF Follows
  <2>4. Follows(toDev', toDev, << >>) /\ Follows(toHost', toHost, << >>)
    BY <1>0, <1>6, <1>d, <2>2, <2>3 DEF Corrupt
  <2> QED
    BY <1>0, <1>b, <1>c, <2>1, <2>4
<1> QED
  BY <1>1, <1>2, <1>3, <1>4, <1>5, <1>6 DEF Fault


\* What a step of the host adds to the line are commands of that step.
LEMMA WrittenWords ==
  ASSUME h'.port \in Seq(Output)
  PROVE  /\ Written \in Seq(Output)
         /\ \A w : Holds(Written, w) => Holds(h'.port, w)
         /\ h'.port = << >> => Written = << >>
         /\ \A m : h'.port = <<m>> => Written \in {<< >>, <<m>>}
<1> DEFINE c == h'.port
           S == {c[i] : i \in 1..Len(c)}
<1>1. DOMAIN c = 1..Len(c) /\ Len(c) \in Nat
  OBVIOUS
<1>2. /\ Written \in Seq(S) /\ Written \in Seq(Output)
      /\ Len(c) = 0 => Written = << >>
      /\ Len(c) = 1 => Written \in {<< >>, <<c[1]>>}
  BY WrittenCommands DEF Written
<1>3. ASSUME NEW w, Holds(Written, w) PROVE Holds(c, w)
  <2>1. PICK i \in DOMAIN Written : Word(Written[i]) = w
    BY <1>3 DEF Holds
  <2>2. Written[i] \in S
    BY <1>2, <2>1
  <2> QED
    BY <1>1, <2>1, <2>2 DEF Holds
<1>4. c = << >> => Len(c) = 0
  OBVIOUS
<1>5. \A m : c = <<m>> => Len(c) = 1 /\ c[1] = m
  OBVIOUS
<1> HIDE DEF c, S
<1>6. \A m : c = <<m>> => Written \in {<< >>, <<m>>}
  BY <1>2, <1>5
<1>7. c = << >> => Written = << >>
  BY <1>2, <1>4
<1> QED
  BY <1>2, <1>3, <1>6, <1>7 DEF c

\* The lines after a step of the host.
LEMMA CarryFollows ==
  ASSUME SysInv, h'.port \in Seq(Output), NEW unread, Carry(unread)
  PROVE  Follows(toDev', toDev, Written) /\ toHost' \in {<< >>, unread} /\ dev' = dev
<1>1. toDev \in Seq(Output) /\ Written \in Seq(Output)
  BY WrittenWords DEF SysInv, LineOK
<1>2. Follows(AtMost(toDev \o Written, LinkCap), toDev, Written)
  BY <1>1, FollowsAdded
<1>3. Follows(toDev, toDev, Written)
  BY <1>1, FollowsSame
<1> QED
  BY <1>2, <1>3 DEF Carry

\* What is read is taken off the line from its front.
LEMMA ReadTakes ==
  ASSUME SysInv, NEW n \in 1..2, Readable(n)
  PROVE  LET chunk == SubSeq(toHost, 1, n)
             rest  == SubSeq(toHost, n + 1, Len(toHost))
         IN  /\ Follows(rest, toHost, << >>) /\ rest \in Seq(Input)
             /\ \A w : Holds(chunk, w) => Holds(toHost, w)
             /\ \A w : Once(toHost, w) /\ Holds(chunk, w) => ~Holds(rest, w)
             /\ \A v, w : NoneBehind(toHost, v, w) /\ Holds(chunk, v) => ~Holds(rest, w)
<1> DEFINE chunk == SubSeq(toHost, 1, n)
           rest  == SubSeq(toHost, n + 1, Len(toHost))
<1>1. toHost \in Seq(Input) /\ Len(toHost) \in Nat /\ n <= Len(toHost) /\ LineOK(toHost, Input)
  <2>1. toHost \in Seq(Input) /\ Len(toHost) \in Nat /\ LineOK(toHost, Input)
    BY DEF SysInv, LineOK
  <2> QED
    BY <2>1 DEF Readable, Smaller
<1>2. Follows(rest, toHost, << >>) /\ rest \in Seq(Input)
  <2>1. << >> \in Seq(Input) /\ n \in Nat
    OBVIOUS
  <2>2. LineOK(rest, Input)
    BY <1>1, <2>1, RestTyped
  <2>3. Follows(rest, toHost, << >>)
    BY <1>1, <2>1, FollowsRest
  <2> QED
    BY <2>2, <2>3 DEF LineOK
<1>3. ASSUME NEW i \in DOMAIN chunk
      PROVE  i \in DOMAIN toHost /\ chunk[i] = toHost[i] /\ i <= n /\ i \in Nat
  <2>1. 1 \in Int /\ n \in Int /\ \A j \in 1..n : toHost[j] \in Input
    BY <1>1
  <2>2. chunk \in Seq(Input)
    BY <2>1, SubSeqProperties
  <2>3. Len(chunk) = IF 1 <= n THEN n - 1 + 1 ELSE 0
    BY <2>1, SubSeqProperties
  <2>4. \A j \in 1..(n - 1 + 1) : chunk[j] = toHost[1 + j - 1]
    BY <2>1, SubSeqProperties
  <2> HIDE DEF chunk
  <2>5. Len(chunk) = n /\ i \in 1..Len(chunk)
    BY <2>2, <2>3
  <2>6. i \in 1..(n - 1 + 1) /\ 1 + i - 1 = i /\ i \in 1..Len(toHost)
    BY <1>1, <2>5
  <2> QED
    BY <1>1, <2>4, <2>5, <2>6
<1>4. ASSUME NEW i \in DOMAIN rest
      PROVE  i + n \in DOMAIN toHost /\ rest[i] = toHost[i + n] /\ i + n > n
  <2>1. n + 1 \in Int /\ Len(toHost) \in Int /\ \A j \in (n + 1)..Len(toHost) : toHost[j] \in Input
    <3>1. \A j \in (n + 1)..Len(toHost) : j \in 1..Len(toHost)
      BY <1>1
    <3> QED
      BY <1>1, <3>1
  <2>3. Len(rest) = IF n + 1 <= Len(toHost) THEN Len(toHost) - (n + 1) + 1 ELSE 0
    BY <2>1, SubSeqProperties
  <2>4. \A j \in 1..(Len(toHost) - (n + 1) + 1) : rest[j] = toHost[(n + 1) + j - 1]
    BY <2>1, SubSeqProperties
  <2> HIDE DEF rest
  <2>5. i \in 1..Len(rest)
    BY <1>2
  <2>6. i \in 1..(Len(toHost) - (n + 1) + 1) /\ (n + 1) + i - 1 = i + n
    <3>1. CASE n + 1 <= Len(toHost)
      BY <1>1, <2>3, <2>5, <3>1
    <3>2. CASE ~(n + 1 <= Len(toHost))
      <4>1. Len(rest) = 0
        BY <2>3, <3>2
      <4> QED
        BY <2>5, <4>1
    <3> QED
      BY <3>1, <3>2
  <2>7. i + n \in 1..Len(toHost) /\ i + n > n
    BY <1>1, <2>6
  <2> QED
    BY <1>1, <2>4, <2>6, <2>7
<1> HIDE DEF chunk, rest
<1>5. ASSUME NEW w, Holds(chunk, w) PROVE Holds(toHost, w)
  BY <1>3, <1>5 DEF Holds
<1>6. ASSUME NEW v, NEW w, Holds(chunk, v), Holds(rest, w)
      PROVE  \E i, j \in DOMAIN toHost :
               i < j /\ Word(toHost[i]) = v /\ Word(toHost[j]) = w /\ i # j
  <2>1. PICK i \in DOMAIN chunk : Word(chunk[i]) = v
    BY <1>6 DEF Holds
  <2>2. PICK j \in DOMAIN rest : Word(rest[j]) = w
    BY <1>6 DEF Holds
  <2>3. i \in DOMAIN toHost /\ Word(toHost[i]) = v /\ i <= n /\ i \in Nat
    BY <1>3, <2>1
  <2>4. j + n \in DOMAIN toHost /\ Word(toHost[j + n]) = w /\ j + n > n
    BY <1>4, <2>2
  <2>5. i < j + n /\ i # j + n
    BY <1>1, <2>3, <2>4
  <2> QED
    BY <2>3, <2>4, <2>5
<1>7. ASSUME NEW w, Once(toHost, w), Holds(chunk, w) PROVE ~Holds(rest, w)
  BY <1>6, <1>7 DEF Once
<1>8. ASSUME NEW v, NEW w, NoneBehind(toHost, v, w), Holds(chunk, v) PROVE ~Holds(rest, w)
  BY <1>6, <1>8 DEF NoneBehind
<1> QED
  BY <1>2, <1>5, <1>7, <1>8 DEF chunk, rest


-----------------------------------------------------------------------------
(* What the host does with what it reads.                                  *)

\* A handler starts from an open port and nothing written.
Starts(g) == HostOK(g) /\ g.fd # 0 /\ g.port = << >>

\* The fields that matter here are as they were.
Same(g, r) ==
  /\ r.state = g.state /\ r.ascii = g.ascii /\ r.said = g.said
  /\ r.port = g.port /\ r.fd = g.fd

\* The handler writes m, forgets the texts and goes to st.
Goes(g, r, st, m) == r.state = st /\ r.ascii = << >> /\ r.said = g.said /\ r.port = <<m>>

Sync   == [kind |-> "sync"]
Header == [kind |-> "header"]
Update == [kind |-> "updateRequest"]

\* At most a page was written.
PagePort(p) == p = << >> \/ \E n \in Nat : p = <<[kind |-> "page", page |-> n]>>

\* The handlers that enter the next state.
LEMMA ActionsGo ==
  ASSUME NEW g, Starts(g)
  PROVE  /\ Goes(g, V1SyncAction(g), "ST_V1ProgramSync", Sync)
         /\ Goes(g, WriteHeaderAction(g), "ST_V1ProgramUpload", Header)
         /\ LET r == V3SyncAction(g)
            IN  /\ r.state = "ST_V3ProgramSync" /\ r.ascii = g.ascii /\ r.said = g.said
                /\ r.port = <<Update>>
<1>1. \A m : Append(<< >>, m) = <<m>>
  OBVIOUS
<1>2. ASSUME NEW st, NEW m
      PROVE  Goes(g, PL_SetTimeout(Write([g EXCEPT !.state = st, !.ascii = << >>], m)), st, m)
  <2> DEFINE e == [g EXCEPT !.state = st, !.ascii = << >>]
             w == Write(e, m)
  <2>1. e.state = st /\ e.ascii = << >> /\ e.said = g.said /\ e.fd # 0 /\ e.port = << >>
          /\ e = [e EXCEPT !.port = e.port]
    BY DEF Starts, HostOK, Host
  <2>2. DOMAIN e = DOMAIN g /\ DOMAIN g = {"state", "substate", "retry", "ascii", "fd", "timer",
                                          "running", "said", "port"}
    BY DEF Starts, HostOK, Host
  <2> HIDE DEF e
  <2>3. w = [e EXCEPT !.port = <<m>>]
    BY <1>1, <2>1 DEF Write, Port
  <2> HIDE DEF w
  <2>4. w.state = st /\ w.ascii = << >> /\ w.said = g.said /\ w.port = <<m>>
          /\ PL_SetTimeout(w) = [w EXCEPT !.timer = TRUE] /\ DOMAIN w = DOMAIN g
    BY <2>1, <2>2, <2>3 DEF PL_SetTimeout
  <2>5. Goes(g, PL_SetTimeout(w), st, m)
    BY <2>2, <2>4 DEF Goes
  <2> QED
    BY <2>5 DEF w, e
<1>3. /\ Goes(g, V1SyncAction(g), "ST_V1ProgramSync", Sync)
      /\ Goes(g, WriteHeaderAction(g), "ST_V1ProgramUpload", Header)
  BY <1>2 DEF V1SyncAction, WriteHeaderAction, Sync, Header
<1>4. LET r == V3SyncAction(g)
      IN  /\ r.state = "ST_V3ProgramSync" /\ r.ascii = g.ascii /\ r.said = g.said
          /\ r.port = <<Update>>
  <2> DEFINE e == [g EXCEPT !.state = "ST_V3ProgramSync"]
             s == PL_SetTimeout(e)
  <2>1. s.state = "ST_V3ProgramSync" /\ s.ascii = g.ascii /\ s.said = g.said /\ s.fd # 0
          /\ s.port = << >> /\ "port" \in DOMAIN s
    BY DEF Starts, HostOK, Host, PL_SetTimeout
  <2>2. V3SyncAction(g) = Write(s, Update)
    BY DEF V3SyncAction, Update
  <2> HIDE DEF s
  <2>3. Write(s, Update) = [s EXCEPT !.port = <<Update>>]
    BY <1>1, <2>1 DEF Write, Port
  <2> QED
    BY <2>1, <2>2, <2>3
<1> QED
  BY <1>3, <1>4

\* A page request is answered with a page at most, and the texts are forgotten.
LEMMA ServePageGoes ==
  ASSUME NEW g, Starts(g), g.state = "ST_V1ProgramUpload", NEW p \in Nat
  PROVE  LET r == ServePage(g, p)
         IN  /\ r.state \in Sending \cup {"ST_Init"} /\ r.ascii = << >> /\ r.said = g.said
             /\ PagePort(r.port)
<1> DEFINE m == [kind |-> "page", page |-> p]
           q == IF BehindFile(p) THEN gcfRetry(g) ELSE g
           a == [q EXCEPT !.ascii = << >>]
           b == IF BehindFile(p) /\ LastPage(p) THEN a ELSE Write(a, m)
           c == IF LastPage(p) THEN [b EXCEPT !.state = "ST_V1ProgramValidate"] ELSE b
           Fields == {"state", "substate", "retry", "ascii", "fd", "timer", "running", "said", "port"}
<1>1. ServePage(g, p) = PL_SetTimeout(c)
  BY DEF ServePage
<1>2. /\ DOMAIN q = Fields /\ q.state \in {"ST_V1ProgramUpload", "ST_Init"} /\ q.said = g.said
      /\ q.fd # 0 /\ q.port = << >>
  BY DEF Starts, HostOK, Host, gcfRetry, PL_SetTimeout, PL_ShutDown
<1> HIDE DEF q
<1>3. /\ DOMAIN a = Fields /\ a.state \in {"ST_V1ProgramUpload", "ST_Init"} /\ a.said = g.said
      /\ a.fd # 0 /\ a.port = << >> /\ a.ascii = << >>
  BY <1>2
<1> HIDE DEF a
<1>4. PagePort(<<m>>) /\ PagePort(<< >>) /\ Append(<< >>, m) = <<m>>
  BY DEF PagePort
<1>5. Write(a, m) = [a EXCEPT !.port = <<m>>]
  BY <1>3, <1>4 DEF Write, Port
<1> HIDE DEF m
<1>6. /\ DOMAIN b = Fields /\ b.state \in {"ST_V1ProgramUpload", "ST_Init"} /\ b.said = g.said
      /\ PagePort(b.port) /\ b.ascii = << >>
  BY <1>3, <1>4, <1>5
<1> HIDE DEF b
<1>7. /\ DOMAIN c = Fields /\ c.state \in Sending \cup {"ST_Init"} /\ c.said = g.said
      /\ PagePort(c.port) /\ c.ascii = << >>
  BY <1>6 DEF Sending
<1> HIDE DEF c
<1> QED
  BY <1>1, <1>7 DEF PL_SetTimeout

\* A data request is answered, and the last one ends the upload.
LEMMA ServeBlockGoes ==
  ASSUME NEW g, Starts(g), g.state = "ST_V3ProgramUpload", NEW b
  PROVE  LET r == ServeBlock(g, b)
         IN  /\ r.state \in {"ST_V3ProgramUpload", "ST_V3ProgramWaitID"} /\ r.said = g.said
             /\ r.ascii = g.ascii
             /\ \E m : r.port = <<m>> /\ m.kind = "data"
<1> DEFINE m == [kind |-> "data", status |-> DataStatus(b), offset |-> b.offset, length |-> b.length]
           s == PL_SetTimeout(g)
           a == Write(s, m)
           e == [a EXCEPT !.state = "ST_V3ProgramWaitID"]
           Fields == {"state", "substate", "retry", "ascii", "fd", "timer", "running", "said", "port"}
<1>1. ServeBlock(g, b) \in {PL_SetTimeout(e), a}
  BY DEF ServeBlock
<1>2. m.kind = "data" /\ Append(<< >>, m) = <<m>>
  OBVIOUS
<1>3. /\ DOMAIN s = Fields /\ s.state = g.state /\ s.said = g.said /\ s.fd # 0 /\ s.port = << >>
      /\ s.ascii = g.ascii
  BY DEF Starts, HostOK, Host, PL_SetTimeout
<1> HIDE DEF m, s
<1>4. a = [s EXCEPT !.port = <<m>>]
  BY <1>2, <1>3 DEF Write, Port
<1>5. /\ DOMAIN a = Fields /\ a.state = g.state /\ a.said = g.said /\ a.port = <<m>>
      /\ a.ascii = g.ascii
  BY <1>3, <1>4
<1> HIDE DEF a
<1>6. PL_SetTimeout(e).state = "ST_V3ProgramWaitID" /\ PL_SetTimeout(e).said = g.said
        /\ PL_SetTimeout(e).port = <<m>> /\ PL_SetTimeout(e).ascii = g.ascii
  BY <1>5 DEF PL_SetTimeout
<1> QED
  BY <1>1, <1>2, <1>5, <1>6

\* A word that is no checksum is the kind of its message.
LEMMA HasHolds ==
  ASSUME NEW g
  PROVE  \A w \in {"ready", "valid"} : Has(g, w) <=> Holds(g.ascii, w)
  BY DEF Has, Holds, Word

\* What EV_RX_ASCII leads to, by the state it finds.
LEMMA RxAsciiGoes ==
  ASSUME NEW g, Starts(g)
  PROVE  LET r == RxAscii(g)
         IN  \/ Same(g, r) /\ (g.state = "ST_V1ProgramSync" => ~Holds(g.ascii, "ready"))
             \/ /\ g.state = "ST_BootloaderQuery" /\ LastText(g) \in {"id", "eol"}
                /\ Goes(g, r, "ST_V1ProgramSync", Sync)
             \/ /\ g.state = "ST_V1ProgramSync" /\ Holds(g.ascii, "ready")
                /\ Goes(g, r, "ST_V1ProgramUpload", Header)
             \/ /\ g.state = "ST_V1ProgramUpload" /\ r.state \in Sending \cup {"ST_Init"}
                /\ r.ascii = << >> /\ r.said = g.said /\ PagePort(r.port)
             \/ /\ g.state = "ST_V1ProgramValidate" /\ Holds(g.ascii, "valid")
                /\ r.state = g.state /\ r.ascii = g.ascii /\ r.said = "written"
                /\ r.port = << >>
<1> DEFINE c == PL_ClearTimeout(g)
           s == PL_SetTimeout(g)
<1>1. Starts(c) /\ Same(g, c) /\ Same(g, s) /\ Same(g, g)
  BY DEF Starts, HostOK, Host, Same, PL_ClearTimeout, PL_SetTimeout
<1>2. \A st, r, m : Goes(c, r, st, m) => Goes(g, r, st, m)
  BY <1>1 DEF Same, Goes
<1>3. CASE g.state = "ST_BootloaderQuery"
  <2>1. RxAscii(g) = QueryAscii(g)
    BY <1>3 DEF RxAscii
  <2>2. QueryAscii(g) = g \/ (QueryAscii(g) = V1SyncAction(c) /\ LastText(g) \in {"id", "eol"})
    BY DEF QueryAscii
  <2>3. Goes(g, V1SyncAction(c), "ST_V1ProgramSync", Sync)
    BY <1>1, <1>2, ActionsGo
  <2> QED
    BY <1>1, <1>3, <2>1, <2>2, <2>3
<1>4. CASE g.state = "ST_V1ProgramSync"
  <2>1. RxAscii(g) = V1SyncAscii(g)
    BY <1>4 DEF RxAscii
  <2>2. \/ Has(g, "ready") /\ V1SyncAscii(g) = WriteHeaderAction(c)
        \/ ~Has(g, "ready") /\ V1SyncAscii(g) = s
    BY DEF V1SyncAscii
  <2>3. Goes(g, WriteHeaderAction(c), "ST_V1ProgramUpload", Header)
    BY <1>1, <1>2, ActionsGo
  <2>4. Has(g, "ready") <=> Holds(g.ascii, "ready")
    BY HasHolds
  <2> QED
    BY <1>1, <1>4, <2>1, <2>2, <2>3, <2>4
<1>5. CASE g.state = "ST_V1ProgramUpload"
  <2>1. RxAscii(g) = UploadAscii(g)
    BY <1>5 DEF RxAscii
  <2>2. \/ UploadAscii(g) = g
        \/ g.ascii # << >> /\ g.ascii[1].kind = "get" /\ UploadAscii(g) = ServePage(g, g.ascii[1].page)
    BY DEF UploadAscii
  <2>3. (g.ascii # << >> /\ g.ascii[1].kind = "get") => g.ascii[1].page \in Nat
    <3>1. g.ascii # << >> => g.ascii[1] \in Input
      BY DEF Starts, HostOK, Host
    <3> QED
      BY <3>1, InputKinds
  <2> QED
    BY <1>1, <1>5, <2>1, <2>2, <2>3, ServePageGoes
<1>6. CASE g.state = "ST_V1ProgramValidate"
  <2> DEFINE v == PL_ShutDown([g EXCEPT !.said = "written"])
  <2>1. RxAscii(g) = ValidateAscii(g)
    BY <1>6 DEF RxAscii
  <2>2. (Has(g, "valid") /\ ValidateAscii(g) = v) \/ ValidateAscii(g) = s
    BY DEF ValidateAscii
  <2>3. v.state = g.state /\ v.ascii = g.ascii /\ v.said = "written" /\ v.port = << >>
    BY DEF Starts, HostOK, Host, PL_ShutDown
  <2>4. Has(g, "valid") <=> Holds(g.ascii, "valid")
    BY HasHolds
  <2> HIDE DEF v
  <2> QED
    BY <1>1, <1>6, <2>1, <2>2, <2>3, <2>4
<1>7. CASE g.state \notin {"ST_BootloaderQuery", "ST_V1ProgramSync", "ST_V1ProgramUpload",
                           "ST_V1ProgramValidate"}
  BY <1>1, <1>7 DEF RxAscii
<1> QED
  BY <1>3, <1>4, <1>5, <1>6, <1>7


\* The states before the bootloader was found.
Early == {"ST_Init", "ST_Reset", "ST_BootloaderConnect", "ST_BootloaderQuery", "ST_Void"}

\* What EV_RX_BTL_PKG_DATA and the watchdog's answer lead to.
LEMMA PacketGoes ==
  ASSUME NEW g, HostOK(g), NEW m \in Frames,
         g.state \in {"ST_BootloaderQuery", "ST_V3ProgramUpload"} => Starts(g)
  PROVE  LET r == PROT_Packet(g, m)
         IN  \/ /\ r.said = g.said /\ r.port = g.port /\ r.ascii \in {g.ascii, <<m>>}
                /\ r.state = g.state \/ (g.state = "ST_Reset" /\ r.state \in Early)
             \/ /\ g.state = "ST_BootloaderQuery" /\ r.state = "ST_V3ProgramSync"
                /\ r.said = g.said /\ r.port = <<Update>>
             \/ /\ g.state = "ST_V3ProgramSync" /\ m.kind = "updateResponse"
                /\ r.state = "ST_V3ProgramUpload" /\ r.said = g.said /\ r.port = g.port
             \/ /\ g.state = "ST_V3ProgramUpload" /\ r.said = g.said
                /\ r.state \in {"ST_V3ProgramUpload", "ST_V3ProgramWaitID"}
                /\ \E n : r.port = <<n>> /\ n.kind = "data"
             \/ /\ g.state = "ST_V3ProgramWaitID" /\ r.state = g.state /\ r.port = g.port
                /\ r.said = "finishedBad" \/ (r.said = "finishedOk" /\ Word(m) = "idOk")
<1> DEFINE a == [g EXCEPT !.ascii = <<m>>]
           c(x) == PL_ClearTimeout(x)
           r == PROT_Packet(g, m)
           Resets(x) == /\ x.said = g.said /\ x.port = g.port /\ x.ascii \in {g.ascii, <<m>>}
                        /\ x.state \in Early
<1>0. /\ m \in BtlFrames => /\ a.state = g.state /\ a.said = g.said /\ a.port = g.port
                            /\ a.ascii = <<m>> /\ HostOK(a) /\ a.fd = g.fd
      /\ m \in BtlFrames => m \in Input
  <2> SUFFICES ASSUME m \in BtlFrames
               PROVE  /\ a.state = g.state /\ a.said = g.said /\ a.port = g.port
                      /\ a.ascii = <<m>> /\ HostOK(a) /\ a.fd = g.fd /\ m \in Input
    OBVIOUS
  <2>1. <<m>> \in Seq(Input) /\ Len(<<m>>) = 1 /\ 1 <= AsciiCap /\ m \in Input
    BY InputKinds, HostAssumption
  <2> QED
    BY <2>1 DEF HostOK, Host
<1>1. ASSUME NEW x, HostOK(x), x.state = "ST_Reset", x.said = g.said, x.port = g.port,
             x.ascii \in {g.ascii, <<m>>}
      PROVE  Resets(ResetSuccess(PL_SetTimeout(c(x)))) /\ Resets(ResetSuccess(c(x)))
  <2> DEFINE Fine(y) == /\ HostOK(y) /\ y.state = "ST_Reset" /\ y.said = g.said /\ y.port = g.port
                        /\ y.ascii \in {g.ascii, <<m>>}
  <2>1. Fine(c(x)) /\ Fine(PL_SetTimeout(c(x)))
    <3>1. HostOK(c(x)) /\ HostOK(PL_SetTimeout(c(x)))
      BY <1>1, TimerTyped
    <3> QED
      BY <1>1, <3>1 DEF PL_ClearTimeout, PL_SetTimeout, HostOK, Host
  <2>2. ASSUME NEW y, Fine(y) PROVE Resets(ResetSuccess(y))
    BY <2>2 DEF ResetSuccess, ProgramResetSuccess, PL_SetTimeout, PL_ShutDown, HostOK, Host, Early
  <2> HIDE DEF Fine, Resets
  <2> QED
    BY <2>1, <2>2
<1>2. CASE m \notin BtlFrames
  <2>1. r \in {g, ResetUartWatchdog(g)} /\ (r = ResetUartWatchdog(g) => g.state = "ST_Reset" \/ r = g)
    BY <1>2 DEF PROT_Packet
  <2>2. ResetUartWatchdog(g) \in {g, ResetSuccess(c(g))}
    BY DEF ResetUartWatchdog
  <2>3. g.state = "ST_Reset" => Resets(ResetSuccess(c(g)))
    BY <1>1
  <2> QED
    BY <2>1, <2>2, <2>3
<1>3. CASE m \in BtlFrames
  <2>0. r = RxBtl(a, m)
    <3>1. m.kind # "watchdogWritten"
      BY <1>3 DEF BtlFrames
    <3> QED
      BY <1>3, <3>1 DEF PROT_Packet
  <2> HIDE DEF a
  <2>1. CASE g.state = "ST_Reset"
    <3>1. r \in {a, ResetUartBtl(a, m)}
      BY <1>0, <1>3, <2>0, <2>1 DEF RxBtl
    <3>2. ResetUartBtl(a, m) \in {a, ResetSuccess(PL_SetTimeout(c(a)))}
      BY DEF ResetUartBtl
    <3>3. Resets(ResetSuccess(PL_SetTimeout(c(a))))
      BY <1>0, <1>1, <1>3, <2>1
    <3> QED
      BY <1>0, <1>3, <2>1, <3>1, <3>2, <3>3
  <2>2. CASE g.state = "ST_BootloaderQuery"
    <3>1. r \in {a, V3SyncAction(a)}
      BY <1>0, <1>3, <2>0, <2>2 DEF RxBtl, QueryBtl
    <3>2. Starts(a)
      BY <1>0, <1>3, <2>2 DEF Starts
    <3> QED
      BY <1>0, <1>3, <2>2, <3>1, <3>2, ActionsGo
  <2>3. CASE g.state = "ST_V3ProgramSync"
    <3> DEFINE e == PL_SetTimeout([a EXCEPT !.state = "ST_V3ProgramUpload"])
    <3>1. r = a \/ (r = e /\ m.kind = "updateResponse")
      BY <1>0, <1>3, <2>0, <2>3 DEF RxBtl, V3SyncBtl
    <3>2. e.state = "ST_V3ProgramUpload" /\ e.said = g.said /\ e.port = g.port
      BY <1>0, <1>3 DEF PL_SetTimeout, HostOK, Host
    <3> HIDE DEF e
    <3> QED
      BY <1>0, <1>3, <2>3, <3>1, <3>2
  <2>4. CASE g.state = "ST_V3ProgramUpload"
    <3>1. r \in {a, ServeBlock(a, m.block)}
      BY <1>0, <1>3, <2>0, <2>4 DEF RxBtl, V3UploadBtl
    <3>2. Starts(a)
      BY <1>0, <1>3, <2>4 DEF Starts
    <3>3. LET x == ServeBlock(a, m.block)
          IN  /\ x.state \in {"ST_V3ProgramUpload", "ST_V3ProgramWaitID"} /\ x.said = a.said
              /\ \E n : x.port = <<n>> /\ n.kind = "data"
      BY <1>0, <1>3, <2>4, <3>2, ServeBlockGoes
    <3> QED
      BY <1>0, <1>3, <2>4, <3>1, <3>3
  <2>5. CASE g.state = "ST_V3ProgramWaitID"
    <3> DEFINE e(v) == PL_ShutDown([a EXCEPT !.said = v])
    <3>1. \/ r = a
          \/ r = e("finishedBad")
          \/ r = e("finishedOk") /\ Word(m) = "idOk"
      BY <1>0, <1>3, <2>0, <2>5 DEF RxBtl, WaitIDBtl, Word
    <3>2. \A v : e(v).state = g.state /\ e(v).said = v /\ e(v).port = g.port
      BY <1>0, <1>3 DEF PL_ShutDown, HostOK, Host
    <3> HIDE DEF e
    <3> QED
      BY <1>0, <1>3, <2>5, <3>1, <3>2
  <2>6. CASE g.state \notin {"ST_Reset", "ST_BootloaderQuery", "ST_V3ProgramSync",
                             "ST_V3ProgramUpload", "ST_V3ProgramWaitID"}
    <3>1. r = a
      BY <1>0, <1>3, <2>0, <2>6 DEF RxBtl
    <3> QED
      BY <1>0, <1>3, <3>1
  <2> QED
    BY <2>1, <2>2, <2>3, <2>4, <2>5, <2>6
<1> QED
  BY <1>2, <1>3


\* The words among the texts were there or have just been read.
Keeps(g, chunk, r) ==
  \A w \in {"ready", "valid"} : Holds(r.ascii, w) => Holds(g.ascii, w) \/ Holds(chunk, w)

\* The moves of a host that reads: the V1 and the V3 protocol, one question at a
\* time, and praise for a word of the device only.
Stays(g, chunk, r) ==
  /\ r.said = g.said /\ r.port = << >> /\ Keeps(g, chunk, r)
  /\ \/ r.state = g.state /\ (g.state = "ST_V1ProgramSync" => ~Holds(r.ascii, "ready"))
     \/ g.state = "ST_Reset" /\ r.state \in Early
FindsV1(g, r) == g.state = "ST_BootloaderQuery" /\ Goes(g, r, "ST_V1ProgramSync", Sync)
FindsV3(g, r) ==
  /\ g.state = "ST_BootloaderQuery" /\ r.state = "ST_V3ProgramSync"
  /\ r.said = g.said /\ r.port = <<Update>>
SendsHeader(g, chunk, r) ==
  /\ g.state = "ST_V1ProgramSync" /\ Holds(chunk, "ready")
  /\ Goes(g, r, "ST_V1ProgramUpload", Header)
SendsPage(g, chunk, r) ==
  /\ g.state = "ST_V1ProgramUpload" /\ r.state \in Sending \cup {"ST_Init"}
  /\ r.said = g.said /\ PagePort(r.port) /\ Keeps(g, chunk, r)
PraisesV1(g, chunk, r) ==
  /\ g.state = "ST_V1ProgramValidate" /\ r.state = g.state
  /\ Holds(g.ascii, "valid") \/ Holds(chunk, "valid")
  /\ r.said = "written" /\ r.port = << >> /\ Keeps(g, chunk, r)
StartsV3(g, chunk, r) ==
  /\ g.state = "ST_V3ProgramSync" /\ r.state = "ST_V3ProgramUpload"
  /\ Holds(chunk, "updateResponse") /\ r.said = g.said /\ r.port = << >>
SendsBlock(g, r) ==
  /\ g.state = "ST_V3ProgramUpload" /\ r.state \in {"ST_V3ProgramUpload", "ST_V3ProgramWaitID"}
  /\ r.said = g.said /\ \E n : r.port = <<n>> /\ n.kind = "data"
EndsV3(g, chunk, r) ==
  /\ g.state = "ST_V3ProgramWaitID" /\ r.state = g.state /\ r.port = << >>
  /\ r.said = "finishedBad" \/ (r.said = "finishedOk" /\ Holds(chunk, "idOk"))

Moves(g, chunk, r) ==
  \/ Stays(g, chunk, r)
  \/ FindsV1(g, r)
  \/ FindsV3(g, r)
  \/ SendsHeader(g, chunk, r)
  \/ SendsPage(g, chunk, r)
  \/ PraisesV1(g, chunk, r)
  \/ StartsV3(g, chunk, r)
  \/ SendsBlock(g, r)
  \/ EndsV3(g, chunk, r)

\* A frame is no text, and comes alone.
LEMMA FramesAlone ==
  ASSUME NEW chunk \in Chunks, chunk[1] \in Frames
  PROVE  /\ chunk = <<chunk[1]>> /\ Len(chunk) = 1
         /\ \A w \in {"ready", "valid"} : ~Holds(chunk, w)
         /\ Word(chunk[1]) = "idOk" => Holds(chunk, "idOk")
         /\ chunk[1].kind = "updateResponse" => Holds(chunk, "updateResponse")
         /\ chunk[1].kind \notin {"id", "eol"}
<1>1. Frames \cap Texts = {}
  BY DEF Frames, Texts, BtlFrames, AppFrames
<1>2. ASSUME NEW m \in Texts, NEW n \in Texts PROVE <<m, n>>[1] \notin Frames
  BY <1>1
<1>3. chunk = <<chunk[1]>> /\ Len(chunk) = 1
  <2>1. PICK m \in Input : chunk = <<m>>
    BY <1>2 DEF Chunks
  <2> QED
    BY <2>1
<1>4. \A w : Holds(chunk, w) <=> Word(chunk[1]) = w
  BY <1>3, FewWords
<1>5. /\ Word(chunk[1]) \notin {"ready", "valid"} /\ chunk[1].kind \notin {"id", "eol"}
      /\ chunk[1].kind = "updateResponse" => Word(chunk[1]) = "updateResponse"
  BY DEF Frames, BtlFrames, AppFrames, Word
<1> QED
  BY <1>3, <1>4, <1>5

\* The words in gcf->ascii after a chunk was collected.
LEMMA CollectedWords ==
  ASSUME NEW s \in Seq(Input), Len(s) <= AsciiCap, NEW chunk \in Chunks
  PROVE  LET c == Collected(s, chunk)
         IN  /\ \A w : Holds(c, w) => Holds(s, w) \/ Holds(chunk, w)
             /\ ~Appended(s, chunk) => \A w : ~Holds(c, w)
             /\ (Appended(s, chunk) /\ Len(chunk) = 1) => Len(c) \in Nat \ {0} /\ c[Len(c)] = chunk[1]
<1>1. chunk \in Seq(Input) /\ Len(chunk) \in 1..2
  <2>1. Texts \subseteq Input
    BY DEF Input
  <2>2. CASE \E m \in Input : chunk = <<m>>
    BY <2>2
  <2>3. CASE \E m \in Texts, n \in Texts : chunk = <<m, n>>
    BY <2>1, <2>3
  <2> QED
    BY <2>2, <2>3 DEF Chunks
<1> DEFINE room == AsciiCap - Len(s)
           c == Collected(s, chunk)
<1>2. room \in Nat /\ Len(s) \in Nat
  BY HostAssumption
<1>5. Appended(s, chunk) => room > 0 \/ Len(chunk) > 1
  BY <1>1, HostAssumption DEF Appended
<1>6. ~Appended(s, chunk) => ~(room > 0) /\ ~(Len(chunk) > 1)
  BY <1>1, HostAssumption DEF Appended
<1>3. CASE Len(chunk) <= room
  <2>1. c = s \o chunk
    BY <1>3 DEF Collected
  <2> DEFINE u == s \o chunk
  <2>2. Len(u) = Len(s) + Len(chunk) /\ u \in Seq(Input)
    BY <1>1, ConcatProperties
  <2>3. \A i \in 1..(Len(s) + Len(chunk)) : u[i] = IF i <= Len(s) THEN s[i] ELSE chunk[i - Len(s)]
    BY <1>1, ConcatProperties
  <2> HIDE DEF u
  <2>4. ASSUME NEW w, Holds(u, w) PROVE Holds(s, w) \/ Holds(chunk, w)
    <3>1. PICK i \in DOMAIN u : Word(u[i]) = w
      BY <2>4 DEF Holds
    <3>2. i \in 1..(Len(s) + Len(chunk))
      BY <2>2
    <3>3. CASE i <= Len(s)
      <4>1. i \in DOMAIN s /\ Word(s[i]) = w
        BY <1>2, <2>3, <3>1, <3>2, <3>3
      <4> QED
        BY <4>1 DEF Holds
    <3>4. CASE ~(i <= Len(s))
      <4>1. i - Len(s) \in DOMAIN chunk
        BY <1>1, <1>2, <3>2, <3>4
      <4>2. Word(chunk[i - Len(s)]) = w
        BY <2>3, <3>1, <3>2, <3>4
      <4> QED
        BY <4>1, <4>2 DEF Holds
    <3> QED
      BY <3>3, <3>4
  <2>5. Appended(s, chunk)
    BY <1>1, <1>2, <1>3, HostAssumption DEF Appended
  <2>6. Len(chunk) = 1 => Len(u) \in Nat \ {0} /\ u[Len(u)] = chunk[1]
    <3> SUFFICES ASSUME Len(chunk) = 1 PROVE Len(u) \in Nat \ {0} /\ u[Len(u)] = chunk[1]
      OBVIOUS
    <3>1. Len(u) = Len(s) + 1 /\ Len(u) \in 1..(Len(s) + Len(chunk)) /\ ~(Len(u) <= Len(s))
            /\ Len(u) - Len(s) = 1
      BY <1>2, <2>2
    <3>2. u[Len(u)] = chunk[Len(u) - Len(s)]
      BY <2>3, <3>1
    <3> QED
      BY <1>2, <3>1, <3>2
  <2>7. c = u
    BY <2>1 DEF u
  <2> HIDE DEF c
  <2> QED
    BY <2>4, <2>5, <2>6, <2>7 DEF c
<1>4. CASE ~(Len(chunk) <= room)
  <2> DEFINE t == SubSeq(chunk, (room + 1) + 1, Len(chunk))
  <2>1. c = t
    <3>1. room + 2 = (room + 1) + 1
      BY <1>2
    <3> QED
      BY <1>4, <3>1 DEF Collected
  <2> DEFINE n == << >>
  <2>2. n \in Seq(Input) /\ (\A w : ~Holds(n, w)) /\ room + 1 \in Nat
    BY <1>2, FewWords
  <2>3. Follows(t, chunk, n) /\ t \in Seq(Input)
    <3>1. Follows(t, chunk, n)
      BY <1>1, <2>2, FollowsRest
    <3>2. \A i \in ((room + 1) + 1)..Len(chunk) : chunk[i] \in Input
      <4>1. \A i \in ((room + 1) + 1)..Len(chunk) : i \in 1..Len(chunk)
        BY <1>1, <1>2
      <4> QED
        BY <1>1, <4>1
    <3>3. (room + 1) + 1 \in Int /\ Len(chunk) \in Int
      BY <1>1, <1>2
    <3>4. t \in Seq(Input)
      BY <3>2, <3>3, SubSeqProperties
    <3> QED
      BY <3>1, <3>4
  <2>4. \A w : Holds(t, w) => Holds(chunk, w)
    <3> HIDE DEF n, t
    <3> QED
      BY <1>1, <2>2, <2>3, FollowsKeeps
  <2>5. ASSUME ~Appended(s, chunk) PROVE \A w : ~Holds(t, w)
    <3>0. ~(room > 0) /\ ~(Len(chunk) > 1)
      BY <1>6, <2>5, Zenon
    <3>1. room = 0 /\ Len(chunk) = 1
      <4> HIDE DEF room
      <4>1. ~(room > 0)
        BY <3>0, Zenon
      <4>2. ~(Len(chunk) > 1)
        BY <3>0, Zenon
      <4>3. room = 0
        BY <1>2, <4>1
      <4>4. \A k \in 1..2 : ~(k > 1) => k = 1
        OBVIOUS
      <4>5. Len(chunk) = 1
        BY <1>1, <4>2, <4>4, Zenon
      <4> QED
        BY <4>3, <4>5
    <3>2. ~((room + 1) + 1 <= Len(chunk))
      BY <3>1
    <3>3. t = << >>
      <4>1. (room + 1) + 1 \in Int /\ Len(chunk) \in Int
              /\ \A i \in ((room + 1) + 1)..Len(chunk) : chunk[i] \in Input
        <5>1. \A i \in ((room + 1) + 1)..Len(chunk) : i \in 1..Len(chunk)
          BY <1>1, <1>2
        <5> QED
          BY <1>1, <1>2, <5>1
      <4>2. Len(t) = IF (room + 1) + 1 <= Len(chunk) THEN Len(chunk) - ((room + 1) + 1) + 1 ELSE 0
        BY <4>1, SubSeqProperties
      <4>3. Len(t) = 0
        BY <3>2, <4>2
      <4> HIDE DEF t
      <4> QED
        BY <2>3, <4>3
    <3> QED
      BY <3>3, FewWords
  <2>6. ~(Appended(s, chunk) /\ Len(chunk) = 1)
    <3> SUFFICES ASSUME Appended(s, chunk), Len(chunk) = 1 PROVE FALSE
      BY Zenon
    <3>1. room > 0 \/ Len(chunk) > 1
      BY <1>5, Zenon
    <3> QED
      BY <1>2, <1>4, <3>1
  <2> HIDE DEF t, c
  <2> QED
    BY <2>1, <2>4, <2>5, <2>6 DEF c
<1> QED
  BY <1>3, <1>4


\* Everything GCF_Received does with a chunk is one of these moves.
LEMMA ReceivedMoves ==
  ASSUME NEW g, Good(g), Starts(g), NEW chunk \in Chunks,
         g.state = "ST_V1ProgramSync" => ~Holds(g.ascii, "ready")
  PROVE  Moves(g, chunk, GCF_Received(g, chunk))
<1> DEFINE c == [g EXCEPT !.ascii = Collected(g.ascii, chunk)]
           a == IF Collects(g) THEN CollectAscii(g, chunk) ELSE g
           r == GCF_Received(g, chunk)
           m == chunk[1]
<1>1. /\ \A w : Holds(Collected(g.ascii, chunk), w) => Holds(g.ascii, w) \/ Holds(chunk, w)
      /\ ~Appended(g.ascii, chunk) => \A w : ~Holds(Collected(g.ascii, chunk), w)
      /\ (Appended(g.ascii, chunk) /\ Len(chunk) = 1) =>
           /\ Len(Collected(g.ascii, chunk)) \in Nat \ {0}
           /\ Collected(g.ascii, chunk)[Len(Collected(g.ascii, chunk))] = m
  <2>1. g.ascii \in Seq(Input) /\ Len(g.ascii) <= AsciiCap
    BY DEF Starts, HostOK, Host
  <2> QED
    BY <2>1, CollectedWords
<1>2. Good(c) /\ Starts(c)
  <2>1. Collected(g.ascii, chunk) \in Seq(Input) /\ Len(Collected(g.ascii, chunk)) <= AsciiCap
    BY CollectedTyped DEF Good, HostOK, Host
  <2> QED
    BY <2>1 DEF Good, Starts, HostOK, Host, Placed, Armed
<1>3. /\ c.state = g.state /\ c.said = g.said /\ c.port = g.port /\ c.fd = g.fd
      /\ c.ascii = Collected(g.ascii, chunk) /\ g.port = << >>
  BY DEF Starts, HostOK, Host
<1>4. Collects(g) => a = IF Appended(g.ascii, chunk) THEN RxAscii(c) ELSE c
  BY DEF CollectAscii
<1>5. r = IF m \in Frames THEN PROT_Packet(a, m) ELSE a
  BY DEF GCF_Received
<1>6. Good(a)
  BY <1>2, <1>4, RxAsciiGood
<1>7. /\ Holds(c.ascii, "ready") => Holds(g.ascii, "ready") \/ Holds(chunk, "ready")
      /\ Holds(c.ascii, "valid") => Holds(g.ascii, "valid") \/ Holds(chunk, "valid")
  BY <1>1, <1>3
<1>8. \A w : ~Holds(<< >>, w)
  BY FewWords
<1> HIDE DEF c, a, r, m
<1>9. CASE ~Collects(g) /\ m \notin Frames
  <2>1. r = g
    BY <1>5, <1>9 DEF a
  <2> QED
    BY <1>3, <2>1 DEF Moves, Stays, Keeps, r
<1>10. CASE ~Collects(g) /\ m \in Frames
  <2>1. r = PROT_Packet(g, m) /\ HostOK(g)
    BY <1>5, <1>10 DEF a, Good
  <2>2. /\ chunk = <<m>> /\ \A w \in {"ready", "valid"} : ~Holds(<<m>>, w)
        /\ Word(m) = "idOk" => Holds(chunk, "idOk")
        /\ m.kind = "updateResponse" => Holds(chunk, "updateResponse")
    BY <1>10, FramesAlone DEF m
  <2>3. g.state \notin {"ST_BootloaderQuery", "ST_V1ProgramSync"}
    BY <1>10 DEF Collects
  <2>4. \/ /\ r.said = g.said /\ r.port = g.port /\ r.ascii \in {g.ascii, <<m>>}
           /\ r.state = g.state \/ (g.state = "ST_Reset" /\ r.state \in Early)
        \/ /\ g.state = "ST_V3ProgramSync" /\ m.kind = "updateResponse"
           /\ r.state = "ST_V3ProgramUpload" /\ r.said = g.said /\ r.port = g.port
        \/ /\ g.state = "ST_V3ProgramUpload" /\ r.said = g.said
           /\ r.state \in {"ST_V3ProgramUpload", "ST_V3ProgramWaitID"}
           /\ \E n : r.port = <<n>> /\ n.kind = "data"
        \/ /\ g.state = "ST_V3ProgramWaitID" /\ r.state = g.state /\ r.port = g.port
           /\ r.said = "finishedBad" \/ (r.said = "finishedOk" /\ Word(m) = "idOk")
    BY <1>10, <2>1, <2>3, PacketGoes
  <2>5. CASE /\ r.said = g.said /\ r.port = g.port /\ r.ascii \in {g.ascii, <<m>>}
             /\ r.state = g.state \/ (g.state = "ST_Reset" /\ r.state \in Early)
    <3>1. Keeps(g, chunk, r)
      BY <2>2, <2>5 DEF Keeps
    <3> QED
      BY <1>3, <2>3, <2>5, <3>1 DEF Moves, Stays, r
  <2> QED
    BY <1>3, <2>2, <2>4, <2>5 DEF Moves, StartsV3, SendsBlock, EndsV3, r
<1>11. CASE Collects(g) /\ ~Appended(g.ascii, chunk)
  <2>1. a = c /\ ~Holds(c.ascii, "ready") /\ ~Holds(c.ascii, "valid")
    BY <1>1, <1>3, <1>4, <1>11
  <2>2. CASE m \notin Frames
    <3>1. r = c
      BY <1>5, <2>1, <2>2
    <3> QED
      BY <1>3, <2>1, <3>1 DEF Moves, Stays, Keeps, r
  <2>3. CASE m \in Frames
    <3>1. r = PROT_Packet(c, m) /\ HostOK(c)
      BY <1>2, <1>5, <2>1, <2>3 DEF Good
    <3>2. \A w \in {"ready", "valid"} : ~Holds(<<m>>, w)
      BY <2>3, FramesAlone DEF m
    <3>3. c.state \notin {"ST_Reset", "ST_V3ProgramSync", "ST_V3ProgramUpload", "ST_V3ProgramWaitID"}
      BY <1>3, <1>11 DEF Collects
    <3>4. \/ /\ r.said = c.said /\ r.port = c.port /\ r.ascii \in {c.ascii, <<m>>}
             /\ r.state = c.state
          \/ /\ c.state = "ST_BootloaderQuery" /\ r.state = "ST_V3ProgramSync"
             /\ r.said = c.said /\ r.port = <<Update>>
      BY <1>2, <2>3, <3>1, <3>3, PacketGoes
    <3>5. r.ascii \in {c.ascii, <<m>>} => ~Holds(r.ascii, "ready") /\ ~Holds(r.ascii, "valid")
      BY <2>1, <3>2
    <3> QED
      BY <1>3, <3>4, <3>5 DEF Moves, Stays, Keeps, FindsV3, r
  <2> QED
    BY <2>2, <2>3
<1>12. CASE Collects(g) /\ Appended(g.ascii, chunk)
  <2>1. a = RxAscii(c)
    BY <1>4, <1>12
  <2>2. \/ Same(c, a) /\ (c.state = "ST_V1ProgramSync" => ~Holds(c.ascii, "ready"))
        \/ /\ c.state = "ST_BootloaderQuery" /\ LastText(c) \in {"id", "eol"}
           /\ Goes(c, a, "ST_V1ProgramSync", Sync)
        \/ /\ c.state = "ST_V1ProgramSync" /\ Holds(c.ascii, "ready")
           /\ Goes(c, a, "ST_V1ProgramUpload", Header)
        \/ /\ c.state = "ST_V1ProgramUpload" /\ a.state \in Sending \cup {"ST_Init"}
           /\ a.ascii = << >> /\ a.said = c.said /\ PagePort(a.port)
        \/ /\ c.state = "ST_V1ProgramValidate" /\ Holds(c.ascii, "valid")
           /\ a.state = c.state /\ a.ascii = c.ascii /\ a.said = "written"
           /\ a.port = << >>
    BY <1>2, <2>1, RxAsciiGoes
  <2>3. CASE m \notin Frames
    <3>1. r = a
      BY <1>5, <2>3
    <3>2. Same(c, a) => Keeps(g, chunk, a)
      BY <1>7 DEF Same, Keeps
    <3>3. a.ascii = << >> \/ a.ascii = c.ascii => Keeps(g, chunk, a)
      BY <1>7, <1>8 DEF Keeps
    <3>4. c.state = "ST_V1ProgramSync" /\ Holds(c.ascii, "ready") => Holds(chunk, "ready")
      BY <1>3, <1>7
    <3>5. CASE Same(c, a) /\ (c.state = "ST_V1ProgramSync" => ~Holds(c.ascii, "ready"))
      BY <1>3, <3>1, <3>2, <3>5 DEF Moves, Stays, Same, r
    <3>6. CASE /\ c.state = "ST_BootloaderQuery"
               /\ Goes(c, a, "ST_V1ProgramSync", Sync)
      BY <1>3, <3>1, <3>6 DEF Moves, FindsV1, Goes, r
    <3>7. CASE /\ c.state = "ST_V1ProgramSync" /\ Holds(c.ascii, "ready")
               /\ Goes(c, a, "ST_V1ProgramUpload", Header)
      BY <1>3, <3>1, <3>4, <3>7 DEF Moves, SendsHeader, Goes, r
    <3>8. CASE /\ c.state = "ST_V1ProgramUpload" /\ a.state \in Sending \cup {"ST_Init"}
               /\ a.ascii = << >> /\ a.said = c.said /\ PagePort(a.port)
      BY <1>3, <3>1, <3>3, <3>8 DEF Moves, SendsPage, r
    <3>9. CASE /\ c.state = "ST_V1ProgramValidate" /\ Holds(c.ascii, "valid")
               /\ a.state = c.state /\ a.ascii = c.ascii /\ a.said = "written"
               /\ a.port = << >>
      BY <1>3, <1>7, <3>1, <3>3, <3>9 DEF Moves, PraisesV1, r
    <3> QED
      BY <2>2, <3>5, <3>6, <3>7, <3>8, <3>9
  <2>4. CASE m \in Frames
    <3>1. r = PROT_Packet(a, m) /\ HostOK(a)
      BY <1>5, <1>6, <2>4 DEF Good
    <3>2. /\ \A w \in {"ready", "valid"} : ~Holds(<<m>>, w) /\ ~Holds(chunk, w)
          /\ Len(chunk) = 1 /\ m.kind \notin {"id", "eol"}
      BY <2>4, FramesAlone DEF m
    <3>3. LastText(c) = m.kind
      BY <1>1, <1>3, <1>12, <3>2 DEF LastText
    <3>4. c.state = "ST_V1ProgramSync" => ~Holds(c.ascii, "ready")
      BY <1>3, <1>7, <3>2
    <3>5. \/ Same(c, a)
          \/ /\ c.state = "ST_V1ProgramUpload" /\ a.state \in Sending \cup {"ST_Init"}
             /\ a.ascii = << >> /\ a.said = c.said /\ PagePort(a.port)
          \/ /\ c.state = "ST_V1ProgramValidate" /\ Holds(c.ascii, "valid")
             /\ a.state = c.state /\ a.ascii = c.ascii /\ a.said = "written"
             /\ a.port = << >>
      BY <2>2, <3>2, <3>3, <3>4
    <3>6. c.state \in {"ST_BootloaderQuery", "ST_V1ProgramSync", "ST_V1ProgramUpload",
                       "ST_V1ProgramValidate"}
      BY <1>3, <1>12 DEF Collects
    <3>7. a.state \in {"ST_BootloaderQuery", "ST_V1ProgramSync", "ST_V1ProgramUpload",
                       "ST_V1ProgramValidate", "ST_Init"}
      BY <3>5, <3>6 DEF Same, Sending
    <3>8. a.state = "ST_BootloaderQuery" => Starts(a) /\ Same(c, a)
      BY <1>2, <3>1, <3>5 DEF Starts, Same, Sending
    <3>9. \/ /\ r.said = a.said /\ r.port = a.port /\ r.ascii \in {a.ascii, <<m>>}
             /\ r.state = a.state
          \/ /\ a.state = "ST_BootloaderQuery" /\ r.state = "ST_V3ProgramSync"
             /\ r.said = a.said /\ r.port = <<Update>>
      BY <2>4, <3>1, <3>7, <3>8, PacketGoes
    <3>10. CASE /\ a.state = "ST_BootloaderQuery" /\ r.state = "ST_V3ProgramSync"
                /\ r.said = a.said /\ r.port = <<Update>>
      BY <1>3, <3>8, <3>10 DEF Moves, FindsV3, Same, r
    <3>11. CASE /\ r.said = a.said /\ r.port = a.port /\ r.ascii \in {a.ascii, <<m>>}
                /\ r.state = a.state
      <4>1. \A w \in {"ready", "valid"} : Holds(r.ascii, w) => Holds(a.ascii, w)
        BY <3>2, <3>11
      <4>2. a.ascii \in {c.ascii, << >>} => Keeps(g, chunk, r)
        BY <1>7, <1>8, <4>1 DEF Keeps
      <4>3. CASE Same(c, a)
        BY <1>3, <3>4, <3>11, <4>1, <4>2, <4>3 DEF Moves, Stays, Same, r
      <4>4. CASE /\ c.state = "ST_V1ProgramUpload" /\ a.state \in Sending \cup {"ST_Init"}
                 /\ a.ascii = << >> /\ a.said = c.said /\ PagePort(a.port)
        BY <1>3, <3>11, <4>2, <4>4 DEF Moves, SendsPage, r
      <4>5. CASE /\ c.state = "ST_V1ProgramValidate" /\ Holds(c.ascii, "valid")
                 /\ a.state = c.state /\ a.ascii = c.ascii /\ a.said = "written"
                 /\ a.port = << >>
        BY <1>3, <1>7, <3>11, <4>2, <4>5 DEF Moves, PraisesV1, r
      <4> QED
        BY <3>5, <4>3, <4>4, <4>5
    <3> QED
      BY <3>9, <3>10, <3>11
  <2> QED
    BY <2>3, <2>4
<1> QED
  BY <1>9, <1>10, <1>11, <1>12


-----------------------------------------------------------------------------
(* The lines after a step of the host.                                     *)

\* The commands that belong to one state of the upload.
Heavy == {"updateRequest", "sync", "header", "page"}
Light(p) == \A w \in Heavy : ~Holds(p, w)

\* The line D becomes D2 when W is written.
Adds(D, D2, W) ==
  /\ \A w : Holds(D2, w) => Holds(D, w) \/ Holds(W, w)
  /\ \A w : Once(D, w) /\ Once(W, w) /\ ~(Holds(D, w) /\ Holds(W, w)) => Once(D2, w)

\* The line H becomes H2 when the messages c are read from its front.
Takes(H, H2, c) ==
  /\ \A w : Holds(H2, w) => Holds(H, w)
  /\ \A w : Once(H, w) => Once(H2, w)
  /\ \A v, w : NoneBehind(H, v, w) => NoneBehind(H2, v, w)
  /\ \A w : Holds(c, w) => Holds(H, w)
  /\ \A w : Once(H, w) /\ Holds(c, w) => ~Holds(H2, w)
  /\ \A v, w : NoneBehind(H, v, w) /\ Holds(c, v) => ~Holds(H2, w)

\* What is written of what the handler put out: all of it or less.
Writes(p, W) ==
  /\ p = << >> => W = << >>
  /\ \A m : p = <<m>> => W \in {<< >>, <<m>>}

\* A single message that is written.
LEMMA WritesOne ==
  ASSUME NEW p, NEW W, NEW m, Writes(p, W), p \in {<< >>, <<m>>}
  PROVE  \A w : (Holds(W, w) => Word(m) = w) /\ Once(W, w)
<1>1. W \in {<< >>, <<m>>}
  BY DEF Writes
<1> QED
  BY <1>1, FewWords

\* A move of the host that reads keeps the lines sound.
LEMMA MovesSound ==
  ASSUME NEW g, NEW r, NEW c, NEW d, NEW D, NEW H, NEW D2, NEW H2, NEW W,
         Sound(g.state, g.ascii, g.said, d, D, H), Moves(g, c, r),
         Adds(D, D2, W), Takes(H, H2, c), Writes(r.port, W)
  PROVE  Sound(r.state, r.ascii, r.said, d, D2, H2)
<1> USE DEF Heavy
<1>1. /\ \A w : Holds(D2, w) => Holds(D, w) \/ Holds(W, w)
      /\ \A w : Once(D, w) /\ Once(W, w) /\ ~(Holds(D, w) /\ Holds(W, w)) => Once(D2, w)
      /\ \A w : Holds(H2, w) => Holds(H, w)
      /\ \A w : Once(H, w) => Once(H2, w)
      /\ \A v, w : NoneBehind(H, v, w) => NoneBehind(H2, v, w)
      /\ \A w : Holds(c, w) => Holds(H, w)
      /\ \A w : Once(H, w) /\ Holds(c, w) => ~Holds(H2, w)
      /\ \A v, w : NoneBehind(H, v, w) /\ Holds(c, v) => ~Holds(H2, w)
  BY DEF Adds, Takes
<1>2. r.port = << >> => \A w : ~Holds(W, w) /\ Once(W, w)
  BY FewWords DEF Writes
<1>3. \A w : ~Holds(<< >>, w)
  BY FewWords
<1>4. Word(Sync) = "sync" /\ Word(Header) = "header" /\ Word(Update) = "updateRequest"
  BY DEF Word, Sync, Header, Update
<1>5. ASSUME Stays(g, c, r) PROVE Sound(r.state, r.ascii, r.said, d, D2, H2)
  <2>1. /\ \A w : Holds(D2, w) => Holds(D, w)
        /\ \A w : Once(D, w) => Once(D2, w)
        /\ r.said = g.said
        /\ Holds(r.ascii, "valid") => Holds(g.ascii, "valid") \/ Holds(H, "valid")
    BY <1>1, <1>2, <1>5 DEF Stays, Keeps
  <2>2. Asked(D2, H2, "updateRequest", "updateResponse") /\ Asked(D2, H2, "sync", "ready")
    BY <1>1, <2>1 DEF Sound, Asked
  <2>3. CASE r.state = g.state /\ (g.state = "ST_V1ProgramSync" => ~Holds(r.ascii, "ready"))
    BY <1>1, <2>1, <2>2, <2>3 DEF Sound, Sending
  <2>4. CASE g.state = "ST_Reset" /\ r.state \in Early
    <3>1. /\ \A w \in Heavy : ~Holds(D, w)
          /\ \A w \in {"updateResponse", "ready", "valid"} : ~Holds(H, w)
          /\ g.said \notin {"written", "finishedOk"}
      BY <2>4 DEF Sound, Sending
    <3>2. r.state \notin Sending \cup {"ST_V1ProgramSync", "ST_V3ProgramUpload", "ST_V3ProgramWaitID"}
      BY <2>4 DEF Early, Sending
    <3> QED
      BY <1>1, <2>1, <2>2, <3>1, <3>2 DEF Sound
  <2> QED
    BY <1>5, <2>3, <2>4 DEF Stays
<1>6. ASSUME FindsV1(g, r) PROVE Sound(r.state, r.ascii, r.said, d, D2, H2)
  <2>1. /\ g.state = "ST_BootloaderQuery" /\ r.state = "ST_V1ProgramSync" /\ r.ascii = << >>
        /\ r.said = g.said /\ r.port = <<Sync>>
    BY <1>6 DEF FindsV1, Goes
  <2>2. \A w : (Holds(W, w) => w = "sync") /\ Once(W, w)
    BY <1>4, <2>1, WritesOne
  <2>3. /\ \A w \in Heavy : ~Holds(D, w)
        /\ \A w \in {"updateResponse", "ready", "valid"} : ~Holds(H, w)
        /\ g.said \notin {"written", "finishedOk"}
    BY <2>1 DEF Sound, Sending
  <2>4. Asked(D2, H2, "updateRequest", "updateResponse") /\ Asked(D2, H2, "sync", "ready")
    BY <1>1, <2>2, <2>3 DEF Sound, Asked
  <2> QED
    BY <1>1, <1>3, <2>1, <2>2, <2>3, <2>4 DEF Sound, Sending
<1>7. ASSUME FindsV3(g, r) PROVE Sound(r.state, r.ascii, r.said, d, D2, H2)
  <2>1. /\ g.state = "ST_BootloaderQuery" /\ r.state = "ST_V3ProgramSync"
        /\ r.said = g.said /\ r.port = <<Update>>
    BY <1>7 DEF FindsV3
  <2>2. \A w : (Holds(W, w) => w = "updateRequest") /\ Once(W, w)
    BY <1>4, <2>1, WritesOne
  <2>3. /\ \A w \in Heavy : ~Holds(D, w)
        /\ \A w \in {"updateResponse", "ready", "valid"} : ~Holds(H, w)
        /\ g.said \notin {"written", "finishedOk"}
    BY <2>1 DEF Sound, Sending
  <2>4. Asked(D2, H2, "updateRequest", "updateResponse") /\ Asked(D2, H2, "sync", "ready")
    BY <1>1, <2>2, <2>3 DEF Sound, Asked
  <2> QED
    BY <1>1, <2>1, <2>2, <2>3, <2>4 DEF Sound, Sending
<1>8. ASSUME SendsHeader(g, c, r) PROVE Sound(r.state, r.ascii, r.said, d, D2, H2)
  <2>1. /\ g.state = "ST_V1ProgramSync" /\ r.state = "ST_V1ProgramUpload" /\ r.ascii = << >>
        /\ r.said = g.said /\ r.port = <<Header>> /\ Holds(c, "ready")
    BY <1>8 DEF SendsHeader, Goes
  <2>2. \A w : (Holds(W, w) => w = "header") /\ Once(W, w)
    BY <1>4, <2>1, WritesOne
  <2>3. /\ \A w \in Heavy : ~Holds(D, w)
        /\ ~Holds(H, "valid") /\ ~Holds(H, "updateResponse") /\ ~Holds(H2, "ready")
        /\ d.mode # "loading"
        /\ g.said \notin {"written", "finishedOk"}
    BY <1>1, <2>1 DEF Sound, Asked, Sending
  <2>4. Asked(D2, H2, "updateRequest", "updateResponse") /\ Asked(D2, H2, "sync", "ready")
    BY <1>1, <2>2, <2>3 DEF Sound, Asked
  <2> QED
    BY <1>1, <1>3, <2>1, <2>2, <2>3, <2>4 DEF Sound, Sending
<1>9. ASSUME SendsPage(g, c, r) PROVE Sound(r.state, r.ascii, r.said, d, D2, H2)
  <2>1. /\ g.state = "ST_V1ProgramUpload" /\ r.state \in Sending \cup {"ST_Init"}
        /\ r.said = g.said /\ PagePort(r.port)
        /\ Holds(r.ascii, "valid") => Holds(g.ascii, "valid") \/ Holds(H, "valid")
    BY <1>1, <1>9 DEF SendsPage, Keeps
  <2>2. \A w : (Holds(W, w) => w = "page") /\ Once(W, w)
    <3>1. CASE r.port = << >>
      BY <1>2, <3>1
    <3>2. CASE \E n \in Nat : r.port = <<[kind |-> "page", page |-> n]>>
      <4>1. PICK n \in Nat : r.port = <<[kind |-> "page", page |-> n]>>
        BY <3>2
      <4> DEFINE m == [kind |-> "page", page |-> n]
      <4>2. Word(m) = "page"
        BY DEF Word
      <4> HIDE DEF m
      <4> QED
        BY <4>1, <4>2, WritesOne DEF m
    <3> QED
      BY <2>1, <3>1, <3>2 DEF PagePort
  <2>3. /\ \A w \in {"updateRequest", "sync"} : ~Holds(D, w)
        /\ \A w \in {"updateResponse", "ready"} : ~Holds(H, w)
        /\ g.said \notin {"written", "finishedOk"}
        /\ Holds(D, "header") => /\ d.mode # "loading" /\ ~Holds(H, "valid")
                                 /\ ~Holds(g.ascii, "valid")
        /\ Holds(g.ascii, "valid") => GoodImage(d)
    BY <2>1 DEF Sound, Sending
  <2>4. Asked(D2, H2, "updateRequest", "updateResponse") /\ Asked(D2, H2, "sync", "ready")
    BY <1>1, <2>2, <2>3 DEF Sound, Asked
  <2> QED
    BY <1>1, <2>1, <2>2, <2>3, <2>4 DEF Sound, Sending
<1>10. ASSUME PraisesV1(g, c, r) PROVE Sound(r.state, r.ascii, r.said, d, D2, H2)
  <2>1. /\ g.state = "ST_V1ProgramValidate" /\ r.state = g.state /\ r.said = "written"
        /\ r.port = << >>
        /\ Holds(g.ascii, "valid") \/ Holds(H, "valid")
    BY <1>1, <1>10 DEF PraisesV1
  <2>2. /\ \A w : Holds(D2, w) => Holds(D, w)
        /\ \A w : Once(D, w) => Once(D2, w)
    BY <1>1, <1>2, <2>1
  <2>3. GoodImage(d) /\ ~Holds(D, "header")
    BY <2>1 DEF Sound, Sending
  <2>4. Asked(D2, H2, "updateRequest", "updateResponse") /\ Asked(D2, H2, "sync", "ready")
    BY <1>1, <2>2 DEF Sound, Asked
  <2> QED
    BY <1>1, <2>1, <2>2, <2>3, <2>4 DEF Sound, Sending
<1>11. ASSUME StartsV3(g, c, r) PROVE Sound(r.state, r.ascii, r.said, d, D2, H2)
  <2>1. /\ g.state = "ST_V3ProgramSync" /\ r.state = "ST_V3ProgramUpload" /\ r.said = g.said
        /\ r.port = << >> /\ Holds(c, "updateResponse") /\ Holds(H, "updateResponse")
    BY <1>1, <1>11 DEF StartsV3
  <2>2. /\ \A w : Holds(D2, w) => Holds(D, w)
        /\ \A w : Once(D, w) => Once(D2, w)
    BY <1>1, <1>2, <2>1
  <2>3. /\ \A w \in Heavy : ~Holds(D, w)
        /\ ~Holds(H, "ready") /\ ~Holds(H, "valid") /\ ~Holds(H2, "updateResponse")
        /\ g.said \notin {"written", "finishedOk"}
        /\ Holds(H2, "idOk") => GoodImage(d)
    BY <1>1, <2>1 DEF Sound, Asked, Sending
  <2>4. Asked(D2, H2, "updateRequest", "updateResponse") /\ Asked(D2, H2, "sync", "ready")
    BY <1>1, <2>2 DEF Sound, Asked
  <2> QED
    BY <1>1, <2>1, <2>2, <2>3, <2>4 DEF Sound, Sending
<1>12. ASSUME SendsBlock(g, r) PROVE Sound(r.state, r.ascii, r.said, d, D2, H2)
  <2>1. /\ g.state = "ST_V3ProgramUpload"
        /\ r.state \in {"ST_V3ProgramUpload", "ST_V3ProgramWaitID"}
        /\ r.said = g.said /\ \E n : r.port = <<n>> /\ n.kind = "data"
    BY <1>12 DEF SendsBlock
  <2>2. \A w : (Holds(W, w) => w = "data") /\ Once(W, w)
    <3>1. PICK n : r.port = <<n>> /\ n.kind = "data"
      BY <2>1
    <3>2. Word(n) = "data"
      BY <3>1 DEF Word
    <3> QED
      BY <3>1, <3>2, WritesOne
  <2>3. /\ \A w \in Heavy : ~Holds(D, w)
        /\ \A w \in {"updateResponse", "ready", "valid"} : ~Holds(H, w)
        /\ g.said \notin {"written", "finishedOk"}
        /\ Holds(H, "idOk") => GoodImage(d)
    BY <2>1 DEF Sound, Sending
  <2>4. Asked(D2, H2, "updateRequest", "updateResponse") /\ Asked(D2, H2, "sync", "ready")
    BY <1>1, <2>2, <2>3 DEF Sound, Asked
  <2> QED
    BY <1>1, <2>1, <2>2, <2>3, <2>4 DEF Sound, Sending
<1>13. ASSUME EndsV3(g, c, r) PROVE Sound(r.state, r.ascii, r.said, d, D2, H2)
  <2>1. /\ g.state = "ST_V3ProgramWaitID" /\ r.state = g.state /\ r.port = << >>
        /\ r.said = "finishedBad" \/ (r.said = "finishedOk" /\ Holds(H, "idOk"))
    BY <1>1, <1>13 DEF EndsV3
  <2>2. /\ \A w : Holds(D2, w) => Holds(D, w)
        /\ \A w : Once(D, w) => Once(D2, w)
    BY <1>1, <1>2, <2>1
  <2>3. /\ \A w \in Heavy : ~Holds(D, w)
        /\ \A w \in {"updateResponse", "ready", "valid"} : ~Holds(H, w)
        /\ Holds(H, "idOk") => GoodImage(d)
    BY <2>1 DEF Sound, Sending
  <2>4. Asked(D2, H2, "updateRequest", "updateResponse") /\ Asked(D2, H2, "sync", "ready")
    BY <1>1, <2>2 DEF Sound, Asked
  <2> QED
    BY <1>1, <2>1, <2>2, <2>3, <2>4 DEF Sound, Sending
<1> QED
  BY <1>5, <1>6, <1>7, <1>8, <1>9, <1>10, <1>11, <1>12, <1>13 DEF Moves


\* What a step of the host leaves on the lines.
LEMMA CarryAdds ==
  ASSUME SysInv, SysInv', NEW unread \in Seq(Input), Carry(unread), h'.port \in Seq(Output)
  PROVE  /\ Adds(toDev, toDev', Written) /\ Writes(h'.port, Written)
         /\ \A w : Holds(Written, w) => Holds(h'.port, w)
         /\ toHost' \in {<< >>, unread} /\ dev' = dev
<1>1. Follows(toDev', toDev, Written) /\ toHost' \in {<< >>, unread} /\ dev' = dev
  BY CarryFollows
<1>2. toDev \in Seq(Output) /\ toDev' \in Seq(Output)
  BY DEF SysInv, LineOK
<1>3. /\ Written \in Seq(Output)
      /\ \A w : Holds(Written, w) => Holds(h'.port, w)
      /\ Writes(h'.port, Written)
  BY WrittenWords DEF Writes
<1>4. Adds(toDev, toDev', Written)
  <2> DEFINE W == Written
  <2>1. W \in Seq(Output) /\ Follows(toDev', toDev, W)
    BY <1>1, <1>3
  <2> HIDE DEF W
  <2>2. Adds(toDev, toDev', W)
    BY <1>2, <2>1, FollowsKeeps DEF Adds
  <2> QED
    BY <2>2 DEF W
<1> QED
  BY <1>1, <1>3, <1>4

\* A line that is left alone or emptied.
LEMMA TakesNothing ==
  ASSUME NEW H, NEW H2 \in {<< >>, H}
  PROVE  Takes(H, H2, << >>)
  BY FewWords DEF Takes

\* What the host reads keeps the lines sound.
LEMMA ReceiveSound ==
  ASSUME SysInv, SysInv', SoundNow, SysReceive
  PROVE  SoundNow'
<1>1. PICK n \in 1..2 : /\ Readable(n)
                        /\ Receive(SubSeq(toHost, 1, n))
                        /\ Carry(SubSeq(toHost, n + 1, Len(toHost)))
  BY DEF SysReceive
<1> DEFINE c    == SubSeq(toHost, 1, n)
           rest == SubSeq(toHost, n + 1, Len(toHost))
<1>2. c \in Chunks
  BY <1>1, ReadTyped
<1>3. /\ Follows(rest, toHost, << >>) /\ rest \in Seq(Input)
      /\ \A w : Holds(c, w) => Holds(toHost, w)
      /\ \A w : Once(toHost, w) /\ Holds(c, w) => ~Holds(rest, w)
      /\ \A v, w : NoneBehind(toHost, v, w) /\ Holds(c, v) => ~Holds(rest, w)
  BY <1>1, ReadTakes
<1>4. Carry(rest) /\ CanRead /\ h' = GCF_Received(Fresh, c)
  BY <1>1 DEF Receive
<1> HIDE DEF c, rest
<1>5. HostInv /\ h'.port \in Seq(Output) /\ loop # "start" /\ h.fd # 0
  BY <1>4 DEF SysInv, HostInv, TypeOK, Host, CanRead
<1>6. Good(Fresh) /\ Starts(Fresh)
  <2>1. Good(Fresh)
    BY <1>5, FreshGood
  <2>2. Fresh.fd = h.fd /\ Fresh.port = << >>
    BY <1>5 DEF HostInv, TypeOK, Host, Fresh
  <2> QED
    BY <1>5, <2>1, <2>2 DEF Starts, Good
<1>7. Fresh.state = h.state /\ Fresh.ascii = h.ascii /\ Fresh.said = h.said
  BY <1>5 DEF HostInv, TypeOK, Host, Fresh
<1>8. Sound(Fresh.state, Fresh.ascii, Fresh.said, dev, toDev, toHost)
  BY <1>7 DEF SoundNow
<1>9. Moves(Fresh, c, h')
  <2>1. Fresh.state = "ST_V1ProgramSync" => ~Holds(Fresh.ascii, "ready")
    BY <1>8 DEF Sound
  <2> QED
    BY <1>2, <1>4, <1>6, <2>1, ReceivedMoves
<1>10. /\ Adds(toDev, toDev', Written) /\ Writes(h'.port, Written)
       /\ toHost' \in {<< >>, rest} /\ dev' = dev
  BY <1>3, <1>4, <1>5, CarryAdds
<1>11. Takes(toHost, toHost', c)
  <2> DEFINE e == << >>
  <2>0. e \in Seq(Input) /\ toHost \in Seq(Input) /\ Follows(rest, toHost, e)
          /\ \A w : ~Holds(e, w) /\ Once(e, w)
    BY <1>3, FewWords DEF SysInv, LineOK
  <2>1. \A v, w : NoneBehind(e, v, w)
    BY FewWords
  <2> HIDE DEF e
  <2>2. /\ \A w : Holds(rest, w) => Holds(toHost, w)
        /\ \A w : Once(toHost, w) => Once(rest, w)
        /\ \A v, w : NoneBehind(toHost, v, w) => NoneBehind(rest, v, w)
    BY <1>3, <2>0, <2>1, FollowsKeeps
  <2>3. toHost' = << >> \/ toHost' = rest
    BY <1>10
  <2>4. CASE toHost' = rest
    BY <1>3, <2>2, <2>4 DEF Takes
  <2>5. CASE toHost' = << >>
    BY <1>3, <2>5, FewWords DEF Takes
  <2> QED
    BY <2>3, <2>4, <2>5
<1>12. Sound(h'.state, h'.ascii, h'.said, dev, toDev', toHost')
  BY <1>8, <1>9, <1>10, <1>11, MovesSound
<1> QED
  BY <1>10, <1>12 DEF SoundNow


-----------------------------------------------------------------------------
(* What the host does by itself.                                           *)

\* A handler that writes no such command and goes nowhere but back to the search
\* for the bootloader.
Mild(g, r) ==
  /\ r.said = g.said /\ r.ascii \in {g.ascii, << >>}
  /\ r.state = g.state \/ r.state \in Early
  /\ Light(g.port) => Light(r.port)

\* Two mild handlers, one after the other, are mild.
LEMMA MildThenMild ==
  ASSUME NEW g, NEW a, NEW r
  PROVE  /\ Mild(g, a) /\ Mild(a, r) => Mild(g, r)
         /\ Mild(g, g)
  BY DEF Mild

\* A change of the other fields is mild.
LEMMA FieldsMild ==
  ASSUME NEW g, HostOK(g)
  PROVE  /\ \A v : Mild(g, [g EXCEPT !.substate = v]) /\ Mild(g, [g EXCEPT !.retry = v])
                   /\ Mild(g, [g EXCEPT !.fd = v]) /\ Mild(g, [g EXCEPT !.timer = v])
                   /\ Mild(g, [g EXCEPT !.running = v])
         /\ Mild(g, [g EXCEPT !.ascii = << >>])
         /\ \A st \in Early : Mild(g, [g EXCEPT !.state = st])
  BY DEF HostOK, Host, Mild

\* One more command in the record of the port.
LEMMA LightThenLight ==
  ASSUME NEW p \in Seq(Output), Light(p), NEW m, m.kind \notin Heavy
  PROVE  Light(Append(p, m))
<1> DEFINE q == Append(p, m)
<1>1. Word(m) \notin Heavy
  BY DEF Word, Heavy
<1>2. DOMAIN q = 1..(Len(p) + 1) /\ DOMAIN p = 1..Len(p) /\ Len(p) \in Nat
  OBVIOUS
<1>3. \A i \in 1..(Len(p) + 1) : q[i] = IF i <= Len(p) THEN p[i] ELSE m
  OBVIOUS
<1> HIDE DEF q
<1>4. ASSUME NEW i \in DOMAIN q PROVE Word(q[i]) \notin Heavy
  <2>1. CASE i <= Len(p)
    <3>1. q[i] = p[i] /\ i \in DOMAIN p
      BY <1>2, <1>3, <2>1
    <3> QED
      BY <3>1 DEF Light, Holds
  <2>2. CASE ~(i <= Len(p))
    <3>1. q[i] = m
      BY <1>2, <1>3, <2>2
    <3> QED
      BY <1>1, <3>1
  <2> QED
    BY <2>1, <2>2
<1>5. Light(q)
  BY <1>4 DEF Light, Holds
<1> QED
  BY <1>5 DEF q

\* The platform layer, the giving up and the end of a reset are mild, and a
\* disconnect event moves the host only from the reset or the search.
LEMMA PlatformMild ==
  ASSUME NEW g, HostOK(g)
  PROVE  /\ Mild(g, PL_SetTimeout(g)) /\ Mild(g, PL_ClearTimeout(g)) /\ Mild(g, PL_ShutDown(g))
         /\ \A m \in Output : m.kind \notin Heavy => Mild(g, Port(g, m)) /\ Mild(g, Write(g, m))
         /\ \A o : Mild(g, PL_Connect(g, o))
         /\ Mild(g, gcfRetry(g)) /\ Mild(g, ResetSuccess(g))
         /\ Mild(g, Disconnected(g)) /\ Mild(g, PL_Disconnect(g))
         /\ PL_Disconnect(g).state = g.state \/ g.state \in {"ST_Reset", "ST_BootloaderQuery"}
<1>1. ASSUME NEW x, HostOK(x)
      PROVE  /\ Mild(x, PL_SetTimeout(x)) /\ Mild(x, PL_ClearTimeout(x)) /\ Mild(x, PL_ShutDown(x))
             /\ \A m : m.kind \notin Heavy => Mild(x, Port(x, m))
  <2>1. ASSUME NEW m, m.kind \notin Heavy PROVE Mild(x, Port(x, m))
    <3> DEFINE q == Append(x.port, m)
    <3>1. Light(x.port) => Light(q)
      BY <1>1, <2>1, LightThenLight DEF HostOK, Host
    <3> HIDE DEF q
    <3>2. Mild(x, [x EXCEPT !.port = q])
      BY <1>1, <3>1 DEF Mild, HostOK, Host
    <3> QED
      BY <3>2 DEF Port, q
  <2> QED
    BY <1>1, <2>1, FieldsMild DEF PL_SetTimeout, PL_ClearTimeout, PL_ShutDown
<1>2. ASSUME NEW x, HostOK(x) PROVE Mild(x, gcfRetry(x))
  BY <1>2 DEF HostOK, Host, Mild, PL_SetTimeout, PL_ShutDown, gcfRetry, Early
<1>3. ASSUME NEW x, HostOK(x) PROVE Mild(x, ResetSuccess(x))
  BY <1>3 DEF HostOK, Host, Mild, PL_SetTimeout, PL_ShutDown, ResetSuccess,
              ProgramResetSuccess, Early
<1>4. ASSUME NEW x, HostOK(x)
      PROVE  /\ Mild(x, Disconnected(x))
             /\ Disconnected(x).state = x.state \/ x.state \in {"ST_Reset", "ST_BootloaderQuery"}
  <2> DEFINE b == PL_ClearTimeout(x)
             a == PL_SetTimeout(b)
  <2>1. HostOK(b) /\ HostOK(a)
    BY <1>4, TimerTyped
  <2>2. Mild(x, b) /\ Mild(b, a) /\ Mild(a, ResetSuccess(a))
    BY <1>1, <1>3, <1>4, <2>1
  <2>3. /\ Disconnected(x) \in {ResetSuccess(a), gcfRetry(x), x}
        /\ Disconnected(x) = x \/ x.state \in {"ST_Reset", "ST_BootloaderQuery"}
    BY DEF Disconnected
  <2> HIDE DEF a, b
  <2>4. Mild(x, Disconnected(x))
    BY <1>2, <1>4, <2>2, <2>3, MildThenMild
  <2> QED
    BY <2>3, <2>4
<1>5. ASSUME NEW m \in Output, m.kind \notin Heavy PROVE Mild(g, Write(g, m))
  BY <1>1, <1>4, <1>5 DEF Write
<1>6. ASSUME NEW o PROVE Mild(g, PL_Connect(g, o))
  <2> DEFINE a == [g EXCEPT !.fd = 1]
             m == [kind |-> "open"]
  <2>1. HostOK(a) /\ Mild(g, a)
    BY FieldsMild DEF HostOK, Host
  <2>2. PL_Connect(g, o) \in {g, Port(a, m)} /\ m.kind \notin Heavy
    BY DEF PL_Connect, Heavy
  <2> HIDE DEF a, m
  <2> QED
    BY <1>1, <2>1, <2>2, MildThenMild
<1>7. /\ Mild(g, PL_Disconnect(g))
      /\ PL_Disconnect(g).state = g.state \/ g.state \in {"ST_Reset", "ST_BootloaderQuery"}
  <2> DEFINE a == [g EXCEPT !.fd = 0]
             m == [kind |-> "close"]
             b == Port(a, m)
  <2>1. HostOK(a) /\ Mild(g, a) /\ a.state = g.state
    BY FieldsMild DEF HostOK, Host
  <2>2. m \in Output /\ m.kind \notin Heavy
    BY DEF Output, Heavy
  <2>3. PL_Disconnect(g) \in {Disconnected(g), Disconnected(b)}
    BY DEF PL_Disconnect
  <2> HIDE DEF a, m
  <2>4. HostOK(b) /\ Mild(a, b) /\ b.state = a.state
    BY <1>1, <2>1, <2>2, PortTyped DEF Port, HostOK, Host
  <2> HIDE DEF b
  <2> QED
    BY <1>4, <2>1, <2>3, <2>4, MildThenMild
<1> QED
  BY <1>1, <1>2, <1>3, <1>4, <1>5, <1>6, <1>7

\* The commands of an attempt that find the bootloader.
LEMMA SearchCommands ==
  /\ \A k \in {"queryFw", "uartReset", "hardReset", "ID", "idRequest"} :
       [kind |-> k] \in Output /\ [kind |-> k].kind \notin Heavy
  BY DEF Output, Heavy

\* The start of an attempt and the end of its reset are mild.
LEMMA AttemptMild ==
  ASSUME NEW g, HostOK(g), NEW o
  PROVE  /\ Mild(g, ResetUartTimeout(g, o))
         /\ Mild(g, InitEvent(g, o)) /\ InitEvent(g, o).state \in Early
<1>1. Mild(g, ResetAction(g, o)) /\ ResetAction(g, o).state \in Early
  <2> DEFINE r == [g EXCEPT !.state = "ST_Reset", !.substate = "ST_ResetUart", !.ascii = << >>]
             a == PL_SetTimeout(r)
             b == PL_Connect(a, o)
             q == [kind |-> "queryFw"]
             u == [kind |-> "uartReset"]
             c == IF Task = "T_RESET" THEN Write(b, q) ELSE b
  <2>1. HostOK(r)
    BY EmptyTyped DEF HostOK, Host, States, RestStates
  <2>2. Mild(g, r) /\ r.state = "ST_Reset"
    BY DEF HostOK, Host, Mild, Early
  <2>3. ResetAction(g, o) \in {b, Write(c, u)}
    BY DEF ResetAction, ResetUartAction
  <2>6. q \in Output /\ u \in Output /\ q.kind \notin Heavy /\ u.kind \notin Heavy
    BY SearchCommands
  <2> HIDE DEF r, q, u
  <2>4. HostOK(a) /\ Mild(r, a)
    BY <2>1, TimerTyped, PlatformMild
  <2> HIDE DEF a
  <2>5. HostOK(b) /\ Mild(r, b)
    BY <2>4, ConnectTyped, PlatformMild, MildThenMild
  <2> HIDE DEF b
  <2>7. HostOK(c) /\ Mild(r, c)
    BY <2>5, <2>6, WriteGood, PlatformMild, MildThenMild
  <2> HIDE DEF c
  <2>8. Mild(r, Write(c, u))
    BY <2>6, <2>7, PlatformMild, MildThenMild
  <2>9. Mild(r, ResetAction(g, o))
    BY <2>3, <2>5, <2>8
  <2>10. ResetAction(g, o).state \in Early
    BY <2>2, <2>9 DEF Mild, Early
  <2> QED
    BY <2>2, <2>9, <2>10, MildThenMild
<1>2. LET v == PL_ShutDown([g EXCEPT !.state = "ST_Void", !.substate = "ST_Void"])
      IN  Mild(g, v) /\ v.state \in Early
  BY DEF HostOK, Host, PL_ShutDown, Mild, Early
<1>3. Mild(g, ResetUartTimeout(g, o))
  <2> DEFINE a == [g EXCEPT !.substate = "ST_Void"]
             d == PL_Disconnect(a)
             c == PL_Connect(d, o)
             m == [kind |-> "hardReset"]
  <2>1. HostOK(a) /\ Mild(g, a)
    BY FieldsMild DEF HostOK, Host
  <2>5. m \in Output /\ m.kind \notin Heavy
    BY SearchCommands
  <2>2. HostOK(d) /\ Mild(g, d)
    BY <2>1, DisconnectGood, PlatformMild, MildThenMild
  <2>7. ResetUartTimeout(g, o) = UartResetFailed(d, o)
    BY DEF ResetUartTimeout
  <2> HIDE DEF d
  <2>3. HostOK(c) /\ Mild(g, c)
    BY <2>2, ConnectTyped, PlatformMild, MildThenMild
  <2>4. UartResetFailed(d, o) \in {HardReset(c, o), ResetSuccess(PL_SetTimeout(d))}
    BY DEF UartResetFailed
  <2> HIDE DEF c
  <2>9. HardReset(c, o) \in {ResetSuccess(Port(c, m)), ResetSuccess(PL_SetTimeout(c))}
    BY DEF HardReset
  <2> HIDE DEF m
  <2>6. ASSUME NEW x \in {Port(c, m), PL_SetTimeout(c), PL_SetTimeout(d)}
        PROVE  Mild(g, ResetSuccess(x))
    <3>1. HostOK(x) /\ Mild(g, x)
      BY <2>2, <2>3, <2>5, PortTyped, TimerTyped, PlatformMild, MildThenMild
    <3> QED
      BY <3>1, PlatformMild, MildThenMild
  <2>8. Mild(g, HardReset(c, o)) /\ Mild(g, ResetSuccess(PL_SetTimeout(d)))
    BY <2>6, <2>9
  <2> QED
    BY <2>4, <2>7, <2>8
<1> QED
  BY <1>1, <1>2, <1>3 DEF InitEvent

\* So are the timeouts of the search for the bootloader.
LEMMA SearchMild ==
  ASSUME NEW g, HostOK(g), NEW o
  PROVE  Mild(g, ConnectTimeout(g, o)) /\ Mild(g, QueryTimeout(g))
<1>1. Mild(g, ConnectTimeout(g, o))
  <2>1. HostOK(PL_Connect(g, o)) /\ Mild(g, PL_Connect(g, o))
    BY ConnectTyped, PlatformMild
  <2>2. ASSUME NEW x, HostOK(x) PROVE Mild(x, QueryAction(x))
    BY <2>2 DEF QueryAction, PL_SetTimeout, HostOK, Host, Mild, Early
  <2>3. Mild(g, QueryAction(PL_Connect(g, o)))
    BY <2>1, <2>2, MildThenMild
  <2> QED
    BY <2>3, PlatformMild DEF ConnectTimeout
<1>2. Mild(g, QueryTimeout(g))
  <2> DEFINE a == [g EXCEPT !.retry = RetryPlusOne(@)]
             ask == IF FileV3 THEN [kind |-> "idRequest"] ELSE [kind |-> "ID"]
             w == Write(a, ask)
  <2>1. HostOK(a) /\ Mild(g, a)
    <3>1. RetryPlusOne(g.retry) \in 0..RetryCap
      BY HostAssumption DEF HostOK, Host, RetryPlusOne
    <3> QED
      BY <3>1, FieldsMild DEF HostOK, Host
  <2>2. ask \in Output /\ ask.kind \notin Heavy
    BY SearchCommands
  <2>3. QueryTimeout(g) \in {gcfRetry(a), PL_SetTimeout(w)}
    BY DEF QueryTimeout
  <2> HIDE DEF a, ask
  <2>4. HostOK(w) /\ Mild(g, w)
    BY <2>1, <2>2, WriteGood, PlatformMild, MildThenMild
  <2> HIDE DEF w
  <2> QED
    BY <2>1, <2>3, <2>4, PlatformMild, MildThenMild
<1> QED
  BY <1>1, <1>2


\* A handler that puts out no heavy command writes none.
LEMMA LightWritten ==
  ASSUME NEW p, NEW D, NEW D2, NEW W, Light(p), \A w : Holds(W, w) => Holds(p, w), Adds(D, D2, W)
  PROVE  \A w \in Heavy : (Holds(D2, w) => Holds(D, w)) /\ (Once(D, w) => Once(D2, w))
<1>1. \A w \in Heavy : ~Holds(W, w)
  BY DEF Light
<1>2. \A w \in Heavy : Once(W, w)
  BY <1>1 DEF Once, Holds
<1> QED
  BY <1>1, <1>2 DEF Adds

\* A mild handler that stays where it is, or leaves the reset or the search,
\* keeps the lines sound.
LEMMA MildSound ==
  ASSUME NEW g, NEW r, NEW d, NEW D, NEW H, NEW D2, NEW H2, NEW W,
         Sound(g.state, g.ascii, g.said, d, D, H), Mild(g, r), Light(r.port),
         \A w : Holds(W, w) => Holds(r.port, w), Adds(D, D2, W), H2 \in {<< >>, H},
         r.state = g.state \/ g.state \in {"ST_Reset", "ST_BootloaderQuery"}
  PROVE  Sound(r.state, r.ascii, r.said, d, D2, H2)
<1>1. \A w \in {"updateRequest", "sync", "header", "page"} :
        (Holds(D2, w) => Holds(D, w)) /\ (Once(D, w) => Once(D2, w))
  BY LightWritten DEF Heavy
<1>2. /\ \A w : Holds(H2, w) => Holds(H, w)
      /\ \A w : Once(H, w) => Once(H2, w)
      /\ \A v, w : NoneBehind(H, v, w) => NoneBehind(H2, v, w)
  BY TakesNothing DEF Takes
<1>3. r.said = g.said /\ \A w : Holds(r.ascii, w) => Holds(g.ascii, w)
  BY FewWords DEF Mild
<1>4. Asked(D2, H2, "updateRequest", "updateResponse") /\ Asked(D2, H2, "sync", "ready")
  BY <1>1, <1>2 DEF Sound, Asked
<1>5. CASE r.state = g.state
  BY <1>1, <1>2, <1>3, <1>4, <1>5 DEF Sound, Sending
<1>6. CASE g.state \in {"ST_Reset", "ST_BootloaderQuery"}
  <2>1. /\ \A w \in {"updateRequest", "sync", "header", "page"} : ~Holds(D, w)
        /\ \A w \in {"updateResponse", "ready", "valid"} : ~Holds(H, w)
        /\ g.said \notin {"written", "finishedOk"}
    BY <1>6 DEF Sound, Sending
  <2>2. r.state \notin Sending \cup {"ST_V1ProgramSync", "ST_V3ProgramUpload", "ST_V3ProgramWaitID"}
    BY <1>6 DEF Mild, Early, Sending
  <2> QED
    BY <1>1, <1>2, <1>3, <1>4, <2>1, <2>2 DEF Sound
<1> QED
  BY <1>5, <1>6

\* So does any mild handler while the lines are empty and nothing has been told.
LEMMA MildAlone ==
  ASSUME NEW g, NEW r, NEW d, NEW D2, NEW W,
         Sound(g.state, g.ascii, g.said, d, << >>, << >>), Mild(g, r), Light(r.port),
         \A w : Holds(W, w) => Holds(r.port, w), Adds(<< >>, D2, W),
         g.said \notin {"written", "finishedOk"}
  PROVE  Sound(r.state, r.ascii, r.said, d, D2, << >>)
<1>1. /\ \A w : ~Holds(<< >>, w) /\ Once(<< >>, w)
      /\ \A v, w : NoneBehind(<< >>, v, w)
  BY FewWords
<1>2. \A w \in {"updateRequest", "sync", "header", "page"} : ~Holds(D2, w) /\ Once(D2, w)
  <2> DEFINE e == << >>
  <2>1. (\A w : ~Holds(e, w) /\ Once(e, w)) /\ Adds(e, D2, W)
    BY <1>1
  <2> HIDE DEF e
  <2> QED
    BY <2>1, LightWritten DEF Heavy
<1>3. r.said = g.said /\ \A w : Holds(r.ascii, w) => Holds(g.ascii, w)
  BY <1>1 DEF Mild
<1>4. CASE r.state = g.state
  BY <1>1, <1>2, <1>3, <1>4 DEF Sound, Asked, Sending
<1>5. CASE r.state \in Early
  <2>1. r.state \notin Sending \cup {"ST_V1ProgramSync", "ST_V3ProgramUpload", "ST_V3ProgramWaitID"}
    BY <1>5 DEF Early, Sending
  <2>2. Unfilled(d)
    BY DEF Sound
  <2> QED
    BY <1>1, <1>2, <1>3, <2>1, <2>2 DEF Sound, Asked
<1> QED
  BY <1>4, <1>5 DEF Mild

\* What the host does by itself keeps the lines sound, when its timers expire only
\* while nothing is on its way.
LEMMA HostAloneSound ==
  ASSUME SysInv, SysInv', SoundNow, AtStart, Told, Prompt,
         \/ SysStarted \/ SysPoll \/ SysHangUp \/ SysReadNothing \/ SysStdin \/ SysExit
         \/ SysPollFails \/ SysTimeout
  PROVE  SoundNow'
<1>1. /\ HostInv /\ toHost \in Seq(Input) /\ toDev \in Seq(Output)
      /\ h'.port \in Seq(Output) /\ HostOK(Fresh) /\ HostOK(Expired)
  BY FreshGood DEF SysInv, HostInv, TypeOK, Host, LineOK
<1>2. \A g \in {Fresh, Expired} :
        /\ g.state = h.state /\ g.ascii = h.ascii /\ g.said = h.said /\ g.port = << >>
  BY <1>1 DEF HostInv, TypeOK, Host, Fresh, Expired
<1>3. Carry(toHost)
  BY DEF SysStarted, SysPoll, SysPollFails, SysHangUp, SysReadNothing, SysStdin, SysExit, SysTimeout
<1>4. /\ Adds(toDev, toDev', Written) /\ \A w : Holds(Written, w) => Holds(h'.port, w)
      /\ toHost' \in {<< >>, toHost} /\ dev' = dev
  BY <1>1, <1>3, CarryAdds
<1>5. Light(<< >>)
  BY FewWords DEF Light
<1>6. ASSUME Mild(Fresh, h'),
             h'.state = Fresh.state \/ Fresh.state \in {"ST_Reset", "ST_BootloaderQuery"}
      PROVE  SoundNow'
  <2>1. Sound(Fresh.state, Fresh.ascii, Fresh.said, dev, toDev, toHost)
    BY <1>2 DEF SoundNow
  <2>2. Light(h'.port)
    BY <1>2, <1>5, <1>6 DEF Mild
  <2>3. Sound(h'.state, h'.ascii, h'.said, dev, toDev', toHost')
    BY <1>4, <1>6, <2>1, <2>2, MildSound
  <2> QED
    BY <1>4, <2>3 DEF SoundNow
<1>7. ASSUME NEW g \in {Fresh, Expired}, Mild(g, h'), toDev = << >>, toHost = << >>,
             h.said \notin {"written", "finishedOk"}
      PROVE  SoundNow'
  <2>1. Sound(g.state, g.ascii, g.said, dev, << >>, << >>)
    BY <1>2, <1>7 DEF SoundNow
  <2>2. Light(h'.port)
    BY <1>2, <1>5, <1>7 DEF Mild
  <2>3. toHost' = << >> /\ Adds(<< >>, toDev', Written) /\ g.said \notin {"written", "finishedOk"}
    BY <1>2, <1>4, <1>7
  <2>4. Sound(h'.state, h'.ascii, h'.said, dev, toDev', << >>)
    BY <1>4, <1>7, <2>1, <2>2, <2>3, MildAlone
  <2> QED
    BY <1>4, <2>3, <2>4 DEF SoundNow
<1>8. CASE SysStarted
  <2>1. PICK o \in Outcomes : Started(o)
    BY <1>8 DEF SysStarted
  <2>2. toDev = << >> /\ toHost = << >> /\ h.said \notin {"written", "finishedOk"}
    BY <1>1, <2>1 DEF Started, AtStart, HostInv, SoundNow, Sound
  <2>3. Mild(Fresh, h')
    BY <1>1, <2>1, AttemptMild DEF Started
  <2> QED
    BY <1>7, <2>2, <2>3
<1>9. CASE SysTimeout
  <2>1. PICK o \in Outcomes : Timeout(o)
    BY <1>9 DEF SysTimeout
  <2>2. toDev = << >> /\ toHost = << >>
    BY <1>9 DEF SysTimeout, Quiet
  <2>3. h.said \notin {"written", "finishedOk"}
    BY <2>1 DEF Told, Timeout, InitTimeout, ResetTimeout, BootloaderConnectTimeout,
                BootloaderQueryTimeout, ProgramTimeout, TimeoutIn
  <2>4. Mild(Expired, h')
    <3>1. CASE InitTimeout(o)
      BY <1>1, <3>1, AttemptMild DEF InitTimeout
    <3>2. CASE ResetTimeout(o)
      BY <1>1, <3>2, AttemptMild, MildThenMild DEF ResetTimeout
    <3>3. CASE BootloaderConnectTimeout(o)
      BY <1>1, <3>3, SearchMild DEF BootloaderConnectTimeout
    <3>4. CASE BootloaderQueryTimeout
      BY <1>1, <3>4, SearchMild DEF BootloaderQueryTimeout
    <3>5. CASE ProgramTimeout
      BY <1>1, <3>5, PlatformMild DEF ProgramTimeout
    <3> QED
      BY <2>1, <3>1, <3>2, <3>3, <3>4, <3>5 DEF Timeout
  <2> QED
    BY <1>7, <2>2, <2>3, <2>4
<1>10. CASE SysHangUp \/ SysExit
  <2>1. h' = PL_Disconnect(Fresh)
    BY <1>10 DEF SysHangUp, SysExit, HangUp, Exit
  <2> QED
    BY <1>1, <1>6, <2>1, PlatformMild
<1>11. CASE SysPoll \/ SysPollFails \/ SysReadNothing \/ SysStdin
  <2>1. h' \in {Fresh, PL_ShutDown(Fresh)}
    BY <1>11 DEF SysPoll, SysPollFails, SysReadNothing, SysStdin, Poll, PollFails, ReadNothing, Stdin
  <2>2. PL_ShutDown(Fresh).state = Fresh.state
    BY <1>1 DEF PL_ShutDown, HostOK, Host
  <2> QED
    BY <1>1, <1>6, <2>1, <2>2, PlatformMild, MildThenMild
<1> QED
  BY <1>8, <1>9, <1>10, <1>11

\* Before the program is started the lines stay empty.
LEMMA StartStaysEmpty == SysInv /\ AtStart /\ [SysNext]_sysVars => AtStart'
<1> SUFFICES ASSUME SysInv, AtStart, [SysNext]_sysVars, loop' = "start"
             PROVE  toDev' = << >> /\ toHost' = << >> /\ h'.fd = 0
  BY DEF AtStart
<1>1. ASSUME loop = "start", h' = h, toDev' = << >>, toHost' = << >>
      PROVE  toDev' = << >> /\ toHost' = << >> /\ h'.fd = 0
  BY <1>1 DEF AtStart
<1>2. ~(HostStep \/ SysPollFails \/ SysTimeout)
  BY DEF HostStep, SysStarted, SysPoll, SysTimerNotDue, SysHangUp, SysReceive, SysReadNothing,
         SysPollFails, PollFails,
         SysStdin, SysExit, SysTimeout, Started, Poll, TimerNotDue, HangUp, Receive, CanRead,
         ReadNothing, Stdin, Exit, Timeout, InitTimeout, ResetTimeout, BootloaderConnectTimeout,
         BootloaderQueryTimeout, ProgramTimeout, TimeoutIn, AfterTimer
<1>3. CASE SysWindowCloses \/ SysTerminated \/ UNCHANGED sysVars
  BY <1>1, <1>3 DEF SysWindowCloses, WindowCloses, SysTerminated, Terminated, sysVars, AtStart
<1>4. CASE DeviceStep \/ Reboot \/ DeviceGivesUp \/ Fault
  <2>1. loop = "start" /\ h' = h
    BY <1>4 DEF DeviceStep, Reboot, DeviceGivesUp, Fault, Restart, Repeat, Lose, Corrupt,
                Unplug, Die
  <2>2. toDev = << >> /\ toHost = << >> /\ h.fd = 0 /\ ~OnTheLine
    BY <2>1 DEF AtStart, OnTheLine
  <2>3. \A s : Deliver(s) => toHost' = << >>
    BY <2>2 DEF Deliver
  <2>4. toDev' = << >> /\ toHost' = << >>
    BY <1>4, <2>2, <2>3 DEF DeviceStep, Reboot, DeviceGivesUp, Fault, Restart, Repeat, Lose,
                            Corrupt, Unplug, Die
  <2> QED
    BY <1>1, <2>1, <2>4
<1> QED
  BY <1>2, <1>3, <1>4 DEF SysNext

\* The inductive invariant of a prompt session.
PromptInv == SysInv /\ Told /\ AtStart /\ SoundNow

\* It holds before anything has happened.
LEMMA PromptInit == SysInit => PromptInv
<1> SUFFICES ASSUME SysInit PROVE PromptInv
  OBVIOUS
<1>1. SysInv /\ Told
  BY SysInitHolds, NothingTold DEF SysInit
<1>2. /\ h.state = "ST_Init" /\ h.said = "none" /\ h.fd = 0
      /\ toDev = << >> /\ toHost = << >> /\ dev.mode = "app"
  BY DEF SysInit, Init, OldDevice
<1>3. SoundNow
  <2>1. /\ \A w : ~Holds(<< >>, w) /\ Once(<< >>, w)
        /\ \A v, w : NoneBehind(<< >>, v, w)
    BY FewWords
  <2> QED
    BY <1>2, <2>1 DEF SoundNow, Sound, Asked, Unfilled, Sending
<1> QED
  BY <1>1, <1>2, <1>3 DEF PromptInv, AtStart

\* Every step keeps it.
LEMMA PromptStep ==
  ASSUME Prompt
  PROVE  PromptInv /\ [SysNext]_sysVars => PromptInv'
<1> SUFFICES ASSUME PromptInv, [SysNext]_sysVars PROVE PromptInv'
  OBVIOUS
<1>1. SysInv /\ Told /\ AtStart /\ SoundNow
  BY DEF PromptInv
<1>2. SysInv' /\ [Next]_hostVars
  BY <1>1, SysStepHolds
<1>3. Told'
  BY <1>1, <1>2, StepEnds DEF SysInv
<1>4. AtStart'
  BY <1>1, StartStaysEmpty
<1>5. SoundNow'
  <2>1. CASE HostStep \/ SysPollFails \/ SysTimeout
    <3>1. CASE SysTimerNotDue
      BY <1>1, <3>1 DEF SysTimerNotDue, TimerNotDue, SoundNow
    <3>2. CASE SysReceive
      BY <1>1, <1>2, <3>2, ReceiveSound
    <3> QED
      BY <1>1, <1>2, <2>1, <3>1, <3>2, HostAloneSound DEF HostStep
  <2>2. CASE DeviceStep \/ Reboot \/ DeviceGivesUp \/ Fault
    BY <1>1, <1>2, <2>2, DeviceStepSound
  <2>3. CASE SysWindowCloses \/ SysTerminated \/ UNCHANGED sysVars
    BY <1>1, <2>3 DEF SysWindowCloses, WindowCloses, SysTerminated, sysVars, SoundNow
  <2> QED
    BY <2>1, <2>2, <2>3 DEF SysNext
<1> QED
  BY <1>2, <1>3, <1>4, <1>5 DEF PromptInv

\* When the device and the line answer before a timer of the host expires, praise
\* is given only to a device that holds every page of the file in its place:
\* whatever the device, the length of the firmware and of the line, the requests
\* that are lost, repeated or corrupted, and the number of attempts (gcf.c
\* 878-961 and 1007-1149).
THEOREM PraiseIsTrue ==
  ASSUME Prompt
  PROVE  SysSpec => []PraiseImpliesImage
<1>1. PromptInv /\ [SysNext]_sysVars => PromptInv'
  BY PromptStep
<1>2. PromptInv => PraiseImpliesImage
  BY DEF PromptInv, SoundNow, Sound, PraiseImpliesImage, Praised
<1> QED
  BY <1>1, <1>2, PromptInit, PTL DEF SysSpec


-----------------------------------------------------------------------------
(* The job.                                                                *)

\* The flash memory is left alone, or is no longer what it was at the start; it
\* is completed only by a device that was loading.
Fills(d, e) ==
  \/ e.image = d.image
  \/ (\E i \in Places : e.image[i] # Old) /\ (GoodImage(e) => d.mode = "loading")

\* A device that has stored something keeps it.
LEMMA StoredKeeps ==
  ASSUME NEW d \in DeviceRec
  PROVE  Stored(d).dev.image = d.image
<1>1. \A md : [d EXCEPT !.mode = md, !.next = 0].image = d.image
  BY DEF DeviceRec
<1>2. Stored(d).dev \in {d, [d EXCEPT !.mode = "app", !.next = 0],
                            [d EXCEPT !.mode = "boot", !.next = 0]}
  BY DEF Stored, Answer
<1> QED
  BY <1>1, <1>2

\* What the device does with a command fills its flash memory like this.
LEMMA DeviceFills ==
  ASSUME NEW d, DeviceOK(d), NEW m \in Output
  PROVE  Fills(d, DeviceReceives(d, m).dev)
<1>0. /\ d \in DeviceRec /\ d.image \in [Places -> Content] /\ 0 \in Places
      /\ d.mode = "loading" => d.next \in Places
      /\ \A p \in Nat \cup {Blank} : p # Old
  BY DeviceAssumption DEF DeviceOK, DeviceRec, Content, Places, Old, Blank
<1>1. ASSUME NEW e, NEW r PROVE Answer(e, r).dev = e
  BY DEF Answer
<1>2. /\ Fills(d, d)
      /\ \A md : Fills(d, [d EXCEPT !.mode = md])
  BY <1>0 DEF Fills, DeviceRec
<1>3. Fills(d, Erased(d))
  <2> DEFINE im == [i \in Places |-> Blank]
  <2>1. im[0] = Blank
    BY <1>0
  <2>2. Erased(d).image = im
    BY <1>0 DEF Erased, DeviceRec
  <2> HIDE DEF im
  <2>3. Erased(d).image[0] # Old /\ ~GoodImage(Erased(d))
    BY <1>0, <2>1, <2>2 DEF GoodImage, Blank
  <2> QED
    BY <1>0, <2>3 DEF Fills
<1>4. ASSUME d.mode = "loading", NEW p \in Nat PROVE Fills(d, StorePage(d, p).dev)
  <2> DEFINE im == [d.image EXCEPT ![d.next] = Smaller(p, Junk)]
             e == [d EXCEPT !.image[d.next] = Smaller(p, Junk), !.next = @ + 1]
  <2>1. Smaller(p, Junk) \in Content /\ Smaller(p, Junk) \in Nat
    BY DeviceAssumption DEF Smaller, Junk, Content, Places
  <2>2. im \in [Places -> Content] /\ im[d.next] = Smaller(p, Junk)
    BY <1>0, <1>4, <2>1
  <2>3. e = [[d EXCEPT !.image = im] EXCEPT !.next = d.next + 1]
    BY <1>0 DEF DeviceRec
  <2>4. StorePage(d, p) = Stored(e)
    BY DEF StorePage
  <2> HIDE DEF im
  <2>5. e \in DeviceRec /\ e.image = im
    <3>1. d.next + 1 \in 0..ImageSize
      BY <1>0, <1>4, DeviceAssumption DEF Places
    <3> QED
      BY <1>0, <2>2, <2>3, <3>1 DEF DeviceRec, Content
  <2> HIDE DEF e
  <2>6. StorePage(d, p).dev.image[d.next] # Old
    BY <1>0, <2>1, <2>2, <2>4, <2>5, StoredKeeps
  <2> QED
    BY <1>0, <1>4, <2>6 DEF Fills
<1>5. ASSUME d.mode = "loading", m.kind = "data" PROVE Fills(d, StoreBlock(d, m).dev)
  <2>1. CASE m.status = 0 /\ m.offset = d.next /\ m.length > 0
    <3> DEFINE im == [i \in Places |-> IF i \in d.next..(d.next + m.length - 1)
                                       THEN i ELSE d.image[i]]
               e == [d EXCEPT !.image = [i \in Places |-> IF i \in d.next..(d.next + m.length - 1)
                                                          THEN i ELSE @[i]],
                              !.next = @ + m.length]
    <3>1. d.next + m.length \in 0..ImageSize /\ m.length \in Nat /\ d.next \in Nat
      BY <1>0, <1>5, <2>1, OutputKinds, SystemAssumption, DeviceAssumption DEF Places
    <3>2. im \in [Places -> Content]
      BY <1>0 DEF Content
    <3>3. im[d.next] = d.next
      <4>1. d.next \in d.next..(d.next + m.length - 1)
        BY <2>1, <3>1
      <4> QED
        BY <1>0, <1>5, <4>1
    <3>4. e = [[d EXCEPT !.image = im] EXCEPT !.next = d.next + m.length]
      BY <1>0 DEF DeviceRec
    <3>5. StoreBlock(d, m) = Stored(e)
      BY <2>1 DEF StoreBlock
    <3> HIDE DEF im
    <3>6. e \in DeviceRec /\ e.image = im
      BY <1>0, <3>1, <3>2, <3>4 DEF DeviceRec, Content
    <3> HIDE DEF e
    <3>7. StoreBlock(d, m).dev.image[d.next] # Old
      BY <1>0, <3>1, <3>3, <3>5, <3>6, StoredKeeps
    <3> QED
      BY <1>0, <1>5, <3>7 DEF Fills
  <2>2. CASE ~(m.status = 0 /\ m.offset = d.next /\ m.length > 0)
    BY <1>2, <2>2 DEF StoreBlock, Silent, Answer
  <2> QED
    BY <2>1, <2>2
<1>6. m.kind = "page" => m.page \in Nat
  BY OutputKinds
<1> DEFINE Fit(a) == Fills(d, a.dev)
<1>7. /\ Fit(Silent(d)) /\ \A r : Fit(Answer(d, r)) /\ Fit(Answer(Erased(d), r))
      /\ \A md : Fit(Silent([d EXCEPT !.mode = md]))
                 /\ \A r : Fit(Answer([d EXCEPT !.mode = md], r))
      /\ (m.kind = "page" /\ d.mode = "loading") => Fit(StorePage(d, m.page))
      /\ (m.kind = "data" /\ d.mode = "loading") => Fit(StoreBlock(d, m))
  BY <1>1, <1>2, <1>3, <1>4, <1>5, <1>6 DEF Silent
<1> HIDE DEF Fit
<1>8. Fit(InApp(d, m)) /\ Fit(InV1Bootloader(d, m)) /\ Fit(InV3Bootloader(d, m))
  BY <1>7 DEF InApp, InV1Bootloader, InV3Bootloader
<1>9. Fit(DeviceReceives(d, m))
  BY <1>7, <1>8 DEF DeviceReceives
<1> QED
  BY <1>9 DEF Fit

\* What a step of the device, of the line or of a fault does to the job: at most
\* a change of what the flash memory holds, and none once the user was told that
\* the firmware is written.
LEMMA DeviceDoesJob ==
  ASSUME PromptInv, PromptInv', DeviceStep \/ Reboot \/ DeviceGivesUp \/ Fault
  PROVE  Job!Change \/ UNCHANGED Job!jobVars
<1>1. h' = h /\ window' = window /\ loop' = loop
  BY DEF DeviceStep, Reboot, DeviceGivesUp, Fault, Restart, Repeat, Lose, Corrupt, Unplug, Die
<1>2. /\ DeviceOK(dev) /\ dev \in DeviceRec /\ toDev \in Seq(Output) /\ Unfilled(dev)
      /\ Praised => GoodImage(dev) /\ GoodImage(dev')
  BY <1>1 DEF PromptInv, SysInv, DeviceOK, LineOK, SoundNow, Sound, Praised
<1>3. Verdict' = Verdict
  BY <1>1 DEF Verdict, Praised, Condemned
<1>4. Fills(dev, dev')
  <2>1. CASE DeviceStep
    <3>1. toDev # << >> /\ dev' = DeviceReceives(dev, Head(toDev)).dev /\ Head(toDev) \in Output
      BY <1>2, <2>1 DEF DeviceStep
    <3> QED
      BY <1>2, <3>1, DeviceFills
  <2>2. CASE ~DeviceStep
    <3>1. \/ dev' = dev
          \/ \E md \in Modes : dev' = [dev EXCEPT !.mode = md] \/ dev' = [dev EXCEPT !.mode = md, !.next = 0]
      BY <2>2 DEF Reboot, DeviceGivesUp, Fault, Restart, Repeat, Lose, Corrupt, Unplug, Die, Modes
    <3>2. dev'.image = dev.image
      BY <1>2, <3>1 DEF DeviceRec
    <3> QED
      BY <3>2 DEF Fills
  <2> QED
    BY <2>1, <2>2
<1>5. CASE dev'.image = dev.image
  <2>1. Flash' = Flash
    BY <1>5 DEF Flash, GoodImage
  <2> QED
    BY <1>1, <1>3, <2>1 DEF Job!jobVars
<1>6. CASE /\ \E i \in Places : dev'.image[i] # Old
           /\ GoodImage(dev') => dev.mode = "loading"
  <2>1. CASE GoodImage(dev')
    <3>1. ~GoodImage(dev)
      BY <1>2, <1>6, <2>1, LoadingIsPartial
    <3>2. ~(\A i \in Places : dev.image[i] = Old)
      <4>1. dev.next \in Places /\ dev.image[dev.next] = Blank /\ Blank # Old
        BY <1>2, <1>6, <2>1, DeviceAssumption DEF DeviceOK, DeviceRec, Places, Unfilled, Blank, Old
      <4> QED
        BY <4>1
    <3>3. Flash = "partial" /\ Flash' = "new"
      BY <2>1, <3>1, <3>2 DEF Flash
    <3>4. Verdict # "good"
      BY <1>2, <3>1 DEF Verdict
    <3> QED
      BY <1>1, <1>3, <3>3, <3>4 DEF Job!Change
  <2>2. CASE ~GoodImage(dev')
    <3>1. Flash' = "partial"
      BY <1>6, <2>2 DEF Flash
    <3>2. Verdict # "good"
      BY <1>2, <2>2 DEF Verdict
    <3> QED
      BY <1>1, <1>3, <3>1, <3>2 DEF Job!Change
  <2> QED
    BY <2>1, <2>2
<1> QED
  BY <1>4, <1>5, <1>6 DEF Fills

\* Every job is to program, and stdin stays open.
AllPrograms == \A j \in Jobs : j.task = "T_PROGRAM"
StdinOpen == ~snap.eof

\* What a failed poll() and the end of the program do to the job: the loop cannot turn
\* any more, and the session gives up if it has not.
LEMMA EndDoesJob ==
  ASSUME PromptInv, SysPollFails \/ SysExit
  PROVE  Job!Close \/ Job!GiveUp \/ UNCHANGED Job!jobVars
<1> DEFINE open == window /\ loop \notin {"broken", "done"}
<1>1. /\ HostInv /\ Told /\ HostOK(Fresh)
      /\ Fresh.said = h.said /\ Fresh.running = h.running /\ Wordless(h, Fresh)
  BY FreshGood DEF PromptInv, SysInv, HostInv, TypeOK, Host, Fresh, Wordless
<1>2. dev' = dev /\ Flash' = Flash /\ loop' \in {"broken", "done"} /\ ~open'
  BY DEF SysPollFails, PollFails, SysExit, Exit, Carry, Flash, GoodImage
<1>3. CASE SysPollFails
  <2>1. h.running /\ h'.running = h.running /\ h'.said = h.said /\ loop = "poll"
          /\ loop' = "broken" /\ window' = window
    BY <1>1, <1>3 DEF SysPollFails, PollFails
  <2>2. Verdict' = Verdict
    BY <2>1 DEF Verdict, Praised, Condemned
  <2>3. open = window /\ window \in BOOLEAN
    BY <1>1, <2>1 DEF HostInv, TypeOK
  <2> QED
    BY <1>2, <2>2, <2>3 DEF Job!Close, Job!jobVars
<1>4. CASE SysExit
  <2>1. /\ loop = "broken" \/ (loop = "poll" /\ ~h.running)
        /\ loop' = "done" /\ window' = window /\ h' = PL_Disconnect(Fresh)
    BY <1>4 DEF SysExit, Exit
  <2>2. h'.said = h.said
    BY <1>1, <2>1, PlatformSilent DEF Wordless
  <2>3. open \in BOOLEAN
    OBVIOUS
  <2>4. CASE Verdict = "none"
    <3>1. loop = "broken"
      BY <2>1, <2>4 DEF Verdict, Praised, Condemned
    <3>2. Verdict' = "failed" /\ ~open
      BY <2>1, <2>2, <2>4, <3>1 DEF Verdict, Praised, Condemned
    <3> QED
      BY <1>2, <2>4, <3>2 DEF Job!GiveUp
  <2>5. CASE Verdict # "none"
    <3>1. Verdict' = Verdict
      BY <2>1, <2>2, <2>5 DEF Verdict, Praised, Condemned
    <3> QED
      BY <1>2, <2>3, <3>1 DEF Job!Close, Job!jobVars
  <2> QED
    BY <2>4, <2>5
<1> QED
  BY <1>3, <1>4

\* What any other step of the host does to the job: it praises, condemns, or gives
\* up after the retry time.
LEMMA HostDoesJob ==
  ASSUME AllPrograms, PromptInv, PromptInv', ~snap.eof, HostStep \/ SysTimeout, ~SysExit
  PROVE  Job!Praise \/ Job!Condemn \/ Job!GiveUp \/ UNCHANGED Job!jobVars
<1>1. HostInv /\ Told /\ [Next]_hostVars /\ Task = "T_PROGRAM" /\ window \in BOOLEAN
  <2>1. HostInv /\ Told /\ SysInv
    BY DEF PromptInv, SysInv
  <2>2. [Next]_hostVars
    BY <2>1, StepMaps DEF SysNext
  <2>3. job \in Jobs /\ window \in BOOLEAN
    BY <2>1 DEF HostInv, TypeOK
  <2> QED
    BY <2>1, <2>2, <2>3 DEF AllPrograms, Task
<1>2. dev' = dev /\ window' = window
  BY DEF HostStep, SysStarted, SysPoll, SysTimerNotDue, SysHangUp, SysReceive, SysReadNothing,
         SysStdin, SysExit, SysTimeout, Carry, Started, Poll, TimerNotDue, HangUp, Receive,
         ReadNothing, Stdin, Exit, Timeout, InitTimeout, ResetTimeout, BootloaderConnectTimeout,
         BootloaderQueryTimeout, ProgramTimeout, TimeoutIn
<1>3. Flash' = Flash
  BY <1>2 DEF Flash
<1>9. loop \notin {"broken", "done"} /\ loop' \notin {"broken", "done"}
  <2>1. CASE SysStarted \/ SysPoll
    BY <2>1 DEF SysStarted, SysPoll, Started, Poll
  <2>2. CASE SysTimerNotDue \/ SysTimeout
    BY <2>2 DEF SysTimerNotDue, SysTimeout, TimerNotDue, Timeout, InitTimeout, ResetTimeout,
                BootloaderConnectTimeout, BootloaderQueryTimeout, ProgramTimeout, TimeoutIn,
                AfterTimer
  <2>3. CASE SysHangUp \/ SysReceive \/ SysReadNothing \/ SysStdin
    BY <2>3 DEF SysHangUp, SysReceive, SysReadNothing, SysStdin, HangUp, Receive, ReadNothing,
                CanRead, Stdin
  <2> QED
    BY <2>1, <2>2, <2>3 DEF HostStep
<1>10. (window /\ loop \notin {"broken", "done"})' = (window /\ loop \notin {"broken", "done"})
  BY <1>2, <1>9
<1>4. /\ h.said # "none" => h'.said = h.said
      /\ h'.running => h.running
      /\ (h.running /\ ~h'.running)
           => \/ h'.said # "none" \/ ~window
              \/ h'.state = "ST_Void" /\ loop \in {"start", "timer"}
  BY <1>1, StepEnds
<1>5. (loop \in {"start", "timer"} /\ window /\ h.running) => h'.running
  <2> SUFFICES ASSUME loop \in {"start", "timer"}, window, h.running PROVE h'.running
    OBVIOUS
  <2>1. SysStarted \/ SysTimeout \/ SysTimerNotDue
    BY DEF HostStep, SysPoll, SysHangUp, SysReceive, SysReadNothing, SysStdin, SysExit, Poll,
           HangUp, Receive, CanRead, ReadNothing, Stdin, Exit
  <2>2. HostOK(Fresh) /\ HostOK(Expired) /\ Fresh.running /\ Expired.running
    BY <1>1, FreshGood DEF HostInv, TypeOK, Host, Fresh, Expired
  <2>3. ASSUME NEW g \in {Fresh, Expired}, Wordless(g, h') PROVE h'.running
    BY <1>1, <2>2, <2>3 DEF Wordless
  <2>4. CASE SysTimerNotDue
    BY <2>4 DEF SysTimerNotDue, TimerNotDue
  <2>5. CASE SysStarted \/ SysTimeout
    <3>1. PICK o \in Outcomes : (Started(o) \/ Timeout(o)) /\ o.args
      <4>1. \A o \in Outcomes : OutcomeCosts(o) => o.args
        BY DEF OutcomeCosts, Outcomes
      <4> QED
        BY <2>5, <4>1 DEF SysStarted, SysTimeout
    <3>2. CASE Started(o)
      BY <2>2, <2>3, <3>1, <3>2, AttemptSilent DEF Started
    <3>3. CASE InitTimeout(o)
      BY <2>2, <2>3, <3>1, <3>3, AttemptSilent DEF InitTimeout
    <3>4. CASE ResetTimeout(o)
      BY <2>2, <2>3, <3>4, AttemptSilent DEF ResetTimeout
    <3>5. CASE BootloaderConnectTimeout(o)
      BY <2>2, <2>3, <3>5, SearchSilent DEF BootloaderConnectTimeout
    <3>6. CASE BootloaderQueryTimeout
      BY <2>2, <2>3, <3>6, SearchSilent DEF BootloaderQueryTimeout
    <3>7. CASE ProgramTimeout
      BY <2>2, <2>3, <3>7, PlatformSilent DEF ProgramTimeout
    <3> QED
      BY <3>1, <3>2, <3>3, <3>4, <3>5, <3>6, <3>7 DEF Timeout
  <2> QED
    BY <2>1, <2>4, <2>5
<1>6. /\ h.said \in Verdicts /\ h'.said \in Verdicts
      /\ Praised' => GoodImage(dev)
  BY <1>2 DEF PromptInv, SysInv, HostInv, TypeOK, Host, SoundNow, Sound, Praised
<1>7. CASE h.said # "none"
  <2>1. Verdict' = Verdict
    BY <1>4, <1>6, <1>7 DEF Verdict, Praised, Condemned, Verdicts
  <2> QED
    BY <1>3, <1>10, <2>1 DEF Job!jobVars
<1>8. CASE h.said = "none"
  <2>1. Verdict = IF h.running THEN "none" ELSE "failed"
    BY <1>8, <1>9 DEF Verdict, Praised, Condemned
  <2>2. CASE h'.said = "none"
    <3>1. Verdict' = IF h'.running THEN "none" ELSE "failed"
      BY <1>9, <2>2 DEF Verdict, Praised, Condemned
    <3>2. CASE h'.running = h.running
      BY <1>3, <1>10, <2>1, <3>1, <3>2 DEF Job!jobVars
    <3>3. CASE h.running /\ ~h'.running
      <4>1. ~window
        BY <1>1, <1>4, <1>5, <2>2, <3>3
      <4> QED
        BY <1>3, <1>10, <2>1, <3>1, <3>3, <4>1 DEF Job!GiveUp
    <3>4. h.running \in BOOLEAN /\ h'.running \in BOOLEAN
      BY DEF PromptInv, SysInv, HostInv, TypeOK, Host
    <3> QED
      BY <1>4, <3>2, <3>3, <3>4
  <2>3. CASE h'.said \in {"written", "finishedOk"}
    <3>1. Praised' /\ Verdict' = "good"
      BY <2>3 DEF Verdict, Praised
    <3>2. Flash = "new"
      BY <1>6, <3>1 DEF Flash
    <3> QED
      BY <1>3, <1>10, <2>1, <3>1, <3>2 DEF Job!Praise
  <2>4. CASE h'.said = "finishedBad"
    <3>1. Verdict' = "bad"
      BY <2>4 DEF Verdict, Praised, Condemned
    <3> QED
      BY <1>3, <1>10, <2>1, <3>1 DEF Job!Condemn
  <2> QED
    BY <1>6, <2>2, <2>3, <2>4 DEF Verdicts
<1> QED
  BY <1>7, <1>8

\* stdin stays open in a session.
LEMMA StdinStaysOpen == SysInv /\ ~snap.eof /\ [SysNext]_sysVars => ~snap'.eof
<1> SUFFICES ASSUME SysInv, ~snap.eof, [SysNext]_sysVars PROVE ~snap'.eof
  OBVIOUS
<1>1. CASE SysPoll
  BY <1>1 DEF SysPoll, Poll
<1>2. CASE SysReceive \/ SysReadNothing
  <2>1. snap' = [snap EXCEPT !.in = FALSE]
    BY <1>2 DEF SysReceive, SysReadNothing, Receive, ReadNothing
  <2> QED
    BY <2>1 DEF SysInv, HostInv, TypeOK
<1>3. CASE ~(SysPoll \/ SysReceive \/ SysReadNothing)
  <2>1. snap' = snap
    BY <1>3
    DEF SysNext, HostStep, SysPollFails, PollFails, SysStarted, SysTimerNotDue, SysHangUp, SysStdin, SysExit,
        SysTimeout, Started, TimerNotDue, HangUp, Stdin, Exit, Timeout, InitTimeout,
        ResetTimeout, BootloaderConnectTimeout, BootloaderQueryTimeout, ProgramTimeout,
        TimeoutIn, SysWindowCloses, WindowCloses, DeviceStep, Reboot, DeviceGivesUp, Fault,
        Restart, Repeat, Lose, Corrupt, Unplug, Die, SysTerminated, sysVars
  <2> QED
    BY <2>1
<1> QED
  BY <1>1, <1>2, <1>3

\* A session that programs, with a device and a line that answer before a timer
\* of the host expires, implements FlashJob, whatever faults there are: what the
\* flash memory holds and what the user is told change only in its ways (gcf.c
\* 2260-2283, 878-961).
THEOREM DoesItsJob ==
  ASSUME Prompt, AllPrograms
  PROVE  SysSpec => ImplementsJob
<1>1. SysInit => Job!JobInit /\ StdinOpen
  <2> SUFFICES ASSUME SysInit PROVE Job!JobInit /\ ~snap.eof
    BY DEF StdinOpen
  <2> DEFINE im == [i \in Places |-> Old]
  <2>1. 0 \in Places /\ \A i \in Places : im[i] = Old
    BY DeviceAssumption DEF Places
  <2>2. dev.image = im /\ window = TRUE /\ loop = "start" /\ ~snap.eof /\ h.said = "none"
          /\ h.running
    BY DEF SysInit, OldDevice, Init
  <2> HIDE DEF im
  <2>3. Flash = "old"
    <3>1. dev.image[0] # 0
      BY <2>1, <2>2 DEF Old
    <3> QED
      BY <2>1, <2>2, <3>1 DEF Flash, GoodImage
  <2>4. Verdict = "none"
    BY <2>2 DEF Verdict, Praised, Condemned
  <2> QED
    BY <2>2, <2>3, <2>4 DEF Job!JobInit
<1>2. PromptInv /\ PromptInv' /\ StdinOpen /\ [SysNext]_sysVars
        => [Job!JobNext]_(Job!jobVars)
  <2> SUFFICES ASSUME PromptInv, PromptInv', ~snap.eof, [SysNext]_sysVars
               PROVE  Job!JobNext \/ UNCHANGED Job!jobVars
    BY DEF StdinOpen
  <2>1. CASE (HostStep \/ SysTimeout) /\ ~SysExit
    BY <2>1, HostDoesJob DEF Job!JobNext
  <2>4. CASE SysPollFails \/ SysExit
    BY <2>4, EndDoesJob DEF Job!JobNext
  <2>2. CASE DeviceStep \/ Reboot \/ DeviceGivesUp \/ Fault
    BY <2>2, DeviceDoesJob DEF Job!JobNext
  <2>3. CASE SysWindowCloses \/ SysTerminated \/ UNCHANGED sysVars
    <3>1. h' = h /\ dev' = dev /\ loop' = loop
            /\ (window' = window \/ (window /\ window' = FALSE))
      BY <2>3 DEF SysWindowCloses, WindowCloses, SysTerminated, Terminated, hostVars, sysVars
    <3>2. Flash' = Flash /\ Verdict' = Verdict
      BY <3>1 DEF Flash, Verdict, Praised, Condemned
    <3> QED
      BY <3>1, <3>2 DEF Job!JobNext, Job!Close, Job!jobVars
  <2> QED
    BY <2>1, <2>2, <2>3, <2>4 DEF SysNext
<1>3. PromptInv /\ [SysNext]_sysVars => PromptInv'
  BY PromptStep
<1>4. PromptInv /\ StdinOpen /\ [SysNext]_sysVars => StdinOpen'
  BY StdinStaysOpen DEF PromptInv, StdinOpen
<1> QED
  BY <1>1, <1>2, <1>3, <1>4, PromptInit, PTL DEF SysSpec, ImplementsJob, Job!JobSpec

=============================================================================
