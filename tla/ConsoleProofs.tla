--------------------------- MODULE ConsoleProofs ---------------------------
(***************************************************************************)
(* Proofs about what a user does, for every length of the line, every text *)
(* typed and every order of the keys.                                      *)
(***************************************************************************)
EXTENDS Console, NumberParserProofs

\* What a cell may hold.
Letters == Chars \cup {NUL}

LineOK ==
  /\ line \in [Cells -> Letters]
  /\ size \in 0..MaxLine
  /\ pos \in 0..size
  /\ size < MaxLine /\ size > 0 => line[size] = NUL

-----------------------------------------------------------------------------
(* The two halves of the line.                                             *)

TextOf(l, n)      == [i \in 1..n |-> l[i - 1]]
BeforeOf(l, p, n) == SubSeq(TextOf(l, n), 1, p)
BehindOf(l, p, n) == SubSeq(TextOf(l, n), p + 1, n)

\* The text in front of the cursor and behind it, cell by cell.
LEMMA Halves ==
  ASSUME NEW l \in [Cells -> Letters], NEW n \in 0..MaxLine, NEW p \in 0..n
  PROVE  /\ TextOf(l, n) \in Seq(Letters) /\ Len(TextOf(l, n)) = n
         /\ BeforeOf(l, p, n) \in Seq(Letters) /\ Len(BeforeOf(l, p, n)) = p
         /\ \A i \in 1..p : BeforeOf(l, p, n)[i] = l[i - 1]
         /\ BehindOf(l, p, n) \in Seq(Letters) /\ Len(BehindOf(l, p, n)) = n - p
         /\ \A i \in 1..(n - p) : BehindOf(l, p, n)[i] = l[p + i - 1]
<1> DEFINE t == TextOf(l, n)
<1>1. n \in Nat /\ p \in Nat /\ p <= n /\ n <= MaxLine
  BY LineAssumption
<1>2. \A i \in 1..n : i - 1 \in Cells
  BY <1>1, LineAssumption DEF Cells
<1>3. t \in Seq(Letters) /\ Len(t) = n /\ \A i \in 1..n : t[i] = l[i - 1] /\ t[i] \in Letters
  BY <1>1, <1>2 DEF TextOf
<1> HIDE DEF t
<1>4. /\ SubSeq(t, 1, p) \in Seq(Letters)
      /\ Len(SubSeq(t, 1, p)) = IF 1 <= p THEN p - 1 + 1 ELSE 0
      /\ \A i \in 1..(p - 1 + 1) : SubSeq(t, 1, p)[i] = t[1 + i - 1]
  <2>1. \A i \in 1..p : t[i] \in Letters
    BY <1>1, <1>3
  <2> QED
    BY <1>1, <2>1, SubSeqProperties
<1>5. /\ SubSeq(t, p + 1, n) \in Seq(Letters)
      /\ Len(SubSeq(t, p + 1, n)) = IF p + 1 <= n THEN n - (p + 1) + 1 ELSE 0
      /\ \A i \in 1..(n - (p + 1) + 1) : SubSeq(t, p + 1, n)[i] = t[p + 1 + i - 1]
  <2>1. \A i \in (p + 1)..n : t[i] \in Letters
    BY <1>1, <1>3
  <2>2. p + 1 \in Int /\ n \in Int
    BY <1>1
  <2> QED
    BY <2>1, <2>2, SubSeqProperties
<1>6. BeforeOf(l, p, n) = SubSeq(t, 1, p) /\ BehindOf(l, p, n) = SubSeq(t, p + 1, n)
  BY DEF BeforeOf, BehindOf, t
<1>7. /\ Len(SubSeq(t, 1, p)) = p
      /\ \A i \in 1..p : SubSeq(t, 1, p)[i] = l[i - 1]
  BY <1>1, <1>3, <1>4
<1>8. /\ Len(SubSeq(t, p + 1, n)) = n - p
      /\ \A i \in 1..(n - p) : SubSeq(t, p + 1, n)[i] = l[p + i - 1]
  <2>1. \A i \in 1..(n - p) : p + i \in 1..n /\ p + 1 + i - 1 = p + i
                              /\ i \in 1..(n - (p + 1) + 1)
    BY <1>1
  <2> QED
    BY <1>1, <1>3, <1>5, <2>1
<1> QED
  BY <1>3, <1>4, <1>5, <1>6, <1>7, <1>8 DEF t

\* A text with those cells is the text in front of the cursor.
LEMMA IsBefore ==
  ASSUME NEW l \in [Cells -> Letters], NEW n \in 0..MaxLine, NEW p \in 0..n,
         NEW s \in Seq(Letters), Len(s) = p, \A i \in 1..p : s[i] = l[i - 1]
  PROVE  BeforeOf(l, p, n) = s
<1> DEFINE b == BeforeOf(l, p, n)
<1>1. b \in Seq(Letters) /\ Len(b) = p /\ \A i \in 1..p : b[i] = l[i - 1]
  BY Halves
<1> HIDE DEF b
<1>2. b = s
  BY <1>1, SeqEqual
<1> QED
  BY <1>2 DEF b

\* A text with those cells is the text behind the cursor.
LEMMA IsBehind ==
  ASSUME NEW l \in [Cells -> Letters], NEW n \in 0..MaxLine, NEW p \in 0..n,
         NEW s \in Seq(Letters), Len(s) = n - p, \A i \in 1..(n - p) : s[i] = l[p + i - 1]
  PROVE  BehindOf(l, p, n) = s
<1> DEFINE b == BehindOf(l, p, n)
<1>1. b \in Seq(Letters) /\ Len(b) = n - p /\ \A i \in 1..(n - p) : b[i] = l[p + i - 1]
  BY Halves, ZenonT(30)
<1> HIDE DEF b
<1>2. b = s
  BY <1>1, SeqEqual
<1> QED
  BY <1>2 DEF b

\* All but the last character.
LEMMA FrontCells ==
  ASSUME NEW s \in Seq(Letters), s # << >>
  PROVE  /\ Front(s) \in Seq(Letters) /\ Len(Front(s)) = Len(s) - 1
         /\ \A i \in 1..(Len(s) - 1) : Front(s)[i] = s[i]
<1>1. Len(s) \in Nat /\ Len(s) > 0
  BY EmptySeq
<1> DEFINE n == Len(s) - 1
<1>2. n \in Nat /\ n < Len(s)
  BY <1>1
<1>3. Front(s) = SubSeq(s, 1, n)
  BY DEF Front
<1>4. \A i \in 1..n : s[i] \in Letters
  BY <1>1, <1>2
<1> HIDE DEF n
<1>5. /\ SubSeq(s, 1, n) \in Seq(Letters)
      /\ Len(SubSeq(s, 1, n)) = IF 1 <= n THEN n - 1 + 1 ELSE 0
      /\ \A i \in 1..(n - 1 + 1) : SubSeq(s, 1, n)[i] = s[1 + i - 1]
  BY <1>2, <1>4, SubSeqProperties
<1>6. Len(SubSeq(s, 1, n)) = n /\ \A i \in 1..n : SubSeq(s, 1, n)[i] = s[i]
  BY <1>2, <1>5
<1> QED
  BY <1>3, <1>5, <1>6 DEF n

-----------------------------------------------------------------------------
(* The keys.                                                               *)

\* The cursor stays in the text and the text in its cells.
LEMMA KeyTyped ==
  ASSUME LineOK, Key
  PROVE  LineOK'
<1>0. /\ MaxLine \in Nat /\ size \in Nat /\ pos \in Nat /\ pos <= size /\ size <= MaxLine
      /\ NUL \in Letters /\ Chars \subseteq Letters
      /\ \A i \in Cells : i \in Nat /\ line[i] \in Letters
  BY LineAssumption DEF LineOK, Letters, Cells
<1>1. CASE GCF_ProcessInput
  BY <1>0, <1>1 DEF GCF_ProcessInput, LineOK
<1>2. CASE Backspace
  <2>1. \A i \in Cells : i < size - 1 => i + 1 \in Cells
    BY <1>0 DEF Cells
  <2>2. line' \in [Cells -> Letters]
    BY <1>0, <1>2, <2>1 DEF Backspace
  <2>3. size - 1 \in Cells /\ line'[size - 1] = NUL
    BY <1>0, <1>2 DEF Backspace, Cells
  <2>4. pos' = pos - 1 /\ size' = size - 1 /\ pos > 0 /\ size > 0
    BY <1>2 DEF Backspace
  <2> QED
    BY <1>0, <2>2, <2>3, <2>4 DEF LineOK
<1>3. CASE Delete
  <2>0. pos' = pos /\ size' = size - 1 /\ pos < size
    BY <1>3 DEF Delete
  <2>1. \A i \in Cells : i < size - 1 => i + 1 \in Cells
    BY <1>0 DEF Cells
  <2>2. line' \in [Cells -> Letters]
    BY <1>0, <1>3, <2>1 DEF Delete
  <2>3. size - 1 \in Cells /\ line'[size - 1] = NUL
    BY <1>0, <1>3, <2>0 DEF Delete, Cells
  <2> QED
    BY <1>0, <2>0, <2>2, <2>3 DEF LineOK
<1>4. CASE Left \/ Right \/ Pos1 \/ End
  BY <1>0, <1>4 DEF Left, Right, Pos1, End, MoveTo, LineOK
<1>5. CASE Ignored
  BY <1>5 DEF Ignored, LineOK
<1>6. ASSUME NEW ch \in Chars, Type(ch) PROVE LineOK'
  <2>0. pos' = pos + 1 /\ size' = size + 1 /\ size < MaxLine
    BY <1>6 DEF Type
  <2>1. \A i \in Cells : i > pos => i - 1 \in Cells
    BY <1>0 DEF Cells
  <2>2. line' \in [Cells -> Letters]
    BY <1>0, <1>6, <2>1 DEF Type, Inserted
  <2>3. size + 1 < MaxLine => size + 1 \in Cells /\ line'[size + 1] = NUL
    BY <1>0, <1>6, <2>0 DEF Type, Inserted, Cells
  <2> QED
    BY <1>0, <2>0, <2>2, <2>3 DEF LineOK
<1> QED
  BY <1>1, <1>2, <1>3, <1>4, <1>5, <1>6 DEF Key

before == BeforeOf(line, pos, size)
behind == BehindOf(line, pos, size)

\* The halves as the lemmas about the keys use them, before and after a key.
LEMMA HalvesNow ==
  ASSUME LineOK, LineOK'
  PROVE  /\ pos \in Nat /\ size \in Nat /\ pos <= size /\ size <= MaxLine /\ MaxLine \in Nat
         /\ pos' \in 0..size' /\ size' \in 0..MaxLine /\ line' \in [Cells -> Letters]
         /\ before \in Seq(Letters) /\ Len(before) = pos
         /\ \A i \in 1..pos : before[i] = line[i - 1]
         /\ behind \in Seq(Letters) /\ Len(behind) = size - pos
         /\ \A i \in 1..(size - pos) : behind[i] = line[pos + i - 1]
         /\ before' = BeforeOf(line', pos', size')
         /\ behind' = BehindOf(line', pos', size')
<1>1. /\ line \in [Cells -> Letters] /\ size \in 0..MaxLine /\ pos \in 0..size
      /\ line' \in [Cells -> Letters] /\ size' \in 0..MaxLine /\ pos' \in 0..size'
  BY DEF LineOK
<1>2. before' = BeforeOf(line', pos', size') /\ behind' = BehindOf(line', pos', size')
  BY DEF before, behind, BeforeOf, BehindOf, TextOf
<1>3. pos \in Nat /\ size \in Nat /\ pos <= size /\ size <= MaxLine /\ MaxLine \in Nat
  BY <1>1, LineAssumption
<1> QED
  BY <1>1, <1>2, <1>3, Halves, ZenonT(60) DEF before, behind

\* The lengths after a key.
LEMMA HalvesNext ==
  ASSUME LineOK'
  PROVE  /\ before' \in Seq(Letters) /\ Len(before') = pos'
         /\ behind' \in Seq(Letters) /\ Len(behind') = size' - pos'
<1>1. line' \in [Cells -> Letters] /\ size' \in 0..MaxLine /\ pos' \in 0..size'
  BY DEF LineOK
<1>2. before' = BeforeOf(line', pos', size') /\ behind' = BehindOf(line', pos', size')
  BY DEF before, behind, BeforeOf, BehindOf, TextOf
<1> QED
  BY <1>1, <1>2, Halves, ZenonT(30)

\* Backspace takes the last character in front of the cursor, in every cell.
LEMMA BackspaceEdits ==
  ASSUME LineOK, LineOK', Backspace
  PROVE  before # << >> /\ before' = Front(before) /\ behind' = behind
<1>0. pos > 0 /\ size > 0 /\ pos' = pos - 1 /\ size' = size - 1
        /\ \A i \in Cells : line'[i] = IF i = size - 1 THEN NUL
                                      ELSE IF i >= pos - 1 /\ i < size - 1 THEN line[i + 1]
                                      ELSE line[i]
  BY DEF Backspace
<1>1. before # << >>
  BY <1>0, HalvesNow
<1>2. before' = Front(before)
  <2>1. /\ Front(before) \in Seq(Letters) /\ Len(Front(before)) = pos'
        /\ \A i \in 1..(pos - 1) : Front(before)[i] = before[i]
    BY <1>0, <1>1, HalvesNow, FrontCells
  <2>2. ASSUME NEW i \in 1..pos' PROVE Front(before)[i] = line'[i - 1]
    <3>1. i \in 1..(pos - 1) /\ i \in 1..pos /\ i - 1 < pos - 1 /\ i - 1 < size - 1
            /\ i - 1 \in Cells
      BY <1>0, HalvesNow DEF Cells
    <3> QED
      BY <1>0, <2>1, <3>1, HalvesNow, SMTT(30)
  <2> QED
    BY <2>1, <2>2, HalvesNow, IsBefore
<1>3. behind' = behind
  <2>1. Len(behind) = size' - pos'
    BY <1>0, HalvesNow
  <2>2. ASSUME NEW i \in 1..(size' - pos') PROVE behind[i] = line'[pos' + i - 1]
    <3> DEFINE k == pos' + i - 1
    <3>0. pos \in Nat /\ size \in Nat /\ pos <= size /\ size <= MaxLine /\ MaxLine \in Nat
      BY HalvesNow
    <3>4. k = pos - 1 + i - 1 /\ i \in 1..((size - 1) - (pos - 1))
      BY <1>0
    <3>1. i \in 1..(size - pos) /\ k \in Cells /\ k >= pos - 1 /\ k < size - 1
            /\ k + 1 = pos + i - 1
      BY <1>0, <3>0, <3>4 DEF Cells
    <3> HIDE DEF k
    <3>2. line'[k] = line[k + 1]
      BY <1>0, <3>1, HalvesNow DEF Cells
    <3> QED
      BY <3>1, <3>2, HalvesNow DEF k
  <2> QED
    BY <2>1, <2>2, HalvesNow, IsBehind
<1> QED
  BY <1>1, <1>2, <1>3

\* Delete takes the first character behind the cursor.
LEMMA DeleteEdits ==
  ASSUME LineOK, LineOK', Delete
  PROVE  behind # << >> /\ before' = before /\ behind' = Tail(behind)
<1>0. pos < size /\ pos' = pos /\ size' = size - 1
        /\ \A i \in Cells : line'[i] = IF i = size - 1 THEN NUL
                                      ELSE IF i >= pos /\ i < size - 1 THEN line[i + 1]
                                      ELSE line[i]
  BY DEF Delete
<1>1. behind # << >>
  BY <1>0, HalvesNow
<1>2. before' = before
  <2>1. Len(before) = pos'
    BY <1>0, HalvesNow
  <2>2. ASSUME NEW i \in 1..pos' PROVE before[i] = line'[i - 1]
    <3>1. i \in 1..pos /\ i - 1 < pos /\ i - 1 < size - 1 /\ i - 1 \in Cells
      BY <1>0, HalvesNow DEF Cells
    <3> QED
      BY <1>0, <3>1, HalvesNow
  <2> QED
    BY <2>1, <2>2, HalvesNow, IsBefore
<1>3. behind' = Tail(behind)
  <2>1. /\ Tail(behind) \in Seq(Letters) /\ Len(Tail(behind)) = Len(behind) - 1
        /\ \A i \in 1..Len(Tail(behind)) : Tail(behind)[i] = behind[i + 1]
    BY <1>1, HalvesNow, HeadTailProperties
  <2>2. Len(Tail(behind)) = size' - pos'
    BY <1>0, <2>1, HalvesNow
  <2>3. ASSUME NEW i \in 1..(size' - pos') PROVE Tail(behind)[i] = line'[pos' + i - 1]
    <3> DEFINE k == pos' + i - 1
    <3>0. pos \in Nat /\ size \in Nat /\ pos <= size /\ size <= MaxLine /\ MaxLine \in Nat
      BY HalvesNow
    <3>4. k = pos + i - 1 /\ i \in 1..((size - 1) - pos)
      BY <1>0
    <3>1. i + 1 \in 1..(size - pos) /\ k \in Cells /\ k >= pos /\ k < size - 1
            /\ k + 1 = pos + (i + 1) - 1
      BY <3>0, <3>4 DEF Cells
    <3> HIDE DEF k
    <3>2. line'[k] = line[k + 1]
      BY <1>0, <3>1, HalvesNow DEF Cells
    <3>3. Tail(behind)[i] = behind[i + 1]
      BY <2>1, <2>2
    <3> QED
      BY <3>1, <3>2, <3>3, HalvesNow DEF k
  <2> QED
    BY <2>1, <2>2, <2>3, HalvesNow, IsBehind
<1> QED
  BY <1>1, <1>2, <1>3

\* A character goes in front of the cursor, unless the line is full.
LEMMA TypeEdits ==
  ASSUME LineOK, LineOK', NEW ch \in Chars, Type(ch)
  PROVE  /\ Len(before \o behind) < MaxLine
         /\ before' = Append(before, ch) /\ behind' = behind
<1>0. size < MaxLine /\ pos' = pos + 1 /\ size' = size + 1
        /\ \A i \in Cells : line'[i] = IF i = size + 1 THEN NUL
                                      ELSE IF i = pos THEN ch
                                      ELSE IF i > pos /\ i <= size THEN line[i - 1]
                                      ELSE line[i]
  BY DEF Type, Inserted
<1>1. Len(before \o behind) < MaxLine
  BY <1>0, HalvesNow, ConcatProperties
<1>2. before' = Append(before, ch)
  <2>1. /\ Append(before, ch) \in Seq(Letters) /\ Len(Append(before, ch)) = pos'
        /\ \A i \in 1..pos : Append(before, ch)[i] = before[i]
        /\ Append(before, ch)[pos + 1] = ch
    BY <1>0, HalvesNow, AppendProperties DEF Letters
  <2>2. ASSUME NEW i \in 1..pos' PROVE Append(before, ch)[i] = line'[i - 1]
    <3>1. i - 1 \in Cells /\ i - 1 # size + 1 /\ (i \in 1..pos \/ i = pos + 1)
      BY <1>0, HalvesNow DEF Cells
    <3>2. CASE i \in 1..pos
      <4>1. i - 1 < pos /\ line'[i - 1] = line[i - 1]
        BY <1>0, <3>1, <3>2, HalvesNow, SMTT(30)
      <4> QED
        BY <2>1, <3>2, <4>1, HalvesNow
    <3>3. CASE i = pos + 1
      <4>1. i - 1 = pos
        BY <3>3, HalvesNow
      <4>2. line'[i - 1] = ch
        BY <1>0, <3>1, <4>1
      <4> QED
        BY <2>1, <3>3, <4>2
    <3> QED
      BY <3>1, <3>2, <3>3
  <2> QED
    BY <2>1, <2>2, HalvesNow, IsBefore
<1>3. behind' = behind
  <2>1. Len(behind) = size' - pos'
    BY <1>0, HalvesNow
  <2>2. ASSUME NEW i \in 1..(size' - pos') PROVE behind[i] = line'[pos' + i - 1]
    <3> DEFINE k == pos' + i - 1
    <3>0. pos \in Nat /\ size \in Nat /\ pos <= size /\ size <= MaxLine /\ MaxLine \in Nat
      BY HalvesNow
    <3>4. k = pos + 1 + i - 1 /\ i \in 1..((size + 1) - (pos + 1))
      BY <1>0
    <3>1. i \in 1..(size - pos) /\ k \in Cells /\ k > pos /\ k <= size /\ k # size + 1
            /\ k - 1 = pos + i - 1
      BY <1>0, <3>0, <3>4 DEF Cells
    <3> HIDE DEF k
    <3>2. line'[k] = line[k - 1]
      BY <1>0, <3>1, HalvesNow DEF Cells
    <3> QED
      BY <3>1, <3>2, HalvesNow DEF k
  <2> QED
    BY <2>1, <2>2, HalvesNow, IsBehind
<1> QED
  BY <1>1, <1>2, <1>3

\* The cursor moves and the text stays.
LEMMA MoveEdits ==
  ASSUME LineOK, LineOK', NEW p, MoveTo(p)
  PROVE  before' \o behind' = before \o behind /\ Len(before') = p
<1>0. pos' = p /\ line' = line /\ size' = size
  BY DEF MoveTo
<1>1. p \in 0..size /\ size \in 0..MaxLine /\ line \in [Cells -> Letters] /\ pos \in 0..size
  BY <1>0 DEF LineOK
<1> DEFINE t == TextOf(line, size)
<1>2. t \in Seq(Letters) /\ Len(t) = size
  BY <1>1, Halves
<1>3. ASSUME NEW q \in 0..size PROVE SubSeq(t, 1, q) \o SubSeq(t, q + 1, size) = t
  <2>1. 1 \in 1..(Len(t) + 1) /\ q \in (1 - 1)..Len(t) /\ size \in q..Len(t) /\ size \in Nat
    BY <1>1, <1>2
  <2>2. SubSeq(t, 1, q) \o SubSeq(t, q + 1, size) = SubSeq(t, 1, size)
    BY <1>2, <2>1, ConcatAdjacentSubSeq
  <2> QED
    BY <1>2, <2>2, SubSeqFull
<1>4. /\ before' = SubSeq(t, 1, p) /\ behind' = SubSeq(t, p + 1, size)
      /\ before = SubSeq(t, 1, pos) /\ behind = SubSeq(t, pos + 1, size)
  BY <1>0, HalvesNow DEF before, behind, BeforeOf, BehindOf
<1>5. Len(before') = p
  BY <1>0, <1>1, HalvesNow, Halves, SMTT(30)
<1> QED
  BY <1>1, <1>3, <1>4, <1>5

\* Left takes the last character in front of the cursor behind it.
LEMMA LeftEdits ==
  ASSUME LineOK, LineOK', Left, NEW w, w = <<Last(before)>>
  PROVE  before # << >> /\ before' = Front(before) /\ behind' = w \o behind
<1>0. pos > 0 /\ pos' = pos - 1 /\ size' = size /\ line' = line
  BY DEF Left, MoveTo
<1>1. before # << >>
  BY <1>0, HalvesNow
<1>2. before' = Front(before)
  <2>1. /\ Front(before) \in Seq(Letters) /\ Len(Front(before)) = pos'
        /\ \A i \in 1..(pos - 1) : Front(before)[i] = before[i]
    BY <1>0, <1>1, HalvesNow, FrontCells
  <2>2. ASSUME NEW i \in 1..pos' PROVE Front(before)[i] = line'[i - 1]
    <3>1. i \in 1..(pos - 1) /\ i \in 1..pos
      BY <1>0, HalvesNow
    <3> QED
      BY <1>0, <2>1, <3>1, HalvesNow
  <2> QED
    BY <2>1, <2>2, HalvesNow, IsBefore
<1>3. behind' = w \o behind
  <2>0. pos \in Nat /\ size \in Nat /\ pos <= size
    BY HalvesNow
  <2>1. before[pos] = line[pos - 1] /\ pos \in 1..pos /\ before[pos] \in Letters
    BY <1>0, <2>0, HalvesNow
  <2>2. w \in Seq(Letters) /\ Len(w) = 1 /\ w[1] = line[pos - 1]
    BY <2>1, HalvesNow DEF Last
  <2>3. /\ w \o behind \in Seq(Letters) /\ Len(w \o behind) = Len(w) + Len(behind)
        /\ \A i \in 1..(Len(w) + Len(behind)) :
             (w \o behind)[i] = IF i <= Len(w) THEN w[i] ELSE behind[i - Len(w)]
    BY <2>2, HalvesNow, ConcatProperties
  <2> DEFINE b == w \o behind
  <2>4. /\ b \in Seq(Letters) /\ Len(b) = 1 + (size - pos)
        /\ \A i \in 1..(1 + (size - pos)) : b[i] = IF i <= 1 THEN w[i] ELSE behind[i - 1]
    BY <2>2, <2>3, HalvesNow
  <2> HIDE DEF b
  <2>5. Len(b) = size' - pos'
    BY <1>0, <2>0, <2>4
  <2>6. ASSUME NEW i \in 1..(size' - pos') PROVE b[i] = line'[pos' + i - 1]
    <3>1. i \in 1..(1 + (size - pos)) /\ pos' + i - 1 = pos + i - 2
      BY <1>0, <2>0
    <3>2. CASE i = 1
      BY <1>0, <2>0, <2>2, <2>4, <3>1, <3>2
    <3>3. CASE i # 1
      <4>1. i - 1 \in 1..(size - pos) /\ ~(i <= 1) /\ pos + (i - 1) - 1 = pos + i - 2
        BY <2>0, <3>1, <3>3
      <4>2. b[i] = behind[i - 1]
        BY <2>4, <3>1, <4>1
      <4>3. behind[i - 1] = line[pos + (i - 1) - 1]
        BY <4>1, HalvesNow
      <4> QED
        BY <1>0, <3>1, <4>1, <4>2, <4>3
    <3> QED
      BY <3>2, <3>3
  <2>7. behind' = b
    BY <2>4, <2>5, <2>6, HalvesNow, IsBehind
  <2> QED
    BY <2>7 DEF b
<1> QED
  BY <1>1, <1>2, <1>3

\* Right takes the first character behind the cursor in front of it.
LEMMA RightEdits ==
  ASSUME LineOK, LineOK', Right
  PROVE  behind # << >> /\ before' = Append(before, Head(behind)) /\ behind' = Tail(behind)
<1>0. pos < size /\ pos' = pos + 1 /\ size' = size /\ line' = line
  BY DEF Right, MoveTo
<1>00. pos \in Nat /\ size \in Nat /\ pos <= size
  BY HalvesNow
<1>1. behind # << >>
  BY <1>0, HalvesNow
<1>2. before' = Append(before, Head(behind))
  <2> DEFINE x == Head(behind)
             b == Append(before, x)
  <2>1. x = line[pos] /\ x \in Letters
    <3>1. behind[1] = line[pos + 1 - 1] /\ behind[1] \in Letters /\ pos + 1 - 1 = pos
      BY <1>0, <1>00, HalvesNow
    <3> QED
      BY <1>1, <3>1
  <2> HIDE DEF x
  <2>2. /\ b \in Seq(Letters) /\ Len(b) = pos + 1
        /\ \A i \in 1..pos : b[i] = before[i]
        /\ b[pos + 1] = x
    BY <2>1, HalvesNow, AppendProperties
  <2> HIDE DEF b
  <2>3. ASSUME NEW i \in 1..pos' PROVE b[i] = line'[i - 1]
    <3>1. i \in 1..pos \/ (i = pos + 1 /\ i - 1 = pos)
      BY <1>0, <1>00
    <3>2. CASE i \in 1..pos
      BY <1>0, <2>2, <3>2, HalvesNow
    <3>3. CASE i = pos + 1 /\ i - 1 = pos
      BY <1>0, <2>1, <2>2, <3>3
    <3> QED
      BY <3>1, <3>2, <3>3
  <2>4. before' = b
    BY <1>0, <2>2, <2>3, HalvesNow, IsBefore
  <2> QED
    BY <2>4 DEF b, x
<1>3. behind' = Tail(behind)
  <2>1. /\ Tail(behind) \in Seq(Letters) /\ Len(Tail(behind)) = Len(behind) - 1
        /\ \A i \in 1..Len(Tail(behind)) : Tail(behind)[i] = behind[i + 1]
    BY <1>1, HalvesNow, HeadTailProperties
  <2>2. Len(Tail(behind)) = size' - pos'
    <3>1. Len(behind) = size - pos
      BY HalvesNow
    <3> QED
      BY <1>0, <1>00, <2>1, <3>1
  <2>3. ASSUME NEW i \in 1..(size' - pos') PROVE Tail(behind)[i] = line'[pos' + i - 1]
    <3>1. i + 1 \in 1..(size - pos) /\ pos' + i - 1 = pos + (i + 1) - 1
      BY <1>0, <1>00
    <3>2. Tail(behind)[i] = behind[i + 1]
      BY <2>1, <2>2
    <3>3. behind[i + 1] = line[pos + (i + 1) - 1]
      BY <3>1, HalvesNow
    <3> QED
      BY <1>0, <3>1, <3>2, <3>3
  <2> QED
    BY <2>1, <2>2, <2>3, HalvesNow, IsBehind
<1> QED
  BY <1>1, <1>2, <1>3

\* Each key is a step of the editor, or changes nothing.
LEMMA KeyEdits ==
  ASSUME LineOK, LineOK', Key
  PROVE  \/ \E ch \in Chars : /\ Len(before \o behind) < MaxLine
                              /\ before' = Append(before, ch) /\ behind' = behind
         \/ before # << >> /\ before' = Front(before) /\ behind' = behind
         \/ behind # << >> /\ before' = before /\ behind' = Tail(behind)
         \/ before # << >> /\ before' = Front(before) /\ behind' = <<Last(before)>> \o behind
         \/ behind # << >> /\ before' = Append(before, Head(behind)) /\ behind' = Tail(behind)
         \/ before' = << >> /\ behind' = before \o behind
         \/ before' = before \o behind /\ behind' = << >>
         \/ before' = << >> /\ behind' = << >>
         \/ before' = before /\ behind' = behind
<1>1. CASE GCF_ProcessInput
  <2>1. pos' = 0 /\ size' = 0
    BY <1>1 DEF GCF_ProcessInput
  <2>2. /\ before' \in Seq(Letters) /\ Len(before') = 0
        /\ behind' \in Seq(Letters) /\ Len(behind') = 0
    BY <2>1, HalvesNow, HalvesNext
  <2> QED
    BY <2>2, EmptySeq
<1>2. CASE Backspace
  BY <1>2, BackspaceEdits
<1>3. CASE Delete
  BY <1>3, DeleteEdits
<1>4. CASE Left
  <2> DEFINE w == <<Last(before)>>
  <2>1. w = <<Last(before)>>
    OBVIOUS
  <2> HIDE DEF w
  <2>2. before # << >> /\ before' = Front(before) /\ behind' = w \o behind
    BY <1>4, <2>1, LeftEdits
  <2> QED
    BY <2>2 DEF w
<1>5. CASE Right
  BY <1>5, RightEdits
<1>6. CASE Pos1
  <2>1. before' \o behind' = before \o behind /\ Len(before') = 0
    BY <1>6, MoveEdits DEF Pos1
  <2>2. before' \in Seq(Letters) /\ behind' \in Seq(Letters)
    BY HalvesNext
  <2>3. before' = << >>
    BY <2>1, <2>2, EmptySeq
  <2> QED
    BY <2>1, <2>2, <2>3, ConcatEmptySeq
<1>7. CASE End
  <2>1. before' \o behind' = before \o behind /\ size' = size /\ pos' = size
    BY <1>7, MoveEdits DEF End, MoveTo
  <2>2. before' \in Seq(Letters) /\ behind' \in Seq(Letters) /\ Len(behind') = 0
    BY <2>1, HalvesNow, HalvesNext
  <2>3. behind' = << >>
    BY <2>2, EmptySeq
  <2> QED
    BY <2>1, <2>2, <2>3, ConcatEmptySeq
<1>8. CASE Ignored
  BY <1>8 DEF Ignored, before, behind, BeforeOf, BehindOf, TextOf
<1>9. ASSUME NEW ch \in Chars, Type(ch)
      PROVE  \E c \in Chars : /\ Len(before \o behind) < MaxLine
                              /\ before' = Append(before, c) /\ behind' = behind
  BY <1>9, TypeEdits
<1> QED
  BY <1>1, <1>2, <1>3, <1>4, <1>5, <1>6, <1>7, <1>8, <1>9 DEF Key

-----------------------------------------------------------------------------
(* The invariant and the refinement.                                       *)

\* A line typed already is in its cells, with the cursor behind it.
LEMMA LineStarts ==
  ASSUME LineInit
  PROVE  LineOK /\ before \in Starts /\ behind = << >>
<1>1. PICK s \in Starts : /\ line = [i \in Cells |-> IF i < Len(s) THEN s[i + 1] ELSE NUL]
                          /\ pos = Len(s) /\ size = Len(s)
  BY DEF LineInit
<1>2. s \in Seq(Chars) /\ Len(s) \in Nat /\ Len(s) <= MaxLine /\ MaxLine \in Nat
  BY LineAssumption
<1>3. \A i \in Cells : i < Len(s) => i + 1 \in 1..Len(s) /\ s[i + 1] \in Chars
  BY <1>2 DEF Cells
<1>4. line \in [Cells -> Letters]
  BY <1>1, <1>3 DEF Letters
<1>5. size < MaxLine => line[size] = NUL
  BY <1>1, <1>2 DEF Cells
<1>6. LineOK
  BY <1>1, <1>2, <1>4, <1>5 DEF LineOK
<1>7. before = s
  <2>1. s \in Seq(Letters)
    BY <1>2 DEF Letters
  <2>2. ASSUME NEW i \in 1..pos PROVE s[i] = line[i - 1]
    <3>1. i - 1 \in Cells /\ i - 1 < Len(s) /\ (i - 1) + 1 = i
      BY <1>1, <1>2 DEF Cells
    <3> QED
      BY <1>1, <3>1
  <2>3. size \in 0..MaxLine /\ pos \in 0..size
    BY <1>6 DEF LineOK
  <2> QED
    BY <1>1, <1>4, <2>1, <2>2, <2>3, IsBefore DEF before
<1>8. behind = << >>
  <2>1. behind \in Seq(Letters) /\ Len(behind) = size - pos
    BY <1>6, Halves DEF LineOK, behind
  <2>2. Len(behind) = 0
    BY <1>1, <1>2, <2>1
  <2> QED
    BY <2>1, <2>2, EmptySeq
<1> QED
  BY <1>6, <1>7, <1>8

\* Every step keeps the line in order.
LEMMA LineKept ==
  LineOK /\ [Next]_consoleVars => LineOK'
<1> SUFFICES ASSUME LineOK, [Next]_consoleVars PROVE LineOK'
  OBVIOUS
<1>1. CASE Press
  BY <1>1, KeyTyped DEF Press
<1>2. CASE Try \/ Toggle \/ UNCHANGED consoleVars
  BY <1>2 DEF Try, Toggle, consoleVars, lineVars, LineOK
<1> QED
  BY <1>1, <1>2 DEF Next

\* The line is in order in every behaviour.
LEMMA LineInvariant == Spec => []LineOK
<1>1. Init => LineOK
  BY LineStarts DEF Init
<1> QED
  BY <1>1, LineKept, PTL DEF Spec

\* Moving characters from cell to cell does what an editor promises, for every
\* length of the line, every character and every order of the keys: the
\* cells implement a text with a cursor in it (gcf.c 2013-2088).
THEOREM LineRefines == Spec => EditsLine
<1> DEFINE b == SubSeq(Text, 1, pos)
           a == SubSeq(Text, pos + 1, size)
<1>0. before = b /\ behind = a /\ before' = b' /\ behind' = a'
  BY DEF before, behind, BeforeOf, BehindOf, TextOf, Text
<1>1. Init => Editor!Init
  BY <1>0, LineStarts DEF Init, Editor!Init
<1>2. LineOK /\ LineOK' /\ [Next]_consoleVars => [Editor!Next]_(Editor!textVars)
  <2> SUFFICES ASSUME LineOK, LineOK', [Next]_consoleVars
               PROVE  Editor!Next \/ UNCHANGED Editor!textVars
    OBVIOUS
  <2>1. CASE Press
    <3>1. Key
      BY <2>1 DEF Press
    <3>2. \/ \E ch \in Chars : Len(b \o a) < MaxLine /\ b' = Append(b, ch) /\ a' = a
          \/ b # << >> /\ b' = Front(b) /\ a' = a
          \/ a # << >> /\ b' = b /\ a' = Tail(a)
          \/ b # << >> /\ b' = Front(b) /\ a' = <<Last(b)>> \o a
          \/ a # << >> /\ b' = Append(b, Head(a)) /\ a' = Tail(a)
          \/ b' = << >> /\ a' = b \o a
          \/ b' = b \o a /\ a' = << >>
          \/ b' = << >> /\ a' = << >>
          \/ b' = b /\ a' = a
      BY <1>0, <3>1, KeyEdits
    <3> HIDE DEF a, b
    <3> QED
      BY <3>2
      DEF Editor!Next, Editor!Type, Editor!Backspace, Editor!Delete, Editor!Left, Editor!Right,
          Editor!Home, Editor!End, Editor!Enter, Editor!Move, Editor!textVars, Editor!Front,
          Editor!Last, Front, Last, a, b
  <2>2. CASE Try \/ Toggle \/ UNCHANGED consoleVars
    BY <2>2 DEF Try, Toggle, consoleVars, lineVars, Editor!textVars, Text
  <2> QED
    BY <2>1, <2>2 DEF Next
<1> QED
  BY <1>1, <1>2, LineInvariant, PTL DEF Spec, EditsLine, Editor!Spec

-----------------------------------------------------------------------------
(* The query.                                                              *)

\* A non-empty set of numbers up to n has its maximum in it.
LEMMA MaxUpTo ==
  ASSUME NEW n \in Nat, NEW s \in SUBSET (0..n), s # {}
  PROVE  Max(s) \in s
<1> DEFINE T == {n - i : i \in s}
<1>0. \A i \in s : i \in Int /\ n - i \in Nat
  OBVIOUS
<1>1. T \in SUBSET Nat /\ T # {}
  BY <1>0
<1>2. PICK x \in T : \A y \in T : x <= y
  BY <1>1, LeastNumber
<1>3. PICK m \in s : x = n - m
  BY <1>2
<1>4. \A i \in s : m >= i
  <2> TAKE i \in s
  <2>1. n - i \in T /\ n - m <= n - i
    BY <1>2, <1>3
  <2> QED
    BY <1>0, <2>1
<1>5. \E k \in s : \A i \in s : k >= i
  BY <1>4
<1> QED
  BY <1>5 DEF Max

\* A stream has a text and a status.
IsStream(ss) == ss = [text |-> ss.text, status |-> ss.status]

\* What is left of a text behind what was looked for.
LEMMA FindLeaves ==
  ASSUME NEW S, NEW text \in Seq(S), NEW what
  PROVE  /\ Find(Stream(text), what).text \in Seq(S)
         /\ IsStream(Find(Stream(text), what))
<1> DEFINE at == Places(text, what)
           k == CHOOSE i \in at : \A j \in at : i <= j
<1>1. Len(text) \in Nat /\ \A i \in 1..Len(text) : text[i] \in S
  OBVIOUS
<1>2. Stream(text).text = text /\ Stream(text) = [text |-> text, status |-> Stream(text).status]
  BY DEF Stream
<1>a. IsStream(Stream(text)) /\ \A t : IsStream([Stream(text) EXCEPT !.text = t])
  BY <1>2 DEF IsStream
<1>3. CASE at = {}
  BY <1>2, <1>3, <1>a DEF Find
<1>4. CASE at # {}
  <2>1. at \in SUBSET Nat
    BY <1>1 DEF Places
  <2>2. \E i \in at : \A j \in at : i <= j
    <3> HIDE DEF at
    <3> QED
      BY <1>4, <2>1, LeastNumber
  <2>3. k \in at
    <3> HIDE DEF at
    <3> QED
      BY <2>2
  <2> HIDE DEF k
  <2>4. k \in 0..(Len(text) - 1)
    BY <2>3 DEF Places
  <2>5. Find(Stream(text), what) = [Stream(text) EXCEPT !.text = SubSeq(text, 1 + k, Len(text))]
    BY <1>2, <1>4 DEF Find, k
  <2>6. SubSeq(text, 1 + k, Len(text)) \in Seq(S)
    <3>1. \A i \in (1 + k)..Len(text) : text[i] \in S
      BY <1>1, <2>4
    <3> QED
      BY <1>1, <2>4, <3>1, SubSeqProperties
  <2> QED
    BY <1>2, <1>a, <2>5, <2>6
<1> QED
  BY <1>3, <1>4

\* What is left of it behind blanks.
LEMMA BlanksLeave ==
  ASSUME NEW S, NEW ss, IsStream(ss), ss.text \in Seq(S)
  PROVE  IsStream(SkipWhitespace(ss)) /\ SkipWhitespace(ss).text \in Seq(S)
<1>1. Behind(ss.text, Blanks) \in Seq(S)
  BY BehindSplits
<1>2. SkipWhitespace(ss) = [text |-> Behind(ss.text, Blanks), status |-> ss.status]
  BY DEF SkipWhitespace, IsStream
<1> QED
  BY <1>1, <1>2 DEF IsStream

\* A stream is read for a number, and something is left.
LEMMA LongTyped ==
  ASSUME NEW S, NEW ss, IsStream(ss), ss.text \in Seq(S)
  PROVE  /\ GetLong(ss).value \in Int
         /\ IsStream(GetLong(ss).ss) /\ GetLong(ss).ss.text \in Seq(S)
<1>1. CASE ss.text = << >>
  <2>1. GetLong(ss) = [value |-> 0, ss |-> ss]
    BY <1>1 DEF GetLong
  <2> QED
    BY <2>1
<1>2. CASE ss.text # << >>
  <2>1. Strtol(ss.text).value \in Int /\ Strtol(ss.text).rest \in Seq(S)
    BY ValueTyped
  <2>2. GetLong(ss) = Taken(ss, Strtol(ss.text))
    BY <1>2 DEF GetLong
  <2> QED
    BY <2>1, <2>2 DEF Taken, IsStream
<1> QED
  BY <1>1, <1>2

\* The bytes that fit.
LEMMA BytesFit ==
  ASSUME NEW S, NEW text \in Seq(S)
  PROVE  /\ Len(HexBytes(text)) <= ArgCap
         /\ \A i \in DOMAIN HexBytes(text) :
              /\ 2 * i <= Len(text)
              /\ HexBytes(text)[i] = 16 * HexValue(text[2 * i - 1]) + HexValue(text[2 * i])
<1> DEFINE N == Len(text) \div 2
           s == {n \in 0..N : \A i \in 1..(2 * n) : \E j \in DOMAIN HexDigits : HexDigits[j] = text[i]}
           p == Pairs(text)
           k == Min({p, ArgCap})
<1>1. N \in Nat
  OBVIOUS
<1>2. s \in SUBSET (0..N) /\ 0 \in s
  BY <1>1
<1>3. p \in Nat /\ 2 * p <= Len(text)
  <2>1. Max(s) \in s
    <3> HIDE DEF s, N
    <3> QED
      BY <1>1, <1>2, MaxUpTo
  <2>2. p = Max(s)
    BY DEF Pairs
  <2>3. p \in 0..N
    BY <1>2, <2>1, <2>2
  <2>4. \A i \in 0..N : 2 * i <= Len(text)
    OBVIOUS
  <2> HIDE DEF p, N
  <2> QED
    BY <1>1, <2>3, <2>4
<1> HIDE DEF p
<1>4. k \in Nat /\ k <= ArgCap /\ k <= p
  <2> DEFINE Q(x) == x \in {p, ArgCap} /\ \A y \in {p, ArgCap} : x <= y
  <2>1. Q(p) \/ Q(ArgCap)
    BY <1>3, LineAssumption
  <2>2. k \in {p, ArgCap} /\ \A y \in {p, ArgCap} : k <= y
    BY <2>1 DEF Min
  <2> QED
    BY <1>3, <2>2, LineAssumption
<1> HIDE DEF k
<1>5. DOMAIN HexBytes(text) = 1..k /\ HexBytes(text) = [i \in 1..k |-> HexBytes(text)[i]]
  BY DEF HexBytes, p, k
<1>6. Len(HexBytes(text)) = k
  BY <1>4, <1>5
<1>7. ASSUME NEW i \in DOMAIN HexBytes(text)
      PROVE  /\ 2 * i <= Len(text)
             /\ HexBytes(text)[i] = 16 * HexValue(text[2 * i - 1]) + HexValue(text[2 * i])
  <2>1. HexBytes(text)[i] = 16 * HexValue(text[2 * i - 1]) + HexValue(text[2 * i])
    BY DEF HexBytes
  <2>2. i \in 1..k /\ Len(text) \in Nat
    BY <1>5
  <2>3. 2 * i <= Len(text)
    BY <1>3, <1>4, <2>2
  <2> QED
    BY <2>1, <2>3
<1> QED
  BY <1>4, <1>6, <1>7

\* A parameter that goes out fits its byte, and its payload the command.
QueryOK == query.sent => query.id \in 0..255 /\ Len(query.arg) <= ArgCap

\* Whatever line is entered.
LEMMA QueryTyped ==
  ASSUME LineOK, GCF_ProcessInput
  PROVE  QueryOK'
<1> DEFINE n  == QueryText(Text)
           ss == SkipWhitespace(n.ss)
<1>1. Text \in Seq(Letters)
  <2>1. Text = TextOf(line, size)
    BY DEF Text, TextOf
  <2>2. pos \in 0..size /\ size \in 0..MaxLine /\ line \in [Cells -> Letters]
    BY DEF LineOK
  <2> QED
    BY <2>1, <2>2, Halves
<1>2. n.value \in Int /\ IsStream(n.ss) /\ n.ss.text \in Seq(Letters)
  <2> DEFINE f == Find(Stream(Text), <<" ">>)
             b == SkipWhitespace(f)
  <2>1. IsStream(f) /\ f.text \in Seq(Letters)
    BY <1>1, FindLeaves
  <2>2. IsStream(b) /\ b.text \in Seq(Letters)
    <3> HIDE DEF f
    <3> QED
      BY <2>1, BlanksLeave
  <2>3. n = GetLong(b)
    BY DEF QueryText
  <2> HIDE DEF b, n
  <2> QED
    BY <2>2, <2>3, LongTyped
<1>3. Len(Payload(ss)) <= ArgCap
  <2>1. CASE Payload(ss) = << >>
    BY <2>1, LineAssumption
  <2>2. CASE Payload(ss) # << >>
    <3>1. Payload(ss) = HexBytes(Skip(ss, 2).text)
      BY <2>2 DEF Payload
    <3>2. Skip(ss, 2).text \in Seq(Letters)
      <4> DEFINE t == ss.text
      <4>1. IsStream(ss) /\ t \in Seq(Letters)
        <5> HIDE DEF n
        <5> QED
          BY <1>2, BlanksLeave
      <4> HIDE DEF ss
      <4>2. Skip(ss, 2).text = SubSeq(t, 3, Len(t))
        BY <4>1 DEF Skip, IsStream
      <4>3. Len(t) \in Nat /\ \A i \in 3..Len(t) : t[i] \in Letters
        BY <4>1
      <4> HIDE DEF t
      <4>4. SubSeq(t, 3, Len(t)) \in Seq(Letters)
        BY <4>3, SubSeqProperties
      <4> QED
        BY <4>2, <4>4
    <3> QED
      BY <3>1, <3>2, BytesFit
  <2> QED
    BY <2>1, <2>2
<1> HIDE DEF n, ss
<1>4. n.value % 256 \in 0..255
  <2>1. \A v \in Int : v % 256 \in 0..255
    OBVIOUS
  <2> QED
    BY <1>2, <2>1
<1>5. /\ query'.sent => query'.id = n.value % 256
      /\ query'.sent => query'.arg = Payload(ss)
  BY DEF GCF_ProcessInput, n, ss
<1> QED
  BY <1>3, <1>4, <1>5 DEF QueryOK

\* What is stored behind an array: a line of EchoCap characters has been echoed into
\* the smaller one, and a full one has had its terminator stored, after that.
SpiltOK ==
  /\ spilt \subseteq Overruns
  /\ size = MaxLine => "terminator" \in spilt
  /\ EchoCap <= size \/ "terminator" \in spilt => "echo" \in spilt

\* A line typed already has left its marks.
LEMMA SpiltStarts ==
  ASSUME LineInit
  PROVE  SpiltOK
<1>1. PICK s \in Starts : size = Len(s) /\ spilt = UNION {Overrun(n) : n \in 0..Len(s)}
  BY DEF LineInit
<1>2. /\ Len(s) \in Nat /\ Len(s) <= MaxLine
      /\ MaxLine \in Nat /\ EchoCap \in Nat /\ EchoCap < MaxLine
  BY LineAssumption
<1>3. spilt \subseteq Overruns
  BY <1>1 DEF Overrun
<1>4. size = MaxLine => "terminator" \in spilt
  <2> SUFFICES ASSUME size = MaxLine PROVE "terminator" \in spilt
    OBVIOUS
  <2>1. "terminator" \in Overrun(Len(s)) /\ Len(s) \in 0..Len(s)
    BY <1>1, <1>2 DEF Overrun, Overruns
  <2> QED
    BY <1>1, <2>1
<1>5. "terminator" \in spilt => EchoCap <= size
  <2> SUFFICES ASSUME "terminator" \in spilt PROVE EchoCap <= size
    OBVIOUS
  <2>1. PICK n \in 0..Len(s) : "terminator" \in Overrun(n)
    BY <1>1
  <2>2. n = MaxLine
    BY <2>1 DEF Overrun
  <2> QED
    BY <1>1, <1>2, <2>2
<1>6. EchoCap <= size => "echo" \in spilt
  <2> SUFFICES ASSUME EchoCap <= size PROVE "echo" \in spilt
    OBVIOUS
  <2>1. "echo" \in Overrun(EchoCap) /\ EchoCap \in 0..Len(s)
    BY <1>1, <1>2 DEF Overrun, Overruns
  <2> QED
    BY <1>1, <2>1
<1> QED
  BY <1>3, <1>4, <1>5, <1>6 DEF SpiltOK

\* A key adds at most one character, and so passes EchoCap before the line is full.
LEMMA SpiltKept ==
  ASSUME LineOK, LineOK', SpiltOK, Key
  PROVE  SpiltOK'
<1>1. /\ MaxLine \in Nat /\ EchoCap \in Nat /\ 0 < EchoCap /\ EchoCap < MaxLine
      /\ size \in 0..MaxLine /\ size' \in 0..MaxLine /\ pos \in 0..size
  BY LineAssumption DEF LineOK
<1>2. size' <= size + 1
  <2>1. GCF_ProcessInput => size' = 0
    BY DEF GCF_ProcessInput
  <2>2. Backspace \/ Delete => size' = size - 1
    BY DEF Backspace, Delete
  <2>3. Left \/ Right \/ Pos1 \/ End \/ Ignored => size' = size
    BY DEF Left, Right, Pos1, End, MoveTo, Ignored
  <2>4. (\E ch \in Chars : Type(ch)) => size' = size + 1
    BY DEF Type
  <2>5. \/ GCF_ProcessInput \/ Backspace \/ Delete
        \/ Left \/ Right \/ Pos1 \/ End \/ Ignored
        \/ \E ch \in Chars : Type(ch)
    BY DEF Key
  <2>6. size' = 0 \/ size' = size - 1 \/ size' = size \/ size' = size + 1
    BY <2>1, <2>2, <2>3, <2>4, <2>5
  <2> QED
    BY <1>1, <2>6
<1>3. spilt' = spilt \cup Overrun(size')
  BY DEF Key
<1>4. spilt' \subseteq Overruns
  BY <1>3 DEF SpiltOK, Overrun
<1>5. size' = MaxLine => "terminator" \in spilt'
  BY <1>3 DEF Overrun, Overruns
<1>6. size' # MaxLine /\ EchoCap <= size' => "echo" \in spilt'
  <2> SUFFICES ASSUME size' # MaxLine, EchoCap <= size' PROVE "echo" \in Overrun(size')
    BY <1>3
  <2>1. size' < MaxLine
    BY <1>1
  <2> QED
    BY <2>1 DEF Overrun, Overruns
<1>7. size' = MaxLine => "echo" \in spilt'
  <2>1. size' = MaxLine => EchoCap <= size
    BY <1>1, <1>2
  <2> QED
    BY <1>3, <2>1 DEF SpiltOK
<1>8. "terminator" \in spilt' => "terminator" \in spilt \/ size' = MaxLine
  BY <1>3 DEF Overrun
<1> QED
  BY <1>3, <1>4, <1>5, <1>6, <1>7, <1>8 DEF SpiltOK

\* The cursor stays in the text and the text in its array, with a terminator behind it
\* unless the line is full, and a parameter that goes out in its byte and its payload
\* in the command; behind its array goes only the terminator of a full line, and before
\* that the echo of a long one: for every length of the line, every text and every
\* order of the keys (gcf.c 1928-2107).
THEOREM LineTyped == Spec => []LineTypeOK
<1>1. Init => LineOK /\ QueryOK /\ SpiltOK
  <2>1. LineInit => QueryOK
    BY DEF LineInit, QueryOK, NoQuery
  <2> QED
    BY <2>1, LineStarts, SpiltStarts DEF Init
<1>2. LineOK /\ QueryOK /\ [Next]_consoleVars => QueryOK'
  <2> SUFFICES ASSUME LineOK, QueryOK, [Next]_consoleVars PROVE QueryOK'
    OBVIOUS
  <2>1. CASE Press
    <3>1. GCF_ProcessInput \/ query' = query
      BY <2>1 DEF Press, Key
    <3> QED
      BY <3>1, QueryTyped DEF QueryOK
  <2>2. CASE Try \/ Toggle \/ UNCHANGED consoleVars
    BY <2>2 DEF Try, Toggle, consoleVars, lineVars, QueryOK
  <2> QED
    BY <2>1, <2>2 DEF Next
<1>3. LineOK /\ LineOK' /\ SpiltOK /\ [Next]_consoleVars => SpiltOK'
  <2> SUFFICES ASSUME LineOK, LineOK', SpiltOK, [Next]_consoleVars PROVE SpiltOK'
    OBVIOUS
  <2>1. CASE Press
    BY <2>1, SpiltKept DEF Press
  <2>2. CASE Try \/ Toggle \/ UNCHANGED consoleVars
    BY <2>2 DEF Try, Toggle, consoleVars, lineVars, SpiltOK
  <2> QED
    BY <2>1, <2>2 DEF Next
<1>4. LineOK /\ QueryOK /\ SpiltOK => LineTypeOK
  BY LineAssumption DEF LineOK, QueryOK, SpiltOK, LineTypeOK, Letters
<1> QED
  BY <1>1, <1>2, <1>3, <1>4, LineKept, PTL DEF Spec

-----------------------------------------------------------------------------
(* The arguments, one by one.                                              *)

Names ==
  {"state", "task", "uiInteractive", "uiDebugLevel", "sniffChannel", "sniffHost", "devpath",
   "devSerialNum", "devices", "devType", "devBaudrate", "fname", "file", "maxTime", "running",
   "ret", "want", "stop"}

Words ==
  {"none", "FAILED", "SUCCESS", "T_RESET", "T_CONNECT", "T_DUMP_FLASH", "T_LIST", "T_HELP",
   "T_PROGRAM", "T_SNIFF", "ST_ListDevices", "f", "d", "b", "t", "s", "H", "x"}

\* What the fields may hold while the arguments args are read.
Values(args, m) ==
  {args[i] : i \in DOMAIN args} \cup {GCF_ParseFile(m.files[p]) : p \in DOMAIN m.files}
    \cup Int \cup {TRUE} \cup Words

\* A set of values that is large enough.
Enough(V, args, m) == Values(args, m) \subseteq V

\* What is written in the code is among them.
Plain(V) ==
  /\ TRUE \in V /\ "none" \in V /\ "FAILED" \in V /\ "SUCCESS" \in V
  /\ "T_RESET" \in V /\ "T_CONNECT" \in V /\ "T_DUMP_FLASH" \in V /\ "T_LIST" \in V
  /\ "T_HELP" \in V /\ "T_PROGRAM" \in V /\ "T_SNIFF" \in V /\ "ST_ListDevices" \in V
  /\ "f" \in V /\ "d" \in V /\ "b" \in V /\ "t" \in V /\ "s" \in V /\ "H" \in V /\ "x" \in V

\* They are.
LEMMA PlainIsEnough ==
  ASSUME NEW V, Words \subseteq V, TRUE \in V
  PROVE  Plain(V)
  BY DEF Plain, Words

\* An option leaves a GCF.
LEMMA OptionGcf ==
  ASSUME NEW V, Plain(V), Int \subseteq V, NEW g \in [Names -> V], NEW arg
  PROVE  Option(g, arg) \in [Names -> V]
<1> DEFINE o == IF Len(arg) > 1 THEN arg[2] ELSE "none"
           Leads(r) == Option(g, arg) = r
<1>1. \/ Leads([g EXCEPT !.task = "T_RESET"])
      \/ Leads([g EXCEPT !.task = "T_CONNECT"])
      \/ Leads([g EXCEPT !.task = "T_DUMP_FLASH"])
      \/ Leads([g EXCEPT !.uiInteractive = TRUE])
      \/ Leads(Succeed([g EXCEPT !.task = "T_LIST", !.state = "ST_ListDevices"]))
      \/ Leads(Succeed([g EXCEPT !.task = "T_HELP"]))
      \/ o = "f" /\ Leads([g EXCEPT !.task = "T_PROGRAM", !.want = o])
      \/ o \in {"d", "b", "t", "s", "H", "x"} /\ Leads([g EXCEPT !.want = o])
      \/ Leads(Fail(g))
  BY DEF Option
<1> HIDE DEF Leads, o
<1> QED
  BY <1>1 DEF Leads, Succeed, Fail, Plain

\* A number in a range is one.
LEMMA InRangeInt ==
  ASSUME NEW n, NEW lo \in Int, NEW hi \in Int, InRange(n, lo, hi)
  PROVE  n.value \in Int
  BY DEF InRange

\* So does an argument.
LEMMA ArgumentGcf ==
  ASSUME NEW V, Plain(V), Int \subseteq V, NEW g \in [Names -> V],
         NEW arg \in V, NEW m, \A p \in DOMAIN m.files : GCF_ParseFile(m.files[p]) \in V
  PROVE  Argument(g, arg, m) \in [Names -> V]
<1> DEFINE x == [g EXCEPT !.want = "none"]
           n == Number(arg)
           Leads(r) == Argument(g, arg, m) = r
<1>1. x \in [Names -> V]
  BY DEF Plain
<1> DEFINE w == g.want
<1>2. Leads(ArgumentOf(w, x, arg, n, m))
  BY DEF Argument
<1> HIDE DEF x, n, w
<1>3. FileArgument(x, arg, m) \in [Names -> V]
  <2> DEFINE y == [x EXCEPT !.fname = arg]
             z == [x EXCEPT !.fname = arg, !.file = GCF_ParseFile(m.files[arg])]
  <2>1. y \in [Names -> V] /\ (arg \in DOMAIN m.files => z \in [Names -> V])
    BY <1>1
  <2>2. \/ FileArgument(x, arg, m) \in {Fail(x), Fail(y)}
        \/ arg \in DOMAIN m.files /\ FileArgument(x, arg, m) \in {z, Fail(z)}
    BY DEF FileArgument, Checked
  <2> HIDE DEF y, z
  <2> QED
    BY <1>1, <2>1, <2>2 DEF Fail, Plain
<1>a. /\ InRange(n, 38400, 38400) \/ InRange(n, 115200, 115200) => n.value \in Int
      /\ InRange(n, 0, 3600) \/ InRange(n, 11, 26) \/ InRange(n, 0, 3) => n.value \in Int
  BY InRangeInt
<1>4. \/ Leads(Fail(x)) \/ Leads([x EXCEPT !.devpath = arg]) \/ Leads(FileArgument(x, arg, m))
      \/ n.value \in Int /\ Leads([x EXCEPT !.devBaudrate = n.value])
      \/ n.value \in Int /\ Leads([x EXCEPT !.maxTime = n.value])
      \/ n.value \in Int /\ Leads([x EXCEPT !.task = "T_SNIFF", !.sniffChannel = n.value])
      \/ Leads([x EXCEPT !.sniffHost = arg])
      \/ n.value \in Int /\ Leads([x EXCEPT !.uiDebugLevel = n.value])
  <2> HIDE DEF Leads
  <2>1. w = "d" => Leads(Fail(x)) \/ Leads([x EXCEPT !.devpath = arg])
    BY <1>2 DEF ArgumentOf
  <2>2. w = "f" => Leads(FileArgument(x, arg, m))
    BY <1>2 DEF ArgumentOf
  <2>3. w = "b" => \/ Leads(Fail(x))
                   \/ n.value \in Int /\ Leads([x EXCEPT !.devBaudrate = n.value])
    BY <1>2, <1>a DEF ArgumentOf
  <2>4. w = "t" => \/ Leads(Fail(x))
                   \/ n.value \in Int /\ Leads([x EXCEPT !.maxTime = n.value])
    BY <1>2, <1>a DEF ArgumentOf
  <2>5. w = "s" => \/ Leads(Fail(x))
                   \/ n.value \in Int /\ Leads([x EXCEPT !.task = "T_SNIFF", !.sniffChannel = n.value])
    BY <1>2, <1>a DEF ArgumentOf
  <2>6. w = "H" => Leads([x EXCEPT !.sniffHost = arg])
    BY <1>2 DEF ArgumentOf
  <2>7. w \notin {"d", "f", "b", "t", "s", "H"}
          => \/ Leads(Fail(x))
             \/ n.value \in Int /\ Leads([x EXCEPT !.uiDebugLevel = n.value])
    BY <1>2, <1>a DEF ArgumentOf
  <2> QED
    BY <2>1, <2>2, <2>3, <2>4, <2>5, <2>6, <2>7
<1> HIDE DEF Leads
<1> QED
  BY <1>1, <1>3, <1>4 DEF Leads, Fail, Plain

\* And a round of the loop.
LEMMA RoundGcf ==
  ASSUME NEW args, NEW m, NEW V, Enough(V, args, m),
         NEW g \in [Names -> V], NEW i \in DOMAIN args
  PROVE  Round(g, args[i], m) \in [Names -> V]
<1>1. /\ Words \subseteq V /\ TRUE \in V /\ Int \subseteq V /\ args[i] \in V
      /\ \A p \in DOMAIN m.files : GCF_ParseFile(m.files[p]) \in V
  BY DEF Enough, Values
<1>0. Plain(V)
  BY <1>1, PlainIsEnough
<1>2. Round(g, args[i], m) \in {g, Fail(g), Argument(g, args[i], m), Option(g, args[i])}
  BY DEF Round
<1>3. Fail(g) \in [Names -> V]
  BY <1>0 DEF Fail, Plain
<1> QED
  BY <1>0, <1>1, <1>2, <1>3, OptionGcf, ArgumentGcf

\* The states u of a GCF g that goes through the arguments.
Rounds(u, g, args, m) ==
  /\ u[0] = g /\ Arguments(g, args, m) = Missing(u[Len(args)])
  /\ \A i \in 1..Len(args) : u[i] = Round(u[i - 1], args[i], m)

\* The loop over the arguments takes them one after the other.
LEMMA ArgumentSteps ==
  ASSUME NEW args, IsSequence(args), NEW m, NEW V, Enough(V, args, m), NEW g \in [Names -> V]
  PROVE  \E u \in [0..Len(args) -> [Names -> V]] : Rounds(u, g, args, m)
<1> DEFINE N == Len(args)
           X == [Names -> V]
           op(b, arg) == Round(b, arg, m)
           Is(f) == f = [q \in SUBSET (1..N) |->
                           IF q = {} THEN g ELSE Round(f[q \ {Max(q)}], args[Max(q)], m)]
           iter == CHOOSE f : Is(f)
           next == [z \in X \X (1..N) |-> Round(z[1], args[z[2]], m)]
<1>1. N \in Nat /\ DOMAIN args = 1..N
  BY DEF IsSequence
<1>2. Arguments(g, args, m) = Missing(iter[1..N])
  BY <1>1 DEF Arguments, FoldLeft, MapThenFoldSet
<1> HIDE DEF N
<1>3. g \in X /\ \A x \in X, i \in 1..N : Round(x, args[i], m) \in X
  BY <1>1, RoundGcf
<1> HIDE DEF X
<1>4. next \in [X \X (1..N) -> X] /\ \A x \in X, i \in 1..N : next[<<x, i>>] = Round(x, args[i], m)
  BY <1>1, <1>3
<1> HIDE DEF next
<1>5. \A q \in SUBSET (1..N) : q # {} => Max(q) \in 1..N
  BY <1>1, MaxIn
<1>6. PICK f \in [SUBSET (1..N) -> X] : IsFold(f, N, g, next)
  BY <1>1, <1>3, <1>4, FoldExists
<1>7. Is(f)
  BY <1>4, <1>5, <1>6 DEF IsFold
<1>8. Is(iter)
  <2> HIDE DEF Is
  <2> QED
    BY <1>7
<1> HIDE DEF iter
<1>9. FoldsIn(X, iter, N, g, next)
  BY <1>4, <1>5, <1>8 DEF FoldsIn
<1> HIDE DEF Is
<1>10. PICK u \in [0..N -> X] : Steps(u, N, g, next) /\ u[N] = iter[1..N]
  BY <1>1, <1>3, <1>9, FoldSteps
<1>11. ASSUME NEW i \in 1..N PROVE u[i] = Round(u[i - 1], args[i], m)
  <2>1. u[i - 1] \in X
    <3>1. i - 1 \in 0..N
      BY <1>1
    <3> QED
      BY <1>10, <3>1
  <2> QED
    BY <1>4, <1>10, <2>1 DEF Steps
<1>12. u[0] = g
  BY <1>10 DEF Steps
<1> QED
  BY <1>2, <1>10, <1>11, <1>12 DEF N, X, Rounds


-----------------------------------------------------------------------------
(* Attempts side by side: a reads the arguments on one machine, b and c on   *)
(* another; a is the first, b comes after it, and c is the one that b has to *)
(* be like.                                                                 *)

\* The fields that Reset leaves alone, wholly or in part.
Lasting == {"maxTime", "sniffHost", "file", "devices"}

\* The fields of a and b that the arguments decide alone.
Same == {"want", "task"}

\* One that was refused.
Stopped(g) == g.stop = TRUE /\ g.ret = "FAILED"

\* The fields that no argument sets, unless it is refused.
Fixed == {"stop", "running"}

\* b and c agree; what no argument has set is what it was, for all three of them.
Abreast(a, b, c, a0, b0, c0) ==
  /\ a["stop"] = FALSE /\ b["stop"] = FALSE /\ a["running"] = TRUE /\ b["running"] = TRUE
  /\ \A f \in Same : a[f] = b[f]
  /\ \A f \in Names \ Lasting : b[f] = c[f]
  /\ \A f \in Lasting \ {"devices"} : \/ b[f] = c[f]
                                      \/ a[f] = a0[f] /\ b[f] = b0[f] /\ c[f] = c0[f]

\* The names of the fields.
Named18 ==
  /\ "state" \in Names /\ "task" \in Names /\ "uiInteractive" \in Names
  /\ "uiDebugLevel" \in Names /\ "sniffChannel" \in Names /\ "sniffHost" \in Names
  /\ "devpath" \in Names /\ "devSerialNum" \in Names /\ "devices" \in Names
  /\ "devType" \in Names /\ "devBaudrate" \in Names /\ "fname" \in Names /\ "file" \in Names
  /\ "maxTime" \in Names /\ "running" \in Names /\ "ret" \in Names /\ "want" \in Names
  /\ "stop" \in Names

\* They are names.
LEMMA FieldNames == Named18
  BY DEF Named18, Names

\* One step of all three: a field stays, or is set to the same value in b and c.
Together(a, b, c, ra, rb, rc) ==
  \A f \in Names : \/ ra[f] = a[f] /\ rb[f] = b[f] /\ rc[f] = c[f]
                   \/ f \notin Fixed /\ rb[f] = rc[f] /\ (f \in Same => ra[f] = rb[f])

\* They stay abreast.
LEMMA StepAbreast ==
  ASSUME NEW a, NEW b, NEW c, NEW a0, NEW b0, NEW c0, NEW ra, NEW rb, NEW rc,
         Abreast(a, b, c, a0, b0, c0), Together(a, b, c, ra, rb, rc)
  PROVE  Abreast(ra, rb, rc, a0, b0, c0)
<1>0. Named18
  BY FieldNames
<1>1. Lasting \subseteq Names /\ Same \subseteq Names /\ Fixed \subseteq Names /\ "stop" \in Fixed /\ "running" \in Fixed
  BY <1>0 DEF Named18, Lasting, Same, Fixed
<1>2. /\ ra["stop"] = FALSE /\ rb["stop"] = FALSE
      /\ ra["running"] = TRUE /\ rb["running"] = TRUE
  BY <1>1 DEF Abreast, Together
<1>3. \A f \in Same : ra[f] = rb[f]
  BY <1>1 DEF Abreast, Together
<1>4. \A f \in Names \ Lasting : rb[f] = rc[f]
  BY DEF Abreast, Together
<1>5. \A f \in Lasting \ {"devices"} :
        \/ rb[f] = rc[f]
        \/ ra[f] = a0[f] /\ rb[f] = b0[f] /\ rc[f] = c0[f]
  BY <1>1 DEF Abreast, Together
<1> QED
  BY <1>2, <1>3, <1>4, <1>5 DEF Abreast


\* An option takes them all the same way.
LEMMA OptionAbreast ==
  ASSUME NEW a, NEW b, NEW c, DOMAIN a = Names, DOMAIN b = Names, DOMAIN c = Names,
         NEW a0, NEW b0, NEW c0, Abreast(a, b, c, a0, b0, c0), NEW arg
  PROVE  \/ Stopped(Option(a, arg))
         \/ Abreast(Option(a, arg), Option(b, arg), Option(c, arg), a0, b0, c0)
<1> DEFINE o == IF Len(arg) > 1 THEN arg[2] ELSE "none"
           Of(g) == Option(g, arg)
           Alike == Together(a, b, c, Of(a), Of(b), Of(c))
<1>0. Named18
  BY FieldNames
<1> HIDE DEF o
<1>1. ASSUME NEW t, \A g : Of(g) = [g EXCEPT !.task = t] PROVE Alike
  BY <1>1 DEF Together, Fixed
<1>2. ASSUME \A g : Of(g) = [g EXCEPT !.uiInteractive = TRUE] PROVE Alike
  BY <1>2 DEF Together, Fixed
<1>3. ASSUME \A g : Of(g) = Succeed([g EXCEPT !.task = "T_LIST", !.state = "ST_ListDevices"])
      PROVE  Alike
  <2>1. ASSUME NEW g, DOMAIN g = Names, NEW f \in Names
        PROVE  Of(g)[f] = IF f = "ret" THEN "SUCCESS" ELSE IF f = "state" THEN "ST_ListDevices"
                          ELSE IF f = "task" THEN "T_LIST" ELSE g[f]
    BY <1>3, <2>1, ZenonT(40) DEF Succeed
  <2> QED
    BY <2>1 DEF Together, Fixed
<1>4. ASSUME \A g : Of(g) = Succeed([g EXCEPT !.task = "T_HELP"]) PROVE Alike
  <2>1. ASSUME NEW g, DOMAIN g = Names, NEW f \in Names
        PROVE  Of(g)[f] = IF f = "ret" THEN "SUCCESS" ELSE IF f = "task" THEN "T_HELP" ELSE g[f]
    BY <1>4, <2>1 DEF Succeed
  <2> QED
    BY <2>1 DEF Together, Fixed
<1>5. ASSUME \A g : Of(g) = [g EXCEPT !.task = "T_PROGRAM", !.want = o] PROVE Alike
  BY <1>5, ZenonT(40) DEF Together, Fixed
<1>6. ASSUME \A g : Of(g) = [g EXCEPT !.want = o] PROVE Alike
  BY <1>6 DEF Together, Fixed
<1>7. ASSUME \A g : Of(g) = Fail(g) PROVE Stopped(Of(a))
  BY <1>0, <1>7, ZenonT(40) DEF Named18, Fail, Stopped
<1>8. \/ \E t : \A g : Of(g) = [g EXCEPT !.task = t]
      \/ \A g : Of(g) = [g EXCEPT !.uiInteractive = TRUE]
      \/ \A g : Of(g) = Succeed([g EXCEPT !.task = "T_LIST", !.state = "ST_ListDevices"])
      \/ \A g : Of(g) = Succeed([g EXCEPT !.task = "T_HELP"])
      \/ \A g : Of(g) = [g EXCEPT !.task = "T_PROGRAM", !.want = o]
      \/ \A g : Of(g) = [g EXCEPT !.want = o]
      \/ \A g : Of(g) = Fail(g)
  <2>1. o = "r" => \A g : Of(g) = [g EXCEPT !.task = "T_RESET"]
    BY DEF Option, o
  <2>2. o = "c" => \A g : Of(g) = [g EXCEPT !.task = "T_CONNECT"]
    BY DEF Option, o
  <2>3. o = "k" => \A g : Of(g) = [g EXCEPT !.task = "T_DUMP_FLASH"]
    BY DEF Option, o
  <2>4. o = "i" => \A g : Of(g) = [g EXCEPT !.uiInteractive = TRUE]
    BY DEF Option, o
  <2>5. o = "l" => \A g : Of(g) =
               Succeed([g EXCEPT !.task = "T_LIST", !.state = "ST_ListDevices"])
    BY DEF Option, o
  <2>6. o \in {"h", "?"} => \A g : Of(g) = Succeed([g EXCEPT !.task = "T_HELP"])
    BY DEF Option, o
  <2>7. o = "f" => \A g : Of(g) = [g EXCEPT !.task = "T_PROGRAM", !.want = o]
    BY DEF Option, o
  <2>8. o \in {"d", "b", "t", "s", "H", "x"} => \A g : Of(g) = [g EXCEPT !.want = o]
    BY DEF Option, o
  <2>9. o \notin {"r", "c", "k", "i", "l", "h", "?", "f", "d", "b", "t", "s", "H", "x"}
          => \A g : Of(g) = Fail(g)
    BY DEF Option, o
  <2> HIDE DEF Of
  <2> QED
    BY <2>1, <2>2, <2>3, <2>4, <2>5, <2>6, <2>7, <2>8, <2>9
<1> HIDE DEF Of
<1>9. Alike \/ Stopped(Of(a))
  BY <1>1, <1>2, <1>3, <1>4, <1>5, <1>6, <1>7, <1>8
<1> QED
  BY <1>9, StepAbreast DEF Of


\* So do they take the argument behind an option; only the file may differ from
\* machine to machine.
LEMMA ArgumentAbreast ==
  ASSUME NEW a, NEW b, NEW c, DOMAIN a = Names, DOMAIN b = Names, DOMAIN c = Names,
         NEW a0, NEW b0, NEW c0, Abreast(a, b, c, a0, b0, c0), NEW arg, NEW m1, NEW m2
  PROVE  \/ Stopped(Argument(a, arg, m1)) \/ Stopped(Argument(b, arg, m2))
         \/ Abreast(Argument(a, arg, m1), Argument(b, arg, m2), Argument(c, arg, m2), a0, b0, c0)
<1> DEFINE w == a.want
           n == Number(arg)
           A == Argument(a, arg, m1)
           B == Argument(b, arg, m2)
           C == Argument(c, arg, m2)
           Free(g) == [g EXCEPT !.want = "none"]
           Alike == Together(a, b, c, A, B, C)
<1>0. Named18
  BY FieldNames
<1>1. b.want = w /\ c.want = w
  BY <1>0 DEF Abreast, Named18, Same, Lasting
<1>2. /\ A = ArgumentOf(w, Free(a), arg, n, m1)
      /\ B = ArgumentOf(w, Free(b), arg, n, m2)
      /\ C = ArgumentOf(w, Free(c), arg, n, m2)
  BY <1>1 DEF Argument
<1> HIDE DEF A, B, C, w, n
<1>3. ASSUME NEW g, DOMAIN g = Names
      PROVE  /\ DOMAIN Free(g) = Names
             /\ \A f \in Names : Free(g)[f] = IF f = "want" THEN "none" ELSE g[f]
  BY <1>3
<1> HIDE DEF Free
<1>4. ASSUME NEW g, DOMAIN g = Names PROVE Stopped(Fail(g))
  BY <1>0, <1>4 DEF Named18, Fail, Stopped
<1> DEFINE Set(f, v) == /\ A = [Free(a) EXCEPT ![f] = v] /\ B = [Free(b) EXCEPT ![f] = v]
                        /\ C = [Free(c) EXCEPT ![f] = v]
<1>5. ASSUME NEW f, f \notin Same \cup Fixed, NEW v, Set(f, v)
      PROVE  Alike
  BY <1>3, <1>5 DEF Together, Fixed, Same
<1>6. ASSUME NEW v, A = [Free(a) EXCEPT !.task = "T_SNIFF", !.sniffChannel = v],
             B = [Free(b) EXCEPT !.task = "T_SNIFF", !.sniffChannel = v],
             C = [Free(c) EXCEPT !.task = "T_SNIFF", !.sniffChannel = v]
      PROVE  Alike
  <2> DEFINE R(g) == [Free(g) EXCEPT !.task = "T_SNIFF", !.sniffChannel = v]
  <2>1. ASSUME NEW g, DOMAIN g = Names, NEW f \in Names
        PROVE  R(g)[f] = IF f = "sniffChannel" THEN v ELSE IF f = "task" THEN "T_SNIFF"
                         ELSE Free(g)[f]
    BY <1>3, <2>1
  <2>2. A = R(a) /\ B = R(b) /\ C = R(c)
    BY <1>6
  <2> HIDE DEF R
  <2>3. ASSUME NEW f \in Names
        PROVE  \/ A[f] = a[f] /\ B[f] = b[f] /\ C[f] = c[f]
               \/ f \notin Fixed /\ B[f] = C[f] /\ (f \in Same => A[f] = B[f])
    <3>1. CASE f = "sniffChannel"
      BY <2>1, <2>2, <3>1 DEF Same, Fixed
    <3>2. CASE f = "task"
      BY <2>1, <2>2, <3>2 DEF Fixed
    <3>3. CASE f \notin {"sniffChannel", "task"}
      <4>1. A[f] = Free(a)[f] /\ B[f] = Free(b)[f] /\ C[f] = Free(c)[f]
        BY <2>1, <2>2, <3>3
      <4> QED
        BY <1>3, <4>1 DEF Fixed
    <3> QED
      BY <3>1, <3>2, <3>3
  <2> QED
    BY <2>3 DEF Together, Fixed
<1>7. w = "f" => Alike \/ Stopped(A) \/ Stopped(B)
  <2> DEFINE Called(g)   == [Free(g) EXCEPT !.fname = arg]
             Read(g, m) == [Free(g) EXCEPT !.fname = arg, !.file = GCF_ParseFile(m.files[arg])]
  <2>1. ASSUME NEW g, DOMAIN g = Names, NEW m
        PROVE  /\ DOMAIN Called(g) = Names /\ DOMAIN Read(g, m) = Names
               /\ Read(g, m).file = GCF_ParseFile(m.files[arg])
    BY <1>0, <1>3, <2>1 DEF Named18
  <2>a. ASSUME NEW g, DOMAIN g = Names, NEW m, NEW f \in Names
        PROVE  Read(g, m)[f] = IF f = "file" THEN GCF_ParseFile(m.files[arg])
                               ELSE IF f = "fname" THEN arg ELSE Free(g)[f]
    BY <1>3, <2>a
  <2> DEFINE Opens(m) == /\ ~(Len(arg) > PathCap) /\ arg \in DOMAIN m.files
                         /\ GCF_ParseFile(m.files[arg]).ok
  <2>2. ASSUME NEW g, DOMAIN g = Names, NEW m
        PROVE  \/ Stopped(FileArgument(Free(g), arg, m))
               \/ FileArgument(Free(g), arg, m) = Read(g, m) /\ Opens(m)
    <3> DEFINE F == FileArgument(Free(g), arg, m)
    <3>1. \/ F = Fail(Free(g)) \/ F = Fail(Called(g))
          \/ F = Checked(Read(g, m)) /\ ~(Len(arg) > PathCap) /\ arg \in DOMAIN m.files
      BY DEF FileArgument
    <3>2. \/ Checked(Read(g, m)) = Fail(Read(g, m))
          \/ Checked(Read(g, m)) = Read(g, m) /\ Read(g, m).file.ok
      BY DEF Checked
    <3> HIDE DEF F, Called, Read
    <3> QED
      BY <1>3, <1>4, <2>1, <2>2, <3>1, <3>2 DEF F
  <2>3. w = "f" => /\ A = FileArgument(Free(a), arg, m1) /\ B = FileArgument(Free(b), arg, m2)
                   /\ C = FileArgument(Free(c), arg, m2)
    BY <1>2 DEF ArgumentOf
  <2>4. ASSUME NEW g, DOMAIN g = Names, NEW m, Opens(m)
        PROVE  FileArgument(Free(g), arg, m) = Read(g, m)
    <3>1. FileArgument(Free(g), arg, m) = Checked(Read(g, m))
      BY <2>4 DEF FileArgument
    <3> HIDE DEF Read
    <3> QED
      BY <2>1, <2>4, <3>1 DEF Checked
  <2>5. ASSUME A = Read(a, m1), B = Read(b, m2), C = Read(c, m2) PROVE Alike
    <3> HIDE DEF Read
    <3>1. ASSUME NEW f \in Names
          PROVE  \/ A[f] = a[f] /\ B[f] = b[f] /\ C[f] = c[f]
                 \/ f \notin Fixed /\ B[f] = C[f] /\ (f \in Same => A[f] = B[f])
      <4>1. CASE f = "fname"
        BY <2>a, <2>5, <4>1 DEF Same, Fixed
      <4>2. CASE f = "file"
        BY <2>a, <2>5, <4>2 DEF Same, Fixed
      <4>3. CASE f \notin {"fname", "file"}
        <5>1. A[f] = Free(a)[f] /\ B[f] = Free(b)[f] /\ C[f] = Free(c)[f]
          BY <2>a, <2>5, <4>3
        <5> QED
          BY <1>3, <5>1 DEF Fixed
      <4> QED
        BY <4>1, <4>2, <4>3
    <3> QED
      BY <3>1 DEF Together, Fixed
  <2> HIDE DEF Alike, Read, Opens
  <2> QED
    BY <2>2, <2>3, <2>4, <2>5
<1> DEFINE Refused == A = Fail(Free(a))
<1>8. w = "d" => Set("devpath", arg) \/ Refused
  BY <1>2 DEF ArgumentOf
<1>9. w = "b" => Set("devBaudrate", n.value) \/ Refused
  BY <1>2 DEF ArgumentOf
<1>10. w = "t" => Set("maxTime", n.value) \/ Refused
  BY <1>2 DEF ArgumentOf
<1>11. w = "H" => Set("sniffHost", arg)
  BY <1>2 DEF ArgumentOf
<1>12. w \notin {"d", "f", "b", "t", "s", "H"} => Set("uiDebugLevel", n.value) \/ Refused
  BY <1>2 DEF ArgumentOf
<1>13. w = "s" => Alike \/ Refused
  <2> DEFINE Sniffs == /\ A = [Free(a) EXCEPT !.task = "T_SNIFF", !.sniffChannel = n.value]
                       /\ B = [Free(b) EXCEPT !.task = "T_SNIFF", !.sniffChannel = n.value]
                       /\ C = [Free(c) EXCEPT !.task = "T_SNIFF", !.sniffChannel = n.value]
  <2>1. w = "s" => Sniffs \/ Refused
    BY <1>2 DEF ArgumentOf
  <2>2. Sniffs => Alike
    BY <1>6
  <2> QED
    BY <2>1, <2>2
<1>14. Refused => Stopped(A)
  <2> QED
    BY <1>3, <1>4
<1> HIDE DEF Set, Alike, Refused
<1>15. Alike \/ Stopped(A) \/ Stopped(B)
  BY <1>5, <1>7, <1>8, <1>9, <1>10, <1>11, <1>12, <1>13, <1>14 DEF Same, Fixed
<1> QED
  BY <1>15, StepAbreast DEF Alike, A, B, C


\* They stay abreast in a round of the loop, unless one of them stops.
Stuck(a, b) == Stopped(a) \/ Stopped(b)

\* A round of the loop.
LEMMA RoundAbreast ==
  ASSUME NEW a, NEW b, NEW c, DOMAIN a = Names, DOMAIN b = Names, DOMAIN c = Names,
         NEW a0, NEW b0, NEW c0, Abreast(a, b, c, a0, b0, c0), NEW arg, NEW m1, NEW m2
  PROVE  \/ Stuck(Round(a, arg, m1), Round(b, arg, m2))
         \/ Abreast(Round(a, arg, m1), Round(b, arg, m2), Round(c, arg, m2), a0, b0, c0)
<1>0. Named18
  BY FieldNames
<1>1. /\ a.stop = FALSE /\ b.stop = FALSE /\ c.stop = FALSE
      /\ a.want = b.want /\ b.want = c.want
  BY <1>0 DEF Abreast, Named18, Same, Lasting
<1>2. Stopped(Fail(a))
  BY <1>0 DEF Named18, Fail, Stopped
<1>3. CASE a.want # "none" /\ a.want \notin {"s", "H"} /\ Dash(arg)
  BY <1>1, <1>2, <1>3 DEF Round, Stuck
<1>4. CASE a.want # "none" /\ ~(a.want \notin {"s", "H"} /\ Dash(arg))
  <2>1. /\ Round(a, arg, m1) = Argument(a, arg, m1) /\ Round(b, arg, m2) = Argument(b, arg, m2)
        /\ Round(c, arg, m2) = Argument(c, arg, m2)
    BY <1>1, <1>4 DEF Round
  <2> QED
    BY <2>1, ArgumentAbreast DEF Stuck
<1>5. CASE a.want = "none" /\ Dash(arg)
  <2>1. /\ Round(a, arg, m1) = Option(a, arg) /\ Round(b, arg, m2) = Option(b, arg)
        /\ Round(c, arg, m2) = Option(c, arg)
    BY <1>1, <1>5 DEF Round
  <2> QED
    BY <2>1, OptionAbreast DEF Stuck
<1>6. CASE a.want = "none" /\ ~Dash(arg)
  BY <1>1, <1>6 DEF Round
<1> QED
  BY <1>3, <1>4, <1>5, <1>6

\* One that has stopped does not go on.
LEMMA RoundStops ==
  ASSUME NEW g, Stopped(g), NEW arg, NEW m
  PROVE  Stopped(Round(g, arg, m))
  BY DEF Round, Stopped

\* All the arguments.
LEMMA ArgumentsAbreast ==
  ASSUME NEW args, IsSequence(args), NEW m1, NEW m2,
         NEW V, Enough(V, args, m1), Enough(V, args, m2),
         NEW a \in [Names -> V], NEW b \in [Names -> V], NEW c \in [Names -> V],
         Abreast(a, b, c, a, b, c)
  PROVE  LET ra == Arguments(a, args, m1)
             rb == Arguments(b, args, m2)
             rc == Arguments(c, args, m2)
         IN  /\ ra \in [Names -> V] /\ rb \in [Names -> V] /\ rc \in [Names -> V]
             /\ Stuck(ra, rb) \/ Abreast(ra, rb, rc, a, b, c)
<1> DEFINE N == Len(args)
           X == [Names -> V]
<1>0. Named18 /\ Plain(V) /\ N \in Nat
  <2>1. Words \subseteq V /\ TRUE \in V
    BY DEF Enough, Values
  <2>2. Len(args) \in Nat
    BY DEF IsSequence
  <2> QED
    BY <2>1, <2>2, FieldNames, PlainIsEnough
<1>1. PICK u \in [0..N -> X] : Rounds(u, a, args, m1)
  BY ArgumentSteps
<1>2. PICK v \in [0..N -> X] : Rounds(v, b, args, m2)
  BY ArgumentSteps
<1>3. PICK w \in [0..N -> X] : Rounds(w, c, args, m2)
  BY ArgumentSteps
<1> DEFINE Go(x, y, z) == Stuck(x, y) \/ Abreast(x, y, z, a, b, c)
           S == {i \in Nat : i <= N => Go(u[i], v[i], w[i])}
<1> HIDE DEF N
<1>4. 0 \in S
  BY <1>1, <1>2, <1>3 DEF Rounds
<1>5. ASSUME NEW i \in Nat, i \in S PROVE i + 1 \in S
  <2> SUFFICES ASSUME i + 1 <= N PROVE Go(u[i + 1], v[i + 1], w[i + 1])
    OBVIOUS
  <2>1. i \in 0..N /\ i + 1 \in 1..N /\ (i + 1) - 1 = i
    BY <1>0
  <2> DEFINE x == u[i]
             y == v[i]
             z == w[i]
             arg == args[i + 1]
  <2>2. Go(x, y, z)
    BY <1>5, <2>1
  <2>3. x \in X /\ y \in X /\ z \in X
    BY <2>1
  <2>4. /\ u[i + 1] = Round(x, arg, m1) /\ v[i + 1] = Round(y, arg, m2)
        /\ w[i + 1] = Round(z, arg, m2)
    BY <1>1, <1>2, <1>3, <2>1 DEF Rounds, N
  <2> HIDE DEF x, y, z, arg
  <2>5. CASE Stuck(x, y)
    <3>1. Stuck(Round(x, arg, m1), Round(y, arg, m2))
      BY <2>5, RoundStops DEF Stuck
    <3> QED
      BY <2>4, <3>1
  <2>6. CASE Abreast(x, y, z, a, b, c)
    <3>1. DOMAIN x = Names /\ DOMAIN y = Names /\ DOMAIN z = Names
      BY <2>3
    <3>2. Go(Round(x, arg, m1), Round(y, arg, m2), Round(z, arg, m2))
      BY <2>6, <3>1, RoundAbreast
    <3> QED
      BY <2>4, <3>2
  <2> QED
    BY <2>2, <2>5, <2>6
<1>6. N \in S
  <2> HIDE DEF S
  <2> QED
    BY <1>0, <1>4, <1>5, NatSetInduction
<1> DEFINE x == u[N]
           y == v[N]
           z == w[N]
<1>7. x \in X /\ y \in X /\ z \in X /\ Go(x, y, z)
  BY <1>0, <1>6
<1> HIDE DEF x, y, z
<1>8. ASSUME NEW g \in X
      PROVE  /\ Missing(g) \in X /\ (Stopped(g) => Stopped(Missing(g)))
             /\ g.want = "none" => Missing(g) = g
             /\ g.want # "none" => Stopped(Missing(g))
  BY <1>0 DEF Missing, Fail, Plain, Named18, Stopped
<1>9. Stuck(Missing(x), Missing(y)) \/ Abreast(Missing(x), Missing(y), Missing(z), a, b, c)
  <2>1. CASE Stuck(x, y)
    BY <1>7, <1>8, <2>1 DEF Stuck
  <2>2. CASE Abreast(x, y, z, a, b, c)
    <3>1. x.want = y.want /\ y.want = z.want
      BY <1>0, <2>2 DEF Abreast, Named18, Same, Lasting
    <3> HIDE DEF X
    <3> QED
      BY <1>7, <1>8, <2>2, <3>1 DEF Stuck
  <2> QED
    BY <1>7, <2>1, <2>2
<1> QED
  BY <1>1, <1>2, <1>3, <1>7, <1>8, <1>9 DEF x, y, z, Rounds, N


-----------------------------------------------------------------------------
(* The device and the task.                                                *)

IsGcf(g) == g = [f \in Names |-> g[f]]

\* r is g but for the fields F.
Changes(g, r, F) == IsGcf(r) /\ \A f \in Names \ F : r[f] = g[f]

\* What looking for the device sets, and what deciding what to do sets.
DeviceFields == {"devices", "devSerialNum", "devBaudrate", "devType"}
TaskFields   == {"running", "ret", "state", "maxTime", "devType"}

\* One field of a GCF.
LEMMA OneField ==
  ASSUME NEW g, IsGcf(g), NEW h \in Names, NEW v
  PROVE  /\ Changes(g, [g EXCEPT ![h] = v], {h})
         /\ [g EXCEPT ![h] = v][h] = v
  BY DEF IsGcf, Changes

\* And then another.
LEMMA MoreFields ==
  ASSUME NEW g, NEW r, NEW q, NEW F, NEW H, Changes(g, r, F), Changes(r, q, H)
  PROVE  Changes(g, q, F \cup H)
  BY DEF Changes

\* The type of the device.
LEMMA TypeFields ==
  ASSUME NEW g
  PROVE  \E s, r : gcfGetDeviceType(g) = [g EXCEPT !.devType = s, !.devBaudrate = r]
<1> DEFINE k     == PathKind(g.devpath)
           ftype == g.file.gcfFileType
           type  == IF ftype = FLASH_TYPE_APP_ENCRYPTED THEN "DEV_HIVE"
                    ELSE IF k.type = "DEV_CONBEE_1" /\ ftype > 9 THEN "DEV_UNKNOWN"
                    ELSE k.type
           baud  == IF ftype = FLASH_TYPE_APP_ENCRYPTED THEN 115200 ELSE k.baudrate
           rate  == IF g.devBaudrate = 0 THEN baud ELSE g.devBaudrate
<1>1. gcfGetDeviceType(g) = [g EXCEPT !.devType = type, !.devBaudrate = rate]
  BY DEF gcfGetDeviceType
<1> HIDE DEF type, rate
<1> QED
  BY <1>1

\* Looking for the device.
LEMMA DeviceFrame ==
  ASSUME NEW g, IsGcf(g), NEW m
  PROVE  Changes(g, gcfGetDeviceType(gcfGetDevices(g, m)), DeviceFields)
<1>0. Named18
  BY FieldNames
<1> DEFINE x == [g EXCEPT !.devices = PL_GetDevices(m)]
           y == TakeDevice(x)
           z == gcfGetDeviceType(y)
<1>1. Changes(g, x, {"devices"})
  BY <1>0, OneField DEF Named18
<1>2. Changes(x, y, {"devSerialNum", "devBaudrate"})
  <2>1. IsGcf(x)
    BY <1>1 DEF Changes
  <2> HIDE DEF x
  <2>2. \/ y = x
        \/ \E s, r : y = [x EXCEPT !.devSerialNum = s, !.devBaudrate = r]
    BY DEF TakeDevice
  <2> HIDE DEF y
  <2>3. CASE y = x
    BY <2>1, <2>3 DEF Changes
  <2>4. ASSUME NEW s, NEW r, y = [x EXCEPT !.devSerialNum = s, !.devBaudrate = r]
        PROVE  Changes(x, y, {"devSerialNum", "devBaudrate"})
    BY <2>1, <2>4 DEF Changes, IsGcf
  <2> QED
    BY <2>2, <2>3, <2>4
<1>3. Changes(y, z, {"devType", "devBaudrate"})
  <2>1. IsGcf(y)
    BY <1>2 DEF Changes
  <2> HIDE DEF y
  <2>2. \E s, r : z = [y EXCEPT !.devType = s, !.devBaudrate = r]
    BY TypeFields
  <2> HIDE DEF z
  <2>3. ASSUME NEW s, NEW r, z = [y EXCEPT !.devType = s, !.devBaudrate = r]
        PROVE  Changes(y, z, {"devType", "devBaudrate"})
    BY <2>1, <2>3 DEF Changes, IsGcf
  <2> QED
    BY <2>2, <2>3
<1>4. z = gcfGetDeviceType(gcfGetDevices(g, m))
  BY DEF gcfGetDevices
<1> HIDE DEF x, y, z
<1>5. Changes(g, z, ({"devices"} \cup {"devSerialNum", "devBaudrate"}) \cup {"devType", "devBaudrate"})
  BY <1>1, <1>2, <1>3, MoreFields
<1>6. ({"devices"} \cup {"devSerialNum", "devBaudrate"}) \cup {"devType", "devBaudrate"} = DeviceFields
  BY DEF DeviceFields
<1> QED
  BY <1>4, <1>5, <1>6

\* Deciding what to do.
LEMMA DecideFrame ==
  ASSUME NEW g, IsGcf(g), g.running = TRUE
  PROVE  /\ IsGcf(Decide(g))
         /\ \/ Stopped(Decide(g))
            \/ /\ Changes(g, Decide(g), TaskFields)
               /\ Decide(g).running \in BOOLEAN
               /\ \/ Decide(g).maxTime = g.maxTime
                  \/ g.task = "T_PROGRAM" /\ g.maxTime < 0 /\ Decide(g).maxTime = 10
<1>0. Named18
  BY FieldNames
<1> DEFINE D == Decide(g)
           Good == /\ Changes(g, D, TaskFields) /\ D.running \in BOOLEAN
                   /\ \/ D.maxTime = g.maxTime
                      \/ g.task = "T_PROGRAM" /\ g.maxTime < 0 /\ D.maxTime = 10
<1>1. Stopped(Fail(g)) /\ IsGcf(Fail(g))
  BY <1>0 DEF Named18, Fail, Stopped, IsGcf
<1>2. \/ D = g \/ D = Fail(g) \/ D = Succeed([g EXCEPT !.running = FALSE])
      \/ \E s : D = Succeed([g EXCEPT !.state = s])
      \/ g.task = "T_PROGRAM" /\ D = Program(g)
  BY DEF Decide
<1>3. \/ Program(g) = Fail(g)
      \/ \E s, k : Program(g) = Succeed([g EXCEPT !.state = s, !.devType = k])
      \/ g.maxTime < 0 /\ \E s, k : Program(g) =
                              Succeed([g EXCEPT !.state = s, !.maxTime = 10, !.devType = k])
  <2> DEFINE k == IF RaspBee2(g) THEN "DEV_RASPBEE_2" ELSE g.devType
  <2>1. \/ Program(g) = Fail(g)
        \/ /\ g.maxTime < 0
           /\ Program(g) = Succeed([g EXCEPT !.state = "ST_Program", !.maxTime = 10, !.devType = k])
        \/ Program(g) = Succeed([g EXCEPT !.state = "ST_Program", !.maxTime = g.maxTime,
                                           !.devType = k])
    BY DEF Program
  <2> HIDE DEF k
  <2>2. [g EXCEPT !.state = "ST_Program", !.maxTime = g.maxTime, !.devType = k]
          = [g EXCEPT !.state = "ST_Program", !.devType = k]
    BY DEF IsGcf
  <2> QED
    BY <2>1, <2>2
<1> HIDE DEF D
<1>4. D = g => Good
  BY <1>0 DEF Changes
<1>5. ASSUME D = Succeed([g EXCEPT !.running = FALSE]) PROVE Good
  BY <1>0, <1>5 DEF Succeed, Changes, IsGcf, TaskFields, Named18
<1>6. ASSUME NEW s, D = Succeed([g EXCEPT !.state = s]) PROVE Good
  BY <1>0, <1>6 DEF Succeed, Changes, IsGcf, TaskFields, Named18
<1>7. ASSUME NEW s, NEW k, D = Succeed([g EXCEPT !.state = s, !.devType = k]) PROVE Good
  BY <1>0, <1>7 DEF Succeed, Changes, IsGcf, TaskFields, Named18
<1>8. ASSUME NEW s, NEW k, g.task = "T_PROGRAM", g.maxTime < 0,
             D = Succeed([g EXCEPT !.state = s, !.maxTime = 10, !.devType = k])
      PROVE  Good
  BY <1>0, <1>8 DEF Succeed, Changes, IsGcf, TaskFields, Named18
<1> HIDE DEF Good
<1>9. Good \/ D = Fail(g)
  BY <1>2, <1>3, <1>4, <1>5, <1>6, <1>7, <1>8 DEF Good
<1> QED
  BY <1>1, <1>9 DEF D, Good, Changes


\* The retry time does not matter for the device.
LEMMA DeviceAlike ==
  ASSUME NEW g, IsGcf(g), NEW m, NEW v
  PROVE  gcfGetDeviceType(gcfGetDevices([g EXCEPT !.maxTime = v], m))
           = [gcfGetDeviceType(gcfGetDevices(g, m)) EXCEPT !.maxTime = v]
<1>0. Named18
  BY FieldNames
<1> DEFINE Timed(r) == [r EXCEPT !.maxTime = v]
           Found(r) == [r EXCEPT !.devices = PL_GetDevices(m)]
           x == Found(g)
           y == TakeDevice(x)
<1>1. Found(Timed(g)) = Timed(x)
  BY DEF IsGcf
<1>2. IsGcf(x)
  BY DEF IsGcf
<1>3. \A r : IsGcf(r) => /\ Timed(r).devpath = r.devpath /\ Timed(r).devices = r.devices
                         /\ Timed(r).devSerialNum = r.devSerialNum /\ Timed(r).file = r.file
                         /\ Timed(r).devBaudrate = r.devBaudrate
  BY <1>0 DEF IsGcf, Named18
<1> HIDE DEF x, Timed
<1>4. TakeDevice(Timed(x)) = Timed(y) /\ IsGcf(y)
  <2> DEFINE row  == FirstNamed(x.devpath, x.devices)
             rate == IF x.devBaudrate = 0 THEN row.baudrate ELSE x.devBaudrate
             None == \/ x.devpath = NoPath \/ x.devSerialNum # << >>
                     \/ Named(x.devpath, x.devices) = {}
  <2>1. /\ Timed(x).devpath = x.devpath /\ Timed(x).devices = x.devices
        /\ Timed(x).devSerialNum = x.devSerialNum /\ Timed(x).devBaudrate = x.devBaudrate
    BY <1>2, <1>3
  <2>2. /\ None => TakeDevice(x) = x /\ TakeDevice(Timed(x)) = Timed(x)
        /\ ~None => /\ TakeDevice(x) = [x EXCEPT !.devSerialNum = row.serial, !.devBaudrate = rate]
                    /\ TakeDevice(Timed(x)) =
                         [Timed(x) EXCEPT !.devSerialNum = row.serial, !.devBaudrate = rate]
    BY <2>1 DEF TakeDevice
  <2> DEFINE s == row.serial
  <2> HIDE DEF rate, None, s
  <2>3. /\ Timed([x EXCEPT !.devSerialNum = s, !.devBaudrate = rate])
             = [Timed(x) EXCEPT !.devSerialNum = s, !.devBaudrate = rate]
        /\ IsGcf([x EXCEPT !.devSerialNum = s, !.devBaudrate = rate])
    BY <1>2 DEF IsGcf, Timed
  <2>4. CASE None
    BY <1>2, <2>2, <2>4 DEF y
  <2>5. CASE ~None
    BY <2>2, <2>3, <2>5 DEF y, s
  <2> QED
    BY <2>4, <2>5
<1> HIDE DEF y
<1>5. gcfGetDeviceType(Timed(y)) = Timed(gcfGetDeviceType(y))
  <2> DEFINE k     == PathKind(y.devpath)
             ftype == y.file.gcfFileType
             type  == IF ftype = FLASH_TYPE_APP_ENCRYPTED THEN "DEV_HIVE"
                      ELSE IF k.type = "DEV_CONBEE_1" /\ ftype > 9 THEN "DEV_UNKNOWN"
                      ELSE k.type
             baud  == IF ftype = FLASH_TYPE_APP_ENCRYPTED THEN 115200 ELSE k.baudrate
             rate  == IF y.devBaudrate = 0 THEN baud ELSE y.devBaudrate
  <2>1. /\ Timed(y).devpath = y.devpath /\ Timed(y).file = y.file
        /\ Timed(y).devBaudrate = y.devBaudrate
    BY <1>3, <1>4
  <2>2. gcfGetDeviceType(y) = [y EXCEPT !.devType = type, !.devBaudrate = rate]
    BY DEF gcfGetDeviceType
  <2>3. gcfGetDeviceType(Timed(y)) = [Timed(y) EXCEPT !.devType = type, !.devBaudrate = rate]
    BY <2>1 DEF gcfGetDeviceType
  <2> HIDE DEF type, rate
  <2>4. Timed([y EXCEPT !.devType = type, !.devBaudrate = rate])
          = [Timed(y) EXCEPT !.devType = type, !.devBaudrate = rate]
    BY <1>4 DEF IsGcf, Timed
  <2> QED
    BY <2>2, <2>3, <2>4
<1>6. gcfGetDevices(g, m) = y /\ gcfGetDevices(Timed(g), m) = TakeDevice(Timed(x))
  BY <1>1 DEF gcfGetDevices, x, y
<1> QED
  BY <1>4, <1>5, <1>6 DEF Timed

\* A task that flashes has ten seconds, unless it was given others.
LEMMA DecideAlike ==
  ASSUME NEW g, IsGcf(g), g.task = "T_PROGRAM", g.maxTime < 0
  PROVE  LET h == [g EXCEPT !.maxTime = 10]
         IN  Stopped(Decide(h)) \/ Decide(h) = Decide(g)
<1>0. Named18
  BY FieldNames
<1> DEFINE h == [g EXCEPT !.maxTime = 10]
           k == IF RaspBee2(g) THEN "DEV_RASPBEE_2" ELSE g.devType
<1>1. /\ h.task = "T_PROGRAM" /\ h.devpath = g.devpath /\ h.fname = g.fname /\ h.maxTime = 10
      /\ h.devType = g.devType /\ h.file = g.file
  BY <1>0 DEF IsGcf, Named18
<1>2. Stopped(Fail(h))
  BY <1>0 DEF IsGcf, Named18, Fail, Stopped
<1>3. RaspBee2(h) <=> RaspBee2(g)
  BY <1>1 DEF RaspBee2
<1>4. [h EXCEPT !.state = "ST_Program", !.maxTime = 10, !.devType = k]
        = [g EXCEPT !.state = "ST_Program", !.maxTime = 10, !.devType = k]
  BY DEF IsGcf
<1> HIDE DEF h
<1>5. CASE g.devpath = NoPath \/ g.fname = NoPath
  <2>1. Decide(h) = Fail(h)
    BY <1>1, <1>5 DEF Decide, Program
  <2> QED
    BY <1>2, <2>1 DEF h
<1>6. CASE g.devpath # NoPath /\ g.fname # NoPath
  <2>1. /\ Decide(g) = Succeed([g EXCEPT !.state = "ST_Program", !.maxTime = 10, !.devType = k])
        /\ Decide(h) = Succeed([h EXCEPT !.state = "ST_Program", !.maxTime = 10, !.devType = k])
    BY <1>1, <1>3, <1>6 DEF Decide, Program
  <2> HIDE DEF k
  <2> QED
    BY <1>4, <2>1 DEF h
<1> QED
  BY <1>5, <1>6

\* Two that agree on all but the list of devices, and the retry time of a flash task
\* that comes from the attempt before.
Near(b, c) ==
  /\ \A f \in Names \ {"devices", "maxTime"} : b[f] = c[f]
  /\ \/ b.maxTime = c.maxTime
     \/ b.task = "T_PROGRAM" /\ b.maxTime = 10 /\ c.maxTime < 0

\* They go on alike.
LEMMA ChosenAlike ==
  ASSUME NEW b, NEW c, IsGcf(b), IsGcf(c), NEW m, b.stop = FALSE, Near(b, c)
  PROVE  Stopped(Chosen(b, m)) \/ Chosen(b, m) = Chosen(c, m)
<1>0. Named18
  BY FieldNames
<1> DEFINE D(g) == gcfGetDeviceType(gcfGetDevices(g, m))
           h == [c EXCEPT !.maxTime = b.maxTime]
<1>1. b.stop = FALSE /\ c.stop = FALSE /\ b.task = c.task
  BY <1>0 DEF Named18, Near
<1>2. Chosen(b, m) = Decide(D(b)) /\ Chosen(c, m) = Decide(D(c))
  BY <1>1 DEF Chosen
<1>3. gcfGetDevices(b, m) = gcfGetDevices(h, m)
  <2>1. [b EXCEPT !.devices = PL_GetDevices(m)] = [h EXCEPT !.devices = PL_GetDevices(m)]
    <3> DEFINE P == PL_GetDevices(m)
    <3>1. \A f \in Names : [b EXCEPT !.devices = P][f] = [h EXCEPT !.devices = P][f]
      BY <1>0 DEF IsGcf, Named18, Near
    <3>2. IsGcf([b EXCEPT !.devices = P]) /\ IsGcf([h EXCEPT !.devices = P])
      BY DEF IsGcf
    <3> QED
      BY <3>1, <3>2 DEF IsGcf
  <2> QED
    BY <2>1 DEF gcfGetDevices
<1>4. D(b) = [D(c) EXCEPT !.maxTime = b.maxTime]
  BY <1>3, DeviceAlike
<1>5. CASE b.maxTime = c.maxTime
  <2>1. h = c
    BY <1>5 DEF IsGcf
  <2> QED
    BY <1>2, <1>3, <2>1
<1>6. CASE b.task = "T_PROGRAM" /\ b.maxTime = 10 /\ c.maxTime < 0
  <2>1. /\ IsGcf(D(c)) /\ D(c).task = c.task /\ D(c).maxTime = c.maxTime
    BY <1>0, DeviceFrame DEF Changes, DeviceFields, Named18
  <2> HIDE DEF D
  <2> QED
    BY <1>1, <1>2, <1>4, <1>6, <2>1, DecideAlike
<1> QED
  BY <1>5, <1>6 DEF Near


-----------------------------------------------------------------------------
(* One attempt after another.                                              *)

\* The program starts with a GCF.
LEMMA InitGcf == IsGcf(GCF_Init)
  BY DEF IsGcf, GCF_Init, Names

\* The fields that Reset sets, whatever they were.
Cleared == Names \ (Lasting \cup {"running", "want", "stop"})

\* The file of the attempt before, of which two fields are cleared.
Emptied(file) == [file EXCEPT !.gcfFileType = 0, !.fsize = 0]

\* No file is left alone.
LEMMA NoFileEmptied == Emptied(NoFile) = NoFile
<1>1. /\ NoFile = [f \in DOMAIN NoFile |-> NoFile[f]]
      /\ NoFile.gcfFileType = 0 /\ NoFile.fsize = 0
  BY DEF NoFile
<1> QED
  BY <1>1 DEF Emptied

\* What an attempt begins with.
LEMMA ResetGcf ==
  ASSUME NEW g, IsGcf(g), NEW args
  PROVE  LET r == Reset(g, args)
         IN  /\ IsGcf(r)
             /\ r.running = g.running /\ r.want = g.want /\ r.stop = g.stop
             /\ r.maxTime = g.maxTime /\ r.sniffHost = g.sniffHost
             /\ r.file = Emptied(g.file)
<1>0. Named18
  BY FieldNames
<1> DEFINE file == Emptied(g.file)
           task == IF args = << >> THEN "T_HELP" ELSE "T_NONE"
           r    == [g EXCEPT !.state = "ST_Void", !.task = task,
            !.uiInteractive = FALSE, !.uiDebugLevel = 0, !.sniffChannel = 0,
            !.devpath = NoPath, !.devSerialNum = << >>, !.devType = "DEV_UNKNOWN",
            !.devBaudrate = 0, !.fname = NoPath, !.file = file, !.ret = "FAILED"]
<1>1. Reset(g, args) = r
  BY DEF Reset, Emptied
<1> HIDE DEF file, task
<1>2. /\ IsGcf(r)
      /\ r.running = g.running /\ r.want = g.want /\ r.stop = g.stop
      /\ r.maxTime = g.maxTime /\ r.sniffHost = g.sniffHost /\ r.file = file
  BY <1>0 DEF IsGcf, Named18
<1> HIDE DEF r
<1> QED
  BY <1>1, <1>2 DEF file

\* The same for all of them.
LEMMA ResetAlike ==
  ASSUME NEW g, IsGcf(g), NEW args, NEW f \in Cleared
  PROVE  Reset(g, args)[f] = Reset(GCF_Init, args)[f]
<1>0. Named18
  BY FieldNames
<1> DEFINE task == IF args = << >> THEN "T_HELP" ELSE "T_NONE"
           file(x) == [x.file EXCEPT !.gcfFileType = 0, !.fsize = 0]
           R(x) == [x EXCEPT !.state = "ST_Void", !.task = task,
            !.uiInteractive = FALSE, !.uiDebugLevel = 0, !.sniffChannel = 0,
            !.devpath = NoPath, !.devSerialNum = << >>, !.devType = "DEV_UNKNOWN",
            !.devBaudrate = 0, !.fname = NoPath, !.file = file(x), !.ret = "FAILED"]
<1>1. \A x : Reset(x, args) = R(x)
  BY DEF Reset
<1> HIDE DEF task, file
<1>2. ASSUME NEW x, IsGcf(x)
      PROVE  /\ R(x).state = "ST_Void" /\ R(x).task = task /\ R(x).uiInteractive = FALSE
             /\ R(x).uiDebugLevel = 0 /\ R(x).sniffChannel = 0 /\ R(x).devpath = NoPath
             /\ R(x).devSerialNum = << >> /\ R(x).devType = "DEV_UNKNOWN"
             /\ R(x).devBaudrate = 0 /\ R(x).fname = NoPath /\ R(x).ret = "FAILED"
  BY <1>0, <1>2 DEF IsGcf, Named18
<1> HIDE DEF R
<1> DEFINE Like(h) == R(g)[h] = R(GCF_Init)[h]
<1>3. /\ Like("state") /\ Like("task") /\ Like("uiInteractive") /\ Like("uiDebugLevel")
      /\ Like("sniffChannel") /\ Like("devpath") /\ Like("devSerialNum") /\ Like("devType")
      /\ Like("devBaudrate") /\ Like("fname") /\ Like("ret")
  BY <1>2, InitGcf
<1>4. Like(f)
  <2> HIDE DEF Like
  <2> QED
    BY <1>3 DEF Names, Lasting, Cleared
<1> QED
  BY <1>1, <1>4


\* One that was refused ends the program.
LEMMA RefusedEnds ==
  ASSUME NEW x, IsGcf(x), x.ret = "FAILED", NEW m
  PROVE  Enter([x EXCEPT !.want = "none", !.stop = FALSE], m).running = FALSE
<1>0. Named18
  BY FieldNames
<1> DEFINE y == [x EXCEPT !.want = "none", !.stop = FALSE]
<1>1. IsGcf(y) /\ y.ret = "FAILED"
  BY <1>0 DEF IsGcf, Named18
<1> HIDE DEF y
<1>2. Enter(y, m).running = FALSE
  BY <1>0, <1>1 DEF Enter, IsGcf, Named18
<1> QED
  BY <1>2 DEF y

\* One that goes on is left alone.
LEMMA OthersEnter ==
  ASSUME NEW x, IsGcf(x), NEW m
  PROVE  LET g == Enter([x EXCEPT !.want = "none", !.stop = FALSE], m)
         IN  /\ Changes(x, g, {"want", "stop", "devices", "running"})
             /\ g.want = "none" /\ g.stop = FALSE /\ g.running \in {x.running, FALSE}
<1>0. Named18
  BY FieldNames
<1> DEFINE y == [x EXCEPT !.want = "none", !.stop = FALSE]
<1>1. /\ Changes(x, y, {"want", "stop"}) /\ y.want = "none" /\ y.stop = FALSE
      /\ y.running = x.running
  BY <1>0 DEF IsGcf, Named18, Changes
<1> HIDE DEF y
<1>2. IsGcf(y)
  BY <1>1 DEF Changes
<1> DEFINE g == Enter(y, m)
<1>3. \/ g = y \/ g = [y EXCEPT !.running = FALSE]
      \/ g = [y EXCEPT !.devices = PL_GetDevices(m), !.running = FALSE]
  BY DEF Enter, ListDevices
<1> HIDE DEF g
<1>4. /\ Changes(y, g, {"devices", "running"}) /\ g.want = "none" /\ g.stop = FALSE
      /\ g.running \in {x.running, FALSE}
  <2>1. CASE g = y
    BY <1>1, <1>2, <2>1 DEF Changes
  <2>2. CASE g = [y EXCEPT !.running = FALSE]
    BY <1>0, <1>1, <1>2, <2>2 DEF Changes, IsGcf, Named18
  <2>3. CASE g = [y EXCEPT !.devices = PL_GetDevices(m), !.running = FALSE]
    BY <1>0, <1>1, <1>2, <2>3 DEF Changes, IsGcf, Named18
  <2> QED
    BY <1>3, <2>1, <2>2, <2>3
<1>5. Changes(x, g, {"want", "stop"} \cup {"devices", "running"})
  BY <1>1, <1>4, MoreFields
<1>6. {"want", "stop"} \cup {"devices", "running"} = {"want", "stop", "devices", "running"}
  OBVIOUS
<1> QED
  BY <1>4, <1>5, <1>6 DEF g, y

\* Values that are large enough for two machines and two GCFs.
LEMMA AreEnough ==
  ASSUME NEW args, NEW m1, NEW m2, NEW g, NEW h, IsGcf(g), IsGcf(h)
  PROVE  \E V : /\ Enough(V, args, m1) /\ Enough(V, args, m2)
                /\ g \in [Names -> V] /\ h \in [Names -> V]
<1> DEFINE V == Values(args, m1) \cup Values(args, m2) \cup {g[f] : f \in Names}
                  \cup {h[f] : f \in Names}
<1>1. Enough(V, args, m1) /\ Enough(V, args, m2)
  BY DEF Enough
<1>2. g \in [Names -> V] /\ h \in [Names -> V]
  BY DEF IsGcf
<1> QED
  BY <1>1, <1>2


\* What an attempt may begin with.
Fresh(g) == IsGcf(g) /\ g.want = "none" /\ g.stop = FALSE /\ g.running = TRUE

\* The program starts fresh.
LEMMA InitFresh == Fresh(GCF_Init)
  BY InitGcf DEF Fresh, GCF_Init

\* The attempts begin abreast.
LEMMA StartAbreast ==
  ASSUME NEW g, Fresh(g), NEW args
  PROVE  LET a == Reset(GCF_Init, args)
             b == Reset(g, args)
         IN  IsGcf(a) /\ IsGcf(b) /\ Abreast(a, b, a, a, b, a)
<1>0. Named18
  BY FieldNames
<1> DEFINE a == Reset(GCF_Init, args)
           b == Reset(g, args)
<1>1. /\ IsGcf(a) /\ a.running = TRUE /\ a.want = "none" /\ a.stop = FALSE
      /\ IsGcf(b) /\ b.running = TRUE /\ b.want = "none" /\ b.stop = FALSE
      /\ \A f \in Cleared : b[f] = a[f]
  <2>1. Fresh(GCF_Init) /\ IsGcf(g) /\ IsGcf(GCF_Init)
    BY InitFresh DEF Fresh
  <2>2. ASSUME NEW h, Fresh(h), NEW r, r = Reset(h, args)
        PROVE  IsGcf(r) /\ r.running = TRUE /\ r.want = "none" /\ r.stop = FALSE
    BY <2>2, ResetGcf DEF Fresh
  <2>3. \A f \in Cleared : b[f] = a[f]
    <3>1. ASSUME NEW h, IsGcf(h), NEW f \in Cleared
          PROVE  Reset(h, args)[f] = Reset(GCF_Init, args)[f]
      BY <3>1, ResetAlike
    <3> QED
      BY <2>1, <3>1
  <2> HIDE DEF a, b
  <2> QED
    BY <2>1, <2>2, <2>3 DEF a, b
<1> HIDE DEF a, b
<1>2. \A f \in Same : a[f] = b[f]
  BY <1>0, <1>1 DEF Same, Lasting, Named18, Cleared
<1>3. \A f \in Names \ Lasting : b[f] = a[f]
  BY <1>1 DEF Cleared
<1>4. Abreast(a, b, a, a, b, a)
  BY <1>1, <1>2, <1>3 DEF Abreast
<1> QED
  BY <1>1, <1>4 DEF a, b

\* What the first attempt leaves, when it goes on: what the arguments have set, and
\* ten seconds for a flash task without -t.
LEMMA FirstAttempt ==
  ASSUME NEW args, IsSequence(args), NEW m, InitEvent(GCF_Init, args, m).running = TRUE
  PROVE  LET a == Arguments(Reset(GCF_Init, args), args, m)
             g == InitEvent(GCF_Init, args, m)
         IN  /\ Fresh(g) /\ IsGcf(a) /\ ~Stopped(a)
             /\ g.sniffHost = a.sniffHost /\ g.file = a.file /\ g.task = a.task
             /\ \/ g.maxTime = a.maxTime
                \/ a.task = "T_PROGRAM" /\ a.maxTime < 0 /\ g.maxTime = 10
             /\ g.fname = a.fname /\ g.sniffChannel = a.sniffChannel
             /\ g.uiDebugLevel = a.uiDebugLevel
             /\ \E d : /\ IsGcf(d) /\ d.task = a.task /\ d.fname = a.fname /\ d.state = a.state
                      /\ ~Stopped(Decide(d)) /\ g.state = Decide(d).state
<1>0. Named18
  BY FieldNames
<1> DEFINE s == Reset(GCF_Init, args)
           a == Arguments(s, args, m)
           d == gcfGetDeviceType(gcfGetDevices(a, m))
           x == Chosen(a, m)
           g == Enter([x EXCEPT !.want = "none", !.stop = FALSE], m)
<1>1. g = InitEvent(GCF_Init, args, m) /\ g.running = TRUE
  BY DEF InitEvent, gcfProcessCommandline
<1>2. IsGcf(s) /\ Abreast(s, s, s, s, s, s)
  BY InitFresh, StartAbreast
<1> HIDE DEF s
<1>3. IsGcf(a) /\ (Stuck(a, a) \/ Abreast(a, a, a, s, s, s))
  <2>1. PICK V : Enough(V, args, m) /\ s \in [Names -> V]
    BY <1>2, AreEnough
  <2>2. a \in [Names -> V] /\ (Stuck(a, a) \/ Abreast(a, a, a, s, s, s))
    BY <1>2, <2>1, ArgumentsAbreast
  <2> HIDE DEF a
  <2> QED
    BY <2>2 DEF IsGcf
<1> HIDE DEF a, g
<1>4. ~Stopped(a)
  <2> SUFFICES ASSUME Stopped(a) PROVE FALSE
    OBVIOUS
  <2>1. x = a
    BY DEF Chosen, Stopped
  <2>2. g.running = FALSE
    BY <1>3, <2>1, RefusedEnds DEF g, Stopped
  <2> QED
    BY <1>1, <2>2
<1>5. a.stop = FALSE /\ a.running = TRUE
  BY <1>3, <1>4 DEF Stuck, Abreast
<1>6. x = Decide(d)
  BY <1>5 DEF Chosen
<1>7. Changes(a, d, DeviceFields)
  BY <1>3, DeviceFrame
<1> HIDE DEF d, x
<1>8. /\ IsGcf(d) /\ d.running = TRUE /\ d.task = a.task /\ d.maxTime = a.maxTime
      /\ d.sniffHost = a.sniffHost /\ d.file = a.file /\ d.fname = a.fname /\ d.state = a.state
      /\ d.sniffChannel = a.sniffChannel /\ d.uiDebugLevel = a.uiDebugLevel
  BY <1>0, <1>5, <1>7 DEF Changes, DeviceFields, Named18
<1>9. IsGcf(x) /\ ~Stopped(x)
  <2>1. IsGcf(x)
    BY <1>6, <1>8, DecideFrame
  <2> SUFFICES ASSUME Stopped(x) PROVE FALSE
    BY <2>1
  <2>2. g.running = FALSE
    BY <2>1, RefusedEnds DEF g, Stopped
  <2> QED
    BY <1>1, <2>2
<1>10. /\ x.task = d.task /\ x.sniffHost = d.sniffHost /\ x.file = d.file
       /\ x.fname = d.fname /\ x.sniffChannel = d.sniffChannel /\ x.uiDebugLevel = d.uiDebugLevel
       /\ \/ x.maxTime = d.maxTime
          \/ d.task = "T_PROGRAM" /\ d.maxTime < 0 /\ x.maxTime = 10
  <2>1. /\ Changes(d, x, TaskFields)
        /\ \/ x.maxTime = d.maxTime
           \/ d.task = "T_PROGRAM" /\ d.maxTime < 0 /\ x.maxTime = 10
    BY <1>6, <1>8, <1>9, DecideFrame
  <2> QED
    BY <1>0, <2>1 DEF Changes, TaskFields, Named18
<1>11. /\ Fresh(g) /\ g.task = x.task /\ g.sniffHost = x.sniffHost /\ g.file = x.file
       /\ g.maxTime = x.maxTime /\ g.fname = x.fname /\ g.sniffChannel = x.sniffChannel
       /\ g.uiDebugLevel = x.uiDebugLevel /\ g.state = x.state
  <2>1. /\ Changes(x, g, {"want", "stop", "devices", "running"})
        /\ g.want = "none" /\ g.stop = FALSE
    BY <1>9, OthersEnter DEF g
  <2> QED
    BY <1>0, <1>1, <2>1 DEF Changes, Fresh, Named18
<1>12. /\ IsGcf(d) /\ d.task = a.task /\ d.fname = a.fname /\ d.state = a.state
       /\ ~Stopped(Decide(d)) /\ g.state = Decide(d).state
  BY <1>6, <1>8, <1>9, <1>11
<1> QED
  BY <1>1, <1>3, <1>4, <1>8, <1>10, <1>11, <1>12 DEF a, s


\* What a later attempt makes of the same arguments is what the first would have.
LEMMA NextAttempt ==
  ASSUME NEW args, IsSequence(args), NEW m1, NEW m2, NEW g, g = InitEvent(GCF_Init, args, m1),
         g.running = TRUE, InitEvent(g, args, m2).running = TRUE
  PROVE  InitEvent(g, args, m2) = InitEvent(GCF_Init, args, m2)
<1>0. Named18
  BY FieldNames
<1> DEFINE a0 == Reset(GCF_Init, args)
           b0 == Reset(g, args)
           a == Arguments(a0, args, m1)
           b == Arguments(b0, args, m2)
           c == Arguments(a0, args, m2)
           Ended(x) == Enter([x EXCEPT !.want = "none", !.stop = FALSE], m2)
<1>1. /\ InitEvent(g, args, m2) = Ended(Chosen(b, m2))
      /\ InitEvent(GCF_Init, args, m2) = Ended(Chosen(c, m2))
      /\ Ended(Chosen(b, m2)).running = TRUE
  BY DEF InitEvent, gcfProcessCommandline
<1>2. /\ Fresh(g) /\ g.sniffHost = a.sniffHost /\ g.file = a.file /\ g.task = a.task
      /\ \/ g.maxTime = a.maxTime
         \/ a.task = "T_PROGRAM" /\ a.maxTime < 0 /\ g.maxTime = 10
  BY FirstAttempt, SMTT(30), ZenonT(40)
<1>3. IsGcf(a0) /\ IsGcf(b0) /\ Abreast(a0, b0, a0, a0, b0, a0)
  BY <1>2, StartAbreast
<1>4. /\ b0.maxTime = g.maxTime /\ b0.sniffHost = g.sniffHost
      /\ b0.file = Emptied(g.file)
  <2>1. IsGcf(g)
    BY <1>2 DEF Fresh
  <2> QED
    BY <2>1, ResetGcf
<1>5. a0.maxTime = -1 /\ a0.file = NoFile
  <2>1. GCF_Init.maxTime = -1 /\ GCF_Init.file = NoFile
    BY DEF GCF_Init
  <2> QED
    BY <2>1, NoFileEmptied, InitGcf, ResetGcf
<1> HIDE DEF a0, b0
<1>6. IsGcf(a) /\ IsGcf(b) /\ IsGcf(c) /\ (Stuck(a, b) \/ Abreast(a, b, c, a0, b0, a0))
  <2>1. PICK V : /\ Enough(V, args, m1) /\ Enough(V, args, m2)
                 /\ a0 \in [Names -> V] /\ b0 \in [Names -> V]
    BY <1>3, AreEnough
  <2>2. /\ a \in [Names -> V] /\ b \in [Names -> V] /\ c \in [Names -> V]
        /\ Stuck(a, b) \/ Abreast(a, b, c, a0, b0, a0)
    BY <1>3, <2>1, ArgumentsAbreast
  <2> HIDE DEF a, b, c
  <2> QED
    BY <2>2 DEF IsGcf
<1>7. ~Stopped(a)
  BY FirstAttempt, ZenonT(40) DEF a0
<1> HIDE DEF a, b, c, Ended
<1>8. \A x : IsGcf(x) /\ Stopped(x) => Ended(x).running = FALSE
  BY RefusedEnds DEF Ended, Stopped
<1>9. ~Stopped(b)
  <2> SUFFICES ASSUME Stopped(b) PROVE FALSE
    OBVIOUS
  <2>1. Chosen(b, m2) = b
    BY DEF Chosen, Stopped
  <2> QED
    BY <1>1, <1>6, <1>8, <2>1
<1>10. Abreast(a, b, c, a0, b0, a0)
  BY <1>6, <1>7, <1>9 DEF Stuck
<1>11. b.sniffHost = c.sniffHost
  <2>1. \/ b.sniffHost = c.sniffHost
        \/ a.sniffHost = a0.sniffHost /\ b.sniffHost = b0.sniffHost /\ c.sniffHost = a0.sniffHost
    BY <1>10 DEF Abreast, Lasting
  <2> QED
    BY <1>2, <1>4, <2>1
<1>12. b.file = c.file
  <2>1. b.file = c.file \/ (a.file = a0.file /\ b.file = b0.file /\ c.file = a0.file)
    BY <1>10 DEF Abreast, Lasting
  <2> QED
    BY <1>2, <1>4, <1>5, <2>1, NoFileEmptied
<1>13. \/ b.maxTime = c.maxTime
       \/ b.task = "T_PROGRAM" /\ b.maxTime = 10 /\ c.maxTime < 0
  <2>1. \/ b.maxTime = c.maxTime
        \/ a.maxTime = a0.maxTime /\ b.maxTime = b0.maxTime /\ c.maxTime = a0.maxTime
    BY <1>10 DEF Abreast, Lasting
  <2>2. a.task = b.task
    BY <1>10 DEF Abreast, Same
  <2> QED
    BY <1>2, <1>4, <1>5, <2>1, <2>2
<1>14. \A f \in Names \ {"devices", "maxTime"} : b[f] = c[f]
  BY <1>10, <1>11, <1>12 DEF Abreast, Lasting
<1>15. b.stop = FALSE /\ b.running = TRUE
  BY <1>10 DEF Abreast
<1>16. IsGcf(Chosen(b, m2))
  <2> DEFINE d == gcfGetDeviceType(gcfGetDevices(b, m2))
  <2>1. Chosen(b, m2) = Decide(d)
    BY <1>15 DEF Chosen
  <2>2. IsGcf(d) /\ d.running = TRUE
    BY <1>0, <1>6, <1>15, DeviceFrame DEF Changes, DeviceFields, Named18
  <2> HIDE DEF d
  <2> QED
    BY <2>1, <2>2, DecideFrame
<1>17. Chosen(b, m2) = Chosen(c, m2)
  <2>1. Stopped(Chosen(b, m2)) \/ Chosen(b, m2) = Chosen(c, m2)
    <3>1. Near(b, c)
      BY <1>13, <1>14 DEF Near
    <3> QED
      BY <1>6, <1>15, <3>1, ChosenAlike
  <2>2. ~Stopped(Chosen(b, m2))
    BY <1>1, <1>8, <1>16
  <2> QED
    BY <2>1, <2>2
<1> QED
  BY <1>1, <1>17

-----------------------------------------------------------------------------
(* Every attempt.                                                          *)

\* What the last attempt left is what the first would have, on the machine it found.
LastAttempt ==
  /\ argv \in Argvs /\ attempts \in Nat
  /\ attempts = 0 => gcf = GCF_Init
  /\ attempts > 0 /\ gcf.running = TRUE => gcf = InitEvent(GCF_Init, argv, machine)

\* An attempt begins as the program did.
LEMMA AttemptAnew ==
  ASSUME LastAttempt, Attempt, gcf'.running = TRUE
  PROVE  gcf' = InitEvent(GCF_Init, argv, machine')
<1>1. gcf' = InitEvent(gcf, argv, machine') /\ gcf.running = TRUE
  BY DEF Attempt
<1>2. CASE attempts = 0
  BY <1>1, <1>2 DEF LastAttempt
<1>3. CASE attempts # 0
  <2>1. gcf = InitEvent(GCF_Init, argv, machine) /\ argv \in Argvs
    BY <1>1, <1>3 DEF LastAttempt
  <2>2. IsSequence(argv)
    BY <2>1, CommandAssumption
  <2> QED
    BY <1>1, <2>1, <2>2, NextAttempt
<1> QED
  BY <1>2, <1>3

\* Every step keeps it so.
LEMMA LastAttemptKept ==
  LastAttempt /\ [Next]_consoleVars => LastAttempt'
<1> SUFFICES ASSUME LastAttempt, [Next]_consoleVars PROVE LastAttempt'
  OBVIOUS
<1>1. CASE Try
  <2>1. Attempt
    BY <1>1 DEF Try
  <2>2. argv' = argv /\ attempts' = attempts + 1 /\ attempts \in Nat /\ argv \in Argvs
    BY <2>1 DEF Attempt, LastAttempt
  <2>3. gcf'.running = TRUE => gcf' = InitEvent(GCF_Init, argv', machine')
    BY <2>1, <2>2, AttemptAnew
  <2> QED
    BY <2>2, <2>3 DEF LastAttempt
<1>2. CASE Press \/ Toggle \/ UNCHANGED consoleVars
  BY <1>2 DEF Press, Toggle, consoleVars, cmdVars, LastAttempt
<1> QED
  BY <1>1, <1>2 DEF Next

\* The command line is read again for each attempt, into the same GCF: whatever files,
\* devices and tools an attempt finds, what it works with depends on the arguments and
\* on what is there now, not on the attempts before it (gcf.c 2404-2781).
THEOREM AttemptsHaveNoMemory == Spec => NoMemory
<1>1. Init => LastAttempt
  BY DEF Init, CommandInit, LastAttempt
<1>2. LastAttempt /\ [Next]_consoleVars
        => [attempts' > attempts /\ gcf'.running
              => gcf' = InitEvent(GCF_Init, argv, machine')]_cmdVars
  <2> SUFFICES ASSUME LastAttempt, [Next]_consoleVars, attempts' > attempts, gcf'.running
               PROVE  gcf' = InitEvent(GCF_Init, argv, machine')
    OBVIOUS
  <2>1. CASE Try
    BY <2>1, AttemptAnew DEF Try
  <2>2. CASE Press \/ Toggle \/ UNCHANGED consoleVars
    BY <2>2 DEF Press, Toggle, consoleVars, cmdVars, LastAttempt
  <2> QED
    BY <2>1, <2>2 DEF Next
<1> QED
  BY <1>1, <1>2, LastAttemptKept, PTL DEF Spec, NoMemory


-----------------------------------------------------------------------------
(* The reset line.                                                         *)

Gpios == [api : Apis \cup {"unused"}, held : [Resources -> Int], ret : Int,
          unversioned : Int, resets : Int]

\* g with other resources held.
Holding(g, h) == [g EXCEPT !.held = h]

Up(h, r)   == [h EXCEPT ![r] = @ + 1]
Down(h, r) == [h EXCEPT ![r] = @ - 1]

\* What it is to hold them.
LEMMA HoldingIs ==
  ASSUME NEW g \in Gpios, NEW h \in [Resources -> Int]
  PROVE  /\ Holding(g, h) \in Gpios /\ Holding(g, h).held = h /\ Holding(g, g.held) = g
         /\ \A k : Holding(Holding(g, h), k) = Holding(g, k)
  BY DEF Holding, Gpios

\* Only that is changed.
LEMMA TakesAndGives ==
  ASSUME NEW g \in Gpios, NEW r \in Resources
  PROVE  /\ g.held \in [Resources -> Int]
         /\ Take(g, r) = Holding(g, Up(g.held, r)) /\ Up(g.held, r) \in [Resources -> Int]
         /\ Give(g, r) = Holding(g, Down(g.held, r)) /\ Down(g.held, r) \in [Resources -> Int]
<1>1. g.held \in [Resources -> Int] /\ g = [f \in DOMAIN g |-> g[f]] /\ "held" \in DOMAIN g
  BY DEF Gpios
<1>2. /\ Take(g, r) = Holding(g, Up(g.held, r))
      /\ Give(g, r) = Holding(g, Down(g.held, r))
  BY <1>1 DEF Take, Give, Holding, Up, Down
<1>3. Up(g.held, r) \in [Resources -> Int] /\ Down(g.held, r) \in [Resources -> Int]
  BY <1>1 DEF Up, Down
<1> QED
  BY <1>1, <1>2, <1>3

\* What is taken can be given back, also behind something that was taken meanwhile.
LEMMA TakeGive ==
  ASSUME NEW g \in Gpios, NEW r \in Resources
  PROVE  /\ Take(g, r) \in Gpios /\ Give(g, r) \in Gpios
         /\ Give(Take(g, r), r) = g
         /\ \A l \in Resources \ {r} : Give(Take(Take(g, r), l), r) = Take(g, l)
<1> DEFINE h == g.held
           H == [Resources -> Int]
<1>1. h \in H /\ Up(h, r) \in H /\ Take(g, r) = Holding(g, Up(h, r))
      /\ Take(g, r) \in Gpios /\ Give(g, r) \in Gpios /\ Take(g, r).held = Up(h, r)
  BY TakesAndGives, HoldingIs
<1>2. Give(Take(g, r), r) = g
  <2>1. Give(Take(g, r), r) = Holding(g, Down(Up(h, r), r))
    <3>1. Give(Take(g, r), r) = Holding(Take(g, r), Down(Up(h, r), r))
      BY <1>1, TakesAndGives
    <3> QED
      BY <1>1, <3>1, HoldingIs
  <2>2. Down(Up(h, r), r) = h
    BY <1>1 DEF Down, Up
  <2>3. Holding(g, h) = g
    BY <1>1, HoldingIs
  <2> QED
    BY <2>1, <2>2, <2>3
<1>3. ASSUME NEW l \in Resources \ {r}
      PROVE  Give(Take(Take(g, r), l), r) = Take(g, l)
  <2> DEFINE x == Take(g, r)
             y == Take(x, l)
             k == Up(Up(h, r), l)
  <2>1. /\ y = Holding(x, k) /\ k \in H /\ y \in Gpios /\ y.held = k /\ y = Holding(g, k)
    <3>1. y = Holding(x, k) /\ k \in H
      BY <1>1, TakesAndGives
    <3> HIDE DEF k, y
    <3> QED
      BY <1>1, <3>1, HoldingIs
  <2>2. Give(y, r) = Holding(g, Down(k, r))
    <3>1. Give(y, r) = Holding(y, Down(k, r))
      BY <2>1, TakesAndGives
    <3> HIDE DEF k, x, y
    <3> QED
      BY <2>1, <3>1, HoldingIs
  <2>3. Down(k, r) = Up(h, l)
    BY <1>1 DEF Down, Up
  <2>4. Take(g, l) = Holding(g, Up(h, l))
    BY TakesAndGives
  <2> QED
    BY <2>2, <2>3, <2>4
<1> QED
  BY <1>1, <1>2, <1>3

\* The library takes what a request is built from, one after the other.
LEMMA TakeSteps ==
  ASSUME NEW s \in Seq(Resources), NEW g \in Gpios
  PROVE  \E u \in [0..Len(s) -> Gpios] :
           /\ u[0] = g /\ u[Len(s)] = FoldLeft(Take, g, s)
           /\ \A i \in 1..Len(s) : u[i] = Take(u[i - 1], s[i])
<1> DEFINE N == Len(s)
           X == Gpios
           Is(f) == f = [q \in SUBSET (1..N) |->
                           IF q = {} THEN g ELSE Take(f[q \ {Max(q)}], s[Max(q)])]
           iter == CHOOSE f : Is(f)
           next == [z \in X \X (1..N) |-> Take(z[1], s[z[2]])]
<1>1. N \in Nat /\ DOMAIN s = 1..N /\ \A i \in 1..N : s[i] \in Resources
  OBVIOUS
<1>2. FoldLeft(Take, g, s) = iter[1..N]
  BY <1>1 DEF FoldLeft, MapThenFoldSet
<1> HIDE DEF N
<1>3. g \in X /\ \A x \in X, i \in 1..N : Take(x, s[i]) \in X
  BY <1>1, TakeGive
<1> HIDE DEF X
<1>4. next \in [X \X (1..N) -> X] /\ \A x \in X, i \in 1..N : next[<<x, i>>] = Take(x, s[i])
  BY <1>3
<1> HIDE DEF next
<1>5. \A q \in SUBSET (1..N) : q # {} => Max(q) \in 1..N
  BY <1>1, MaxIn
<1>6. PICK f \in [SUBSET (1..N) -> X] : IsFold(f, N, g, next)
  BY <1>1, <1>3, <1>4, FoldExists
<1>7. Is(f)
  BY <1>4, <1>5, <1>6 DEF IsFold
<1>8. Is(iter)
  <2> HIDE DEF Is
  <2> QED
    BY <1>7
<1> HIDE DEF iter
<1>9. FoldsIn(X, iter, N, g, next)
  BY <1>4, <1>5, <1>8 DEF FoldsIn
<1> HIDE DEF Is
<1>10. PICK u \in [0..N -> X] : Steps(u, N, g, next) /\ u[N] = iter[1..N]
  BY <1>1, <1>3, <1>9, FoldSteps
<1>11. ASSUME NEW i \in 1..N PROVE u[i] = Take(u[i - 1], s[i])
  <2>1. i - 1 \in 0..N
    BY <1>1
  <2>2. u[i - 1] \in X
    BY <1>10, <2>1
  <2> QED
    BY <1>4, <1>10, <2>2 DEF Steps
<1>12. u[0] = g
  BY <1>10 DEF Steps
<1> QED
  BY <1>2, <1>10, <1>11, <1>12 DEF N, X

\* It is given back one after the other.
LEMMA GiveSteps ==
  ASSUME NEW s \in Seq(Resources), NEW g \in Gpios
  PROVE  \E u \in [0..Len(s) -> Gpios] :
           /\ u[0] = g /\ u[Len(s)] = FoldLeft(Give, g, s)
           /\ \A i \in 1..Len(s) : u[i] = Give(u[i - 1], s[i])
<1> DEFINE N == Len(s)
           X == Gpios
           Is(f) == f = [q \in SUBSET (1..N) |->
                           IF q = {} THEN g ELSE Give(f[q \ {Max(q)}], s[Max(q)])]
           iter == CHOOSE f : Is(f)
           next == [z \in X \X (1..N) |-> Give(z[1], s[z[2]])]
<1>1. N \in Nat /\ DOMAIN s = 1..N /\ \A i \in 1..N : s[i] \in Resources
  OBVIOUS
<1>2. FoldLeft(Give, g, s) = iter[1..N]
  BY <1>1 DEF FoldLeft, MapThenFoldSet
<1> HIDE DEF N
<1>3. g \in X /\ \A x \in X, i \in 1..N : Give(x, s[i]) \in X
  BY <1>1, TakeGive
<1> HIDE DEF X
<1>4. next \in [X \X (1..N) -> X] /\ \A x \in X, i \in 1..N : next[<<x, i>>] = Give(x, s[i])
  BY <1>3
<1> HIDE DEF next
<1>5. \A q \in SUBSET (1..N) : q # {} => Max(q) \in 1..N
  BY <1>1, MaxIn
<1>6. PICK f \in [SUBSET (1..N) -> X] : IsFold(f, N, g, next)
  BY <1>1, <1>3, <1>4, FoldExists
<1>7. Is(f)
  BY <1>4, <1>5, <1>6 DEF IsFold
<1>8. Is(iter)
  <2> HIDE DEF Is
  <2> QED
    BY <1>7
<1> HIDE DEF iter
<1>9. FoldsIn(X, iter, N, g, next)
  BY <1>4, <1>5, <1>8 DEF FoldsIn
<1> HIDE DEF Is
<1>10. PICK u \in [0..N -> X] : Steps(u, N, g, next) /\ u[N] = iter[1..N]
  BY <1>1, <1>3, <1>9, FoldSteps
<1>11. ASSUME NEW i \in 1..N PROVE u[i] = Give(u[i - 1], s[i])
  <2>1. i - 1 \in 0..N
    BY <1>1
  <2>2. u[i - 1] \in X
    BY <1>10, <2>1
  <2> QED
    BY <1>4, <1>10, <2>2 DEF Steps
<1>12. u[0] = g
  BY <1>10 DEF Steps
<1> QED
  BY <1>2, <1>10, <1>11, <1>12 DEF N, X

\* The line may have been taken meanwhile.
More(g, b) == IF b THEN Take(g, "line") ELSE g

\* What a request was built from is freed, whether or not the line was granted.
LEMMA BuiltIsFreed ==
  ASSUME NEW s \in Seq(Resources \ {"line"}), NEW g \in Gpios, NEW b \in BOOLEAN
  PROVE  FoldLeft(Give, More(FoldLeft(Take, g, s), b), Reverse(s)) = More(g, b)
<1> DEFINE N == Len(s)
           t == Reverse(s)
<1>1. N \in Nat /\ s \in Seq(Resources) /\ \A i \in 1..N : s[i] \in Resources \ {"line"}
  OBVIOUS
<1>2. t \in Seq(Resources) /\ Len(t) = N /\ \A i \in 1..N : t[i] = s[N - i + 1]
  <2>1. \A i \in 1..N : N - i + 1 \in 1..N
    BY <1>1
  <2> QED
    BY <1>1, <2>1 DEF Reverse
<1> HIDE DEF t, N
<1>3. PICK u \in [0..N -> Gpios] :
        /\ u[0] = g /\ u[N] = FoldLeft(Take, g, s)
        /\ \A i \in 1..N : u[i] = Take(u[i - 1], s[i])
  BY <1>1, TakeSteps DEF N
<1>4. "line" \in Resources
  BY DEF Resources
<1>5. ASSUME NEW x \in Gpios PROVE More(x, b) \in Gpios
  BY <1>4, <1>5, TakeGive DEF More
<1>6. u[N] \in Gpios /\ u[0] \in Gpios
  BY <1>1, <1>3
<1> DEFINE h == More(u[N], b)
<1>7. h \in Gpios
  BY <1>5, <1>6
<1> HIDE DEF h
<1>8. PICK v \in [0..N -> Gpios] :
        /\ v[0] = h /\ v[N] = FoldLeft(Give, h, t)
        /\ \A i \in 1..N : v[i] = Give(v[i - 1], t[i])
  BY <1>2, <1>7, GiveSteps
<1> DEFINE S == {i \in Nat : i <= N => v[i] = More(u[N - i], b)}
<1>9. 0 \in S
  BY <1>1, <1>8 DEF h
<1>10. ASSUME NEW i \in Nat, i \in S PROVE i + 1 \in S
  <2> SUFFICES ASSUME i + 1 <= N PROVE v[i + 1] = More(u[N - (i + 1)], b)
    OBVIOUS
  <2> DEFINE j == N - i
  <2>1. /\ i + 1 \in 1..N /\ (i + 1) - 1 = i /\ j \in 1..N /\ j - 1 = N - (i + 1)
        /\ N - (i + 1) + 1 = j /\ j - 1 \in 0..N /\ i <= N
    BY <1>1
  <2>2. v[i] = More(u[j], b)
    BY <1>10, <2>1
  <2> HIDE DEF j
  <2> DEFINE x == u[j - 1]
             r == s[j]
  <2>3. x \in Gpios /\ r \in Resources \ {"line"} /\ u[j] = Take(x, r)
    BY <1>1, <1>3, <2>1
  <2>4. v[i + 1] = Give(v[i], r)
    BY <1>2, <1>8, <2>1
  <2> HIDE DEF x, r
  <2>5. Give(More(Take(x, r), b), r) = More(x, b)
    BY <1>4, <2>3, TakeGive DEF More
  <2> QED
    BY <2>1, <2>2, <2>3, <2>4, <2>5 DEF x
<1>11. N \in S
  <2> HIDE DEF S
  <2> QED
    BY <1>1, <1>9, <1>10, NatSetInduction
<1>12. v[N] = More(g, b)
  BY <1>1, <1>3, <1>11
<1> QED
  BY <1>3, <1>8, <1>12 DEF h, t


\* A chip that is not the one is closed again.
LEMMA LookAtGives ==
  ASSUME NEW g \in Gpios, NEW kind
  PROVE  LookAt(g, kind) = g
<1> DEFINE x == Take(g, "chip")
<1>1. "chip" \in Resources /\ "info" \in Resources
  BY DEF Resources
<1>2. x \in Gpios /\ Give(x, "chip") = g
  BY <1>1, TakeGive
<1> HIDE DEF x
<1>3. Give(Take(x, "info"), "info") = x
  BY <1>1, <1>2, TakeGive
<1> QED
  BY <1>2, <1>3 DEF LookAt, x

\* So are all of them.
LEMMA AllLookedAt ==
  ASSUME NEW g \in Gpios, NEW s, Len(s) \in Nat, DOMAIN s = 1..Len(s)
  PROVE  FoldLeft(LookAt, g, s) = g
<1> DEFINE N == Len(s)
           X == {g}
           Is(f) == f = [q \in SUBSET (1..N) |->
                           IF q = {} THEN g ELSE LookAt(f[q \ {Max(q)}], s[Max(q)])]
           iter == CHOOSE f : Is(f)
           next == [z \in X \X (1..N) |-> LookAt(z[1], s[z[2]])]
<1>1. N \in Nat /\ DOMAIN s = 1..N
  OBVIOUS
<1>2. FoldLeft(LookAt, g, s) = iter[1..N]
  BY <1>1 DEF FoldLeft, MapThenFoldSet
<1> HIDE DEF N
<1>3. g \in X /\ \A x \in X, i \in 1..N : LookAt(x, s[i]) \in X
  BY <1>1, LookAtGives
<1> HIDE DEF X
<1>4. next \in [X \X (1..N) -> X] /\ \A x \in X, i \in 1..N : next[<<x, i>>] = LookAt(x, s[i])
  BY <1>3
<1> HIDE DEF next
<1>5. \A q \in SUBSET (1..N) : q # {} => Max(q) \in 1..N
  BY <1>1, MaxIn
<1>6. PICK f \in [SUBSET (1..N) -> X] : IsFold(f, N, g, next)
  BY <1>1, <1>3, <1>4, FoldExists
<1>7. Is(f)
  BY <1>4, <1>5, <1>6 DEF IsFold
<1>8. Is(iter)
  <2> HIDE DEF Is
  <2> QED
    BY <1>7
<1> HIDE DEF iter
<1>9. FoldsIn(X, iter, N, g, next)
  BY <1>4, <1>5, <1>8 DEF FoldsIn
<1> HIDE DEF Is
<1>10. PICK u \in [0..N -> X] : Steps(u, N, g, next) /\ u[N] = iter[1..N]
  BY <1>1, <1>3, <1>9, FoldSteps
<1>11. u[N] \in X
  BY <1>1, <1>10
<1> QED
  BY <1>2, <1>10, <1>11 DEF X

\* The chip that was found is open, and nothing else.
LEMMA ChipFound ==
  ASSUME NEW g \in Gpios, NEW o \in Outcomes
  PROVE  LET c == plGetGpiodChip(g, o)
         IN  \/ c = [gpio |-> g, chip |-> "none"]
             \/ c.gpio = Take(g, "chip") /\ c.chip \in {"noLine", "good"}
<1> DEFINE found  == {i \in DOMAIN o.chips : o.chips[i] \in {"noLine", "good"}}
           passed == IF found = {} THEN o.chips ELSE SubSeq(o.chips, 1, Min(found) - 1)
           x == Take(g, "chip")
<1>1. o.chips \in SeqOf({"noChip", "noInfo", "otherLabel", "noLine", "good"}, MaxChips)
  BY DEF Outcomes
<1>2. PICK n \in Nat : DOMAIN o.chips = 1..n /\ Len(o.chips) = n
  <2>1. PICK n \in 0..MaxChips :
          o.chips \in [1..n -> {"noChip", "noInfo", "otherLabel", "noLine", "good"}]
    BY <1>1 DEF SeqOf
  <2> QED
    BY <2>1, ResetAssumption
<1>3. found # {} => Min(found) \in found
  <2> SUFFICES ASSUME found # {} PROVE Min(found) \in found
    OBVIOUS
  <2>1. found \in SUBSET Nat
    BY <1>2
  <2> HIDE DEF found
  <2>2. PICK y \in found : \A z \in found : y <= z
    BY <2>1, LeastNumber
  <2> QED
    BY <2>2 DEF Min
<1>4. Len(passed) \in Nat /\ DOMAIN passed = 1..Len(passed)
  <2>1. CASE found = {}
    BY <1>2, <2>1
  <2>2. CASE found # {}
    <3> DEFINE k == Min(found)
    <3>1. k \in Nat
      BY <1>2, <1>3, <2>2
    <3> HIDE DEF k
    <3>2. LET s == SubSeq(o.chips, 1, k - 1) IN Len(s) \in Nat /\ DOMAIN s = 1..Len(s)
      BY <3>1
    <3> HIDE DEF found
    <3> QED
      BY <2>2, <3>2 DEF k
  <2> QED
    BY <2>1, <2>2
<1>5. FoldLeft(LookAt, g, passed) = g
  <2> HIDE DEF passed
  <2> QED
    BY <1>4, AllLookedAt
<1>6. x \in Gpios /\ Give(Take(x, "info"), "info") = x
  <2>1. "chip" \in Resources /\ "info" \in Resources
    BY DEF Resources
  <2>2. x \in Gpios
    BY <2>1, TakeGive
  <2> HIDE DEF x
  <2> QED
    BY <2>1, <2>2, TakeGive
<1>7. found # {} => o.chips[Min(found)] \in {"noLine", "good"}
  BY <1>3
<1>8. /\ found = {} => plGetGpiodChip(g, o) = [gpio |-> g, chip |-> "none"]
      /\ found # {} => plGetGpiodChip(g, o) = [gpio |-> x, chip |-> o.chips[Min(found)]]
  <2> DEFINE a == FoldLeft(LookAt, g, passed)
  <2>1. plGetGpiodChip(g, o) =
          IF found = {} THEN [gpio |-> a, chip |-> "none"]
          ELSE [gpio |-> Give(Take(Take(a, "chip"), "info"), "info"), chip |-> o.chips[Min(found)]]
    BY DEF plGetGpiodChip
  <2> HIDE DEF found
  <2> QED
    BY <1>5, <1>6, <2>1
<1> HIDE DEF found, passed
<1> QED
  BY <1>7, <1>8


\* A request leaves a line that was granted, and nothing else.
LEMMA LineRequested ==
  ASSUME NEW g \in Gpios, NEW o, NEW chip
  PROVE  \E b \in BOOLEAN : plRequestOutputLine(g, o, chip) = [gpio |-> More(g, b), granted |-> b]
<1> DEFINE built ==
             CASE o.refuses = "settings"              -> << >>
               [] o.refuses = "lineConfig"            -> <<"settings">>
               [] o.refuses \in {"add", "requestConfig"} -> <<"settings", "lineConfig">>
               [] OTHER -> <<"settings", "lineConfig", "requestConfig">>
           b == chip = "good" /\ o.refuses \in {"requestConfig", "none"}
<1>1. built \in Seq(Resources \ {"line"})
  <2>1. /\ "settings" \in Resources \ {"line"} /\ "lineConfig" \in Resources \ {"line"}
        /\ "requestConfig" \in Resources \ {"line"}
    BY DEF Resources
  <2> DEFINE R == Resources \ {"line"}
  <2>2. /\ << >> \in Seq(R) /\ <<"settings">> \in Seq(R) /\ <<"settings", "lineConfig">> \in Seq(R)
        /\ <<"settings", "lineConfig", "requestConfig">> \in Seq(R)
    BY <2>1
  <2> HIDE DEF R
  <2>3. built \in {<< >>, <<"settings">>, <<"settings", "lineConfig">>,
                   <<"settings", "lineConfig", "requestConfig">>}
    OBVIOUS
  <2> HIDE DEF built
  <2> QED
    BY <2>2, <2>3 DEF R
<1>2. b \in BOOLEAN
  OBVIOUS
<1>3. plRequestOutputLine(g, o, chip) =
        [gpio |-> FoldLeft(Give, More(FoldLeft(Take, g, built), b), Reverse(built)), granted |-> b]
  BY DEF plRequestOutputLine, More
<1> HIDE DEF built, b
<1>4. FoldLeft(Give, More(FoldLeft(Take, g, built), b), Reverse(built)) = More(g, b)
  BY <1>1, <1>2, BuiltIsFreed
<1> QED
  BY <1>2, <1>3, <1>4

\* A reset gives back what it took, in both builds; only the second one may keep the
\* library.
LEMMA ResetGives ==
  ASSUME NEW g \in Gpios, NEW o \in Outcomes
  PROVE  /\ \E ret \in Int : V1Reset(g, o) = Return(g, ret)
         /\ \/ \E ret \in Int : V2Reset(g, o) = Return(g, ret)
            \/ V2Reset(g, o) = Return([Take(g, "lib") EXCEPT !.unversioned = @ + 1], -1)
<1> DEFINE l == Take(g, "lib")
           x == Take(l, "chip")
<1>0. "lib" \in Resources /\ "chip" \in Resources /\ "line" \in Resources
  BY DEF Resources
<1>1. l \in Gpios /\ Give(l, "lib") = g
  BY <1>0, TakeGive
<1> HIDE DEF l
<1>2. x \in Gpios /\ Give(x, "chip") = l
  BY <1>0, <1>1, TakeGive
<1> HIDE DEF x
<1>3. Give(Take(x, "line"), "line") = x
  BY <1>0, <1>2, TakeGive
<1>4. \E ret \in Int : V1Reset(g, o) = Return(g, ret)
  <2> DEFINE good    == \E i \in DOMAIN o.chips : o.chips[i] = "good"
             toggled == IF good THEN Give(Take(x, "line"), "line") ELSE x
  <2>1. V1Reset(g, o) =
          IF ~o.open THEN Return(g, -1)
          ELSE IF ~o.symbols THEN Return(Give(l, "lib"), -1)
          ELSE IF ~o.iter THEN Return(Give(l, "lib"), -2)
          ELSE Return(Give(Give(toggled, "chip"), "lib"), IF good THEN 0 ELSE -1)
    BY DEF V1Reset, l, x
  <2>2. toggled = x
    BY <1>3
  <2> HIDE DEF good, toggled
  <2>3. V1Reset(g, o) \in {Return(g, -1), Return(g, -2), Return(g, 0)}
    BY <1>1, <1>2, <2>1, <2>2
  <2> QED
    BY <2>3
<1>5. \/ \E ret \in Int : V2Reset(g, o) = Return(g, ret)
      \/ V2Reset(g, o) = Return([l EXCEPT !.unversioned = @ + 1], -1)
  <2> DEFINE c == plGetGpiodChip(l, o)
             r == plRequestOutputLine(c.gpio, o, c.chip)
             toggled == IF r.granted THEN Give(r.gpio, "line") ELSE r.gpio
  <2>1. V2Reset(g, o) =
          IF ~o.open THEN Return(g, -1)
          ELSE IF ~o.version THEN Return([l EXCEPT !.unversioned = @ + 1], -1)
          ELSE IF ~o.symbols THEN Return(Give(l, "lib"), -1)
          ELSE IF c.chip = "none" THEN Return(Give(c.gpio, "lib"), -2)
          ELSE Return(Give(Give(toggled, "chip"), "lib"), IF r.granted THEN 0 ELSE -1)
    BY DEF V2Reset, l
  <2>2. \/ c.gpio = l /\ c.chip = "none"
        \/ c.gpio = x /\ c.chip # "none"
    <3>1. \/ c = [gpio |-> l, chip |-> "none"]
          \/ c.gpio = Take(l, "chip") /\ c.chip \in {"noLine", "good"}
      BY <1>1, ChipFound
    <3> HIDE DEF c
    <3> QED
      BY <3>1 DEF x
  <2>3. c.gpio = x => toggled = x
    <3> SUFFICES ASSUME c.gpio = x PROVE toggled = x
      OBVIOUS
    <3>1. PICK b \in BOOLEAN : r = [gpio |-> More(x, b), granted |-> b]
      BY <1>2, LineRequested
    <3>2. r.gpio = More(x, b) /\ r.granted = b
      BY <3>1
    <3> HIDE DEF r
    <3> QED
      BY <1>3, <3>2 DEF More
  <2> DEFINE ret == IF r.granted THEN 0 ELSE -1
  <2>4. ret \in Int
    OBVIOUS
  <2> HIDE DEF c, r, toggled, ret
  <2>5. \/ V2Reset(g, o) \in {Return(g, -1), Return(g, -2), Return(g, ret)}
        \/ V2Reset(g, o) = Return([l EXCEPT !.unversioned = @ + 1], -1)
    BY <1>1, <1>2, <2>1, <2>2, <2>3 DEF ret
  <2> QED
    BY <2>4, <2>5
<1> QED
  BY <1>4, <1>5 DEF l


\* What is held of g, as GpioPaired says it.
Paired(g) == \A r \in Resources : g.held[r] = IF r = "lib" THEN g.unversioned ELSE 0

\* A reset leaves it so.
LEMMA ResetPaired ==
  ASSUME NEW g \in Gpios, Paired(g), NEW o \in Outcomes
  PROVE  /\ V1Reset(g, o) \in Gpios /\ Paired(V1Reset(g, o))
         /\ V2Reset(g, o) \in Gpios /\ Paired(V2Reset(g, o))
<1> DEFINE l == Take(g, "lib")
           x == [l EXCEPT !.unversioned = @ + 1]
<1>0. "lib" \in Resources
  BY DEF Resources
<1>1. ASSUME NEW h \in Gpios, Paired(h), NEW ret \in Int
      PROVE  Return(h, ret) \in Gpios /\ Paired(Return(h, ret))
  <2>1. Return(h, ret) \in Gpios
    BY DEF Return, Gpios
  <2>2. Return(h, ret).held = h.held /\ Return(h, ret).unversioned = h.unversioned
    BY DEF Return, Gpios
  <2> QED
    BY <1>1, <2>1, <2>2 DEF Paired
<1>2. x \in Gpios /\ Paired(x)
  <2>1. l \in Gpios /\ l.held = Up(g.held, "lib") /\ g.held \in [Resources -> Int]
    <3>1. l \in Gpios
      BY <1>0, TakeGive
    <3>2. /\ l = Holding(g, Up(g.held, "lib")) /\ g.held \in [Resources -> Int]
          /\ Up(g.held, "lib") \in [Resources -> Int]
      BY <1>0, TakesAndGives
    <3> HIDE DEF l
    <3>3. l.held = Up(g.held, "lib")
      BY <3>2, HoldingIs
    <3> QED
      BY <3>1, <3>2, <3>3
  <2>2. l.unversioned = g.unversioned
    BY DEF Take, Gpios
  <2> HIDE DEF l
  <2>3. x \in Gpios /\ x.held = l.held /\ x.unversioned = l.unversioned + 1
    BY <2>1 DEF Gpios
  <2> HIDE DEF x
  <2>4. ASSUME NEW r \in Resources
        PROVE  x.held[r] = IF r = "lib" THEN x.unversioned ELSE 0
    BY <2>1, <2>2, <2>3 DEF Paired, Up
  <2> QED
    BY <2>3, <2>4 DEF Paired
<1>3. /\ \E ret \in Int : V1Reset(g, o) = Return(g, ret)
      /\ (\E ret \in Int : V2Reset(g, o) = Return(g, ret)) \/ V2Reset(g, o) = Return(x, -1)
  BY ResetGives
<1> HIDE DEF x
<1> QED
  BY <1>1, <1>2, <1>3

GpioOK == gpio \in Gpios /\ Paired(gpio)

\* Whichever call into the library fails, in either build, with any number of chips and
\* after any number of resets: a reset gives back all that it took, but for a library
\* that does not know its version (linux_libgpiod_v1_reset.c 61-231,
\* linux_libgpiod_v2_reset.c 106-331).
THEOREM ResetsArePaired == Spec => []GpioPaired
<1>1. Init => GpioOK
  <2>1. ResetInit => gpio \in Gpios /\ gpio.unversioned = 0 /\ \A r \in Resources : gpio.held[r] = 0
    BY DEF ResetInit, Gpios
  <2> QED
    BY <2>1 DEF Init, GpioOK, Paired
<1>2. GpioOK /\ [Next]_consoleVars => GpioOK'
  <2> SUFFICES ASSUME GpioOK, [Next]_consoleVars PROVE GpioOK'
    OBVIOUS
  <2>1. CASE Toggle
    <3>1. PICK a \in (IF gpio.api = "unused" THEN Apis ELSE {gpio.api}), o \in Outcomes :
            LET g == [gpio EXCEPT !.api = a, !.resets = @ + 1]
            IN  gpio' = IF a = "v1" THEN V1Reset(g, o) ELSE V2Reset(g, o)
      BY <2>1 DEF Toggle, ResetLine
    <3> DEFINE g == [gpio EXCEPT !.api = a, !.resets = @ + 1]
    <3>2. a \in Apis \cup {"unused"}
      BY <3>1 DEF GpioOK, Gpios
    <3>3. g \in Gpios /\ g.held = gpio.held /\ g.unversioned = gpio.unversioned
      <4>1. gpio \in Gpios
        BY DEF GpioOK
      <4>2. g \in Gpios
        <5> DEFINE b == [gpio EXCEPT !.api = a]
        <5>1. b \in Gpios
          BY <3>2, <4>1 DEF Gpios
        <5>2. g = [b EXCEPT !.resets = @ + 1]
          BY <4>1 DEF Gpios
        <5> HIDE DEF b, g
        <5> QED
          BY <5>1, <5>2 DEF Gpios
      <4>3. g.held = gpio.held
        BY <4>1 DEF Gpios
      <4>4. g.unversioned = gpio.unversioned
        BY <4>1 DEF Gpios
      <4> QED
        BY <4>2, <4>3, <4>4
    <3>4. gpio' \in {V1Reset(g, o), V2Reset(g, o)}
      BY <3>1
    <3> HIDE DEF g
    <3>5. Paired(g)
      BY <3>3 DEF GpioOK, Paired
    <3> QED
      BY <3>3, <3>4, <3>5, ResetPaired DEF GpioOK
  <2>2. CASE Try \/ Press \/ UNCHANGED consoleVars
    BY <2>2 DEF Try, Press, consoleVars, GpioOK
  <2> QED
    BY <2>1, <2>2 DEF Next
<1>3. GpioOK => GpioPaired
  BY DEF GpioOK, Paired, GpioPaired
<1> QED
  BY <1>1, <1>2, <1>3, PTL DEF Spec


-----------------------------------------------------------------------------
(* What is read from the arguments is what stands there.                   *)

TaskNames ==
  {"T_NONE", "T_RESET", "T_PROGRAM", "T_LIST", "T_CONNECT", "T_DUMP_FLASH", "T_SNIFF", "T_HELP"}

\* A number of an option is given, or it is what the field starts with.
Stands(v, args) == v \in {-1, 0, 10} \/ \E i \in DOMAIN args : Exact(args[i]) = v

\* A file that was accepted was read on the machine.
IsRead(fname, file, m) ==
  fname = NoPath \/ (fname \in DOMAIN m.files /\ file = GCF_ParseFile(m.files[fname]) /\ file.ok)

\* What the arguments have set so far.
AsRead(g, args, m) ==
  /\ Stands(g["sniffChannel"], args) /\ Stands(g["uiDebugLevel"], args)
  /\ Stands(g["maxTime"], args)
  /\ g["task"] \in TaskNames /\ g["state"] \in {"ST_Void", "ST_ListDevices"}
  /\ IsRead(g["fname"], g["file"], m)

\* A number in the range of an option.
LEMMA NumberStands ==
  ASSUME NEW args, NEW i \in DOMAIN args, IsSequence(args[i]), NEW lo \in Nat, NEW hi \in Int,
         hi <= Small, InRange(Number(args[i]), lo, hi)
  PROVE  Stands(Number(args[i]).value, args)
<1> DEFINE arg == args[i]
           n == Number(arg)
<1>0. Small \in Nat
  BY NumberAssumption
<1>1. n.ss.status = "OK" /\ n.value \in lo..hi
  BY DEF InRange
<1>2. arg # << >>
  <2> SUFFICES ASSUME arg = << >> PROVE FALSE
    OBVIOUS
  <2>1. Stream(arg).text = << >> /\ Stream(arg).status = "INVALID"
    BY DEF Stream
  <2>2. n = [value |-> 0, ss |-> Stream(arg)]
    BY <2>1 DEF Number, GetLong
  <2> HIDE DEF n
  <2> QED
    BY <1>1, <2>1, <2>2
<1>3. n = Taken(Stream(arg), Strtol(arg))
  <2>1. Stream(arg).text = arg
    BY DEF Stream
  <2> QED
    BY <1>2, <2>1 DEF Number, GetLong
<1> HIDE DEF n
<1>4. Strtol(arg).inRange /\ n.value = Strtol(arg).value
  BY <1>1, <1>3 DEF Taken
<1> HIDE DEF arg
<1>5. CASE n.value = 0
  BY <1>5 DEF n, arg, Stands
<1>6. CASE n.value # 0
  <2>1. Strtol(arg).value \in 1..Small
    BY <1>0, <1>1, <1>4, <1>6
  <2>2. Strtol(arg).value = Exact(arg)
    BY <1>4, <2>1, NoSmallFromLarge DEF arg, Exact
  <2> QED
    BY <1>4, <2>2 DEF n, arg, Stands
<1> QED
  BY <1>5, <1>6

\* An option.
LEMMA OptionAsRead ==
  ASSUME NEW g, IsGcf(g), NEW args, NEW m, AsRead(g, args, m), NEW arg
  PROVE  Stopped(Option(g, arg)) \/ AsRead(Option(g, arg), args, m)
<1>0. Named18
  BY FieldNames
<1> DEFINE o == IF Len(arg) > 1 THEN arg[2] ELSE "none"
           r == Option(g, arg)
           Leads(x) == r = x
<1>1. \/ Leads([g EXCEPT !.task = "T_RESET"])
      \/ Leads([g EXCEPT !.task = "T_CONNECT"])
      \/ Leads([g EXCEPT !.task = "T_DUMP_FLASH"])
      \/ Leads([g EXCEPT !.uiInteractive = TRUE])
      \/ Leads(Succeed([g EXCEPT !.task = "T_LIST", !.state = "ST_ListDevices"]))
      \/ Leads(Succeed([g EXCEPT !.task = "T_HELP"]))
      \/ Leads([g EXCEPT !.task = "T_PROGRAM", !.want = o])
      \/ Leads([g EXCEPT !.want = o])
      \/ Leads(Fail(g))
  BY DEF Option
<1> HIDE DEF r, o
<1>2. Leads(Fail(g)) => Stopped(r)
  BY <1>0 DEF Fail, Stopped, IsGcf, Named18
<1>3. ASSUME NEW t \in TaskNames, Leads([g EXCEPT !.task = t]) PROVE AsRead(r, args, m)
  BY <1>0, <1>3 DEF IsGcf, Named18, AsRead
<1>4. ASSUME Leads([g EXCEPT !.uiInteractive = TRUE]) PROVE AsRead(r, args, m)
  BY <1>0, <1>4 DEF IsGcf, Named18, AsRead
<1>5. ASSUME Leads(Succeed([g EXCEPT !.task = "T_LIST", !.state = "ST_ListDevices"]))
      PROVE  AsRead(r, args, m)
  BY <1>0, <1>5 DEF Succeed, IsGcf, Named18, AsRead, TaskNames
<1>6. ASSUME Leads(Succeed([g EXCEPT !.task = "T_HELP"])) PROVE AsRead(r, args, m)
  BY <1>0, <1>6 DEF Succeed, IsGcf, Named18, AsRead, TaskNames
<1>7. ASSUME Leads([g EXCEPT !.task = "T_PROGRAM", !.want = o]) PROVE AsRead(r, args, m)
  BY <1>0, <1>7 DEF IsGcf, Named18, AsRead, TaskNames
<1>8. ASSUME Leads([g EXCEPT !.want = o]) PROVE AsRead(r, args, m)
  BY <1>0, <1>8 DEF IsGcf, Named18, AsRead
<1>9. {"T_RESET", "T_CONNECT", "T_DUMP_FLASH"} \subseteq TaskNames
  BY DEF TaskNames
<1> HIDE DEF Leads
<1> QED
  BY <1>1, <1>2, <1>3, <1>4, <1>5, <1>6, <1>7, <1>8, <1>9 DEF r

\* An argument of an option.
LEMMA ArgumentAsRead ==
  ASSUME NEW g, IsGcf(g), NEW args, NEW m, AsRead(g, args, m),
         NEW i \in DOMAIN args, IsSequence(args[i])
  PROVE  Stopped(Argument(g, args[i], m)) \/ AsRead(Argument(g, args[i], m), args, m)
<1>0. Named18
  BY FieldNames
<1> DEFINE arg == args[i]
           x == [g EXCEPT !.want = "none"]
           w == g.want
           n == Number(arg)
           r == Argument(g, arg, m)
<1>1. IsGcf(x) /\ AsRead(x, args, m)
  BY <1>0 DEF IsGcf, Named18, AsRead
<1>2. r = ArgumentOf(w, x, arg, n, m)
  BY DEF Argument
<1>3. /\ InRange(n, 0, 3600) => Stands(n.value, args)
      /\ InRange(n, 11, 26) => Stands(n.value, args)
      /\ InRange(n, 0, 3) => Stands(n.value, args)
  <2>1. Small \in Nat /\ 115200 <= Small
    BY NumberAssumption, CommandAssumption
  <2> QED
    BY <2>1, NumberStands
<1> HIDE DEF arg, x, w, n, r
<1> DEFINE Good(y) == Stopped(y) \/ AsRead(y, args, m)
<1>4. \A y : IsGcf(y) => Stopped(Fail(y))
  BY <1>0 DEF Fail, Stopped, IsGcf, Named18
<1>5. Good(Fail(x)) /\ Good([x EXCEPT !.devpath = arg]) /\ Good([x EXCEPT !.sniffHost = arg])
  <2>1. AsRead([x EXCEPT !.devpath = arg], args, m)
    BY <1>0, <1>1 DEF IsGcf, Named18, AsRead
  <2>2. AsRead([x EXCEPT !.sniffHost = arg], args, m)
    BY <1>0, <1>1 DEF IsGcf, Named18, AsRead
  <2> QED
    BY <1>1, <1>4, <2>1, <2>2
<1>6. \A v : /\ AsRead([x EXCEPT !.devBaudrate = v], args, m)
             /\ Stands(v, args) => /\ AsRead([x EXCEPT !.maxTime = v], args, m)
                                   /\ AsRead([x EXCEPT !.uiDebugLevel = v], args, m)
                                   /\ AsRead([x EXCEPT !.task = "T_SNIFF", !.sniffChannel = v], args, m)
  <2> TAKE v
  <2>1. AsRead([x EXCEPT !.devBaudrate = v], args, m)
    BY <1>0, <1>1 DEF IsGcf, Named18, AsRead
  <2>2. Stands(v, args) => AsRead([x EXCEPT !.maxTime = v], args, m)
    BY <1>0, <1>1 DEF IsGcf, Named18, AsRead
  <2>3. Stands(v, args) => AsRead([x EXCEPT !.uiDebugLevel = v], args, m)
    BY <1>0, <1>1 DEF IsGcf, Named18, AsRead
  <2>4. Stands(v, args) => AsRead([x EXCEPT !.task = "T_SNIFF", !.sniffChannel = v], args, m)
    BY <1>0, <1>1 DEF IsGcf, Named18, AsRead, TaskNames
  <2> QED
    BY <2>1, <2>2, <2>3, <2>4
<1>7. Good(FileArgument(x, arg, m))
  <2> DEFINE y == [x EXCEPT !.fname = arg]
             file == GCF_ParseFile(m.files[arg])
             z == [x EXCEPT !.fname = arg, !.file = file]
  <2>1. IsGcf(y) /\ IsGcf(z) /\ z.file = file
    BY <1>0, <1>1 DEF IsGcf, Named18
  <2>2. \/ FileArgument(x, arg, m) \in {Fail(x), Fail(y), Fail(z)}
        \/ arg \in DOMAIN m.files /\ z.file.ok /\ FileArgument(x, arg, m) = z
    BY DEF FileArgument, Checked
  <2>3. arg \in DOMAIN m.files /\ file.ok => AsRead(z, args, m)
    <3> HIDE DEF file
    <3>1. /\ z["fname"] = arg /\ z["file"] = file
          /\ \A f \in Names \ {"fname", "file"} : z[f] = x[f]
      BY <1>0, <1>1 DEF IsGcf, Named18
    <3> HIDE DEF z
    <3>2. arg \in DOMAIN m.files /\ file.ok => IsRead(arg, file, m)
      BY DEF IsRead, file
    <3> QED
      BY <1>0, <1>1, <3>1, <3>2 DEF Named18, AsRead
  <2> HIDE DEF y, z, file
  <2> QED
    BY <1>1, <1>4, <2>1, <2>2, <2>3
<1> HIDE DEF Good
<1>8. Good(r)
  <2>1. \A v : Good([x EXCEPT !.devBaudrate = v])
    BY <1>6 DEF Good
  <2> DEFINE Time(v)    == [x EXCEPT !.maxTime = v]
             Debug(v)   == [x EXCEPT !.uiDebugLevel = v]
             Channel(v) == [x EXCEPT !.task = "T_SNIFF", !.sniffChannel = v]
  <2>2. \A v : Stands(v, args) => Good(Time(v)) /\ Good(Debug(v)) /\ Good(Channel(v))
    BY <1>6 DEF Good
  <2> HIDE DEF Time, Debug, Channel
  <2>3. w = "b" => Good(r)
    BY <1>2, <1>5, <2>1 DEF ArgumentOf
  <2>4. w = "t" => Good(r)
    <3>1. w = "t" => r = Fail(x) \/ (InRange(n, 0, 3600) /\ r = Time(n.value))
      BY <1>2 DEF ArgumentOf, Time
    <3>2. InRange(n, 0, 3600) => Good(Time(n.value))
      BY <1>3, <2>2
    <3> QED
      BY <1>5, <3>1, <3>2
  <2>5. w = "s" => Good(r)
    <3>1. w = "s" => r = Fail(x) \/ (InRange(n, 11, 26) /\ r = Channel(n.value))
      BY <1>2 DEF ArgumentOf, Channel
    <3>2. InRange(n, 11, 26) => Good(Channel(n.value))
      BY <1>3, <2>2
    <3> QED
      BY <1>5, <3>1, <3>2
  <2>6. w \notin {"d", "f", "b", "t", "s", "H"} => Good(r)
    <3>1. w \notin {"d", "f", "b", "t", "s", "H"} => r = Fail(x) \/ (InRange(n, 0, 3) /\ r = Debug(n.value))
      BY <1>2 DEF ArgumentOf, Debug
    <3>2. InRange(n, 0, 3) => Good(Debug(n.value))
      BY <1>3, <2>2
    <3> QED
      BY <1>5, <3>1, <3>2
  <2>7. w = "d" => Good(r)
    BY <1>2, <1>5 DEF ArgumentOf
  <2>8. w = "f" => Good(r)
    BY <1>2, <1>7 DEF ArgumentOf
  <2>9. w = "H" => Good(r)
    BY <1>2, <1>5 DEF ArgumentOf
  <2> QED
    BY <2>3, <2>4, <2>5, <2>6, <2>7, <2>8, <2>9
<1> QED
  BY <1>8 DEF Good, r, arg

\* A round of the loop.
LEMMA RoundAsRead ==
  ASSUME NEW g, IsGcf(g), NEW args, NEW m, Stopped(g) \/ AsRead(g, args, m),
         NEW i \in DOMAIN args, IsSequence(args[i])
  PROVE  Stopped(Round(g, args[i], m)) \/ AsRead(Round(g, args[i], m), args, m)
<1>1. Stopped(Fail(g))
  BY FieldNames DEF Fail, Stopped, IsGcf, Named18
<1>2. CASE Stopped(g)
  BY <1>2, RoundStops
<1>3. CASE AsRead(g, args, m)
  <2>1. Round(g, args[i], m) \in {g, Fail(g), Argument(g, args[i], m), Option(g, args[i])}
    BY DEF Round
  <2> QED
    BY <1>1, <1>3, <2>1, OptionAsRead, ArgumentAsRead
<1> QED
  BY <1>2, <1>3

\* All the arguments.
LEMMA ArgumentsAsRead ==
  ASSUME NEW args, IsSequence(args), \A i \in DOMAIN args : IsSequence(args[i]),
         NEW m, NEW V, Enough(V, args, m), NEW a \in [Names -> V], AsRead(a, args, m)
  PROVE  Stopped(Arguments(a, args, m)) \/ AsRead(Arguments(a, args, m), args, m)
<1> DEFINE N == Len(args)
           X == [Names -> V]
           Good(g) == Stopped(g) \/ AsRead(g, args, m)
<1>0. N \in Nat /\ DOMAIN args = 1..N
  BY DEF IsSequence
<1>1. PICK u \in [0..N -> X] : Rounds(u, a, args, m)
  BY ArgumentSteps
<1> DEFINE S == {i \in Nat : i <= N => Good(u[i])}
<1>2. 0 \in S
  BY <1>1 DEF Rounds
<1>3. ASSUME NEW i \in Nat, i \in S PROVE i + 1 \in S
  <2> SUFFICES ASSUME i + 1 <= N PROVE Good(u[i + 1])
    OBVIOUS
  <2>1. i \in 0..N /\ i + 1 \in 1..N /\ (i + 1) - 1 = i
    BY <1>0
  <2>2. u[i + 1] = Round(u[i], args[i + 1], m)
    BY <1>1, <2>1 DEF Rounds
  <2>3. IsGcf(u[i]) /\ Good(u[i])
    <3>1. u[i] \in X
      BY <2>1
    <3> QED
      BY <1>3, <2>1, <3>1 DEF IsGcf
  <2>4. i + 1 \in DOMAIN args /\ IsSequence(args[i + 1])
    BY <1>0, <2>1
  <2> QED
    BY <2>2, <2>3, <2>4, RoundAsRead
<1>4. N \in S
  <2> HIDE DEF S
  <2> QED
    BY <1>0, <1>2, <1>3, NatSetInduction
<1> DEFINE y == u[N]
<1>5. y \in X /\ Good(y) /\ Arguments(a, args, m) = Missing(y)
  BY <1>0, <1>1, <1>4 DEF Rounds
<1> HIDE DEF y
<1>6. Missing(y) = y \/ Stopped(Missing(y))
  BY <1>5, FieldNames DEF Missing, Fail, Named18, Stopped
<1> QED
  BY <1>5, <1>6

\* A task that flashes has a file.
LEMMA ProgramsAFile ==
  ASSUME NEW g, IsGcf(g), g.task \in TaskNames, g.state # "ST_Program",
         ~Stopped(Decide(g)), Decide(g).state = "ST_Program"
  PROVE  g.fname # NoPath
<1>0. Named18
  BY FieldNames
<1> SUFFICES ASSUME g.fname = NoPath PROVE FALSE
  OBVIOUS
<1>1. Stopped(Fail(g))
  BY <1>0 DEF Fail, Stopped, IsGcf, Named18
<1>2. Program(g) = Fail(g)
  BY DEF Program
<1>3. \/ Decide(g) = Fail(g) \/ Decide(g) = g \/ Decide(g) = Succeed([g EXCEPT !.running = FALSE])
      \/ /\ g.task \in {"T_CONNECT", "T_SNIFF", "T_DUMP_FLASH", "T_RESET"}
         /\ Decide(g) = Succeed([g EXCEPT !.state = FirstState[g.task]])
  BY <1>2 DEF Decide, TaskNames
<1>4. \A t \in {"T_CONNECT", "T_SNIFF", "T_DUMP_FLASH", "T_RESET"} : FirstState[t] # "ST_Program"
  BY DEF FirstState
<1>5. Succeed([g EXCEPT !.running = FALSE]).state = g.state
  BY <1>0 DEF Succeed, IsGcf, Named18
<1>6. \A s : Succeed([g EXCEPT !.state = s]).state = s
  BY <1>0 DEF Succeed, IsGcf, Named18
<1>7. ASSUME NEW s, s # "ST_Program", Decide(g) = Succeed([g EXCEPT !.state = s]) PROVE FALSE
  BY <1>6, <1>7
<1>8. Decide(g) # Fail(g) /\ Decide(g) # g /\ Decide(g) # Succeed([g EXCEPT !.running = FALSE])
  BY <1>1, <1>5
<1> QED
  BY <1>3, <1>4, <1>7, <1>8

\* What an attempt that goes on has read.
LEMMA AttemptReads ==
  ASSUME NEW args, IsSequence(args), \A i \in DOMAIN args : IsSequence(args[i]),
         NEW m, InitEvent(GCF_Init, args, m).running = TRUE
  PROVE  LET g == InitEvent(GCF_Init, args, m)
         IN  /\ Stands(g.sniffChannel, args) /\ Stands(g.uiDebugLevel, args)
             /\ Stands(g.maxTime, args) /\ IsRead(g.fname, g.file, m)
             /\ g.state = "ST_Program" => g.fname # NoPath
<1> DEFINE s == Reset(GCF_Init, args)
           a == Arguments(s, args, m)
           g == InitEvent(GCF_Init, args, m)
<1>1. IsGcf(s)
  BY InitGcf, ResetGcf
<1>2. AsRead(s, args, m)
  <2>1. /\ s.sniffChannel = 0 /\ s.uiDebugLevel = 0 /\ s.maxTime = -1
        /\ s.task \in TaskNames /\ s.state = "ST_Void" /\ s.fname = NoPath
    BY DEF Reset, GCF_Init, TaskNames
  <2> HIDE DEF s
  <2> QED
    BY <2>1 DEF AsRead, Stands, IsRead
<1> HIDE DEF s
<1>3. ~Stopped(a)
  BY FirstAttempt DEF s
<1>4. AsRead(a, args, m)
  <2>1. PICK V : Enough(V, args, m) /\ s \in [Names -> V]
    BY <1>1, AreEnough
  <2> QED
    BY <1>2, <1>3, <2>1, ArgumentsAsRead
<1> HIDE DEF a, g
<1>5. /\ \/ g.maxTime = a.maxTime \/ g.maxTime = 10
      /\ g.fname = a.fname /\ g.file = a.file /\ g.sniffChannel = a.sniffChannel
      /\ g.uiDebugLevel = a.uiDebugLevel
      /\ \E d : /\ IsGcf(d) /\ d.task = a.task /\ d.fname = a.fname /\ d.state = a.state
                /\ ~Stopped(Decide(d)) /\ g.state = Decide(d).state
  BY FirstAttempt, ZenonT(40) DEF a, g, s
<1>6. g.state = "ST_Program" => g.fname # NoPath
  BY <1>4, <1>5, ProgramsAFile DEF AsRead
<1> QED
  BY <1>4, <1>5, <1>6 DEF AsRead, Stands, g

\* What a program that runs has read, in every state.
ReadOK == LastAttempt /\ machine \in Machines

\* Every step keeps it so.
LEMMA ReadKept == ReadOK /\ [Next]_consoleVars => ReadOK'
<1> SUFFICES ASSUME ReadOK, [Next]_consoleVars PROVE machine' \in Machines
  BY LastAttemptKept DEF ReadOK
<1>1. Attempt \/ machine' = machine
  BY DEF Next, Try, Press, Toggle, consoleVars, cmdVars
<1> QED
  BY <1>1 DEF ReadOK, Attempt

\* It begins so.
LEMMA ReadStarts == Init => ReadOK
  BY DEF Init, CommandInit, LastAttempt, ReadOK

\* What it means for a program that runs.
LEMMA RunningReads ==
  ASSUME ReadOK, gcf.running = TRUE
  PROVE  /\ Stands(gcf.sniffChannel, argv) /\ Stands(gcf.uiDebugLevel, argv)
         /\ Stands(gcf.maxTime, argv) /\ IsRead(gcf.fname, gcf.file, machine)
         /\ gcf.state = "ST_Program" => gcf.fname # NoPath
<1>1. CASE attempts = 0
  <2>1. gcf = GCF_Init
    BY <1>1 DEF ReadOK, LastAttempt
  <2> QED
    BY <2>1 DEF GCF_Init, Stands, IsRead
<1>2. CASE attempts # 0
  <2>1. gcf = InitEvent(GCF_Init, argv, machine) /\ argv \in Argvs
    BY <1>2 DEF ReadOK, LastAttempt
  <2>2. IsSequence(argv) /\ \A i \in DOMAIN argv : IsSequence(argv[i])
    BY <2>1, CommandAssumption
  <2> QED
    BY <2>1, <2>2, AttemptReads
<1> QED
  BY <1>1, <1>2

\* For every command line, every width of unsigned long and any number of attempts:
\* channel, debug level and retry time that a running program works with stand on the
\* command line with all their digits, or were not given (gcf.c 2433-2685,
\* u_sstream.c 607-665).
THEOREM NumbersAreTyped == Spec => []NumbersAsTyped
<1>1. ReadOK => NumbersAsTyped
  <2> SUFFICES ASSUME ReadOK, gcf.running = TRUE PROVE NumbersAsTyped
    BY DEF NumbersAsTyped
  <2> QED
    BY RunningReads DEF NumbersAsTyped, Stands
<1> QED
  BY <1>1, ReadStarts, ReadKept, PTL DEF Spec

\* A size field with the header's extension is less than an unsigned long holds, as
\* where it has 64 bits: the field has 32.
WideLong ==
  \A m \in Machines : \A p \in DOMAIN m.files : m.files[p].dataSize + 4 < Word

\* A remainder is no more than the number, and wraps once below 0.
LEMMA Remainder ==
  ASSUME NEW x \in Int, -4 <= x
  PROVE  /\ x >= 0 => x % Word <= x
         /\ x < 0 /\ 4 < Word => x % Word = x + Word
<1>0. Word \in Nat /\ Word > 0
  BY NumberAssumption
<1>1. CASE x >= 0
  <2>1. x % Word <= x
    BY <1>0, <1>1, SMTT(30)
  <2> QED
    BY <1>1, <2>1
<1>2. CASE x < 0 /\ 4 < Word
  <2>1. x % Word = x + Word
    BY <1>0, <1>2, SMTT(30)
  <2> QED
    BY <1>2, <2>1
<1> QED
  BY <1>1, <1>2

\* An accepted file lies within what was read.
LEMMA AcceptedFits ==
  ASSUME WideLong, NEW m \in Machines, NEW p \in DOMAIN m.files, GCF_ParseFile(m.files[p]).ok
  PROVE  LET file == GCF_ParseFile(m.files[p])
         IN  file.fsize = m.files[p].fsize /\ file.dataOffset + file.gcfFileSize <= file.fsize
<1> DEFINE f == m.files[p]
           given == IF f.magic THEN f.dataSize ELSE f.fsize
           off == DataOffset(f)
           file == GCF_ParseFile(f)
<1>1. IsFile(f) /\ f.dataSize + 4 < Word /\ Word \in Nat
  BY CommandAssumption, NumberAssumption DEF WideLong
<1>2. f.fsize \in Nat /\ f.dataSize \in Nat /\ f.magic \in BOOLEAN
  BY <1>1 DEF IsFile
<1>3. /\ off \in {0, HeaderSize, HeaderSize + 4} /\ HeaderSize = 14
      /\ ~f.magic => off = 0
  BY DEF DataOffset, HeaderSize
<1>4. ~(f.fsize < HeaderSize)
  <2> SUFFICES ASSUME f.fsize < HeaderSize PROVE FALSE
    OBVIOUS
  <2>1. file = [NoFile EXCEPT !.fsize = f.fsize]
    BY DEF GCF_ParseFile
  <2>2. file.ok = FALSE
    BY <2>1 DEF NoFile
  <2> QED
    BY <2>2
<1>5. /\ file.ok = SizeMatches(f, given) /\ file.fsize = f.fsize
      /\ file.dataOffset = off /\ file.gcfFileSize = given
  BY <1>4 DEF GCF_ParseFile, Parse
<1>6. given = (f.fsize - off) % Word
  BY <1>5 DEF SizeMatches
<1> HIDE DEF file
<1>7. off + given <= f.fsize
  <2> DEFINE x == f.fsize - off
  <2> HIDE DEF off
  <2>1. x \in Int /\ -4 <= x
    BY <1>2, <1>3, <1>4
  <2>2. CASE ~f.magic
    BY <1>2, <1>3, <2>2
  <2>3. CASE f.magic /\ x >= 0
    <3>1. given <= x /\ given \in Nat
      <4> HIDE DEF x
      <4> QED
        BY <1>2, <1>6, <2>1, <2>3, Remainder DEF x
    <3> QED
      BY <1>2, <1>3, <3>1
  <2>4. CASE f.magic /\ x < 0
    <3>1. given = f.dataSize /\ 4 < Word
      BY <1>1, <1>2, <2>4
    <3>2. given = x + Word
      BY <1>6, <2>1, <2>4, <3>1, Remainder
    <3> QED
      BY <1>1, <1>2, <2>1, <3>1, <3>2
  <2> QED
    BY <1>2, <2>1, <2>2, <2>3, <2>4
<1> QED
  BY <1>5, <1>7 DEF file

\* Where unsigned long is wider than the given field of the header: what a program that
\* is about to flash has accepted was read in this attempt, and its header does not
\* point behind its end, for every set of files and however they change between
\* attempts (gcf.c 1727-1860, 2487-2512).
THEOREM FlashesWhatWasRead ==
  ASSUME WideLong
  PROVE  Spec => []FileWithinRead
<1>1. ReadOK => FileWithinRead
  <2> SUFFICES ASSUME ReadOK, gcf.running = TRUE, gcf.state = "ST_Program"
               PROVE  /\ gcf.file.fsize = machine.files[gcf.fname].fsize
                      /\ gcf.file.dataOffset + gcf.file.gcfFileSize <= gcf.file.fsize
    BY DEF FileWithinRead
  <2>1. /\ gcf.fname \in DOMAIN machine.files
        /\ gcf.file = GCF_ParseFile(machine.files[gcf.fname]) /\ gcf.file.ok
    BY RunningReads DEF IsRead
  <2> QED
    BY <2>1, AcceptedFits DEF ReadOK
<1> QED
  BY <1>1, ReadStarts, ReadKept, PTL DEF Spec

-----------------------------------------------------------------------------
(* The query is the one that was typed.                                    *)

\* The rest of a text from a place on.
LEMMA RestOf ==
  ASSUME NEW S, NEW t \in Seq(S), NEW k \in 1..(Len(t) + 1)
  PROVE  /\ SubSeq(t, k, Len(t)) \in Seq(S) /\ Len(SubSeq(t, k, Len(t))) = Len(t) - k + 1
         /\ \A i \in 1..(Len(t) - k + 1) : SubSeq(t, k, Len(t))[i] = t[k + i - 1]
<1>1. Len(t) \in Nat /\ k \in Nat /\ k <= Len(t) + 1 /\ \A i \in k..Len(t) : t[i] \in S
  OBVIOUS
<1>2. /\ SubSeq(t, k, Len(t)) \in Seq(S)
      /\ Len(SubSeq(t, k, Len(t))) = IF k <= Len(t) THEN Len(t) - k + 1 ELSE 0
      /\ \A i \in 1..(Len(t) - k + 1) : SubSeq(t, k, Len(t))[i] = t[k + i - 1]
  BY <1>1, SubSeqProperties
<1> QED
  BY <1>1, <1>2

\* The beginning of a text has its characters.
LEMMA FrontOf ==
  ASSUME NEW S, NEW t, NEW n \in Nat, \A i \in 1..n : t[i] \in S
  PROVE  \A i \in 1..n : SubSeq(t, 1, n)[i] = t[i]
<1>1. n \in Int /\ 1 \in Int
  OBVIOUS
<1>2. /\ SubSeq(t, 1, n) \in Seq(S)
      /\ Len(SubSeq(t, 1, n)) = IF 1 <= n THEN n - 1 + 1 ELSE 0
      /\ \A i \in 1..(n - 1 + 1) : SubSeq(t, 1, n)[i] = t[1 + i - 1]
  BY <1>1, SubSeqProperties
<1>3. \A i \in 1..n : i \in 1..(n - 1 + 1) /\ 1 + i - 1 = i
  OBVIOUS
<1> QED
  BY <1>2, <1>3

\* A text that begins with two characters.
LEMMA TwoFirst ==
  ASSUME NEW S, NEW t \in Seq(S), NEW a, NEW b, IsPrefix(<<a, b>>, t)
  PROVE  Len(t) >= 2 /\ t[1] = a /\ t[2] = b
<1>1. Len(t) \in Nat /\ Len(<<a, b>>) = 2 /\ \A i \in 1..2 : <<a, b>>[i] \in {a, b}
  OBVIOUS
<1>2. Len(t) >= 2 /\ SubSeq(<<a, b>>, 1, 2) = SubSeq(t, 1, 2)
  BY <1>1 DEF IsPrefix
<1>3. \A i \in 1..2 : t[i] \in S
  BY <1>1, <1>2
<1>4. \A i \in 1..2 : SubSeq(t, 1, 2)[i] = t[i]
  BY <1>3, FrontOf
<1>5. \A i \in 1..2 : SubSeq(<<a, b>>, 1, 2)[i] = <<a, b>>[i]
  BY <1>1, FrontOf
<1>6. t[1] = <<a, b>>[1] /\ t[2] = <<a, b>>[2]
  BY <1>2, <1>4, <1>5
<1> QED
  BY <1>2, <1>6

\* Or with one.
LEMMA OneFirst ==
  ASSUME NEW S, NEW t \in Seq(S), NEW a
  PROVE  IsPrefix(<<a>>, t) <=> Len(t) >= 1 /\ t[1] = a
<1>1. Len(t) \in Nat /\ Len(<<a>>) = 1
  OBVIOUS
<1>2. SubSeq(<<a>>, 1, 1) = <<a>>
  <2>1. <<a>> \in Seq({a})
    OBVIOUS
  <2> QED
    BY <1>1, <2>1, SubSeqFull
<1>3. ASSUME Len(t) >= 1 PROVE SubSeq(t, 1, 1) = <<t[1]>>
  <2>1. \A i \in 1..1 : t[i] \in S
    BY <1>1, <1>3
  <2>2. /\ SubSeq(t, 1, 1) \in Seq(S) /\ Len(SubSeq(t, 1, 1)) = IF 1 <= 1 THEN 1 - 1 + 1 ELSE 0
        /\ \A i \in 1..(1 - 1 + 1) : SubSeq(t, 1, 1)[i] = t[1 + i - 1]
    BY <2>1, SubSeqProperties
  <2>3. Len(SubSeq(t, 1, 1)) = 1 /\ SubSeq(t, 1, 1)[1] = t[1]
    BY <2>2
  <2>4. <<t[1]>> \in Seq(S) /\ Len(<<t[1]>>) = 1 /\ \A i \in 1..1 : <<t[1]>>[i] = t[1]
    BY <2>1
  <2>5. \A i \in 1..Len(SubSeq(t, 1, 1)) : SubSeq(t, 1, 1)[i] = <<t[1]>>[i]
    BY <2>3, <2>4
  <2> QED
    BY <2>2, <2>3, <2>4, <2>5, SeqEqual
<1>4. <<t[1]>> = <<a>> <=> t[1] = a
  <2>1. <<t[1]>>[1] = t[1] /\ <<a>>[1] = a
    OBVIOUS
  <2> QED
    BY <2>1
<1> QED
  BY <1>1, <1>2, <1>3, <1>4 DEF IsPrefix

\* Looking for a character finds its first place.
LEMMA FindsFirst ==
  ASSUME NEW S, NEW text \in Seq(S), NEW k \in 1..Len(text), NEW ch, text[k] = ch,
         \A i \in 1..(k - 1) : text[i] # ch
  PROVE  Find(Stream(text), <<ch>>) = [Stream(text) EXCEPT !.text = SubSeq(text, k, Len(text))]
<1> DEFINE at == Places(text, <<ch>>)
           p == CHOOSE i \in at : \A j \in at : i <= j
<1>1. Len(text) \in Nat /\ Stream(text).text = text
  BY DEF Stream
<1>2. ASSUME NEW i \in 0..(Len(text) - 1)
      PROVE  IsPrefix(<<ch>>, SubSeq(text, i + 1, Len(text))) <=> text[i + 1] = ch
  <2> DEFINE r == SubSeq(text, i + 1, Len(text))
  <2>1. i + 1 \in 1..(Len(text) + 1) /\ Len(text) - (i + 1) + 1 >= 1
    BY <1>1
  <2>2. /\ r \in Seq(S) /\ Len(r) = Len(text) - (i + 1) + 1
        /\ \A j \in 1..(Len(text) - (i + 1) + 1) : r[j] = text[(i + 1) + j - 1]
    BY <2>1, RestOf
  <2> HIDE DEF r
  <2>3. r[1] = text[i + 1] /\ Len(r) >= 1
    BY <1>1, <2>1, <2>2
  <2>4. IsPrefix(<<ch>>, r) <=> text[i + 1] = ch
    BY <2>2, <2>3, OneFirst
  <2> QED
    BY <2>4 DEF r
<1>3. at = {i \in 0..(Len(text) - 1) : text[i + 1] = ch}
  BY <1>2 DEF Places
<1> HIDE DEF at
<1>4. k - 1 \in at /\ \A j \in at : k - 1 <= j
  <2>1. k - 1 \in 0..(Len(text) - 1) /\ (k - 1) + 1 = k
    BY <1>1
  <2>2. ASSUME NEW j \in at PROVE k - 1 <= j
    <3>1. j \in 0..(Len(text) - 1) /\ text[j + 1] = ch
      BY <1>3
    <3>2. j + 1 \notin 1..(k - 1)
      BY <3>1
    <3> QED
      BY <1>1, <3>1, <3>2
  <2> QED
    BY <1>3, <2>1, <2>2
<1>5. p = k - 1
  <2>1. p \in at /\ \A j \in at : p <= j
    BY <1>4
  <2> HIDE DEF p
  <2>2. p \in Int
    BY <1>3, <2>1
  <2>3. p <= k - 1 /\ k - 1 <= p
    BY <1>4, <2>1
  <2> QED
    BY <2>2, <2>3
<1> HIDE DEF p
<1>6. 1 + p = k /\ at # {}
  BY <1>4, <1>5
<1> QED
  BY <1>1, <1>6 DEF Find, at, p

\* Blanks are skipped once.
LEMMA BlanksGone ==
  ASSUME NEW S, NEW s \in Seq(S), NEW set
  PROVE  Behind(Behind(s, set), set) = Behind(s, set)
<1> DEFINE r == Behind(s, set)
<1>1. Len(s) \in Nat
  OBVIOUS
<1>2. PICK k \in 1..(Len(s) + 1) : r = SubSeq(s, k, Len(s)) /\ (k <= Len(s) => s[k] \notin set)
  BY BehindCut
<1>3. /\ r \in Seq(S) /\ Len(r) = Len(s) - k + 1
      /\ \A i \in 1..(Len(s) - k + 1) : r[i] = s[k + i - 1]
  BY <1>2, RestOf
<1> HIDE DEF r
<1>4. 1 <= Len(r) => r[1] \notin set
  BY <1>1, <1>2, <1>3
<1>5. PICK j \in 1..(Len(r) + 1) : /\ Behind(r, set) = SubSeq(r, j, Len(r))
                                   /\ \A i \in 1..(j - 1) : r[i] \in set
  BY <1>3, BehindCut
<1>6. j = 1
  <2> SUFFICES ASSUME j > 1 PROVE FALSE
    BY <1>3, <1>5
  <2> QED
    BY <1>3, <1>4, <1>5
<1> QED
  BY <1>3, <1>5, <1>6, SubSeqFull DEF r


\* The rest of a rest.
LEMMA RestOfRest ==
  ASSUME NEW S, NEW t \in Seq(S), NEW k \in 1..(Len(t) + 1), NEW j \in 1..(Len(t) - k + 2)
  PROVE  SubSeq(SubSeq(t, k, Len(t)), j, Len(SubSeq(t, k, Len(t)))) = SubSeq(t, k + j - 1, Len(t))
<1> DEFINE r == SubSeq(t, k, Len(t))
           a == SubSeq(r, j, Len(r))
           b == SubSeq(t, k + j - 1, Len(t))
<1>1. Len(t) \in Nat
  OBVIOUS
<1>2. r \in Seq(S) /\ Len(r) = Len(t) - k + 1 /\ \A i \in 1..(Len(t) - k + 1) : r[i] = t[k + i - 1]
  BY RestOf
<1> HIDE DEF r
<1>3. j \in 1..(Len(r) + 1) /\ k + j - 1 \in 1..(Len(t) + 1)
  BY <1>1, <1>2
<1>4. a \in Seq(S) /\ Len(a) = Len(r) - j + 1 /\ \A i \in 1..(Len(r) - j + 1) : a[i] = r[j + i - 1]
  BY <1>2, <1>3, RestOf, ZenonT(40)
<1>5. /\ b \in Seq(S) /\ Len(b) = Len(t) - (k + j - 1) + 1
      /\ \A i \in 1..(Len(t) - (k + j - 1) + 1) : b[i] = t[(k + j - 1) + i - 1]
  BY <1>3, RestOf
<1> HIDE DEF a, b
<1>6. Len(a) = Len(b)
  BY <1>1, <1>2, <1>4, <1>5
<1>7. ASSUME NEW i \in 1..Len(a) PROVE a[i] = b[i]
  <2>1. j + i - 1 \in 1..(Len(t) - k + 1) /\ k + (j + i - 1) - 1 = (k + j - 1) + i - 1
    BY <1>1, <1>2, <1>3, <1>4
  <2>2. a[i] = r[j + i - 1] /\ r[j + i - 1] = t[k + (j + i - 1) - 1]
    BY <1>2, <1>4, <2>1
  <2>3. b[i] = t[(k + j - 1) + i - 1]
    BY <1>5, <1>6
  <2> QED
    BY <2>1, <2>2, <2>3
<1>8. a = b
  BY <1>4, <1>5, <1>6, <1>7, SeqEqual
<1> QED
  BY <1>8 DEF a, b, r

\* Nothing typed is 0.
LEMMA NoneIsZero == Decimal(Leading(<< >>)) = 0 /\ \A set : Behind(<< >>, set) = << >>
<1>1. << >> \in Seq(DigitSet) /\ Len(<< >>) = 0 /\ DOMAIN << >> = {}
  OBVIOUS
<1>2. ASSUME NEW set PROVE Behind(<< >>, set) = << >>
  BY <1>1 DEF Behind
<1>3. Leading(<< >>) = << >>
  <2>1. Leading(<< >>) \in Seq(DigitSet) /\ Len(Leading(<< >>)) = 0
    <3>1. Leading(<< >>) = SubSeq(<< >>, 1, 0)
      BY <1>1, <1>2 DEF Leading
    <3>2. \A i \in 1..0 : << >>[i] \in DigitSet
      OBVIOUS
    <3>3. /\ SubSeq(<< >>, 1, 0) \in Seq(DigitSet)
          /\ Len(SubSeq(<< >>, 1, 0)) = IF 1 <= 0 THEN 0 - 1 + 1 ELSE 0
      BY <3>2, SubSeqProperties
    <3> QED
      BY <3>1, <3>3
  <2> QED
    BY <2>1, EmptySeq
<1>4. PICK u \in [0..Len(<< >>) -> Nat] : Counts(u, << >>) /\ u[Len(<< >>)] = Decimal(<< >>)
  BY <1>1, CountSteps
<1>5. u[0] = 0
  BY <1>4 DEF Counts
<1> QED
  BY <1>1, <1>2, <1>3, <1>4, <1>5

\* A number without a sign that is accepted is the one that stands there.
LEMMA NumberTyped ==
  ASSUME NEW S, NEW b, IsStream(b), b.text \in Seq(S), Behind(b.text, Blanks) = b.text,
         b.text # << >> => b.text[1] # "-", Accepts(GetLong(b))
  PROVE  /\ GetLong(b).value % 256 = Decimal(Leading(b.text))
         /\ GetLong(b).ss.text = Behind(b.text, DigitSet)
<1> DEFINE t == b.text
           n == GetLong(b)
<1>1. n.ss.status = "OK" /\ n.value <= 255
  BY DEF Accepts
<1>2. CASE t = << >>
  <2>1. n = [value |-> 0, ss |-> b]
    BY <1>2 DEF GetLong
  <2>2. n.value = 0 /\ n.ss.text = t /\ 0 % 256 = 0
    BY <2>1
  <2> HIDE DEF n
  <2> QED
    BY <1>2, <2>2, NoneIsZero DEF n
<1>3. CASE t # << >>
  <2> DEFINE p == ParseOf(Leading(t))
  <2>1. ~(t # << >> /\ Head(t) = "-")
    BY <1>3
  <2>2. p \in Parsed /\ (~p.over /\ p.result <= Small => p.result = Decimal(Leading(t)))
    BY <2>1, PlainParsed
  <2>4. /\ Strtol(t).value = p.result /\ Strtol(t).rest = Behind(t, DigitSet)
        /\ Strtol(t).inRange => ~p.over
    BY <2>1, PlainParsed
  <2> HIDE DEF p
  <2> DEFINE s == Strtol(t)
  <2>5. n = Taken(b, s)
    BY <1>3 DEF GetLong
  <2> HIDE DEF s, n
  <2>6. s.valid /\ s.inRange /\ n.value = s.value /\ n.ss.text = s.rest
    BY <1>1, <2>5 DEF Taken
  <2>7. ~p.over /\ n.value = p.result /\ n.ss.text = Behind(t, DigitSet)
    BY <2>4, <2>6 DEF s
  <2>8. p.result \in Nat
    BY <2>2, NumberAssumption DEF Parsed
  <2>9. n.value \in 0..255 /\ n.value <= Small
    <3>1. Small \in Nat /\ 115200 <= Small
      BY NumberAssumption, CommandAssumption
    <3>2. n.value = p.result /\ n.value <= 255
      BY <1>1, <2>7
    <3>3. \A v \in Nat : v <= 255 => v \in 0..255 /\ v <= Small
      BY <3>1
    <3> QED
      BY <2>8, <3>2, <3>3
  <2>10. n.value % 256 = n.value
    <3>1. \A v \in 0..255 : v % 256 = v
      OBVIOUS
    <3> QED
      BY <2>9, <3>1
  <2> QED
    BY <2>2, <2>7, <2>9, <2>10 DEF n
<1> QED
  BY <1>2, <1>3


\* A text becomes a stream.
LEMMA StreamIs ==
  ASSUME NEW text
  PROVE  IsStream(Stream(text)) /\ Stream(text).text = text
<1>1. Stream(text) = [text |-> text, status |-> Stream(text).status]
  BY DEF Stream
<1> QED
  BY <1>1 DEF IsStream

\* One character is skipped.
LEMMA SkipsOne ==
  ASSUME NEW ss, IsStream(ss)
  PROVE  /\ Skip(ss, 1).text = SubSeq(ss.text, 2, Len(ss.text))
         /\ Skip(ss, 1) = [text |-> SubSeq(ss.text, 2, Len(ss.text)), status |-> ss.status]
<1>1. 1 + 1 = 2
  OBVIOUS
<1>2. \A t : [ss EXCEPT !.text = t] = [text |-> t, status |-> ss.status]
  BY DEF IsStream
<1>3. Skip(ss, 1) = [ss EXCEPT !.text = SubSeq(ss.text, 1 + 1, Len(ss.text))]
  BY DEF Skip
<1>4. Skip(ss, 1) = [text |-> SubSeq(ss.text, 2, Len(ss.text)), status |-> ss.status]
  BY <1>1, <1>2, <1>3
<1> QED
  BY <1>4

\* Neither a digit nor a blank is the x of 0x.
LEMMA NoX == "x" \notin DigitSet /\ "x" \notin Blanks
  BY DEF DigitSet, Digits, Blanks

\* What stands behind the first x behind a number is what is taken for its payload.
LEMMA PayloadTyped ==
  ASSUME NEW S, NEW rest \in Seq(S), NEW ss, IsStream(ss),
         ss.text = Behind(Behind(rest, DigitSet), Blanks)
  PROVE  LET bytes == Skip(Find(Stream(rest), <<"x">>), 1).text
         IN  \A i \in DOMAIN Payload(ss) :
               /\ 2 * i <= Len(bytes)
               /\ Payload(ss)[i] = 16 * HexValue(bytes[2 * i - 1]) + HexValue(bytes[2 * i])
<1> DEFINE bytes == Skip(Find(Stream(rest), <<"x">>), 1).text
           d == Behind(rest, DigitSet)
           s == ss.text
<1>1. Len(rest) \in Nat
  OBVIOUS
<1>2. PICK k \in 1..(Len(rest) + 1) : /\ d = SubSeq(rest, k, Len(rest))
                                      /\ \A i \in 1..(k - 1) : rest[i] \in DigitSet
  BY BehindCut
<1>3. /\ d \in Seq(S) /\ Len(d) = Len(rest) - k + 1
      /\ \A i \in 1..(Len(rest) - k + 1) : d[i] = rest[k + i - 1]
  BY <1>2, RestOf
<1> HIDE DEF d
<1>4. PICK j \in 1..(Len(d) + 1) : /\ s = SubSeq(d, j, Len(d))
                                   /\ \A i \in 1..(j - 1) : d[i] \in Blanks
  BY <1>3, BehindCut DEF d
<1> DEFINE m == k + j - 1
<1>5. m \in 1..(Len(rest) + 1) /\ s = SubSeq(rest, m, Len(rest))
  <2>1. j \in 1..(Len(rest) - k + 2)
    BY <1>1, <1>3
  <2>2. SubSeq(d, j, Len(d)) = SubSeq(rest, m, Len(rest))
    BY <1>2, <2>1, RestOfRest
  <2>3. m \in 1..(Len(rest) + 1)
    BY <1>1, <2>1
  <2> QED
    BY <1>4, <2>2, <2>3
<1>6. \A i \in 1..(m - 1) : rest[i] # "x"
  <2> TAKE i \in 1..(m - 1)
  <2>1. CASE i \in 1..(k - 1)
    BY <1>2, <2>1, NoX
  <2>2. CASE i \notin 1..(k - 1)
    <3>1. i - k + 1 \in 1..(j - 1) /\ i - k + 1 \in 1..(Len(rest) - k + 1) /\ k + (i - k + 1) - 1 = i
      BY <1>1, <1>3, <2>2
    <3>2. d[i - k + 1] = rest[i] /\ d[i - k + 1] \in Blanks
      BY <1>3, <1>4, <3>1
    <3> QED
      BY <3>2, NoX
  <2> QED
    BY <2>1, <2>2
<1> HIDE DEF m
<1>7. CASE StartsWith(ss, <<"0", "x">>)
  <2>1. /\ s \in Seq(S) /\ Len(s) = Len(rest) - m + 1
        /\ \A i \in 1..(Len(rest) - m + 1) : s[i] = rest[m + i - 1]
    BY <1>5, RestOf
  <2>2. Len(s) >= 2 /\ s[1] = "0" /\ s[2] = "x"
    <3>1. IsPrefix(<<"0", "x">>, s)
      BY <1>7 DEF StartsWith
    <3> HIDE DEF s
    <3> QED
      BY <2>1, <3>1, TwoFirst
  <2>3. m + 1 \in 1..Len(rest) /\ rest[m] = "0" /\ rest[m + 1] = "x"
    <3>1. 1 \in 1..(Len(rest) - m + 1) /\ 2 \in 1..(Len(rest) - m + 1) /\ m + 1 - 1 = m /\ m + 2 - 1 = m + 1
      BY <1>1, <1>5, <2>1, <2>2
    <3>2. m + 1 \in 1..Len(rest)
      BY <1>1, <1>5, <2>1, <2>2
    <3> HIDE DEF s
    <3> QED
      BY <2>1, <2>2, <3>1, <3>2
  <2>4. \A i \in 1..((m + 1) - 1) : rest[i] # "x"
    <3> TAKE i \in 1..((m + 1) - 1)
    <3>1. i \in 1..(m - 1) \/ i = m
      BY <1>1, <1>5
    <3>2. "0" # "x"
      OBVIOUS
    <3> QED
      BY <1>6, <2>3, <3>1, <3>2
  <2>5. Find(Stream(rest), <<"x">>) = [Stream(rest) EXCEPT !.text = SubSeq(rest, m + 1, Len(rest))]
    BY <2>3, <2>4, FindsFirst
  <2>6. bytes = SubSeq(rest, m + 2, Len(rest))
    <3> DEFINE r == SubSeq(rest, m + 1, Len(rest))
    <3>1. bytes = SubSeq(r, 2, Len(r))
      <4>1. IsStream(Find(Stream(rest), <<"x">>))
        BY FindLeaves
      <4>2. Find(Stream(rest), <<"x">>).text = r
        BY <2>5 DEF Stream
      <4> QED
        BY <4>1, <4>2, SkipsOne
    <3>2. m + 1 \in 1..(Len(rest) + 1) /\ 2 \in 1..(Len(rest) - (m + 1) + 2) /\ (m + 1) + 2 - 1 = m + 2
      BY <1>1, <1>5, <2>3
    <3>3. SubSeq(r, 2, Len(r)) = SubSeq(rest, (m + 1) + 2 - 1, Len(rest))
      BY <3>2, RestOfRest
    <3> HIDE DEF r, bytes
    <3> QED
      BY <3>1, <3>2, <3>3
  <2>7. Skip(ss, 2).text = SubSeq(rest, m + 2, Len(rest))
    <3>1. Skip(ss, 2).text = SubSeq(s, 3, Len(s))
      BY DEF Skip, IsStream
    <3>2. 3 \in 1..(Len(rest) - m + 2) /\ m + 3 - 1 = m + 2
      BY <1>1, <1>5, <2>3
    <3>3. SubSeq(SubSeq(rest, m, Len(rest)), 3, Len(SubSeq(rest, m, Len(rest)))) = SubSeq(rest, m + 3 - 1, Len(rest))
      BY <1>5, <3>2, RestOfRest
    <3> QED
      BY <1>5, <3>1, <3>2, <3>3
  <2>8. Payload(ss) = HexBytes(bytes)
    BY <1>7, <2>6, <2>7 DEF Payload
  <2>9. bytes \in Seq(S)
    <3>1. m + 2 \in 1..(Len(rest) + 1)
      BY <1>1, <1>5, <2>3
    <3> HIDE DEF bytes
    <3> QED
      BY <2>6, <3>1, RestOf
  <2> HIDE DEF bytes
  <2>10. \A i \in DOMAIN HexBytes(bytes) :
           /\ 2 * i <= Len(bytes)
           /\ HexBytes(bytes)[i] = 16 * HexValue(bytes[2 * i - 1]) + HexValue(bytes[2 * i])
    BY <2>9, BytesFit
  <2> QED
    BY <2>8, <2>10 DEF bytes
<1>8. CASE ~StartsWith(ss, <<"0", "x">>)
  <2>1. Payload(ss) = << >>
    BY <1>8 DEF Payload
  <2> QED
    BY <2>1
<1> QED
  BY <1>7, <1>8

\* What goes out is what was typed.
Faithful(text, id, arg) ==
  LET rest   == SkipWhitespace(Skip(Stream(text), 1)).text
      bytes  == Skip(Find(Stream(rest), <<"x">>), 1).text
  IN  /\ id = Decimal(Leading(rest))
      /\ \A i \in DOMAIN arg :
           /\ 2 * i <= Len(bytes)
           /\ arg[i] = 16 * HexValue(bytes[2 * i - 1]) + HexValue(bytes[2 * i])

\* The character behind a command.
Space == " "

\* A query begins with a command and that character, which is then looked for.
LEMMA SpaceBehind ==
  /\ \A ss : IsQuery(ss) => \E cmd \in {"rp", "read"} : cmd # Space /\ StartsWith(ss, <<cmd, Space>>)
  /\ \A text : QueryText(text) = GetLong(SkipWhitespace(Find(Stream(text), <<Space>>)))
<1>1. \A cmd \in {"rp", "read"} : cmd # Space
  BY Zenon DEF Space
<1> QED
  BY <1>1, Zenon DEF IsQuery, QueryText, Space

\* What stands behind a command.
LEMMA BehindCommand ==
  ASSUME NEW S, NEW text \in Seq(S), NEW cmd, NEW blank, cmd # blank,
         IsPrefix(<<cmd, blank>>, text)
  PROVE  LET rest == Behind(SubSeq(text, 2, Len(text)), Blanks)
         IN  /\ SkipWhitespace(Skip(Stream(text), 1)).text = rest
             /\ SkipWhitespace(Find(Stream(text), <<blank>>)) = [text |-> rest, status |-> Stream(text).status]
             /\ rest \in Seq(S) /\ Behind(rest, Blanks) = rest
             /\ rest # << >> => \E i \in 1..Len(text) : rest[1] = text[i]
<1> DEFINE a == SubSeq(text, 2, Len(text))
           rest == Behind(a, Blanks)
           f == Find(Stream(text), <<blank>>)
           how == Stream(text).status
<1>1. Len(text) \in Nat /\ Len(text) >= 2 /\ text[1] = cmd /\ text[2] = blank
  BY TwoFirst
<1>2. f = [Stream(text) EXCEPT !.text = a]
  <2>1. 2 \in 1..Len(text)
    BY <1>1
  <2>2. ASSUME NEW i \in 1..(2 - 1) PROVE text[i] # blank
    <3>1. i = 1
      OBVIOUS
    <3> QED
      BY <1>1, <3>1
  <2> QED
    BY <1>1, <2>1, <2>2, FindsFirst
<1>3. /\ a \in Seq(S) /\ Len(a) = Len(text) - 2 + 1
      /\ \A i \in 1..(Len(text) - 2 + 1) : a[i] = text[2 + i - 1]
  <2>1. 2 \in 1..(Len(text) + 1)
    BY <1>1
  <2> QED
    BY <2>1, RestOf
<1>4. Stream(text) = [text |-> text, status |-> how]
  BY DEF Stream
<1> HIDE DEF how
<1>5. IsStream(Stream(text)) /\ Stream(text).text = text
  BY StreamIs
<1> HIDE DEF a, f
<1>6. f = [text |-> a, status |-> how]
  <2>1. \A t : [Stream(text) EXCEPT !.text = t] = [text |-> t, status |-> how]
    BY <1>4
  <2> QED
    BY <1>2, <2>1
<1>7. rest \in Seq(S) /\ Behind(rest, Blanks) = rest
  BY <1>3, BehindSplits, BlanksGone
<1>8. SkipWhitespace(f) = [text |-> rest, status |-> how]
  BY <1>6 DEF SkipWhitespace
<1>a. SkipWhitespace(Skip(Stream(text), 1)).text = rest
  <2>1. Skip(Stream(text), 1) = [text |-> a, status |-> Stream(text).status]
    BY <1>5, SkipsOne DEF a
  <2> QED
    BY <2>1 DEF SkipWhitespace
<1>9. ASSUME rest # << >> PROVE \E i \in 1..Len(text) : rest[1] = text[i]
  <2>1. PICK k \in 1..(Len(a) + 1) : rest = SubSeq(a, k, Len(a))
    BY <1>3, BehindCut
  <2>2. Len(rest) = Len(a) - k + 1 /\ \A i \in 1..(Len(a) - k + 1) : rest[i] = a[k + i - 1]
    BY <1>3, <2>1, RestOf, SMTT(30)
  <2> HIDE DEF rest
  <2>3. Len(rest) \in Nat /\ Len(rest) # 0
    BY <1>7, <1>9, EmptySeq
  <2>4. k \in 1..(Len(text) - 2 + 1) /\ 1 \in 1..(Len(a) - k + 1) /\ k + 1 - 1 = k
    BY <1>1, <1>3, <2>2, <2>3
  <2>5. rest[1] = a[k] /\ a[k] = text[2 + k - 1] /\ 2 + k - 1 \in 1..Len(text)
    BY <1>1, <1>3, <2>2, <2>4
  <2> QED
    BY <2>5
<1> QED
  BY <1>7, <1>8, <1>9, <1>a DEF a, f, how

\* A line that is taken for a query, without a minus sign in it.
LEMMA QueryStands ==
  ASSUME NEW S, NEW text \in Seq(S), IsQuery(Stream(text)), ~Contains(text, "-"),
         Accepts(QueryText(text))
  PROVE  Faithful(text, QueryText(text).value % 256, Payload(SkipWhitespace(QueryText(text).ss)))
<1> DEFINE rest == Behind(SubSeq(text, 2, Len(text)), Blanks)
           b == SkipWhitespace(Find(Stream(text), <<Space>>))
           n == QueryText(text)
<1>1. PICK cmd \in {"rp", "read"} : cmd # Space /\ StartsWith(Stream(text), <<cmd, Space>>)
  BY SpaceBehind
<1>2. IsPrefix(<<cmd, Space>>, text)
  BY <1>1 DEF StartsWith, Stream
<1>3. /\ SkipWhitespace(Skip(Stream(text), 1)).text = rest
      /\ b = [text |-> rest, status |-> Stream(text).status]
      /\ rest \in Seq(S) /\ Behind(rest, Blanks) = rest
      /\ rest # << >> => \E i \in 1..Len(text) : rest[1] = text[i]
  BY <1>1, <1>2, BehindCommand
<1>4. n = GetLong(b)
  BY SpaceBehind
<1> HIDE DEF rest, b, n
<1>5. rest # << >> => rest[1] # "-"
  BY <1>3 DEF Contains
<1>6. IsStream(b) /\ b.text = rest
  BY <1>3 DEF IsStream
<1>7. n.value % 256 = Decimal(Leading(rest)) /\ n.ss.text = Behind(rest, DigitSet) /\ IsStream(n.ss)
  <2>1. Accepts(GetLong(b))
    BY <1>4 DEF n
  <2> QED
    BY <1>3, <1>4, <1>5, <1>6, <2>1, NumberTyped, LongTyped
<1> DEFINE ss == SkipWhitespace(n.ss)
           bytes == Skip(Find(Stream(rest), <<"x">>), 1).text
<1>8. IsStream(ss) /\ ss.text = Behind(Behind(rest, DigitSet), Blanks)
  <2>1. ss = [text |-> Behind(n.ss.text, Blanks), status |-> n.ss.status]
    BY <1>7 DEF SkipWhitespace, IsStream
  <2> HIDE DEF ss
  <2> QED
    BY <1>7, <2>1 DEF IsStream
<1> HIDE DEF ss
<1>9. \A i \in DOMAIN Payload(ss) :
        /\ 2 * i <= Len(bytes)
        /\ Payload(ss)[i] = 16 * HexValue(bytes[2 * i - 1]) + HexValue(bytes[2 * i])
  BY <1>3, <1>8, PayloadTyped
<1>10. Faithful(text, n.value % 256, Payload(ss))
  BY <1>3, <1>7, <1>9 DEF Faithful
<1> QED
  BY <1>10 DEF n, ss

\* The query that goes out is the one that was typed, unless there is a minus sign in
\* it: its parameter is the number behind the command and its payload the bytes
\* behind 0x, for every text, every length of the line and every order of the keys
\* (gcf.c 1866-2060, u_sstream.c 607-665).
THEOREM QueriesAreTyped == Spec => []CommandIsTyped
<1>1. Init => CommandIsTyped
  BY DEF Init, LineInit, CommandIsTyped, NoQuery
<1>2. LineOK /\ CommandIsTyped /\ [Next]_consoleVars => CommandIsTyped'
  <2> SUFFICES ASSUME LineOK, CommandIsTyped, [Next]_consoleVars PROVE CommandIsTyped'
    OBVIOUS
  <2>1. CASE GCF_ProcessInput
    <3>1. Text \in Seq(Letters)
      <4>1. Text = TextOf(line, size)
        BY DEF Text, TextOf
      <4>2. pos \in 0..size /\ size \in 0..MaxLine /\ line \in [Cells -> Letters]
        BY DEF LineOK
      <4> QED
        BY <4>1, <4>2, Halves
    <3> DEFINE n == QueryText(Text)
               sent == query'.sent
               text == query'.text
    <3>2. /\ text = Text
          /\ sent => /\ IsQuery(Stream(Text)) /\ Accepts(n)
                     /\ query'.id = n.value % 256
                     /\ query'.arg = Payload(SkipWhitespace(n.ss))
      BY <2>1 DEF GCF_ProcessInput
    <3>3. sent /\ ~Contains(text, "-") => Faithful(text, query'.id, query'.arg)
      BY <3>1, <3>2, QueryStands
    <3> HIDE DEF n
    <3> QED
      BY <3>3 DEF CommandIsTyped, Faithful
  <2>2. CASE query' = query
    BY <2>2 DEF CommandIsTyped
  <2>3. GCF_ProcessInput \/ query' = query
    <3>1. CASE Press
      BY <3>1 DEF Press, Key
    <3>2. CASE Try \/ Toggle \/ UNCHANGED consoleVars
      BY <3>2 DEF Try, Toggle, consoleVars, lineVars
    <3> QED
      BY <3>1, <3>2 DEF Next
  <2> QED
    BY <2>1, <2>2, <2>3
<1> QED
  BY <1>1, <1>2, LineInvariant, PTL DEF Spec


-----------------------------------------------------------------------------
(* The fields keep their ranges.                                           *)

\* One row or none.
OneRow(R) == {s \in Seq(R) : Len(s) <= 1}

\* A list that is filled as long as there is room fits its array.
LEMMA ListedFits ==
  ASSUME NEW R, NEW rows \in Seq(OneRow(R))
  PROVE  Listed(rows) \in Seq(R) /\ Len(Listed(rows)) <= MaxDevices
<1> DEFINE N == Len(rows)
           X == {l \in Seq(R) : Len(l) <= MaxDevices}
           op(l, row) == IF Len(l) < MaxDevices THEN l \o row ELSE l
           Is(f) == f = [q \in SUBSET (1..N) |->
                           IF q = {} THEN << >> ELSE op(f[q \ {Max(q)}], rows[Max(q)])]
           iter == CHOOSE f : Is(f)
           next == [z \in X \X (1..N) |-> op(z[1], rows[z[2]])]
<1>1. N \in Nat /\ DOMAIN rows = 1..N /\ \A i \in 1..N : rows[i] \in OneRow(R)
  OBVIOUS
<1>2. Listed(rows) = iter[1..N]
  BY <1>1 DEF Listed, FoldLeft, MapThenFoldSet
<1> HIDE DEF N
<1>3. << >> \in X /\ \A x \in X, i \in 1..N : op(x, rows[i]) \in X
  <2>1. MaxDevices \in Nat
    BY CommandAssumption
  <2>2. << >> \in X
    BY <2>1
  <2>3. ASSUME NEW x \in X, NEW row \in OneRow(R) PROVE op(x, row) \in X
    <3>1. x \in Seq(R) /\ row \in Seq(R) /\ Len(x) \in Nat /\ Len(row) \in Nat /\ Len(row) <= 1
      BY DEF OneRow
    <3>2. x \o row \in Seq(R) /\ Len(x \o row) = Len(x) + Len(row)
      BY <3>1
    <3> QED
      BY <2>1, <3>1, <3>2
  <2> HIDE DEF X, op
  <2> QED
    BY <1>1, <2>2, <2>3
<1> HIDE DEF X, op
<1>4. next \in [X \X (1..N) -> X] /\ \A x \in X, i \in 1..N : next[<<x, i>>] = op(x, rows[i])
  BY <1>1, <1>3
<1> HIDE DEF next
<1>5. \A q \in SUBSET (1..N) : q # {} => Max(q) \in 1..N
  BY <1>1, MaxIn
<1>6. PICK f \in [SUBSET (1..N) -> X] : IsFold(f, N, << >>, next)
  BY <1>1, <1>3, <1>4, FoldExists
<1>7. Is(f)
  BY <1>4, <1>5, <1>6 DEF IsFold
<1>8. Is(iter)
  <2> HIDE DEF Is
  <2> QED
    BY <1>7
<1> HIDE DEF iter
<1>9. FoldsIn(X, iter, N, << >>, next)
  BY <1>4, <1>5, <1>8 DEF FoldsIn
<1> HIDE DEF Is
<1>10. PICK u \in [0..N -> X] : u[N] = iter[1..N]
  BY <1>1, <1>3, <1>9, FoldSteps
<1>11. iter[1..N] \in X
  <2>1. N \in 0..N
    BY <1>1
  <2> QED
    BY <1>10, <2>1
<1> QED
  BY <1>2, <1>11 DEF X

\* The rates a device may have.
Rates == {0, 38400, 115200}

\* A list that fits, of devices with such rates.
IsList(rows) ==
  /\ DOMAIN rows \subseteq Nat /\ Len(rows) <= MaxDevices
  /\ \A i \in DOMAIN rows : rows[i].baudrate \in Rates

\* So does one that is made of the rows of some devices.
LEMMA RowsFit ==
  ASSUME NEW N \in Nat, NEW rows, rows = [i \in 1..N |-> rows[i]],
         \A i \in 1..N : rows[i] = << >> \/ \E r : rows[i] = <<r>> /\ r.baudrate \in Rates
  PROVE  IsList(Listed(rows))
<1> DEFINE R == {rows[i][1] : i \in {j \in 1..N : rows[j] # << >>}}
           l == Listed(rows)
<1>1. \A r \in R : r.baudrate \in Rates
  <2> TAKE r \in R
  <2>1. PICK i \in 1..N : rows[i] # << >> /\ r = rows[i][1]
    OBVIOUS
  <2>2. PICK q : rows[i] = <<q>> /\ q.baudrate \in Rates
    BY <2>1
  <2>3. r = q
    BY <2>1, <2>2
  <2> QED
    BY <2>2, <2>3
<1>2. \A i \in 1..N : rows[i] \in OneRow(R)
  <2> TAKE i \in 1..N
  <2>1. CASE rows[i] = << >>
    BY <2>1 DEF OneRow
  <2>2. CASE rows[i] # << >>
    <3>1. PICK q : rows[i] = <<q>>
      BY <2>2
    <3>2. rows[i][1] \in R /\ rows[i][1] = q
      BY <2>2, <3>1
    <3> HIDE DEF R
    <3>3. \A x \in R : <<x>> \in Seq(R) /\ Len(<<x>>) <= 1
      OBVIOUS
    <3>4. rows[i] \in Seq(R) /\ Len(rows[i]) <= 1
      BY <3>1, <3>2, <3>3
    <3> QED
      BY <3>4 DEF OneRow
  <2> QED
    BY <2>1, <2>2
<1> HIDE DEF R
<1>3. rows \in Seq(OneRow(R))
  BY <1>2
<1>4. l \in Seq(R) /\ Len(l) <= MaxDevices
  BY <1>3, ListedFits
<1> HIDE DEF l
<1>5. DOMAIN l \subseteq Nat /\ \A i \in DOMAIN l : l[i] \in R
  BY <1>4
<1> QED
  BY <1>1, <1>4, <1>5 DEF IsList, l

\* Whatever finds the devices.
LEMMA DevicesFit ==
  ASSUME NEW m, IsSequence(m.devs)
  PROVE  IsList(PL_GetDevices(m))
<1> DEFINE N == Len(m.devs)
<1>0. N \in Nat /\ DOMAIN m.devs = 1..N
  BY DEF IsSequence
<1> HIDE DEF N
<1>e. IsList(<< >>)
  BY CommandAssumption DEF IsList
<1>1. IsList(UdevDevices(m))
  <2> DEFINE rows == [i \in 1..N |-> IF IsUdevDevice(m.devs[i]) THEN <<UdevRow(m.devs[i])>> ELSE << >>]
  <2>1. \A d : UdevRow(d).baudrate \in Rates
    BY DEF UdevRow, Row, UdevBaudrate, Rates
  <2>2. \A i \in 1..N : rows[i] = << >> \/ \E r : rows[i] = <<r>> /\ r.baudrate \in Rates
    BY <2>1
  <2>3. rows = [i \in 1..N |-> rows[i]]
    OBVIOUS
  <2>4. UdevDevices(m) \in {<< >>, Listed(rows)}
    BY <1>0 DEF UdevDevices
  <2> HIDE DEF rows
  <2>5. IsList(Listed(rows))
    BY <1>0, <2>2, <2>3, RowsFit
  <2> QED
    BY <1>e, <2>4, <2>5
<1>2. IsList(ByIdDevices(m))
  <2> DEFINE rows == [i \in 1..N |-> IF IsByIdDevice(m.devs[i]) THEN <<ByIdRow(m.devs[i])>> ELSE << >>]
  <2>1. \A d : IsByIdDevice(d) => ByIdRow(d).baudrate \in Rates
    <3> TAKE d
    <3> SUFFICES ASSUME IsByIdDevice(d) PROVE ByIdRow(d).baudrate \in Rates
      OBVIOUS
    <3> DEFINE k == CHOOSE i \in Matches(d) : \A j \in Matches(d) : i <= j
    <3>1. Matches(d) # {} /\ Matches(d) \in SUBSET (1..4)
      <4>1. DOMAIN ByIdNames = 1..4
        BY DEF ByIdNames
      <4> QED
        BY <4>1 DEF IsByIdDevice, Matches
    <3>2. k \in 1..4
      <4>1. Matches(d) \in SUBSET Nat
        BY <3>1
      <4>2. \E i \in Matches(d) : \A j \in Matches(d) : i <= j
        BY <3>1, <4>1, LeastNumber
      <4>3. k \in Matches(d)
        BY <4>2
      <4> HIDE DEF k
      <4> QED
        BY <3>1, <4>3
    <3> HIDE DEF k
    <3>3. \A i \in 1..4 : ByIdNames[i].baudrate \in Rates
      <4>1. \A x, y, b : ByIdName(x, y, b).baudrate = b
        BY DEF ByIdName
      <4>2. \A i \in 1..4 : \E x, y : \E b \in {38400, 115200} : ByIdNames[i] = ByIdName(x, y, b)
        <5>1. \E x, y : ByIdNames[1] = ByIdName(x, y, 115200)
          BY DEF ByIdNames
        <5>2. \E x, y : ByIdNames[2] = ByIdName(x, y, 115200)
          BY DEF ByIdNames
        <5>3. \E x, y : ByIdNames[3] = ByIdName(x, y, 38400)
          BY DEF ByIdNames
        <5>4. \E x, y : ByIdNames[4] = ByIdName(x, y, 115200)
          <6> DEFINE part == <<"Espressif", "_">> \o Espressif
                     name == <<"Espressif">>
          <6>1. ByIdNames[4] = ByIdName(part, name, 115200)
            BY DEF ByIdNames
          <6> HIDE DEF part, name
          <6> QED
            BY <6>1
        <5>5. \A i \in 1..4 : i = 1 \/ i = 2 \/ i = 3 \/ i = 4
          OBVIOUS
        <5> QED
          BY <5>1, <5>2, <5>3, <5>4, <5>5
      <4> QED
        BY <4>1, <4>2 DEF Rates
    <3>4. ByIdRow(d).baudrate = ByIdNames[k].baudrate
      BY DEF ByIdRow, Row, FirstMatch, k
    <3> QED
      BY <3>2, <3>3, <3>4
  <2>2. \A i \in 1..N : rows[i] = << >> \/ \E r : rows[i] = <<r>> /\ r.baudrate \in Rates
    BY <2>1
  <2>3. rows = [i \in 1..N |-> rows[i]]
    OBVIOUS
  <2>4. ByIdDevices(m) = Listed(rows)
    BY <1>0 DEF ByIdDevices
  <2> HIDE DEF rows
  <2>5. IsList(Listed(rows))
    BY <1>0, <2>2, <2>3, RowsFit
  <2> QED
    BY <2>4, <2>5
<1>3. IsList(SerialDevices(m))
  <2> DEFINE r == Row(m.serial0, <<"/dev", "/serial", "0">>, << >>, <<"RaspBee">>, 38400)
  <2>1. SerialDevices(m) \in {<< >>, <<r>>}
    BY DEF SerialDevices
  <2>2. r.baudrate \in Rates
    BY DEF Row, Rates
  <2> HIDE DEF r
  <2>3. IsList(<<r>>)
    BY <2>2, CommandAssumption DEF IsList
  <2> QED
    BY <1>e, <2>1, <2>3
<1>4. PL_GetDevices(m) \in {UdevDevices(m), ByIdDevices(m), SerialDevices(m)}
  BY DEF PL_GetDevices, UsbDevices, Else
<1> QED
  BY <1>1, <1>2, <1>3, <1>4

\* The fields whose range is kept while the arguments are read.
Limited == Names \ {"want", "stop"}

States == {"ST_Init", "ST_Void", "ST_ListDevices", "ST_Program", "ST_Connect",
           "ST_SniffConnect", "ST_DumpFlashConnect", "ST_Reset"}
Types  == {"DEV_UNKNOWN", "DEV_CONBEE_1", "DEV_CONBEE_2", "DEV_RASPBEE_1",
           "DEV_RASPBEE_2", "DEV_HIVE"}

\* What -t takes, but for the retry time that is not set, and what -s takes.
Times    == -1..3600
Channels == {0} \cup 11..26

\* The ranges, one by one.
LEMMA RangesAre ==
  /\ DOMAIN Fields = {"state", "task", "uiInteractive", "uiDebugLevel", "sniffChannel",
                      "devBaudrate", "devType", "maxTime", "running", "ret", "want", "stop"}
  /\ Fields["state"] = States /\ Fields["task"] = TaskNames
  /\ Fields["uiInteractive"] = BOOLEAN /\ Fields["uiDebugLevel"] = 0..3
  /\ Fields["sniffChannel"] = Channels /\ Fields["devBaudrate"] = Rates
  /\ Fields["devType"] = Types /\ Fields["maxTime"] = Times
  /\ Fields["running"] = BOOLEAN /\ Fields["ret"] = {"SUCCESS", "FAILED"}
  /\ Fields["want"] = {"none"} /\ Fields["stop"] = {FALSE}
  BY DEF Fields, States, TaskNames, Rates, Types, Times, Channels

\* What a field may hold.
May(f, v) ==
  \/ f = "state" /\ v \in States
  \/ f = "task" /\ v \in TaskNames
  \/ f = "uiInteractive" /\ v \in BOOLEAN
  \/ f = "uiDebugLevel" /\ v \in 0..3
  \/ f = "sniffChannel" /\ v \in Channels
  \/ f = "devBaudrate" /\ v \in Rates
  \/ f = "devType" /\ v \in Types
  \/ f = "maxTime" /\ v \in Times
  \/ f = "running" /\ v \in BOOLEAN
  \/ f = "ret" /\ v \in {"SUCCESS", "FAILED"}
  \/ f \in {"devpath", "fname"} /\ Len(v) <= PathCap
  \/ f = "devices" /\ IsList(v)
  \/ f \in {"sniffHost", "devSerialNum", "file"}

Ranged(g) == IsGcf(g) /\ \A f \in Limited : May(f, g[f])

\* Fields that are set to what they may hold.
LEMMA RangedChanges ==
  ASSUME NEW g, NEW r, NEW F, Ranged(g), Changes(g, r, F),
         \A f \in F \cap Limited : May(f, r[f])
  PROVE  Ranged(r)
<1> SUFFICES ASSUME NEW f \in Limited PROVE May(f, r[f])
  BY DEF Ranged, Changes
<1>1. CASE f \in F
  BY <1>1
<1>2. CASE f \notin F
  BY <1>2 DEF Ranged, Changes, Limited
<1> QED
  BY <1>1, <1>2

\* One field that is set.
LEMMA RangedOne ==
  ASSUME NEW g, Ranged(g), NEW h \in Names, NEW v, h \in Limited => May(h, v)
  PROVE  Ranged([g EXCEPT ![h] = v])
<1> DEFINE r == [g EXCEPT ![h] = v]
<1>1. IsGcf(g)
  BY DEF Ranged
<1>2. Changes(g, r, {h}) /\ r[h] = v
  BY <1>1, OneField
<1> HIDE DEF r
<1>3. Ranged(r)
  BY <1>2, RangedChanges
<1> QED
  BY <1>3 DEF r

\* Two that are set.
LEMMA RangedTwo ==
  ASSUME NEW g, Ranged(g), NEW h \in Names, NEW k \in Names, h # k, NEW v, NEW w,
         h \in Limited => May(h, v), k \in Limited => May(k, w)
  PROVE  Ranged([g EXCEPT ![h] = v, ![k] = w])
<1> DEFINE r == [g EXCEPT ![h] = v, ![k] = w]
<1>1. g = [f \in Names |-> g[f]]
  BY DEF Ranged, IsGcf
<1>2. Changes(g, r, {h, k}) /\ r[h] = v /\ r[k] = w
  BY <1>1 DEF Changes, IsGcf
<1> HIDE DEF r
<1>3. Ranged(r)
  BY <1>2, RangedChanges
<1> QED
  BY <1>3 DEF r

\* What a refusal or a success sets.
LEMMA RangedEnds ==
  ASSUME NEW g, Ranged(g)
  PROVE  Ranged(Fail(g)) /\ Ranged(Succeed(g))
<1>1. Ranged([g EXCEPT !.ret = "FAILED", !.stop = TRUE])
  <2>1. /\ "ret" \in Names /\ "stop" \in Names /\ "stop" \notin Limited
        /\ May("ret", "FAILED")
    BY FieldNames DEF Named18, Limited, May
  <2> QED
    BY <2>1, RangedTwo
<1>2. Ranged([g EXCEPT !.ret = "SUCCESS"])
  <2>1. "ret" \in Names /\ May("ret", "SUCCESS")
    BY FieldNames DEF Named18, May
  <2> QED
    BY <2>1, RangedOne
<1> QED
  BY <1>1, <1>2 DEF Fail, Succeed

\* An option.
LEMMA RangedOption ==
  ASSUME NEW g, Ranged(g), NEW arg
  PROVE  Ranged(Option(g, arg))
<1>0. Named18
  BY FieldNames
<1> DEFINE o == IF Len(arg) > 1 THEN arg[2] ELSE "none"
           Leads(r) == Option(g, arg) = r
<1>1. \/ Leads([g EXCEPT !.task = "T_RESET"])
      \/ Leads([g EXCEPT !.task = "T_CONNECT"])
      \/ Leads([g EXCEPT !.task = "T_DUMP_FLASH"])
      \/ Leads([g EXCEPT !.uiInteractive = TRUE])
      \/ Leads(Succeed([g EXCEPT !.task = "T_LIST", !.state = "ST_ListDevices"]))
      \/ Leads(Succeed([g EXCEPT !.task = "T_HELP"]))
      \/ Leads([g EXCEPT !.task = "T_PROGRAM", !.want = o])
      \/ Leads([g EXCEPT !.want = o])
      \/ Leads(Fail(g))
  BY DEF Option
<1> HIDE DEF Leads, o
<1>2. \A t \in TaskNames : Ranged([g EXCEPT !.task = t])
  <2>1. \A t \in TaskNames : May("task", t)
    BY DEF May
  <2> QED
    BY <1>0, <2>1, RangedOne DEF Named18
<1>3. {"T_RESET", "T_CONNECT", "T_DUMP_FLASH", "T_HELP"} \subseteq TaskNames
  BY DEF TaskNames
<1>4. Ranged([g EXCEPT !.uiInteractive = TRUE])
  <2>1. May("uiInteractive", TRUE)
    BY DEF May
  <2> QED
    BY <1>0, <2>1, RangedOne DEF Named18
<1>5. Ranged([g EXCEPT !.task = "T_LIST", !.state = "ST_ListDevices"])
  <2>1. May("task", "T_LIST") /\ May("state", "ST_ListDevices")
    BY DEF May, TaskNames, States
  <2> QED
    BY <1>0, <2>1, RangedTwo DEF Named18
<1>6. Ranged([g EXCEPT !.task = "T_PROGRAM", !.want = o])
  <2>1. May("task", "T_PROGRAM") /\ "want" \notin Limited
    BY DEF May, TaskNames, Limited
  <2> QED
    BY <1>0, <2>1, RangedTwo DEF Named18
<1>7. Ranged([g EXCEPT !.want = o])
  <2>1. "want" \notin Limited
    BY DEF Limited
  <2> QED
    BY <1>0, <2>1, RangedOne DEF Named18
<1> QED
  BY <1>1, <1>2, <1>3, <1>4, <1>5, <1>6, <1>7, RangedEnds DEF Leads

\* A number in the range of an option may stand in its field.
LEMMA NumbersMay ==
  ASSUME NEW n
  PROVE  /\ InRange(n, 38400, 38400) \/ InRange(n, 115200, 115200) => May("devBaudrate", n.value)
         /\ InRange(n, 0, 3600) => May("maxTime", n.value)
         /\ InRange(n, 11, 26) => May("sniffChannel", n.value)
         /\ InRange(n, 0, 3) => May("uiDebugLevel", n.value)
<1> DEFINE v == n.value
<1>0. \A lo, hi : InRange(n, lo, hi) => v \in lo..hi
  BY Zenon DEF InRange
<1>1. v \in 38400..38400 \/ v \in 115200..115200 => v \in Rates
  BY DEF Rates
<1>2. v \in 0..3600 => v \in Times
  BY DEF Times
<1> HIDE DEF v
<1>3. v \in Rates => May("devBaudrate", v)
  BY DEF May
<1>4. v \in Times => May("maxTime", v)
  BY DEF May
<1>5. v \in 11..26 => May("sniffChannel", v)
  BY DEF May, Channels
<1>6. v \in 0..3 => May("uiDebugLevel", v)
  BY DEF May
<1>7. /\ InRange(n, 38400, 38400) \/ InRange(n, 115200, 115200) => May("devBaudrate", v)
      /\ InRange(n, 0, 3600) => May("maxTime", v)
  BY <1>0, <1>1, <1>2, <1>3, <1>4, SMTT(30)
<1>8. /\ InRange(n, 11, 26) => May("sniffChannel", v)
      /\ InRange(n, 0, 3) => May("uiDebugLevel", v)
  BY <1>0, <1>5, <1>6
<1> QED
  BY <1>7, <1>8 DEF v

\* A path that is not too long fits its buffer.
LEMMA PathFits ==
  ASSUME NEW arg, IsSequence(arg), ~(Len(arg) > PathCap)
  PROVE  Len(arg) <= PathCap
<1>1. Len(arg) \in Nat /\ PathCap \in Nat
  BY CommandAssumption DEF IsSequence
<1> QED
  BY <1>1

\* The file of an option.
LEMMA RangedFile ==
  ASSUME NEW g, Ranged(g), NEW arg, IsSequence(arg), NEW m
  PROVE  Ranged(FileArgument(g, arg, m))
<1>0. Named18
  BY FieldNames
<1> DEFINE y == [g EXCEPT !.fname = arg]
           file == GCF_ParseFile(m.files[arg])
           z == [g EXCEPT !.fname = arg, !.file = file]
<1>1. \/ FileArgument(g, arg, m) = Fail(g)
      \/ ~(Len(arg) > PathCap) /\ FileArgument(g, arg, m) \in {Fail(y), z, Fail(z)}
  BY DEF FileArgument, Checked
<1> HIDE DEF file
<1>2. ASSUME ~(Len(arg) > PathCap) PROVE Ranged(y) /\ Ranged(z)
  <2>1. May("fname", arg) /\ May("file", file)
    <3>1. Len(arg) <= PathCap
      BY <1>2, PathFits
    <3> QED
      BY <3>1 DEF May
  <2>2. Ranged(y)
    BY <1>0, <2>1, RangedOne DEF Named18
  <2>3. Ranged(z)
    BY <1>0, <2>1, RangedTwo DEF Named18
  <2> QED
    BY <2>2, <2>3
<1> HIDE DEF y, z
<1> QED
  BY <1>1, <1>2, RangedEnds

\* An argument of an option.
LEMMA RangedArgument ==
  ASSUME NEW g, Ranged(g), NEW arg, IsSequence(arg), NEW m
  PROVE  Ranged(Argument(g, arg, m))
<1>0. Named18
  BY FieldNames
<1> DEFINE x == [g EXCEPT !.want = "none"]
           n == Number(arg)
           w == g.want
           r == Argument(g, arg, m)
<1>1. r = ArgumentOf(w, x, arg, n, m)
  BY DEF Argument
<1>2. Ranged(x)
  <2>1. "want" \notin Limited
    BY DEF Limited
  <2> QED
    BY <1>0, <2>1, RangedOne DEF Named18
<1> HIDE DEF x, n, w, r
<1> DEFINE Leads(y) == r = y
<1>3. \/ Leads(Fail(x)) \/ Leads(FileArgument(x, arg, m)) \/ Leads([x EXCEPT !.sniffHost = arg])
      \/ ~(Len(arg) > PathCap) /\ Leads([x EXCEPT !.devpath = arg])
      \/ /\ InRange(n, 38400, 38400) \/ InRange(n, 115200, 115200)
         /\ Leads([x EXCEPT !.devBaudrate = n.value])
      \/ InRange(n, 0, 3600) /\ Leads([x EXCEPT !.maxTime = n.value])
      \/ InRange(n, 11, 26) /\ Leads([x EXCEPT !.task = "T_SNIFF", !.sniffChannel = n.value])
      \/ InRange(n, 0, 3) /\ Leads([x EXCEPT !.uiDebugLevel = n.value])
  <2> HIDE DEF Leads
  <2>1. \A y : r = y => Leads(y)
    BY DEF Leads
  <2> QED
    BY <1>1, <2>1 DEF ArgumentOf
<1> DEFINE v == n.value
<1>4. Leads([x EXCEPT !.sniffHost = arg]) => Ranged(r)
  <2>1. May("sniffHost", arg)
    BY DEF May
  <2> QED
    BY <1>0, <1>2, <2>1, RangedOne DEF Named18
<1>5. ~(Len(arg) > PathCap) /\ Leads([x EXCEPT !.devpath = arg]) => Ranged(r)
  <2>1. Len(arg) <= PathCap => May("devpath", arg)
    BY DEF May
  <2>2. ~(Len(arg) > PathCap) => Len(arg) <= PathCap
    BY PathFits
  <2> QED
    BY <1>0, <1>2, <2>1, <2>2, RangedOne DEF Named18
<1>6. /\ InRange(n, 38400, 38400) \/ InRange(n, 115200, 115200) => May("devBaudrate", v)
      /\ InRange(n, 0, 3600) => May("maxTime", v)
      /\ InRange(n, 11, 26) => May("sniffChannel", v)
      /\ InRange(n, 0, 3) => May("uiDebugLevel", v)
  BY NumbersMay
<1> HIDE DEF v
<1>7. May("devBaudrate", v) /\ r = [x EXCEPT !.devBaudrate = v] => Ranged(r)
  BY <1>0, <1>2, RangedOne DEF Named18
<1>8. May("maxTime", v) /\ r = [x EXCEPT !.maxTime = v] => Ranged(r)
  BY <1>0, <1>2, RangedOne DEF Named18
<1>9. May("sniffChannel", v) /\ r = [x EXCEPT !.task = "T_SNIFF", !.sniffChannel = v] => Ranged(r)
  <2>1. May("task", "T_SNIFF")
    BY DEF May, TaskNames
  <2>2. May("sniffChannel", v) => Ranged([x EXCEPT !["task"] = "T_SNIFF", !["sniffChannel"] = v])
    BY <1>0, <1>2, <2>1, RangedTwo DEF Named18
  <2> QED
    BY <2>2
<1>10. May("uiDebugLevel", v) /\ r = [x EXCEPT !.uiDebugLevel = v] => Ranged(r)
  BY <1>0, <1>2, RangedOne DEF Named18
<1>11. Leads(Fail(x)) \/ Leads(FileArgument(x, arg, m)) => Ranged(r)
  BY <1>2, RangedEnds, RangedFile
<1> DEFINE R == Ranged(r)
<1> HIDE DEF R
<1>12. R
  BY <1>3, <1>4, <1>5, <1>6, <1>7, <1>8, <1>9, <1>10, <1>11 DEF R, v
<1> QED
  BY <1>12 DEF R, r

\* A round of the loop.
LEMMA RangedRound ==
  ASSUME NEW g, Ranged(g), NEW arg, IsSequence(arg), NEW m
  PROVE  Ranged(Round(g, arg, m))
<1>1. Round(g, arg, m) \in {g, Fail(g), Argument(g, arg, m), Option(g, arg)}
  BY DEF Round
<1> QED
  BY <1>1, RangedEnds, RangedOption, RangedArgument

\* All the arguments.
LEMMA RangedArguments ==
  ASSUME NEW args, IsSequence(args), \A i \in DOMAIN args : IsSequence(args[i]),
         NEW m, NEW a, Ranged(a)
  PROVE  Ranged(Arguments(a, args, m))
<1> DEFINE N == Len(args)
<1>0. N \in Nat /\ DOMAIN args = 1..N
  BY DEF IsSequence
<1>1. PICK V : Enough(V, args, m) /\ a \in [Names -> V]
  BY AreEnough DEF Ranged
<1>2. PICK u \in [0..N -> [Names -> V]] : Rounds(u, a, args, m)
  BY <1>1, ArgumentSteps
<1> DEFINE S == {i \in Nat : i <= N => Ranged(u[i])}
<1>3. 0 \in S
  BY <1>2 DEF Rounds
<1>4. ASSUME NEW i \in Nat, i \in S PROVE i + 1 \in S
  <2> SUFFICES ASSUME i + 1 <= N PROVE Ranged(u[i + 1])
    OBVIOUS
  <2>1. i \in 0..N /\ i + 1 \in 1..N /\ (i + 1) - 1 = i
    BY <1>0
  <2>2. u[i + 1] = Round(u[i], args[i + 1], m)
    BY <1>2, <2>1 DEF Rounds
  <2>3. Ranged(u[i])
    BY <1>4, <2>1
  <2>4. IsSequence(args[i + 1])
    BY <1>0, <2>1
  <2> QED
    BY <2>2, <2>3, <2>4, RangedRound
<1>5. N \in S
  <2> HIDE DEF S
  <2> QED
    BY <1>0, <1>3, <1>4, NatSetInduction
<1> DEFINE y == u[N]
<1>6. Ranged(y) /\ Arguments(a, args, m) = Missing(y)
  BY <1>0, <1>2, <1>5 DEF Rounds
<1> HIDE DEF y
<1>7. Missing(y) \in {y, Fail(y)}
  BY DEF Missing
<1> QED
  BY <1>6, <1>7, RangedEnds

\* What an attempt begins with.
LEMMA RangedReset ==
  ASSUME NEW g, Ranged(g), NEW args
  PROVE  Ranged(Reset(g, args))
<1>0. Named18
  BY FieldNames
<1> DEFINE task == IF args = << >> THEN "T_HELP" ELSE "T_NONE"
           file == [g.file EXCEPT !.gcfFileType = 0, !.fsize = 0]
           r    == [g EXCEPT !.state = "ST_Void", !.task = task,
            !.uiInteractive = FALSE, !.uiDebugLevel = 0, !.sniffChannel = 0,
            !.devpath = NoPath, !.devSerialNum = << >>, !.devType = "DEV_UNKNOWN",
            !.devBaudrate = 0, !.fname = NoPath, !.file = file, !.ret = "FAILED"]
           F == {"state", "task", "uiInteractive", "uiDebugLevel", "sniffChannel", "devpath",
                 "devSerialNum", "devType", "devBaudrate", "fname", "file", "ret"}
<1>1. Reset(g, args) = r
  BY DEF Reset
<1>2. task \in TaskNames
  BY DEF TaskNames
<1> HIDE DEF file, task
<1>3. /\ IsGcf(r)
      /\ r["state"] = "ST_Void" /\ r["task"] = task /\ r["uiInteractive"] = FALSE
      /\ r["uiDebugLevel"] = 0 /\ r["sniffChannel"] = 0 /\ r["devpath"] = NoPath
      /\ r["devType"] = "DEV_UNKNOWN" /\ r["devBaudrate"] = 0 /\ r["fname"] = NoPath
      /\ r["ret"] = "FAILED"
  BY <1>0 DEF Ranged, IsGcf, Named18
<1>4. \A f \in Names \ F : r[f] = g[f]
  BY <1>0 DEF Ranged, IsGcf
<1> HIDE DEF r
<1>5. /\ May("state", "ST_Void") /\ May("task", task) /\ May("uiInteractive", FALSE)
      /\ May("uiDebugLevel", 0) /\ May("sniffChannel", 0)
      /\ May("devType", "DEV_UNKNOWN") /\ May("devBaudrate", 0) /\ May("ret", "FAILED")
      /\ \A v : May("devSerialNum", v) /\ May("file", v)
  BY <1>2 DEF May, States, Types, Rates, Channels
<1>6. May("devpath", NoPath) /\ May("fname", NoPath)
  <2>1. Len(NoPath) <= PathCap
    BY CommandAssumption DEF NoPath
  <2> QED
    BY <2>1 DEF May
<1>7. \A f \in F : May(f, r[f])
  BY <1>3, <1>5, <1>6
<1>8. Changes(g, r, F)
  BY <1>3, <1>4 DEF Changes
<1> HIDE DEF F
<1> QED
  BY <1>1, <1>7, <1>8, RangedChanges

\* The device that a path names.
LEMMA RangedDevices ==
  ASSUME NEW g, Ranged(g), NEW m, IsSequence(m.devs)
  PROVE  Ranged(gcfGetDevices(g, m))
<1>0. Named18
  BY FieldNames
<1> DEFINE list == PL_GetDevices(m)
           x == [g EXCEPT !.devices = list]
<1>1. IsList(list)
  BY DevicesFit
<1> HIDE DEF list
<1>2. Ranged(x) /\ x.devices = list
  <2>1. May("devices", list)
    BY <1>1 DEF May
  <2>2. Ranged(x)
    BY <1>0, <2>1, RangedOne DEF Named18
  <2> QED
    BY <1>0, <2>2 DEF Ranged, IsGcf, Named18
<1>3. gcfGetDevices(g, m) = TakeDevice(x)
  BY DEF gcfGetDevices, list
<1> HIDE DEF x
<1> DEFINE named == Named(x.devpath, list)
           k     == CHOOSE i \in named : \A j \in named : i <= j
           s     == list[k].serial
           rate  == IF x.devBaudrate = 0 THEN list[k].baudrate ELSE x.devBaudrate
<1>4. \/ TakeDevice(x) = x
      \/ named # {} /\ TakeDevice(x) = [x EXCEPT !.devSerialNum = s, !.devBaudrate = rate]
  BY <1>2 DEF TakeDevice, FirstNamed
<1>5. named # {} => rate \in Rates
  <2> SUFFICES ASSUME named # {} PROVE rate \in Rates
    OBVIOUS
  <2>1. named \in SUBSET DOMAIN list
    BY DEF Named
  <2> HIDE DEF named
  <2>2. named \in SUBSET Nat
    BY <1>1, <2>1 DEF IsList
  <2>3. \E i \in named : \A j \in named : i <= j
    BY <2>2, LeastNumber
  <2>4. k \in named
    BY <2>3
  <2> HIDE DEF k
  <2>5. list[k].baudrate \in Rates
    BY <1>1, <2>1, <2>4 DEF IsList
  <2>6. x.devBaudrate \in Rates
    <3>1. May("devBaudrate", x["devBaudrate"])
      BY <1>0, <1>2 DEF Ranged, Limited, Named18
    <3> QED
      BY <3>1 DEF May
  <2> QED
    BY <2>5, <2>6
<1> HIDE DEF named, rate, s
<1>6. rate \in Rates => Ranged([x EXCEPT !.devSerialNum = s, !.devBaudrate = rate])
  <2>1. May("devSerialNum", s) /\ (rate \in Rates => May("devBaudrate", rate))
    BY DEF May
  <2> QED
    BY <1>0, <1>2, <2>1, RangedTwo DEF Named18
<1> QED
  BY <1>2, <1>3, <1>4, <1>5, <1>6

\* The parts of a path stand for types and rates.
LEMMA KindsAre ==
  ASSUME NEW path
  PROVE  PathKind(path).type \in Types /\ PathKind(path).baudrate \in Rates
<1> DEFINE of == {i \in DOMAIN Kinds : Occurs(path, <<Kinds[i].part>>)}
           k  == CHOOSE i \in of : \A j \in of : i <= j
           Good(x) == x.type \in Types /\ x.baudrate \in Rates
<1>1. PathKind(path) = (IF of = {} THEN Unknown ELSE Kinds[k])
  BY DEF PathKind
<1>2. DOMAIN Kinds = 1..10
  BY DEF Kinds
<1>3. \A p, t, b : t \in Types /\ b \in Rates => Good(Kind(p, t, b))
  BY DEF Kind
<1>4. {"DEV_UNKNOWN", "DEV_CONBEE_1", "DEV_CONBEE_2", "DEV_RASPBEE_1"} \subseteq Types
      /\ {0, 38400, 115200} \subseteq Rates
  BY DEF Types, Rates
<1> HIDE DEF Good
<1>5. Good(Unknown)
  <2> DEFINE p == ""
  <2>1. Unknown = Kind(p, "DEV_UNKNOWN", 0)
    BY Zenon DEF Unknown
  <2> HIDE DEF p
  <2> QED
    BY <1>3, <1>4, <2>1
<1>6. Good(Kinds[1]) /\ Good(Kinds[2]) /\ Good(Kinds[3])
  BY <1>3, <1>4 DEF Kinds
<1>7. Good(Kinds[4]) /\ Good(Kinds[5]) /\ Good(Kinds[6])
  BY <1>3, <1>4 DEF Kinds
<1>8. Good(Kinds[7]) /\ Good(Kinds[8]) /\ Good(Kinds[9]) /\ Good(Kinds[10])
  BY <1>3, <1>4 DEF Kinds
<1>9. \A i \in 1..10 : Good(Kinds[i])
  <2> TAKE i \in 1..10
  <2>1. i \in {1, 2, 3, 4, 5, 6, 7, 8, 9, 10}
    OBVIOUS
  <2> QED
    BY <1>6, <1>7, <1>8, <2>1
<1>10. of # {} => k \in 1..10
  <2> SUFFICES ASSUME of # {} PROVE k \in 1..10
    OBVIOUS
  <2>1. of \in SUBSET (1..10)
    BY <1>2
  <2> HIDE DEF of
  <2>2. \E i \in of : \A j \in of : i <= j
    <3>1. of \in SUBSET Nat
      BY <2>1
    <3> QED
      BY <3>1, LeastNumber
  <2>3. k \in of
    BY <2>2
  <2> HIDE DEF k
  <2> QED
    BY <2>1, <2>3
<1> HIDE DEF of, k
<1>11. Good(PathKind(path))
  BY <1>1, <1>5, <1>9, <1>10
<1> QED
  BY <1>11 DEF Good

\* The type of the device.
LEMMA RangedType ==
  ASSUME NEW g, Ranged(g)
  PROVE  Ranged(gcfGetDeviceType(g))
<1>0. Named18
  BY FieldNames
<1> DEFINE k     == PathKind(g.devpath)
           ftype == g.file.gcfFileType
           type  == IF ftype = FLASH_TYPE_APP_ENCRYPTED THEN "DEV_HIVE"
                    ELSE IF k.type = "DEV_CONBEE_1" /\ ftype > 9 THEN "DEV_UNKNOWN"
                    ELSE k.type
           baud  == IF ftype = FLASH_TYPE_APP_ENCRYPTED THEN 115200 ELSE k.baudrate
           rate  == IF g.devBaudrate = 0 THEN baud ELSE g.devBaudrate
<1>1. gcfGetDeviceType(g) = [g EXCEPT !.devType = type, !.devBaudrate = rate]
  BY DEF gcfGetDeviceType
<1>2. k.type \in Types /\ k.baudrate \in Rates
  BY KindsAre
<1> HIDE DEF k
<1>3. type \in Types /\ baud \in Rates
  BY <1>2 DEF Types, Rates
<1> HIDE DEF baud
<1>4. rate \in Rates
  <2>1. May("devBaudrate", g["devBaudrate"])
    BY <1>0 DEF Ranged, Limited, Named18
  <2>2. g["devBaudrate"] \in Rates
    BY <2>1 DEF May
  <2> QED
    BY <1>3, <2>2
<1> HIDE DEF type, rate
<1>5. May("devType", type) /\ May("devBaudrate", rate)
  BY <1>3, <1>4 DEF May
<1>6. Ranged([g EXCEPT !.devType = type, !.devBaudrate = rate])
  BY <1>0, <1>5, RangedTwo DEF Named18
<1> QED
  BY <1>1, <1>6

\* What a file is flashed with.
LEMMA RangedProgram ==
  ASSUME NEW g, Ranged(g)
  PROVE  Ranged(Program(g))
<1>0. Named18
  BY FieldNames
<1> DEFINE time == IF g.maxTime < 0 THEN 10 ELSE g.maxTime
           type == IF RaspBee2(g) THEN "DEV_RASPBEE_2" ELSE g.devType
           r    == [g EXCEPT !.state = "ST_Program", !.maxTime = time, !.devType = type]
<1>1. Program(g) \in {Fail(g), Succeed(r)}
  BY DEF Program
<1>2. /\ May("maxTime", g["maxTime"]) /\ May("devType", g["devType"])
  BY <1>0 DEF Ranged, Limited, Named18
<1>3. May("maxTime", time)
  <2>1. May("maxTime", 10)
    BY DEF May, Times
  <2> QED
    BY <1>2, <2>1
<1>4. May("devType", type)
  <2>1. May("devType", "DEV_RASPBEE_2")
    BY DEF May, Types
  <2> QED
    BY <1>2, <2>1
<1>5. May("state", "ST_Program")
  BY DEF May, States
<1> HIDE DEF time, type
<1>6. /\ Changes(g, r, {"state", "maxTime", "devType"})
      /\ r["state"] = "ST_Program" /\ r["maxTime"] = time /\ r["devType"] = type
  BY <1>0 DEF Ranged, Changes, IsGcf, Named18
<1> HIDE DEF r
<1>7. Ranged(r)
  BY <1>3, <1>4, <1>5, <1>6, RangedChanges
<1> QED
  BY <1>1, <1>7, RangedEnds

\* Deciding what to do.
LEMMA RangedDecide ==
  ASSUME NEW g, Ranged(g)
  PROVE  Ranged(Decide(g))
<1>0. Named18
  BY FieldNames
<1> DEFINE s == FirstState[g.task]
<1>1. g.task \in TaskNames
  <2>1. May("task", g["task"])
    BY <1>0 DEF Ranged, Limited, Named18
  <2> QED
    BY <2>1 DEF May
<1>2. \/ Decide(g) \in {g, Fail(g), Program(g), Succeed([g EXCEPT !.running = FALSE])}
      \/ /\ g.task \in {"T_CONNECT", "T_SNIFF", "T_DUMP_FLASH", "T_RESET"}
         /\ Decide(g) = Succeed([g EXCEPT !.state = s])
  BY <1>1 DEF Decide, TaskNames
<1>3. Ranged([g EXCEPT !.running = FALSE])
  <2>1. May("running", FALSE)
    BY DEF May
  <2> QED
    BY <1>0, <2>1, RangedOne DEF Named18
<1>4. g.task \in {"T_CONNECT", "T_SNIFF", "T_DUMP_FLASH", "T_RESET"} => s \in States
  BY DEF FirstState, States
<1> HIDE DEF s
<1>5. s \in States => Ranged([g EXCEPT !.state = s])
  <2>1. s \in States => May("state", s)
    BY DEF May
  <2> QED
    BY <1>0, <2>1, RangedOne DEF Named18
<1> QED
  BY <1>2, <1>3, <1>4, <1>5, RangedEnds, RangedProgram

\* What follows the command line.
LEMMA RangedEnter ==
  ASSUME NEW g, Ranged(g), NEW m, IsSequence(m.devs)
  PROVE  Ranged(Enter(g, m))
<1>0. Named18
  BY FieldNames
<1> DEFINE list == PL_GetDevices(m)
<1>1. May("devices", list) /\ May("running", FALSE)
  <2>1. IsList(list)
    BY DevicesFit
  <2> HIDE DEF list
  <2> QED
    BY <2>1 DEF May
<1>2. Enter(g, m) \in {g, [g EXCEPT !.running = FALSE],
                       [g EXCEPT !.devices = list, !.running = FALSE]}
  BY DEF Enter, ListDevices
<1> HIDE DEF list
<1>3. Ranged([g EXCEPT !.running = FALSE])
  BY <1>0, <1>1, RangedOne DEF Named18
<1>4. Ranged([g EXCEPT !.devices = list, !.running = FALSE])
  BY <1>0, <1>1, RangedTwo DEF Named18
<1> QED
  BY <1>2, <1>3, <1>4

\* An attempt.
LEMMA RangedEvent ==
  ASSUME NEW g, Ranged(g), NEW args, IsSequence(args),
         \A i \in DOMAIN args : IsSequence(args[i]), NEW m, IsSequence(m.devs)
  PROVE  LET r == InitEvent(g, args, m)
         IN  Ranged(r) /\ r.want = "none" /\ r.stop = FALSE
<1> DEFINE a == Arguments(Reset(g, args), args, m)
           c == Chosen(a, m)
           p == [c EXCEPT !.want = "none", !.stop = FALSE]
<1>1. Ranged(a)
  BY RangedReset, RangedArguments
<1> HIDE DEF a
<1>2. Ranged(c)
  <2>1. c \in {a, Decide(gcfGetDeviceType(gcfGetDevices(a, m)))}
    BY DEF Chosen
  <2> QED
    BY <1>1, <2>1, RangedDevices, RangedType, RangedDecide
<1>3. InitEvent(g, args, m) = Enter(p, m)
  BY DEF InitEvent, gcfProcessCommandline, a
<1> HIDE DEF c
<1>4. Ranged(p)
  <2>1. "want" \notin Limited /\ "stop" \notin Limited
    BY DEF Limited
  <2> QED
    BY <1>2, <2>1, FieldNames, RangedTwo DEF Named18
<1>5. Enter(p, m).want = "none" /\ Enter(p, m).stop = FALSE
  BY <1>2, OthersEnter DEF Ranged
<1> HIDE DEF p
<1> QED
  BY <1>3, <1>4, <1>5, RangedEnter

\* What the fields hold, in every state.
FieldsOK ==
  /\ Ranged(gcf) /\ gcf.want = "none" /\ gcf.stop = FALSE
  /\ argv \in Argvs

\* The program starts with fields in their ranges.
LEMMA FieldsStart == Init => FieldsOK
<1> SUFFICES ASSUME Init PROVE FieldsOK
  OBVIOUS
<1>1. gcf = GCF_Init /\ argv \in Argvs
  BY DEF Init, CommandInit
<1>2. GCF_Init.want = "none" /\ GCF_Init.stop = FALSE
  BY DEF GCF_Init
<1>3. \A f \in Limited : May(f, GCF_Init[f])
  <2> DEFINE Fits(f) == May(f, GCF_Init[f])
  <2>1. Fits("state") /\ Fits("task") /\ Fits("uiInteractive") /\ Fits("uiDebugLevel")
    BY DEF May, GCF_Init, States, TaskNames
  <2>2. Fits("sniffChannel") /\ Fits("sniffHost") /\ Fits("devSerialNum") /\ Fits("file")
    BY DEF May, GCF_Init, Channels
  <2>3. Fits("devType") /\ Fits("devBaudrate") /\ Fits("maxTime")
    BY DEF May, GCF_Init, Types, Rates, Times
  <2>4. Fits("running") /\ Fits("ret")
    BY DEF May, GCF_Init
  <2>5. Fits("devpath") /\ Fits("fname") /\ Fits("devices")
    <3>1. Len(NoPath) <= PathCap /\ IsList(<< >>)
      BY CommandAssumption DEF NoPath, IsList
    <3>2. /\ GCF_Init["devpath"] = NoPath /\ GCF_Init["fname"] = NoPath
          /\ GCF_Init["devices"] = << >>
      BY DEF GCF_Init
    <3> QED
      BY <3>1, <3>2 DEF May
  <2> HIDE DEF Fits
  <2>6. \A f \in Limited : Fits(f)
    BY <2>1, <2>2, <2>3, <2>4, <2>5 DEF Limited, Names
  <2> QED
    BY <2>6 DEF Fits
<1> QED
  BY <1>1, <1>2, <1>3, InitGcf DEF FieldsOK, Ranged

\* Every step keeps it so.
LEMMA FieldsKept == FieldsOK /\ [Next]_consoleVars => FieldsOK'
<1> SUFFICES ASSUME FieldsOK, [Next]_consoleVars PROVE FieldsOK'
  OBVIOUS
<1>1. CASE Attempt
  <2>1. machine' \in Machines /\ gcf' = InitEvent(gcf, argv, machine') /\ argv' = argv
    BY <1>1 DEF Attempt
  <2>2. /\ argv \in Argvs /\ IsSequence(argv) /\ \A i \in DOMAIN argv : IsSequence(argv[i])
        /\ IsSequence(machine'.devs)
    BY <2>1, CommandAssumption DEF FieldsOK
  <2>3. Ranged(gcf') /\ gcf'.want = "none" /\ gcf'.stop = FALSE
    BY <2>1, <2>2, RangedEvent DEF FieldsOK
  <2> QED
    BY <2>1, <2>2, <2>3 DEF FieldsOK, Ranged, IsGcf
<1>2. CASE UNCHANGED cmdVars
  BY <1>2 DEF cmdVars, FieldsOK, Ranged, IsGcf
<1>3. Attempt \/ UNCHANGED cmdVars
  BY DEF Next, Try, Press, Toggle, consoleVars, cmdVars
<1> QED
  BY <1>1, <1>2, <1>3

\* For every command line, every set of devices and any number of attempts: the fields
\* that options, enumeration and file header overwrite in turn stay in their ranges, a
\* path fits its buffer, and the list of devices its array (gcf.c 573-601 and 2202-2781,
\* linux_get_usb_devices.c).
THEOREM CommandTypes == Spec => []CommandTypeOK
<1>1. FieldsOK => CommandTypeOK
  <2> SUFFICES ASSUME FieldsOK PROVE CommandTypeOK
    OBVIOUS
  <2>0. \A f \in Limited : May(f, gcf[f])
    BY DEF FieldsOK, Ranged
  <2>1. /\ "state" \in Limited /\ "task" \in Limited /\ "uiInteractive" \in Limited
        /\ "uiDebugLevel" \in Limited /\ "sniffChannel" \in Limited /\ "devBaudrate" \in Limited
        /\ "devType" \in Limited /\ "maxTime" \in Limited /\ "running" \in Limited
        /\ "ret" \in Limited /\ "devpath" \in Limited /\ "fname" \in Limited
        /\ "devices" \in Limited
    BY DEF Limited, Names
  <2>2. /\ gcf["state"] \in States /\ gcf["task"] \in TaskNames
        /\ gcf["uiInteractive"] \in BOOLEAN /\ gcf["uiDebugLevel"] \in 0..3
    BY <2>0, <2>1, SMTT(30) DEF May
  <2>3. /\ gcf["sniffChannel"] \in Channels /\ gcf["devBaudrate"] \in Rates
        /\ gcf["devType"] \in Types /\ gcf["maxTime"] \in Times
    <3>1. /\ May("sniffChannel", gcf["sniffChannel"]) /\ May("devBaudrate", gcf["devBaudrate"])
          /\ May("devType", gcf["devType"]) /\ May("maxTime", gcf["maxTime"])
      BY <2>0, <2>1
    <3>2. gcf["sniffChannel"] \in Channels
      BY <3>1 DEF May
    <3>3. gcf["devBaudrate"] \in Rates /\ gcf["devType"] \in Types
      BY <3>1 DEF May
    <3>4. gcf["maxTime"] \in Times
      BY <3>1 DEF May
    <3> QED
      BY <3>2, <3>3, <3>4
  <2>4. gcf["running"] \in BOOLEAN /\ gcf["ret"] \in {"SUCCESS", "FAILED"}
    BY <2>0, <2>1, SMTT(30) DEF May
  <2>5. /\ Len(gcf["devpath"]) <= PathCap /\ Len(gcf["fname"]) <= PathCap
        /\ IsList(gcf["devices"])
    BY <2>0, <2>1, SMTT(30) DEF May
  <2>6. gcf["want"] \in {"none"} /\ gcf["stop"] \in {FALSE}
    BY DEF FieldsOK
  <2> DEFINE Holds(f) == gcf[f] \in Fields[f]
  <2>7. Holds("state") /\ Holds("task") /\ Holds("uiInteractive") /\ Holds("uiDebugLevel")
    BY <2>2, RangesAre
  <2>8. Holds("sniffChannel") /\ Holds("devBaudrate") /\ Holds("devType") /\ Holds("maxTime")
    <3>1. Fields["sniffChannel"] = Channels /\ Fields["maxTime"] = Times
      BY RangesAre
    <3>2. Fields["devBaudrate"] = Rates /\ Fields["devType"] = Types
      BY RangesAre
    <3>3. Holds("sniffChannel") /\ Holds("maxTime")
      BY <2>3, <3>1
    <3>4. Holds("devBaudrate") /\ Holds("devType")
      BY <2>3, <3>2
    <3> QED
      BY <3>3, <3>4
  <2>9. Holds("running") /\ Holds("ret") /\ Holds("want") /\ Holds("stop")
    <3>1. Fields["running"] = BOOLEAN /\ Fields["ret"] = {"SUCCESS", "FAILED"}
      BY RangesAre
    <3>2. Fields["want"] = {"none"} /\ Fields["stop"] = {FALSE}
      BY RangesAre
    <3>3. Holds("running") /\ Holds("ret")
      BY <2>4, <3>1
    <3>4. Holds("want") /\ Holds("stop")
      BY <2>6, <3>2
    <3> QED
      BY <3>3, <3>4
  <2> HIDE DEF Holds
  <2>10. \A f \in DOMAIN Fields : Holds(f)
    BY <2>7, <2>8, <2>9, RangesAre
  <2> QED
    BY <2>5, <2>10 DEF CommandTypeOK, IsList, Holds
<1> QED
  BY <1>1, FieldsStart, FieldsKept, PTL DEF Spec

=============================================================================
