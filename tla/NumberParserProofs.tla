------------------------- MODULE NumberParserProofs -------------------------
(***************************************************************************)
(* The loop of U_strtol over the digits of a number, for any number of      *)
(* them, next to the number that is meant.  The test for an overflow        *)
(* compares a wrapped sum with the number before, which misses some         *)
(* overflows; none of those it misses ends at a small number.               *)
(***************************************************************************)
EXTENDS NumberParser, FoldLemmas, SequenceTheorems

-----------------------------------------------------------------------------
(* One digit.                                                              *)

\* A sum below Word does not wrap.
LEMMA SumStays ==
  ASSUME NEW x \in Nat, x < Word
  PROVE  x % Word = x
  BY NumberAssumption, SMTT(30)

\* A sum that wraps is an unsigned long again.
LEMMA SumWraps ==
  ASSUME NEW x \in Nat
  PROVE  x % Word \in 0..(Word - 1)
  BY NumberAssumption, SMTT(30)

\* What Add returns is again a result and a flag.
LEMMA AddParsed ==
  ASSUME NEW p \in Parsed, NEW d \in 0..9
  PROVE  Add(p, d) \in Parsed
<1>1. p.result \in 0..(Word - 1) /\ p.over \in BOOLEAN
  BY DEF Parsed
<1>2. p.result * 10 + d \in Nat
  BY <1>1, NumberAssumption
<1>3. (p.result * 10 + d) % Word \in 0..(Word - 1)
  BY <1>2, SumWraps
<1>4. (p.over \/ (p.result * 10 + d) % Word < p.result) \in BOOLEAN
  OBVIOUS
<1> QED
  BY <1>3, <1>4, Zenon DEF Add, Parsed

\* A small result of Add that was not flagged came from a small one, and is the sum
\* without a wrap: a wrapped sum below the number before is flagged, and from a
\* small number no sum reaches Word.
LEMMA SmallAdd ==
  ASSUME NEW p \in Parsed, NEW d \in 0..9,
         ~Add(p, d).over, Add(p, d).result <= Small
  PROVE  ~p.over /\ p.result <= Small /\ Add(p, d).result = 10 * p.result + d
<1> DEFINE sum == (p.result * 10 + d) % Word
<1>1. p.result \in Nat
  BY NumberAssumption DEF Parsed
<1>2. Add(p, d).result = sum /\ Add(p, d).over = (p.over \/ sum < p.result)
  BY DEF Add
<1>3. p.result * 10 + d \in Nat
  BY <1>1
<1>4. sum \in 0..(Word - 1)
  BY <1>3, SumWraps
<1>5. ~p.over /\ ~(sum < p.result) /\ sum <= Small
  BY <1>2
<1> HIDE DEF sum
<1>6. p.result <= Small
  BY <1>1, <1>4, <1>5, NumberAssumption
<1>7. p.result * 10 + d < Word
  BY <1>1, <1>6, NumberAssumption
<1>8. sum = p.result * 10 + d
  BY <1>3, <1>7, SumStays DEF sum
<1> QED
  BY <1>1, <1>2, <1>5, <1>6, <1>8

-----------------------------------------------------------------------------
(* The digits.                                                             *)

\* A digit has a value.
LEMMA DigitValue ==
  ASSUME NEW ch \in DigitSet
  PROVE  ValueOf(ch) \in 0..9
<1>1. DOMAIN Digits = 1..10
  BY DEF Digits
<1>2. \E i \in DOMAIN Digits : Digits[i] = ch
  BY DEF DigitSet
<1>3. (CHOOSE i \in DOMAIN Digits : Digits[i] = ch) \in DOMAIN Digits
  BY <1>2
<1> QED
  BY <1>1, <1>3 DEF ValueOf

\* t is what the loop holds after each of the digits.
Parses(t, run) ==
  /\ t[0] = NoDigits
  /\ \A i \in 1..Len(run) : t[i] = Add(t[i - 1], ValueOf(run[i]))

\* The loop of U_strtol takes the digits one after the other.
LEMMA ParseSteps ==
  ASSUME NEW run \in Seq(DigitSet)
  PROVE  \E t \in [0..Len(run) -> Parsed] :
           /\ Parses(t, run)
           /\ t[Len(run)] = ParseOf(run)
<1> DEFINE N == Len(run)
           X == Parsed
           Is(f) == f = [q \in SUBSET (1..N) |->
                           IF q = {} THEN NoDigits
                           ELSE Add(f[q \ {Max(q)}], ValueOf(run[Max(q)]))]
           iter == CHOOSE f : Is(f)
           next == [z \in X \X (1..N) |-> Add(z[1], ValueOf(run[z[2]]))]
<1>1. N \in Nat /\ DOMAIN run = 1..N /\ \A i \in 1..N : ValueOf(run[i]) \in 0..9
  <2>1. \A i \in 1..Len(run) : run[i] \in DigitSet
    OBVIOUS
  <2> QED
    BY <2>1, DigitValue
<1>2. ParseOf(run) = iter[1..N]
  BY <1>1 DEF ParseOf, FoldLeft, MapThenFoldSet
<1> HIDE DEF N
<1>3. NoDigits \in X /\ \A x \in X, i \in 1..N : Add(x, ValueOf(run[i])) \in X
  <2>1. NoDigits \in Parsed
    BY NumberAssumption DEF NoDigits, Parsed
  <2> QED
    BY <1>1, <2>1, AddParsed
<1> HIDE DEF X
<1>4. /\ next \in [X \X (1..N) -> X]
      /\ \A x \in X, i \in 1..N : next[<<x, i>>] = Add(x, ValueOf(run[i]))
  BY <1>1, <1>3
<1> HIDE DEF next
<1>5. \A q \in SUBSET (1..N) : q # {} => Max(q) \in 1..N
  BY <1>1, MaxIn
<1>6. PICK f \in [SUBSET (1..N) -> X] : IsFold(f, N, NoDigits, next)
  BY <1>1, <1>3, <1>4, FoldExists
<1>7. Is(f)
  BY <1>4, <1>5, <1>6 DEF IsFold
<1>8. Is(iter)
  <2> HIDE DEF Is
  <2> QED
    BY <1>7
<1> HIDE DEF iter
<1>9. FoldsIn(X, iter, N, NoDigits, next)
  BY <1>4, <1>5, <1>8 DEF FoldsIn
<1> HIDE DEF Is
<1>10. PICK t \in [0..N -> X] : Steps(t, N, NoDigits, next) /\ t[N] = iter[1..N]
  BY <1>1, <1>3, <1>9, FoldSteps
<1>11. ASSUME NEW i \in 1..N PROVE t[i] = Add(t[i - 1], ValueOf(run[i]))
  <2>1. t[i - 1] \in X
    <3>1. i - 1 \in 0..N
      BY <1>1
    <3> QED
      BY <1>10, <3>1
  <2> QED
    BY <1>4, <1>10, <2>1 DEF Steps
<1>12. t[0] = NoDigits
  BY <1>10 DEF Steps
<1> QED
  BY <1>2, <1>10, <1>11, <1>12 DEF Parses, N, X

\* u is the number that is meant, after each of the digits.
Counts(u, run) ==
  /\ u[0] = 0
  /\ \A i \in 1..Len(run) : u[i] = 10 * u[i - 1] + ValueOf(run[i])

\* The number that is meant, digit by digit.
LEMMA CountSteps ==
  ASSUME NEW run \in Seq(DigitSet)
  PROVE  \E u \in [0..Len(run) -> Nat] :
           /\ Counts(u, run)
           /\ u[Len(run)] = Decimal(run)
<1> DEFINE N == Len(run)
           X == Nat
           Is(f) == f = [q \in SUBSET (1..N) |->
                           IF q = {} THEN 0
                           ELSE 10 * f[q \ {Max(q)}] + ValueOf(run[Max(q)])]
           iter == CHOOSE f : Is(f)
           next == [z \in X \X (1..N) |-> 10 * z[1] + ValueOf(run[z[2]])]
<1>1. N \in Nat /\ DOMAIN run = 1..N /\ \A i \in 1..N : ValueOf(run[i]) \in 0..9
  <2>1. \A i \in 1..Len(run) : run[i] \in DigitSet
    OBVIOUS
  <2> QED
    BY <2>1, DigitValue
<1>2. Decimal(run) = iter[1..N]
  BY <1>1 DEF Decimal, FoldLeft, MapThenFoldSet
<1> HIDE DEF N
<1>3. 0 \in X /\ \A x \in X, i \in 1..N : 10 * x + ValueOf(run[i]) \in X
  BY <1>1
<1> HIDE DEF X
<1>4. /\ next \in [X \X (1..N) -> X]
      /\ \A x \in X, i \in 1..N : next[<<x, i>>] = 10 * x + ValueOf(run[i])
  BY <1>1, <1>3
<1> HIDE DEF next
<1>5. \A q \in SUBSET (1..N) : q # {} => Max(q) \in 1..N
  BY <1>1, MaxIn
<1>6. PICK f \in [SUBSET (1..N) -> X] : IsFold(f, N, 0, next)
  BY <1>1, <1>3, <1>4, FoldExists
<1>7. Is(f)
  BY <1>4, <1>5, <1>6 DEF IsFold
<1>8. Is(iter)
  <2> HIDE DEF Is
  <2> QED
    BY <1>7
<1> HIDE DEF iter
<1>9. FoldsIn(X, iter, N, 0, next)
  BY <1>4, <1>5, <1>8 DEF FoldsIn
<1> HIDE DEF Is
<1>10. PICK u \in [0..N -> X] : Steps(u, N, 0, next) /\ u[N] = iter[1..N]
  BY <1>1, <1>3, <1>9, FoldSteps
<1>11. ASSUME NEW i \in 1..N PROVE u[i] = 10 * u[i - 1] + ValueOf(run[i])
  <2>1. u[i - 1] \in X
    <3>1. i - 1 \in 0..N
      BY <1>1
    <3> QED
      BY <1>10, <3>1
  <2> QED
    BY <1>4, <1>10, <2>1 DEF Steps
<1>12. u[0] = 0
  BY <1>10 DEF Steps
<1> QED
  BY <1>2, <1>10, <1>11, <1>12 DEF Counts, N, X

\* A result that was not flagged and is small is the number that is meant.
LEMMA SmallParse ==
  ASSUME NEW run \in Seq(DigitSet)
  PROVE  /\ ParseOf(run) \in Parsed
         /\ ~ParseOf(run).over /\ ParseOf(run).result <= Small =>
              ParseOf(run).result = Decimal(run)
<1> DEFINE N == Len(run)
<1>1. N \in Nat /\ \A i \in 1..N : ValueOf(run[i]) \in 0..9
  <2>1. \A i \in 1..Len(run) : run[i] \in DigitSet
    OBVIOUS
  <2> QED
    BY <2>1, DigitValue
<1>2. PICK t \in [0..N -> Parsed] : Parses(t, run) /\ t[N] = ParseOf(run)
  BY ParseSteps
<1>3. PICK u \in [0..N -> Nat] : Counts(u, run) /\ u[N] = Decimal(run)
  BY CountSteps
<1> DEFINE Exact(i) == ~t[i].over /\ t[i].result <= Small => t[i].result = u[i]
           S == {i \in Nat : i <= N => Exact(i)}
<1>4. 0 \in S
  BY <1>1, <1>2, <1>3 DEF Parses, Counts, NoDigits
<1>5. ASSUME NEW n \in Nat, n \in S PROVE n + 1 \in S
  <2> SUFFICES ASSUME n + 1 <= N PROVE Exact(n + 1)
    OBVIOUS
  <2> DEFINE d == ValueOf(run[n + 1])
  <2>1. n + 1 \in 1..N /\ n \in 0..N /\ (n + 1) - 1 = n /\ Exact(n)
    BY <1>1, <1>5
  <2>2. d \in 0..9 /\ t[n] \in Parsed /\ u[n] \in Nat
    BY <1>1, <1>2, <1>3, <2>1
  <2>3. t[n + 1] = Add(t[n], d)
    BY <1>2, <2>1 DEF Parses
  <2>4. u[n + 1] = 10 * u[n] + d
    BY <1>3, <2>1 DEF Counts
  <2> HIDE DEF d
  <2> SUFFICES ASSUME ~t[n + 1].over, t[n + 1].result <= Small
               PROVE  t[n + 1].result = u[n + 1]
    OBVIOUS
  <2>5. ~t[n].over /\ t[n].result <= Small /\ t[n + 1].result = 10 * t[n].result + d
    BY <2>2, <2>3, SmallAdd
  <2>6. t[n].result = u[n]
    BY <2>1, <2>5
  <2> QED
    BY <2>4, <2>5, <2>6
<1>6. \A n \in Nat : n \in S
  <2> HIDE DEF S
  <2> QED
    BY <1>4, <1>5, NatSetInduction
<1>7. Exact(N)
  BY <1>1, <1>6
<1>8. t[N] \in Parsed
  BY <1>1, <1>2
<1> QED
  BY <1>2, <1>3, <1>7, <1>8

-----------------------------------------------------------------------------
(* A text.                                                                 *)

\* What Behind leaves begins where the characters of the set end.
LEMMA BehindCut ==
  ASSUME NEW S, NEW s \in Seq(S), NEW set
  PROVE  \E k \in 1..(Len(s) + 1) :
           /\ Behind(s, set) = SubSeq(s, k, Len(s))
           /\ \A i \in 1..(k - 1) : s[i] \in set
           /\ k <= Len(s) => s[k] \notin set
<1> DEFINE others == {i \in DOMAIN s : s[i] \notin set}
           k == CHOOSE i \in others : \A j \in others : i <= j
<1>1. Len(s) \in Nat /\ DOMAIN s = 1..Len(s)
  OBVIOUS
<1>2. CASE others = {}
  <2>1. Behind(s, set) = << >>
    BY <1>2 DEF Behind
  <2>2. SubSeq(s, Len(s) + 1, Len(s)) = << >>
    BY <1>1, SubSeqEmpty
  <2>3. \A i \in 1..Len(s) : s[i] \in set
    BY <1>1, <1>2
  <2>4. Len(s) + 1 \in 1..(Len(s) + 1) /\ (Len(s) + 1) - 1 = Len(s) /\ ~(Len(s) + 1 <= Len(s))
    BY <1>1
  <2> QED
    BY <2>1, <2>2, <2>3, <2>4
<1>3. CASE others # {}
  <2>1. others \in SUBSET Nat
    BY <1>1
  <2>2. \E i \in others : \A j \in others : i <= j
    <3> HIDE DEF others
    <3> QED
      BY <1>3, <2>1, LeastNumber
  <2>3. k \in others /\ \A j \in others : k <= j
    <3> HIDE DEF others
    <3> QED
      BY <2>2
  <2>4. Behind(s, set) = SubSeq(s, k, Len(s))
    BY <1>3 DEF Behind
  <2> HIDE DEF k
  <2>5. k \in 1..(Len(s) + 1) /\ s[k] \notin set
    BY <1>1, <2>3
  <2>6. ASSUME NEW i \in 1..(k - 1) PROVE s[i] \in set
    BY <1>1, <2>3, <2>5
  <2> QED
    BY <2>4, <2>5, <2>6
<1> QED
  BY <1>2, <1>3

\* It is a text, and what is in front of it are characters of the set.
LEMMA BehindSplits ==
  ASSUME NEW S, NEW s \in Seq(S), NEW set
  PROVE  /\ Behind(s, set) \in Seq(S) /\ Len(Behind(s, set)) <= Len(s)
         /\ \A i \in 1..(Len(s) - Len(Behind(s, set))) : s[i] \in set
<1>1. Len(s) \in Nat /\ \A i \in 1..Len(s) : s[i] \in S
  OBVIOUS
<1>2. PICK k \in 1..(Len(s) + 1) : /\ Behind(s, set) = SubSeq(s, k, Len(s))
                                   /\ \A i \in 1..(k - 1) : s[i] \in set
  BY BehindCut
<1>3. /\ SubSeq(s, k, Len(s)) \in Seq(S)
      /\ Len(SubSeq(s, k, Len(s))) = Len(s) - k + 1
  <2>1. \A i \in k..Len(s) : s[i] \in S
    BY <1>1
  <2> QED
    BY <1>1, <2>1, SubSeqProperties
<1> QED
  BY <1>1, <1>2, <1>3

\* The digits a text begins with are digits.
LEMMA LeadingDigits ==
  ASSUME NEW S, NEW s \in Seq(S)
  PROVE  Leading(s) \in Seq(DigitSet)
<1> DEFINE n == Len(s) - Len(Behind(s, DigitSet))
<1>1. n \in Int /\ \A i \in 1..n : s[i] \in DigitSet
  <2>1. Behind(s, DigitSet) \in Seq(S) /\ \A i \in 1..n : s[i] \in DigitSet
    BY BehindSplits
  <2> QED
    BY <2>1
<1> HIDE DEF n
<1>2. SubSeq(s, 1, n) \in Seq(DigitSet)
  BY <1>1, SubSeqProperties
<1> QED
  BY <1>2 DEF Leading, n

\* The number a text is taken for: its digits, with or without a sign.
LEMMA TextParsed ==
  ASSUME NEW S, NEW text \in Seq(S)
  PROVE  LET t == Behind(text, Blanks)
             neg == t # << >> /\ Head(t) = "-"
             u == IF neg THEN Tail(t) ELSE t
             p == ParseOf(Leading(u))
         IN  /\ p \in Parsed
             /\ Strtol(text).value = (IF neg THEN -p.result ELSE p.result)
             /\ Strtol(text).inRange => ~p.over
             /\ ~p.over /\ p.result <= Small => p.result = Decimal(Leading(u))
             /\ Strtol(text).rest \in Seq(S)
<1> DEFINE t == Behind(text, Blanks)
           neg == t # << >> /\ Head(t) = "-"
           u == IF neg THEN Tail(t) ELSE t
           p == ParseOf(Leading(u))
<1>1. t \in Seq(S)
  BY BehindSplits
<1>2. Strtol(text) = Signed(neg, Leading(u), Behind(u, DigitSet))
  BY DEF Strtol, Unblanked
<1> HIDE DEF t
<1>3. u \in Seq(S)
  BY <1>1
<1> HIDE DEF u
<1>4. Leading(u) \in Seq(DigitSet) /\ Behind(u, DigitSet) \in Seq(S)
  BY <1>3, LeadingDigits, BehindSplits
<1>5. p \in Parsed /\ (~p.over /\ p.result <= Small => p.result = Decimal(Leading(u)))
  BY <1>4, SmallParse
<1>6. /\ Strtol(text).value = (IF neg THEN -p.result ELSE p.result)
      /\ Strtol(text).inRange => ~p.over
      /\ Strtol(text).rest = Behind(u, DigitSet)
  <2> HIDE DEF neg
  <2>1. \A q, r : LET s == Signed(q, r, Behind(u, DigitSet))
                  IN  /\ s.value = (IF q THEN -ParseOf(r).result ELSE ParseOf(r).result)
                      /\ s.inRange => ~ParseOf(r).over
                      /\ s.rest = Behind(u, DigitSet)
    BY DEF Signed
  <2> QED
    BY <1>2, <2>1
<1> QED
  BY <1>4, <1>5, <1>6 DEF t, u

\* A number without a sign is taken as its digits are parsed.
LEMMA SignedIs ==
  ASSUME NEW run, NEW rest, NEW z, z = Signed(FALSE, run, rest)
  PROVE  z.value = ParseOf(run).result /\ z.rest = rest
<1>1. Signed(FALSE, run, rest).value = ParseOf(run).result
  BY DEF Signed
<1>2. Signed(FALSE, run, rest).rest = rest
  BY DEF Signed
<1> QED
  BY <1>1, <1>2

\* A number without a sign that is in range was parsed in full.
LEMMA SignedInRange ==
  ASSUME NEW run, NEW rest, Signed(FALSE, run, rest).inRange
  PROVE  ~ParseOf(run).over
  BY DEF Signed

\* A text without blanks and sign before its digits: what is taken for its number.
LEMMA PlainParsed ==
  ASSUME NEW S, NEW text \in Seq(S), Behind(text, Blanks) = text,
         ~(text # << >> /\ Head(text) = "-")
  PROVE  LET p == ParseOf(Leading(text))
         IN  /\ p \in Parsed
             /\ Strtol(text).value = p.result
             /\ Strtol(text).rest = Behind(text, DigitSet)
             /\ Strtol(text).inRange => ~p.over
             /\ ~p.over /\ p.result <= Small => p.result = Decimal(Leading(text))
<1>1. Strtol(text) = Signed(FALSE, Leading(text), Behind(text, DigitSet))
  BY DEF Strtol, Unblanked
<1>2. /\ Strtol(text).value = ParseOf(Leading(text)).result
      /\ Strtol(text).rest = Behind(text, DigitSet)
      /\ Strtol(text).inRange => ~ParseOf(Leading(text)).over
  <2> DEFINE z == Strtol(text)
             run == Leading(text)
             rest == Behind(text, DigitSet)
  <2>1. z = Signed(FALSE, run, rest)
    BY <1>1
  <2> HIDE DEF z, run, rest
  <2>2. z.value = ParseOf(run).result
    BY <2>1, SignedIs
  <2>3. z.rest = rest
    BY <2>1, SignedIs
  <2>4. z.inRange => ~ParseOf(run).over
    BY <2>1, SignedInRange
  <2> QED
    BY <2>2, <2>3, <2>4 DEF z, run, rest
<1>3. /\ ParseOf(Leading(text)) \in Parsed
      /\ ~ParseOf(Leading(text)).over /\ ParseOf(Leading(text)).result <= Small =>
           ParseOf(Leading(text)).result = Decimal(Leading(text))
  BY LeadingDigits, SmallParse
<1> QED
  BY <1>2, <1>3

\* A text is never taken for anything but a number.
LEMMA ValueTyped ==
  ASSUME NEW S, NEW text \in Seq(S)
  PROVE  Strtol(text).value \in Int /\ Strtol(text).rest \in Seq(S)
<1> DEFINE t == Behind(text, Blanks)
           neg == t # << >> /\ Head(t) = "-"
           p == ParseOf(Leading(IF neg THEN Tail(t) ELSE t))
<1>1. /\ p \in Parsed /\ Strtol(text).value = (IF neg THEN -p.result ELSE p.result)
      /\ Strtol(text).rest \in Seq(S)
  BY TextParsed
<1> HIDE DEF p, neg
<1>2. p.result \in Int
  BY <1>1, NumberAssumption DEF Parsed
<1> QED
  BY <1>1, <1>2

\* For every width of unsigned long, every bound the options set, and a number of
\* any length: a text that U_strtol takes for a small number, and does not refuse, has
\* the digits of that number behind its blanks (u_sstream.c 607-665).
THEOREM NoSmallFromLarge ==
  ASSUME NEW text, IsSequence(text),
         Strtol(text).inRange, Strtol(text).value \in 1..Small
  PROVE  Strtol(text).value = Decimal(Leading(Behind(text, Blanks)))
<1> DEFINE S == {text[i] : i \in DOMAIN text}
           t == Behind(text, Blanks)
           neg == t # << >> /\ Head(t) = "-"
           u == IF neg THEN Tail(t) ELSE t
           p == ParseOf(Leading(u))
<1>1. text \in Seq(S)
  BY DEF IsSequence
<1> HIDE DEF S
<1>2. /\ p \in Parsed /\ ~p.over
      /\ Strtol(text).value = (IF neg THEN -p.result ELSE p.result)
      /\ ~p.over /\ p.result <= Small => p.result = Decimal(Leading(u))
  BY <1>1, TextParsed
<1>3. p.result \in Nat
  BY <1>2, NumberAssumption DEF Parsed
<1> HIDE DEF p
<1>4. ~neg
  BY <1>2, <1>3, NumberAssumption
<1>5. Strtol(text).value = p.result /\ p.result <= Small
  BY <1>2, <1>4, NumberAssumption
<1>6. u = t
  BY <1>4
<1> QED
  BY <1>2, <1>5, <1>6

=============================================================================
