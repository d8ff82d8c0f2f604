---------------------------- MODULE NumberParser ----------------------------
(***************************************************************************)
(* U_strtol of u_sstream.c, which reads every number a user gives: channel, *)
(* baud rate, seconds, debug level, parameter.  A text is a sequence of     *)
(* characters; unsigned long counts modulo Word.                            *)
(***************************************************************************)
EXTENDS Integers, SequencesExt

CONSTANTS
  Word,    \* values of an unsigned long, 2^32 or 2^64
  Small    \* the largest number the program accepts anywhere

ASSUME NumberAssumption ==
  /\ Word \in Nat /\ Small \in Nat
  /\ 10 * Small + 9 < Word

IsSequence(s) == s \in Seq({s[i] : i \in DOMAIN s})

Digits == <<"0", "1", "2", "3", "4", "5", "6", "7", "8", "9">>
DigitSet == {Digits[i] : i \in DOMAIN Digits}
ValueOf(ch) == (CHOOSE i \in DOMAIN Digits : Digits[i] = ch) - 1

Blanks == {" ", "\t"}

\* What the loop over the digits computes.
Parsed == [result : 0..(Word - 1), over : BOOLEAN]
NoDigits == [result |-> 0, over |-> FALSE]

\* Mutant: results that wrap are not noticed.
AddUnchecked(p, d) == [p EXCEPT !.result = (@ * 10 + d) % Word]

\* One digit; an overflow is noticed when the result becomes smaller.
Add(p, d) ==
  LET sum == (p.result * 10 + d) % Word
  IN  [result |-> sum, over |-> p.over \/ sum < p.result]

\* The loop over the digits.
ParseOf(run) == FoldLeft(LAMBDA q, ch : Add(q, ValueOf(ch)), NoDigits, run)

\* The text behind the characters of a set it begins with.
Behind(s, set) ==
  LET others == {i \in DOMAIN s : s[i] \notin set}
  IN  IF others = {} THEN << >>
      ELSE SubSeq(s, CHOOSE i \in others : \A j \in others : i <= j, Len(s))

\* The digits a text begins with, and the number they are, counted without a bound.
Leading(t) == SubSeq(t, 1, Len(t) - Len(Behind(t, DigitSet)))
Decimal(run) == FoldLeft(LAMBDA n, ch : 10 * n + ValueOf(ch), 0, run)

\* The digits of a text behind its sign: the number, whether err is 0, and what is
\* left behind endp.
Signed(neg, run, rest) ==
  LET p   == ParseOf(run)
      max == Word \div 2 - 1
  IN  [value   |-> IF neg THEN -p.result ELSE p.result,
       valid   |-> run # << >>,
       inRange |-> ~p.over /\ p.result <= (IF neg THEN max + 1 ELSE max),
       rest    |-> rest]

Unblanked(t) ==
  LET neg  == t # << >> /\ Head(t) = "-"
      u    == IF neg THEN Tail(t) ELSE t
  IN  Signed(neg, Leading(u), Behind(u, DigitSet))

\* U_strtol
Strtol(s) == Unblanked(Behind(s, Blanks))

=============================================================================
