----------------------------- MODULE LineEditor -----------------------------
(***************************************************************************)
(* GCF_KeyboardInput and GCF_ProcessInput of gcf.c, with the decoding of    *)
(* keys in PL_Loop.  uiInputLine is an array of cells in which characters   *)
(* are moved one by one; behind its text there is a terminator, except in a *)
(* full line: that one's goes behind the array, into gcf->retry.            *)
(***************************************************************************)
EXTENDS SStream

CONSTANTS
  Chars,     \* characters typed; "rp" and "read" are typed in one go
  Starts,    \* lines that may have been typed already
  MaxLine,   \* UI_MAX_INPUT_LENGTH
  EchoCap,   \* sizeof(buf), in which the line is echoed
  ArgCap,    \* sizeof(arg)
  MaxKeys    \* bound: keys pressed

ASSUME LineAssumption ==
  /\ MaxLine \in Nat /\ ArgCap \in Nat /\ MaxKeys \in Nat
  /\ EchoCap \in 1..(MaxLine - 1)
  /\ \A s \in Starts : s \in Seq(Chars) /\ Len(s) <= MaxLine

VARIABLES
  line,      \* gcf->uiInputLine
  pos, size, \* gcf->uiInputPos, gcf->uiInputSize
  keys,      \* keys pressed
  spilt,     \* what has been stored behind an array, of Overruns
  query      \* the last line entered, and the parameter query it led to

lineVars == <<line, pos, size, keys, spilt, query>>

Cells == 0..(MaxLine - 1)
NUL   == "NUL"

\* The terminator of a full line, in the first byte of gcf->retry; a line that is
\* echoed, in what the stack keeps behind buf[].  The program may stop there, as it
\* may anywhere in this module, which assumes no fairness; if it goes on, the line
\* is what it would have been.
Overruns == {"terminator", "echo"}

\* What a line of n characters stores behind an array when it is typed and echoed.
Overrun(n) ==
  {o \in Overruns : IF o = "terminator" THEN n = MaxLine ELSE EchoCap <= n /\ n < MaxLine}

Text == [i \in 1..size |-> line[i - 1]]

NoQuery == [text |-> << >>, sent |-> FALSE, id |-> 0, arg |-> << >>]

LineInit ==
  \E s \in Starts :
    /\ line = [i \in Cells |-> IF i < Len(s) THEN s[i + 1] ELSE NUL]
    /\ pos = Len(s) /\ size = Len(s)
    /\ keys = 0
    /\ spilt = UNION {Overrun(n) : n \in 0..Len(s)}
    /\ query = NoQuery

-----------------------------------------------------------------------------
(* GCF_ProcessInput.                                                       *)

HexDigits == <<"0", "1", "2", "3", "4", "5", "6", "7", "8", "9", "a", "b", "c", "d", "e", "f">>
HexValue(ch) == (CHOOSE i \in DOMAIN HexDigits : HexDigits[i] = ch) - 1

\* How often GCF_sstream_get_hexbyte succeeds, of which arg takes ArgCap.
Pairs(text) ==
  Max({n \in 0..(Len(text) \div 2) :
         \A i \in 1..(2 * n) : \E j \in DOMAIN HexDigits : HexDigits[j] = text[i]})

HexBytes(text) ==
  [i \in 1..Min({Pairs(text), ArgCap}) |->
     16 * HexValue(text[2 * i - 1]) + HexValue(text[2 * i])]

\* The payload behind the id, if 0x follows.
Payload(ss) == IF StartsWith(ss, <<"0", "x">>) THEN HexBytes(Skip(ss, 2).text) ELSE << >>

IsQuery(ss) == \E cmd \in {"rp", "read"} : StartsWith(ss, <<cmd, " ">>)

QueryText(text) == GetLong(SkipWhitespace(Find(Stream(text), <<" ">>)))

\* Mutant: the id is not compared with 255.
AcceptsAny(n) == n.ss.status = "OK"

Accepts(n) == n.ss.status = "OK" /\ n.value <= 255

\* A query goes out through gcfCommandQueryParameter with the id as one byte.
\* The line is empty afterwards, though its cells keep what was in them.
GCF_ProcessInput ==
  LET ss == Stream(Text)
      n  == QueryText(Text)
      ok == size > 0 /\ IsQuery(ss) /\ Accepts(n)
  IN  /\ query' = [text |-> Text, sent |-> ok,
                   id   |-> IF ok THEN n.value % 256 ELSE 0,
                   arg  |-> IF ok THEN Payload(SkipWhitespace(n.ss)) ELSE << >>]
      /\ pos' = 0 /\ size' = 0
      /\ UNCHANGED line

-----------------------------------------------------------------------------
(* GCF_KeyboardInput.                                                      *)

Backspace ==
  /\ pos > 0 /\ size > 0
  /\ line' = [i \in Cells |-> IF i = size - 1 THEN NUL
                              ELSE IF i >= pos - 1 /\ i < size - 1 THEN line[i + 1]
                              ELSE line[i]]
  /\ pos' = pos - 1 /\ size' = size - 1

\* In a full line the last cell is first filled with the byte behind the array.
Delete ==
  /\ pos < size
  /\ line' = [i \in Cells |-> IF i = size - 1 THEN NUL
                              ELSE IF i >= pos /\ i < size - 1 THEN line[i + 1]
                              ELSE line[i]]
  /\ size' = size - 1
  /\ UNCHANGED pos

MoveTo(p) == pos' = p /\ UNCHANGED <<line, size>>

Left  == pos > 0    /\ MoveTo(pos - 1)
Right == pos < size /\ MoveTo(pos + 1)
Pos1  == MoveTo(0)
End   == MoveTo(size)

\* Mutant: moved from the front, so that the first one is repeated.
InsertedSmeared(ch) ==
  [i \in Cells |-> IF i = size + 1 THEN NUL
                   ELSE IF i = pos THEN ch
                   ELSE IF i > pos /\ i <= size THEN line[pos]
                   ELSE line[i]]

\* The line with the characters from pos on moved up by one, the new one in their
\* place, and the terminator behind, for which a line now full has no cell.
Inserted(ch) ==
  [i \in Cells |-> IF i = size + 1 THEN NUL
                   ELSE IF i = pos THEN ch
                   ELSE IF i > pos /\ i <= size THEN line[i - 1]
                   ELSE line[i]]

\* Mutant: a full line takes one more.
TypeUnchecked(ch) == size <= MaxLine /\ line' = Inserted(ch) /\ pos' = pos + 1 /\ size' = size + 1

Type(ch) ==
  /\ size < MaxLine
  /\ line' = Inserted(ch)
  /\ pos' = pos + 1 /\ size' = size + 1

\* Keys that PL_Loop does not know, or that do nothing, and pasted text, which it
\* reads at once and does not take for a key.
Ignored == UNCHANGED <<line, pos, size>>

Pressed ==
  /\ keys < MaxKeys
  /\ keys' = keys + 1

Key ==
  /\ Pressed
  /\ \/ GCF_ProcessInput
     \/ /\ \/ Backspace \/ Delete \/ Left \/ Right \/ Pos1 \/ End \/ Ignored
           \/ \E ch \in Chars : Type(ch)
        /\ UNCHANGED query
  /\ spilt' = spilt \cup Overrun(size')

-----------------------------------------------------------------------------
(* Properties.                                                             *)

\* The cursor stays in the text and the text in its array, with a terminator behind
\* it.  Two lines are too long for what becomes of them, and leave their mark behind
\* an array: a full one, whose terminator has no cell, and before it is full one of
\* EchoCap characters, which the echo copies into a smaller array.
LineTypeOK ==
  /\ line \in [Cells -> Chars \cup {NUL}]
  /\ 0 <= pos /\ pos <= size /\ size <= MaxLine
  /\ size < MaxLine /\ size > 0 => line[size] = NUL
  /\ spilt \subseteq Overruns
  /\ size = MaxLine => "terminator" \in spilt
  /\ EchoCap <= size \/ "terminator" \in spilt => "echo" \in spilt
  /\ query.sent => query.id \in 0..255 /\ Len(query.arg) <= ArgCap

\* Moving characters from cell to cell, at the ends and in the middle of the line,
\* does what an editor promises.
Editor ==
  INSTANCE TextLine WITH Room   <- MaxLine,
                         before <- SubSeq(Text, 1, pos),
                         behind <- SubSeq(Text, pos + 1, size)

EditsLine == Editor!Spec

\* The query that goes out is the one that was typed: its parameter is the number
\* behind the command, and its payload the bytes that follow.  A number with a
\* minus sign becomes another, and an empty one 0.
CommandIsTyped ==
  query.sent /\ ~Contains(query.text, "-") =>
    LET rest   == SkipWhitespace(Skip(Stream(query.text), 1)).text
        bytes  == Skip(Find(Stream(rest), <<"x">>), 1).text
    IN  /\ query.id = Decimal(Leading(rest))
        /\ \A i \in DOMAIN query.arg :
             /\ 2 * i <= Len(bytes)
             /\ query.arg[i] = 16 * HexValue(bytes[2 * i - 1]) + HexValue(bytes[2 * i])

=============================================================================
