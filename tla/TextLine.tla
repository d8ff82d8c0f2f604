------------------------------ MODULE TextLine ------------------------------
(***************************************************************************)
(* What a line editor promises: a text with a cursor in it.  The text in    *)
(* front of the cursor and the text behind it are two sequences, so that    *)
(* editing never has to move anything.                                      *)
(***************************************************************************)
EXTENDS SequencesExt, Naturals

CONSTANTS
  Chars,     \* what can be typed
  Starts,    \* texts the line may hold at first
  Room       \* how many characters the line takes

VARIABLES
  before, behind   \* the text in front of the cursor and behind it

textVars == <<before, behind>>

Init ==
  /\ before \in Starts
  /\ behind = << >>

Move(b, a) == before' = b /\ behind' = a

\* A full line takes no more.
Type(ch)  == Len(before \o behind) < Room /\ Move(Append(before, ch), behind)
Backspace == before # << >> /\ Move(Front(before), behind)
Delete    == behind # << >> /\ Move(before, Tail(behind))
Left      == before # << >> /\ Move(Front(before), <<Last(before)>> \o behind)
Right     == behind # << >> /\ Move(Append(before, Head(behind)), Tail(behind))
Home      == Move(<< >>, before \o behind)
End       == Move(before \o behind, << >>)
Enter     == Move(<< >>, << >>)

Next ==
  \/ \E ch \in Chars : Type(ch)
  \/ Backspace \/ Delete \/ Left \/ Right \/ Home \/ End \/ Enter

Spec == Init /\ [][Next]_textVars

=============================================================================
