------------------------------ MODULE SStream ------------------------------
(***************************************************************************)
(* The part of u_sstream.c that reads: a text, of which the stream holds    *)
(* what is behind its position, and a status.                               *)
(***************************************************************************)
EXTENDS NumberParser

Statuses == {"OK", "INVALID", "RANGE"}

\* U_sstream_init: an empty text is invalid.
Stream(s) == [text |-> s, status |-> IF s = << >> THEN "INVALID" ELSE "OK"]

\* U_sstream_starts_with
StartsWith(ss, s) == IsPrefix(s, ss.text)

Places(text, s) == {i \in 0..(Len(text) - 1) : IsPrefix(s, SubSeq(text, i + 1, Len(text)))}

Occurs(text, s) == Places(text, s) # {}

\* U_sstream_find: forward to the first occurrence, if there is one.
Find(ss, s) ==
  LET at == Places(ss.text, s)
  IN  IF at = {} THEN ss
      ELSE [ss EXCEPT !.text = SubSeq(@, 1 + CHOOSE i \in at : \A j \in at : i <= j, Len(@))]

\* U_sstream_skip_whitespace
SkipWhitespace(ss) == [ss EXCEPT !.text = Behind(@, Blanks)]

\* U_sstream_seek behind characters known to be there.
Skip(ss, n) == [ss EXCEPT !.text = SubSeq(@, n + 1, Len(@))]

\* What U_sstream_get_long makes of the result of U_strtol.
Taken(ss, r) ==
  [value |-> IF r.valid /\ r.inRange THEN r.value ELSE 0,
   ss |-> [text   |-> r.rest,
           status |-> IF ~r.valid THEN "INVALID"
                      ELSE IF ~r.inRange THEN "RANGE" ELSE ss.status]]

\* U_sstream_get_long: at the end of the text it is 0, and no error.
GetLong(ss) ==
  IF ss.text = << >> THEN [value |-> 0, ss |-> ss] ELSE Taken(ss, Strtol(ss.text))

=============================================================================
