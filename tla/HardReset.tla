----------------------------- MODULE HardReset -----------------------------
(***************************************************************************)
(* PL_ResetFTDI and PL_ResetRaspBee on Linux: libgpiod is loaded when it is *)
(* needed, a chip is looked for by its label, its line is toggled, and all  *)
(* is given back.  Two files do this, one for each version of the library   *)
(* the program is built for; any call into it may fail.  Both devices are   *)
(* reset in the same steps and differ in label, line and levels.            *)
(***************************************************************************)
EXTENDS Integers, SequencesExt, FiniteSetsExt

CONSTANTS Apis, MaxChips    \* builds, "v1" and "v2"; GPIO chips there are

ASSUME ResetAssumption == Apis \subseteq {"v1", "v2"} /\ MaxChips \in Nat

VARIABLE gpio    \* the build, what is held of the library, the last result, how often
                 \* gpiod_api_version was missing, and resets tried

\* The library; the chip, or the iterator over the chips; a chip's info; a requested
\* line; what its request is built from.
Resources == {"lib", "chip", "info", "line", "settings", "lineConfig", "requestConfig"}

ResetInit ==
  gpio = [api |-> "unused", held |-> [r \in Resources |-> 0], ret |-> 0, unversioned |-> 0,
          resets |-> 0]

Take(g, r)     == [g EXCEPT !.held[r] = @ + 1]
Give(g, r)     == [g EXCEPT !.held[r] = @ - 1]
Return(g, ret) == [g EXCEPT !.ret = ret]

\* What the library does in one reset: the calls that work, what each chip turns out
\* to be, and the call that refuses a line.
Outcomes ==
  [open : BOOLEAN, version : BOOLEAN, symbols : BOOLEAN, iter : BOOLEAN,
   chips : SeqOf({"noChip", "noInfo", "otherLabel", "noLine", "good"}, MaxChips),
   refuses : {"settings", "lineConfig", "add", "requestConfig", "request", "none"}]

-----------------------------------------------------------------------------
(* linux_libgpiod_v1_reset.c.                                              *)

\* A line that could not be requested is set and released all the same; a chip with
\* the label and no line is passed over.
V1Reset(g, o) ==
  LET loaded == Take(g, "lib")
      good   == \E i \in DOMAIN o.chips : o.chips[i] = "good"
      iter   == Take(loaded, "chip")
      toggled == IF good THEN Give(Take(iter, "line"), "line") ELSE iter
  IN  IF ~o.open THEN Return(g, -1)
      ELSE IF ~o.symbols THEN Return(Give(loaded, "lib"), -1)
      ELSE IF ~o.iter THEN Return(Give(loaded, "lib"), -2)
      ELSE Return(Give(Give(toggled, "chip"), "lib"), IF good THEN 0 ELSE -1)

-----------------------------------------------------------------------------
(* linux_libgpiod_v2_reset.c.                                              *)

\* Mutant: a chip with another label stays open.
LookAtKeeps(g, kind) ==
  CASE kind = "noChip" -> g
    [] kind = "noInfo" -> Give(Take(g, "chip"), "chip")
    [] OTHER           -> Give(Take(Take(g, "chip"), "info"), "info")

\* A chip that is not the one.
LookAt(g, kind) ==
  CASE kind = "noChip" -> g
    [] kind = "noInfo" -> Give(Take(g, "chip"), "chip")
    [] OTHER           -> Give(Give(Take(Take(g, "chip"), "info"), "info"), "chip")

\* plGetGpiodChip: the first chip with the label stays open.
plGetGpiodChip(g, o) ==
  LET found  == {i \in DOMAIN o.chips : o.chips[i] \in {"noLine", "good"}}
      passed == IF found = {} THEN o.chips ELSE SubSeq(o.chips, 1, Min(found) - 1)
      a      == FoldLeft(LookAt, g, passed)
  IN  IF found = {} THEN [gpio |-> a, chip |-> "none"]
      ELSE [gpio |-> Give(Take(Take(a, "chip"), "info"), "info"), chip |-> o.chips[Min(found)]]

\* plRequestOutputLine: what was built is freed whether or not the line is granted;
\* without a request configuration the request is made nevertheless.
plRequestOutputLine(g, o, chip) ==
  LET built ==
        CASE o.refuses = "settings"              -> << >>
          [] o.refuses = "lineConfig"            -> <<"settings">>
          [] o.refuses \in {"add", "requestConfig"} -> <<"settings", "lineConfig">>
          [] OTHER -> <<"settings", "lineConfig", "requestConfig">>
      a == FoldLeft(Take, g, built)
      granted == chip = "good" /\ o.refuses \in {"requestConfig", "none"}
      b == IF granted THEN Take(a, "line") ELSE a
  IN  [gpio |-> FoldLeft(Give, b, Reverse(built)), granted |-> granted]

V2Reset(g, o) ==
  LET loaded == Take(g, "lib")
      c      == plGetGpiodChip(loaded, o)
      r      == plRequestOutputLine(c.gpio, o, c.chip)
      toggled == IF r.granted THEN Give(r.gpio, "line") ELSE r.gpio
  IN  IF ~o.open THEN Return(g, -1)
      ELSE IF ~o.version THEN Return([loaded EXCEPT !.unversioned = @ + 1], -1)
      ELSE IF ~o.symbols THEN Return(Give(loaded, "lib"), -1)
      ELSE IF c.chip = "none" THEN Return(Give(c.gpio, "lib"), -2)
      ELSE Return(Give(Give(toggled, "chip"), "lib"), IF r.granted THEN 0 ELSE -1)

-----------------------------------------------------------------------------

\* The build is the same for all resets of a run.
ResetLine ==
  \E a \in IF gpio.api = "unused" THEN Apis ELSE {gpio.api}, o \in Outcomes :
    LET g == [gpio EXCEPT !.api = a, !.resets = @ + 1]
    IN  gpio' = IF a = "v1" THEN V1Reset(g, o) ELSE V2Reset(g, o)

\* Whichever call fails, a reset gives back all it took, so that the next attempt
\* finds the GPIO line free.  Only a library without gpiod_api_version stays loaded
\* (and trips the assertion on lib_gpiod_handle in the next reset of a debug build).
GpioPaired ==
  \A r \in Resources : gpio.held[r] = IF r = "lib" THEN gpio.unversioned ELSE 0

=============================================================================
