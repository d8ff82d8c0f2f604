------------------------------ MODULE Console ------------------------------
(***************************************************************************)
(* What a user does: the command line, read again for each attempt, and the *)
(* keyboard, which PL_Loop polls as long as the program runs; and the reset *)
(* line, which -r and -f resort to when the device does not answer.         *)
(***************************************************************************)
EXTENDS CommandLine, LineEditor, HardReset

CONSTANT Desks    \* bound: the machines with somebody at the keyboard, or a reset line

consoleVars == <<argv, machine, gcf, attempts, line, pos, size, keys, spilt, query, gpio>>

Init == CommandInit /\ LineInit /\ ResetInit

\* Bound: no attempt once somebody has typed.
Try ==
  /\ keys = 0
  /\ Attempt
  /\ UNCHANGED <<lineVars, gpio>>

\* Bound: keys for -c only, though every task takes them.
Press ==
  /\ gcf.running /\ attempts > 0
  /\ gcf.task = "T_CONNECT" /\ machine \in Desks
  /\ Key
  /\ UNCHANGED <<cmdVars, gpio>>

\* ST_ResetFtdi and ST_ResetRaspBee.  Bound: once in an attempt, before it is over.
Toggle ==
  /\ gcf.running /\ attempts > 0 /\ gpio.resets < attempts
  /\ gcf.state \in {"ST_Reset", "ST_Program"} /\ machine \in Desks
  /\ gcf.devType \in {"DEV_CONBEE_1", "DEV_RASPBEE_1", "DEV_RASPBEE_2"}
  /\ ResetLine
  /\ UNCHANGED <<cmdVars, lineVars>>

Next == Try \/ Press \/ Toggle

Spec == Init /\ [][Next]_consoleVars

=============================================================================
