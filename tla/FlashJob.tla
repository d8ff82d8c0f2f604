------------------------------ MODULE FlashJob ------------------------------
(***************************************************************************)
(* What a flash session promises its user, whatever happens on the port:   *)
(* it praises only a device that holds the new firmware, leaves that       *)
(* device alone from then on, and does not give up while retry time is     *)
(* left and its loop turns, unless the device itself reports a wrong       *)
(* checksum.                                                               *)
(***************************************************************************)

VARIABLES
  flash,    \* the device holds the "old" firmware, the "new" one, or "partial"
  verdict,  \* what the user was told
  open      \* retry time is left, and the loop can turn

jobVars == <<flash, verdict, open>>

JobInit == flash = "old" /\ verdict = "none" /\ open = TRUE

\* The device erases or stores; words under way reach it even after the session
\* has failed.
Change ==
  /\ verdict # "good"
  /\ \/ flash' = "partial"
     \/ flash = "partial" /\ flash' = "new"
  /\ UNCHANGED <<verdict, open>>

\* Also in the very iteration that gave up.
Praise ==
  /\ flash = "new"
  /\ verdict \in {"none", "failed"}
  /\ verdict' = "good"
  /\ UNCHANGED <<flash, open>>

\* The checksum the device reports is not that of the new firmware.  The report
\* may be late, and the last block stored meanwhile.
Condemn ==
  /\ verdict \in {"none", "failed"}
  /\ verdict' = "bad"
  /\ UNCHANGED <<flash, open>>

GiveUp ==
  /\ ~open
  /\ verdict = "none"
  /\ verdict' = "failed"
  /\ UNCHANGED <<flash, open>>

Close ==
  /\ open
  /\ open' = FALSE
  /\ UNCHANGED <<flash, verdict>>

JobNext == Change \/ Praise \/ Condemn \/ GiveUp \/ Close

JobSpec == JobInit /\ [][JobNext]_jobVars

=============================================================================
