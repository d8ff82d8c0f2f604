----------------------------- MODULE MCGcfHost -----------------------------
(* Instances of GcfHost for TLC.                                           *)
EXTENDS GcfHost

\* Pages of the file and behind it; blocks that may reach behind the file, be
\* too long or be empty.
AnyPages  == 0..(FileSize + 1)
AnyBlocks == [offset : 0..(FileSize + 1), length : 0..(MaxLen + 1)]

Program(type, v3, al) ==
  [task |-> "T_PROGRAM", devType |-> type, fileV3 |-> v3, aligned |-> al]
Reset(type) == [task |-> "T_RESET", devType |-> type, fileV3 |-> FALSE, aligned |-> FALSE]

\* A V1 file that is not a multiple of the page size.
ConBee1 == {Program("DEV_CONBEE_1", FALSE, FALSE)}

\* Every way through the reset, both ways into the bootloader, both protocols
\* and both kinds of file size.
EveryPath ==
  ConBee1 \cup {Program("DEV_CONBEE_2", FALSE, TRUE), Program("DEV_RASPBEE_2", TRUE, FALSE),
                Program("DEV_HIVE", TRUE, TRUE), Reset("DEV_CONBEE_1"), Reset("DEV_CONBEE_2")}

=============================================================================
