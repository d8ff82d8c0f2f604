--------------------------- MODULE MCFlashSystem ---------------------------
(* Instances of FlashSystem for TLC.                                       *)
EXTENDS FlashSystem

\* Page numbers a corrupted GET may carry, and blocks a device asks for.
SomePages  == 0..FileSize
SomeBlocks == [offset : 0..FileSize, length : 1..BlockSize]

Program(type, v3) == [task |-> "T_PROGRAM", devType |-> type, fileV3 |-> v3, aligned |-> FALSE]
Reset(type)       == [task |-> "T_RESET", devType |-> type, fileV3 |-> FALSE, aligned |-> FALSE]

ConBee1  == Program("DEV_CONBEE_1", FALSE)
ConBee2  == Program("DEV_CONBEE_2", FALSE)
RaspBee2 == Program("DEV_RASPBEE_2", TRUE)
Hive     == Program("DEV_HIVE", TRUE)

\* Devices that are told apart by bus and bootloader.
EveryKind == {ConBee1, ConBee2, RaspBee2, Hive}

\* The devices that ST_BootloaderConnect leads to.
UsbKinds  == {ConBee2, Hive}
UsbAndReset == UsbKinds \cup {Reset("DEV_CONBEE_2")}

OneConBee1  == {ConBee1}
OneRaspBee2 == {RaspBee2}

=============================================================================
