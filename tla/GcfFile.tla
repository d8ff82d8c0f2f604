------------------------------ MODULE GcfFile ------------------------------
(***************************************************************************)
(* The firmware file as GCF_ParseFile of gcf.c takes it apart.  A file is   *)
(* what it says of itself: the version in its name, the length that was     *)
(* read, and the fields of its header.                                      *)
(***************************************************************************)
EXTENDS NumberParser

HeaderSize == 14                         \* GCF_HEADER_SIZE
FLASH_TYPE_APP_UNENCRYPTED == 0
FLASH_TYPE_APP_ENCRYPTED   == 60
FLASH_TYPE_APP_ENCRYPTED_2 == 90

\* A file as read: the bytes read, the platform in its name, and, with the
\* magic in front, the type, target address and data size of the header.
\* A raw file has no magic.
IsFile(f) ==
  /\ f.fsize \in Nat /\ f.name \in {"none", "R21", "AVR"}
  /\ f.magic \in BOOLEAN
  /\ f.type \in 0..255 /\ f.address \in Nat /\ f.dataSize \in Nat

\* What gcf->file holds, with the outcome of GCF_ParseFile.  Bytes behind the
\* end of a short file read as 0.
Parse(f, ok, type, address, offset, size, crc32) ==
  [ok |-> ok, fsize |-> f.fsize, fwVersion |-> f.name, gcfFileType |-> type,
   gcfTargetAddress |-> address, dataOffset |-> offset, gcfFileSize |-> size,
   gcfCrc32 |-> crc32]

NoFile ==
  [ok |-> FALSE, fsize |-> 0, fwVersion |-> "none", gcfFileType |-> 0,
   gcfTargetAddress |-> 0, dataOffset |-> 0, gcfFileSize |-> 0, gcfCrc32 |-> FALSE]

DataOffset(f) ==
  IF ~f.magic THEN 0
  ELSE IF f.type = FLASH_TYPE_APP_ENCRYPTED_2 THEN HeaderSize + 4
  ELSE HeaderSize

\* The CRC32 of the newer formats, if the file is long enough to hold it.
HasCrc32(f) ==
  f.magic /\ \/ f.type = FLASH_TYPE_APP_ENCRYPTED   /\ f.fsize >= HeaderSize + 28
             \/ f.type = FLASH_TYPE_APP_ENCRYPTED_2 /\ f.fsize >= HeaderSize + 4

\* Mutant: the size in the header is believed.
SizeAny(f, size) == TRUE

\* The size in the header is what was read behind the header, as unsigned long.
SizeMatches(f, size) == size = (f.fsize - DataOffset(f)) % Word

GCF_ParseFile(f) ==
  LET size == IF f.magic THEN f.dataSize ELSE f.fsize
  IN  IF f.fsize < HeaderSize THEN [NoFile EXCEPT !.fsize = f.fsize]
      ELSE Parse(f, SizeMatches(f, size),
                 IF f.magic THEN f.type ELSE FLASH_TYPE_APP_UNENCRYPTED,
                 IF f.magic THEN f.address ELSE 0,
                 DataOffset(f), size, HasCrc32(f))

=============================================================================
