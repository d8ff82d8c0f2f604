------------------------------- MODULE Device -------------------------------
(***************************************************************************)
(* The device on the other end of the port: application firmware and the   *)
(* V1 or V3 bootloader.  Its code is not in this repository; it is         *)
(* modelled from what src/gcf.c sends to it and expects from it.           *)
(***************************************************************************)
EXTENDS Integers, Sequences

CONSTANTS
  ImageSize,  \* pages or blocks of the firmware
  BlockSize   \* blocks the V3 bootloader asks for at a time

ASSUME DeviceAssumption ==
  ImageSize \in Nat \ {0} /\ BlockSize \in Nat \ {0}

\* What a place of the flash memory holds: the firmware found at the start,
\* nothing, the page of that number, or bytes of no page.
Old   == -1
Blank == -2
Junk  == ImageSize

Places == 0..(ImageSize - 1)

\* "app" runs the firmware, "boot" waits for the host, "synced" for a V1
\* header, "loading" for the next page; "dead" holds the line and is silent.
Modes == {"app", "rebooting", "boot", "synced", "loading", "dead", "gone"}

\* v3: the bootloader is a V3 one, else V1.
DeviceRec == [v3 : BOOLEAN, mode : Modes, next : 0..ImageSize,
              image : [Places -> {Old, Blank, Junk} \cup Places]]

OldDevice(v3) == [v3 |-> v3, mode |-> "app", next |-> 0, image |-> [i \in Places |-> Old]]

GoodImage(d) == \A i \in Places : d.image[i] = i

Smaller(a, b) == IF a < b THEN a ELSE b

Identify(d) == IF d.v3 THEN [kind |-> "idResponse", crcOk |-> GoodImage(d)] ELSE [kind |-> "id"]

\* The request for what comes next.
Request(d) ==
  IF d.v3
  THEN [kind |-> "dataRequest",
        block |-> [offset |-> d.next, length |-> Smaller(BlockSize, ImageSize - d.next)]]
  ELSE [kind |-> "get", page |-> d.next]

Answer(d, s) == [dev |-> d, reply |-> s]
Silent(d)    == Answer(d, << >>)

Erased(d) == [d EXCEPT !.mode = "loading", !.next = 0, !.image = [i \in Places |-> Blank]]

\* After a page or block was stored: ask on, or check the whole image.
Stored(d) ==
  IF d.next < ImageSize THEN Answer(d, <<Request(d)>>)
  ELSE IF d.v3 THEN Answer([d EXCEPT !.mode = "app", !.next = 0], <<Identify(d)>>)
  ELSE IF GoodImage(d) THEN Answer([d EXCEPT !.mode = "app", !.next = 0], <<[kind |-> "valid"]>>)
  ELSE Answer([d EXCEPT !.mode = "boot", !.next = 0], <<[kind |-> "invalid"]>>)

\* The raw bytes of a V1 page carry no number: they go where the device is.
StorePage(d, p) ==
  Stored([d EXCEPT !.image[d.next] = Smaller(p, Junk), !.next = @ + 1])

\* A V3 block tells its offset; another one than asked for is ignored.
StoreBlock(d, m) ==
  IF m.status = 0 /\ m.offset = d.next /\ m.length > 0
  THEN Stored([d EXCEPT !.image = [i \in Places |-> IF i \in d.next..(d.next + m.length - 1)
                                                    THEN i ELSE @[i]],
                        !.next = @ + m.length])
  ELSE Silent(d)

InApp(d, m) ==
  CASE m.kind = "uartReset" -> Answer([d EXCEPT !.mode = "rebooting"],
                                      <<[kind |-> "watchdogWritten"]>>)
    [] m.kind = "queryFw"   -> Answer(d, <<[kind |-> "other"]>>)
    [] OTHER                -> Silent(d)

InV1Bootloader(d, m) ==
  CASE m.kind = "ID" /\ d.mode \in {"boot", "synced"}   -> Answer(d, <<Identify(d)>>)
    [] m.kind = "sync" /\ d.mode \in {"boot", "synced"} ->
         Answer([d EXCEPT !.mode = "synced"], <<[kind |-> "ready"], [kind |-> "eol"]>>)
    [] m.kind = "header" /\ d.mode = "synced"           ->
         Answer(Erased(d), <<Request(Erased(d))>>)
    [] m.kind = "page" /\ d.mode = "loading"            -> StorePage(d, m.page)
    [] OTHER                                            -> Silent(d)

InV3Bootloader(d, m) ==
  CASE m.kind = "idRequest"                   -> Answer(d, <<Identify(d)>>)
    [] m.kind = "updateRequest"               ->
         Answer(Erased(d), <<[kind |-> "updateResponse", success |-> TRUE], Request(Erased(d))>>)
    [] m.kind = "data" /\ d.mode = "loading"  -> StoreBlock(d, m)
    [] OTHER                                  -> Silent(d)

\* What the device does with a command, or with a pulse on its reset line.
DeviceReceives(d, m) ==
  CASE d.mode \in {"dead", "gone", "rebooting"} -> Silent(d)
    [] m.kind = "hardReset"                     -> Silent([d EXCEPT !.mode = "rebooting"])
    [] d.mode = "app"                           -> InApp(d, m)
    [] OTHER -> IF d.v3 THEN InV3Bootloader(d, m) ELSE InV1Bootloader(d, m)

=============================================================================
