----------------------------- MODULE MCConsole -----------------------------
(* Instances of Console for TLC.                                           *)
EXTENDS Console

Dev(path, major, vendor, serial, model, byId) ==
  [path |-> <<"/dev/">> \o path, major |-> major, vendor |-> vendor, serial |-> serial,
   model |-> model, byId |-> byId]

FtdiDev(serial) ==
  Dev(<<"ttyUSB", "0">>, 188, "0403", <<serial>>, Ftdi,
      <<"usb-FTDI", "_">> \o Ftdi \o <<"_", serial, "-", "if00-port0">>)

ConBee2Dev ==
  Dev(<<"ttyACM", "0">>, 166, "1cf1", <<"DE19">>, ConBee2,
      <<"usb-dresden_elektronik_">> \o ConBee2 \o <<"_", "DE19", "-", "if00">>)

ConBee3Dev ==
  Dev(<<"ttyUSB", "1">>, 188, "0403", <<"DEAD">>, ConBee3,
      <<"usb-dresden_elektronik_">> \o ConBee3 \o <<"_", "DEAD", "-", "if00-port0">>)

CH340Dev ==
  Dev(<<"ttyUSB", "2">>, 188, CH340, << >>, <<"USB2.0-Serial">>,
      <<"usb-1a86_USB2.0-Serial", "-", "if00-port0">>)

Console0 == Dev(<<"tty", "0">>, 4, "none", << >>, << >>, << >>)

Attached ==
  {<< >>, <<Console0, FtdiDev("DJ00")>>, <<FtdiDev("DJ11"), Console0>>,
   <<ConBee2Dev, ConBee3Dev>>, <<CH340Dev, FtdiDev("DJ00")>>,
   <<ConBee3Dev, FtdiDev("DJ00"), ConBee2Dev>>}

File(fsize, name, magic, type, address, dataSize) ==
  [fsize |-> fsize, name |-> name, magic |-> magic, type |-> type, address |-> address,
   dataSize |-> dataSize]

Fw(n) == <<"fw", n>>

\* A ConBee I file, a RaspBee II file, one for a Hive, a raw one, one whose header
\* does not fit, and two that end in their header.
FilesA ==
  [p \in {Fw("1"), Fw("2"), Fw("3"), Fw("4"), Fw("5"), Fw("6")} |->
     CASE p = Fw("1") -> File(114, "none", TRUE, 1, 0, 100)
       [] p = Fw("2") -> File(114, "R21", TRUE, 30, 20480, 100)
       [] p = Fw("3") -> File(142, "none", TRUE, 60, 0, 128)
       [] p = Fw("4") -> File(200, "none", FALSE, 0, 0, 0)
       [] p = Fw("5") -> File(110, "none", TRUE, 1, 0, 100)
       [] OTHER       -> File(16, "none", TRUE, 90, 0, 0)]

\* Later: one is gone, one was cut off, one has grown.
FilesB ==
  [p \in {Fw("1"), Fw("3"), Fw("4")} |->
     CASE p = Fw("1") -> File(118, "none", TRUE, 90, 0, 100)
       [] p = Fw("3") -> File(12, "none", TRUE, 60, 0, 128)
       [] OTHER       -> File(300, "none", FALSE, 0, 0, 0)]

\* A RaspBee is the only device.
AllMachines ==
  [devs : Attached, udevadm : BOOLEAN, files : {FilesA, FilesB}, serial0 : {<< >>}]
  \cup [devs : {<< >>}, udevadm : {FALSE}, files : {FilesA, FilesB},
        serial0 : {<<"/dev/", "ttyAMA", "0">>}]

OneDesk ==
  {[devs |-> <<CH340Dev, FtdiDev("DJ00")>>, udevadm |-> TRUE, files |-> FilesA,
    serial0 |-> << >>]}

Builds == {"v1", "v2"}

O(option) == <<"-", option>>
D(path)   == <<O("d"), <<"/dev/">> \o path>>

Usb(n) == <<"ttyUSB", n>>
ByIdLink == <<O("d"), ByIdPath(FtdiDev("DJ00"))>>

\* 2097163 is 11 modulo Word.
AllArgvs ==
  {<< >>, <<O("l")>>, <<O("h")>>, <<O("l"), O("c")>>, <<O("z")>>, <<O("d"), O("r")>>,
   <<O("r")>> \o D(Usb("0")), <<O("c"), O("i")>> \o D(Usb("0")), <<O("k")>> \o D(<<"ttyACM", "0">>),
   <<O("c")>> \o D(Usb("1")), <<O("c"), O("b"), <<"3", "8", "4", "0", "0">>>> \o D(Usb("1")),
   <<O("c")>> \o D(Usb("2")), <<O("c"), O("x"), <<"3">>>> \o ByIdLink,
   D(Usb("0")) \o <<O("s"), <<"1", "1">>>>,
   D(Usb("0")) \o <<O("s"), <<" ", "2", "6", "a">>, O("H"), <<"1.2.3.4">>>>,
   D(Usb("0")) \o <<O("s"), <<"2", "0", "9", "7", "1", "6", "3">>>>,
   D(Usb("0")) \o <<O("s"), <<"-", "1", "1">>>>, D(Usb("0")) \o <<O("s"), <<"2", "7">>>>,
   D(Usb("0")) \o <<O("s")>>,
   <<O("f"), Fw("1")>>, <<O("f"), Fw("1")>> \o D(Usb("0")),
   <<O("f"), Fw("1"), O("t"), <<"6", "0">>>> \o D(Usb("0")),
   <<O("f"), Fw("2")>> \o D(<<"ttyAMA", "0">>), <<O("f"), Fw("3")>> \o D(Usb("2")),
   <<O("f"), Fw("4")>> \o D(Usb("1")), <<O("f"), Fw("4")>> \o D(<<"ttyACM", "0">>),
   <<O("f"), Fw("5")>> \o D(Usb("0")), <<O("f"), Fw("6")>> \o D(Usb("0")),
   <<O("f"), Fw("1"), O("f"), Fw("4")>> \o ByIdLink,
   D(<<"1", "2", "3", "4", "5", "6", "7", "8", "9", "0", "1", "2">>)}

Listing == {<<O("l")>>}

AllChars == {"rp", " ", "-", "0", "9", "x"}

AllStarts ==
  {<< >>, <<"rp", " ", "9">>, <<"rp", " ", "9", "9">>,
   <<"rp", " ", "9", " ", "0", "x", "9", "0", "9">>}
NoLine == {<< >>}

=============================================================================
