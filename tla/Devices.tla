------------------------------ MODULE Devices ------------------------------
(***************************************************************************)
(* What linux_get_usb_devices.c finds and PL_GetDevices returns.  A machine *)
(* has character devices, each with what udev and /dev/serial/by-id tell    *)
(* of it; paths and names are sequences of the parts the code looks for.    *)
(***************************************************************************)
EXTENDS SStream

CONSTANT MaxDevices     \* MAX_DEVICES

ConBee2   == <<"ConBee_II">>
ConBee3   == <<"ConBee_II", "I">>         \* "ConBee_III"
Ftdi      == <<"FT230X_Basic_UART">>
Espressif == <<"USB_JTAG_serial_debug_unit">>

UsbMajors == {166, 188}
Vendors   == {"1cf1", "0403", "1a86", "303a"}
CH340     == "1a86"

Row(path, stable, serial, name, baud) ==
  [path |-> path, stablepath |-> stable, serial |-> serial, name |-> name, baudrate |-> baud]

\* Mutant: the end of the array is not looked at.
ListedAll(rows) == FoldLeft(LAMBDA list, row : list \o row, << >>, rows)

\* The rows of a list in the array, as long as there is room; a device gives one
\* or none.
Listed(rows) ==
  FoldLeft(LAMBDA list, row : IF Len(list) < MaxDevices THEN list \o row ELSE list,
           << >>, rows)

-----------------------------------------------------------------------------
(* query_udevadm.                                                          *)

\* A CH340 has no serial number of its own.
UdevSerial(d) == IF d.vendor = CH340 /\ d.serial = << >> THEN <<"1">> ELSE d.serial

UdevBaudrate(d) ==
  IF d.vendor = CH340 \/ \E m \in {ConBee3, ConBee2, Espressif} : IsPrefix(m, d.model)
  THEN 115200 ELSE 0

UdevName(d) == IF d.vendor = "303a" THEN <<"Espressif">> ELSE d.model

IsUdevDevice(d) ==
  /\ d.major \in UsbMajors /\ d.vendor \in Vendors
  /\ UdevSerial(d) # << >> /\ UdevName(d) # << >>

UdevRow(d) == Row(d.path, d.path, UdevSerial(d), UdevName(d), UdevBaudrate(d))

UdevDevices(m) ==
  IF ~m.udevadm THEN << >>
  ELSE Listed([i \in DOMAIN m.devs |->
                 IF IsUdevDevice(m.devs[i]) THEN <<UdevRow(m.devs[i])>> ELSE << >>])

-----------------------------------------------------------------------------
(* plGetLinuxUSBDevices, when udevadm finds nothing.                       *)

\* What is looked for in a link, in this order, the name the device gets and the
\* baud rate.
ByIdName(part, name, baud) == [part |-> part, name |-> name, baudrate |-> baud]
ByIdNames ==
  <<ByIdName(ConBee2, ConBee2, 115200), ByIdName(ConBee3, ConBee3, 115200),
    ByIdName(Ftdi, <<"ConBee">>, 38400),
    ByIdName(<<"Espressif", "_">> \o Espressif, <<"Espressif">>, 115200)>>

Matches(d) == {i \in DOMAIN ByIdNames : Occurs(d.byId, ByIdNames[i].part)}
FirstMatch(d) == ByIdNames[CHOOSE i \in Matches(d) : \A j \in Matches(d) : i <= j]

\* The serial number begins one character behind the name, and ends in front of
\* the next dash.
ByIdSerial(d) ==
  LET n    == FirstMatch(d).part
      rest == Skip(Find(Stream(d.byId), n), Len(n) + 1).text
      dash == {i \in DOMAIN rest : rest[i] = "-"}
  IN  IF dash = {} THEN << >>
      ELSE SubSeq(rest, 1, (CHOOSE i \in dash : \A j \in dash : i <= j) - 1)

IsByIdDevice(d) == d.byId # << >> /\ Matches(d) # {}

ByIdPath(d) == <<"/dev", "/serial", "/by-id/">> \o d.byId

ByIdRow(d) ==
  Row(d.path, ByIdPath(d), ByIdSerial(d), FirstMatch(d).name, FirstMatch(d).baudrate)

ByIdDevices(m) ==
  Listed([i \in DOMAIN m.devs |->
            IF IsByIdDevice(m.devs[i]) THEN <<ByIdRow(m.devs[i])>> ELSE << >>])

\* The second way is taken when the first finds nothing.
Else(a, b) == IF a # << >> THEN a ELSE b

UsbDevices(m) == Else(UdevDevices(m), ByIdDevices(m))

-----------------------------------------------------------------------------
(* plGetLinuxSerialDevices and PL_GetDevices.                              *)

SerialDevices(m) ==
  IF m.serial0 = << >> THEN << >>
  ELSE <<Row(m.serial0, <<"/dev", "/serial", "0">>, << >>, <<"RaspBee">>, 38400)>>

\* Mutant: the list of by-id links is not looked at.
UdevOnly(m) == Else(UdevDevices(m), SerialDevices(m))

PL_GetDevices(m) == Else(UsbDevices(m), SerialDevices(m))

=============================================================================
