---------------------------- MODULE CommandLine ----------------------------
(***************************************************************************)
(* gcfProcessCommandline of gcf.c.  ST_Init runs it when the program starts *)
(* and again for each attempt, on the same arguments; the firmware files    *)
(* and the devices may have changed meanwhile.                              *)
(***************************************************************************)
EXTENDS GcfFile, Devices

CONSTANTS
  Argvs,        \* command lines: sequences of arguments, each a sequence of characters
  Machines,     \* what an attempt finds: files, devices, udevadm, serial0
  PathCap,      \* longest path in gcf->devpath and file.fname
  MaxAttempts

ASSUME CommandAssumption ==
  /\ PathCap \in Nat /\ MaxDevices \in Nat \ {0} /\ MaxAttempts \in Nat
  /\ 115200 <= Small
  /\ \A a \in Argvs : IsSequence(a) /\ \A i \in DOMAIN a : IsSequence(a[i])
  /\ \A m \in Machines : IsSequence(m.devs) /\ \A p \in DOMAIN m.files : IsFile(m.files[p])

VARIABLES
  argv,         \* gcf->argv, without the program's name
  machine,      \* what the last attempt found
  gcf,          \* the fields an attempt sets
  attempts

cmdVars == <<argv, machine, gcf, attempts>>

NoPath == << >>

\* Fields of GCF and what they range over; maxTime is in seconds behind startTime,
\* where -1 stands for any time before it.  Locals: ret, the option that waits for
\* its argument, and whether the function has returned.
Fields ==
  [state |-> {"ST_Init", "ST_Void", "ST_ListDevices", "ST_Program", "ST_Connect",
              "ST_SniffConnect", "ST_DumpFlashConnect", "ST_Reset"},
   task |-> {"T_NONE", "T_RESET", "T_PROGRAM", "T_LIST", "T_CONNECT", "T_DUMP_FLASH",
             "T_SNIFF", "T_HELP"},
   uiInteractive |-> BOOLEAN, uiDebugLevel |-> 0..3, sniffChannel |-> {0} \cup 11..26,
   devBaudrate |-> {0, 38400, 115200},
   devType |-> {"DEV_UNKNOWN", "DEV_CONBEE_1", "DEV_CONBEE_2", "DEV_RASPBEE_1",
                "DEV_RASPBEE_2", "DEV_HIVE"},
   maxTime |-> -1..3600, running |-> BOOLEAN, ret |-> {"SUCCESS", "FAILED"},
   want |-> {"none"}, stop |-> {FALSE}]

\* GCF_Init and the zeroed globals.
GCF_Init ==
  [state |-> "ST_Init", task |-> "T_NONE", uiInteractive |-> FALSE, uiDebugLevel |-> 0,
   sniffChannel |-> 0, sniffHost |-> <<"127.0.0.1">>, devpath |-> NoPath,
   devSerialNum |-> << >>, devices |-> << >>, devType |-> "DEV_UNKNOWN", devBaudrate |-> 0,
   fname |-> NoPath, file |-> NoFile, maxTime |-> -1, running |-> TRUE,
   ret |-> "FAILED", want |-> "none", stop |-> FALSE]

\* Mutant: the serial number of the attempt before is kept.
ResetKeepsSerial(g, args) ==
  [g EXCEPT !.state = "ST_Void", !.task = IF args = << >> THEN "T_HELP" ELSE "T_NONE",
            !.uiInteractive = FALSE, !.uiDebugLevel = 0, !.sniffChannel = 0,
            !.devpath = NoPath, !.devType = "DEV_UNKNOWN", !.devBaudrate = 0,
            !.fname = NoPath, !.file = [@ EXCEPT !.gcfFileType = 0, !.fsize = 0],
            !.ret = "FAILED"]

\* What is set before the arguments are read; the retry time, the host, and the
\* rest of the file stay.
Reset(g, args) ==
  [g EXCEPT !.state = "ST_Void", !.task = IF args = << >> THEN "T_HELP" ELSE "T_NONE",
            !.uiInteractive = FALSE, !.uiDebugLevel = 0, !.sniffChannel = 0,
            !.devpath = NoPath, !.devSerialNum = << >>, !.devType = "DEV_UNKNOWN",
            !.devBaudrate = 0, !.fname = NoPath,
            !.file = [@ EXCEPT !.gcfFileType = 0, !.fsize = 0],
            !.ret = "FAILED"]

Fail(g)    == [g EXCEPT !.ret = "FAILED", !.stop = TRUE]
Succeed(g) == [g EXCEPT !.ret = "SUCCESS"]

-----------------------------------------------------------------------------
(* The arguments, gcf.c 2433-2685.                                         *)

\* An option; one that wants an argument leaves the rest to Argument.
Option(g, arg) ==
  LET o == IF Len(arg) > 1 THEN arg[2] ELSE "none"
  IN  CASE o = "r" -> [g EXCEPT !.task = "T_RESET"]
        [] o = "c" -> [g EXCEPT !.task = "T_CONNECT"]
        [] o = "k" -> [g EXCEPT !.task = "T_DUMP_FLASH"]
        [] o = "i" -> [g EXCEPT !.uiInteractive = TRUE]
        [] o = "l" -> Succeed([g EXCEPT !.task = "T_LIST", !.state = "ST_ListDevices"])
        [] o \in {"h", "?"} -> Succeed([g EXCEPT !.task = "T_HELP"])
        [] o = "f" -> [g EXCEPT !.task = "T_PROGRAM", !.want = o]
        [] o \in {"d", "b", "t", "s", "H", "x"} -> [g EXCEPT !.want = o]
        [] OTHER -> Fail(g)

Dash(arg) == arg # << >> /\ Head(arg) = "-"

Number(arg) == GetLong(Stream(arg))

InRange(n, lo, hi) == n.ss.status = "OK" /\ n.value \in lo..hi

Checked(g) == IF g.file.ok THEN g ELSE Fail(g)

\* -f: read and checked at once.
FileArgument(g, arg, m) ==
  IF Len(arg) > PathCap THEN Fail(g)
  ELSE IF arg \notin DOMAIN m.files THEN Fail([g EXCEPT !.fname = arg])
  ELSE Checked([g EXCEPT !.fname = arg, !.file = GCF_ParseFile(m.files[arg])])

\* The argument arg, as a number n, of the option before it.
ArgumentOf(want, g, arg, n, m) ==
  CASE want = "d" -> IF Len(arg) > PathCap THEN Fail(g) ELSE [g EXCEPT !.devpath = arg]
    [] want = "f" -> FileArgument(g, arg, m)
    [] want = "b" -> IF InRange(n, 38400, 38400) \/ InRange(n, 115200, 115200)
                     THEN [g EXCEPT !.devBaudrate = n.value] ELSE Fail(g)
    [] want = "t" -> IF InRange(n, 0, 3600) THEN [g EXCEPT !.maxTime = n.value] ELSE Fail(g)
    [] want = "s" -> IF InRange(n, 11, 26)
                     THEN [g EXCEPT !.task = "T_SNIFF", !.sniffChannel = n.value] ELSE Fail(g)
    [] want = "H" -> [g EXCEPT !.sniffHost = arg]
    [] OTHER      -> IF InRange(n, 0, 3) THEN [g EXCEPT !.uiDebugLevel = n.value] ELSE Fail(g)

Argument(g, arg, m) == ArgumentOf(g.want, [g EXCEPT !.want = "none"], arg, Number(arg), m)

\* One round of the loop.  An argument that begins with a dash is refused, except
\* behind -s and -H; one that is not an option and follows none is passed over.
Round(g, arg, m) ==
  IF g.stop THEN g
  ELSE IF g.want # "none"
  THEN IF g.want \notin {"s", "H"} /\ Dash(arg) THEN Fail(g) ELSE Argument(g, arg, m)
  ELSE IF Dash(arg) THEN Option(g, arg) ELSE g

\* Behind the last argument nothing may be missing.
Missing(g) == IF g.want # "none" THEN Fail(g) ELSE g

Arguments(g, args, m) == Missing(FoldLeft(LAMBDA b, arg : Round(b, arg, m), g, args))

-----------------------------------------------------------------------------
(* The device, gcf.c 573-601 and 2202-2253.                                *)

\* The rows of a list that a path names.
Named(path, rows) ==
  {i \in DOMAIN rows :
     /\ rows[i].serial # << >>
     /\ Occurs(path, rows[i].path) \/ Occurs(path, rows[i].stablepath)}

FirstNamed(path, rows) ==
  rows[CHOOSE i \in Named(path, rows) : \A j \in Named(path, rows) : i <= j]

\* The first device whose path is in -d gives serial number and baud rate.
TakeDevice(g) ==
  LET row == FirstNamed(g.devpath, g.devices)
  IN  IF \/ g.devpath = NoPath \/ g.devSerialNum # << >>
         \/ Named(g.devpath, g.devices) = {}
      THEN g
      ELSE [g EXCEPT !.devSerialNum = row.serial,
                     !.devBaudrate = IF @ = 0 THEN row.baudrate ELSE @]

gcfGetDevices(g, m) == TakeDevice([g EXCEPT !.devices = PL_GetDevices(m)])

Kind(part, type, baud) == [part |-> part, type |-> type, baudrate |-> baud]

\* What the parts of a path stand for, in this order.
Kinds ==
  <<Kind("ttyACM", "DEV_CONBEE_2", 115200), Kind("ConBee_II", "DEV_CONBEE_2", 115200),
    Kind("cu.usbmodemDE", "DEV_CONBEE_2", 115200),
    Kind("ttyUSB", "DEV_CONBEE_1", 38400), Kind("usb-FTDI", "DEV_CONBEE_1", 38400),
    Kind("cu.usbserial", "DEV_CONBEE_1", 38400),
    Kind("ttyAMA", "DEV_RASPBEE_1", 38400), Kind("ttyAML", "DEV_RASPBEE_1", 38400),
    Kind("ttyS", "DEV_RASPBEE_1", 38400), Kind("/serial", "DEV_RASPBEE_1", 38400)>>

Unknown == Kind("", "DEV_UNKNOWN", 0)

PathKind(path) ==
  LET of == {i \in DOMAIN Kinds : Occurs(path, <<Kinds[i].part>>)}
  IN  IF of = {} THEN Unknown ELSE Kinds[CHOOSE i \in of : \A j \in of : i <= j]

\* gcfGetDeviceType: the type in the file's header overrules the path.
gcfGetDeviceType(g) ==
  LET k     == PathKind(g.devpath)
      ftype == g.file.gcfFileType
      type  == IF ftype = FLASH_TYPE_APP_ENCRYPTED THEN "DEV_HIVE"
               ELSE IF k.type = "DEV_CONBEE_1" /\ ftype > 9 THEN "DEV_UNKNOWN"
               ELSE k.type
      baud  == IF ftype = FLASH_TYPE_APP_ENCRYPTED THEN 115200 ELSE k.baudrate
  IN  [g EXCEPT !.devType = type, !.devBaudrate = IF @ = 0 THEN baud ELSE @]

-----------------------------------------------------------------------------
(* The task, gcf.c 2687-2781.                                              *)

\* A ttyAMA does not tell a RaspBee II from its predecessor, the file does.
RaspBee2(g) ==
  g.devType = "DEV_RASPBEE_1" /\ (g.file.fwVersion = "R21" \/ g.file.gcfTargetAddress = 20480)

\* Without -t there are ten seconds for another attempt.
Program(g) ==
  IF g.fname = NoPath THEN Fail(g)
  ELSE Succeed([g EXCEPT !.state = "ST_Program",
                         !.maxTime = IF @ < 0 THEN 10 ELSE @,
                         !.devType = IF RaspBee2(g) THEN "DEV_RASPBEE_2" ELSE @])

FirstState ==
  [T_CONNECT |-> "ST_Connect", T_SNIFF |-> "ST_SniffConnect",
   T_DUMP_FLASH |-> "ST_DumpFlashConnect", T_RESET |-> "ST_Reset"]

Decide(g) ==
  CASE g.task = "T_HELP"             -> Succeed([g EXCEPT !.running = FALSE])
    [] g.task \in {"T_NONE", "T_LIST"} -> g
    [] OTHER -> IF g.devpath = NoPath THEN Fail(g)
                ELSE IF g.task = "T_PROGRAM" THEN Program(g)
                ELSE Succeed([g EXCEPT !.state = FirstState[g.task]])

Chosen(g, m) == IF g.stop THEN g ELSE Decide(gcfGetDeviceType(gcfGetDevices(g, m)))

gcfProcessCommandline(g, args, m) ==
  [Chosen(Arguments(Reset(g, args), args, m), m) EXCEPT !.want = "none", !.stop = FALSE]

\* ST_ListDevices on EV_ACTION.
ListDevices(g, m) == [g EXCEPT !.devices = PL_GetDevices(m), !.running = FALSE]

\* What follows the command line, EV_ACTION of ST_ListDevices included.
Enter(g, m) ==
  IF g.ret = "FAILED" THEN [g EXCEPT !.running = FALSE]
  ELSE IF g.state = "ST_ListDevices" THEN ListDevices(g, m)
  ELSE g

\* ST_Init on EV_PL_STARTED and EV_TIMEOUT.  What the other states do on
\* EV_ACTION is modelled in GcfHost and SerialTasks.
InitEvent(g, args, m) == Enter(gcfProcessCommandline(g, args, m), m)

CommandInit ==
  /\ argv \in Argvs
  /\ machine \in Machines
  /\ gcf = GCF_Init
  /\ attempts = 0

\* -f, -c and -s come back to ST_Init when an attempt failed or the port was closed;
\* files and devices may change in between.
Attempt ==
  /\ gcf.running
  /\ attempts = 0 \/ gcf.task \in {"T_PROGRAM", "T_CONNECT", "T_SNIFF"}
  /\ attempts < MaxAttempts
  /\ attempts' = attempts + 1
  /\ machine' \in Machines
  /\ gcf' = InitEvent(gcf, argv, machine')
  /\ UNCHANGED argv

-----------------------------------------------------------------------------
(* Properties.                                                             *)

\* The fields keep their ranges; paths fit their buffers and the list of devices
\* its array, in whatever order enumeration and options overwrite them.
CommandTypeOK ==
  /\ \A f \in DOMAIN Fields : gcf[f] \in Fields[f]
  /\ Len(gcf.devpath) <= PathCap /\ Len(gcf.fname) <= PathCap
  /\ Len(gcf.devices) <= MaxDevices

\* The command line is read again for each attempt, into the same GCF: what an
\* attempt works with depends on the arguments and on what is there now, not on
\* the attempts before it.
NoMemory ==
  [][attempts' > attempts /\ gcf'.running => gcf' = InitEvent(GCF_Init, argv, machine')]_cmdVars

\* What the bridge in a device needs.
Needs(d) == IF d.vendor = "0403" /\ ~IsPrefix(ConBee3, d.model) THEN 38400 ELSE 115200

Given(option) == \E i \in DOMAIN argv : argv[i] = <<"-", option>>

\* A device that is named by its path is talked to at its baud rate, whichever of
\* the ways of enumeration finds it.  A CH340 is found by udevadm only, a file of
\* type 60 chooses the rate itself, and a path that contains another device's is
\* taken for that one.
RightBaud ==
  \A i \in DOMAIN machine.devs :
    LET d == machine.devs[i]
    IN  /\ gcf.running /\ attempts > 0 /\ gcf.devpath = d.path
        /\ ~Given("b")
        /\ d.major \in UsbMajors /\ Len(machine.devs) <= MaxDevices
        /\ machine.udevadm \/ d.vendor # CH340
        /\ gcf.file.gcfFileType # FLASH_TYPE_APP_ENCRYPTED
        /\ \A j \in DOMAIN machine.devs \ {i} : ~Occurs(d.path, machine.devs[j].path)
        => gcf.devBaudrate = Needs(d)

\* The number a text begins with.
Exact(text) == Decimal(Leading(Behind(text, Blanks)))

\* A number that was accepted stands on the command line: digits beyond the range
\* of unsigned long do not make a small number of a large one.
NumbersAsTyped ==
  \A n \in {gcf.sniffChannel, gcf.uiDebugLevel, gcf.maxTime} \ {-1, 0, 10} :
    gcf.running => \E i \in DOMAIN argv : Exact(argv[i]) = n

\* What will be flashed was read: the header of an accepted file does not point
\* behind its end.
FileWithinRead ==
  gcf.running /\ gcf.state = "ST_Program" =>
    /\ gcf.file.fsize = machine.files[gcf.fname].fsize
    /\ gcf.file.dataOffset + gcf.file.gcfFileSize <= gcf.file.fsize

\* The list shows each device under its own serial number, in whichever way it was
\* found.
SerialsTrue ==
  gcf.state = "ST_ListDevices" =>
    \A i \in DOMAIN gcf.devices, j \in DOMAIN machine.devs :
      gcf.devices[i].path = machine.devs[j].path /\ machine.devs[j].serial # << >>
      => gcf.devices[i].serial = machine.devs[j].serial

=============================================================================
