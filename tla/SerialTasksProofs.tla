------------------------- MODULE SerialTasksProofs -------------------------
(***************************************************************************)
(* Proofs about -c, -s and -k in the loop of main_posix.c, for every        *)
(* script of the sniffer, size of the flash memory, number of faults and    *)
(* size of a read.                                                         *)
(*                                                                         *)
(* As in GcfHostProofs there is one lemma for each handler and one step for *)
(* each action.  What a handler has to leave comes in two parts: a typed    *)
(* host in a state of its task with its socket accounted for (Placed), and  *)
(* something to wait for (Waits).  For the dump a ledger of what was asked, *)
(* answered and printed is kept in step with the port.                     *)
(***************************************************************************)
EXTENDS SerialTasks, SequenceTheorems, FoldLemmas

-----------------------------------------------------------------------------
(* The inductive invariant.                                                *)

Steps0 == 0..FlashSteps

\* Commands with an address that is in the flash memory, or just behind it; only
\* one task asks for the sniffer.
Cmds == [cmd : {"status", "parameter", "version"}, addr : {0}]
          \cup [cmd : IF Task = "T_SNIFF" THEN {"sniff"} ELSE {}, addr : {0}]
          \cup [cmd : {"read"}, addr : Steps0]

Typed(g) ==
  /\ g \in Host
  /\ Len(g.ascii) <= AsciiCap
  /\ g.sniffPacket = << >>
  /\ g.address \in Steps0
  /\ g.port \in Seq(Cmds)
  /\ Task \in {"T_CONNECT", "T_SNIFF"} => g.said # "complete"
  /\ Task \in {"T_CONNECT", "T_DUMP_FLASH"} => g.zep = << >>

Resting == (SniffStates \ {"ST_SniffRecvData"}) \cup {"ST_SniffTeardown"}

DumpStates == {"ST_DumpFlashConnect", "ST_DumpFlashQueryFirmwareVersion",
               "ST_DumpFlashSend", "ST_DumpFlashWait"}

\* A state of the task, and a socket only where ST_SniffTeardown will free it.
Placed(g) ==
  /\ Task = "T_CONNECT" => g.state \in {"ST_Init", "ST_Connected"}
  /\ Task = "T_SNIFF" => g.state \in Resting \cup {"ST_Init"}
  /\ Task = "T_DUMP_FLASH" => g.state \in DumpStates
  /\ g.state = "ST_DumpFlashWait" => g.address < FlashSteps
  /\ g.running => g.state # "ST_DumpFlashConnect"
  /\ g.udp = "open" => g.state \in Resting
  /\ g.leaks = 0

\* The timer of a running task is armed, or its next action is scheduled.
Waits(g) ==
  g.running =>
    CASE g.state = "ST_DumpFlashQueryFirmwareVersion" -> g.timer \/ g.evAction
      [] g.state = "ST_DumpFlashSend"                 -> g.evAction
      [] OTHER                                        -> g.timer

Good(g) == Typed(g) /\ Placed(g) /\ Waits(g)

SeenIn(s) ==
  /\ s \in [begun : SUBSET Nat, arrived : SUBSET Nat, marker : SUBSET Nat,
            excused : SUBSET Nat, rolled : BOOLEAN, skipped : SUBSET Steps0,
            repeated : BOOLEAN]
  /\ s.excused \subseteq s.begun
  /\ s.marker \subseteq s.begun
  /\ s.arrived \subseteq s.begun

WorldTyped ==
  /\ job \in Jobs
  /\ loop \in {"start", "top", "timer", "io", "keys", "exit", "done"}
  /\ snap \in [in : BOOLEAN, hup : BOOLEAN, key : {"none", "typed", "eof"}]
  /\ dev \in [mode : {"app", "sniff", "gone"}, air : 0..Len(Script)]
  /\ Task # "T_SNIFF" => dev.mode # "sniff"
  /\ toDev \in Seq(Cmds) /\ Len(toDev) <= DevCap
  /\ Task = "T_SNIFF" => line \in Seq(Sniffed)
  /\ Task # "T_SNIFF" => line \in Seq(Packets)
  /\ hup \in BOOLEAN
  /\ faults \in Nat
  /\ SeenIn(seen)

HostInv ==
  /\ t.port = << >>
  /\ loop = "start" => t = Booted
  /\ loop # "start" => Good(t)

\* p lists the numbers below a that are not in sk, in their order.
Lists(p, a, sk) ==
  /\ {p[i] : i \in DOMAIN p} = (0..(a - 1)) \ sk
  /\ \A i, j \in DOMAIN p : i < j => p[i] < p[j]

\* What the host has printed, and the one read that may be under way.
Ledger(g, sk) ==
  /\ Lists(g.printed, g.address, sk)
  /\ sk \subseteq 0..g.address
  /\ g.address \in sk => g.state = "ST_DumpFlashWait"
  /\ g.state \notin {"ST_DumpFlashSend", "ST_DumpFlashWait"} => g.address = 0
  /\ g.said = "complete" => g.state = "ST_DumpFlashSend" /\ g.address = FlashSteps

\* The commands in q are at most one read, of the record the host waits for.
AskedIn(q, g, sk) ==
  /\ \A i \in DOMAIN q : q[i].cmd = "read" =>
       g.state = "ST_DumpFlashWait" /\ q[i].addr = g.address /\ g.address \notin sk
  /\ \A i, j \in DOMAIN q : q[i].cmd = "read" /\ q[j].cmd = "read" => i = j

\* The packets in q behind the k-th hold at most one record, and it is the one
\* the host waits for.
AnsweredIn(q, k, g, sk) ==
  /\ \A i \in DOMAIN q : i > k /\ q[i].cmd = "read" =>
       /\ g.state = "ST_DumpFlashWait"
       /\ q[i].addr = g.address
       /\ q[i].status = "EOFFSET" <=> g.address \in sk
  /\ \A i, j \in DOMAIN q : i > k /\ j > k /\ q[i].cmd = "read" /\ q[j].cmd = "read" => i = j

NoneIn(q, k) == \A i \in DOMAIN q : i > k => q[i].cmd # "read"

Books(g, asked, answered, k, sk) ==
  /\ Ledger(g, sk)
  /\ AskedIn(asked, g, sk)
  /\ AnsweredIn(answered, k, g, sk)
  /\ NoneIn(asked, 0) \/ NoneIn(answered, k)

DumpInv ==
  Task = "T_DUMP_FLASH" /\ ~seen.repeated => Books(t, toDev, line, 0, seen.skipped)

SerialInv == WorldTyped /\ HostInv /\ DumpInv

-----------------------------------------------------------------------------
(* What the handlers share.                                                *)

\* The tasks, and the constants as the lemmas use them.
LEMMA Constants ==
  /\ AsciiCap \in Nat \ {0} /\ FlashSteps \in Nat \ {0} /\ MinLength \in Nat
  /\ Bytes \subseteq Nat /\ {Start, End, O, K} \subseteq Bytes
  /\ << >> \in Seq(Cmds)
  /\ 0 \in Steps0
  /\ job \in Jobs => Task \in {"T_CONNECT", "T_SNIFF", "T_DUMP_FLASH"}
                       /\ job.interactive \in BOOLEAN
  BY SerialAssumption, SnifferAssumption, DumpAssumption DEF Task, Steps0

\* An emptied gcf->ascii.
LEMMA EmptyTyped == << >> \in Seq(Bytes) /\ Len(<< >>) = 0 /\ Len(<< >>) <= AsciiCap
  BY Constants

\* Commands of the program are commands.
LEMMA CmdsTyped ==
  /\ Cmds \subseteq Commands
  /\ \A c \in {"status", "parameter", "version"} : [cmd |-> c, addr |-> 0] \in Cmds
  /\ Task = "T_SNIFF" => [cmd |-> "sniff", addr |-> 0] \in Cmds
  /\ \A a \in Steps0 : [cmd |-> "read", addr |-> a] \in Cmds
  BY Constants DEF Cmds, Commands, Steps0

\* An armed timer is something to wait for, but for ST_DumpFlashSend.
LEMMA ArmedGood ==
  ASSUME NEW g, Typed(g)
  PROVE  /\ Typed(Armed(g))
         /\ Placed(g) => Placed(Armed(g))
         /\ Placed(g) /\ g.state # "ST_DumpFlashSend" => Good(Armed(g))
  BY Zenon DEF Typed, Host, Placed, Waits, Good, Armed

\* A program that ends waits for nothing.
LEMMA ShutGood ==
  ASSUME NEW g, Typed(g), Placed(g)
  PROVE  Good(Shut(g))
  BY Zenon DEF Typed, Host, Placed, Waits, Good, Shut

\* The verdict is only said.
LEMMA SaidGood ==
  ASSUME NEW g, Typed(g), NEW v \in Verdicts,
         v = "complete" => Task \notin {"T_CONNECT", "T_SNIFF"}
  PROVE  LET a == [g EXCEPT !.said = v]
         IN  Typed(a) /\ (Placed(g) => Placed(a))
  BY Zenon DEF Typed, Host, Placed

\* A state is entered with the timer armed.
LEMMA EnterGood ==
  ASSUME NEW g, Typed(g), NEW st \in States \ {"ST_DumpFlashSend"},
         Placed([g EXCEPT !.state = st])
  PROVE  Good(Armed([g EXCEPT !.state = st]))
<1>1. Typed([g EXCEPT !.state = st])
  BY Zenon DEF Typed, Host
<1>2. g \in Host
  BY DEF Typed
<1>3. [g EXCEPT !.state = st].state = st
  BY <1>2 DEF Host
<1> QED
  BY <1>1, <1>3, ArmedGood, Zenon

\* ST_SniffTeardown frees the socket.
LEMMA TeardownGood ==
  ASSUME NEW g, Typed(g), Task = "T_SNIFF", g.leaks = 0
  PROVE  Good(SniffTeardown(g))
<1> DEFINE a == UdpFree(g)
<1>1. Typed(a)
  BY Zenon DEF UdpFree, Typed, Host
<1>2. Placed([a EXCEPT !.state = "ST_Init"])
  BY DEF UdpFree, Typed, Host, Placed
<1>3. "ST_Init" \in States \ {"ST_DumpFlashSend"}
  BY DEF States
<1> HIDE DEF a
<1>4. Good(Armed([a EXCEPT !.state = "ST_Init"]))
  BY <1>1, <1>2, <1>3, EnterGood
<1> QED
  BY <1>4 DEF SniffTeardown, a

\* EV_DISCONNECTED keeps the types, the state among those of the task, and a
\* good host good.
LEMMA DisconnectedGood ==
  ASSUME NEW g, Typed(g)
  PROVE  /\ Typed(Disconnected(g))
         /\ Placed(g) => Placed(Disconnected(g))
         /\ Good(g) => Good(Disconnected(g))
         /\ ~g.running => ~Disconnected(g).running
<1> DEFINE e(st) == Armed([g EXCEPT !.state = st])
           f == Armed([UdpFree(g) EXCEPT !.state = "ST_Init"])
<1>1. \A st \in States : Typed(e(st)) /\ (~g.running => ~e(st).running)
  BY Zenon DEF Typed, Host, Armed
<1>2. Typed(f) /\ (~g.running => ~f.running)
  BY Zenon DEF Typed, Host, Armed, UdpFree, States
<1>3. CASE g.state = "ST_Connected"
  <2>1. Disconnected(g) = e("ST_Init") /\ "ST_Init" \in States
    BY <1>3 DEF Disconnected, States, SniffStates
  <2>2. Placed(g) => Good(e("ST_Init"))
    BY <1>1, <1>3, <2>1, Zenon DEF Good, Placed, Waits, Typed, Host, Armed, Resting, SniffStates,
                            DumpStates
  <2> QED
    BY <1>1, <2>1, <2>2 DEF Good
<1>4. CASE g.state \in SniffStates
  <2>1. Disconnected(g) = e("ST_SniffTeardown") /\ "ST_SniffTeardown" \in States
    BY <1>4 DEF Disconnected, States, SniffStates
  <2>2. Placed(g) => Good(e("ST_SniffTeardown"))
    BY <1>1, <1>4, <2>1, Zenon DEF Good, Placed, Waits, Typed, Host, Armed, Resting, SniffStates,
                            DumpStates
  <2> QED
    BY <1>1, <2>1, <2>2 DEF Good
<1>5. CASE g.state = "ST_SniffTeardown"
  <2>1. Disconnected(g) = f
    BY <1>5 DEF Disconnected, SniffTeardown, SniffStates
  <2>2. Placed(g) => Good(f)
    BY <1>2, <1>5 DEF Good, Placed, Waits, Typed, Host, Armed, UdpFree, Resting, SniffStates,
                      DumpStates
  <2> QED
    BY <1>2, <2>1, <2>2 DEF Good
<1>6. CASE g.state \notin SniffStates \cup {"ST_Connected", "ST_SniffTeardown"}
  BY <1>6 DEF Disconnected
<1> QED
  BY <1>3, <1>4, <1>5, <1>6

\* Closing the port.
LEMMA DisconnectGood ==
  ASSUME NEW g, Good(g)
  PROVE  Good(Disconnect(g))
<1>1. Good([g EXCEPT !.fd = 0])
  BY Zenon DEF Good, Typed, Host, Placed, Waits
<1> QED
  BY <1>1, DisconnectedGood DEF Disconnect, Good

\* Writing, on an open port and on a closed one.
LEMMA WriteGood ==
  ASSUME NEW g, Typed(g), NEW c, NEW n, [cmd |-> c, addr |-> n] \in Cmds
  PROVE  /\ Typed(Write(g, c, n))
         /\ Placed(g) => Placed(Write(g, c, n))
         /\ Good(g) => Good(Write(g, c, n))
<1> DEFINE p == Append(g.port, [cmd |-> c, addr |-> n])
           a == [g EXCEPT !.port = p]
<1>1. p \in Seq(Cmds) /\ p \in Seq(Commands)
  BY CmdsTyped DEF Typed
<1> HIDE DEF p
<1>2. Typed(a) /\ (Placed(g) => Placed(a)) /\ (Good(g) => Good(a))
  BY <1>1, ZenonT(30) DEF Good, Typed, Host, Placed, Waits
<1>3. Write(g, c, n) \in {a, Disconnected(g)}
  BY DEF Write, p
<1> HIDE DEF a
<1> QED
  BY <1>2, <1>3, DisconnectedGood

\* Connecting.
LEMMA ConnectTyped ==
  ASSUME NEW g, Typed(g), NEW open
  PROVE  LET c == Connect(g, open)
         IN  Typed(c) /\ c.leaks = g.leaks /\ c.udp = g.udp /\ c.running = g.running
  BY Zenon DEF Typed, Host, Connect

-----------------------------------------------------------------------------
(* Collecting the bytes of a read: the fold, byte by byte.                 *)

\* What Collect does with one byte.
Put(s, b) == IF Len(s) < AsciiCap THEN Append(s, b) ELSE << >>

Collected == {s \in Seq(Bytes) : Len(s) <= AsciiCap}

\* One byte stays within gcf->ascii.
LEMMA PutTyped ==
  ASSUME NEW s \in Collected, NEW b \in Bytes
  PROVE  Put(s, b) \in Collected
  BY Constants DEF Put, Collected

\* One byte after the other, and always within gcf->ascii.
LEMMA PutSteps ==
  ASSUME NEW s \in Collected, NEW c \in Seq(Bytes)
  PROVE  \E u \in [0..Len(c) -> Collected] :
           /\ u[0] = s /\ u[Len(c)] = FoldLeft(Put, s, c)
           /\ \A i \in 1..Len(c) : u[i] = Put(u[i - 1], c[i])
<1> DEFINE N == Len(c)
           X == Collected
           Is(f) == f = [q \in SUBSET (1..N) |->
                           IF q = {} THEN s ELSE Put(f[q \ {Max(q)}], c[Max(q)])]
           iter == CHOOSE f : Is(f)
           next == [z \in X \X (1..N) |-> Put(z[1], c[z[2]])]
<1>1. N \in Nat /\ DOMAIN c = 1..N /\ \A i \in 1..N : c[i] \in Bytes
  OBVIOUS
<1>2. FoldLeft(Put, s, c) = iter[1..N]
  BY <1>1 DEF FoldLeft, MapThenFoldSet
<1> HIDE DEF N, X
<1>3. next \in [X \X (1..N) -> X] /\ \A x \in X, i \in 1..N : next[<<x, i>>] = Put(x, c[i])
  BY <1>1, PutTyped DEF X
<1> HIDE DEF next
<1>4. \A q \in SUBSET (1..N) : q # {} => Max(q) \in 1..N
  BY <1>1, MaxIn, Zenon
<1>5. PICK f \in [SUBSET (1..N) -> X] : IsFold(f, N, s, next)
  BY <1>1, <1>3, FoldExists, Zenon DEF X
<1>6. Is(f)
  BY <1>3, <1>4, <1>5, Zenon DEF IsFold
<1>7. Is(iter)
  <2> HIDE DEF Is
  <2> QED
    BY <1>6
<1> HIDE DEF iter
<1>8. FoldsIn(X, iter, N, s, next)
  BY <1>3, <1>4, <1>7, Zenon DEF FoldsIn
<1> HIDE DEF Is
<1>9. s \in X
  BY DEF X
<1>10. PICK u \in [0..N -> X] : Steps(u, N, s, next) /\ u[N] = iter[1..N]
  BY <1>1, <1>8, <1>9, FoldSteps
<1>11. \A i \in 1..N : u[i - 1] \in X
  <2> TAKE i \in 1..N
  <2>1. i - 1 \in 0..N
    BY <1>1
  <2> QED
    BY <2>1
<1>12. u[0] = s /\ \A i \in 1..N : u[i] = Put(u[i - 1], c[i])
  BY <1>3, <1>10, <1>11, Zenon DEF Steps
<1> QED
  BY <1>2, <1>10, <1>12, Zenon DEF X, N

\* What is collected stays within gcf->ascii, however long the read.
LEMMA PutFold ==
  ASSUME NEW s \in Collected, NEW c \in Seq(Bytes)
  PROVE  FoldLeft(Put, s, c) \in Collected
<1>1. PICK u \in [0..Len(c) -> Collected] : u[Len(c)] = FoldLeft(Put, s, c)
  BY PutSteps, Zenon
<1>2. Len(c) \in 0..Len(c)
  OBVIOUS
<1> QED
  BY <1>1, <1>2

\* GCF_Received for the sniffer.
LEMMA CollectGood ==
  ASSUME NEW g, Good(g), NEW c \in Seq(Bytes)
  PROVE  /\ Good(Collect(g, c))
         /\ Collect(g, c).state = g.state
<1> DEFINE s == FoldLeft(Put, g.ascii, c)
<1>1. Collect(g, c) = [g EXCEPT !.ascii = s]
  BY DEF Collect, Put, FoldLeft, MapThenFoldSet
<1>2. s \in Collected
  BY PutFold, Zenon DEF Good, Typed, Host, Collected
<1> HIDE DEF s
<1> QED
  BY <1>1, <1>2, ZenonT(40) DEF Good, Typed, Host, Placed, Waits, Collected

-----------------------------------------------------------------------------
(* The sniffer.                                                            *)

\* A session starts with a socket of its own.
LEMMA SniffConnectGood ==
  ASSUME NEW g, Typed(g), Task = "T_SNIFF", g.udp = "free", g.leaks = 0, NEW open
  PROVE  Good(SniffConnectAction(g, open))
<1> DEFINE b == [g EXCEPT !.sniffSeqNum = 0, !.zep = << >>]
           a == UdpInit(b)
           c == Connect(a, open)
<1>0. Typed(b) /\ b.leaks = 0 /\ b.udp = "free"
  <2>1. << >> \in Seq([seq : Nat, data : Seq(Bytes)])
    OBVIOUS
  <2> QED
    BY <2>1, Zenon DEF Typed, Host
<1> HIDE DEF b
<1>1. Typed(a) /\ a.leaks = 0
  BY <1>0, Zenon DEF UdpInit, Typed, Host
<1> HIDE DEF a
<1>2. Typed(c) /\ c.leaks = 0
  BY <1>1, ConnectTyped
<1> HIDE DEF c
<1>3. \A x : Typed(x) /\ x.leaks = 0 =>
        \A st \in Resting : st \in States \ {"ST_DumpFlashSend"} /\ Placed([x EXCEPT !.state = st])
  BY DEF Typed, Host, Placed, Resting, SniffStates, States, DumpStates
<1>4. "ST_SniffConfig" \in Resting /\ "ST_SniffTeardown" \in Resting
  BY DEF Resting, SniffStates
<1>5. Good(Armed([c EXCEPT !.state = "ST_SniffConfig"]))
  BY <1>2, <1>3, <1>4, EnterGood
<1>6. Good(Armed([a EXCEPT !.state = "ST_SniffTeardown"]))
  BY <1>1, <1>3, <1>4, EnterGood
<1> QED
  BY <1>5, <1>6 DEF SniffConnectAction, a, b, c

\* The commands of the configuration, on a closed port too.
LEMMA SniffConfigGood ==
  ASSUME NEW g, Typed(g), Placed(g), Task = "T_SNIFF"
  PROVE  Good(SniffConfigTimeout(g))
<1> DEFINE w == Write(g, "sniff", 0)
           a == [w EXCEPT !.ascii = << >>]
<1>1. Typed(w) /\ Placed(w)
  BY WriteGood, CmdsTyped
<1> HIDE DEF w
<1>2. Typed(a) /\ a.leaks = 0
  BY <1>1, EmptyTyped, Zenon DEF Typed, Host, Placed
<1>3. "ST_SniffConfigConfirm" \in States \ {"ST_DumpFlashSend"}
  BY DEF States, SniffStates
<1>4. Good(Armed([a EXCEPT !.state = "ST_SniffConfigConfirm"]))
  <2> HIDE DEF a
  <2>1. Placed([a EXCEPT !.state = "ST_SniffConfigConfirm"])
    BY <1>2 DEF Typed, Host, Placed, Resting, SniffStates, DumpStates
  <2> QED
    BY <1>2, <1>3, <2>1, EnterGood
<1>5. [a EXCEPT !.state = "ST_SniffConfigConfirm"]
        = [w EXCEPT !.ascii = << >>, !.state = "ST_SniffConfigConfirm"]
  OBVIOUS
<1> QED
  BY <1>4, <1>5 DEF SniffConfigTimeout, w

\* "OK", or not.
LEMMA SniffConfirmGood ==
  ASSUME NEW g, Good(g), g.state = "ST_SniffConfigConfirm"
  PROVE  Good(SniffConfigConfirmAscii(g))
<1> DEFINE a == [g EXCEPT !.sniffPacket = << >>, !.sniffLength = 0, !.ascii = << >>, !.rp = 0]
           b == [g EXCEPT !.state = "ST_SniffSyncData", !.sniffPacket = << >>,
                          !.sniffLength = 0, !.ascii = << >>, !.rp = 0]
<1>1. Typed(a) /\ a.leaks = 0 /\ a.state = g.state
  BY EmptyTyped, Zenon DEF Good, Typed, Host, Placed
<1>2. "ST_SniffSyncData" \in States \ {"ST_DumpFlashSend"}
  BY DEF States, SniffStates
<1>3. [a EXCEPT !.state = "ST_SniffSyncData"] = b
  BY Zenon
<1>4. Good(Armed(b))
  <2>1. Placed([a EXCEPT !.state = "ST_SniffSyncData"])
    <3> HIDE DEF a
    <3> QED
      BY <1>1 DEF Typed, Host, Placed, Good, Resting, SniffStates, DumpStates
  <2> HIDE DEF a, b
  <2> QED
    BY <1>1, <1>2, <1>3, <2>1, EnterGood
<1> QED
  BY <1>4 DEF SniffConfigConfirmAscii

\* The same state, the same wait, the same bytes.
Alike(a, g) ==
  /\ Typed(a) /\ (Good(g) => Good(a))
  /\ a.ascii = g.ascii /\ a.timer = g.timer /\ a.running = g.running
  /\ a.leaks = g.leaks /\ a.state = g.state

\* The indices of the sniffer decide on none of these.
LEMMA IndexAlike ==
  ASSUME NEW g, Typed(g), NEW n \in Nat
  PROVE  /\ Alike([g EXCEPT !.rp = n], g)
         /\ [g EXCEPT !.rp = n].rp = n
         /\ [g EXCEPT !.rp = n].sniffLength = g.sniffLength
  BY ZenonT(40) DEF Alike, Good, Typed, Host, Placed, Waits

\* Nor does the length of the frame.
LEMMA LengthAlike ==
  ASSUME NEW g, Typed(g), NEW n \in Nat
  PROVE  /\ Alike([g EXCEPT !.sniffLength = n], g)
         /\ [g EXCEPT !.sniffLength = n].sniffLength = n
  BY ZenonT(40) DEF Alike, Good, Typed, Host, Placed, Waits

\* A frame is there in full: it moves to gcf->sniffPacket, and from there into
\* one message, or is dropped for want of an end marker.
LEMMA SniffFrameGood ==
  ASSUME NEW g, Good(g), g.state = "ST_SniffSyncData",
         NEW i \in Nat, i + 1 < Len(g.ascii)
  PROVE  Good(SniffFrame(g, i))
<1> DEFINE length == g.ascii[i + 2]
           a == [g EXCEPT !.rp = i, !.sniffPacket = << >>, !.sniffLength = length]
           d == [a EXCEPT !.rp = i + 1]
           e == [a EXCEPT !.rp = i + 2, !.state = "ST_SniffRecvData"]
<1>1. length \in Bytes /\ length \in Nat
  <2>1. g.ascii \in Seq(Bytes) /\ Len(g.ascii) \in Nat
    BY DEF Good, Typed, Host
  <2>2. i + 2 \in 1..Len(g.ascii)
    BY <2>1
  <2>3. length \in Bytes
    BY <2>1, <2>2
  <2> QED
    BY <2>3, SnifferAssumption, Zenon
<1> HIDE DEF length
<1>2. Good(a) /\ Good(d) /\ a.ascii = g.ascii /\ a.sniffLength = length
        /\ a.timer = g.timer /\ a.running = g.running /\ a.leaks = g.leaks
  <2> DEFINE b == [g EXCEPT !.sniffLength = length]
  <2>1. Good(b) /\ b.ascii = g.ascii /\ b.sniffLength = length
          /\ b.timer = g.timer /\ b.running = g.running /\ b.leaks = g.leaks
    BY <1>1, LengthAlike DEF Alike, Good
  <2>2. [g EXCEPT !.sniffPacket = << >>] = g
    BY DEF Good, Typed, Host
  <2>3. a = [[[g EXCEPT !.sniffPacket = << >>] EXCEPT !.sniffLength = length] EXCEPT !.rp = i]
    BY Zenon
  <2>4. a = [b EXCEPT !.rp = i]
    BY <2>2, <2>3, Zenon
  <2> HIDE DEF a, b
  <2>5. Good(a) /\ a.ascii = g.ascii /\ a.sniffLength = length
          /\ a.timer = g.timer /\ a.running = g.running /\ a.leaks = g.leaks
    BY <2>1, <2>4, IndexAlike DEF Alike, Good
  <2>6. Good(d)
    <3>1. i + 1 \in Nat
      OBVIOUS
    <3> QED
      BY <2>5, <3>1, IndexAlike DEF Alike, Good
  <2> QED
    BY <2>5, <2>6
<1> HIDE DEF a
<1>3. Typed(e) /\ e.leaks = 0 /\ e.ascii = g.ascii /\ e.rp = i + 2 /\ e.sniffLength = length
        /\ e.sniffPacket = << >> /\ e.timer = g.timer /\ e.running = g.running
  <2> DEFINE b == [a EXCEPT !.rp = i + 2]
  <2>1. "ST_SniffRecvData" \in States
    BY DEF States, SniffStates
  <2>2. Typed(b) /\ b.leaks = 0 /\ b.ascii = g.ascii /\ b.rp = i + 2
          /\ b.sniffLength = length /\ b.timer = g.timer /\ b.running = g.running
    <3>1. i + 2 \in Nat
      OBVIOUS
    <3> QED
      BY <1>2, <3>1, IndexAlike DEF Alike, Good, Placed
  <2>3. e = [b EXCEPT !.state = "ST_SniffRecvData"]
    OBVIOUS
  <2> HIDE DEF b, e
  <2> QED
    BY <2>1, <2>2, <2>3, Zenon DEF Typed, Host
<1>4. ASSUME 2 + length < Len(g.ascii) - i PROVE Good(SniffRecvDataAscii(e))
  <2> DEFINE k == length + 1
             s == << >> \o SubSeq(g.ascii, i + 3, i + 2 + k)
             rest == SubSeq(g.ascii, i + 2 + k + 1, Len(g.ascii))
             b == [e EXCEPT !.sniffPacket = s, !.ascii = rest, !.rp = 0]
             u == UdpSend(b)
             w(x) == [x EXCEPT !.sniffPacket = << >>, !.sniffLength = 0,
                               !.state = "ST_SniffSyncData"]
  <2>1. g.ascii \in Seq(Bytes) /\ Len(g.ascii) \in Nat /\ Len(g.ascii) <= AsciiCap
    BY DEF Good, Typed, Host
  <2>2. s \in Seq(Bytes) /\ Len(s) = k
    <3> DEFINE sub == SubSeq(g.ascii, i + 3, i + 2 + k)
    <3>1. sub \in Seq(Bytes) /\ Len(sub) = k
      BY <1>1, <1>4, <2>1
    <3> HIDE DEF sub
    <3> QED
      BY <3>1, ConcatEmptySeq DEF sub
  <2>3. rest \in Seq(Bytes) /\ Len(rest) <= AsciiCap
    <3> DEFINE m == i + 2 + k + 1
               n == Len(g.ascii)
    <3>1. m \in Nat /\ m > 0 /\ m <= n + 1 /\ n \in Nat /\ n <= AsciiCap
      BY <1>1, <1>4, <2>1
    <3>2. \A j \in m..n : g.ascii[j] \in Bytes
      BY <2>1, <3>1
    <3>4. rest = SubSeq(g.ascii, m, n)
      OBVIOUS
    <3> HIDE DEF m, n, rest
    <3>3. rest \in Seq(Bytes) /\ Len(rest) = IF m <= n THEN n - m + 1 ELSE 0
      BY <3>1, <3>2, <3>4, SubSeqProperties
    <3> QED
      BY <3>1, <3>3, Constants
  <2>4. SniffRecvDataAscii(e) \in {w(u), w(b)}
    <3>1. Len(e.ascii) - e.rp = Len(g.ascii) - (i + 2)
          /\ ~(Len(e.ascii) - e.rp < length + 1 - 0)
      BY <1>1, <1>3, <1>4, <2>1
    <3>2. e.rp + 1 = i + 3 /\ e.rp + (length + 1 - 0) = i + 2 + k
      BY <1>1, <1>3
    <3>3. length + 1 - 0 = k
      BY <1>1
    <3> HIDE DEF e
    <3>4. [e EXCEPT !.sniffPacket = @ \o SubSeq(e.ascii, e.rp + 1, e.rp + (length + 1 - 0)),
                    !.ascii = SubSeq(e.ascii, e.rp + (length + 1 - 0) + 1, Len(e.ascii)),
                    !.rp = 0] = b
      BY <1>3, <3>2, Zenon
    <3>5. b.sniffLength = length /\ b.sniffPacket = s
      BY <1>3, Zenon DEF Typed, Host
    <3> QED
      BY <1>3, <2>2, <3>1, <3>4, <3>5, EmptyTyped, Zenon DEF SniffRecvDataAscii
  <2> HIDE DEF s, rest
  <2>5. /\ b \in Host /\ b.leaks = 0 /\ Len(b.ascii) <= AsciiCap /\ b.address \in Steps0
        /\ b.port \in Seq(Cmds) /\ b.sniffPacket = s /\ b.sniffLength = length
        /\ b.timer = g.timer /\ b.running = g.running
        /\ (Task \in {"T_CONNECT", "T_SNIFF"} => b.said # "complete")
    BY <1>3, <2>2, <2>3, Zenon DEF Typed, Host
  <2> HIDE DEF b, e
  <2>6. ZepData(length, s) \in Seq(Bytes)
    BY <1>1, <2>2, Constants, EmptyTyped DEF ZepData
  <2>7. /\ u \in Host /\ u.leaks = 0 /\ Len(u.ascii) <= AsciiCap /\ u.address \in Steps0
        /\ u.port \in Seq(Cmds) /\ u.timer = g.timer /\ u.running = g.running
        /\ (Task \in {"T_CONNECT", "T_SNIFF"} => u.said # "complete")
    <3> DEFINE m == [seq |-> b.sniffSeqNum, data |-> ZepData(length, s)]
    <3>1. b.sniffSeqNum \in Nat /\ b.zep \in Seq([seq : Nat, data : Seq(Bytes)])
      BY <2>5 DEF Host
    <3>2. m \in [seq : Nat, data : Seq(Bytes)]
      BY <2>6, <3>1
    <3> HIDE DEF m
    <3>3. Append(b.zep, m) \in Seq([seq : Nat, data : Seq(Bytes)])
      BY <3>1, <3>2
    <3>4. u = [b EXCEPT !.zep = Append(b.zep, m), !.sniffSeqNum = b.sniffSeqNum + 1]
      BY <2>5 DEF UdpSend, m
    <3> DEFINE v == [b EXCEPT !.zep = Append(b.zep, m)]
    <3>5. /\ v \in Host /\ v.leaks = 0 /\ Len(v.ascii) <= AsciiCap /\ v.address \in Steps0
          /\ v.port \in Seq(Cmds) /\ v.timer = g.timer /\ v.running = g.running
          /\ (Task \in {"T_CONNECT", "T_SNIFF"} => v.said # "complete")
      BY <2>5, <3>3, Zenon DEF Host
    <3>6. u = [v EXCEPT !.sniffSeqNum = b.sniffSeqNum + 1]
      BY <3>4
    <3>7. b.sniffSeqNum + 1 \in Nat
      BY <3>1
    <3> HIDE DEF u, v
    <3> QED
      BY <3>5, <3>6, <3>7, Zenon DEF Host
  <2> HIDE DEF u
  <2>8. "ST_SniffSyncData" \in States /\ "ST_SniffSyncData" \in Resting
    BY DEF States, Resting, SniffStates
  <2>9. g.running => g.timer
    BY DEF Good, Waits
\* No other task comes here.
  <2>t. Task \notin {"T_CONNECT", "T_DUMP_FLASH"}
    BY DEF Good, Placed, DumpStates
  <2>10. ASSUME NEW x \in {b, u} PROVE Good(w(x))
    <3> DEFINE y == [x EXCEPT !.sniffPacket = << >>]
               z == [y EXCEPT !.sniffLength = 0]
    <3>1. Typed(y) /\ y.leaks = 0 /\ y.timer = g.timer /\ y.running = g.running
      BY <2>5, <2>7, <2>t, EmptyTyped, Zenon DEF Typed, Host
    <3>2. w(x) = [z EXCEPT !.state = "ST_SniffSyncData"]
      OBVIOUS
    <3> HIDE DEF y, w
    <3>3. Typed(z) /\ z.leaks = 0 /\ z.timer = g.timer /\ z.running = g.running
      BY <3>1, Zenon DEF Typed, Host
    <3> HIDE DEF z
    <3> QED
      BY <2>8, <2>9, <3>2, <3>3, <1>2, ZenonT(60) DEF Good, Typed, Host, Placed, Waits, DumpStates
  <2> QED
    BY <2>4, <2>10
<1>5. length < MinLength => SniffFrame(g, i) = d
  BY DEF SniffFrame, length, a
<1>6. SniffFrame(g, i) \in {d, a}
        \/ (~(2 + length >= Len(g.ascii) - i) /\ SniffFrame(g, i) = SniffRecvDataAscii(e))
  <2> HIDE DEF SniffRecvDataAscii
  <2> QED
    BY DEF SniffFrame, length, a
<1>7. Len(g.ascii) \in Nat
  BY DEF Good, Typed, Host
<1>8. ~(2 + length >= Len(g.ascii) - i) => 2 + length < Len(g.ascii) - i
  BY <1>1, <1>7
<1> HIDE DEF a, d, e
<1> QED
  BY <1>2, <1>4, <1>6, <1>8

\* Synchronising: at most one frame.
LEMMA SniffSyncGood ==
  ASSUME NEW g, Good(g), g.state = "ST_SniffSyncData"
  PROVE  Good(SniffSyncData(g))
<1> DEFINE i == StartMarker(g)
           a == [g EXCEPT !.sniffLength = 0]
           b == [a EXCEPT !.rp = 0, !.ascii = << >>]
<1>1. Good(a) /\ a.state = g.state /\ a.ascii = g.ascii
  BY Zenon DEF Good, Typed, Host, Placed, Waits
<1>2. Good(b)
  BY EmptyTyped, Zenon DEF Good, Typed, Host, Placed, Waits
<1>3. i \in Nat
  <2> DEFINE found == {j \in g.rp..(Len(g.ascii) - 1) : g.ascii[j + 1] = Start}
  <2>1. g.rp \in Nat /\ Len(g.ascii) \in Nat
    BY DEF Good, Typed, Host
  <2>2. found \in SUBSET Nat
    BY <2>1
  <2>3. CASE found = {}
    BY <2>1, <2>3 DEF StartMarker
  <2>4. CASE found # {}
    <3>1. \E x \in found : \A y \in found : x <= y
      BY <2>2, <2>4, LeastNumber, Zenon
    <3>2. i = CHOOSE x \in found : \A y \in found : x <= y
      BY <2>4, Zenon DEF StartMarker
    <3> HIDE DEF found, i
    <3> QED
      BY <2>2, <3>1, <3>2, Zenon
  <2> QED
    BY <2>3, <2>4
<1> HIDE DEF i
<1>4. i + 1 < Len(g.ascii) => Good(SniffFrame(a, i))
  <2> HIDE DEF a
  <2> QED
    BY <1>1, <1>3, SniffFrameGood
<1> QED
  BY <1>2, <1>4 DEF SniffSyncData, i

\* EV_RX_ASCII in the states of the sniffer.
LEMMA SniffReceivedGood ==
  ASSUME NEW g, Good(g), Task = "T_SNIFF", NEW c \in Seq(Bytes)
  PROVE  Good(SniffReceived(g, c))
<1> DEFINE a == Collect(g, c)
<1>1. Good(a)
  BY CollectGood
<1> HIDE DEF a
<1>2. a.state = "ST_SniffConfigConfirm" => Good(SniffConfigConfirmAscii(a))
  BY <1>1, SniffConfirmGood
<1>3. a.state = "ST_SniffSyncData" => Good(SniffSyncData(a))
  BY <1>1, SniffSyncGood
<1>4. Good(SniffTeardown(a))
  BY <1>1, TeardownGood DEF Good, Placed
<1>5. a.state # "ST_SniffRecvData"
  BY <1>1 DEF Good, Placed, Resting
<1>6. SniffAscii(a) \in {a, SniffTeardown(a)}
        \/ (a.state = "ST_SniffConfigConfirm" /\ SniffAscii(a) = SniffConfigConfirmAscii(a))
        \/ (a.state = "ST_SniffSyncData" /\ SniffAscii(a) = SniffSyncData(a))
  BY <1>5 DEF SniffAscii
<1> QED
  BY <1>1, <1>2, <1>3, <1>4, <1>6 DEF SniffReceived, a

\* EV_TIMEOUT in the states of the sniffer.
LEMMA SniffTimeoutGood ==
  ASSUME NEW g, Typed(g), Placed(g), Task = "T_SNIFF"
  PROVE  Good(SniffTimeout(g))
<1>1. Good(SniffConfigTimeout(g)) /\ Good(SniffTeardown(g))
  BY SniffConfigGood, TeardownGood DEF Placed
<1>2. "ST_SniffTeardown" \in States \ {"ST_DumpFlashSend"}
  BY DEF States
<1>3. Placed([g EXCEPT !.state = "ST_SniffTeardown"])
  BY DEF Typed, Host, Placed, Resting, SniffStates, DumpStates
<1>4. Good(Armed([g EXCEPT !.state = "ST_SniffTeardown"]))
  BY <1>2, <1>3, EnterGood
<1> QED
  BY <1>1, <1>4 DEF SniffTimeout

-----------------------------------------------------------------------------
(* The dump, the tasks, and the events of the loop.                        *)

\* A state is entered with an action scheduled.
LEMMA ScheduleGood ==
  ASSUME NEW g, Typed(g),
         NEW st \in {"ST_DumpFlashQueryFirmwareVersion", "ST_DumpFlashSend"},
         Placed([g EXCEPT !.state = st])
  PROVE  Good(Schedule([g EXCEPT !.state = st]))
<1> DEFINE a == [g EXCEPT !.state = st]
<1>1. Typed(a) /\ a.state = st
  BY Zenon DEF Typed, Host, States
<1> HIDE DEF a
<1>2. Placed(a)
  BY DEF a
<1>3. Good(Schedule(a))
  BY <1>1, <1>2, Zenon DEF Schedule, Good, Typed, Host, Placed, Waits
<1> QED
  BY <1>3 DEF a

\* The dump starts with its first action scheduled, or ends.
LEMMA DumpConnectGood ==
  ASSUME NEW g, Typed(g), g.udp = "free", g.leaks = 0, NEW open,
         Task \notin {"T_CONNECT", "T_SNIFF"}
  PROVE  Good(DumpConnectAction(g, open))
<1> DEFINE c == Connect(g, open)
           d == [g EXCEPT !.said = "noConnection"]
           e == [d EXCEPT !.state = "ST_DumpFlashConnect"]
           f == [g EXCEPT !.state = "ST_DumpFlashConnect", !.said = "noConnection"]
<1>1. Typed(c) /\ c.udp = "free" /\ c.leaks = 0
  BY ConnectTyped
<1> HIDE DEF c
<1>2. Placed([c EXCEPT !.state = "ST_DumpFlashQueryFirmwareVersion"])
  BY <1>1 DEF Typed, Host, Placed, DumpStates
<1>3. Good(Schedule([c EXCEPT !.state = "ST_DumpFlashQueryFirmwareVersion"]))
  BY <1>1, <1>2, ScheduleGood, Zenon
<1>4. Good(Shut(f))
  <2>1. Typed(d) /\ d.udp = "free" /\ d.leaks = 0
    BY Zenon DEF Typed, Host, Verdicts
  <2>2. f = e
    BY Zenon
  <2> HIDE DEF d, f
  <2>3. Typed(e) /\ e.running = d.running /\ e.udp = "free" /\ e.leaks = 0
          /\ e.state = "ST_DumpFlashConnect"
    BY <2>1, Zenon DEF Typed, Host, States
  <2> HIDE DEF e
  <2> QED
    BY <2>2, <2>3, Zenon DEF Good, Typed, Host, Placed, Waits, Shut, DumpStates
<1> QED
  BY <1>3, <1>4 DEF DumpConnectAction, c

\* -c connects, or tries again when the timer expires.
LEMMA ConnectActionGood ==
  ASSUME NEW g, Typed(g), g.udp = "free", g.leaks = 0, g.state = "ST_Init", NEW open,
         Task = "T_CONNECT"
  PROVE  Good(ConnectAction(g, open))
<1> DEFINE c == Connect(g, open)
<1>1. Typed(c) /\ c.udp = "free" /\ c.leaks = 0
  BY ConnectTyped
<1> HIDE DEF c
<1>2. \A x : Typed(x) /\ x.udp = "free" /\ x.leaks = 0 =>
        \A st \in {"ST_Init", "ST_Connected"} : Placed([x EXCEPT !.state = st])
  BY DEF Typed, Host, Placed
<1>3. "ST_Init" \in States \ {"ST_DumpFlashSend"} /\ "ST_Connected" \in States \ {"ST_DumpFlashSend"}
  BY DEF States
<1>4. Good(Armed([c EXCEPT !.state = "ST_Connected"]))
  BY <1>1, <1>2, <1>3, EnterGood, Zenon
<1>5. Good(Armed([g EXCEPT !.state = "ST_Init"]))
  BY <1>2, <1>3, EnterGood, Zenon
<1> QED
  BY <1>4, <1>5 DEF ConnectAction, c

\* EV_PL_STARTED and EV_TIMEOUT in ST_Init.
LEMMA InitEventGood ==
  ASSUME NEW g, Typed(g), g.udp = "free", g.leaks = 0, g.state = "ST_Init", NEW open
  PROVE  Good(InitEvent(g, open))
  BY ConnectActionGood, SniffConnectGood, DumpConnectGood DEF InitEvent

\* EV_ACTION, its flag cleared.
LEMMA DumpActionGood ==
  ASSUME NEW g, Good(g)
  PROVE  Good(DumpAction([g EXCEPT !.evAction = FALSE]))
<1> DEFINE a == [g EXCEPT !.evAction = FALSE]
           b == Armed(a)
<1> SUFFICES Good(DumpAction(a))
  OBVIOUS
<1>1. Typed(a) /\ Placed(a) /\ a.state = g.state /\ a.address = g.address
        /\ (g.state \notin {"ST_DumpFlashQueryFirmwareVersion", "ST_DumpFlashSend"} => Good(a))
  BY ZenonT(40) DEF Good, Typed, Host, Placed, Waits
<1> HIDE DEF a
<1>2. CASE a.state = "ST_DumpFlashQueryFirmwareVersion"
  <2> DEFINE w == Write(a, "version", 0)
  <2>1. Typed(w) /\ Placed(w)
    BY <1>1, WriteGood, CmdsTyped
  <2>2. w.state # "ST_DumpFlashSend"
    BY <1>1, <1>2 DEF Write, Disconnected, Typed, Host, SniffStates
  <2> HIDE DEF w
  <2>3. Good(Armed(w))
    BY <2>1, <2>2, ArmedGood
  <2>4. DumpAction(a) = Armed(w)
    BY <1>2 DEF DumpAction, QueryVersionAction, w
  <2> QED
    BY <2>3, <2>4
<1>3. CASE a.state = "ST_DumpFlashSend"
  <2>1. DumpAction(a) = SendAction(a)
    BY <1>3 DEF DumpAction
  <2>2. CASE a.address = FlashSteps
    <3> DEFINE d == [a EXCEPT !.said = "complete"]
    <3>1. Typed(d) /\ Placed(d)
      <4>1. Task \notin {"T_CONNECT", "T_SNIFF"}
        BY <1>1, <1>3 DEF Placed, Resting, SniffStates
      <4> QED
        BY <1>1, <4>1, SaidGood, Zenon DEF Verdicts
    <3> HIDE DEF d
    <3>2. Good(Shut(d))
      BY <3>1, ShutGood
    <3> QED
      BY <2>1, <2>2, <3>2 DEF SendAction, d
  <2>3. CASE a.address # FlashSteps
    <3> DEFINE w == Write(b, "read", a.address)
    <3>1. Typed(b) /\ Placed(b) /\ b.state = "ST_DumpFlashSend" /\ b.address = a.address /\ b.timer
      BY <1>1, <1>3, ArmedGood, Zenon DEF Armed, Typed, Host
    <3> HIDE DEF b
    <3>2. [cmd |-> "read", addr |-> a.address] \in Cmds
      BY <1>1, CmdsTyped DEF Typed
    <3>3. Typed(w) /\ Placed(w)
      BY <3>1, <3>2, WriteGood
    <3>4. w.address = a.address /\ w.timer /\ w.state = "ST_DumpFlashSend"
      BY <3>1 DEF Write, Disconnected, Typed, Host, SniffStates
    <3> HIDE DEF w
    <3>5. w.address < FlashSteps
      BY <2>3, <3>3, <3>4, Constants DEF Typed, Steps0
    <3>6. Good([w EXCEPT !.state = "ST_DumpFlashWait"])
      BY <3>3, <3>4, <3>5, Zenon DEF Good, Typed, Host, Placed, Waits, States, Resting, SniffStates,
                              DumpStates
    <3> QED
      BY <2>1, <2>3, <3>6 DEF SendAction, b, w
  <2> QED
    BY <2>2, <2>3
<1>4. CASE a.state \notin {"ST_DumpFlashQueryFirmwareVersion", "ST_DumpFlashSend"}
  <2>1. DumpAction(a) = a
    BY <1>4 DEF DumpAction
  <2> QED
    BY <1>1, <1>4, <2>1
<1> QED
  BY <1>2, <1>3, <1>4

\* An answer, or what is taken for one.
LEMMA DumpPacketGood ==
  ASSUME NEW g, Good(g), NEW p \in Packets
  PROVE  Good(DumpPacket(g, p))
<1> DEFINE a == [g EXCEPT !.timer = FALSE]
<1>0. p.addr \in Nat /\ FlashSteps \in Nat
  BY Constants DEF Packets
<1>1. Typed(a) /\ Placed(a) /\ a.state = g.state /\ a.address = g.address
  BY Zenon DEF Good, Typed, Host, Placed
<1> HIDE DEF a
<1>2. \A v \in Verdicts \ {"complete"} : Good(Shut([a EXCEPT !.said = v]))
  BY <1>1, SaidGood, ShutGood
<1>3. CASE g.state = "ST_DumpFlashQueryFirmwareVersion"
  <2> DEFINE b == [a EXCEPT !.address = 0]
             c == [g EXCEPT !.timer = FALSE, !.address = 0, !.state = "ST_DumpFlashSend"]
  <2>1. Typed(b) /\ Placed([b EXCEPT !.state = "ST_DumpFlashSend"])
    <3>1. Typed(b) /\ b.state = a.state /\ b.udp = a.udp /\ b.leaks = a.leaks
      BY <1>1, Constants, Zenon DEF Typed, Host
    <3> HIDE DEF b
    <3> QED
      BY <1>1, <1>3, <3>1 DEF Typed, Host, Placed, Resting, SniffStates, DumpStates
  <2>2. [b EXCEPT !.state = "ST_DumpFlashSend"] = c
    BY DEF a
  <2> HIDE DEF b, c
  <2>3. Good(Schedule(c))
    BY <2>1, <2>2, ScheduleGood, Zenon
  <2>4. Shut([g EXCEPT !.timer = FALSE, !.said = "unsupported"])
          = Shut([a EXCEPT !.said = "unsupported"])
    BY DEF a
  <2>5. DumpPacket(g, p) \in {g, Schedule(c), Shut([g EXCEPT !.timer = FALSE, !.said = "unsupported"])}
    BY <1>3 DEF DumpPacket, QueryVersionPacket, c
  <2> QED
    BY <1>2, <2>3, <2>4, <2>5 DEF Verdicts
<1>4. CASE g.state = "ST_DumpFlashWait"
  <2>1. ASSUME NEW b, Typed(b), Placed(b), b.state = g.state, b.address = g.address
        PROVE  Good(NextAddress(b))
    <3> DEFINE c == [b EXCEPT !.address = @ + 1]
               d == [b EXCEPT !.address = @ + 1, !.state = "ST_DumpFlashSend"]
    <3>1. b.address \in Steps0 /\ b.address < FlashSteps /\ b.address + 1 \in Steps0
            /\ b.address + 1 \in Nat
      BY <1>0, <1>4, <2>1 DEF Typed, Placed, Steps0
    <3>2. Typed(c) /\ c.state = g.state /\ c.udp = b.udp /\ c.leaks = b.leaks
      BY <2>1, <3>1, Zenon DEF Typed, Host
    <3>3. [c EXCEPT !.state = "ST_DumpFlashSend"] = d
      OBVIOUS
    <3> HIDE DEF c, d
    <3>4. Placed([c EXCEPT !.state = "ST_DumpFlashSend"])
      BY <1>4, <2>1, <3>2 DEF Typed, Host, Placed, Resting, SniffStates, DumpStates
    <3>5. Good(Schedule(d))
      BY <3>2, <3>3, <3>4, ScheduleGood, Zenon
    <3> QED
      BY <3>5 DEF NextAddress, d
  <2>2. Typed([a EXCEPT !.printed = Append(@, p.addr)])
          /\ Placed([a EXCEPT !.printed = Append(@, p.addr)])
          /\ [a EXCEPT !.printed = Append(@, p.addr)].state = g.state
          /\ [a EXCEPT !.printed = Append(@, p.addr)].address = g.address
    <3>1. Append(a.printed, p.addr) \in Seq(Nat)
      BY <1>0, <1>1 DEF Typed, Host
    <3> QED
      BY <1>1, <3>1, Zenon DEF Typed, Host, Placed
  <2>3. DumpPacket(g, p) \in {g, NextAddress(a), Shut([a EXCEPT !.said = "status"]),
                              NextAddress([a EXCEPT !.printed = Append(@, p.addr)])}
    <3>1. DumpPacket(g, p) = WaitPacket(g, p)
      BY <1>4 DEF DumpPacket
    <3> QED
      BY <3>1 DEF WaitPacket, a
  <2> QED
    BY <1>1, <1>2, <2>1, <2>2, <2>3, Zenon DEF Verdicts
<1>5. CASE g.state \notin {"ST_DumpFlashQueryFirmwareVersion", "ST_DumpFlashWait"}
  BY <1>5 DEF DumpPacket
<1> QED
  BY <1>3, <1>4, <1>5

\* Good hosts, as a set for the fold.
GoodHosts == {g \in Host : Good(g)}

\* The packets of a read are handled one by one.
LEMMA DumpFold ==
  ASSUME NEW g \in GoodHosts, NEW c \in Seq(Packets)
  PROVE  \E tr \in [0..Len(c) -> GoodHosts] :
           /\ tr[0] = g
           /\ \A i \in 1..Len(c) : tr[i] = DumpPacket(tr[i - 1], c[i])
           /\ FoldLeft(DumpPacket, g, c) = tr[Len(c)]
<1> DEFINE N == Len(c)
           X == GoodHosts
           Is(f) == f = [q \in SUBSET (1..N) |->
                           IF q = {} THEN g ELSE DumpPacket(f[q \ {Max(q)}], c[Max(q)])]
           iter == CHOOSE f : Is(f)
           next == [z \in X \X (1..N) |-> DumpPacket(z[1], c[z[2]])]
<1>1. N \in Nat /\ DOMAIN c = 1..N /\ \A i \in 1..N : c[i] \in Packets
  OBVIOUS
<1>2. FoldLeft(DumpPacket, g, c) = iter[1..N]
  BY <1>1 DEF FoldLeft, MapThenFoldSet
<1>0. \A x \in X, p \in Packets : DumpPacket(x, p) \in X
  <2> SUFFICES ASSUME NEW x \in X, NEW p \in Packets PROVE DumpPacket(x, p) \in X
    OBVIOUS
  <2>1. Good(DumpPacket(x, p))
    BY DumpPacketGood DEF GoodHosts
  <2> QED
    BY <2>1 DEF GoodHosts, Good, Typed
<1> HIDE DEF N, X
<1>3. next \in [X \X (1..N) -> X]
        /\ \A x \in X, i \in 1..N : next[<<x, i>>] = DumpPacket(x, c[i])
  BY <1>0, <1>1
<1> HIDE DEF next
<1>4. \A q \in SUBSET (1..N) : q # {} => Max(q) \in 1..N
  BY <1>1, MaxIn, Zenon
<1>5. PICK f \in [SUBSET (1..N) -> X] : IsFold(f, N, g, next)
  BY <1>1, <1>3, FoldExists, Zenon DEF X
<1>6. Is(f)
  BY <1>3, <1>4, <1>5, Zenon DEF IsFold
<1>7. Is(iter)
  <2> HIDE DEF Is
  <2> QED
    BY <1>6
<1> HIDE DEF iter
<1>8. FoldsIn(X, iter, N, g, next)
  BY <1>3, <1>4, <1>7, Zenon DEF FoldsIn
<1> HIDE DEF Is
<1>9. g \in X
  BY DEF X
<1>10. PICK tr \in [0..N -> X] : Steps(tr, N, g, next) /\ tr[N] = iter[1..N]
  BY <1>1, <1>8, <1>9, FoldSteps
<1>11. ASSUME NEW i \in 1..N PROVE tr[i] = DumpPacket(tr[i - 1], c[i])
  <2>1. i - 1 \in 0..N
    BY <1>1
  <2> QED
    BY <1>3, <1>10, <2>1, Zenon DEF Steps
<1> QED
  BY <1>2, <1>10, <1>11 DEF N, X, Steps

\* GCF_Received.
LEMMA ReceivedGood ==
  ASSUME NEW g, Good(g), NEW c,
         Task = "T_SNIFF" => c \in Seq(Sniffed),
         Task # "T_SNIFF" => c \in Seq(Packets)
  PROVE  Good(Received(g, c))
<1>1. CASE Task = "T_SNIFF"
  <2> DEFINE s == [i \in DOMAIN c |-> c[i].byte]
  <2>1. s \in Seq(Bytes)
    <3>1. c \in Seq(Sniffed)
      BY <1>1
    <3>2. DOMAIN c = 1..Len(c) /\ Len(c) \in Nat /\ \A i \in 1..Len(c) : c[i] \in Sniffed
      BY <3>1
    <3>3. \A i \in 1..Len(c) : c[i].byte \in Bytes
      BY <3>2 DEF Sniffed
    <3> QED
      BY <3>2, <3>3
  <2> HIDE DEF s
  <2>2. Good(SniffReceived(g, s))
    BY <1>1, <2>1, SniffReceivedGood
  <2> QED
    BY <1>1, <2>2 DEF Received, s
<1>2. CASE Task # "T_SNIFF"
  <2>1. g \in GoodHosts
    BY DEF GoodHosts, Good, Typed
  <2>2. FoldLeft(DumpPacket, g, c) \in GoodHosts
    <3>1. c \in Seq(Packets) /\ Len(c) \in 0..Len(c)
      BY <1>2
    <3>2. PICK tr \in [0..Len(c) -> GoodHosts] : FoldLeft(DumpPacket, g, c) = tr[Len(c)]
      BY <2>1, <3>1, DumpFold, Zenon
    <3> QED
      BY <3>1, <3>2
  <2> QED
    BY <1>2, <2>2 DEF Received, GoodHosts
<1> QED
  BY <1>1, <1>2

\* EV_PL_LOOP.
LEMMA LoopEventGood ==
  ASSUME NEW g, Good(g)
  PROVE  Good(LoopEvent(g))
  BY SniffSyncGood, DumpActionGood DEF LoopEvent

\* The timeout of the states of the dump.
LEMMA DumpTimeoutGood ==
  ASSUME NEW g, Typed(g), Placed(g), g.state \in DumpStates, g.running,
         g.state = "ST_DumpFlashSend" => g.evAction
  PROVE  Good(DumpTimeout(g))
<1>1. \A v \in Verdicts \ {"complete"} : Good(Shut([g EXCEPT !.said = v]))
  BY SaidGood, ShutGood
<1>2. g.state = "ST_DumpFlashSend" => Good(g)
  BY DEF Good, Waits
<1>3. g.state # "ST_DumpFlashConnect"
  BY DEF Placed
<1> QED
  BY <1>1, <1>2, <1>3 DEF DumpTimeout, DumpStates, Verdicts

\* EV_TIMEOUT.  A program that ended may still see its timer expire.
LEMMA TimeoutGood ==
  ASSUME NEW g, Good(g), job \in Jobs, NEW open
  PROVE  Good(Timeout(g, open))
<1> DEFINE a == [g EXCEPT !.timer = FALSE]
<1>1. Typed(a) /\ Placed(a) /\ a.state = g.state /\ a.running = g.running
        /\ a.evAction = g.evAction
  BY Zenon DEF Good, Typed, Host, Placed
<1>2. g.running /\ g.state = "ST_DumpFlashSend" => g.evAction
  BY DEF Good, Waits
<1>0. Timeout(g, open) =
        CASE a.state = "ST_Init"      -> InitEvent(a, open)
          [] a.state = "ST_Connected" -> ConnectedTimeout(a)
          [] a.state \in SniffStates \cup {"ST_SniffTeardown"} -> SniffTimeout(a)
          [] OTHER                    -> DumpTimeout(a)
  BY DEF Timeout
<1> HIDE DEF a
<1>3. CASE a.state = "ST_Init"
  <2>1. a.udp = "free" /\ a.leaks = 0
    BY <1>1, <1>3 DEF Typed, Host, Placed, Resting, SniffStates
  <2> QED
    BY <1>0, <1>1, <1>3, <2>1, InitEventGood DEF SniffStates
<1>4. CASE a.state = "ST_Connected"
  <2> DEFINE w == Write(a, "status", 0)
  <2>1. Typed(w) /\ Placed(w)
    BY <1>1, WriteGood, CmdsTyped
  <2>2. w.state # "ST_DumpFlashSend"
    BY <1>1, <1>4, Zenon DEF Write, Disconnected, Typed, Host, SniffStates, Armed
  <2>3. Good(Armed(w)) /\ Good(Armed(a))
    <3> HIDE DEF w
    <3> QED
      BY <1>1, <1>4, <2>1, <2>2, ArmedGood
  <2>4. Timeout(g, open) = ConnectedTimeout(a)
    BY <1>0, <1>4 DEF SniffStates
  <2>5. ConnectedTimeout(a) \in {Armed(a), Armed(w)}
    BY DEF ConnectedTimeout
  <2> QED
    BY <2>3, <2>4, <2>5
<1>5. CASE a.state \in SniffStates \cup {"ST_SniffTeardown"}
  <2>1. Timeout(g, open) = SniffTimeout(a)
    BY <1>0, <1>5 DEF SniffStates
  <2>2. Task = "T_SNIFF"
    BY <1>1, <1>5, Constants DEF Placed, SniffStates, DumpStates
  <2> QED
    BY <1>1, <2>1, <2>2, SniffTimeoutGood
<1>6. CASE a.state \notin SniffStates \cup {"ST_SniffTeardown", "ST_Init", "ST_Connected"}
  <2>1. Timeout(g, open) = DumpTimeout(a)
    BY <1>0, <1>6
  <2>2. a.state \in DumpStates
    BY <1>1, <1>6 DEF Typed, Host, States, DumpStates
  <2>3. CASE g.running
    BY <1>1, <1>2, <2>1, <2>2, <2>3, DumpTimeoutGood, Zenon
  <2>4. CASE ~g.running
    <3>1. \A v \in Verdicts \ {"complete"} : Good(Shut([a EXCEPT !.said = v]))
      BY <1>1, SaidGood, ShutGood
    <3>2. Good(a)
      BY <1>1, <2>4 DEF Good, Waits
    <3> QED
      BY <2>1, <3>1, <3>2 DEF DumpTimeout, Verdicts
  <2> QED
    BY <2>3, <2>4
<1> QED
  BY <1>3, <1>4, <1>5, <1>6

-----------------------------------------------------------------------------
(* Types and waits, action by action.                                      *)

\* The host is Booted when the program starts.
LEMMA BootedTyped == Typed(Booted) /\ Booted.udp = "free" /\ Booted.leaks = 0
                       /\ Booted.state = "ST_Init"
<1>1. << >> \in Seq([seq : Nat, data : Seq(Bytes)]) /\ << >> \in Seq(Nat)
        /\ << >> \in Seq(Commands) /\ << >> \in Seq(Cmds)
  OBVIOUS
<1> QED
  BY <1>1, EmptyTyped, Constants DEF Typed, Host, Booted, States, Verdicts

\* A step of the host leaves a good host and a typed world.
LEMMA TurnGood ==
  ASSUME WorldTyped, NEW g, Good(g), NEW unread, NEW note, SeenIn(note),
         Task = "T_SNIFF" => unread \in Seq(Sniffed),
         Task # "T_SNIFF" => unread \in Seq(Packets),
         Turn(g, unread, note)
  PROVE  /\ t'.port = << >> /\ Good(t)'
         /\ job' \in Jobs /\ dev' = dev /\ Task' = Task
         /\ (toDev \in Seq(Cmds) /\ Len(toDev) <= DevCap)'
         /\ (Task = "T_SNIFF" => line \in Seq(Sniffed))'
         /\ (Task # "T_SNIFF" => line \in Seq(Packets))'
         /\ hup' \in BOOLEAN
         /\ SeenIn(seen)'
<1> DEFINE a == [g EXCEPT !.port = << >>]
<1>1. t' = a /\ job' = job /\ dev' = dev
  BY DEF Turn
<1>2. Good(a) /\ a.port = << >>
  BY BootedTyped, ZenonT(60) DEF Good, Typed, Host, Placed, Waits, Booted
<1> HIDE DEF a
<1>3. Task' = Task /\ Cmds' = Cmds
  BY <1>1 DEF Task, Cmds
<1>4. Good(t)'
  BY <1>1, <1>2, <1>3 DEF Good, Typed, Placed, Waits
<1>5. toDev' \in Seq(Cmds) /\ Len(toDev') <= DevCap
  <2> DEFINE s == toDev \o g.port
  <2>1. toDev \in Seq(Cmds) /\ Len(toDev) <= DevCap /\ s \in Seq(Cmds) /\ DevCap \in Nat
    BY SerialAssumption DEF WorldTyped, Good, Typed
  <2>2. Len(s) > DevCap => SubSeq(s, 1, DevCap) \in Seq(Cmds)
                             /\ Len(SubSeq(s, 1, DevCap)) = DevCap
    <3> HIDE DEF s
    <3> QED
      BY <2>1
  <2>3. toDev' \in {toDev, s, SubSeq(s, 1, DevCap)}
          /\ (toDev' = s => Len(s) <= DevCap \/ toDev' \in {toDev, SubSeq(s, 1, DevCap)})
          /\ (toDev' = SubSeq(s, 1, DevCap) =>
                Len(s) > DevCap \/ toDev' = toDev \/ (toDev' = s /\ Len(s) <= DevCap))
    <3>1. Len(s) \in Nat
      BY <2>1
    <3> QED
      BY <2>1, <3>1 DEF Turn
  <2> HIDE DEF s
  <2> QED
    BY <2>1, <2>2, <2>3
<1>6. line' \in {<< >>, unread}
  BY DEF Turn
<1>7. hup' \in BOOLEAN
  BY DEF Turn, WorldTyped
<1>8. SeenIn(seen')
  <2>1. seen' = Noted(g, note)
    BY DEF Turn
  <2>2. SeenIn(Fresh)
    BY DEF SeenIn, Fresh
  <2>3. SeenIn([note EXCEPT !.excused = @ \cup note.marker, !.marker = {}])
    BY Zenon DEF SeenIn
  <2> QED
    BY <2>1, <2>2, <2>3 DEF Noted
<1>9. (Task = "T_SNIFF" => line' \in Seq(Sniffed)) /\ (Task # "T_SNIFF" => line' \in Seq(Packets))
  <2>1. << >> \in Seq(Sniffed) /\ << >> \in Seq(Packets)
    OBVIOUS
  <2> QED
    BY <1>6, <2>1, Zenon
<1>10. t'.port = << >> /\ job' \in Jobs
  BY <1>1, <1>2 DEF WorldTyped
<1> QED
  BY <1>1, <1>3, <1>4, <1>5, <1>7, <1>8, <1>9, <1>10 DEF SeenIn

\* What is behind what.
LEMMA Joined ==
  ASSUME NEW x \in Seq(Bytes), NEW y \in Seq(Bytes)
  PROVE  /\ x \o y \in Seq(Bytes) /\ Len(x \o y) = Len(x) + Len(y)
         /\ \A i \in 1..Len(x) : (x \o y)[i] = x[i]
         /\ \A i \in 1..Len(y) : (x \o y)[Len(x) + i] = y[i]
  OBVIOUS

\* What the sniffer sends for a frame, byte by byte.
LEMMA FrameShape ==
  ASSUME NEW f \in DOMAIN Script
  PROVE  LET w == FrameBytes(f)
             n == Len(Script[f])
         IN  /\ w \in Seq(Sniffed) /\ n \in Nat /\ Len(w) = MinLength + n + 3
             /\ \A i \in DOMAIN w : w[i].frame = f /\ w[i].at = i
             /\ w[1].byte = Start /\ w[2].byte = MinLength + n /\ w[MinLength + n + 3].byte = End
             /\ \A k \in 1..n : w[MinLength + 2 + k].byte = Script[f][k]
<1> DEFINE stamp == [i \in 1..MinLength |-> i]
           head == <<Start, MinLength + Len(Script[f])>>
           front == head \o stamp
           bytes == front \o Script[f] \o <<End>>
           n == Len(Script[f])
           w == FrameBytes(f)
<1>1. f \in 0..Len(Script) /\ Script[f] \in Seq(Bytes) /\ MinLength + Len(Script[f]) \in Bytes
  BY SerialAssumption
<1>2. Start \in Bytes /\ End \in Bytes /\ MinLength \in Nat /\ n \in Nat
  BY <1>1, SnifferAssumption
<1>3. stamp \in Seq(Bytes) /\ Len(stamp) = MinLength
  BY SerialAssumption, SnifferAssumption
<1>4. head \in Seq(Bytes) /\ Len(head) = 2 /\ head[1] = Start /\ head[2] = MinLength + n
  BY <1>1, <1>2
<1>5. <<End>> \in Seq(Bytes) /\ Len(<<End>>) = 1 /\ <<End>>[1] = End
  BY <1>2
<1>6. w = [i \in 1..Len(bytes) |-> [byte |-> bytes[i], frame |-> f, at |-> i]]
  BY DEF FrameBytes
<1> HIDE DEF stamp, head, w
<1>7. front \in Seq(Bytes) /\ Len(front) = MinLength + 2 /\ front[1] = Start
        /\ front[2] = MinLength + n
  <2>1. front \in Seq(Bytes)
    BY <1>3, <1>4, ConcatProperties
  <2>2. \A x, y \in Seq(Bytes) : Len(x \o y) = Len(x) + Len(y)
          /\ \A i \in 1..Len(x) : (x \o y)[i] = x[i]
    OBVIOUS
  <2>4. Len(front) = Len(head) + Len(stamp) /\ \A i \in 1..Len(head) : front[i] = head[i]
    BY <1>3, <1>4, <2>2, Zenon
  <2> HIDE DEF front
  <2>3. Len(front) = MinLength + 2 /\ front[1] = head[1] /\ front[2] = head[2]
    BY <1>2, <1>3, <1>4, <2>4
  <2> QED
    BY <1>4, <2>1, <2>3
<1> HIDE DEF front
<1> DEFINE most == front \o Script[f]
<1>8. most \in Seq(Bytes) /\ Len(most) = MinLength + 2 + n
        /\ most[1] = Start /\ most[2] = MinLength + n
        /\ \A k \in 1..n : most[MinLength + 2 + k] = Script[f][k]
  BY <1>1, <1>2, <1>7
<1>9. bytes = most \o <<End>>
  OBVIOUS
<1> HIDE DEF most, bytes
<1>10. bytes \in Seq(Bytes) /\ Len(bytes) = MinLength + n + 3
        /\ bytes[1] = Start /\ bytes[2] = MinLength + n /\ bytes[MinLength + n + 3] = End
        /\ \A k \in 1..n : bytes[MinLength + 2 + k] = Script[f][k]
  <2> DEFINE last == <<End>>
  <2>2. last \in Seq(Bytes) /\ Len(last) = 1 /\ last[1] = End
    BY <1>5
  <2>3. bytes = most \o last /\ most \in Seq(Bytes)
    BY <1>8, <1>9
  <2> HIDE DEF last
  <2>a. most \in Seq(Bytes) /\ last \in Seq(Bytes)
    BY <2>2, <2>3
  <2>b. /\ most \o last \in Seq(Bytes) /\ Len(most \o last) = Len(most) + Len(last)
        /\ \A i \in 1..Len(most) : (most \o last)[i] = most[i]
        /\ \A i \in 1..Len(last) : (most \o last)[Len(most) + i] = last[i]
    BY <2>a, Joined
  <2>4. /\ bytes \in Seq(Bytes) /\ Len(bytes) = Len(most) + Len(last)
        /\ \A i \in 1..Len(most) : bytes[i] = most[i]
        /\ \A i \in 1..Len(last) : bytes[Len(most) + i] = last[i]
    BY <2>b, <2>3
  <2>5. bytes[Len(most) + 1] = End
    BY <2>2, <2>4
  <2>6. \A i \in 1..(MinLength + 2 + n) : bytes[i] = most[i]
    BY <1>8, <2>4
  <2>7. /\ 1 \in 1..(MinLength + 2 + n) /\ 2 \in 1..(MinLength + 2 + n)
        /\ \A k \in 1..n : MinLength + 2 + k \in 1..(MinLength + 2 + n)
        /\ Len(most) + 1 = MinLength + n + 3 /\ Len(most) + Len(last) = MinLength + n + 3
    BY <1>2, <1>8, <2>2
  <2> QED
    BY <1>8, <2>4, <2>5, <2>6, <2>7
<1>11. \A i \in 1..Len(bytes) : /\ [byte |-> bytes[i], frame |-> f, at |-> i] \in Sniffed
                                /\ w[i] = [byte |-> bytes[i], frame |-> f, at |-> i]
  BY <1>1, <1>6, <1>10 DEF Sniffed
<1>12. w \in Seq(Sniffed) /\ Len(w) = MinLength + n + 3 /\ DOMAIN w = 1..(MinLength + n + 3)
  BY <1>2, <1>6, <1>10, <1>11
<1>13. /\ 1 \in 1..(MinLength + n + 3) /\ 2 \in 1..(MinLength + n + 3)
       /\ MinLength + n + 3 \in 1..(MinLength + n + 3)
       /\ \A k \in 1..n : MinLength + 2 + k \in 1..(MinLength + n + 3)
  BY <1>2
<1> HIDE DEF bytes, n
<1>14. ASSUME NEW i \in 1..(MinLength + n + 3)
      PROVE  w[i].byte = bytes[i] /\ w[i].frame = f /\ w[i].at = i
  <2>1. w[i] = [byte |-> bytes[i], frame |-> f, at |-> i]
    BY <1>10, <1>11
  <2> QED
    BY <2>1
<1>15. \A k \in 1..n : w[MinLength + 2 + k].byte = Script[f][k]
  BY <1>10, <1>13, <1>14
<1>16. w[1].byte = Start /\ w[2].byte = MinLength + n /\ w[MinLength + n + 3].byte = End
  BY <1>10, <1>13, <1>14
<1>17. \A i \in DOMAIN w : w[i].frame = f /\ w[i].at = i
  BY <1>12, <1>14
<1>18. /\ w \in Seq(Sniffed) /\ n \in Nat /\ Len(w) = MinLength + n + 3
       /\ \A i \in DOMAIN w : w[i].frame = f /\ w[i].at = i
       /\ w[1].byte = Start /\ w[2].byte = MinLength + n /\ w[MinLength + n + 3].byte = End
       /\ \A k \in 1..n : w[MinLength + 2 + k].byte = Script[f][k]
  BY <1>2, <1>12, <1>15, <1>16, <1>17
<1> QED
  BY <1>18 DEF w, n

\* The other word it says.
LEMMA OkShape ==
  LET w == Said(<<O, K>>)
  IN  /\ w \in Seq(Sniffed) /\ Len(w) = 2
      /\ \A i \in DOMAIN w : w[i].frame = 0 /\ w[i].at = i /\ w[i].byte # Start
  BY SnifferAssumption, SerialAssumption DEF Said, Sniffed, O, K, Start

\* All it says is typed.
LEMMA FrameTyped ==
  ASSUME NEW f \in DOMAIN Script
  PROVE  FrameBytes(f) \in Seq(Sniffed) /\ Said(<<O, K>>) \in Seq(Sniffed)
  BY FrameShape, OkShape

\* Answers are packets about the address that was asked for.
LEMMA AnswersTyped ==
  ASSUME NEW m \in Cmds, NEW p \in Answers(m)
  PROVE  /\ p \in Packets
         /\ m.addr \in Steps0
         /\ p.cmd = "read" => m.cmd = "read" /\ p.addr = m.addr
         /\ p.status = "EOFFSET" => p.cmd = "read"
<1>1. m.addr \in Steps0 /\ 0 \in 0..FlashSteps
  BY Constants DEF Cmds, Steps0
<1>2. CASE m.cmd = "version"
  <2>1. p \in {Packet("version", b, "SUCCESS", 0) : b \in BOOLEAN}
    BY <1>2 DEF Answers
  <2>2. PICK b \in BOOLEAN :
          p = [cmd |-> "version", r21 |-> b, status |-> "SUCCESS", addr |-> 0]
    BY <2>1 DEF Packet
  <2>3. p.cmd = "version" /\ p.status = "SUCCESS"
    BY <2>2
  <2>4. p \in Packets
    <3>1. \A r21 \in BOOLEAN :
            [cmd |-> "version", r21 |-> r21, status |-> "SUCCESS", addr |-> 0] \in Packets
      BY <1>1 DEF Packets
    <3> QED
      BY <2>2, <3>1, Zenon
  <2> QED
    BY <1>1, <2>3, <2>4
<1>3. CASE m.cmd = "read"
  <2>1. p \in {Packet("read", TRUE, s, m.addr) : s \in {"SUCCESS", "EOFFSET", "ERROR"}}
    BY <1>3, Zenon DEF Answers
  <2>2. PICK s \in {"SUCCESS", "EOFFSET", "ERROR"} :
          p = [cmd |-> "read", r21 |-> TRUE, status |-> s, addr |-> m.addr]
    BY <2>1 DEF Packet
  <2>3. p.cmd = "read" /\ p.addr = m.addr
    BY <2>2
  <2>4. p \in Packets
    BY <1>1, <2>2 DEF Packets, Steps0
  <2> QED
    BY <1>1, <1>3, <2>3, <2>4
<1>4. CASE m.cmd \notin {"version", "read"}
  <2>1. p = Packet("other", TRUE, "SUCCESS", 0)
    BY <1>4, Zenon DEF Answers
  <2> QED
    BY <1>1, <2>1 DEF Packet, Packets
<1> QED
  BY <1>2, <1>3, <1>4

\* The history stays typed when bytes are read.
LEMMA NotesTyped ==
  ASSUME SeenIn(seen), NEW c, c # << >>, Task = "T_SNIFF" => c \in Seq(Sniffed)
  PROVE  SeenIn(Notes(c))
<1>1. CASE Task # "T_SNIFF" \/ t.state # "ST_SniffSyncData"
  BY <1>1 DEF Notes
<1>2. CASE Task = "T_SNIFF" /\ t.state = "ST_SniffSyncData"
  <2> DEFINE begun == seen.begun \cup Begun(c)
             arrived == seen.arrived \cup (Ended(c) \cap begun)
             marker == Begun(<<Last(c)>>)
             rolled == seen.rolled \/ Len(t.ascii) + Len(c) > AsciiCap
  <2>1. c \in Seq(Sniffed) /\ Len(c) \in Nat /\ Len(c) >= 1 /\ Len(c) \in DOMAIN c
          /\ Last(c) = c[Len(c)]
    <3>1. c \in Seq(Sniffed)
      BY <1>2
    <3>2. Len(c) # 0
      BY <3>1
    <3> QED
      BY <3>1, <3>2 DEF Last
  <2>2. Begun(c) \subseteq Nat
    <3>1. \A i \in DOMAIN c : c[i].frame \in Nat
      <4>1. \A i \in DOMAIN c : c[i] \in Sniffed
        BY <2>1
      <4>2. \A x \in Sniffed : x.frame \in Nat
        BY SerialAssumption DEF Sniffed
      <4> QED
        BY <4>1, <4>2
    <3> QED
      BY <3>1 DEF Begun
  <2>3. marker \subseteq Begun(c)
    <3>1. \A i \in DOMAIN <<Last(c)>> : <<Last(c)>>[i] = c[Len(c)]
      BY <2>1
    <3> QED
      BY <2>1, <3>1 DEF Begun
  <2>4. Notes(c) = [seen EXCEPT !.begun = begun, !.arrived = arrived, !.marker = marker,
                                !.rolled = rolled]
    BY <1>2 DEF Notes
  <2>5. rolled \in BOOLEAN
    BY DEF SeenIn
  <2> HIDE DEF marker, rolled
  <2>6. begun \subseteq Nat /\ arrived \subseteq begun /\ marker \subseteq begun
          /\ seen.excused \subseteq begun
    BY <2>2, <2>3 DEF SeenIn
  <2> HIDE DEF begun, arrived
  <2> QED
    BY <2>4, <2>5, <2>6, Zenon DEF SeenIn
<1> QED
  BY <1>1, <1>2

\* The invariant but for the dump.
TypeInv == WorldTyped /\ HostInv

\* What a step of the host leaves, wherever the loop goes next.
LEMMA HostStepTyped ==
  ASSUME WorldTyped, NEW g, Good(g), NEW unread, NEW note, SeenIn(note),
         Task = "T_SNIFF" => unread \in Seq(Sniffed),
         Task # "T_SNIFF" => unread \in Seq(Packets),
         Turn(g, unread, note),
         loop' \in {"top", "timer", "io", "keys", "exit", "done"},
         snap' \in [in : BOOLEAN, hup : BOOLEAN, key : {"none", "typed", "eof"}],
         faults' \in Nat
  PROVE  TypeInv'
<1>1. /\ t'.port = << >> /\ Good(t)'
      /\ job' \in Jobs /\ dev' = dev /\ Task' = Task
      /\ (toDev \in Seq(Cmds) /\ Len(toDev) <= DevCap)'
      /\ (Task = "T_SNIFF" => line \in Seq(Sniffed))'
      /\ (Task # "T_SNIFF" => line \in Seq(Packets))'
      /\ hup' \in BOOLEAN
      /\ SeenIn(seen)'
  BY TurnGood
<1>2. WorldTyped'
  BY <1>1 DEF WorldTyped
<1>3. HostInv'
  BY <1>1 DEF HostInv
<1> QED
  BY <1>2, <1>3 DEF TypeInv

\* Where the loop goes behind a handler.
LEMMA LoopTyped ==
  ASSUME NEW g, WorldTyped
  PROVE  /\ Top(g) \in {"top", "exit"}
         /\ AfterTimer(g) \in {"top", "exit", "io", "keys"}
         /\ AfterRead(g) \in {"top", "exit", "keys"}
  BY DEF Top, AfterTimer, AfterRead

\* Faults are counted down.
LEMMA FaultsTyped ==
  ASSUME faults \in Nat
  PROVE  /\ \A n \in Nat : Costs(n) => faults' \in Nat
         /\ \A bad \in BOOLEAN : Cost(bad) \in {0, 1} /\ (Pays(bad) => faults' \in Nat)
  BY DEF Costs, Cost, Pays

\* A good host that does nothing stays good.
LEMMA GoodKept ==
  ASSUME job' = job, t' = t
  PROVE  Task' = Task /\ Cmds' = Cmds /\ (Good(t) => Good(t)')
<1>1. Task' = Task
  BY DEF Task
<1>2. Cmds' = Cmds
  BY <1>1 DEF Cmds
<1>3. Good(t) => Good(t)'
  BY <1>1, <1>2 DEF Good, Typed, Placed, Waits
<1> QED
  BY <1>1, <1>2, <1>3

\* Where only the loop moves on.
LEMMA LoopStepTyped ==
  ASSUME TypeInv, Good(t), loop' \in {"top", "timer", "io", "keys", "exit", "done"},
         UNCHANGED <<job, t, snap, dev, toDev, line, hup, faults, seen>>
  PROVE  TypeInv'
<1>1. Task' = Task /\ Cmds' = Cmds /\ Good(t)'
  BY GoodKept
<1>2. SeenIn(seen)'
  BY DEF TypeInv, WorldTyped, SeenIn
<1>3. WorldTyped'
  BY <1>1, <1>2 DEF TypeInv, WorldTyped
<1>4. HostInv'
  BY <1>1 DEF TypeInv, HostInv
<1> QED
  BY <1>3, <1>4 DEF TypeInv

\* A step of the device or of its surroundings leaves the host alone.
LEMMA DeviceTyped ==
  ASSUME TypeInv, DeviceStep \/ Air \/ Repeat \/ Restart \/ Unplug \/ Replug
  PROVE  TypeInv'
<1>0. /\ WorldTyped /\ HostInv /\ SeenIn(seen) /\ faults \in Nat
      /\ dev \in [mode : {"app", "sniff", "gone"}, air : 0..Len(Script)]
      /\ (Task # "T_SNIFF" => dev.mode # "sniff")
      /\ toDev \in Seq(Cmds) /\ Len(toDev) <= DevCap /\ hup \in BOOLEAN
      /\ (Task = "T_SNIFF" => line \in Seq(Sniffed))
      /\ (Task # "T_SNIFF" => line \in Seq(Packets))
  BY DEF TypeInv, WorldTyped
<1>1. job' = job /\ t' = t /\ loop' = loop /\ snap' = snap
  BY Zenon DEF DeviceStep, Air, Repeat, Restart, Unplug, Replug
<1>2. Task' = Task /\ Cmds' = Cmds /\ (Good(t) => Good(t)')
  BY <1>1, GoodKept
<1>3. HostInv'
  BY <1>0, <1>1, <1>2 DEF HostInv
<1> DEFINE Lined(s) == (Task = "T_SNIFF" => s \in Seq(Sniffed))
                         /\ (Task # "T_SNIFF" => s \in Seq(Packets))
<1>4. SUFFICES /\ dev' \in [mode : {"app", "sniff", "gone"}, air : 0..Len(Script)]
               /\ (Task # "T_SNIFF" => dev'.mode # "sniff")
               /\ toDev' \in Seq(Cmds) /\ Len(toDev') <= DevCap /\ hup' \in BOOLEAN
               /\ Lined(line')
               /\ faults' \in Nat
               /\ SeenIn(seen')
  <2>1. ASSUME SeenIn(seen') PROVE SeenIn(seen)'
    BY <2>1 DEF SeenIn
  <2> QED
    BY <1>0, <1>1, <1>2, <1>3, <2>1 DEF TypeInv, WorldTyped
<1>5. \A n \in BOOLEAN : Pays(n) => faults' \in Nat
  BY <1>0, FaultsTyped
<1>6. ASSUME NEW s, Lined(s) PROVE Lined(Heard(s)) /\ Lined(<< >>)
  <2>1. << >> \in Seq(Sniffed) /\ << >> \in Seq(Packets)
    OBVIOUS
  <2>2. ASSUME NEW S, line \in Seq(S), s \in Seq(S) PROVE Heard(s) \in Seq(S)
    BY <2>2, ConcatProperties DEF Heard
  <2> QED
    BY <1>0, <1>6, <2>1, <2>2
<1>7. CASE DeviceStep
  <2> DEFINE m == Head(toDev)
  <2>1. toDev # << >> /\ toDev' = Tail(toDev) /\ hup' = hup
    BY <1>7 DEF DeviceStep
  <2>2. m \in Cmds /\ toDev' \in Seq(Cmds) /\ Len(toDev') <= DevCap
    <3>1. Len(Tail(toDev)) = Len(toDev) - 1 /\ Len(toDev) \in Nat /\ DevCap \in Nat
      BY <1>0, <2>1, SerialAssumption
    <3> QED
      BY <1>0, <2>1, <3>1
  <2>3. CASE /\ m.cmd = "sniff"
             /\ dev' = [dev EXCEPT !.mode = "sniff"]
             /\ line' = Heard(Said(<<O, K>>))
             /\ UNCHANGED <<seen, faults>>
    <3>1. Task = "T_SNIFF"
      BY <2>2, <2>3 DEF Cmds
    <3>2. Said(<<O, K>>) \in Seq(Sniffed)
      BY OkShape
    <3> HIDE DEF m
    <3>3. Lined(line')
      BY <1>6, <2>3, <3>1, <3>2
    <3> QED
      BY <1>0, <2>1, <2>2, <2>3, <3>1, <3>3, Zenon
  <2>4. CASE /\ m.cmd # "sniff" /\ Task # "T_SNIFF"
             /\ \E p \in Answers(m) :
                  /\ line' = Heard(<<p>>)
                  /\ seen' = IF p.status = "EOFFSET"
                             THEN [seen EXCEPT !.skipped = @ \cup {p.addr}] ELSE seen
             /\ UNCHANGED <<dev, faults>>
    <3>1. PICK p \in Answers(m) :
                  /\ line' = Heard(<<p>>)
                  /\ seen' = IF p.status = "EOFFSET"
                             THEN [seen EXCEPT !.skipped = @ \cup {p.addr}] ELSE seen
      BY <2>4, Zenon
    <3> HIDE DEF m
    <3>2. p \in Packets /\ p.addr \in Steps0
      BY <2>2, AnswersTyped DEF Packets, Steps0
    <3>3. <<p>> \in Seq(Packets)
      BY <3>2
    <3>4. Lined(line')
      BY <1>6, <2>4, <3>1, <3>3, Zenon
    <3>5. SeenIn(seen')
      BY <1>0, <3>1, <3>2, Zenon DEF SeenIn
    <3> QED
      BY <1>0, <2>1, <2>2, <2>4, <3>4, <3>5
  <2>5. CASE Pays(Task # "T_SNIFF") /\ UNCHANGED <<dev, line, seen>>
    <3>1. (Task # "T_SNIFF") \in BOOLEAN
      OBVIOUS
    <3>2. faults' \in Nat
      BY <1>5, <2>5, <3>1, Zenon
    <3> QED
      BY <1>0, <2>1, <2>2, <2>5, <3>2
  <2> QED
    BY <1>7, <2>3, <2>4, <2>5, Zenon DEF DeviceStep
<1>8. CASE Air
  <2>1. /\ dev.mode = "sniff" /\ dev.air < Len(Script)
        /\ dev' = [dev EXCEPT !.air = @ + 1]
        /\ line' = Heard(FrameBytes(dev.air + 1))
        /\ UNCHANGED <<toDev, hup, faults, seen>>
    BY <1>8 DEF Air
  <2>2. Task = "T_SNIFF" /\ dev.air + 1 \in DOMAIN Script /\ dev.air + 1 \in 0..Len(Script)
    BY <1>0, <2>1, SerialAssumption
  <2>3. FrameBytes(dev.air + 1) \in Seq(Sniffed)
    BY <2>2, FrameTyped
  <2>4. Lined(line')
    BY <1>6, <2>1, <2>2, <2>3
  <2>5. dev' \in [mode : {"app", "sniff", "gone"}, air : 0..Len(Script)]
    BY <1>0, <2>1, <2>2
  <2> QED
    BY <1>0, <2>1, <2>2, <2>4, <2>5
<1>9. CASE Repeat
  <2>1. /\ Task # "T_SNIFF" /\ line # << >>
        /\ Pays(TRUE)
        /\ line' \in {Append(line, Last(line)), <<Packet("other", TRUE, "SUCCESS", 0)>> \o line}
        /\ seen' = [seen EXCEPT !.repeated = @ \/ Last(line').cmd = "read"]
        /\ UNCHANGED <<dev, toDev, hup>>
    BY <1>9, Zenon DEF Repeat
  <2>2. Packet("other", TRUE, "SUCCESS", 0) \in Packets
    BY Constants DEF Packet, Packets
  <2>3. line \in Seq(Packets) /\ Last(line) \in Packets
    <3>1. line \in Seq(Packets)
      BY <1>0, <2>1
    <3>2. Len(line) \in DOMAIN line
      BY <2>1, <3>1
    <3> QED
      BY <3>1, <3>2 DEF Last
  <2>4. Append(line, Last(line)) \in Seq(Packets)
    BY <2>3
  <2>5. <<Packet("other", TRUE, "SUCCESS", 0)>> \o line \in Seq(Packets)
    <3> DEFINE p == Packet("other", TRUE, "SUCCESS", 0)
    <3>0. p \in Packets
      BY <2>2, Zenon
    <3> HIDE DEF p
    <3>1. <<p>> \in Seq(Packets)
      BY <3>0
    <3>2. <<p>> \o line \in Seq(Packets)
      BY <2>3, <3>1, ConcatProperties
    <3> QED
      BY <3>2, Zenon DEF p
  <2>6. Lined(line')
    BY <2>1, <2>4, <2>5, Zenon
  <2>7. SeenIn(seen')
    <3> DEFINE b == seen.repeated \/ Last(line').cmd = "read"
    <3>1. b \in BOOLEAN /\ seen' = [seen EXCEPT !.repeated = b]
      BY <1>0, <2>1 DEF SeenIn
    <3> HIDE DEF b
    <3> QED
      BY <1>0, <3>1, Zenon DEF SeenIn
  <2>8. faults' \in Nat
    BY <1>5, <2>1, Zenon
  <2> QED
    BY <1>0, <2>1, <2>6, <2>7, <2>8
<1>10. CASE Restart
  <2>1. /\ Pays(TRUE) /\ dev' = [dev EXCEPT !.mode = "app"]
        /\ UNCHANGED <<toDev, line, hup, seen>>
    BY <1>10, Zenon DEF Restart
  <2> QED
    BY <1>0, <1>5, <2>1, Zenon
<1>11. CASE Unplug
  <2>1. /\ Pays(TRUE) /\ dev' = [dev EXCEPT !.mode = "gone"]
        /\ line' = << >> /\ toDev' = << >> /\ hup' = (t.fd = 1) /\ seen' = seen
    BY <1>11, Zenon DEF Unplug
  <2>2. Lined(<< >>) /\ << >> \in Seq(Cmds) /\ Len(<< >>) <= DevCap
    BY SerialAssumption
  <2>3. faults' \in Nat
    BY <1>5, <2>1, Zenon
  <2>4. dev' \in [mode : {"app", "sniff", "gone"}, air : 0..Len(Script)] /\ dev'.mode = "gone"
    BY <1>0, <2>1
  <2> QED
    BY <1>0, <2>1, <2>2, <2>3, <2>4
<1>12. CASE Replug
  <2>1. /\ dev' = [dev EXCEPT !.mode = "app"]
        /\ UNCHANGED <<toDev, line, hup, faults, seen>>
    BY <1>12 DEF Replug
  <2> QED
    BY <1>0, <2>1
<1> QED
  BY <1>7, <1>8, <1>9, <1>10, <1>11, <1>12

\* Every step keeps the types and the waits.
LEMMA NextTyped ==
  ASSUME TypeInv, [Next]_vars
  PROVE  TypeInv'
<1>0. /\ WorldTyped /\ HostInv /\ job \in Jobs /\ SeenIn(seen) /\ faults \in Nat
      /\ snap \in [in : BOOLEAN, hup : BOOLEAN, key : {"none", "typed", "eof"}]
      /\ (Task = "T_SNIFF" => line \in Seq(Sniffed))
      /\ (Task # "T_SNIFF" => line \in Seq(Packets))
      /\ t.port = << >> /\ (loop # "start" => Good(t))
  BY DEF TypeInv, WorldTyped, HostInv
<1>e. << >> \in Seq(Sniffed) /\ << >> \in Seq(Packets)
  OBVIOUS
<1>1. CASE Started
  <2>1. PICK open \in BOOLEAN :
          LET g == InitEvent(t, open)
          IN  Pays(Refused(open)) /\ Turn(g, line, seen) /\ loop' = Top(g) /\ UNCHANGED snap
    BY <1>1 DEF Started
  <2>2. Good(InitEvent(t, open))
    BY <1>0, <1>1, BootedTyped, InitEventGood DEF Started, HostInv
  <2>3. Refused(open) \in BOOLEAN
    BY DEF Refused
  <2>4. faults' \in Nat
    BY <1>0, <2>1, <2>3, FaultsTyped
  <2> QED
    BY <1>0, <2>1, <2>2, <2>4, LoopTyped, HostStepTyped
<1>2. CASE Poll
  <2> DEFINE g == LoopEvent(t)
  <2>1. Good(g)
    BY <1>0, <1>2, LoopEventGood DEF Poll
  <2> HIDE DEF g
  <2>2. Turn(g, line, seen) /\ loop' = "timer"
    BY <1>2 DEF Poll, g
  <2>3. PICK key \in {"none", "typed", "eof"} :
          /\ snap' = [in |-> g.fd = 1 /\ line # << >>, hup |-> g.fd = 1 /\ hup, key |-> key]
          /\ Pays(key = "typed")
    BY <1>2 DEF Poll, g
  <2>4. snap' \in [in : BOOLEAN, hup : BOOLEAN, key : {"none", "typed", "eof"}]
    <3>1. \A a, b \in BOOLEAN : [in |-> a, hup |-> b, key |-> key] \in
            [in : BOOLEAN, hup : BOOLEAN, key : {"none", "typed", "eof"}]
      OBVIOUS
    <3>2. (g.fd = 1 /\ line # << >>) \in BOOLEAN /\ (g.fd = 1 /\ hup) \in BOOLEAN
      OBVIOUS
    <3> QED
      BY <2>3, <3>1, <3>2, Zenon
  <2>5. faults' \in Nat
    <3>1. (key = "typed") \in BOOLEAN
      OBVIOUS
    <3> QED
      BY <1>0, <2>3, <3>1, FaultsTyped, Zenon
  <2> QED
    BY <1>0, <2>1, <2>2, <2>4, <2>5, HostStepTyped
<1>12. CASE PollFails
  <2> DEFINE g == LoopEvent(t)
  <2>1. Good(g)
    BY <1>0, <1>12, LoopEventGood DEF PollFails
  <2> HIDE DEF g
  <2>2. Turn(g, line, seen) /\ loop' = "exit" /\ snap' = snap /\ Pays(TRUE)
    BY <1>12 DEF PollFails, g
  <2>3. faults' \in Nat
    BY <1>0, <2>2, FaultsTyped
  <2> QED
    BY <1>0, <2>1, <2>2, <2>3, HostStepTyped
<1>3. CASE TimerNotDue
  <2>1. loop' \in {"top", "exit", "io", "keys"} /\ Good(t)
        /\ UNCHANGED <<job, t, snap, dev, toDev, line, hup, faults, seen>>
    BY <1>0, <1>3, LoopTyped DEF TimerNotDue
  <2> QED
    BY <1>0, <2>1, LoopStepTyped
<1>4. CASE TimerDue
  <2>1. PICK open \in BOOLEAN :
          LET g == Timeout(t, open)
          IN  /\ Costs(Cost(Refused(open)) + Cost(toDev # << >> \/ line # << >>))
              /\ Turn(g, line, seen) /\ loop' = AfterTimer(g) /\ UNCHANGED snap
    BY <1>4 DEF TimerDue
  <2>2. Good(Timeout(t, open))
    BY <1>0, <1>4, TimeoutGood DEF TimerDue
  <2>3. faults' \in Nat
    <3>2. Cost(Refused(open)) \in Nat /\ Cost(toDev # << >> \/ line # << >>) \in Nat
      BY DEF Cost
    <3>3. Cost(Refused(open)) + Cost(toDev # << >> \/ line # << >>) \in Nat
      BY <3>2
    <3> QED
      BY <1>0, <2>1, <3>3, FaultsTyped
  <2> QED
    BY <1>0, <2>1, <2>2, <2>3, LoopTyped, HostStepTyped
<1>5. CASE HangUp
  <2>1. Turn(Disconnect(t), << >>, seen) /\ loop' = Top(Disconnect(t)) /\ snap' = snap
        /\ faults' = faults
    BY <1>5 DEF HangUp
  <2>2. Good(Disconnect(t))
    BY <1>0, <1>5, DisconnectGood DEF HangUp
  <2> QED
    BY <1>0, <1>e, <2>1, <2>2, LoopTyped, HostStepTyped, Zenon
<1>6. CASE Read
  <2>1. PICK n \in 1..RxCap :
          /\ n <= Len(line)
          /\ LET chunk == SubSeq(line, 1, n)
                 g == Received(t, chunk)
             IN  Turn(g, SubSeq(line, n + 1, Len(line)), Notes(chunk)) /\ loop' = AfterRead(g)
    BY <1>6 DEF Read
  <2> DEFINE chunk == SubSeq(line, 1, n)
             rest == SubSeq(line, n + 1, Len(line))
             g == Received(t, chunk)
  <2>2. ASSUME NEW S, line \in Seq(S)
        PROVE  chunk \in Seq(S) /\ rest \in Seq(S) /\ chunk # << >>
    <3>1. n \in 1..Len(line) /\ Len(line) \in Nat
      BY <2>1, <2>2, SerialAssumption
    <3>2. chunk \in Seq(S) /\ Len(chunk) = n
      BY <2>2, <3>1
    <3>3. \A j \in (n + 1)..Len(line) : line[j] \in S
      BY <2>2, <3>1
    <3>4. rest \in Seq(S)
      <4>1. n + 1 \in Int /\ Len(line) \in Int
        BY <3>1
      <4> QED
        BY <3>3, <4>1, SubSeqProperties
    <3> QED
      BY <3>1, <3>2, <3>4
  <2>3. /\ Task = "T_SNIFF" => chunk \in Seq(Sniffed) /\ rest \in Seq(Sniffed)
        /\ Task # "T_SNIFF" => chunk \in Seq(Packets) /\ rest \in Seq(Packets)
        /\ chunk # << >>
    BY <1>0, <2>2
  <2>4. Turn(g, rest, Notes(chunk)) /\ loop' = AfterRead(g)
    BY <2>1
  <2> HIDE DEF chunk, rest
  <2>5. Good(g)
    BY <1>0, <1>6, <2>3, ReceivedGood DEF Read
  <2>6. SeenIn(Notes(chunk))
    BY <1>0, <2>3, NotesTyped
  <2>7. snap' = snap /\ faults' = faults
    BY <1>6 DEF Read
  <2> HIDE DEF g
  <2> QED
    BY <1>0, <2>3, <2>4, <2>5, <2>6, <2>7, LoopTyped, HostStepTyped
<1>7. CASE ReadNothing
  <2>1. loop' \in {"top", "exit", "keys"} /\ Good(t)
        /\ UNCHANGED <<job, t, snap, dev, toDev, line, hup, faults, seen>>
    BY <1>0, <1>7, LoopTyped DEF ReadNothing
  <2> QED
    BY <1>0, <2>1, LoopStepTyped
<1>8. CASE Keys
  <2> DEFINE g == IF snap.key = "eof" THEN Shut(t) ELSE Write(t, "parameter", 0)
  <2>1. Good(g)
    BY <1>0, <1>8, ShutGood, WriteGood, CmdsTyped DEF Keys, Good
  <2>2. Turn(g, line, seen) /\ loop' = Top(g) /\ snap' = snap /\ faults' = faults
    BY <1>8 DEF Keys
  <2> HIDE DEF g
  <2> QED
    BY <1>0, <2>1, <2>2, LoopTyped, HostStepTyped
<1>9. CASE Exit
  <2>1. Turn(Disconnect(t), << >>, seen) /\ loop' = "done" /\ snap' = snap /\ faults' = faults
    BY <1>9 DEF Exit
  <2>2. Good(Disconnect(t))
    BY <1>0, <1>9, DisconnectGood DEF Exit
  <2> QED
    BY <1>0, <1>e, <2>1, <2>2, HostStepTyped, Zenon
<1>10. CASE UNCHANGED vars
  <2>1. Task' = Task /\ Cmds' = Cmds /\ (Good(t) => Good(t)')
    BY <1>10, GoodKept DEF vars
  <2>2. WorldTyped'
    <3>1. SeenIn(seen)'
      BY <1>0, <1>10 DEF SeenIn, vars
    <3> QED
      BY <1>0, <1>10, <2>1, <3>1 DEF WorldTyped, vars
  <2>3. HostInv'
    BY <1>0, <1>10, <2>1 DEF HostInv, vars
  <2> QED
    BY <2>2, <2>3 DEF TypeInv
<1>11. CASE DeviceStep \/ Air \/ Repeat \/ Restart \/ Unplug \/ Replug
  BY <1>11, DeviceTyped
<1> QED
  BY <1>1, <1>2, <1>3, <1>4, <1>5, <1>6, <1>7, <1>8, <1>9, <1>10, <1>11, <1>12
  DEF Next, HostStep, Terminated

\* It holds when the program starts.
LEMMA InitTyped ==
  ASSUME Init
  PROVE  TypeInv
<1>1. << >> \in Seq(Cmds) /\ << >> \in Seq(Sniffed) /\ << >> \in Seq(Packets)
        /\ Len(<< >>) <= DevCap /\ 0 \in 0..Len(Script) /\ MaxFaults \in Nat
  BY SerialAssumption
<1>2. SeenIn(seen)
  BY DEF Init, SeenIn, Fresh
<1>3. snap \in [in : BOOLEAN, hup : BOOLEAN, key : {"none", "typed", "eof"}]
  BY DEF Init, Nothing
<1>4. dev \in [mode : {"app", "sniff", "gone"}, air : 0..Len(Script)] /\ dev.mode = "app"
  BY <1>1 DEF Init
<1>5. WorldTyped
  BY <1>1, <1>2, <1>3, <1>4, Zenon DEF Init, WorldTyped
<1>6. HostInv
  BY DEF Init, HostInv, Booted
<1> QED
  BY <1>5, <1>6 DEF TypeInv

\* So it holds in every reachable state.
LEMMA TypeInvariant == Spec => []TypeInv
  BY InitTyped, NextTyped, PTL DEF Spec

\* The host's fields have their types in every reachable state, gcf->ascii
\* never overruns, a frame never overruns gcf->sniffPacket, the address of a
\* dump stays within the flash memory, and a start marker is excused only for a
\* frame that began (gcf.c 1151-1642, 1883-1899).
THEOREM SerialTypes == Spec => []SerialTypeOK
<1>1. TypeInv => SerialTypeOK
  <2> SUFFICES ASSUME TypeInv PROVE SerialTypeOK
    OBVIOUS
  <2>1. Typed(t)
    BY BootedTyped DEF TypeInv, HostInv, Good
  <2>2. t.sniffLength \in Nat /\ Len(t.sniffPacket) = 0
    BY <2>1, EmptyTyped DEF Typed, Host
  <2>3. toDev \in Seq(Commands)
    BY CmdsTyped DEF TypeInv, WorldTyped
  <2> QED
    BY <2>1, <2>2, <2>3 DEF TypeInv, WorldTyped, SeenIn, SerialTypeOK, Typed, Steps0
<1> QED
  BY <1>1, TypeInvariant, PTL

\* A running task always has its timer armed or an action scheduled, whatever
\* event came in the middle of which call (gcf.c 1151-1642).
THEOREM NeverStranded == Spec => []SerialNeverStranded
<1>1. TypeInv => SerialNeverStranded
  BY DEF TypeInv, HostInv, Good, Waits, SerialNeverStranded
<1> QED
  BY <1>1, TypeInvariant, PTL

\* No socket is opened over one that is still open, however a session of the
\* sniffer ended (gcf.c 1197, 1483).
THEOREM SocketsPaired == Spec => []SocketPaired
<1>1. TypeInv => SocketPaired
  BY BootedTyped DEF TypeInv, HostInv, Good, Placed, SocketPaired
<1> QED
  BY <1>1, TypeInvariant, PTL

-----------------------------------------------------------------------------
(* The dump.  What was asked, answered and printed is kept in step: at most *)
(* one read is under way, and it is of the record the host waits for.      *)

\* s is a run of q that begins behind the first d elements.
Part(s, q, d) == \A i \in DOMAIN s : i \in Nat /\ i > 0 /\ i + d \in DOMAIN q /\ s[i] = q[i + d]

\* A run of the commands has no other reads, and a run of the packets no other
\* records.
LEMMA PartBooks ==
  ASSUME NEW s, NEW q, NEW d \in Nat, Part(s, q, d), NEW g, NEW sk
  PROVE  /\ AskedIn(q, g, sk) => AskedIn(s, g, sk)
         /\ AnsweredIn(q, d, g, sk) => AnsweredIn(s, 0, g, sk)
         /\ NoneIn(q, 0) => NoneIn(s, 0)
         /\ NoneIn(q, d) => NoneIn(s, 0)
<1>1. \A i \in DOMAIN s : i \in Nat /\ i + d > d /\ i + d > 0
  BY DEF Part
<1>2. \A i, j \in DOMAIN s : i + d = j + d => i = j
  BY <1>1
<1>3. AskedIn(q, g, sk) => AskedIn(s, g, sk)
  BY <1>1, <1>2 DEF Part, AskedIn
<1>4. AnsweredIn(q, d, g, sk) => AnsweredIn(s, 0, g, sk)
  BY <1>1, <1>2 DEF Part, AnsweredIn
<1>5. (NoneIn(q, 0) => NoneIn(s, 0)) /\ (NoneIn(q, d) => NoneIn(s, 0))
  BY <1>1 DEF Part, NoneIn
<1> QED
  BY <1>3, <1>4, <1>5

\* The books are about four fields of the host.
LEMMA BooksKept ==
  ASSUME NEW g, NEW a, NEW q, NEW r, NEW k, NEW sk, Books(g, q, r, k, sk),
         a.address = g.address, a.printed = g.printed,
         \/ a.state = g.state
         \/ {a.state, g.state} \cap {"ST_DumpFlashSend", "ST_DumpFlashWait"} = {},
         a.said = "complete" => a.said = g.said /\ a.state = g.state
  PROVE  Books(a, q, r, k, sk)
<1>1. Ledger(a, sk)
  BY Zenon DEF Books, Ledger
<1>2. AskedIn(q, a, sk)
  BY Zenon DEF Books, AskedIn
<1>3. AnsweredIn(r, k, a, sk)
  BY Zenon DEF Books, AnsweredIn
<1> QED
  BY <1>1, <1>2, <1>3 DEF Books

\* A command that is no read changes nothing.
LEMMA BooksAsk ==
  ASSUME NEW g, NEW q \in Seq(Cmds), NEW r, NEW k, NEW sk, Books(g, q, r, k, sk),
         NEW c, c.cmd # "read"
  PROVE  Books(g, Append(q, c), r, k, sk)
<1>1. \A i \in DOMAIN Append(q, c) : Append(q, c)[i].cmd = "read" =>
        i \in DOMAIN q /\ Append(q, c)[i] = q[i]
  OBVIOUS
<1>2. AskedIn(Append(q, c), g, sk)
  BY <1>1 DEF Books, AskedIn
<1>3. NoneIn(q, 0) => NoneIn(Append(q, c), 0)
  BY <1>1 DEF NoneIn
<1> QED
  BY <1>2, <1>3 DEF Books

\* A state in which EV_DISCONNECTED is ignored.
Deaf(g) == g \in Host /\ g.state \notin SniffStates \cup {"ST_Connected", "ST_SniffTeardown"}

\* Writing one command to a port with nothing in it.
LEMMA DeafWrite ==
  ASSUME NEW g, Deaf(g), g.port = << >>, NEW c, NEW n
  PROVE  LET w == Write(g, c, n)
         IN  /\ w.port \in {<< >>, <<[cmd |-> c, addr |-> n]>>}
             /\ w.address = g.address /\ w.printed = g.printed /\ w.said = g.said
             /\ w.state = g.state
<1>1. Write(g, c, n) \in {g, [g EXCEPT !.port = Append(g.port, [cmd |-> c, addr |-> n])]}
  BY DEF Write, Disconnected, Deaf
<1>2. Append(g.port, [cmd |-> c, addr |-> n]) = <<[cmd |-> c, addr |-> n]>>
  OBVIOUS
<1> QED
  BY <1>1, <1>2 DEF Deaf, Host

\* The books of a host that wrote a command that is no read.
LEMMA WriteBooks ==
  ASSUME NEW g, Deaf(g), g.port = << >>, NEW c, c # "read", NEW q \in Seq(Cmds), NEW r, NEW k,
         NEW sk, Books(g, q, r, k, sk)
  PROVE  Books(Write(g, c, 0), q \o Write(g, c, 0).port, r, k, sk)
<1> DEFINE w == Write(g, c, 0)
           m == [cmd |-> c, addr |-> 0]
<1>1. /\ w.port \in {<< >>, <<m>>}
      /\ w.address = g.address /\ w.printed = g.printed /\ w.said = g.said
      /\ w.state = g.state
  BY DeafWrite
<1> HIDE DEF w
<1>2. Books(w, q, r, k, sk)
  BY <1>1, BooksKept
<1>3. m.cmd # "read"
  OBVIOUS
<1> HIDE DEF m
<1>4. Books(w, Append(q, m), r, k, sk)
  BY <1>2, <1>3, BooksAsk
<1>5. q \o << >> = q /\ q \o <<m>> = Append(q, m)
  BY ConcatEmptySeq, AppendIsConcat
<1>6. Books(w, q \o w.port, r, k, sk)
  BY <1>1, <1>2, <1>4, <1>5, Zenon
<1> QED
  BY <1>6 DEF w

\* The next record is printed, or skipped.
LEMMA ListsNext ==
  ASSUME NEW p \in Seq(Nat), NEW a \in Nat, NEW sk, Lists(p, a, sk)
  PROVE  /\ a \notin sk => Lists(Append(p, a), a + 1, sk)
         /\ a \in sk => Lists(p, a + 1, sk)
<1>1. 0..(a + 1 - 1) = (0..(a - 1)) \cup {a}
  OBVIOUS
<1>2. ASSUME a \notin sk PROVE Lists(Append(p, a), a + 1, sk)
  <2> DEFINE b == Append(p, a)
  <2>1. DOMAIN b = DOMAIN p \cup {Len(p) + 1} /\ b[Len(p) + 1] = a
          /\ \A i \in DOMAIN p : b[i] = p[i] /\ i < Len(p) + 1 /\ i \in Nat
          /\ Len(p) \in Nat
    OBVIOUS
  <2> HIDE DEF b
  <2>2. {b[i] : i \in DOMAIN b} = {p[i] : i \in DOMAIN p} \cup {a}
    BY <2>1
  <2>3. {b[i] : i \in DOMAIN b} = (0..(a + 1 - 1)) \ sk
    BY <1>1, <1>2, <2>2, Zenon DEF Lists
  <2>4. \A i \in DOMAIN p : p[i] \in 0..(a - 1)
    BY DEF Lists
  <2>5. \A i \in DOMAIN p : p[i] < a
    BY <2>4
  <2>6. \A i, j \in DOMAIN b : i < j => b[i] < b[j]
    <3> SUFFICES ASSUME NEW i \in DOMAIN b, NEW j \in DOMAIN b, i < j PROVE b[i] < b[j]
      OBVIOUS
    <3>1. i \in DOMAIN p
      BY <2>1
    <3>2. CASE j \in DOMAIN p
      BY <2>1, <3>1, <3>2 DEF Lists
    <3>3. CASE j = Len(p) + 1
      BY <2>1, <2>5, <3>1, <3>3
    <3> QED
      BY <2>1, <3>2, <3>3
  <2>7. Lists(b, a + 1, sk)
    BY <2>3, <2>6 DEF Lists
  <2> QED
    BY <2>7 DEF b
<1>3. ASSUME a \in sk PROVE Lists(p, a + 1, sk)
  BY <1>1, <1>3 DEF Lists
<1> QED
  BY <1>2, <1>3

\* Handling a packet takes it off the list of answers.
LEMMA PacketBooks ==
  ASSUME NEW g, Good(g), NEW r \in Seq(Packets), NEW k \in 1..Len(r),
         NEW q \in Seq(Cmds), NEW sk, Books(g, q, r, k - 1, sk)
  PROVE  Books(DumpPacket(g, r[k]), q, r, k, sk)
<1> DEFINE p == r[k]
           a == [g EXCEPT !.timer = FALSE]
<1>0. p \in Packets /\ k \in Nat /\ k \in DOMAIN r /\ (\A i \in DOMAIN r : i \in Nat)
        /\ p.addr \in Nat /\ FlashSteps \in Nat
  <2>1. p \in Packets
    OBVIOUS
  <2> QED
    BY <2>1, Constants DEF Packets
<1>1. g \in Host /\ g.address \in Nat /\ g.printed \in Seq(Nat)
  BY DEF Good, Typed, Host
\* The books without the k-th packet.
<1>2. Books(g, q, r, k, sk)
  <2>1. AnsweredIn(r, k, g, sk)
    BY <1>0 DEF Books, AnsweredIn
  <2>2. NoneIn(r, k - 1) => NoneIn(r, k)
    BY <1>0 DEF NoneIn
  <2> QED
    BY <2>1, <2>2 DEF Books
\* If it is a record, no other is under way.
<1>3. p.cmd = "read" => /\ g.state = "ST_DumpFlashWait" /\ p.addr = g.address
                        /\ (p.status = "EOFFSET" <=> g.address \in sk)
                        /\ NoneIn(r, k) /\ NoneIn(q, 0)
  <2>1. k > k - 1 /\ \A i \in DOMAIN r : i > k => i > k - 1 /\ i # k
    BY <1>0
  <2> QED
    BY <1>0, <2>1 DEF Books, AnsweredIn, NoneIn
<1> HIDE DEF p
<1>4. CASE g.state = "ST_DumpFlashQueryFirmwareVersion"
  <2> DEFINE b == Schedule([g EXCEPT !.timer = FALSE, !.address = 0, !.state = "ST_DumpFlashSend"])
             c == Shut([g EXCEPT !.timer = FALSE, !.said = "unsupported"])
  <2>1. DumpPacket(g, p) \in {g, b, c}
    BY <1>4 DEF DumpPacket, QueryVersionPacket
  <2>2. Books(c, q, r, k, sk)
    <3>1. c.address = g.address /\ c.printed = g.printed /\ c.state = g.state
            /\ c.said = "unsupported"
      BY <1>1 DEF Shut, Host
    <3> HIDE DEF c
    <3> QED
      BY <1>2, <3>1, BooksKept
  <2>3. Books(b, q, r, k, sk)
    <3>1. b.address = 0 /\ b.printed = g.printed /\ b.state = "ST_DumpFlashSend"
            /\ b.said = g.said
      BY <1>1 DEF Schedule, Host
    <3> HIDE DEF b
    <3>2. g.address = 0 /\ 0 \notin sk /\ g.said # "complete"
      BY <1>2, <1>4 DEF Books, Ledger
    <3>3. Ledger(b, sk)
      BY <1>2, <3>1, <3>2 DEF Books, Ledger
    <3>4. (\A i \in DOMAIN q : q[i].cmd # "read")
            /\ (\A i \in DOMAIN r : i > k => r[i].cmd # "read")
      BY <1>2, <1>4 DEF Books, AskedIn, AnsweredIn
    <3> QED
      BY <1>2, <3>3, <3>4 DEF Books, AskedIn, AnsweredIn, NoneIn
  <2> HIDE DEF b, c
  <2> QED
    BY <1>2, <2>1, <2>2, <2>3 DEF p
<1>5. CASE g.state = "ST_DumpFlashWait"
  <2> DEFINE b == [a EXCEPT !.printed = Append(@, p.addr)]
             c == Shut([a EXCEPT !.said = "status"])
  <2>1. DumpPacket(g, p) =
          IF p.cmd # "read" THEN g
          ELSE CASE p.status = "SUCCESS" -> NextAddress(b)
                 [] p.status = "EOFFSET" -> NextAddress(a)
                 [] OTHER                -> c
    BY <1>5 DEF DumpPacket, WaitPacket
  <2>2. Books(c, q, r, k, sk)
    <3>1. c.address = g.address /\ c.printed = g.printed /\ c.state = g.state
            /\ c.said = "status"
      BY <1>1 DEF Shut, Host
    <3> HIDE DEF c
    <3> QED
      BY <1>2, <3>1, BooksKept
  \* The record is accounted for, and the next one is asked for.
  <2>3. ASSUME NEW x \in Host, p.cmd = "read", x.address = g.address, x.said = g.said,
               Lists(x.printed, g.address + 1, sk)
        PROVE  Books(NextAddress(x), q, r, k, sk)
    <3> DEFINE y == NextAddress(x)
    <3>1. y.address = g.address + 1 /\ y.printed = x.printed /\ y.said = g.said
            /\ y.state = "ST_DumpFlashSend"
      BY <2>3 DEF NextAddress, Schedule, Host
    <3> HIDE DEF y
    <3>2. sk \subseteq 0..g.address /\ g.said # "complete"
      BY <1>2, <1>5 DEF Books, Ledger
    <3>3. sk \subseteq 0..(g.address + 1) /\ g.address + 1 \notin sk
      BY <1>1, <3>2
    <3>4. Ledger(y, sk)
      BY <2>3, <3>1, <3>2, <3>3 DEF Ledger
    <3>5. AskedIn(q, y, sk) /\ AnsweredIn(r, k, y, sk) /\ NoneIn(q, 0)
      <4>1. \A i \in DOMAIN q : q[i].cmd # "read"
        <5>1. \A i \in DOMAIN q : i > 0
          OBVIOUS
        <5> QED
          BY <1>3, <2>3, <5>1 DEF NoneIn
      <4> QED
        BY <1>3, <2>3, <4>1 DEF NoneIn, AskedIn, AnsweredIn
    <3>6. Books(y, q, r, k, sk)
      BY <3>4, <3>5 DEF Books
    <3> QED
      BY <3>6 DEF y
  <2>4. Lists(g.printed, g.address, sk)
    BY <1>2 DEF Books, Ledger
  <2>5. ASSUME p.cmd = "read", p.status = "SUCCESS" PROVE Books(NextAddress(b), q, r, k, sk)
    <3>1. g.address \notin sk /\ p.addr = g.address
      BY <1>3, <2>5
    <3>2. b \in Host /\ b.address = g.address /\ b.said = g.said
            /\ b.printed = Append(g.printed, g.address)
      <4>1. a \in Host /\ a.address = g.address /\ a.said = g.said /\ a.printed = g.printed
        BY <1>1, Zenon DEF Host
      <4>2. Append(g.printed, g.address) \in Seq(Nat)
        BY <1>1
      <4> HIDE DEF a
      <4>3. b = [a EXCEPT !.printed = Append(g.printed, g.address)]
        BY <3>1, <4>1
      <4> HIDE DEF b
      <4> QED
        BY <4>1, <4>2, <4>3, Zenon DEF Host
    <3> HIDE DEF b
    <3>3. Lists(b.printed, g.address + 1, sk)
      BY <1>1, <2>4, <3>1, <3>2, ListsNext
    <3> QED
      BY <2>3, <2>5, <3>2, <3>3, Zenon
  <2>6. ASSUME p.cmd = "read", p.status = "EOFFSET" PROVE Books(NextAddress(a), q, r, k, sk)
    <3>1. a \in Host /\ a.address = g.address /\ a.said = g.said /\ a.printed = g.printed
      BY <1>1, Zenon DEF Host
    <3> HIDE DEF a
    <3>2. Lists(a.printed, g.address + 1, sk)
      BY <1>1, <1>3, <2>4, <2>6, <3>1, ListsNext
    <3> QED
      BY <2>3, <2>6, <3>1, <3>2
  <2> HIDE DEF a, b, c
  <2> QED
    BY <1>2, <2>1, <2>2, <2>5, <2>6 DEF p
<1>6. CASE g.state \notin {"ST_DumpFlashQueryFirmwareVersion", "ST_DumpFlashWait"}
  BY <1>2, <1>6 DEF DumpPacket, p
<1> QED
  BY <1>4, <1>5, <1>6

\* What is left of the packets when a read was handled: induction over the
\* packets of the read.
LEMMA ReceivedBooks ==
  ASSUME NEW g, Good(g), NEW r \in Seq(Packets), NEW n \in Nat, n <= Len(r),
         NEW q \in Seq(Cmds), NEW sk, Books(g, q, r, 0, sk), Task # "T_SNIFF"
  PROVE  Books(Received(g, SubSeq(r, 1, n)), q, r, n, sk)
<1> DEFINE c == SubSeq(r, 1, n)
<1>1. c \in Seq(Packets) /\ Len(c) = n /\ \A i \in 1..n : c[i] = r[i] /\ i \in 1..Len(r)
  OBVIOUS
<1> HIDE DEF c
<1>2. g \in GoodHosts
  BY DEF GoodHosts, Good, Typed
<1>3. PICK tr \in [0..n -> GoodHosts] :
         /\ tr[0] = g
         /\ \A i \in 1..n : tr[i] = DumpPacket(tr[i - 1], c[i])
         /\ FoldLeft(DumpPacket, g, c) = tr[n]
  BY <1>1, <1>2, DumpFold, Zenon
<1> DEFINE S == {k \in Nat : k <= n => Books(tr[k], q, r, k, sk)}
<1>4. 0 \in S
  BY <1>3
<1>5. ASSUME NEW k \in Nat, k \in S PROVE k + 1 \in S
  <2> SUFFICES ASSUME k + 1 <= n PROVE Books(tr[k + 1], q, r, k + 1, sk)
    OBVIOUS
  <2>1. k \in 0..n /\ k + 1 \in 1..n /\ (k + 1) - 1 = k
    OBVIOUS
  <2>2. Good(tr[k]) /\ Books(tr[k], q, r, (k + 1) - 1, sk)
    BY <1>3, <1>5, <2>1 DEF GoodHosts
  <2>3. tr[k + 1] = DumpPacket(tr[k], r[k + 1]) /\ k + 1 \in 1..Len(r)
    BY <1>1, <1>3, <2>1
  <2> HIDE DEF S
  <2> QED
    BY <2>2, <2>3, PacketBooks
<1> HIDE DEF S
<1>6. n \in S
  BY <1>4, <1>5, NatSetInduction, Zenon
<1>7. Received(g, c) = tr[n]
  BY <1>3 DEF Received
<1> QED
  BY <1>6, <1>7 DEF S, c

\* A step of the host hands its commands on and drops the packets it handled.
LEMMA TurnBooks ==
  ASSUME WorldTyped, Task = "T_DUMP_FLASH", NEW g, Good(g), NEW unread, NEW k \in Nat,
         Part(unread, line, k), Turn(g, unread, seen),
         Books(g, toDev \o g.port, line, k, seen.skipped)
  PROVE  seen' = seen /\ Books(t', toDev', line', 0, seen.skipped)
<1>1. seen' = seen
  BY DEF Turn, Noted, Good, Placed, DumpStates
<1> DEFINE q == toDev \o g.port
<1>2. toDev \in Seq(Cmds) /\ q \in Seq(Cmds) /\ Len(q) \in Nat /\ DevCap \in Nat
        /\ \A i \in 1..Len(toDev) : q[i] = toDev[i] /\ i \in 1..Len(q)
  BY SerialAssumption, ConcatProperties DEF WorldTyped, Good, Typed
<1>3. toDev' \in {toDev, q}
        \/ (Len(q) > DevCap /\ toDev' = SubSeq(q, 1, DevCap))
  BY <1>2 DEF Turn
<1>4. Part(toDev', q, 0)
  <2> HIDE DEF q
  <2>1. Part(toDev, q, 0) /\ Part(q, q, 0)
    BY <1>2 DEF Part
  <2>2. Len(q) > DevCap => Part(SubSeq(q, 1, DevCap), q, 0)
    BY <1>2 DEF Part
  <2> QED
    BY <1>3, <2>1, <2>2, Zenon
<1>5. Part(line', line, k)
  <2>1. Part(<< >>, line, k)
    BY DEF Part
  <2> QED
    BY <2>1 DEF Turn
<1>6. t' = [g EXCEPT !.port = << >>] /\ g \in Host
  BY DEF Turn, Good, Typed
<1>7. t'.address = g.address /\ t'.printed = g.printed /\ t'.said = g.said /\ t'.state = g.state
  BY <1>6 DEF Host
<1>8. Books(t', q, line, k, seen.skipped)
  BY <1>7, BooksKept
<1> HIDE DEF q
<1>9. Books(t', toDev', line', 0, seen.skipped)
  <2>1. AskedIn(q, t', seen.skipped) => AskedIn(toDev', t', seen.skipped)
    BY <1>4, PartBooks
  <2>2. NoneIn(q, 0) => NoneIn(toDev', 0)
    BY <1>4, PartBooks
  <2>3. AnsweredIn(line, k, t', seen.skipped) => AnsweredIn(line', 0, t', seen.skipped)
    BY <1>5, PartBooks
  <2>4. NoneIn(line, k) => NoneIn(line', 0)
    BY <1>5, PartBooks
  <2> QED
    BY <1>8, <2>1, <2>2, <2>3, <2>4 DEF Books
<1> QED
  BY <1>1, <1>9

\* Nothing was handled yet, or all is dropped.
LEMMA WholePart ==
  ASSUME NEW S, NEW s \in Seq(S)
  PROVE  Part(s, s, 0) /\ Part(<< >>, s, 0)
  BY DEF Part

\* A host of the dump stays one when it writes.
LEMMA DumpWriteHost ==
  ASSUME NEW g, Deaf(g), g.port = << >>, NEW c, NEW n, [cmd |-> c, addr |-> n] \in Commands
  PROVE  Write(g, c, n) \in Host
<1> DEFINE p == Append(g.port, [cmd |-> c, addr |-> n])
<1>1. p \in Seq(Commands)
  BY DEF Deaf, Host
<1>2. Write(g, c, n) \in {g, [g EXCEPT !.port = p]}
  BY DEF Write, Disconnected, Deaf
<1> HIDE DEF p
<1> QED
  BY <1>1, <1>2, ZenonT(30) DEF Deaf, Host

\* The next read is asked for, or the dump is complete.
LEMMA SendBooks ==
  ASSUME NEW g, Deaf(g), g.port = << >>, g.state = "ST_DumpFlashSend",
         NEW q \in Seq(Cmds), NEW r, NEW k, NEW sk, Books(g, q, r, k, sk)
  PROVE  Books(SendAction(g), q \o SendAction(g).port, r, k, sk)
<1>1. Ledger(g, sk) /\ g.address \notin sk /\ g \in Host /\ g.address \in Nat
  BY DEF Books, Ledger, Deaf, Host
\* No read is under way.
<1>2. (\A i \in DOMAIN q : q[i].cmd # "read") /\ (\A i \in DOMAIN r : i > k => r[i].cmd # "read")
  BY DEF Books, AskedIn, AnsweredIn
<1>3. CASE g.address = FlashSteps
  <2> DEFINE a == Shut([g EXCEPT !.said = "complete"])
  <2>1. a.address = FlashSteps /\ a.printed = g.printed /\ a.said = "complete"
          /\ a.state = g.state /\ a.port = << >>
    BY <1>1, <1>3 DEF Shut, Host
  <2>2. SendAction(g) = a
    BY <1>3 DEF SendAction
  <2> HIDE DEF a
  <2>3. Ledger(a, sk)
    BY <1>1, <1>3, <2>1 DEF Ledger
  <2>4. q \o a.port = q
    BY <2>1, ConcatEmptySeq
  <2>5. Books(a, q, r, k, sk)
    BY <1>2, <2>3 DEF Books, AskedIn, AnsweredIn, NoneIn
  <2> QED
    BY <2>2, <2>4, <2>5
<1>4. CASE g.address # FlashSteps
  <2> DEFINE b == Armed(g)
             w == Write(b, "read", g.address)
             x == [w EXCEPT !.state = "ST_DumpFlashWait"]
             m == [cmd |-> "read", addr |-> g.address]
  <2>1. Deaf(b) /\ b.port = << >> /\ b.address = g.address /\ b.printed = g.printed
          /\ b.said = g.said
    BY <1>1, Zenon DEF Armed, Deaf, Host
  <2>2. m \in Commands
    BY <1>1 DEF Commands
  <2> HIDE DEF b
  <2>3. w \in Host
    BY <2>1, <2>2, DumpWriteHost
  <2>4. /\ w.port \in {<< >>, <<m>>}
        /\ w.address = g.address /\ w.printed = g.printed /\ w.said = g.said
    BY <2>1, DeafWrite
  <2>5. SendAction(g) = x
    BY <1>4 DEF SendAction, b
  <2> HIDE DEF w
  <2>6. x.port = w.port /\ x.address = g.address /\ x.printed = g.printed /\ x.said = g.said
          /\ x.state = "ST_DumpFlashWait"
    BY <2>3, <2>4 DEF Host
  <2> HIDE DEF x
  <2>7. Ledger(x, sk)
    BY <1>1, <1>4, <2>6 DEF Ledger
  <2>8. \A i \in DOMAIN (q \o x.port) :
          (q \o x.port)[i].cmd = "read" => (q \o x.port)[i] = m /\ i = Len(q) + 1
    <3>1. q \o << >> = q
      BY ConcatEmptySeq
    <3>2. \A i \in DOMAIN (q \o <<m>>) :
            \/ i \in DOMAIN q /\ (q \o <<m>>)[i] = q[i]
            \/ i = Len(q) + 1 /\ (q \o <<m>>)[i] = m
      OBVIOUS
    <3> HIDE DEF m
    <3> QED
      BY <1>2, <2>4, <2>6, <3>1, <3>2, Zenon
  <2>9. AskedIn(q \o x.port, x, sk)
    BY <1>1, <2>6, <2>8 DEF AskedIn
  <2>10. AnsweredIn(r, k, x, sk) /\ NoneIn(r, k)
    BY <1>2 DEF AnsweredIn, NoneIn
  <2> QED
    BY <2>5, <2>7, <2>9, <2>10 DEF Books
<1> QED
  BY <1>3, <1>4

\* The books of the dump after each event but a read, and what it wrote.
LEMMA HandledBooks ==
  ASSUME NEW g, Good(g), g.port = << >>, Task = "T_DUMP_FLASH", NEW q \in Seq(Cmds), NEW r,
         NEW k, NEW sk, Books(g, q, r, k, sk), NEW open
  PROVE  /\ Books(LoopEvent(g), q \o LoopEvent(g).port, r, k, sk)
         /\ Books(Timeout(g, open), q \o Timeout(g, open).port, r, k, sk)
         /\ Books(Disconnect(g), q \o Disconnect(g).port, r, k, sk)
         /\ Books(Shut(g), q \o Shut(g).port, r, k, sk)
         /\ Books(Write(g, "parameter", 0), q \o Write(g, "parameter", 0).port, r, k, sk)
<1>1. g \in Host /\ g.state \in DumpStates /\ Deaf(g) /\ q \o << >> = q
  BY ConcatEmptySeq DEF Good, Typed, Placed, DumpStates, Deaf, SniffStates
\* What leaves the four fields and the port alone leaves the books alone.
<1>2. ASSUME NEW a, a.address = g.address, a.printed = g.printed, a.state = g.state,
             a.said = g.said \/ a.said # "complete", a.port = << >>
      PROVE  Books(a, q \o a.port, r, k, sk)
  BY <1>1, <1>2, BooksKept
<1>3. Books(Disconnect(g), q \o Disconnect(g).port, r, k, sk)
  <2>1. Disconnect(g) = [g EXCEPT !.fd = 0]
    BY <1>1 DEF Disconnect, Disconnected, DumpStates, SniffStates, Host
  <2>2. \A fd : [g EXCEPT !.fd = fd].address = g.address
          /\ [g EXCEPT !.fd = fd].printed = g.printed /\ [g EXCEPT !.fd = fd].state = g.state
          /\ [g EXCEPT !.fd = fd].said = g.said /\ [g EXCEPT !.fd = fd].port = << >>
    BY <1>1 DEF Host
  <2> QED
    BY <1>2, <2>1, <2>2, Zenon
<1>4. Books(Shut(g), q \o Shut(g).port, r, k, sk)
  <2>1. Shut(g).address = g.address /\ Shut(g).printed = g.printed /\ Shut(g).state = g.state
          /\ Shut(g).said = g.said /\ Shut(g).port = << >>
    BY <1>1 DEF Host, Shut
  <2> QED
    BY <1>2, <2>1, Zenon
<1>5. Books(Write(g, "parameter", 0), q \o Write(g, "parameter", 0).port, r, k, sk)
  BY <1>1, WriteBooks
<1>6. Books(Timeout(g, open), q \o Timeout(g, open).port, r, k, sk)
  <2> DEFINE a == [g EXCEPT !.timer = FALSE]
             b(v) == Shut([a EXCEPT !.said = v])
  <2>1. a.state = g.state
    BY <1>1 DEF Host
  <2>2. Timeout(g, open) = DumpTimeout(a)
    <3>1. a.state \notin {"ST_Init", "ST_Connected"}
            /\ a.state \notin SniffStates \cup {"ST_SniffTeardown"}
      BY <1>1, <2>1 DEF DumpStates, SniffStates
    <3> QED
      BY <3>1 DEF Timeout
  <2>3. a.address = g.address /\ a.printed = g.printed /\ a.said = g.said /\ a.port = << >>
    BY <1>1 DEF Host
  <2>4. \A v \in Verdicts \ {"complete"} : /\ b(v).address = g.address /\ b(v).printed = g.printed
                                           /\ b(v).state = g.state /\ b(v).said # "complete"
                                           /\ b(v).port = << >>
    BY <1>1 DEF Host, Shut
  <2>5. DumpTimeout(a) \in {a, b("noVersion"), b("timeout")}
    BY DEF DumpTimeout
  <2>6. "noVersion" \in Verdicts \ {"complete"} /\ "timeout" \in Verdicts \ {"complete"}
    BY DEF Verdicts
  <2> HIDE DEF a, b
  <2> QED
    BY <1>2, <2>1, <2>2, <2>3, <2>4, <2>5, <2>6
<1>7. Books(LoopEvent(g), q \o LoopEvent(g).port, r, k, sk)
  <2> DEFINE a == [g EXCEPT !.evAction = FALSE]
  <2>1. /\ a \in Host /\ a.address = g.address /\ a.printed = g.printed /\ a.said = g.said
        /\ a.port = << >> /\ a.state = g.state /\ Deaf(a)
    BY <1>1, Zenon DEF Host, Deaf
  <2>2. LoopEvent(g) = IF g.evAction THEN DumpAction(a) ELSE g
    BY <1>1 DEF LoopEvent, DumpStates
  <2> HIDE DEF a
  <2>3. Books(g, q \o g.port, r, k, sk) /\ Books(a, q \o a.port, r, k, sk)
    BY <1>1, <1>2, <2>1, Zenon
  <2>4. Books(a, q, r, k, sk)
    BY <1>1, <2>1, <2>3
  <2>5. CASE a.state = "ST_DumpFlashQueryFirmwareVersion"
    <3> DEFINE w == Write(a, "version", 0)
    <3>1. Books(w, q \o w.port, r, k, sk)
      BY <2>1, <2>4, WriteBooks
    <3>2. w \in Host
      <4>1. [cmd |-> "version", addr |-> 0] \in Commands
        BY DEF Commands
      <4> QED
        BY <2>1, <4>1, DumpWriteHost
    <3> HIDE DEF w
    <3> DEFINE x == Armed(w)
    <3>3. x.port = w.port /\ x.address = w.address /\ x.printed = w.printed
            /\ x.said = w.said /\ x.state = w.state
      BY <3>2 DEF Armed, Host
    <3>5. DumpAction(a) = x
      BY <2>5 DEF DumpAction, QueryVersionAction, w
    <3> HIDE DEF x
    <3>4. Books(x, q \o x.port, r, k, sk)
      BY <3>1, <3>3, BooksKept
    <3> QED
      BY <2>2, <2>3, <3>4, <3>5, Zenon
  <2>6. CASE a.state = "ST_DumpFlashSend"
    <3>1. Books(SendAction(a), q \o SendAction(a).port, r, k, sk)
      BY <1>1, <2>1, <2>4, <2>6, SendBooks
    <3>2. DumpAction(a) = SendAction(a)
      BY <2>6 DEF DumpAction
    <3> QED
      BY <2>2, <2>3, <3>1, <3>2, Zenon
  <2>7. CASE a.state \notin {"ST_DumpFlashQueryFirmwareVersion", "ST_DumpFlashSend"}
    <3>1. DumpAction(a) = a
      BY <2>7 DEF DumpAction
    <3> QED
      BY <2>2, <2>3, <3>1, Zenon
  <2> QED
    BY <2>5, <2>6, <2>7
<1> QED
  BY <1>3, <1>4, <1>5, <1>6, <1>7

\* Handling a packet writes nothing.
LEMMA PacketSilent ==
  ASSUME NEW g \in Host, NEW p
  PROVE  DumpPacket(g, p).port = g.port
<1>1. CASE g.state = "ST_DumpFlashQueryFirmwareVersion"
  BY <1>1 DEF DumpPacket, QueryVersionPacket, Schedule, Shut, Host
<1>2. CASE g.state = "ST_DumpFlashWait"
  BY <1>2 DEF DumpPacket, WaitPacket, NextAddress, Schedule, Shut, Host
<1>3. CASE g.state \notin {"ST_DumpFlashQueryFirmwareVersion", "ST_DumpFlashWait"}
  BY <1>3 DEF DumpPacket
<1> QED
  BY <1>1, <1>2, <1>3

\* Nor does handling those of a read.
LEMMA ReceivedSilent ==
  ASSUME NEW g, Good(g), g.port = << >>, NEW c \in Seq(Packets), Task # "T_SNIFF"
  PROVE  Received(g, c).port = << >>
<1>1. g \in GoodHosts
  BY Zenon DEF GoodHosts, Good, Typed
<1>2. PICK tr \in [0..Len(c) -> GoodHosts] :
         /\ tr[0] = g
         /\ \A i \in 1..Len(c) : tr[i] = DumpPacket(tr[i - 1], c[i])
         /\ FoldLeft(DumpPacket, g, c) = tr[Len(c)]
  BY <1>1, DumpFold, Zenon
<1> DEFINE S == {k \in Nat : k <= Len(c) => tr[k].port = << >>}
<1>3. 0 \in S
  BY <1>2
<1>4. ASSUME NEW k \in Nat, k \in S PROVE k + 1 \in S
  <2> SUFFICES ASSUME k + 1 <= Len(c) PROVE tr[k + 1].port = << >>
    OBVIOUS
  <2>1. k \in 0..Len(c) /\ k + 1 \in 1..Len(c) /\ (k + 1) - 1 = k
    OBVIOUS
  <2>2. tr[k] \in Host /\ tr[k].port = << >>
    BY <1>2, <1>4, <2>1 DEF GoodHosts
  <2>3. tr[k + 1] = DumpPacket(tr[k], c[k + 1])
    BY <1>2, <2>1
  <2> QED
    BY <2>2, <2>3, PacketSilent
<1> HIDE DEF S
<1>5. Len(c) \in S
  BY <1>3, <1>4, NatSetInduction
<1>6. Received(g, c) = tr[Len(c)]
  BY <1>2 DEF Received
<1> QED
  BY <1>5, <1>6 DEF S

\* What the device and its surroundings do to the books.
LEMMA DeviceBooks ==
  ASSUME TypeInv, DumpInv, Task = "T_DUMP_FLASH", ~seen'.repeated,
         DeviceStep \/ Air \/ Repeat \/ Restart \/ Unplug \/ Replug
  PROVE  Books(t', toDev', line', 0, seen'.skipped)
<1>0. /\ toDev \in Seq(Cmds) /\ line \in Seq(Packets) /\ t \in Host
      /\ SeenIn(seen) /\ dev.mode # "sniff"
  BY BootedTyped DEF TypeInv, WorldTyped, HostInv, Good, Typed
<1>1. t' = t
  BY Zenon DEF DeviceStep, Air, Repeat, Restart, Unplug, Replug
<1>2. ~seen.repeated
  <2>1. CASE Repeat
    <3>1. seen' = [seen EXCEPT !.repeated = @ \/ Last(line').cmd = "read"]
      BY <2>1 DEF Repeat
    <3>2. seen'.repeated = (seen.repeated \/ Last(line').cmd = "read")
      BY <1>0, <3>1 DEF SeenIn
    <3> QED
      BY <3>2, Zenon
  <2>2. CASE DeviceStep
    <3>1. seen' = seen \/ \E x : seen' = [seen EXCEPT !.skipped = x]
      BY <2>2, Zenon DEF DeviceStep
    <3>2. seen'.repeated = seen.repeated
      BY <1>0, <3>1 DEF SeenIn
    <3> QED
      BY <3>2
  <2>3. CASE Air \/ Restart \/ Unplug \/ Replug
    BY <2>3, Zenon DEF Air, Restart, Unplug, Replug
  <2> QED
    BY <2>1, <2>2, <2>3
<1>3. Books(t, toDev, line, 0, seen.skipped)
  BY <1>2 DEF DumpInv
<1> DEFINE sk == seen.skipped
<1>4. Part(toDev, toDev, 0) /\ Part(line, line, 0) /\ Part(<< >>, line, 0)
        /\ Part(<< >>, toDev, 0)
  BY <1>0, WholePart
\* Fewer commands and fewer packets.
<1>5. ASSUME NEW q, NEW r, NEW d \in Nat, Part(q, toDev, d), Part(r, line, 0)
      PROVE  Books(t, q, r, 0, sk)
  <2>1. AskedIn(toDev, t, sk) => AskedIn(q, t, sk)
    BY <1>5, PartBooks
  <2>2. AnsweredIn(line, 0, t, sk) => AnsweredIn(r, 0, t, sk)
    BY <1>5, PartBooks
  <2>3. (NoneIn(toDev, 0) => NoneIn(q, 0)) /\ (NoneIn(line, 0) => NoneIn(r, 0))
    BY <1>5, PartBooks
  <2> QED
    BY <1>3, <2>1, <2>2, <2>3 DEF Books
<1>6. CASE DeviceStep
  <2> DEFINE m == Head(toDev)
             q == Tail(toDev)
  <2>1. toDev # << >> /\ toDev' = q
    BY <1>6 DEF DeviceStep
  <2>2. m \in Cmds /\ m = toDev[1] /\ 1 \in DOMAIN toDev /\ Part(q, toDev, 1) /\ q \in Seq(Cmds)
    BY <1>0, <2>1 DEF Part
  <2>3. Books(t, q, line, 0, sk)
    BY <1>4, <1>5, <2>2
  <2>4. m.cmd # "sniff"
    BY <2>2 DEF Cmds
  <2>5. CASE UNCHANGED <<line, seen>>
    BY <1>1, <2>1, <2>3, <2>5
  <2>6. CASE \E p \in Answers(m) :
               /\ line' = Heard(<<p>>)
               /\ seen' = IF p.status = "EOFFSET"
                          THEN [seen EXCEPT !.skipped = @ \cup {p.addr}] ELSE seen
    <3>1. PICK p \in Answers(m) :
               /\ line' = Heard(<<p>>)
               /\ seen' = IF p.status = "EOFFSET"
                          THEN [seen EXCEPT !.skipped = @ \cup {p.addr}] ELSE seen
      BY <2>6, Zenon
    <3> HIDE DEF m, q
    <3>2. /\ p \in Packets /\ p.addr \in Steps0
          /\ p.cmd = "read" => m.cmd = "read" /\ p.addr = m.addr
          /\ p.status = "EOFFSET" => p.cmd = "read"
      BY <2>2, AnswersTyped DEF Packets, Steps0
    <3>3. line' \in {line, Append(line, p)}
      <4>1. Append(line, p) = line \o <<p>>
        BY <1>0, <3>2, AppendIsConcat
      <4> QED
        BY <3>1, <4>1 DEF Heard
    <3>4. CASE p.cmd # "read"
      <4>1. seen' = seen
        BY <3>1, <3>2, <3>4
      <4>2. \A i \in DOMAIN Append(line, p) : Append(line, p)[i].cmd = "read" =>
              i \in DOMAIN line /\ Append(line, p)[i] = line[i]
        BY <1>0, <3>4
      <4>3. AnsweredIn(line, 0, t, sk) => AnsweredIn(Append(line, p), 0, t, sk)
        BY <4>2 DEF AnsweredIn
      <4>4. NoneIn(line, 0) => NoneIn(Append(line, p), 0)
        BY <4>2 DEF NoneIn
      <4>5. Books(t, q, Append(line, p), 0, sk)
        BY <2>3, <4>3, <4>4 DEF Books
      <4> QED
        BY <1>1, <2>1, <2>3, <3>3, <4>1, <4>5, Zenon
    <3>5. CASE p.cmd = "read"
      \* The one read that was under way is answered.
      <4>1. m.cmd = "read" /\ t.state = "ST_DumpFlashWait" /\ p.addr = t.address
              /\ t.address \notin sk
        BY <1>3, <2>2, <3>2, <3>5 DEF Books, AskedIn
      <4>2. \A i \in DOMAIN toDev : i > 1 => toDev[i].cmd # "read"
        BY <1>3, <2>2, <4>1 DEF Books, AskedIn
      <4>3. \A i \in DOMAIN q : q[i].cmd # "read"
        <5>1. \A i \in DOMAIN q : i + 1 \in DOMAIN toDev /\ i + 1 > 1 /\ q[i] = toDev[i + 1]
          BY <2>2 DEF Part
        <5> QED
          BY <4>2, <5>1
      <4>4. \A i \in DOMAIN line : line[i].cmd # "read"
        <5>1. ~NoneIn(toDev, 0)
          BY <2>2, <4>1 DEF NoneIn
        <5>2. \A i \in DOMAIN line : i > 0
          BY <1>0
        <5> QED
          BY <1>3, <5>1, <5>2 DEF Books, NoneIn
      <4> DEFINE sk2 == seen'.skipped
      <4>5. sk2 = IF p.status = "EOFFSET" THEN sk \cup {t.address} ELSE sk
        BY <1>0, <3>1, <4>1 DEF SeenIn
      <4>6. t.address \in Nat
        BY <1>0 DEF Host
      <4> HIDE DEF sk2
      <4>7. Ledger(t, sk2)
        <5>1. Lists(t.printed, t.address, sk) /\ sk \subseteq 0..t.address /\ t.said # "complete"
          BY <1>3, <4>1 DEF Books, Ledger
        <5>2. (0..(t.address - 1)) \ sk2 = (0..(t.address - 1)) \ sk /\ sk2 \subseteq 0..t.address
          BY <4>5, <4>6, <5>1
        <5>3. Lists(t.printed, t.address, sk2)
          BY <5>1, <5>2 DEF Lists
        <5> QED
          BY <4>1, <5>1, <5>2, <5>3 DEF Ledger
      <4>8. AskedIn(q, t, sk2) /\ NoneIn(q, 0)
        BY <4>3 DEF AskedIn, NoneIn
      <4>9. AnsweredIn(line, 0, t, sk2)
        BY <4>4 DEF AnsweredIn
      <4>10. AnsweredIn(Append(line, p), 0, t, sk2)
        <5>1. \A i \in DOMAIN Append(line, p) : Append(line, p)[i].cmd = "read" =>
                i = Len(line) + 1 /\ Append(line, p)[i] = p
          BY <1>0, <4>4
        <5>2. p.status = "EOFFSET" <=> t.address \in sk2
          BY <4>1, <4>5
        <5> QED
          BY <4>1, <5>1, <5>2 DEF AnsweredIn
      <4>11. Books(t, q, line, 0, sk2) /\ Books(t, q, Append(line, p), 0, sk2)
        BY <4>7, <4>8, <4>9, <4>10 DEF Books
      <4> QED
        BY <1>1, <2>1, <3>3, <4>11, Zenon DEF sk2
    <3> QED
      BY <3>4, <3>5
  <2> QED
    BY <1>6, <2>4, <2>5, <2>6, Zenon DEF DeviceStep
<1>7. CASE Repeat
  <2>1. /\ line # << >> /\ toDev' = toDev
        /\ line' \in {Append(line, Last(line)), <<Packet("other", TRUE, "SUCCESS", 0)>> \o line}
        /\ seen' = [seen EXCEPT !.repeated = @ \/ Last(line').cmd = "read"]
    BY <1>7, Zenon DEF Repeat
  <2>2. seen'.skipped = sk /\ Last(line').cmd # "read"
    BY <1>0, <2>1, Zenon DEF SeenIn
  <2>3. CASE line' = Append(line, Last(line))
    <3>1. Last(line).cmd # "read"
      <4>1. Last(line') = Last(line)
        BY <1>0, <2>3 DEF Last
      <4> QED
        BY <2>2, <4>1
    <3>2. \A i \in DOMAIN line' : line'[i].cmd = "read" => i \in DOMAIN line /\ line'[i] = line[i]
      BY <1>0, <2>3, <3>1
    <3>3. AnsweredIn(line, 0, t, sk) => AnsweredIn(line', 0, t, sk)
      BY <3>2 DEF AnsweredIn
    <3>4. NoneIn(line, 0) => NoneIn(line', 0)
      BY <3>2 DEF NoneIn
    <3>5. Books(t, toDev, line', 0, sk)
      BY <1>3, <3>3, <3>4 DEF Books
    <3> QED
      BY <1>1, <2>1, <2>2, <3>5
  <2>4. CASE line' = <<Packet("other", TRUE, "SUCCESS", 0)>> \o line
    <3> DEFINE p == Packet("other", TRUE, "SUCCESS", 0)
    <3>1. p.cmd # "read"
      BY DEF Packet
    <3>2. line' = <<p>> \o line
      BY <2>4
    <3> HIDE DEF p
    <3>3. \A i \in DOMAIN line' : line'[i].cmd = "read" =>
            i - 1 \in DOMAIN line /\ line'[i] = line[i - 1] /\ i \in Nat /\ i - 1 > 0
      BY <1>0, <3>1, <3>2
    <3>4. AnsweredIn(line, 0, t, sk) => AnsweredIn(line', 0, t, sk)
      <4>1. \A i, j \in DOMAIN line' : i \in Nat /\ j \in Nat /\ i - 1 = j - 1 => i = j
        OBVIOUS
      <4> QED
        BY <3>3, <4>1 DEF AnsweredIn
    <3>5. NoneIn(line, 0) => NoneIn(line', 0)
      BY <3>3 DEF NoneIn
    <3>6. Books(t, toDev, line', 0, sk)
      BY <1>3, <3>4, <3>5 DEF Books
    <3> QED
      BY <1>1, <2>1, <2>2, <3>6
  <2> QED
    BY <2>1, <2>3, <2>4, Zenon
<1>8. CASE Restart \/ Replug
  BY <1>1, <1>3, <1>8, Zenon DEF Restart, Replug
<1>9. CASE Unplug
  <2>1. line' = << >> /\ toDev' = << >> /\ seen' = seen
    BY <1>9 DEF Unplug
  <2>2. Books(t, << >>, << >>, 0, sk)
    BY <1>4, <1>5
  <2> QED
    BY <1>1, <2>1, <2>2
<1>10. ~Air
  BY <1>0 DEF Air
<1> QED
  BY <1>6, <1>7, <1>8, <1>9, <1>10

\* Every step keeps the books.
LEMMA NextBooks ==
  ASSUME TypeInv, DumpInv, [Next]_vars
  PROVE  DumpInv'
<1> SUFFICES ASSUME Task' = "T_DUMP_FLASH", ~seen'.repeated
             PROVE  Books(t', toDev', line', 0, seen'.skipped)
  <2>1. Books(t', toDev', line', 0, seen'.skipped) => Books(t, toDev, line, 0, seen.skipped)'
    BY DEF Books, Ledger, Lists, AskedIn, AnsweredIn, NoneIn
  <2> QED
    BY <2>1 DEF DumpInv
<1>0. job' = job /\ Task = "T_DUMP_FLASH"
  <2>1. job' = job
    BY Zenon DEF Next, HostStep, vars, Terminated, Started, Poll, PollFails, TimerNotDue, TimerDue, HangUp, Read,
           ReadNothing, Keys, Exit, DeviceStep, Air, Repeat, Restart, Unplug, Replug, Turn
  <2> QED
    BY <2>1 DEF Task
<1>1. /\ WorldTyped /\ toDev \in Seq(Cmds) /\ line \in Seq(Packets) /\ t.port = << >>
      /\ (loop # "start" => Good(t)) /\ job \in Jobs
  BY <1>0 DEF TypeInv, WorldTyped, HostInv
<1>2. Part(line, line, 0) /\ Part(<< >>, line, 0) /\ 0 \in Nat
  BY <1>1, WholePart
\* A step of the host that handles all but a read.
<1>3. ASSUME NEW g, Good(g), NEW unread \in {line, << >>}, Turn(g, unread, seen),
             ~seen.repeated => Books(g, toDev \o g.port, line, 0, seen.skipped)
      PROVE  Books(t', toDev', line', 0, seen'.skipped)
  <2>1. seen' = seen
    BY <1>0, <1>3 DEF Turn, Noted, Good, Placed, DumpStates
  <2> QED
    BY <1>0, <1>1, <1>2, <1>3, <2>1, TurnBooks
<1>4. ASSUME Good(t), ~seen.repeated, NEW open
      PROVE  /\ Books(LoopEvent(t), toDev \o LoopEvent(t).port, line, 0, seen.skipped)
             /\ Books(Timeout(t, open), toDev \o Timeout(t, open).port, line, 0, seen.skipped)
             /\ Books(Disconnect(t), toDev \o Disconnect(t).port, line, 0, seen.skipped)
             /\ Books(Shut(t), toDev \o Shut(t).port, line, 0, seen.skipped)
             /\ Books(Write(t, "parameter", 0), toDev \o Write(t, "parameter", 0).port, line, 0,
                      seen.skipped)
  <2>1. Books(t, toDev, line, 0, seen.skipped)
    BY <1>0, <1>4 DEF DumpInv
  <2> QED
    BY <1>0, <1>1, <1>4, <2>1, HandledBooks, Zenon
<1>5. CASE Started
  <2>1. PICK open \in BOOLEAN : Turn(InitEvent(t, open), line, seen)
    BY <1>5 DEF Started
  <2>2. t = Booted
    BY <1>5 DEF Started, TypeInv, HostInv
  <2> DEFINE g == InitEvent(t, open)
  <2>3. Good(g)
    BY <2>2, BootedTyped, InitEventGood
  <2>4. g.address = t.address /\ g.printed = t.printed /\ g.said # "complete" /\ g.port = << >>
          /\ g.state \in {"ST_DumpFlashConnect", "ST_DumpFlashQueryFirmwareVersion"}
          /\ t.state = "ST_Init"
    BY <1>0, <2>2 DEF InitEvent, DumpConnectAction, Connect, Schedule, Shut, Booted
  <2> HIDE DEF g
  <2>5. toDev \o g.port = toDev
    BY <1>1, <2>4, ConcatEmptySeq
  <2>6. ~seen.repeated => Books(g, toDev \o g.port, line, 0, seen.skipped)
    BY <1>0, <2>4, <2>5, BooksKept DEF DumpInv
  <2> QED
    BY <1>3, <2>1, <2>3, <2>6 DEF g
<1>6. CASE Poll \/ PollFails
  <2>1. Turn(LoopEvent(t), line, seen) /\ Good(t)
    BY <1>1, <1>6 DEF Poll, PollFails
  <2> QED
    BY <1>3, <1>4, <2>1, LoopEventGood
<1>7. CASE TimerDue
  <2>1. PICK open \in BOOLEAN : Turn(Timeout(t, open), line, seen)
    BY <1>7 DEF TimerDue
  <2>2. Good(t)
    BY <1>1, <1>7 DEF TimerDue
  <2> QED
    BY <1>1, <1>3, <1>4, <2>1, <2>2, TimeoutGood
<1>8. CASE HangUp \/ Exit
  <2>1. Turn(Disconnect(t), << >>, seen) /\ Good(t)
    BY <1>1, <1>8 DEF HangUp, Exit
  <2> QED
    BY <1>3, <1>4, <2>1, DisconnectGood
<1>9. CASE Keys
  <2> DEFINE g == IF snap.key = "eof" THEN Shut(t) ELSE Write(t, "parameter", 0)
  <2>1. Turn(g, line, seen) /\ Good(t)
    BY <1>1, <1>9 DEF Keys
  <2>2. Good(g)
    BY <2>1, ShutGood, WriteGood, CmdsTyped DEF Good
  <2>3. ~seen.repeated => Books(g, toDev \o g.port, line, 0, seen.skipped)
    BY <1>4, <2>1
  <2> HIDE DEF g
  <2> QED
    BY <1>3, <2>1, <2>2, <2>3
<1>10. CASE Read
  <2>1. PICK n \in 1..RxCap :
          /\ n <= Len(line)
          /\ Turn(Received(t, SubSeq(line, 1, n)), SubSeq(line, n + 1, Len(line)),
                  Notes(SubSeq(line, 1, n)))
    BY <1>10 DEF Read
  <2> DEFINE c == SubSeq(line, 1, n)
             rest == SubSeq(line, n + 1, Len(line))
             g == Received(t, c)
  <2>2. n \in Nat /\ Len(line) \in Nat /\ n + 1 \in Int
    BY <1>1, SerialAssumption
  <2>3. c \in Seq(Packets) /\ Good(t)
    BY <1>1, <1>10, <2>1, <2>2 DEF Read
  <2>4. Part(rest, line, n)
    <3>1. \A i \in (n + 1)..Len(line) : line[i] \in Packets
      BY <1>1, <2>2
    <3>2. rest = SubSeq(line, n + 1, Len(line))
      OBVIOUS
    <3>3. n \in Nat /\ Len(line) \in Nat /\ n <= Len(line)
      BY <2>1, <2>2
    <3> HIDE DEF rest
    <3>4. /\ rest \in Seq(Packets)
          /\ Len(rest) = IF n + 1 <= Len(line) THEN Len(line) - (n + 1) + 1 ELSE 0
          /\ \A i \in 1..(Len(line) - (n + 1) + 1) : rest[i] = line[n + 1 + i - 1]
      BY <2>2, <3>1, <3>2, SubSeqProperties
    <3>5. Len(rest) = Len(line) - n
      BY <3>3, <3>4
    <3>6. ASSUME NEW i \in DOMAIN rest
          PROVE  i \in Nat /\ i > 0 /\ i + n \in DOMAIN line /\ rest[i] = line[i + n]
      <4>1. i \in 1..(Len(line) - n)
        BY <3>4, <3>5
      <4>2. i \in Nat /\ i > 0 /\ i + n \in 1..Len(line)
        BY <3>3, <4>1
      <4>3. i \in 1..(Len(line) - (n + 1) + 1) /\ n + 1 + i - 1 = i + n
        BY <3>3, <4>1
      <4>4. rest[i] = line[n + 1 + i - 1]
        BY <3>4, <4>3, Zenon
      <4>5. DOMAIN line = 1..Len(line)
        BY <1>1
      <4> QED
        BY <4>2, <4>3, <4>4, <4>5
    <3> QED
      BY <3>6 DEF Part
  <2>5. Notes(c) = seen
    BY <1>0 DEF Notes
  <2>6. Turn(g, rest, seen)
    BY <2>1, <2>5
  <2>7. Good(g)
    <3> HIDE DEF c
    <3> QED
      BY <1>0, <2>3, ReceivedGood
  <2>8. seen' = seen
    BY <1>0, <2>6, <2>7 DEF Turn, Noted, Good, Placed, DumpStates
  <2>9. Books(t, toDev, line, 0, seen.skipped)
    BY <1>0, <2>8 DEF DumpInv
  <2>10. Books(g, toDev, line, n, seen.skipped)
    BY <1>0, <1>1, <2>1, <2>2, <2>3, <2>9, ReceivedBooks
  <2>11. g.port = << >>
    BY <1>0, <1>1, <2>3, ReceivedSilent, Zenon
  <2> HIDE DEF c, rest, g
  <2>12. toDev \o g.port = toDev
    BY <1>1, <2>11, ConcatEmptySeq
  <2> QED
    BY <1>0, <1>1, <2>2, <2>4, <2>6, <2>7, <2>8, <2>10, <2>12, TurnBooks, Zenon
<1>11. CASE TimerNotDue \/ ReadNothing \/ Terminated \/ UNCHANGED vars
  <2>1. UNCHANGED <<t, toDev, line, seen>>
    BY <1>11 DEF TimerNotDue, ReadNothing, Terminated, vars
  <2> QED
    BY <1>0, <2>1 DEF DumpInv
<1>12. CASE DeviceStep \/ Air \/ Repeat \/ Restart \/ Unplug \/ Replug
  BY <1>0, <1>12, DeviceBooks
<1> QED
  BY <1>5, <1>6, <1>7, <1>8, <1>9, <1>10, <1>11, <1>12 DEF Next, HostStep

\* The inductive invariant: typed, waiting, and with the books kept.
LEMMA SerialInvariant == Spec => []SerialInv
<1>1. Init => DumpInv
  <2> SUFFICES ASSUME Init PROVE Books(t, toDev, line, 0, seen.skipped)
    BY DEF DumpInv
  <2>1. Lists(<< >>, 0, {})
    BY DEF Lists
  <2> QED
    BY <2>1 DEF Init, Booted, Fresh, Books, Ledger, AskedIn, AnsweredIn, NoneIn
<1>2. TypeInv /\ DumpInv /\ [Next]_vars => DumpInv'
  BY NextBooks
<1>3. SerialInv <=> TypeInv /\ DumpInv
  BY DEF SerialInv, TypeInv
<1> QED
  BY <1>1, <1>2, <1>3, TypeInvariant, PTL DEF Spec

\* A dump that says it is complete printed every record the device could read,
\* once and in order, however the answers were cut into reads and whatever was
\* lost, typed or unplugged, unless an answer came twice (gcf.c 1552-1636).
THEOREM DumpsAreComplete == Spec => []DumpComplete
<1>1. SerialInv => DumpComplete
  <2> SUFFICES ASSUME SerialInv, t.said = "complete", ~seen.repeated
               PROVE  Lists(t.printed, FlashSteps, seen.skipped)
    BY DEF DumpComplete, Lists
  <2>1. Typed(t)
    BY BootedTyped DEF SerialInv, HostInv, Good
  <2>2. Task \in {"T_CONNECT", "T_SNIFF", "T_DUMP_FLASH"}
    BY SerialAssumption DEF SerialInv, WorldTyped, Task
  <2>3. Task = "T_DUMP_FLASH"
    BY <2>1, <2>2 DEF Typed
  <2> QED
    BY <2>3 DEF SerialInv, DumpInv, Books, Ledger
<1> QED
  BY <1>1, SerialInvariant, PTL

-----------------------------------------------------------------------------
(* The stream of the sniffer.                                              *)

\* A part of a sequence.
LEMMA Middle ==
  ASSUME NEW S, NEW q \in Seq(S), NEW x \in Nat, NEW y \in Nat, 1 <= x, x <= y + 1, y <= Len(q)
  PROVE  /\ SubSeq(q, x, y) \in Seq(S)
         /\ Len(SubSeq(q, x, y)) = y + 1 - x
         /\ \A k \in 1..(y + 1 - x) : SubSeq(q, x, y)[k] = q[x + k - 1]
<1>1. \A i \in x..y : q[i] \in S
  OBVIOUS
<1>2. /\ SubSeq(q, x, y) \in Seq(S)
      /\ Len(SubSeq(q, x, y)) = IF x <= y THEN y - x + 1 ELSE 0
      /\ \A k \in 1..(y - x + 1) : SubSeq(q, x, y)[k] = q[x + k - 1]
  BY <1>1, SubSeqProperties
<1>3. y - x + 1 = y + 1 - x
  OBVIOUS
<1> QED
  BY <1>2, <1>3

\* s reads to the end of a word.
Complete(s) == s # << >> => s[Len(s)].at = Len(Word(s[Len(s)].frame))

\* No frame in s is later than the n-th.
Upto(s, n) == \A i \in DOMAIN s : s[i].frame <= n

\* A word says of each of its bytes where it stands.
LEMMA WordShape ==
  ASSUME NEW f \in 0..Len(Script)
  PROVE  /\ Word(f) \in Seq(Sniffed) /\ Len(Word(f)) \in Nat /\ Len(Word(f)) >= 2
         /\ DOMAIN Word(f) = 1..Len(Word(f))
         /\ \A i \in 1..Len(Word(f)) : Word(f)[i].frame = f /\ Word(f)[i].at = i
<1>1. CASE f = 0
  <2>1. Word(f) = Said(<<O, K>>)
    BY <1>1 DEF Word
  <2> QED
    BY <1>1, <2>1, OkShape
<1>2. CASE f # 0
  <2>1. f \in DOMAIN Script
    BY <1>2, SerialAssumption
  <2>2. Word(f) = FrameBytes(f)
    BY <1>2 DEF Word
  <2>3. /\ Word(f) \in Seq(Sniffed) /\ Len(Word(f)) = MinLength + Len(Script[f]) + 3
        /\ Len(Script[f]) \in Nat
        /\ \A i \in DOMAIN Word(f) : Word(f)[i].frame = f /\ Word(f)[i].at = i
    BY <2>1, <2>2, FrameShape
  <2> QED
    BY <2>3, SnifferAssumption
<1> QED
  BY <1>1, <1>2

\* What a stretch says of one byte.
LEMMA StretchByte ==
  ASSUME NEW s, Stretch(s), NEW i \in DOMAIN s
  PROVE  /\ s[i] \in Sniffed /\ s[i].frame \in 0..Len(Script) /\ s[i].at \in Nat
         /\ i \in Nat /\ i >= 1 /\ i <= Len(s) /\ Len(s) \in Nat
         /\ s[i].at \in 1..Len(Word(s[i].frame))
         /\ s[i] = Word(s[i].frame)[s[i].at]
<1>1. s \in Seq(Sniffed)
  BY DEF Stretch
<1>2. s[i] \in Sniffed /\ i \in Nat /\ i >= 1 /\ i <= Len(s) /\ Len(s) \in Nat
  BY <1>1
<1>3. s[i].frame \in 0..Len(Script) /\ s[i].at \in Nat
  BY <1>2 DEF Sniffed
<1>4. s[i].at \in DOMAIN Word(s[i].frame) /\ s[i] = Word(s[i].frame)[s[i].at]
  BY DEF Stretch
<1> QED
  BY <1>2, <1>3, <1>4, WordShape

\* A part of a stretch is one, and where it reaches the end it is as complete.
LEMMA StretchPart ==
  ASSUME NEW s, Stretch(s), NEW r \in Seq(Sniffed), NEW d \in Nat,
         Len(r) + d <= Len(s), \A i \in DOMAIN r : r[i] = s[i + d]
  PROVE  /\ Stretch(r)
         /\ \A n : Upto(s, n) => Upto(r, n)
         /\ Len(r) + d = Len(s) /\ Complete(s) => Complete(r)
<1>1. Len(s) \in Nat /\ DOMAIN s = 1..Len(s) /\ Len(r) \in Nat /\ DOMAIN r = 1..Len(r)
  BY DEF Stretch
<1>2. ASSUME NEW i \in DOMAIN r
      PROVE  i + d \in DOMAIN s /\ r[i] = s[i + d] /\ i \in Nat
  BY <1>1
<1>3. ASSUME NEW i \in DOMAIN r, NEW j \in DOMAIN r, i < j
      PROVE  LET w == Word(r[i].frame)
                 k == r[i].at + (j - i)
             IN  IF k <= Len(w) THEN r[j] = w[k]
                 ELSE /\ k = Len(w) + 1 => r[j].at = 1
                      /\ 0 \in {r[i].frame, r[j].frame} \/ r[i].frame < r[j].frame
  <2>1. (j + d) - (i + d) = j - i /\ i + d < j + d
    BY <1>1, <1>3
  <2> QED
    BY <1>2, <1>3, <2>1, ZenonT(40) DEF Stretch
<1>4. Stretch(r)
  BY <1>2, <1>3 DEF Stretch
<1>5. \A n : Upto(s, n) => Upto(r, n)
  BY <1>2 DEF Upto
<1>6. Len(r) + d = Len(s) /\ Complete(s) => Complete(r)
  <2> SUFFICES ASSUME Len(r) + d = Len(s), Complete(s), r # << >>
               PROVE  r[Len(r)].at = Len(Word(r[Len(r)].frame))
    BY DEF Complete
  <2>1. Len(r) \in DOMAIN r
    BY <1>1
  <2>2. r[Len(r)] = s[Len(s)] /\ s # << >>
    BY <1>1, <2>1
  <2> QED
    BY <2>2 DEF Complete
<1> QED
  BY <1>4, <1>5, <1>6

\* A word behind a complete stretch.
LEMMA StretchJoin ==
  ASSUME NEW s, Stretch(s), Complete(s), NEW f \in 0..Len(Script),
         f # 0 => \A i \in DOMAIN s : s[i].frame < f
  PROVE  Stretch(s \o Word(f)) /\ Complete(s \o Word(f))
<1> DEFINE w == Word(f)
           m == Len(s)
           n == Len(w)
           r == s \o w
<1>1. /\ s \in Seq(Sniffed) /\ m \in Nat /\ DOMAIN s = 1..m
      /\ w \in Seq(Sniffed) /\ n \in Nat /\ n >= 2 /\ DOMAIN w = 1..n
      /\ \A i \in 1..n : w[i].frame = f /\ w[i].at = i
  BY WordShape DEF Stretch
<1> HIDE DEF w
<1>2. /\ r \in Seq(Sniffed) /\ Len(r) = m + n /\ DOMAIN r = 1..(m + n)
      /\ \A i \in 1..m : r[i] = s[i]
      /\ \A i \in 1..n : r[m + i] = w[i]
  BY <1>1
<1> HIDE DEF m, n, r
<1>3. ASSUME NEW i \in DOMAIN r, i > m
      PROVE  i - m \in 1..n /\ r[i] = w[i - m] /\ r[i].frame = f /\ r[i].at = i - m
  <2>1. i - m \in 1..n /\ i = m + (i - m)
    BY <1>1, <1>2, <1>3
  <2> QED
    BY <1>1, <1>2, <2>1
<1>4. ASSUME NEW i \in DOMAIN r, i <= m
      PROVE  i \in DOMAIN s /\ r[i] = s[i]
  BY <1>1, <1>2, <1>4
<1>5. ASSUME NEW i \in DOMAIN r
      PROVE  r[i].at \in DOMAIN Word(r[i].frame) /\ r[i] = Word(r[i].frame)[r[i].at]
  <2>1. CASE i <= m
    BY <1>4, <2>1 DEF Stretch
  <2>2. CASE i > m
    BY <1>1, <1>3, <2>2 DEF w
  <2> QED
    BY <1>1, <1>2, <2>1, <2>2
\* Where the word of a byte of s ends.
<1>6. ASSUME NEW i \in DOMAIN s
      PROVE  /\ s[i].at \in Nat /\ Len(Word(s[i].frame)) \in Nat
             /\ s[i].at + (m - i) >= Len(Word(s[i].frame))
  <2> DEFINE u == Word(s[i].frame)
  <2>1. s[i].at \in Nat /\ Len(u) \in Nat /\ s[i].at \in 1..Len(u) /\ i <= m
    BY StretchByte, WordShape DEF m
  <2>2. s # << >> /\ m \in DOMAIN s
    BY <1>1
  <2>3. s[m].at = Len(Word(s[m].frame))
    BY <2>2 DEF Complete, m
  <2>4. CASE i = m
    BY <1>1, <2>1, <2>3, <2>4
  <2>5. CASE i < m /\ s[i].at + (m - i) <= Len(u)
    <3>1. s[m] = u[s[i].at + (m - i)]
      BY <2>2, <2>5 DEF Stretch
    <3>2. s[i].at + (m - i) \in 1..Len(u)
      BY <1>1, <2>1, <2>5
    <3>3. s[i].frame \in 0..Len(Script)
      BY StretchByte
    <3>4. s[m].frame = s[i].frame /\ s[m].at = s[i].at + (m - i)
      BY <3>1, <3>2, <3>3, WordShape
    <3> QED
      BY <1>1, <2>1, <2>3, <3>4
  <2> QED
    BY <1>1, <2>1, <2>4, <2>5
<1>7. ASSUME NEW i \in DOMAIN r, NEW j \in DOMAIN r, i < j
      PROVE  LET u == Word(r[i].frame)
                 k == r[i].at + (j - i)
             IN  IF k <= Len(u) THEN r[j] = u[k]
                 ELSE /\ k = Len(u) + 1 => r[j].at = 1
                      /\ 0 \in {r[i].frame, r[j].frame} \/ r[i].frame < r[j].frame
  <2>0. i \in Nat /\ j \in Nat
    BY <1>1, <1>2
  <2>1. CASE j <= m
    <3>1. i <= m
      BY <1>1, <1>7, <2>0, <2>1
    <3> QED
      BY <1>4, <1>7, <2>1, <3>1, ZenonT(40) DEF Stretch
  <2>2. CASE i > m
    <3>1. j > m
      BY <1>1, <1>7, <2>0, <2>2
    <3>2. r[i].frame = f /\ r[i].at = i - m /\ r[j] = w[j - m] /\ j - m \in 1..n
      BY <1>3, <2>2, <3>1
    <3>3. (i - m) + (j - i) = j - m
      BY <1>1, <2>0
    <3>4. r[i].at + (j - i) = j - m /\ j - m <= Len(Word(f))
      BY <1>1, <3>2, <3>3 DEF n, w
    <3> QED
      BY <3>2, <3>4 DEF w
  <2>3. CASE i <= m /\ j > m
    <3>1. /\ r[j].frame = f /\ r[j].at = j - m /\ r[i] = s[i] /\ i \in DOMAIN s
      BY <1>3, <1>4, <2>3
    <3> DEFINE u == Word(s[i].frame)
    <3>2. s[i].at \in Nat /\ Len(u) \in Nat /\ s[i].at + (m - i) >= Len(u)
      BY <1>6, <3>1
    <3>3. ~(s[i].at + (j - i) <= Len(u))
            /\ (s[i].at + (j - i) = Len(u) + 1 => j - m = 1)
      <4>1. \A a, l, x, y \in Nat : x <= m /\ y > m /\ a + (m - x) >= l =>
              ~(a + (y - x) <= l) /\ (a + (y - x) = l + 1 => y - m = 1)
        BY <1>1
      <4> HIDE DEF u
      <4> QED
        BY <2>0, <2>3, <3>2, <4>1, ZenonT(40)
    <3>4. 0 \in {s[i].frame, f} \/ s[i].frame < f
      BY <3>1
    <3> QED
      BY <3>1, <3>3, <3>4
  <2> QED
    BY <1>1, <2>0, <2>1, <2>2, <2>3
<1>8. Stretch(r)
  BY <1>2, <1>5, <1>7 DEF Stretch
<1>9. Complete(r)
  <2>1. m + n \in DOMAIN r /\ m + n > m /\ (m + n) - m = n
    BY <1>1, <1>2
  <2>2. r[m + n].frame = f /\ r[m + n].at = n
    BY <1>3, <2>1
  <2> QED
    BY <1>2, <2>2 DEF Complete, n, w
<1> QED
  BY <1>8, <1>9 DEF r, w

\* The first byte of a frame is followed by the rest of it, as far as the
\* stretch goes, and by later frames only.
LEMMA FirstByte ==
  ASSUME NEW s, Stretch(s), NEW i \in DOMAIN s, IsFirst(s[i])
  PROVE  LET f == s[i].frame
             n == MinLength + Len(Script[f])
         IN  /\ f \in DOMAIN Script /\ n \in Nat /\ n >= MinLength
             /\ s[i].byte = Start
             /\ \A j \in DOMAIN s : i < j /\ j <= i + n + 2 =>
                  s[j] = FrameBytes(f)[1 + (j - i)] /\ ~IsFirst(s[j])
             /\ \A j \in DOMAIN s : j > i + n + 2 /\ IsFirst(s[j]) => f < s[j].frame
<1> DEFINE f == s[i].frame
           w == FrameBytes(f)
           n == MinLength + Len(Script[f])
<1>1. f # 0 /\ s[i].at = 1 /\ f \in 0..Len(Script) /\ i \in Nat
  BY StretchByte DEF IsFirst
<1>2. f \in DOMAIN Script /\ Word(f) = w
  BY <1>1, SerialAssumption DEF Word
<1>3. /\ w \in Seq(Sniffed) /\ n \in Nat /\ n >= MinLength /\ Len(w) = n + 3
      /\ DOMAIN w = 1..(n + 3)
      /\ \A k \in DOMAIN w : w[k].frame = f /\ w[k].at = k
      /\ w[1].byte = Start
  <2>1. /\ w \in Seq(Sniffed) /\ Len(Script[f]) \in Nat /\ Len(w) = MinLength + Len(Script[f]) + 3
        /\ \A k \in DOMAIN w : w[k].frame = f /\ w[k].at = k
        /\ w[1].byte = Start
    BY <1>2, FrameShape
  <2> QED
    BY <2>1, SnifferAssumption, SMTT(30)
<1>4. s[i].byte = Start
  <2>1. s[i] = Word(f)[1]
    BY <1>1, StretchByte
  <2> QED
    BY <1>2, <1>3, <2>1
<1>5. ASSUME NEW j \in DOMAIN s, i < j, j <= i + n + 2
      PROVE  s[j] = w[1 + (j - i)] /\ ~IsFirst(s[j])
  <2>0. j \in Nat
    BY StretchByte
  <2>1. 1 + (j - i) <= Len(Word(f)) /\ 1 + (j - i) \in 1..(n + 3) /\ 1 + (j - i) # 1
    <3> HIDE DEF n, w, f
    <3> QED
      BY <1>1, <1>2, <1>3, <1>5, <2>0
  <2>2. s[j] = Word(f)[1 + (j - i)]
    BY <1>1, <1>5, <2>1, Zenon DEF Stretch
  <2>3. s[j] = w[1 + (j - i)] /\ s[j].at = 1 + (j - i)
    BY <1>2, <1>3, <2>1, <2>2
  <2> QED
    BY <2>1, <2>3 DEF IsFirst
<1>6. ASSUME NEW j \in DOMAIN s, j > i + n + 2, IsFirst(s[j])
      PROVE  f < s[j].frame
  <2>0. j \in Nat
    BY StretchByte
  <2>1. ~(1 + (j - i) <= Len(Word(f))) /\ i < j
    <3> HIDE DEF n, w, f
    <3> QED
      BY <1>1, <1>2, <1>3, <1>6, <2>0
  <2>2. 0 \in {f, s[j].frame} \/ f < s[j].frame
    BY <1>1, <2>1 DEF Stretch
  <2> QED
    BY <1>1, <1>6, <2>2 DEF IsFirst
<1> QED
  BY <1>2, <1>3, <1>4, <1>5, <1>6

-----------------------------------------------------------------------------
(* What synchronising does with the bytes there are.                       *)

\* Nothing is sent.
Unsent(g, h) ==
  /\ h.zep = g.zep /\ h.sniffSeqNum = g.sniffSeqNum
  /\ h.state = "ST_SniffSyncData" /\ h.fd = g.fd

\* The first start marker from the read index on is at i, with its length.
Marked(g, i) ==
  /\ i \in Nat /\ g.rp <= i /\ i + 2 <= Len(g.ascii)
  /\ g.ascii[i + 1] = Start /\ g.ascii[i + 2] \in Nat
  /\ \A j \in 1..Len(g.ascii) : j > g.rp /\ j <= i => g.ascii[j] # Start

\* All is dropped, and no start marker in it has its length behind it.
Dropped(g, h) ==
  /\ Unsent(g, h) /\ h.ascii = << >> /\ h.rp = 0
  /\ \A j \in 1..Len(g.ascii) : j > g.rp /\ g.ascii[j] = Start => j = Len(g.ascii)

\* The rest of the frame at i is not there yet.
Awaited(g, h, i) == Unsent(g, h) /\ h.ascii = g.ascii /\ h.rp = i

\* There is no frame at i.
Skipped(g, h, i) ==
  LET n == g.ascii[i + 2]
  IN  /\ Unsent(g, h) /\ h.ascii = g.ascii /\ h.rp = i + 1
      /\ n < MinLength \/ (i + n + 3 <= Len(g.ascii) /\ g.ascii[i + n + 3] # End)

\* A frame is at i, and is sent.
Delivered(g, h, i) ==
  LET n == g.ascii[i + 2]
  IN  /\ n >= MinLength /\ i + n + 3 <= Len(g.ascii) /\ g.ascii[i + n + 3] = End
      /\ h.zep = Append(g.zep, [seq |-> g.sniffSeqNum,
                                data |-> ZepData(n, SubSeq(g.ascii, i + 3, i + n + 3))])
      /\ h.sniffSeqNum = g.sniffSeqNum + 1
      /\ h.ascii = SubSeq(g.ascii, i + n + 4, Len(g.ascii)) /\ h.rp = 0
      /\ h.state = "ST_SniffSyncData" /\ h.fd = g.fd

\* The search for the start marker.
LEMMA FirstMarker ==
  ASSUME NEW g, g.ascii \in Seq(Bytes), g.rp \in Nat
  PROVE  LET i == StartMarker(g)
         IN  \/ /\ i = Len(g.ascii)
                /\ \A j \in 1..Len(g.ascii) : j > g.rp => g.ascii[j] # Start
             \/ /\ i \in Nat /\ g.rp <= i /\ i + 1 <= Len(g.ascii) /\ g.ascii[i + 1] = Start
                /\ \A j \in 1..Len(g.ascii) : j > g.rp /\ j <= i => g.ascii[j] # Start
<1> DEFINE n == Len(g.ascii)
           found == {j \in g.rp..(n - 1) : g.ascii[j + 1] = Start}
           i == StartMarker(g)
<1>1. n \in Nat
  OBVIOUS
<1>2. found \in SUBSET Nat
  BY <1>1
\* An earlier one would have been found.
<1>3. ASSUME NEW j \in 1..n, j > g.rp, g.ascii[j] = Start
      PROVE  j - 1 \in found
  <2>1. j - 1 \in g.rp..(n - 1) /\ (j - 1) + 1 = j
    BY <1>1, <1>3
  <2> QED
    BY <1>3, <2>1
<1>4. CASE found = {}
  BY <1>3, <1>4, Zenon DEF StartMarker
<1>5. CASE found # {}
  <2>1. \E x \in found : \A y \in found : x <= y
    BY <1>2, <1>5, LeastNumber, Zenon
  <2>2. i = CHOOSE x \in found : \A y \in found : x <= y
    BY <1>5, Zenon DEF StartMarker
  <2> HIDE DEF i
  <2>3. i \in found /\ \A y \in found : i <= y
    <3> HIDE DEF found
    <3> QED
      BY <2>1, <2>2
  <2>4. i \in Nat /\ g.rp <= i /\ i + 1 <= n /\ g.ascii[i + 1] = Start
    BY <1>1, <2>3
  <2>5. ASSUME NEW j \in 1..n, j > g.rp, j <= i PROVE g.ascii[j] # Start
    <3> SUFFICES ASSUME g.ascii[j] = Start PROVE FALSE
      OBVIOUS
    <3>1. j - 1 \in found
      BY <1>3, <2>5
    <3>2. i <= j - 1
      BY <2>3, <3>1
    <3> HIDE DEF found
    <3> QED
      BY <1>1, <2>4, <2>5, <3>2
  <2> QED
    BY <2>4, <2>5 DEF i
<1> QED
  BY <1>4, <1>5

\* A start marker with its length.
LEMMA FrameOutcome ==
  ASSUME NEW g, Typed(g), g.state = "ST_SniffSyncData", NEW i, Marked(g, i)
  PROVE  LET h == SniffFrame([g EXCEPT !.sniffLength = 0], i)
         IN  Awaited(g, h, i) \/ Skipped(g, h, i) \/ Delivered(g, h, i)
<1> DEFINE n == g.ascii[i + 2]
           m == Len(g.ascii)
           z == [g EXCEPT !.sniffLength = 0]
           a == [z EXCEPT !.rp = i, !.sniffPacket = << >>, !.sniffLength = n]
           d == [a EXCEPT !.rp = i + 1]
           e == [a EXCEPT !.rp = i + 2, !.state = "ST_SniffRecvData"]
           h == SniffFrame(z, i)
<1>1. /\ i \in Nat /\ i + 2 <= m /\ m \in Nat /\ n \in Nat
      /\ g \in Host /\ g.ascii \in Seq(Bytes) /\ z.ascii = g.ascii
      /\ MinLength \in Nat
  BY Constants DEF Marked, Typed, Host
<1>2. /\ a.ascii = g.ascii /\ a.rp = i /\ a.zep = g.zep /\ a.sniffSeqNum = g.sniffSeqNum
      /\ a.state = "ST_SniffSyncData" /\ a.fd = g.fd
      /\ d.ascii = g.ascii /\ d.rp = i + 1 /\ d.zep = g.zep /\ d.sniffSeqNum = g.sniffSeqNum
      /\ d.state = "ST_SniffSyncData" /\ d.fd = g.fd
  BY <1>1 DEF Host
<1>3. /\ e.ascii = g.ascii /\ e.rp = i + 2 /\ e.zep = g.zep /\ e.sniffSeqNum = g.sniffSeqNum
      /\ e.sniffPacket = << >> /\ e.sniffLength = n /\ e.fd = g.fd
  BY <1>1 DEF Host
<1>4. h = IF n < MinLength THEN d
          ELSE IF 2 + n >= m - i THEN a
          ELSE IF g.ascii[i + 2 + n + 1] = End THEN SniffRecvDataAscii(e) ELSE d
  <2> HIDE DEF SniffRecvDataAscii
  <2> QED
    BY <1>1 DEF SniffFrame
<1> HIDE DEF a, d, e, h, n, m
<1>n. i \in Nat /\ m \in Nat /\ n \in Nat /\ i + 2 <= m /\ MinLength \in Nat
  BY <1>1
<1>s. g.ascii \in Seq(Bytes)
  BY <1>1
<1>r. ~(n < MinLength) /\ ~(2 + n >= m - i) =>
        n >= MinLength /\ i + n + 3 <= m /\ i + 2 + n + 1 = i + n + 3
  BY <1>n
<1>5. CASE n < MinLength
  <2>1. h = d
    BY <1>4, <1>5
  <2> QED
    BY <1>2, <1>5, <2>1 DEF Skipped, Unsent, h, z, n
<1>6. CASE ~(n < MinLength) /\ 2 + n >= m - i
  <2>1. h = a
    BY <1>4, <1>6
  <2> QED
    BY <1>2, <2>1 DEF Awaited, Unsent, h, z
<1>7. CASE ~(n < MinLength) /\ ~(2 + n >= m - i) /\ g.ascii[i + 2 + n + 1] # End
  <2>1. h = d
    BY <1>4, <1>7
  <2>2. i + n + 3 <= m /\ i + 2 + n + 1 = i + n + 3
    BY <1>7, <1>r
  <2> QED
    BY <1>2, <1>7, <2>1, <2>2 DEF Skipped, Unsent, h, z, n, m
<1>8. CASE ~(n < MinLength) /\ ~(2 + n >= m - i) /\ g.ascii[i + 2 + n + 1] = End
  <2> DEFINE s == SubSeq(g.ascii, i + 3, i + n + 3)
             rest == SubSeq(g.ascii, i + n + 4, m)
             b == [e EXCEPT !.sniffPacket = s, !.ascii = rest, !.rp = 0]
             u == UdpSend(b)
             v == [u EXCEPT !.sniffPacket = << >>, !.sniffLength = 0,
                            !.state = "ST_SniffSyncData"]
  <2>1. h = SniffRecvDataAscii(e) /\ i + n + 3 <= m /\ n >= MinLength
          /\ i + 2 + n + 1 = i + n + 3
    BY <1>4, <1>8, <1>r
  <2>2. s \in Seq(Bytes) /\ Len(s) = n + 1 /\ s[n + 1] = End
    <3>1. i + 3 \in 1..m /\ i + n + 3 \in 1..m /\ i + 3 <= i + n + 3
            /\ (i + n + 3) - (i + 3) + 1 = n + 1
      BY <1>n, <2>1
    <3>2. s \in Seq(Bytes) /\ Len(s) = n + 1
            /\ \A k \in 1..(n + 1) : s[k] = g.ascii[i + 3 + k - 1]
      <4>1. i + 3 \in Nat /\ i + n + 3 \in Nat /\ 1 <= i + 3 /\ i + 3 <= (i + n + 3) + 1
              /\ i + n + 3 <= Len(g.ascii) /\ (i + n + 3) + 1 - (i + 3) = n + 1
        BY <1>n, <2>1 DEF m
      <4> DEFINE x == i + 3
                 y == i + n + 3
      <4>2. x \in Nat /\ y \in Nat /\ 1 <= x /\ x <= y + 1 /\ y <= Len(g.ascii)
              /\ y + 1 - x = n + 1
        BY <4>1
      <4>3. s = SubSeq(g.ascii, x, y) /\ \A k \in 1..(n + 1) : x + k - 1 = i + 3 + k - 1
        OBVIOUS
      <4> HIDE DEF x, y, s
      <4>4. s \in Seq(Bytes) /\ Len(s) = y + 1 - x
              /\ \A k \in 1..(y + 1 - x) : s[k] = g.ascii[x + k - 1]
        BY <1>s, <4>2, <4>3, Middle
      <4> QED
        BY <4>2, <4>3, <4>4, Zenon
    <3>3. n + 1 \in 1..(n + 1) /\ i + 3 + (n + 1) - 1 = i + n + 3
      BY <1>1
    <3> HIDE DEF s
    <3> QED
      BY <1>8, <2>1, <3>2, <3>3
  <2>3. << >> \o s = s
    BY <2>2, ConcatEmptySeq
  <2>4. h = v
    <3> DEFINE k == n + 1 - Len(<< >>)
    <3>1. Len(<< >>) = 0 /\ k = n + 1 /\ ~(m - (i + 2) < k)
            /\ (i + 2) + 1 = i + 3 /\ (i + 2) + k = i + n + 3 /\ (i + 2) + k + 1 = i + n + 4
      BY <1>1, <2>1, SMTT(30)
    <3> HIDE DEF k
    <3>2. [e EXCEPT !.sniffPacket = @ \o SubSeq(e.ascii, e.rp + 1, e.rp + k),
                    !.ascii = SubSeq(e.ascii, e.rp + k + 1, Len(e.ascii)),
                    !.rp = 0] = b
      <4>1. e.sniffPacket \o SubSeq(e.ascii, e.rp + 1, e.rp + k) = s
        BY <1>3, <2>3, <3>1, Zenon
      <4>2. SubSeq(e.ascii, e.rp + k + 1, Len(e.ascii)) = rest
        BY <1>3, <3>1, Zenon DEF m
      <4> QED
        BY <4>1, <4>2, Zenon
    <3>3. b.sniffPacket = s /\ b.sniffLength = n
      BY <1>1, <1>3, Zenon DEF e, a, Host
    <3>4. Len(e.ascii) - e.rp = m - (i + 2) /\ e.sniffLength + 1 - Len(e.sniffPacket) = k
      BY <1>3 DEF k, m
    <3>5. b.sniffPacket[b.sniffLength + 1] = End /\ Len(b.sniffPacket) = b.sniffLength + 1
      BY <2>2, <3>3, Zenon
    <3> HIDE DEF b, e, s, rest
    <3> QED
      BY <2>1, <3>1, <3>2, <3>4, <3>5, Zenon DEF SniffRecvDataAscii
  <2>5. /\ b.zep = g.zep /\ b.sniffSeqNum = g.sniffSeqNum /\ b.sniffLength = n
        /\ b.sniffPacket = s /\ b.ascii = rest /\ b.rp = 0
        /\ DOMAIN b = DOMAIN g /\ b.fd = g.fd
    BY <1>1, <1>3, Zenon DEF e, a, Host
  <2> HIDE DEF b
  <2>6. /\ v.zep = Append(b.zep, [seq |-> b.sniffSeqNum, data |-> ZepData(n, s)])
        /\ v.sniffSeqNum = b.sniffSeqNum + 1 /\ v.ascii = b.ascii /\ v.rp = b.rp
        /\ v.state = "ST_SniffSyncData" /\ v.fd = b.fd
    <3>1. /\ "zep" \in DOMAIN b /\ "sniffSeqNum" \in DOMAIN b /\ "ascii" \in DOMAIN b
          /\ "rp" \in DOMAIN b /\ "state" \in DOMAIN b /\ "fd" \in DOMAIN b
      BY <1>1, <2>5 DEF Host
    <3> HIDE DEF s, rest
    <3> QED
      BY <2>5, <3>1 DEF UdpSend
  <2> HIDE DEF s, rest, v
  <2>7. Delivered(g, h, i)
    BY <1>8, <2>1, <2>4, <2>5, <2>6 DEF Delivered, n, m, s, rest
  <2> QED
    BY <2>7 DEF h, z
<1> QED
  BY <1>5, <1>6, <1>7, <1>8

\* EV_RX_ASCII and EV_PL_LOOP while synchronising.
LEMMA SyncOutcome ==
  ASSUME NEW g, Typed(g), g.state = "ST_SniffSyncData"
  PROVE  LET h == SniffSyncData(g)
         IN  \/ Dropped(g, h)
             \/ \E i : Marked(g, i)
                         /\ (Awaited(g, h, i) \/ Skipped(g, h, i) \/ Delivered(g, h, i))
<1> DEFINE i == StartMarker(g)
           n == Len(g.ascii)
           z == [g EXCEPT !.sniffLength = 0]
           d == [z EXCEPT !.rp = 0, !.ascii = << >>]
           h == SniffSyncData(g)
<1>1. g \in Host /\ g.ascii \in Seq(Bytes) /\ n \in Nat /\ g.rp \in Nat
        /\ \A j \in 1..n : g.ascii[j] \in Nat
  <2>1. g \in Host /\ g.ascii \in Seq(Bytes) /\ g.rp \in Nat
    BY DEF Typed, Host
  <2>2. \A j \in 1..n : g.ascii[j] \in Bytes
    BY <2>1
  <2>3. Bytes \subseteq Nat
    BY Constants
  <2>4. \A j \in 1..n : g.ascii[j] \in Nat
    BY <2>2, <2>3, Zenon
  <2>5. n \in Nat
    BY <2>1
  <2> QED
    BY <2>1, <2>4, <2>5
<1>2. \/ i = n /\ \A j \in 1..n : j > g.rp => g.ascii[j] # Start
      \/ /\ i \in Nat /\ g.rp <= i /\ i + 1 <= n /\ g.ascii[i + 1] = Start
         /\ \A j \in 1..n : j > g.rp /\ j <= i => g.ascii[j] # Start
  BY <1>1, FirstMarker
<1>3. h = IF g.rp < n /\ i + 1 < n THEN SniffFrame(z, i) ELSE d
  <2> HIDE DEF SniffFrame, StartMarker
  <2> QED
    BY DEF SniffSyncData
<1> HIDE DEF i
<1>4. CASE g.rp < n /\ i + 1 < n
  <2>1. i \in Nat /\ g.rp <= i /\ i + 2 <= n /\ g.ascii[i + 1] = Start
          /\ \A j \in 1..n : j > g.rp /\ j <= i => g.ascii[j] # Start
    <3>1. i # n
      BY <1>1, <1>4
    <3> QED
      BY <1>1, <1>2, <1>4, <3>1
  <2>2. g.ascii[i + 2] \in Nat
    <3>1. i + 2 \in 1..n
      BY <1>1, <2>1
    <3> QED
      BY <1>1, <3>1
  <2>3. Marked(g, i)
    BY <2>1, <2>2 DEF Marked
  <2>4. h = SniffFrame(z, i)
    BY <1>3, <1>4
  <2> HIDE DEF h
  <2>5. Awaited(g, h, i) \/ Skipped(g, h, i) \/ Delivered(g, h, i)
    BY <2>3, <2>4, FrameOutcome
  <2> QED
    BY <2>3, <2>5 DEF h
<1>5. CASE ~(g.rp < n /\ i + 1 < n)
  <2>1. h = d
    BY <1>3, <1>5
  <2>2. Unsent(g, d) /\ d.ascii = << >> /\ d.rp = 0
    BY <1>1 DEF Unsent, Host
  <2>3. ASSUME NEW j \in 1..n, j > g.rp, g.ascii[j] = Start PROVE j = n
    BY <1>1, <1>2, <1>5, <2>3
  <2> HIDE DEF d, h
  <2>4. Dropped(g, h)
    BY <2>1, <2>2, <2>3 DEF Dropped
  <2> QED
    BY <2>4 DEF h
<1> QED
  BY <1>4, <1>5

-----------------------------------------------------------------------------
(* What the host holds of the stream, and what it has made of it.          *)

\* S is what is in gcf->ascii, and what is on the line behind it.
Shows(S, a, l) ==
  /\ Len(S) = Len(a) + Len(l)
  /\ \A i \in DOMAIN a : S[i].byte = a[i]
  /\ \A i \in DOMAIN l : S[Len(a) + i] = l[i]

\* The messages sent carry the frames of, in their order.
Sends(g, of, n) ==
  /\ of \in [DOMAIN g.zep -> 1..n]
  /\ \A i, j \in DOMAIN g.zep : i < j => of[i] < of[j]
  /\ \A i \in DOMAIN g.zep : g.zep[i].data = Expected(of[i])

Numbered(g) ==
  /\ g.zep \in Seq([seq : Nat, data : Seq(Bytes)])
  /\ g.sniffSeqNum = Len(g.zep)
  /\ \A i \in DOMAIN g.zep : g.zep[i].seq = i - 1

\* What is still to begin is later than what was sent.
Ahead(S, of) == \A i \in DOMAIN S : IsFirst(S[i]) => \A k \in DOMAIN of : of[k] < S[i].frame

SentOn(g, f) == \E i \in DOMAIN g.zep : g.zep[i].data = Expected(f)

\* The first byte of f is still to be looked at.
Pending(g, S, f) ==
  \E i \in 1..Len(g.ascii) : i > g.rp /\ IsFirst(S[i]) /\ S[i].frame = f

\* Frames that began are excused, sent, or still to be looked at; a start marker
\* that is the last byte there is, is noted; and what comes will be looked at.
Accounted(g, S, s) ==
  ~s.rolled =>
    /\ \A f \in s.begun : f \in s.excused \/ SentOn(g, f) \/ Pending(g, S, f)
    /\ g.ascii # << >> /\ IsFirst(S[Len(g.ascii)]) => S[Len(g.ascii)].frame \in s.marker
    /\ g.rp <= Len(g.ascii)

\* The host reads the stream S, of frames up to the n-th; live says that what
\* the sniffer says next will come behind it.
Reads(g, S, of, l, n, live, s) ==
  /\ Stretch(S) /\ Shows(S, g.ascii, l) /\ Upto(S, n)
  /\ live => Complete(S)
  /\ Sends(g, of, n) /\ Numbered(g)
  /\ Ahead(S, of) /\ Accounted(g, S, s)

InStep(g, l, n, live, s) == \E S, of : Reads(g, S, of, l, n, live, s)

\* The history behind a step that leaves the host synchronising.
Thrown(h, s) ==
  IF h.ascii = << >> THEN [s EXCEPT !.excused = @ \cup s.marker, !.marker = {}] ELSE s

\* The packet in a frame is what the message of the frame carries.
LEMMA ZepOfFrame ==
  ASSUME NEW a \in Seq(Bytes), NEW i \in Nat, NEW f \in DOMAIN Script,
         NEW n, n = MinLength + Len(Script[f]), i + n + 3 <= Len(a),
         \A j \in 1..(n + 3) : a[i + j] = FrameBytes(f)[j].byte
  PROVE  ZepData(n, SubSeq(a, i + 3, i + n + 3)) = Expected(f)
<1> DEFINE p == SubSeq(a, i + 3, i + n + 3)
           c == Script[f]
           m == Len(c)
           d == SubSeq(p, MinLength + 1, n)
<1>1. c \in Seq(Bytes) /\ m \in Nat /\ MinLength \in Nat /\ n = MinLength + m /\ n \in Nat
  BY SerialAssumption, SnifferAssumption
<1>2. \A k \in 1..m : FrameBytes(f)[MinLength + 2 + k].byte = c[k]
  BY FrameShape
<1> HIDE DEF m
<1>3. p \in Seq(Bytes) /\ Len(p) = n + 1 /\ \A k \in 1..(n + 1) : p[k] = a[i + 2 + k]
  <2> DEFINE x == i + 3
             y == i + n + 3
  <2>1. x \in Nat /\ y \in Nat /\ 1 <= x /\ x <= y + 1 /\ y <= Len(a) /\ y + 1 - x = n + 1
    BY <1>1
  <2>2. p = SubSeq(a, x, y) /\ \A k \in 1..(n + 1) : x + k - 1 = i + 2 + k
    BY <1>1
  <2> HIDE DEF x, y, p, c
  <2>3. p \in Seq(Bytes) /\ Len(p) = y + 1 - x
          /\ \A k \in 1..(y + 1 - x) : p[k] = a[x + k - 1]
    BY <2>1, <2>2, Middle
  <2> QED
    BY <2>1, <2>2, <2>3, Zenon
<1> HIDE DEF p
<1>4. d \in Seq(Bytes) /\ Len(d) = m /\ \A k \in 1..m : d[k] = p[MinLength + k]
  <2> DEFINE x == MinLength + 1
  <2>1. x \in Nat /\ n \in Nat /\ 1 <= x /\ x <= n + 1 /\ n <= Len(p) /\ n + 1 - x = m
    BY <1>1, <1>3
  <2>2. d = SubSeq(p, x, n) /\ \A k \in 1..m : x + k - 1 = MinLength + k
    BY <1>1
  <2>0. p \in Seq(Bytes)
    BY <1>3
  <2> HIDE DEF x, d, c
  <2>3. d \in Seq(Bytes) /\ Len(d) = n + 1 - x /\ \A k \in 1..(n + 1 - x) : d[k] = p[x + k - 1]
    BY <2>0, <2>1, <2>2, Middle, SMTT(30)
  <2> QED
    BY <2>1, <2>2, <2>3, Zenon
<1>5. ASSUME NEW k \in 1..m PROVE d[k] = c[k]
  <2>1. MinLength + k \in 1..(n + 1) /\ MinLength + 2 + k \in 1..(n + 3)
          /\ i + 2 + (MinLength + k) = i + (MinLength + 2 + k)
    BY <1>1
  <2>2. d[k] = a[i + (MinLength + 2 + k)]
    BY <1>3, <1>4, <2>1, Zenon
  <2>3. a[i + (MinLength + 2 + k)] = FrameBytes(f)[MinLength + 2 + k].byte
    BY <2>1, Zenon
  <2> QED
    BY <1>2, <2>2, <2>3, Zenon
<1>6. d = c
  <2>1. c \in Seq(Bytes) /\ Len(c) = m
    BY <1>1 DEF m
  <2> HIDE DEF d, c
  <2> QED
    BY <1>1, <1>4, <1>5, <2>1
<1> QED
  BY <1>1, <1>6, Zenon DEF ZepData, Expected, m, p

\* Of the frames of2, f is the only one that is not of them.
More(of2, of, f) == \A k \in DOMAIN of2 : of2[k] = f \/ \E j \in DOMAIN of : of2[k] = of[j]

\* The messages sent carry the frames of, and f.
SendsAlso(h, of, f, n) == \E of2 : Sends(h, of2, n) /\ More(of2, of, f)

\* A message more.
LEMMA SendsMore ==
  ASSUME NEW g, NEW h, NEW of, NEW n, Sends(g, of, n), Numbered(g), n \in Nat,
         NEW f \in 1..n, \A k \in DOMAIN of : of[k] < f,
         NEW d \in Seq(Bytes), d = Expected(f),
         h.zep = Append(g.zep, [seq |-> g.sniffSeqNum, data |-> d]),
         h.sniffSeqNum = g.sniffSeqNum + 1
  PROVE  /\ Numbered(h) /\ SentOn(h, f) /\ \A e : SentOn(g, e) => SentOn(h, e)
         /\ SendsAlso(h, of, f, n)
<1> DEFINE z == g.zep
           m == Len(z)
           x == [seq |-> g.sniffSeqNum, data |-> d]
           of2 == [k \in 1..(m + 1) |-> IF k = m + 1 THEN f ELSE of[k]]
<1>1. /\ z \in Seq([seq : Nat, data : Seq(Bytes)]) /\ m \in Nat /\ DOMAIN z = 1..m
      /\ g.sniffSeqNum = m /\ \A i \in 1..m : z[i].seq = i - 1
  BY DEF Numbered
<1>2. x \in [seq : Nat, data : Seq(Bytes)] /\ x.seq = m /\ x.data = d
  BY <1>1
<1>3. /\ of \in [1..m -> 1..n] /\ \A i, j \in 1..m : i < j => of[i] < of[j]
      /\ \A i \in 1..m : z[i].data = Expected(of[i])
  BY <1>1, Zenon DEF Sends
<1> HIDE DEF x, m, z
<1>4. /\ h.zep \in Seq([seq : Nat, data : Seq(Bytes)]) /\ Len(h.zep) = m + 1
      /\ DOMAIN h.zep = 1..(m + 1)
      /\ \A i \in 1..m : h.zep[i] = z[i]
      /\ h.zep[m + 1] = x
  BY <1>1, <1>2 DEF x, m, z
<1>5. ASSUME NEW i \in 1..(m + 1), i # m + 1 PROVE i \in 1..m
  BY <1>1, <1>5
<1>6. Numbered(h)
  <2>1. h.sniffSeqNum = m + 1
    BY <1>1
  <2>2. ASSUME NEW i \in 1..(m + 1) PROVE h.zep[i].seq = i - 1
    <3>1. CASE i = m + 1
      BY <1>1, <1>2, <1>4, <3>1
    <3>2. CASE i # m + 1
      <4>1. i \in 1..m /\ h.zep[i] = z[i] /\ z[i].seq = i - 1
        BY <1>1, <1>4, <1>5, <3>2, Zenon
      <4> QED
        BY <4>1, Zenon
    <3> QED
      BY <3>1, <3>2, Zenon
  <2> QED
    BY <1>4, <2>1, <2>2, Zenon DEF Numbered
<1>7. SentOn(h, f) /\ \A e : SentOn(g, e) => SentOn(h, e)
  <2>1. m + 1 \in 1..(m + 1) /\ 1..m \subseteq 1..(m + 1)
    BY <1>1
  <2>2. SentOn(h, f)
    BY <1>2, <1>4, <2>1 DEF SentOn
  <2>3. ASSUME NEW e, SentOn(g, e) PROVE SentOn(h, e)
    <3>1. PICK i \in 1..m : z[i].data = Expected(e)
      BY <1>1, <2>3, Zenon DEF SentOn, z
    <3> QED
      BY <1>4, <2>1, <3>1, Zenon DEF SentOn
  <2> QED
    BY <2>2, <2>3
<1>8. /\ of2 \in [1..(m + 1) -> 1..n] /\ of2[m + 1] = f
      /\ \A i \in 1..m : of2[i] = of[i]
  BY <1>1, <1>3, <1>5
<1> HIDE DEF of2
<1>9. Sends(h, of2, n)
  <2>1. ASSUME NEW i \in 1..(m + 1), NEW j \in 1..(m + 1), i < j PROVE of2[i] < of2[j]
    <3>1. i \in 1..m
      BY <1>1, <2>1
    <3> QED
      BY <1>3, <1>5, <1>8, <2>1, <3>1
  <2>2. ASSUME NEW i \in 1..(m + 1) PROVE h.zep[i].data = Expected(of2[i])
    BY <1>2, <1>3, <1>4, <1>5, <1>8, Zenon
  <2> QED
    BY <1>4, <1>8, <2>1, <2>2, Zenon DEF Sends
<1>10. More(of2, of, f)
  BY <1>3, <1>5, <1>8 DEF More
<1> QED
  BY <1>6, <1>7, <1>9, <1>10 DEF SendsAlso

\* What is sent is sent, whatever else changes.
LEMMA SendsSame ==
  ASSUME NEW g, NEW h, h.zep = g.zep, h.sniffSeqNum = g.sniffSeqNum
  PROVE  /\ \A of, n : Sends(g, of, n) => Sends(h, of, n)
         /\ Numbered(g) => Numbered(h)
         /\ \A f : SentOn(g, f) <=> SentOn(h, f)
  BY DEF Sends, Numbered, SentOn

\* The start of a stream is cut off.
LEMMA ReadsTail ==
  ASSUME NEW S, NEW l, NEW of, NEW n, NEW live, NEW c \in Nat, c <= Len(S),
         Stretch(S), Upto(S, n), live => Complete(S), Ahead(S, of)
  PROVE  LET R == SubSeq(S, c + 1, Len(S))
         IN  /\ Stretch(R) /\ Upto(R, n) /\ (live => Complete(R)) /\ Ahead(R, of)
             /\ Len(R) = Len(S) - c /\ DOMAIN R = 1..(Len(S) - c)
             /\ \A i \in 1..(Len(S) - c) : R[i] = S[i + c]
<1> DEFINE R == SubSeq(S, c + 1, Len(S))
           x == c + 1
           y == Len(S)
<1>1. S \in Seq(Sniffed) /\ y \in Nat
  BY DEF Stretch
<1>2. x \in Nat /\ 1 <= x /\ x <= y + 1 /\ y + 1 - x = y - c /\ R = SubSeq(S, x, y)
        /\ \A k \in 1..(y - c) : x + k - 1 = k + c
  BY <1>1
<1>3. S \in Seq(Sniffed)
  BY <1>1
<1> HIDE DEF R, x
<1>4. R \in Seq(Sniffed) /\ Len(R) = y + 1 - x
        /\ \A k \in 1..(y + 1 - x) : R[k] = S[x + k - 1]
  <2> HIDE DEF y
  <2>1. y <= Len(S)
    BY <1>1 DEF y
  <2> QED
    BY <1>1, <1>2, <1>3, <2>1, Middle
<1>5. R \in Seq(Sniffed) /\ Len(R) = y - c /\ DOMAIN R = 1..(y - c)
        /\ \A k \in 1..(y - c) : R[k] = S[k + c]
  BY <1>2, <1>4
<1>6. Stretch(R) /\ Upto(R, n) /\ (live => Complete(R))
  <2>1. Len(R) + c = Len(S) /\ \A k \in DOMAIN R : R[k] = S[k + c]
    BY <1>1, <1>5
  <2>2. R \in Seq(Sniffed) /\ Len(R) + c <= Len(S)
    BY <1>1, <1>5, <2>1
  <2>3. /\ Stretch(R)
        /\ \A k : Upto(S, k) => Upto(R, k)
        /\ Len(R) + c = Len(S) /\ Complete(S) => Complete(R)
    BY <2>1, <2>2, StretchPart, Zenon
  <2> QED
    BY <2>1, <2>3
<1>7. Ahead(R, of)
  <2>1. \A k \in DOMAIN R : k + c \in DOMAIN S
    BY <1>1, <1>5
  <2> QED
    BY <1>5, <2>1 DEF Ahead
<1> QED
  BY <1>5, <1>6, <1>7 DEF R, y

\* What is left in gcf->ascii is shown by what is left of the stream.
LEMMA ShowsTail ==
  ASSUME NEW S, NEW a \in Seq(Bytes), NEW l \in Seq(Sniffed), S \in Seq(Sniffed), Shows(S, a, l),
         NEW c \in Nat, c <= Len(a), NEW b \in Seq(Bytes), Len(b) = Len(a) - c,
         \A i \in DOMAIN b : b[i] = a[i + c],
         NEW R, Len(R) = Len(S) - c, \A i \in 1..(Len(S) - c) : R[i] = S[i + c]
  PROVE  Shows(R, b, l)
<1>0. /\ Len(a) \in Nat /\ Len(l) \in Nat /\ DOMAIN b = 1..(Len(a) - c)
      /\ DOMAIN a = 1..Len(a) /\ DOMAIN l = 1..Len(l)
  OBVIOUS
<1>1. /\ Len(S) = Len(a) + Len(l) /\ Len(a) \in Nat /\ Len(l) \in Nat /\ DOMAIN b = 1..(Len(a) - c)
      /\ \A i \in 1..Len(a) : S[i].byte = a[i]
      /\ DOMAIN l = 1..Len(l) /\ \A i \in 1..Len(l) : S[Len(a) + i] = l[i]
  BY <1>0, Zenon DEF Shows
<1>2. ASSUME NEW i \in DOMAIN b PROVE R[i].byte = b[i]
  <2>1. i \in 1..(Len(S) - c) /\ i + c \in 1..Len(a)
    BY <1>1
  <2> QED
    BY <1>1, <2>1, Zenon
<1>3. ASSUME NEW i \in DOMAIN l PROVE R[Len(b) + i] = l[i]
  <2>1. Len(b) + i \in 1..(Len(S) - c) /\ (Len(b) + i) + c = Len(a) + i
    BY <1>1
  <2> QED
    BY <1>1, <2>1, Zenon
<1>4. Len(R) = Len(b) + Len(l)
  BY <1>1
<1> QED
  BY <1>2, <1>3, <1>4 DEF Shows

\* A start marker in gcf->ascii that is the first byte of a frame.
LEMMA FirstInAscii ==
  ASSUME NEW S, NEW a \in Seq(Bytes), NEW l \in Seq(Sniffed), Stretch(S), Shows(S, a, l),
         NEW j \in 1..Len(a), IsFirst(S[j])
  PROVE  LET f == S[j].frame
             n == MinLength + Len(Script[f])
         IN  /\ f \in DOMAIN Script /\ n \in Nat /\ n >= MinLength
             /\ a[j] = Start
             /\ j + 1 <= Len(a) => a[j + 1] = n
             /\ j + n + 2 <= Len(a) => a[j + n + 2] = End
<1> DEFINE f == S[j].frame
           n == MinLength + Len(Script[f])
           w == FrameBytes(f)
<1>1. /\ S \in Seq(Sniffed) /\ Len(a) \in Nat /\ DOMAIN a = 1..Len(a) /\ 1..Len(a) \subseteq DOMAIN S
      /\ \A i \in 1..Len(a) : S[i].byte = a[i]
  BY DEF Shows, Stretch
<1>2. /\ f \in DOMAIN Script /\ n \in Nat /\ n >= MinLength /\ S[j].byte = Start
      /\ \A i \in DOMAIN S : j < i /\ i <= j + n + 2 => S[i] = w[1 + (i - j)]
  <2>1. j \in DOMAIN S
    BY <1>1
  <2> QED
    BY <2>1, FirstByte
<1> HIDE DEF w, n, f
<1>3. w[2].byte = n /\ w[n + 3].byte = End
  <2>1. ASSUME NEW e \in DOMAIN Script
        PROVE  /\ FrameBytes(e)[2].byte = MinLength + Len(Script[e])
               /\ FrameBytes(e)[MinLength + Len(Script[e]) + 3].byte = End
    BY FrameShape
  <2>2. f \in DOMAIN Script
    BY <1>2
  <2> QED
    BY <2>1, <2>2 DEF w, n
<1>4. ASSUME j + 1 <= Len(a) PROVE a[j + 1] = n
  <2>0. n \in Nat /\ Len(a) \in Nat
    BY <1>1, <1>2
  <2>1. j + 1 \in 1..Len(a) /\ j < j + 1 /\ j + 1 <= j + n + 2 /\ 1 + ((j + 1) - j) = 2
    BY <1>4, <2>0
  <2>2. S[j + 1] = w[2]
    BY <1>1, <1>2, <2>1, Zenon
  <2> QED
    BY <1>1, <1>3, <2>1, <2>2, Zenon
<1>5. ASSUME j + n + 2 <= Len(a) PROVE a[j + n + 2] = End
  <2>1. j + n + 2 \in 1..Len(a) /\ j < j + n + 2 /\ 1 + ((j + n + 2) - j) = n + 3
          /\ j + n + 2 <= j + n + 2
    <3>1. n \in Nat /\ Len(a) \in Nat
      BY <1>1, <1>2
    <3> QED
      BY <1>5, <3>1
  <2>2. S[j + n + 2] = w[n + 3]
    BY <1>1, <1>2, <2>1, Zenon
  <2> QED
    BY <1>1, <1>3, <2>1, <2>2
<1>6. a[j] = Start
  BY <1>1, <1>2
<1> QED
  BY <1>2, <1>4, <1>5, <1>6 DEF n, f

\* Nothing to be found: all that began and was not sent is the last byte.
LEMMA DroppedKeeps ==
  ASSUME NEW g, NEW h, NEW l \in Seq(Sniffed), NEW S, NEW of, NEW n, NEW live, NEW s,
         g.ascii \in Seq(Bytes), g.rp \in Nat, SeenIn(s),
         Reads(g, S, of, l, n, live, s), Dropped(g, h)
  PROVE  InStep(h, l, n, live, Thrown(h, s))
<1> DEFINE m == Len(g.ascii)
           R == SubSeq(S, m + 1, Len(S))
           x == Thrown(h, s)
<1>1. /\ Stretch(S) /\ Shows(S, g.ascii, l) /\ Upto(S, n) /\ (live => Complete(S))
      /\ Sends(g, of, n) /\ Numbered(g) /\ Ahead(S, of) /\ Accounted(g, S, s)
      /\ S \in Seq(Sniffed) /\ m \in Nat /\ m <= Len(S)
  BY DEF Reads, Shows, Stretch
<1>2. h.zep = g.zep /\ h.sniffSeqNum = g.sniffSeqNum /\ h.ascii = << >> /\ h.rp = 0
        /\ \A j \in 1..m : j > g.rp /\ g.ascii[j] = Start => j = m
  BY DEF Dropped, Unsent
<1>3. x = [s EXCEPT !.excused = @ \cup s.marker, !.marker = {}]
  BY <1>2 DEF Thrown
<1>4. x.rolled = s.rolled /\ x.begun = s.begun /\ x.excused = s.excused \cup s.marker
  BY <1>3 DEF SeenIn
<1>5. /\ Stretch(R) /\ Upto(R, n) /\ (live => Complete(R)) /\ Ahead(R, of)
      /\ Len(R) = Len(S) - m /\ \A i \in 1..(Len(S) - m) : R[i] = S[i + m]
  BY <1>1, ReadsTail, ZenonT(40)
<1> HIDE DEF R, x
<1>6. Shows(R, h.ascii, l)
  <2> DEFINE b == << >>
  <2>1. b \in Seq(Bytes) /\ Len(b) = Len(g.ascii) - m /\ m <= Len(g.ascii)
          /\ \A i \in DOMAIN b : b[i] = g.ascii[i + m]
    BY <1>1
  <2> HIDE DEF b, m
  <2>3. /\ S \in Seq(Sniffed) /\ Shows(S, g.ascii, l) /\ m \in Nat
        /\ Len(R) = Len(S) - m /\ \A i \in 1..(Len(S) - m) : R[i] = S[i + m]
    BY <1>1, <1>5
  <2>2. Shows(R, b, l)
    BY <2>1, <2>3, ShowsTail, Zenon
  <2> QED
    BY <1>2, <2>2 DEF b
<1>7. Sends(h, of, n) /\ Numbered(h)
  BY <1>1, <1>2, SendsSame
<1>8. Accounted(h, R, x)
  <2> SUFFICES ASSUME ~s.rolled, NEW f \in s.begun
               PROVE  f \in s.excused \cup s.marker \/ SentOn(h, f)
    <3>1. Len(<< >>) = 0
      OBVIOUS
    <3> QED
      BY <1>2, <1>4, <3>1 DEF Accounted
  <2>1. f \in s.excused \/ SentOn(g, f) \/ Pending(g, S, f)
    BY <1>1 DEF Accounted
  <2>2. SentOn(g, f) => SentOn(h, f)
    BY <1>2, SendsSame
  <2>3. ASSUME Pending(g, S, f) PROVE f \in s.marker
    <3>1. PICK i \in 1..m : i > g.rp /\ IsFirst(S[i]) /\ S[i].frame = f
      BY <2>3 DEF Pending
    <3>2. g.ascii[i] = Start
      BY <1>1, <3>1, FirstInAscii
    <3>3. i = m /\ g.ascii # << >>
      BY <1>1, <1>2, <3>1, <3>2
    <3> QED
      BY <1>1, <3>1, <3>3 DEF Accounted
  <2> QED
    BY <2>1, <2>2, <2>3
<1> QED
  BY <1>5, <1>6, <1>7, <1>8 DEF InStep, Reads, x

\* A start marker is waited for or passed over: it is not passed over if it is
\* the first byte of a frame.
LEMMA LookedAtKeeps ==
  ASSUME NEW g, NEW h, NEW l \in Seq(Sniffed), NEW S, NEW of, NEW n, NEW live, NEW s,
         g.ascii \in Seq(Bytes), g.rp \in Nat, SeenIn(s),
         Reads(g, S, of, l, n, live, s),
         NEW i, Marked(g, i), Awaited(g, h, i) \/ Skipped(g, h, i)
  PROVE  InStep(h, l, n, live, Thrown(h, s))
<1> DEFINE m == Len(g.ascii)
<1>1. /\ Stretch(S) /\ Shows(S, g.ascii, l) /\ Upto(S, n) /\ (live => Complete(S))
      /\ Sends(g, of, n) /\ Numbered(g) /\ Ahead(S, of) /\ Accounted(g, S, s)
      /\ m \in Nat
  BY DEF Reads
<1>2. /\ h.zep = g.zep /\ h.sniffSeqNum = g.sniffSeqNum /\ h.ascii = g.ascii
      /\ h.rp \in {i, i + 1}
  BY DEF Awaited, Skipped, Unsent
<1>3. /\ i \in Nat /\ i + 2 <= m
      /\ \A j \in 1..m : j > g.rp /\ j <= i => g.ascii[j] # Start
  BY DEF Marked
<1>4. Thrown(h, s) = s
  <2>1. h.ascii # << >>
    BY <1>2, <1>3
  <2> QED
    BY <2>1 DEF Thrown
<1>5. Sends(h, of, n) /\ Numbered(h)
  BY <1>1, <1>2, SendsSame
<1>6. ASSUME NEW j \in 1..m, j > g.rp, IsFirst(S[j])
      PROVE  j > h.rp
  <2> DEFINE f == S[j].frame
             k == MinLength + Len(Script[f])
  <2>1. /\ k \in Nat /\ k >= MinLength
        /\ g.ascii[j] = Start
        /\ j + 1 <= m => g.ascii[j + 1] = k
        /\ j + k + 2 <= m => g.ascii[j + k + 2] = End
    BY <1>1, <1>6, FirstInAscii, Zenon
  <2> HIDE DEF k
  <2>2. j > i
    BY <1>1, <1>3, <1>6, <2>1
  <2>3. ASSUME j = i + 1, h.rp = i + 1 PROVE FALSE
    <3>1. Skipped(g, h, i)
      BY <1>3, <2>3 DEF Awaited
    <3>2. g.ascii[i + 2] = k
      <4>1. j + 1 = i + 2
        BY <1>3, <2>3
      <4> QED
        BY <1>3, <2>1, <4>1
    <3>3. k < MinLength \/ (i + k + 3 <= m /\ g.ascii[i + k + 3] # End)
      BY <3>1, <3>2 DEF Skipped
    <3>4. j + k + 2 = i + k + 3
      BY <1>3, <2>1, <2>3
    <3> QED
      BY <2>1, <3>3, <3>4, Constants
  <2> QED
    BY <1>1, <1>2, <1>3, <2>2, <2>3
<1>7. Accounted(h, S, s)
  <2> SUFFICES ASSUME ~s.rolled PROVE
                 /\ \A f \in s.begun : f \in s.excused \/ SentOn(h, f) \/ Pending(h, S, f)
                 /\ h.ascii # << >> /\ IsFirst(S[Len(h.ascii)]) =>
                      S[Len(h.ascii)].frame \in s.marker
                 /\ h.rp <= Len(h.ascii)
    BY DEF Accounted
  <2>1. ASSUME NEW f, Pending(g, S, f) PROVE Pending(h, S, f)
    BY <1>2, <1>6, <2>1 DEF Pending
  <2>2. \A f : SentOn(g, f) => SentOn(h, f)
    BY <1>2, SendsSame
  <2>3. h.rp <= m
    BY <1>1, <1>2, <1>3
  <2> QED
    BY <1>1, <1>2, <2>1, <2>2, <2>3 DEF Accounted
<1> QED
  BY <1>1, <1>2, <1>4, <1>5, <1>7 DEF InStep, Reads

\* What gcf->ascii and the line show of the stream.
LEMMA ShownBytes ==
  ASSUME NEW S, NEW a \in Seq(Bytes), NEW l \in Seq(Sniffed), Stretch(S), Shows(S, a, l)
  PROVE  /\ S \in Seq(Sniffed) /\ Len(a) \in Nat /\ Len(l) \in Nat
         /\ Len(S) = Len(a) + Len(l) /\ DOMAIN S = 1..Len(S)
         /\ DOMAIN a = 1..Len(a) /\ 1..Len(a) \subseteq DOMAIN S
         /\ \A k \in 1..Len(a) : S[k].byte = a[k]
<1>1. S \in Seq(Sniffed) /\ Len(a) \in Nat /\ Len(l) \in Nat /\ DOMAIN a = 1..Len(a)
        /\ DOMAIN S = 1..Len(S)
  BY DEF Stretch
<1>2. Len(S) = Len(a) + Len(l) /\ \A k \in 1..Len(a) : S[k].byte = a[k]
  BY <1>1, Zenon DEF Shows
<1> QED
  BY <1>1, <1>2

\* What looks like a frame is one, if nothing else does.
LEMMA DeliveredIsFrame ==
  ASSUME Unmistakable, NEW S, NEW a \in Seq(Bytes), NEW l \in Seq(Sniffed), Stretch(S),
         Shows(S, a, l), NEW i \in Nat, i + 2 <= Len(a), a[i + 1] = Start,
         NEW n \in Nat, n = a[i + 2], n >= MinLength, i + n + 3 <= Len(a), a[i + n + 3] = End
  PROVE  /\ i + 1 \in 1..Len(a) /\ IsFirst(S[i + 1])
         /\ n = MinLength + Len(Script[S[i + 1].frame])
<1>1. /\ S \in Seq(Sniffed) /\ Len(a) \in Nat /\ DOMAIN a = 1..Len(a) /\ 1..Len(a) \subseteq DOMAIN S
      /\ \A k \in 1..Len(a) : S[k].byte = a[k]
  BY ShownBytes, Zenon
<1>2. /\ i + 1 \in 1..Len(a) /\ i + 2 \in 1..Len(a) /\ i + n + 3 \in 1..Len(a)
      /\ (i + 1) + 1 = i + 2 /\ (i + 1) + 2 + n = i + n + 3
  BY <1>1
<1>3. S[i + 1].byte = Start /\ S[i + 2].byte = n /\ S[i + n + 3].byte = End
  BY <1>1, <1>2, Zenon
<1>4. S[i + 1].at = 1
  <2>1. Legible(S)
    BY DEF Unmistakable
  <2> SUFFICES ASSUME S[i + 1].at # 1 PROVE FALSE
    BY Zenon
  <2>2. LET length == S[(i + 1) + 1].byte
        IN  length >= MinLength /\ (i + 1) + 2 + length \in DOMAIN S =>
              S[(i + 1) + 2 + length].byte # End
    BY <1>1, <1>2, <1>3, <2>1, Zenon DEF Legible
  <2> QED
    BY <1>1, <1>2, <1>3, <2>2, Zenon
<1>5. S[i + 1].frame # 0
  <2>1. /\ S[i + 1].frame \in 0..Len(Script) /\ S[i + 1] = Word(S[i + 1].frame)[S[i + 1].at]
        /\ S[i + 1].at \in 1..Len(Word(S[i + 1].frame))
    BY <1>1, <1>2, StretchByte, Zenon
  <2> SUFFICES ASSUME S[i + 1].frame = 0 PROVE FALSE
    BY Zenon
  <2>2. Word(0) = Said(<<O, K>>)
    BY DEF Word
  <2>3. Word(0)[1].byte # Start
    <3>1. 1 \in DOMAIN <<O, K>> /\ <<O, K>>[1] = O /\ O # Start
      BY DEF O, Start
    <3>2. Said(<<O, K>>)[1].byte = <<O, K>>[1]
      BY <3>1 DEF Said
    <3> QED
      BY <2>2, <3>1, <3>2, Zenon
  <2> QED
    BY <1>3, <1>4, <2>1, <2>3
<1>6. IsFirst(S[i + 1])
  BY <1>4, <1>5 DEF IsFirst
<1>7. n = MinLength + Len(Script[S[i + 1].frame])
  <2>1. a[(i + 1) + 1] = MinLength + Len(Script[S[i + 1].frame])
    <3>1. (i + 1) + 1 <= Len(a)
      BY <1>1
    <3> QED
      BY <1>2, <1>6, <3>1, FirstInAscii
  <2> QED
    BY <1>2, <2>1
<1> QED
  BY <1>2, <1>6, <1>7

\* A frame is sent.
LEMMA DeliveredKeeps ==
  ASSUME Unmistakable, NEW g, NEW h, NEW l \in Seq(Sniffed), NEW S, NEW of, NEW n \in Nat,
         NEW live, NEW s,
         g.ascii \in Seq(Bytes), g.rp \in Nat, SeenIn(s),
         Reads(g, S, of, l, n, live, s),
         NEW i, Marked(g, i), Delivered(g, h, i)
  PROVE  InStep(h, l, n, live, Thrown(h, s))
<1> DEFINE a == g.ascii
           m == Len(a)
           k == a[i + 2]
           c == i + k + 3
           R == SubSeq(S, c + 1, Len(S))
           b == SubSeq(a, i + k + 4, m)
           p == SubSeq(a, i + 3, i + k + 3)
           f == S[i + 1].frame
           x == Thrown(h, s)
<1>1. /\ Stretch(S) /\ Shows(S, a, l) /\ Upto(S, n) /\ (live => Complete(S))
      /\ Sends(g, of, n) /\ Numbered(g) /\ Ahead(S, of) /\ Accounted(g, S, s)
  BY DEF Reads
<1>2. /\ i \in Nat /\ i + 2 <= m /\ a[i + 1] = Start /\ k \in Nat
      /\ \A j \in 1..m : j > g.rp /\ j <= i => a[j] # Start
  BY DEF Marked
<1>3. k >= MinLength /\ c <= m /\ a[c] = End
  BY DEF Delivered
<1>4. /\ h.zep = Append(g.zep, [seq |-> g.sniffSeqNum, data |-> ZepData(k, p)])
      /\ h.sniffSeqNum = g.sniffSeqNum + 1 /\ h.ascii = b /\ h.rp = 0
  BY DEF Delivered
<1>5. /\ S \in Seq(Sniffed) /\ m \in Nat /\ DOMAIN a = 1..m /\ Len(S) = m + Len(l)
      /\ Len(l) \in Nat /\ 1..m \subseteq DOMAIN S /\ DOMAIN S = 1..Len(S) /\ a \in Seq(Bytes)
      /\ \A j \in 1..m : S[j].byte = a[j]
  BY <1>1, ShownBytes
<1>6. c \in Nat /\ i + 1 <= c /\ c <= Len(S) /\ i + k + 4 = c + 1 /\ MinLength \in Nat
        /\ c = i + k + 3 /\ c <= m
  <2>1. i \in Nat /\ k \in Nat /\ m \in Nat /\ c <= m /\ Len(S) = m + Len(l) /\ Len(l) \in Nat
    BY <1>2, <1>3, <1>5
  <2>2. MinLength \in Nat
    BY Constants
  <2> HIDE DEF k, m
  <2> QED
    BY <2>1, <2>2
<1>7. b \in Seq(Bytes) /\ Len(b) = m - c /\ DOMAIN b = 1..(m - c)
        /\ \A j \in 1..(m - c) : b[j] = a[j + c]
  <2> DEFINE y == c + 1
  <2>1. y \in Nat /\ 1 <= y /\ y <= m + 1 /\ m <= Len(a) /\ m + 1 - y = m - c
          /\ \A j \in 1..(m - c) : y + j - 1 = j + c
    <3>1. m \in Nat /\ c \in Nat /\ c <= m /\ m = Len(a)
      BY <1>5, <1>6
    <3> HIDE DEF m, c, a
    <3> QED
      BY <3>1
  <2>2. b = SubSeq(a, y, m) /\ a \in Seq(Bytes)
    BY <1>5, <1>6, Zenon
  <2>5. m \in Nat /\ c \in Nat /\ c <= m
    BY <1>3, <1>5, <1>6
  <2> HIDE DEF a, b, c, m, y
  <2>3. b \in Seq(Bytes) /\ Len(b) = m + 1 - y /\ \A j \in 1..(m + 1 - y) : b[j] = a[y + j - 1]
    BY <2>1, <2>2, <2>5, Middle
  <2> QED
    BY <2>1, <2>3
<1>8. /\ i + 1 \in 1..m /\ IsFirst(S[i + 1]) /\ k = MinLength + Len(Script[f])
  <2>1. k = a[i + 2]
    OBVIOUS
  <2> HIDE DEF a, k
  <2>2. i + k + 3 <= Len(a) /\ a[i + k + 3] = End /\ i + 2 <= Len(a)
    BY <1>2, <1>3
  <2> QED
    BY <1>1, <1>2, <1>3, <1>5, <2>1, <2>2, DeliveredIsFrame, ZenonT(40)
<1> HIDE DEF k
<1>9. /\ f \in DOMAIN Script
      /\ \A j \in DOMAIN S : i + 1 < j /\ j <= c =>
           S[j] = FrameBytes(f)[1 + (j - (i + 1))] /\ ~IsFirst(S[j])
      /\ \A j \in DOMAIN S : j > c /\ IsFirst(S[j]) => f < S[j].frame
      /\ S[i + 1] = FrameBytes(f)[1]
  <2>1. (i + 1) + (MinLength + Len(Script[f])) + 2 = c
    <3>1. i \in Nat /\ k \in Nat /\ c = i + k + 3
      BY <1>2, <1>6
    <3>2. k = MinLength + Len(Script[f])
      BY <1>8
    <3> HIDE DEF f, c, a, m
    <3>3. (i + 1) + k + 2 = c
      BY <3>1
    <3> QED
      BY <3>2, <3>3
  <2>2. i + 1 \in DOMAIN S
    BY <1>5, <1>8
  <2>3. f # 0 /\ S[i + 1].at = 1 /\ S[i + 1] = Word(f)[S[i + 1].at]
    BY <1>1, <1>8, <2>2, StretchByte, Zenon DEF IsFirst
  <2>4. S[i + 1] = FrameBytes(f)[1]
    BY <2>3 DEF Word
  <2> HIDE DEF c, f
  <2> QED
    BY <1>1, <1>8, <2>1, <2>2, <2>4, FirstByte, Zenon DEF f
<1>10. f \in 1..n /\ \A j \in DOMAIN of : of[j] < f
  <2>1. i + 1 \in DOMAIN S
    BY <1>5, <1>8
  <2>2. f \in Nat /\ f >= 1
    BY <1>9, SerialAssumption
  <2> HIDE DEF f
  <2>3. f <= n
    BY <1>1, <2>1 DEF Upto, f
  <2>4. \A j \in DOMAIN of : of[j] < f
    BY <1>1, <1>8, <2>1 DEF Ahead, f
  <2> QED
    BY <2>2, <2>3, <2>4
\* The message carries the frame.
<1>11. ZepData(k, p) = Expected(f) /\ ZepData(k, p) \in Seq(Bytes)
  <2>1. \A j \in 1..(k + 3) : a[i + j] = FrameBytes(f)[j].byte
    <3> SUFFICES ASSUME NEW j \in 1..(k + 3) PROVE S[i + j] = FrameBytes(f)[j] /\ i + j \in 1..m
      BY <1>5, Zenon
    <3>1. i + j \in 1..m /\ i + j \in DOMAIN S
      BY <1>2, <1>3, <1>5
    <3>2. CASE j = 1
      BY <1>9, <3>1, <3>2
    <3>3. CASE j # 1
      <4>1. i + 1 < i + j /\ i + j <= c /\ 1 + ((i + j) - (i + 1)) = j
        BY <1>2, <3>3
      <4> QED
        BY <1>9, <3>1, <4>1
    <3> QED
      BY <3>2, <3>3
  <2>2. i + k + 3 <= Len(a)
    BY <1>3
  <2>3. ZepData(k, p) = Expected(f)
    <3>1. a \in Seq(Bytes) /\ i \in Nat /\ f \in DOMAIN Script
      BY <1>2, <1>5, <1>9
    <3>2. k = MinLength + Len(Script[f])
      BY <1>8
    <3>3. p = SubSeq(a, i + 3, i + k + 3)
      OBVIOUS
    <3> HIDE DEF a, f, p
    <3> QED
      BY <2>1, <2>2, <3>1, <3>2, <3>3, ZepOfFrame
  <2>4. Script[f] \in Seq(Bytes) /\ << >> \in Seq(Bytes)
    BY <1>9, SerialAssumption
  <2>5. Expected(f) \in Seq(Bytes)
    BY <2>4 DEF Expected
  <2> QED
    BY <2>3, <2>5
<1>12. /\ Numbered(h) /\ SentOn(h, f) /\ \A e : SentOn(g, e) => SentOn(h, e)
       /\ SendsAlso(h, of, f, n)
  <2> DEFINE d == ZepData(k, p)
  <2>1. d \in Seq(Bytes) /\ d = Expected(f)
           /\ h.zep = Append(g.zep, [seq |-> g.sniffSeqNum, data |-> d])
           /\ h.sniffSeqNum = g.sniffSeqNum + 1
    BY <1>4, <1>11
  <2>2. Sends(g, of, n) /\ Numbered(g) /\ f \in 1..n /\ \A j \in DOMAIN of : of[j] < f
    BY <1>1, <1>10
  <2> HIDE DEF d, f, p, k, m, a
  <2>3. Numbered(h) /\ SentOn(h, f)
    BY <2>1, <2>2, SendsMore, Zenon
  <2>4. \A e : SentOn(g, e) => SentOn(h, e)
    BY <2>1, <2>2, SendsMore, Zenon
  <2>5. SendsAlso(h, of, f, n)
    BY <2>1, <2>2, SendsMore, Zenon
  <2> QED
    BY <2>3, <2>4, <2>5
<1>13. PICK of2 : Sends(h, of2, n) /\ More(of2, of, f)
  BY <1>12 DEF SendsAlso
\* What is left of the stream.
<1>14. /\ Stretch(R) /\ Upto(R, n) /\ (live => Complete(R)) /\ Ahead(R, of)
       /\ Len(R) = Len(S) - c /\ DOMAIN R = 1..(Len(S) - c)
       /\ \A j \in 1..(Len(S) - c) : R[j] = S[j + c]
  <2>1. /\ c \in Nat /\ c <= Len(S) /\ Stretch(S) /\ Upto(S, n) /\ (live => Complete(S))
        /\ Ahead(S, of) /\ R = SubSeq(S, c + 1, Len(S))
    BY <1>1, <1>6
  <2> HIDE DEF c, R
  <2> QED
    BY <2>1, ReadsTail
<1> HIDE DEF R
<1>15. Shows(R, b, l)
  <2>1. c <= Len(a) /\ Len(b) = Len(a) - c /\ \A j \in DOMAIN b : b[j] = a[j + c]
    BY <1>3, <1>7, Zenon
  <2> HIDE DEF a, b, c
  <2> QED
    BY <1>1, <1>5, <1>6, <1>7, <1>14, <2>1, ShowsTail, Zenon
<1> HIDE DEF b
<1>16. Ahead(R, of2)
  <2> SUFFICES ASSUME NEW j \in DOMAIN R, IsFirst(R[j]), NEW q \in DOMAIN of2
               PROVE  of2[q] < R[j].frame
    BY DEF Ahead
  <2>1. j + c \in DOMAIN S /\ j + c > c /\ R[j] = S[j + c]
    <3>1. c \in Nat /\ c <= Len(S) /\ Len(S) \in Nat /\ j \in 1..(Len(S) - c)
            /\ DOMAIN S = 1..Len(S)
      BY <1>5, <1>6, <1>14
    <3>2. R[j] = S[j + c]
      BY <1>14, <3>1
    <3> HIDE DEF c
    <3> QED
      BY <3>1, <3>2
  <2>2. f < R[j].frame
    BY <1>9, <2>1
  <2>3. \A e \in DOMAIN of : of[e] < R[j].frame
    BY <1>14 DEF Ahead
  <2> QED
    BY <1>13, <2>2, <2>3 DEF More
<1>17. Accounted(h, R, x)
  <2>1. x.begun = s.begun /\ x.rolled = s.rolled /\ s.excused \subseteq x.excused
          /\ (h.ascii # << >> => x = s)
    BY DEF SeenIn, Thrown
  <2> HIDE DEF x
  <2> SUFFICES ASSUME ~s.rolled
               PROVE  /\ \A e \in s.begun :
                           e \in s.excused \/ SentOn(h, e) \/ Pending(h, R, e)
                      /\ h.ascii # << >> /\ IsFirst(R[Len(h.ascii)]) =>
                           R[Len(h.ascii)].frame \in s.marker
    <3>1. h.rp <= Len(h.ascii)
      <4>1. h.rp = 0 /\ Len(h.ascii) \in Nat
        BY <1>4, <1>7
      <4> QED
        BY <4>1
    <3> QED
      BY <2>1, <3>1 DEF Accounted
  <2>2. ASSUME NEW e, Pending(g, S, e) PROVE SentOn(h, e) \/ Pending(h, R, e)
    <3>1. PICK j \in 1..m : j > g.rp /\ IsFirst(S[j]) /\ S[j].frame = e
      BY <2>2 DEF Pending
    <3>2. a[j] = Start
      <4> HIDE DEF a
      <4>1. Shows(S, a, l) /\ Stretch(S) /\ a \in Seq(Bytes) /\ j \in 1..Len(a)
        BY <1>1, <1>5, <3>1
      <4> QED
        BY <3>1, <4>1, FirstInAscii
    <3>3. j >= i + 1
      BY <1>2, <1>5, <3>1, <3>2
    <3>4. CASE j = i + 1
      BY <1>12, <3>1, <3>4
    <3>5. CASE j > i + 1
      <4>1. ~(j <= c)
        BY <1>5, <1>9, <3>1, <3>5, Zenon
      <4>2. j - c \in 1..(m - c) /\ j - c > 0 /\ (j - c) + c = j /\ j - c \in 1..(Len(S) - c)
        BY <1>5, <1>6, <4>1
      <4>3. R[j - c] = S[j]
        BY <1>14, <4>2
      <4>4. Len(h.ascii) = m - c /\ h.rp = 0
        BY <1>4, <1>7
      <4> HIDE DEF m, c
      <4> QED
        BY <3>1, <4>2, <4>3, <4>4 DEF Pending
    <3> QED
      BY <1>2, <1>5, <3>3, <3>4, <3>5
  <2>3. ASSUME h.ascii # << >>, IsFirst(R[Len(h.ascii)])
        PROVE  R[Len(h.ascii)].frame \in s.marker
    <3>1. Len(h.ascii) = m - c /\ h.ascii \in Seq(Bytes)
      BY <1>4, <1>7
    <3>2. Len(h.ascii) # 0
      BY <2>3, <3>1
    <3>3. m - c \in 1..(Len(S) - c) /\ (m - c) + c = m /\ m # 0
      BY <1>3, <1>5, <1>6, <3>1, <3>2, SMTT(30)
    <3>4. R[m - c] = S[m]
      BY <1>14, <3>3
    <3>5. a # << >>
      BY <3>3
    <3> HIDE DEF m, c
    <3> QED
      BY <1>1, <2>3, <3>1, <3>4, <3>5 DEF Accounted, m
  <2> QED
    BY <1>1, <1>12, <2>2, <2>3 DEF Accounted
<1>18. Reads(h, R, of2, l, n, live, x)
  BY <1>4, <1>12, <1>13, <1>14, <1>15, <1>16, <1>17 DEF Reads
<1> QED
  BY <1>18 DEF InStep

\* EV_RX_ASCII and EV_PL_LOOP keep host and stream in step.
LEMMA SyncKeeps ==
  ASSUME Unmistakable, NEW g, Typed(g), g.state = "ST_SniffSyncData",
         NEW l \in Seq(Sniffed), NEW n \in Nat, NEW live, NEW s, SeenIn(s),
         InStep(g, l, n, live, s)
  PROVE  LET h == SniffSyncData(g)
         IN  h.state = "ST_SniffSyncData" /\ h.fd = g.fd /\ InStep(h, l, n, live, Thrown(h, s))
<1> DEFINE h == SniffSyncData(g)
<1>1. g.ascii \in Seq(Bytes) /\ g.rp \in Nat
  BY DEF Typed, Host
<1>2. PICK S, of : Reads(g, S, of, l, n, live, s)
  BY DEF InStep
<1>3. \/ Dropped(g, h)
      \/ \E i : Marked(g, i) /\ (Awaited(g, h, i) \/ Skipped(g, h, i) \/ Delivered(g, h, i))
  BY SyncOutcome
<1> HIDE DEF h
<1>4. CASE Dropped(g, h)
  BY <1>1, <1>2, <1>4, DroppedKeeps, Zenon DEF Dropped, Unsent, h
<1>5. ASSUME NEW i, Marked(g, i), Awaited(g, h, i) \/ Skipped(g, h, i)
      PROVE  h.state = "ST_SniffSyncData" /\ h.fd = g.fd /\ InStep(h, l, n, live, Thrown(h, s))
  <2>1. InStep(h, l, n, live, Thrown(h, s))
    BY <1>1, <1>2, <1>5, LookedAtKeeps, Zenon
  <2> QED
    BY <1>5, <2>1 DEF Awaited, Skipped, Unsent
<1>6. ASSUME NEW i, Marked(g, i), Delivered(g, h, i)
      PROVE  h.state = "ST_SniffSyncData" /\ h.fd = g.fd /\ InStep(h, l, n, live, Thrown(h, s))
  <2>1. InStep(h, l, n, live, Thrown(h, s))
    BY <1>1, <1>2, <1>6, DeliveredKeeps
  <2> QED
    BY <1>6, <2>1 DEF Delivered
<1> QED
  BY <1>3, <1>4, <1>5, <1>6 DEF h

-----------------------------------------------------------------------------
(* Reading: what is collected, and what the history notes of it.           *)

\* s is what w ends with from the k-th on, of the first n of w.
EndOf(s, w, n, k) ==
  Len(s) + k = n /\ \A j \in DOMAIN s : s[j] = w[j + k]

\* What is collected is the end of what there was and what was read; all of it if
\* there is room.
LEMMA CollectEnd ==
  ASSUME NEW s \in Collected, NEW c \in Seq(Bytes)
  PROVE  \E k \in Nat : /\ EndOf(FoldLeft(Put, s, c), s \o c, Len(s) + Len(c), k)
                        /\ Len(s) + Len(c) <= AsciiCap => k = 0
<1> DEFINE N == Len(c)
           m == Len(s)
           w == s \o c
<1>1. /\ N \in Nat /\ m \in Nat /\ s \in Seq(Bytes) /\ DOMAIN s = 1..m /\ AsciiCap \in Nat
      /\ \A i \in 1..m : w[i] = s[i]
      /\ \A i \in 1..N : w[m + i] = c[i]
  BY Constants DEF Collected
<1>2. PICK u \in [0..N -> Collected] :
        /\ u[0] = s /\ u[N] = FoldLeft(Put, s, c)
        /\ \A i \in 1..N : u[i] = Put(u[i - 1], c[i])
  BY PutSteps, Zenon
<1> HIDE DEF N, m, w
<1> DEFINE Ok(i) == \E k \in Nat : EndOf(u[i], w, m + i, k) /\ (m + i <= AsciiCap => k = 0)
           T == {i \in Nat : i <= N => Ok(i)}
<1>3. 0 \in T
  <2>1. EndOf(s, w, m + 0, 0)
    BY <1>1 DEF EndOf, m
  <2>2. Ok(0)
    BY <1>2, <2>1
  <2> QED
    BY <2>2
<1>4. ASSUME NEW i \in Nat, i \in T PROVE i + 1 \in T
  <2> SUFFICES ASSUME i + 1 <= N PROVE Ok(i + 1)
    OBVIOUS
  <2>1. i \in 0..N /\ i + 1 \in 1..N /\ (i + 1) - 1 = i
    BY <1>1
  <2>2. PICK k \in Nat : EndOf(u[i], w, m + i, k) /\ (m + i <= AsciiCap => k = 0)
    <3>1. Ok(i)
      BY <1>4, <2>1
    <3> QED
      BY <3>1
  <2> DEFINE x == u[i]
             b == c[i + 1]
             n == Len(x)
  <2>3. u[i + 1] = Put(x, b)
    BY <1>2, <2>1
  <2>4. x \in Seq(Bytes) /\ n \in Nat /\ n <= AsciiCap /\ DOMAIN x = 1..n /\ n + k = m + i
          /\ \A j \in 1..n : x[j] = w[j + k]
    <3>1. x \in Collected
      BY <1>2, <2>1
    <3> QED
      BY <2>2, <3>1 DEF Collected, EndOf
  <2>5. w[m + (i + 1)] = b
    BY <1>1, <2>1
  <2>b. b \in Bytes
    BY <2>1 DEF N
  <2> HIDE DEF x, b, n
  <2>6. CASE n < AsciiCap
    <3> DEFINE y == Append(x, b)
    <3>1. u[i + 1] = y
      BY <2>3, <2>6 DEF Put, n
    <3>2. Len(y) = n + 1 /\ DOMAIN y = 1..(n + 1) /\ y[n + 1] = b /\ \A j \in 1..n : y[j] = x[j]
      BY <2>4, <2>b DEF n
    <3> HIDE DEF y
    <3>3. (n + 1) + k = m + (i + 1) /\ Len(y) + k = m + (i + 1)
      BY <1>1, <2>4, <3>2
    <3>4. ASSUME NEW j \in 1..(n + 1) PROVE y[j] = w[j + k]
      <4>1. CASE j = n + 1
        BY <2>5, <3>2, <3>3, <4>1
      <4>2. CASE j # n + 1
        <5>1. j \in 1..n
          BY <2>4, <4>2
        <5> QED
          BY <2>4, <3>2, <5>1
      <4> QED
        BY <4>1, <4>2
    <3>5. EndOf(y, w, m + (i + 1), k)
      BY <3>2, <3>3, <3>4 DEF EndOf
    <3>6. m + (i + 1) <= AsciiCap => k = 0
      BY <1>1, <2>2
    <3> QED
      BY <3>1, <3>5, <3>6
  <2>7. CASE ~(n < AsciiCap)
    <3>1. u[i + 1] = << >>
      BY <2>3, <2>7 DEF Put, n
    <3>2. m + (i + 1) \in Nat /\ ~(m + (i + 1) <= AsciiCap)
      BY <1>1, <2>4, <2>7
    <3>3. EndOf(<< >>, w, m + (i + 1), m + (i + 1))
      BY <3>2 DEF EndOf
    <3> QED
      BY <3>1, <3>2, <3>3
  <2> QED
    BY <2>6, <2>7
<1> HIDE DEF T
<1>5. N \in T
  BY <1>1, <1>3, <1>4, NatSetInduction, Zenon
<1>6. Ok(N)
  <2>1. N <= N
    BY <1>1
  <2> HIDE DEF Ok
  <2> QED
    BY <1>5, <2>1 DEF T
<1> QED
  BY <1>2, <1>6 DEF N, m, w

\* Bytes go from the line to gcf->ascii, and none is lost on the way.
LEMMA ShowsMoved ==
  ASSUME NEW S, NEW a \in Seq(Bytes), NEW l \in Seq(Sniffed), S \in Seq(Sniffed), Shows(S, a, l),
         NEW p \in Nat, p <= Len(l), NEW c \in Seq(Bytes), Len(c) = p,
         \A i \in 1..p : c[i] = l[i].byte,
         NEW r \in Seq(Sniffed), Len(r) = Len(l) - p, \A i \in 1..(Len(l) - p) : r[i] = l[i + p]
  PROVE  Shows(S, a \o c, r)
<1> DEFINE m == Len(a)
           n == Len(l)
           b == a \o c
<1>0. m \in Nat /\ n \in Nat /\ DOMAIN a = 1..m /\ DOMAIN l = 1..n /\ DOMAIN r = 1..(n - p)
  OBVIOUS
<1>1. /\ Len(S) = m + n /\ m \in Nat /\ n \in Nat
      /\ \A i \in 1..m : S[i].byte = a[i]
      /\ \A i \in 1..n : S[m + i] = l[i]
  BY <1>0, Zenon DEF Shows
<1>2. /\ Len(b) = m + p /\ DOMAIN b = 1..(m + p)
      /\ \A i \in 1..m : b[i] = a[i]
      /\ \A i \in 1..p : b[m + i] = c[i]
  <2>1. \A x, y \in Seq(Bytes) :
          /\ x \o y \in Seq(Bytes) /\ Len(x \o y) = Len(x) + Len(y)
          /\ DOMAIN (x \o y) = 1..(Len(x) + Len(y))
          /\ \A i \in 1..Len(x) : (x \o y)[i] = x[i]
          /\ \A i \in 1..Len(y) : (x \o y)[Len(x) + i] = y[i]
    OBVIOUS
  <2> QED
    BY <2>1, Zenon
<1>3. Len(r) = n - p /\ p <= n /\ \A i \in 1..(n - p) : r[i] = l[i + p]
  OBVIOUS
<1> HIDE DEF m, n, b
<1>4. ASSUME NEW i \in DOMAIN b PROVE S[i].byte = b[i]
  <2>1. CASE i <= m
    <3>1. i \in 1..m
      BY <1>1, <1>2, <2>1
    <3> QED
      BY <1>1, <1>2, <3>1
  <2>2. CASE i > m
    <3>1. i - m \in 1..p /\ i - m \in 1..n /\ m + (i - m) = i
      BY <1>1, <1>2, <1>3, <2>2
    <3>2. S[i] = l[i - m] /\ b[i] = c[i - m]
      BY <1>1, <1>2, <3>1, Zenon
    <3> QED
      BY <3>1, <3>2
  <2> QED
    BY <1>1, <1>2, <2>1, <2>2
<1>5. ASSUME NEW i \in DOMAIN r PROVE S[Len(b) + i] = r[i]
  <2>1. i \in 1..(n - p) /\ i + p \in 1..n /\ m + (i + p) = (m + p) + i
    BY <1>0, <1>1, <1>3
  <2> QED
    BY <1>1, <1>2, <1>3, <2>1, ZenonT(40)
<1>6. Len(S) = Len(b) + Len(r)
  <2> DEFINE x == Len(b)
             y == Len(r)
             z == Len(S)
  <2>1. x = m + p /\ y = n - p /\ z = m + n /\ m \in Nat /\ n \in Nat
    BY <1>1, <1>2, <1>3
  <2> HIDE DEF x, y, z
  <2>2. z = x + y
    BY <2>1
  <2> QED
    BY <2>2 DEF x, y, z
<1> QED
  BY <1>4, <1>5, <1>6, Zenon DEF Shows, b

\* The first part of the line is read.
LEMMA ChunkOf ==
  ASSUME NEW l \in Seq(Sniffed), NEW p \in 1..Len(l)
  PROVE  LET chunk == SubSeq(l, 1, p)
             c == [i \in DOMAIN chunk |-> chunk[i].byte]
             r == SubSeq(l, p + 1, Len(l))
         IN  /\ chunk \in Seq(Sniffed) /\ Len(chunk) = p /\ DOMAIN chunk = 1..p
             /\ \A i \in 1..p : chunk[i] = l[i]
             /\ Last(chunk) = l[p]
             /\ c \in Seq(Bytes) /\ Len(c) = p /\ \A i \in 1..p : c[i] = l[i].byte
             /\ r \in Seq(Sniffed) /\ Len(r) = Len(l) - p
             /\ \A i \in 1..(Len(l) - p) : r[i] = l[i + p]
<1> DEFINE n == Len(l)
           x == p + 1
           chunk == SubSeq(l, 1, p)
           c == [i \in DOMAIN chunk |-> chunk[i].byte]
           r == SubSeq(l, x, n)
<1>1. /\ n \in Nat /\ p \in Nat /\ p >= 1 /\ p <= n
      /\ x \in Nat /\ 1 <= x /\ x <= n + 1 /\ n + 1 - x = n - p /\ p + 1 - 1 = p
      /\ 1 \in Nat /\ 1 <= p + 1 /\ n <= Len(l)
      /\ \A i \in 1..p : 1 + i - 1 = i
      /\ \A i \in 1..(n - p) : x + i - 1 = i + p
  OBVIOUS
<1>2. l \in Seq(Sniffed)
  OBVIOUS
<1> HIDE DEF n, x, chunk, r
<1>3. /\ chunk \in Seq(Sniffed) /\ Len(chunk) = p + 1 - 1
      /\ \A i \in 1..(p + 1 - 1) : chunk[i] = l[1 + i - 1]
  BY <1>1, <1>2, Middle DEF chunk, n
<1>4. /\ r \in Seq(Sniffed) /\ Len(r) = n + 1 - x
      /\ \A i \in 1..(n + 1 - x) : r[i] = l[x + i - 1]
  BY <1>1, <1>2, Middle DEF r
<1>5. /\ chunk \in Seq(Sniffed) /\ Len(chunk) = p /\ DOMAIN chunk = 1..p
      /\ \A i \in 1..p : chunk[i] = l[i]
  BY <1>1, <1>3
<1>6. r \in Seq(Sniffed) /\ Len(r) = n - p /\ \A i \in 1..(n - p) : r[i] = l[i + p]
  BY <1>1, <1>4, Zenon
<1>7. Last(chunk) = l[p]
  BY <1>1, <1>5 DEF Last
<1>8. c \in Seq(Bytes) /\ Len(c) = p /\ \A i \in 1..p : c[i] = l[i].byte
  <2>1. \A i \in 1..p : chunk[i].byte \in Bytes
    <3>1. \A i \in 1..p : chunk[i] \in Sniffed
      BY <1>5
    <3>2. \A z \in Sniffed : z.byte \in Bytes
      BY DEF Sniffed
    <3> QED
      BY <3>1, <3>2
  <2>2. c = [i \in 1..p |-> chunk[i].byte]
    BY <1>5
  <2> QED
    BY <1>1, <1>5, <2>1, <2>2
<1> QED
  BY <1>5, <1>6, <1>7, <1>8, Zenon DEF chunk, r, n, x

\* What the history notes of bytes that are read while synchronising.
NotedRead(x, s, chunk, full) ==
  /\ x.begun = s.begun \cup Begun(chunk) /\ x.excused = s.excused
  /\ x.marker = Begun(<<Last(chunk)>>)
  /\ x.rolled <=> s.rolled \/ full

\* Reading keeps host and stream in step.
LEMMA ReadKeeps ==
  ASSUME NEW g, Typed(g), NEW l \in Seq(Sniffed), NEW n, NEW live, NEW s,
         InStep(g, l, n, live, s), NEW p \in 1..Len(l),
         NEW chunk, chunk = SubSeq(l, 1, p),
         NEW c, c = [i \in DOMAIN chunk |-> chunk[i].byte],
         NEW x, NotedRead(x, s, chunk, Len(g.ascii) + Len(chunk) > AsciiCap)
  PROVE  InStep(Collect(g, c), SubSeq(l, p + 1, Len(l)), n, live, x)
<1> DEFINE h == Collect(g, c)
           r == SubSeq(l, p + 1, Len(l))
           a == g.ascii
           m == Len(a)
           w == a \o c
           b == FoldLeft(Put, a, c)
<1>1. PICK S, of : Reads(g, S, of, l, n, live, s)
  BY DEF InStep
<1>2. /\ Stretch(S) /\ Shows(S, a, l) /\ Upto(S, n) /\ (live => Complete(S))
      /\ Sends(g, of, n) /\ Numbered(g) /\ Ahead(S, of) /\ Accounted(g, S, s)
  BY <1>1 DEF Reads
<1>3. /\ chunk \in Seq(Sniffed) /\ Len(chunk) = p /\ DOMAIN chunk = 1..p
      /\ \A i \in 1..p : chunk[i] = l[i]
      /\ Last(chunk) = l[p]
      /\ c \in Seq(Bytes) /\ Len(c) = p /\ \A i \in 1..p : c[i] = l[i].byte
      /\ r \in Seq(Sniffed) /\ Len(r) = Len(l) - p
      /\ \A i \in 1..(Len(l) - p) : r[i] = l[i + p]
      /\ p \in Nat /\ p >= 1 /\ p <= Len(l) /\ Len(l) \in Nat
  BY ChunkOf
<1>4. a \in Seq(Bytes) /\ a \in Collected /\ m \in Nat /\ g.rp \in Nat
  BY DEF Typed, Host, Collected
<1>5. /\ h.ascii = b /\ h.zep = g.zep /\ h.sniffSeqNum = g.sniffSeqNum /\ h.rp = g.rp
  <2>1. h = [g EXCEPT !.ascii = b]
    BY DEF Collect, Put, FoldLeft, MapThenFoldSet
  <2>2. g \in Host
    BY DEF Typed
  <2> HIDE DEF b, h
  <2> QED
    BY <2>1, <2>2 DEF Host
<1> HIDE DEF r, h, a, b
<1>6. /\ w \in Seq(Bytes) /\ Len(w) = m + p
  <2>1. \A y, z \in Seq(Bytes) : y \o z \in Seq(Bytes) /\ Len(y \o z) = Len(y) + Len(z)
    OBVIOUS
  <2>2. w \in Seq(Bytes) /\ Len(w) = m + Len(c)
    BY <1>3, <1>4, <2>1, Zenon
  <2>3. Len(c) = p
    BY <1>3
  <2> QED
    BY <2>2, <2>3, Zenon
<1>7. S \in Seq(Sniffed) /\ Len(S) = m + Len(l) /\ \A i \in 1..Len(l) : S[m + i] = l[i]
  <2>1. DOMAIN l = 1..Len(l) /\ S \in Seq(Sniffed)
    BY <1>2 DEF Stretch
  <2> QED
    BY <1>2, <2>1, Zenon DEF Shows, m
<1>8. Shows(S, w, r)
  BY <1>2, <1>3, <1>4, <1>7, ShowsMoved, Zenon
<1>9. PICK k \in Nat : EndOf(b, w, m + p, k) /\ (m + p <= AsciiCap => k = 0)
  BY <1>3, <1>4, CollectEnd, Zenon DEF b
<1>10. b \in Seq(Bytes)
  BY <1>3, <1>4, PutFold, Zenon DEF b, Collected
<1> DEFINE R == SubSeq(S, k + 1, Len(S))
           q == Len(S)
<1>11. k <= Len(w) /\ Len(b) = Len(w) - k /\ \A i \in DOMAIN b : b[i] = w[i + k]
  <2>1. Len(b) \in Nat /\ Len(b) + k = m + p /\ \A i \in DOMAIN b : b[i] = w[i + k]
    <3>1. Len(b) + k = m + p /\ \A i \in DOMAIN b : b[i] = w[i + k]
      BY <1>9, Zenon DEF EndOf
    <3>2. Len(b) \in Nat
      BY <1>10
    <3> QED
      BY <3>1, <3>2, Zenon
  <2> DEFINE y == Len(b)
  <2>2. y \in Nat /\ y + k = m + p
    BY <2>1
  <2> HIDE DEF y, m, w
  <2>3. k <= m + p /\ y = m + p - k
    BY <1>3, <1>4, <2>2
  <2> QED
    BY <1>6, <2>1, <2>3 DEF y
<1>12. k <= Len(S)
  <2> HIDE DEF m, w
  <2> QED
    BY <1>3, <1>4, <1>6, <1>7, <1>11
<1>13. /\ Stretch(R) /\ Upto(R, n) /\ (live => Complete(R)) /\ Ahead(R, of)
       /\ Len(R) = Len(S) - k /\ DOMAIN R = 1..(Len(S) - k)
       /\ \A i \in 1..(Len(S) - k) : R[i] = S[i + k]
  BY <1>2, <1>12, ReadsTail
<1> HIDE DEF R, w, m
<1>14. Shows(R, b, r)
  BY <1>3, <1>6, <1>7, <1>8, <1>10, <1>11, <1>13, ShowsTail, Zenon
<1>15. Sends(h, of, n) /\ Numbered(h)
  BY <1>2, <1>5, SendsSame
<1>16. Accounted(h, R, x)
  <2> SUFFICES ASSUME ~x.rolled
               PROVE  /\ \A f \in x.begun : f \in x.excused \/ SentOn(h, f) \/ Pending(h, R, f)
                      /\ h.ascii # << >> /\ IsFirst(R[Len(h.ascii)]) =>
                           R[Len(h.ascii)].frame \in x.marker
                      /\ h.rp <= Len(h.ascii)
    BY DEF Accounted
  <2>1. ~s.rolled /\ m + p <= AsciiCap
    <3>1. ~s.rolled /\ ~(m + p > AsciiCap)
      BY <1>3, Zenon DEF NotedRead, m, a
    <3> QED
      BY <1>3, <1>4, <3>1, Constants
  <2>2. k = 0 /\ Len(b) = m + p /\ Len(h.ascii) = m + p
    <3>1. k = 0
      BY <1>9, <2>1
    <3> QED
      BY <1>3, <1>4, <1>5, <1>6, <1>11, <3>1
  <2>a. /\ m \in Nat /\ p \in Nat /\ p >= 1 /\ Len(l) \in Nat /\ p <= Len(l)
        /\ Len(S) = m + Len(l) /\ g.rp \in Nat
    BY <1>3, <1>4, <1>7
  <2>3. \A i \in 1..(m + p) : R[i] = S[i]
    <3> SUFFICES ASSUME NEW i \in 1..(m + p) PROVE R[i] = S[i]
      OBVIOUS
    <3>1. i \in 1..(Len(S) - k) /\ i + k = i
      BY <2>a, <2>2
    <3> QED
      BY <1>13, <3>1
  <2>4. /\ \A f \in s.begun : f \in s.excused \/ SentOn(g, f) \/ Pending(g, S, f)
        /\ g.rp <= m
    BY <1>2, <2>1 DEF Accounted, m, a
  <2>5. \A f : SentOn(g, f) <=> SentOn(h, f)
    BY <1>5, SendsSame
  <2>6. ASSUME NEW f, Pending(g, S, f) PROVE Pending(h, R, f)
    <3>1. PICK i \in 1..m : i > g.rp /\ IsFirst(S[i]) /\ S[i].frame = f
      BY <2>6 DEF Pending, m, a
    <3>2. i \in 1..(m + p)
      BY <1>3, <1>4
    <3> QED
      BY <1>5, <2>2, <2>3, <3>1, <3>2 DEF Pending
  <2>7. ASSUME NEW j \in 1..p, IsFirst(chunk[j])
        PROVE  R[m + j] = chunk[j] /\ m + j \in 1..(m + p) /\ m + j > g.rp
    <3>1. m + j \in 1..(m + p) /\ m + j > g.rp /\ j \in 1..Len(l)
      <4>1. g.rp <= m
        BY <2>4
      <4> QED
        BY <2>a, <4>1
    <3> QED
      BY <1>3, <1>7, <2>3, <3>1
  <2>8. ASSUME NEW f \in Begun(chunk) PROVE Pending(h, R, f)
    <3>1. PICK j \in 1..p : IsFirst(chunk[j]) /\ chunk[j].frame = f
      BY <1>3, <2>8 DEF Begun
    <3>2. R[m + j] = chunk[j] /\ m + j \in 1..(m + p) /\ m + j > g.rp
      BY <2>7, <3>1
    <3> QED
      BY <1>5, <2>2, <3>1, <3>2 DEF Pending
  <2>9. ASSUME IsFirst(R[Len(h.ascii)]) PROVE R[Len(h.ascii)].frame \in x.marker
    <3>1. p \in 1..Len(l) /\ m + p \in 1..(m + p)
      BY <1>3, <1>4
    <3>2. R[m + p] = Last(chunk)
      BY <1>3, <1>7, <2>3, <3>1
    <3> DEFINE z == Last(chunk)
    <3>3. IsFirst(z) /\ R[Len(h.ascii)].frame = z.frame
      BY <2>2, <2>9, <3>2
    <3> HIDE DEF z
    <3>4. z.frame \in Begun(<<z>>)
      <4>1. 1 \in DOMAIN <<z>> /\ <<z>>[1] = z
        OBVIOUS
      <4> QED
        BY <3>3, <4>1 DEF Begun
    <3> QED
      BY <3>3, <3>4 DEF NotedRead, z
  <2>10. h.rp <= Len(h.ascii)
    BY <1>3, <1>4, <1>5, <2>2, <2>4
  <2> QED
    BY <2>4, <2>5, <2>6, <2>8, <2>9, <2>10 DEF NotedRead
<1>17. Reads(h, R, of, r, n, live, x)
  BY <1>5, <1>13, <1>14, <1>15, <1>16 DEF Reads
<1> QED
  BY <1>17, Zenon DEF InStep, h, r

-----------------------------------------------------------------------------
(* What else happens while synchronising.                                  *)

\* The bytes and the messages are the same, and nothing more is expected.
LEMMA SameKeeps ==
  ASSUME NEW g, NEW h, NEW l, NEW n, NEW live, NEW live2, NEW s, InStep(g, l, n, live, s),
         h.ascii = g.ascii, h.rp = g.rp, h.zep = g.zep, h.sniffSeqNum = g.sniffSeqNum,
         live2 => live
  PROVE  InStep(h, l, n, live2, s)
<1>1. PICK S, of : Reads(g, S, of, l, n, live, s)
  BY DEF InStep
<1>2. Sends(h, of, n) /\ Numbered(h)
  BY <1>1, SendsSame DEF Reads
<1>3. Accounted(h, S, s)
  <2>1. Accounted(g, S, s)
    BY <1>1 DEF Reads
  <2>2. \A f : SentOn(g, f) <=> SentOn(h, f)
    BY SendsSame
  <2>3. \A f : Pending(g, S, f) <=> Pending(h, S, f)
    BY DEF Pending
  <2> QED
    BY <2>1, <2>2, <2>3 DEF Accounted
<1>4. Reads(h, S, of, l, n, live2, s)
  BY <1>1, <1>2, <1>3 DEF Reads
<1> QED
  BY <1>4 DEF InStep

\* A start marker that is thrown away is excused.
LEMMA ThrownKeeps ==
  ASSUME NEW g, NEW l, NEW n, NEW live, NEW s, SeenIn(s), InStep(g, l, n, live, s)
  PROVE  InStep(g, l, n, live, Thrown(g, s))
<1> DEFINE x == Thrown(g, s)
<1>1. PICK S, of : Reads(g, S, of, l, n, live, s)
  BY DEF InStep
<1>2. x.begun = s.begun /\ x.rolled = s.rolled /\ s.excused \subseteq x.excused
        /\ (g.ascii # << >> => x = s)
  BY DEF SeenIn, Thrown
<1> HIDE DEF x
<1>3. Accounted(g, S, x)
  BY <1>1, <1>2 DEF Reads, Accounted
<1>4. Reads(g, S, of, l, n, live, x)
  BY <1>1, <1>3 DEF Reads
<1> QED
  BY <1>4 DEF InStep, x

\* The port is closed, or gone: what was not read is lost.
LEMMA ClosedKeeps ==
  ASSUME NEW g, g.ascii \in Seq(Bytes), NEW l \in Seq(Sniffed), NEW n, NEW live, NEW s,
         InStep(g, l, n, live, s)
  PROVE  InStep(g, << >>, n, FALSE, s)
<1> DEFINE a == g.ascii
           m == Len(a)
           e == << >>
<1>1. PICK S, of : Reads(g, S, of, l, n, live, s)
  BY DEF InStep
<1>2. /\ Stretch(S) /\ Shows(S, a, l) /\ Upto(S, n)
      /\ Sends(g, of, n) /\ Numbered(g) /\ Ahead(S, of) /\ Accounted(g, S, s)
  BY <1>1 DEF Reads
<1>3. /\ S \in Seq(Sniffed) /\ m \in Nat /\ Len(l) \in Nat /\ Len(S) = m + Len(l)
      /\ DOMAIN S = 1..Len(S) /\ DOMAIN a = 1..m /\ 1..m \subseteq DOMAIN S
      /\ \A k \in 1..m : S[k].byte = a[k]
  BY <1>2, ShownBytes
<1> DEFINE R == SubSeq(S, 1, m)
<1>4. R \in Seq(Sniffed) /\ Len(R) = m /\ DOMAIN R = 1..m /\ \A i \in 1..m : R[i] = S[i]
  <2>1. 1 \in Nat /\ m \in Nat /\ 1 <= 1 /\ 1 <= m + 1 /\ m <= Len(S) /\ m + 1 - 1 = m
          /\ \A i \in 1..m : 1 + i - 1 = i
    BY <1>3
  <2>2. S \in Seq(Sniffed)
    BY <1>3
  <2> HIDE DEF m, R
  <2>3. R \in Seq(Sniffed) /\ Len(R) = m + 1 - 1 /\ \A i \in 1..(m + 1 - 1) : R[i] = S[1 + i - 1]
    BY <2>1, <2>2, Middle DEF R
  <2> QED
    BY <2>1, <2>3
<1> HIDE DEF R, m
<1>5. Stretch(R) /\ Upto(R, n)
  <2>1. Len(R) + 0 <= Len(S) /\ \A i \in DOMAIN R : R[i] = S[i + 0]
    <3>1. \A i \in 1..m : i + 0 = i
      BY <1>3
    <3>2. m + 0 <= Len(S)
      BY <1>3
    <3> QED
      BY <1>4, <3>1, <3>2
  <2>2. 0 \in Nat
    OBVIOUS
  <2>3. Stretch(R) /\ \A k : Upto(S, k) => Upto(R, k)
    BY <1>2, <1>4, <2>1, <2>2, StretchPart
  <2> QED
    BY <1>2, <2>3
<1>6. Shows(R, a, e)
  <2>1. Len(e) = 0 /\ DOMAIN e = {}
    OBVIOUS
  <2> HIDE DEF e, a
  <2>2. Len(R) = Len(a) + Len(e)
    <3>1. Len(R) = m /\ m = Len(a) /\ m \in Nat
      BY <1>3, <1>4 DEF m
    <3> QED
      BY <2>1, <3>1
  <2> QED
    BY <1>3, <1>4, <2>1, <2>2, Zenon DEF Shows
<1>7. Ahead(R, of)
  BY <1>2, <1>3, <1>4 DEF Ahead
<1>8. Accounted(g, R, s)
  <2>1. \A f : Pending(g, S, f) => Pending(g, R, f)
    BY <1>4 DEF Pending, m
  <2>2. g.ascii # << >> => R[Len(g.ascii)] = S[Len(g.ascii)]
    <3> SUFFICES ASSUME g.ascii # << >> PROVE R[m] = S[m]
      BY DEF m
    <3>1. m # 0
      BY DEF m
    <3>2. m \in 1..m
      BY <1>3, <3>1
    <3> QED
      BY <1>4, <3>2
  <2> QED
    BY <1>2, <2>1, <2>2 DEF Accounted
<1>9. Reads(g, R, of, e, n, FALSE, s)
  BY <1>2, <1>5, <1>6, <1>7, <1>8 DEF Reads
<1> QED
  BY <1>9, Zenon DEF InStep

\* More frames may come.
LEMMA UptoMore ==
  ASSUME NEW n \in Nat
  PROVE  /\ \A S : Stretch(S) /\ Upto(S, n) => Upto(S, n + 1)
         /\ \A g, of : Sends(g, of, n) => Sends(g, of, n + 1)
<1>1. ASSUME NEW S, Stretch(S), Upto(S, n) PROVE Upto(S, n + 1)
  <2> SUFFICES ASSUME NEW i \in DOMAIN S PROVE S[i].frame <= n + 1
    BY DEF Upto
  <2>1. S[i].frame \in 0..Len(Script) /\ S[i].frame <= n
    BY <1>1, StretchByte DEF Upto
  <2> DEFINE f == S[i].frame
  <2>2. f \in Int
    BY <2>1, SerialAssumption
  <2> HIDE DEF f
  <2>3. f <= n
    BY <2>1 DEF f
  <2>4. f <= n + 1
    BY <2>2, <2>3
  <2> QED
    BY <2>4 DEF f
<1>2. ASSUME NEW g, NEW of, Sends(g, of, n) PROVE Sends(g, of, n + 1)
  <2>1. 1..n \subseteq 1..(n + 1)
    OBVIOUS
  <2>2. of \in [DOMAIN g.zep -> 1..(n + 1)]
    BY <1>2, <2>1 DEF Sends
  <2> QED
    BY <1>2, <2>2 DEF Sends
<1> QED
  BY <1>1, <1>2

\* The sniffer hears a frame that the host will not read.
LEMMA AirKeeps ==
  ASSUME NEW g, NEW l, NEW n \in Nat, NEW live, NEW s, InStep(g, l, n, live, s)
  PROVE  InStep(g, l, n + 1, live, s)
<1>1. PICK S, of : Reads(g, S, of, l, n, live, s)
  BY DEF InStep
<1>2. Upto(S, n + 1) /\ Sends(g, of, n + 1)
  BY <1>1, UptoMore DEF Reads
<1>3. Reads(g, S, of, l, n + 1, live, s)
  BY <1>1, <1>2 DEF Reads
<1> QED
  BY <1>3 DEF InStep

\* The sniffer says one word more, with the next frame or with none.
LEMMA WordKeeps ==
  ASSUME NEW S, Stretch(S), Complete(S), NEW n \in Nat, Upto(S, n),
         NEW f \in 0..Len(Script), f # 0 => f = n + 1, NEW k \in {n, n + 1}, f <= k
  PROVE  LET w == Word(f)
             R == S \o w
         IN  /\ Stretch(R) /\ Complete(R) /\ Upto(R, k)
             /\ R \in Seq(Sniffed) /\ w \in Seq(Sniffed) /\ Len(w) \in Nat /\ Len(S) \in Nat
             /\ Len(R) = Len(S) + Len(w) /\ DOMAIN R = 1..(Len(S) + Len(w))
             /\ \A i \in 1..Len(S) : R[i] = S[i]
             /\ \A i \in 1..Len(w) : R[Len(S) + i] = w[i] /\ w[i].frame = f
<1> DEFINE w == Word(f)
           R == S \o w
           m == Len(S)
           l == Len(w)
<1>1. /\ S \in Seq(Sniffed) /\ m \in Nat /\ DOMAIN S = 1..m
      /\ w \in Seq(Sniffed) /\ l \in Nat /\ \A i \in 1..l : w[i].frame = f
  BY WordShape DEF Stretch
<1>2. f # 0 => \A i \in DOMAIN S : S[i].frame < f
  <2> SUFFICES ASSUME f # 0, NEW i \in DOMAIN S PROVE S[i].frame < f
    OBVIOUS
  <2> DEFINE e == S[i].frame
  <2>1. e \in 0..Len(Script) /\ e <= n /\ Len(Script) \in Nat
    BY StretchByte, SerialAssumption DEF Upto
  <2> HIDE DEF e
  <2>2. e \in Nat /\ e <= n /\ f = n + 1
    BY <2>1
  <2>3. e < f
    BY <2>2
  <2> QED
    BY <2>3 DEF e
<1>3. Stretch(R) /\ Complete(R)
  BY <1>2, StretchJoin
<1> HIDE DEF w
<1>4. /\ R \in Seq(Sniffed) /\ Len(R) = m + l /\ DOMAIN R = 1..(m + l)
      /\ \A i \in 1..m : R[i] = S[i]
      /\ \A i \in 1..l : R[m + i] = w[i]
  BY <1>1
<1> HIDE DEF R, m, l
<1>5. Upto(R, k)
  <2> SUFFICES ASSUME NEW i \in DOMAIN R PROVE R[i].frame <= k
    BY DEF Upto
  <2>1. CASE i <= m
    <3>1. i \in 1..m
      BY <1>1, <1>4, <2>1
    <3> DEFINE e == S[i].frame
    <3>2. e \in 0..Len(Script) /\ Len(Script) \in Nat /\ e <= n /\ R[i].frame = e
      BY <1>1, <1>4, <3>1, StretchByte, SerialAssumption DEF Upto
    <3> HIDE DEF e
    <3>3. e \in Nat /\ e <= n
      BY <3>2
    <3>4. e <= k
      BY <3>3
    <3> QED
      BY <3>2, <3>4
  <2>2. CASE i > m
    <3>1. i - m \in 1..l /\ m + (i - m) = i
      BY <1>1, <1>4, <2>2
    <3>2. R[i].frame = f
      BY <1>1, <1>4, <3>1
    <3> QED
      BY <3>2
  <2> QED
    BY <1>1, <1>4, <2>1, <2>2
<1> QED
  BY <1>1, <1>3, <1>4, <1>5 DEF R, w, m, l

\* The host will read it.
LEMMA HeardKeeps ==
  ASSUME NEW g, g.ascii \in Seq(Bytes), NEW l \in Seq(Sniffed), NEW n \in Nat, NEW s,
         InStep(g, l, n, TRUE, s),
         NEW f \in 0..Len(Script), f # 0 => f = n + 1, NEW k \in {n, n + 1}, f <= k
  PROVE  InStep(g, l \o Word(f), k, TRUE, s)
<1> DEFINE a == g.ascii
           m == Len(a)
           w == Word(f)
           j == Len(w)
           x == Len(l)
           q == l \o w
<1>1. PICK S, of : Reads(g, S, of, l, n, TRUE, s)
  BY Zenon DEF InStep
<1>2. /\ Stretch(S) /\ Shows(S, a, l) /\ Upto(S, n) /\ Complete(S)
      /\ Sends(g, of, n) /\ Numbered(g) /\ Ahead(S, of) /\ Accounted(g, S, s)
  BY <1>1 DEF Reads
<1>3. /\ S \in Seq(Sniffed) /\ m \in Nat /\ x \in Nat /\ Len(S) = m + x
      /\ DOMAIN S = 1..Len(S) /\ DOMAIN a = 1..m /\ 1..m \subseteq DOMAIN S
      /\ \A i \in 1..m : S[i].byte = a[i]
  BY <1>2, ShownBytes
<1>4. \A i \in 1..x : S[m + i] = l[i]
  <2>1. DOMAIN l = 1..x
    OBVIOUS
  <2> QED
    BY <1>2, <2>1, Zenon DEF Shows
<1> DEFINE R == S \o w
<1>5. /\ Stretch(R) /\ Complete(R) /\ Upto(R, k)
      /\ R \in Seq(Sniffed) /\ w \in Seq(Sniffed) /\ j \in Nat
      /\ Len(R) = Len(S) + j /\ DOMAIN R = 1..(Len(S) + j)
      /\ \A i \in 1..Len(S) : R[i] = S[i]
      /\ \A i \in 1..j : R[Len(S) + i] = w[i] /\ w[i].frame = f
  BY <1>2, WordKeeps
<1> HIDE DEF w, R
<1>6. /\ Len(q) = x + j /\ DOMAIN q = 1..(x + j)
      /\ \A i \in 1..x : q[i] = l[i]
      /\ \A i \in 1..j : q[x + i] = w[i]
  <2>1. \A y, z \in Seq(Sniffed) :
          /\ Len(y \o z) = Len(y) + Len(z) /\ DOMAIN (y \o z) = 1..(Len(y) + Len(z))
          /\ \A i \in 1..Len(y) : (y \o z)[i] = y[i]
          /\ \A i \in 1..Len(z) : (y \o z)[Len(y) + i] = z[i]
    OBVIOUS
  <2>2. l \in Seq(Sniffed) /\ w \in Seq(Sniffed)
    BY <1>5
  <2> QED
    BY <2>1, <2>2, Zenon
<1> HIDE DEF a, m, j, x, q
\* Behind what there was.
<1>7. ASSUME NEW i \in 1..m PROVE R[i] = S[i] /\ i \in DOMAIN R
  <2>1. i \in 1..Len(S) /\ i \in 1..(Len(S) + j)
    <3>1. m \in Nat /\ x \in Nat /\ j \in Nat /\ Len(S) = m + x
      BY <1>3, <1>5
    <3> QED
      BY <3>1
  <2> QED
    BY <1>5, <2>1
<1>8. Shows(R, a, q)
  <2>1. ASSUME NEW i \in 1..(x + j) PROVE R[m + i] = q[i]
    <3>0. m \in Nat /\ x \in Nat /\ j \in Nat /\ Len(S) = m + x
      BY <1>3, <1>5
    <3>1. CASE i <= x
      <4>1. i \in 1..x /\ m + i \in 1..Len(S)
        BY <3>0, <3>1
      <4> QED
        BY <1>4, <1>5, <1>6, <4>1, Zenon
    <3>2. CASE i > x
      <4>1. i - x \in 1..j /\ x + (i - x) = i /\ Len(S) + (i - x) = m + i
        BY <3>0, <3>2
      <4>2. R[Len(S) + (i - x)] = w[i - x] /\ q[x + (i - x)] = w[i - x]
        BY <1>5, <1>6, <4>1, Zenon
      <4> QED
        BY <4>1, <4>2
    <3> QED
      BY <3>0, <3>1, <3>2
  <2>2. Len(R) = m + Len(q)
    <3> DEFINE y == Len(S)
               z == Len(R)
               u == Len(q)
    <3>1. m \in Nat /\ x \in Nat /\ j \in Nat /\ y = m + x /\ z = y + j /\ u = x + j
      BY <1>3, <1>5, <1>6
    <3> HIDE DEF y, z, u
    <3>2. z = m + u
      BY <3>1
    <3> QED
      BY <3>2 DEF z, u
  <2>3. \A i \in DOMAIN a : R[i].byte = a[i]
    BY <1>3, <1>7
  <2> QED
    BY <1>6, <2>1, <2>2, <2>3, Zenon DEF Shows, m
<1>9. Ahead(R, of)
  <2> SUFFICES ASSUME NEW i \in DOMAIN R, IsFirst(R[i]), NEW e \in DOMAIN of
               PROVE  of[e] < R[i].frame
    BY DEF Ahead
  <2>0. Len(S) \in Nat /\ j \in Nat /\ i \in 1..(Len(S) + j)
    BY <1>3, <1>5
  <2>1. CASE i <= Len(S)
    <3>1. i \in DOMAIN S /\ R[i] = S[i]
      BY <1>3, <1>5, <2>0, <2>1
    <3> QED
      BY <1>2, <3>1 DEF Ahead
  <2>2. CASE i > Len(S)
    <3>1. i - Len(S) \in 1..j /\ Len(S) + (i - Len(S)) = i
      BY <2>0, <2>2
    <3>2. R[i].frame = f
      BY <1>5, <3>1, Zenon
    <3>3. f = n + 1
      BY <3>2 DEF IsFirst
    <3>4. of[e] \in 1..n
      BY <1>2 DEF Sends
    <3> DEFINE d == of[e]
    <3>5. d \in 1..n
      BY <3>4
    <3> HIDE DEF d
    <3>6. d < n + 1
      BY <3>5
    <3> QED
      BY <3>2, <3>3, <3>6 DEF d
  <2> QED
    BY <2>0, <2>1, <2>2
<1>10. Accounted(g, R, s)
  <2>1. \A e : Pending(g, S, e) => Pending(g, R, e)
    BY <1>7 DEF Pending, m, a
  <2>2. g.ascii # << >> => R[Len(g.ascii)] = S[Len(g.ascii)]
    <3> SUFFICES ASSUME g.ascii # << >> PROVE R[m] = S[m]
      BY DEF m, a
    <3>1. m # 0
      BY DEF m, a
    <3>2. m \in 1..m
      BY <1>3, <3>1
    <3> QED
      BY <1>7, <3>2
  <2> QED
    BY <1>2, <2>1, <2>2 DEF Accounted
<1>11. Sends(g, of, k)
  BY <1>2, UptoMore
<1>12. Reads(g, R, of, q, k, TRUE, s)
  BY <1>2, <1>5, <1>8, <1>9, <1>10, <1>11 DEF Reads, a
<1> QED
  BY <1>12, Zenon DEF InStep, q, w

\* The host starts to synchronise.
LEMMA StartKeeps ==
  ASSUME NEW g, g.ascii = << >>, g.rp = 0, g.zep = << >>, g.sniffSeqNum = 0,
         NEW l, Stretch(l), Complete(l), NEW n, Upto(l, n), NEW live,
         NEW s, s.begun = {}
  PROVE  InStep(g, l, n, live, s)
<1> DEFINE e == << >>
           of == [k \in {} |-> 0]
<1>1. Len(e) = 0 /\ DOMAIN e = {} /\ e \in Seq([seq : Nat, data : Seq(Bytes)])
  OBVIOUS
<1>2. l \in Seq(Sniffed) /\ Len(l) \in Nat
  BY DEF Stretch
<1>3. g.ascii = e /\ g.zep = e
  OBVIOUS
<1> HIDE DEF e
<1>4. Shows(l, e, l)
  <2>1. Len(l) = Len(e) + Len(l) /\ \A i \in DOMAIN l : Len(e) + i = i
    BY <1>1, <1>2
  <2> QED
    BY <1>1, <2>1 DEF Shows
<1>5. of \in [{} -> 1..n] /\ DOMAIN of = {}
  OBVIOUS
<1> HIDE DEF of
<1>6. Sends(g, of, n) /\ Ahead(l, of)
  BY <1>1, <1>3, <1>5 DEF Sends, Ahead
<1>7. Numbered(g)
  BY <1>1, <1>3 DEF Numbered
<1>8. Accounted(g, l, s)
  BY <1>1, <1>3 DEF Accounted, e
<1>9. Reads(g, l, of, l, n, live, s)
  BY <1>3, <1>4, <1>6, <1>7, <1>8 DEF Reads
<1> QED
  BY <1>9 DEF InStep

-----------------------------------------------------------------------------
(* The sniffer's invariant, action by action.                              *)

\* Whole words, of the frames that were heard.
Ready(l, n) == Stretch(l) /\ Complete(l) /\ Upto(l, n)

\* The messages that were sent are of the frames that were heard.
Told(g, n) == Numbered(g) /\ \E of : Sends(g, of, n)

\* One session of the sniffer: nothing is sent and noted before the host
\* synchronises, and then host and stream are in step.
Session(g, l, n, live, s) ==
  /\ Ready(l, n) /\ Told(g, n)
  /\ g.state \in {"ST_SniffConfig", "ST_SniffConfigConfirm"} => g.zep = << >> /\ s.begun = {}
  /\ g.state = "ST_SniffSyncData" => InStep(g, l, n, live, s)

SniffInv == Task = "T_SNIFF" => Session(t, line, dev.air, t.fd = 1 /\ ~hup, seen)

\* What a handler has to leave: the host g, with u still to be read.
Left(g, u, note) ==
  /\ Ready(u, dev.air) /\ Told(g, dev.air)
  /\ g.state = "ST_SniffConfigConfirm" => g.zep = << >> /\ note.begun = {}
  /\ g.state = "ST_SniffConfig" => g.zep = << >> /\ (note.begun = {} \/ t.state # "ST_SniffConfig")
  /\ g.state = "ST_SniffSyncData" => InStep(g, u, dev.air, g.fd = 1 /\ ~hup, Thrown(g, note))

\* Nothing on the line.
LEMMA EmptyReady == \A n : Ready(<< >>, n)
<1> DEFINE e == << >>
<1>1. e \in Seq(Sniffed) /\ DOMAIN e = {}
  OBVIOUS
<1> HIDE DEF e
<1>2. \A n : Upto(e, n)
  BY <1>1 DEF Upto
<1>3. Stretch(e)
  BY <1>1 DEF Stretch
<1>4. Complete(e)
  BY DEF Complete, e
<1> QED
  BY <1>2, <1>3, <1>4 DEF Ready, e

\* Messages are told by what was sent.
LEMMA ToldSame ==
  ASSUME NEW g, NEW h, h.zep = g.zep, h.sniffSeqNum = g.sniffSeqNum, NEW n, Told(g, n)
  PROVE  Told(h, n)
  BY SendsSame DEF Told

\* Before anything is sent.
LEMMA ToldNothing ==
  ASSUME NEW g, g.zep = << >>, g.sniffSeqNum = 0, NEW n
  PROVE  Told(g, n)
<1> DEFINE e == << >>
           of == [k \in {} |-> 0]
<1>1. Len(e) = 0 /\ DOMAIN e = {} /\ e \in Seq([seq : Nat, data : Seq(Bytes)])
  OBVIOUS
<1>2. g.zep = e
  OBVIOUS
<1>3. of \in [{} -> 1..n] /\ DOMAIN of = {}
  OBVIOUS
<1> HIDE DEF e, of
<1>4. Sends(g, of, n)
  BY <1>1, <1>2, <1>3 DEF Sends
<1>5. Numbered(g)
  BY <1>1, <1>2 DEF Numbered
<1> QED
  BY <1>4, <1>5 DEF Told

\* The step that follows a handler.
LEMMA TurnSession ==
  ASSUME Task = "T_SNIFF", NEW g, Typed(g), NEW u \in Seq(Sniffed), NEW note, SeenIn(note),
         Turn(g, u, note), Left(g, u, note)
  PROVE  SniffInv'
<1> DEFINE h == [g EXCEPT !.port = << >>]
           l == IF g.fd = 0 THEN << >> ELSE u
           n == dev.air
           live == h.fd = 1 /\ ~(hup /\ g.fd = 1)
           s == Noted(g, note)
<1>1. t' = h /\ line' = l /\ dev' = dev /\ hup' = (hup /\ g.fd = 1) /\ seen' = s /\ job' = job
  BY DEF Turn
<1>2. /\ h.zep = g.zep /\ h.sniffSeqNum = g.sniffSeqNum /\ h.ascii = g.ascii /\ h.rp = g.rp
      /\ h.state = g.state /\ h.fd = g.fd /\ g.ascii \in Seq(Bytes) /\ g.fd \in {0, 1}
  BY DEF Typed, Host
<1> HIDE DEF h
<1>3. Ready(l, n)
  BY EmptyReady DEF Left
<1>4. Told(h, n)
  BY <1>2, ToldSame DEF Left
<1>5. ASSUME g.state \in {"ST_SniffConfig", "ST_SniffConfigConfirm"}
      PROVE  h.zep = << >> /\ s.begun = {}
  <2>0. /\ g.state = "ST_SniffConfigConfirm" => g.zep = << >> /\ note.begun = {}
        /\ g.state = "ST_SniffConfig" =>
             g.zep = << >> /\ (note.begun = {} \/ t.state # "ST_SniffConfig")
    BY Zenon DEF Left
  <2>1. h.zep = << >>
    BY <1>2, <1>5, <2>0
  <2>2. CASE g.state = "ST_SniffConfig" /\ t.state # "ST_SniffConfig"
    BY <2>1, <2>2 DEF Noted, Fresh
  <2>3. CASE ~(g.state = "ST_SniffConfig" /\ t.state # "ST_SniffConfig")
    <3>1. s = note
      BY <1>5, <2>3 DEF Noted
    <3>2. note.begun = {}
      BY <1>5, <2>0, <2>3
    <3> QED
      BY <2>1, <3>1, <3>2
  <2> QED
    BY <2>1, <2>2, <2>3
<1>6. ASSUME g.state = "ST_SniffSyncData"
      PROVE  InStep(h, l, n, live, s)
  <2> DEFINE v == g.fd = 1 /\ ~hup
  <2>1. s = Thrown(g, note)
    BY <1>6 DEF Noted, Thrown
  <2>2. InStep(g, u, n, v, Thrown(g, note))
    BY <1>6 DEF Left
  <2> HIDE DEF n, s, v
  <2>3. InStep(g, u, n, v, s)
    BY <2>1, <2>2
  <2>4. CASE g.fd = 0
    <3>1. InStep(g, << >>, n, FALSE, s)
      BY <1>2, <2>3, ClosedKeeps, Zenon
    <3>2. live => FALSE
      BY <1>2, <2>4
    <3>3. l = << >>
      BY <2>4
    <3> HIDE DEF live, l
    <3>4. InStep(h, << >>, n, live, s)
      BY <1>2, <3>1, <3>2, SameKeeps, Zenon
    <3> QED
      BY <3>3, <3>4
  <2>5. CASE g.fd # 0
    <3>1. live => v
      BY <1>2 DEF v
    <3>2. l = u
      BY <2>5
    <3> HIDE DEF live, l
    <3>3. InStep(h, u, n, live, s)
      BY <1>2, <2>3, <3>1, SameKeeps
    <3> QED
      BY <3>2, <3>3
  <2> QED
    BY <2>4, <2>5
<1>7. Session(h, l, n, live, s)
  BY <1>2, <1>3, <1>4, <1>5, <1>6 DEF Session
<1> HIDE DEF l, s
<1>8. Session(t', line', dev'.air, t'.fd = 1 /\ ~hup', seen')
  BY <1>1, <1>7, Zenon
<1> QED
  BY <1>8 DEF SniffInv

\* A handler that sends nothing and keeps what was collected.
LEMMA QuietLeft ==
  ASSUME SniffInv, Task = "T_SNIFF", SeenIn(seen),
         NEW g, g.zep = t.zep, g.sniffSeqNum = t.sniffSeqNum,
         NEW u, Ready(u, dev.air),
         g.state \in {"ST_SniffConfig", "ST_SniffConfigConfirm"} =>
           t.state \in {"ST_SniffConfig", "ST_SniffConfigConfirm"},
         g.state = "ST_SniffSyncData" =>
           /\ t.state = "ST_SniffSyncData" /\ u = line
           /\ g.ascii = t.ascii /\ g.rp = t.rp /\ g.fd = t.fd
  PROVE  Left(g, u, seen)
<1> DEFINE live == t.fd = 1 /\ ~hup
           n == dev.air
<1>1. /\ Ready(line, n) /\ Told(t, n)
      /\ t.state \in {"ST_SniffConfig", "ST_SniffConfigConfirm"} =>
           t.zep = << >> /\ seen.begun = {}
      /\ t.state = "ST_SniffSyncData" => InStep(t, line, n, live, seen)
  BY Zenon DEF SniffInv, Session
<1>2. Told(g, n)
  BY <1>1, ToldSame
<1>3. g.state \in {"ST_SniffConfig", "ST_SniffConfigConfirm"} => g.zep = << >> /\ seen.begun = {}
  BY <1>1
<1>4. ASSUME g.state = "ST_SniffSyncData"
      PROVE  InStep(g, u, n, g.fd = 1 /\ ~hup, Thrown(g, seen))
  <2> DEFINE v == g.fd = 1 /\ ~hup
  <2>1. v => live
    BY <1>4
  <2>2. InStep(t, line, n, live, seen)
    BY <1>1, <1>4
  <2> HIDE DEF v, live, n
  <2>3. InStep(g, u, n, v, seen)
    BY <1>4, <2>1, <2>2, SameKeeps
  <2>4. InStep(g, u, n, v, Thrown(g, seen))
    BY <2>3, ThrownKeeps
  <2> QED
    BY <2>4 DEF v
<1> QED
  BY <1>2, <1>3, <1>4, Zenon DEF Left

\* EV_DISCONNECTED sends nothing and ends the session.
LEMMA DisconnectedQuiet ==
  ASSUME NEW g, g \in Host
  PROVE  LET h == Disconnected(g)
         IN  /\ h.zep = g.zep /\ h.sniffSeqNum = g.sniffSeqNum
             /\ h.state \notin {"ST_SniffConfig", "ST_SniffConfigConfirm", "ST_SniffSyncData"}
<1>1. CASE g.state = "ST_Connected"
  BY <1>1, Zenon DEF Disconnected, Armed, Host, SniffStates
<1>2. CASE g.state \in SniffStates
  BY <1>2 DEF Disconnected, Armed, Host, SniffStates
<1>3. CASE g.state = "ST_SniffTeardown"
  BY <1>3, Zenon DEF Disconnected, Armed, Host, SniffStates, SniffTeardown, UdpFree
<1>4. CASE g.state \notin SniffStates \cup {"ST_Connected", "ST_SniffTeardown"}
  BY <1>4 DEF Disconnected, SniffStates
<1> QED
  BY <1>1, <1>2, <1>3, <1>4

\* Closing the port ends the session.
LEMMA DisconnectQuiet ==
  ASSUME NEW g, g \in Host
  PROVE  LET h == Disconnect(g)
         IN  /\ h.zep = g.zep /\ h.sniffSeqNum = g.sniffSeqNum
             /\ h.state \notin {"ST_SniffConfig", "ST_SniffConfigConfirm", "ST_SniffSyncData"}
<1> DEFINE a == [g EXCEPT !.fd = 0]
<1>1. a \in Host /\ a.zep = g.zep /\ a.sniffSeqNum = g.sniffSeqNum
  BY Zenon DEF Host
<1> HIDE DEF a
<1> QED
  BY <1>1, DisconnectedQuiet, Zenon DEF Disconnect, a

\* Writing sends nothing over UDP, and a closed port ends the session.
LEMMA WriteQuiet ==
  ASSUME NEW g, g \in Host, NEW c, NEW n
  PROVE  LET h == Write(g, c, n)
         IN  /\ h.zep = g.zep /\ h.sniffSeqNum = g.sniffSeqNum
             /\ \/ h.state \notin {"ST_SniffConfig", "ST_SniffConfigConfirm", "ST_SniffSyncData"}
                \/ h.state = g.state /\ h.ascii = g.ascii /\ h.rp = g.rp /\ h.fd = g.fd
<1> DEFINE p == Append(g.port, [cmd |-> c, addr |-> n])
           a == [g EXCEPT !.port = p]
<1>1. /\ a.zep = g.zep /\ a.sniffSeqNum = g.sniffSeqNum /\ a.state = g.state
      /\ a.ascii = g.ascii /\ a.rp = g.rp /\ a.fd = g.fd
  BY DEF Host
<1>2. Write(g, c, n) = a \/ Write(g, c, n) = Disconnected(g)
  BY DEF Write
<1> HIDE DEF a
<1> QED
  BY <1>1, <1>2, DisconnectedQuiet

\* A session begins.
LEMMA SniffConnectLeft ==
  ASSUME SniffInv, Task = "T_SNIFF", t.state # "ST_SniffConfig", NEW g, g \in Host, NEW open
  PROVE  Left(InitEvent(g, open), line, seen)
<1> DEFINE b == [g EXCEPT !.sniffSeqNum = 0, !.zep = << >>]
           a == UdpInit(b)
           c == Connect(a, open)
           d == Armed([c EXCEPT !.state = "ST_SniffConfig"])
           e == Armed([a EXCEPT !.state = "ST_SniffTeardown"])
           h == InitEvent(g, open)
<1>1. DOMAIN b = DOMAIN g /\ b.zep = << >> /\ b.sniffSeqNum = 0
  BY DEF Host
<1>d. {"zep", "sniffSeqNum", "state", "udp", "leaks", "fd", "timer"} \subseteq DOMAIN g
  BY DEF Host
<1> HIDE DEF b
<1>2. DOMAIN a = DOMAIN g /\ a.zep = << >> /\ a.sniffSeqNum = 0
  BY <1>1, <1>d DEF UdpInit
<1> HIDE DEF a
<1>3. DOMAIN c = DOMAIN g /\ c.zep = << >> /\ c.sniffSeqNum = 0
  BY <1>2, <1>d DEF Connect
<1> HIDE DEF c
<1>4. d.zep = << >> /\ d.sniffSeqNum = 0 /\ d.state = "ST_SniffConfig"
  BY <1>3, <1>d DEF Armed
<1>5. e.zep = << >> /\ e.sniffSeqNum = 0 /\ e.state = "ST_SniffTeardown"
  BY <1>2, <1>d DEF Armed
<1> HIDE DEF d, e
<1>6. h = d \/ h = e
  BY DEF InitEvent, SniffConnectAction, a, b, c, d, e
<1> HIDE DEF h
<1>7. h.zep = << >> /\ h.sniffSeqNum = 0 /\ h.state \in {"ST_SniffConfig", "ST_SniffTeardown"}
  BY <1>4, <1>5, <1>6
<1>8. Told(h, dev.air)
  BY <1>7, ToldNothing
<1>9. Ready(line, dev.air)
  BY DEF SniffInv, Session
<1> QED
  BY <1>7, <1>8, <1>9 DEF Left, h

\* EV_TIMEOUT: the configuration, or the end of the session.
LEMMA TimeoutLeft ==
  ASSUME SniffInv, Task = "T_SNIFF", SeenIn(seen), Typed(t), Placed(t), NEW open
  PROVE  Left(Timeout(t, open), line, seen)
<1> DEFINE a == [t EXCEPT !.timer = FALSE]
           h == Timeout(t, open)
<1>1. /\ a \in Host /\ a.zep = t.zep /\ a.sniffSeqNum = t.sniffSeqNum /\ a.state = t.state
      /\ t.state \in {"ST_Init", "ST_SniffConfig", "ST_SniffConfigConfirm", "ST_SniffSyncData",
                      "ST_SniffTeardown"}
  BY Zenon DEF Typed, Host, Placed, Resting, SniffStates
<1>2. Ready(line, dev.air)
  BY DEF SniffInv, Session
<1>3. h = IF t.state = "ST_Init" THEN InitEvent(a, open) ELSE SniffTimeout(a)
  <2> HIDE DEF a
  <2>1. h = CASE a.state = "ST_Init"                                -> InitEvent(a, open)
              [] a.state = "ST_Connected"                           -> ConnectedTimeout(a)
              [] a.state \in SniffStates \cup {"ST_SniffTeardown"} -> SniffTimeout(a)
              [] OTHER                                              -> DumpTimeout(a)
    BY DEF Timeout, a
  <2> HIDE DEF h
  <2> QED
    BY <1>1, <2>1 DEF SniffStates
<1> HIDE DEF a, h
<1>4. CASE t.state = "ST_Init"
  <2>1. Left(InitEvent(a, open), line, seen)
    BY <1>1, <1>4, SniffConnectLeft
  <2> QED
    BY <1>3, <1>4, <2>1 DEF h
<1>5. CASE t.state # "ST_Init"
  <2>1. h = SniffTimeout(a)
    BY <1>3, <1>5
  <2>2. h.zep = t.zep /\ h.sniffSeqNum = t.sniffSeqNum
          /\ h.state \in {"ST_SniffConfigConfirm", "ST_Init", "ST_SniffTeardown"}
          /\ (h.state = "ST_SniffConfigConfirm" => t.state = "ST_SniffConfig")
    <3>1. CASE t.state = "ST_SniffConfig"
      <4> DEFINE w == Write(a, "sniff", 0)
                 x == [w EXCEPT !.ascii = << >>, !.state = "ST_SniffConfigConfirm"]
      <4>1. w.zep = a.zep /\ w.sniffSeqNum = a.sniffSeqNum
        BY <1>1, WriteQuiet
      <4>2. {"zep", "sniffSeqNum", "state", "ascii", "timer"} \subseteq DOMAIN w
        <5>1. w \in Host
          <6>1. Typed(a)
            BY <1>1 DEF Typed, Host, a
          <6> QED
            BY <6>1, WriteGood, CmdsTyped, Zenon DEF Typed
        <5> QED
          BY <5>1 DEF Host
      <4> HIDE DEF w
      <4>3. h = Armed(x)
        BY <1>1, <2>1, <3>1 DEF SniffTimeout, SniffConfigTimeout, w
      <4>4. Armed(x).zep = w.zep /\ Armed(x).sniffSeqNum = w.sniffSeqNum
              /\ Armed(x).state = "ST_SniffConfigConfirm"
        BY <4>2 DEF Armed
      <4> QED
        BY <1>1, <3>1, <4>1, <4>3, <4>4
    <3>2. CASE t.state = "ST_SniffTeardown"
      <4>1. h = SniffTeardown(a)
        BY <1>1, <2>1, <3>2 DEF SniffTimeout
      <4> QED
        BY <1>1, <4>1 DEF SniffTeardown, UdpFree, Armed, Host
    <3>3. CASE t.state \notin {"ST_SniffConfig", "ST_SniffTeardown"}
      <4>1. h = Armed([a EXCEPT !.state = "ST_SniffTeardown"])
        BY <1>1, <2>1, <3>3 DEF SniffTimeout
      <4> QED
        BY <1>1, <4>1 DEF Armed, Host
    <3> QED
      BY <3>1, <3>2, <3>3
  <2>3. Left(h, line, seen)
    BY <1>2, <2>2, QuietLeft
  <2> QED
    BY <2>3 DEF h
<1> QED
  BY <1>4, <1>5

\* A handler that leaves the host synchronising.
LEMMA SyncLeft ==
  ASSUME NEW g, g.state = "ST_SniffSyncData", NEW u, Ready(u, dev.air), NEW note,
         NEW live, InStep(g, u, dev.air, live, Thrown(g, note)),
         g.fd = 1 /\ ~hup => live
  PROVE  Left(g, u, note)
<1> DEFINE v == g.fd = 1 /\ ~hup
           n == dev.air
           s == Thrown(g, note)
<1>1. InStep(g, u, n, live, s) /\ (v => live) /\ Ready(u, n) /\ g.state = "ST_SniffSyncData"
  OBVIOUS
<1> HIDE DEF v, n, s
<1>2. InStep(g, u, n, v, s)
  BY <1>1, SameKeeps
<1>3. Told(g, n)
  BY <1>1, Zenon DEF InStep, Reads, Told
<1>4. /\ Ready(u, n) /\ Told(g, n)
      /\ g.state = "ST_SniffConfigConfirm" => g.zep = << >> /\ note.begun = {}
      /\ g.state = "ST_SniffConfig" => g.zep = << >> /\ (note.begun = {} \/ t.state # "ST_SniffConfig")
      /\ g.state = "ST_SniffSyncData" => InStep(g, u, n, v, s)
  BY <1>1, <1>2, <1>3
<1> QED
  BY <1>4, Zenon DEF Left, v, n, s

\* EV_PL_LOOP.
LEMMA LoopLeft ==
  ASSUME Unmistakable, SniffInv, Task = "T_SNIFF", Typed(t), Placed(t), SeenIn(seen),
         dev.air \in Nat, line \in Seq(Sniffed)
  PROVE  Left(LoopEvent(t), line, seen)
<1> DEFINE live == t.fd = 1 /\ ~hup
           n == dev.air
<1>1. Ready(line, n) /\ (t.state = "ST_SniffSyncData" => InStep(t, line, n, live, seen))
  BY Zenon DEF SniffInv, Session
<1>2. CASE t.state = "ST_SniffSyncData"
  <2> DEFINE h == SniffSyncData(t)
  <2>1. n \in Nat /\ InStep(t, line, n, live, seen)
    BY <1>1, <1>2
  <2>2. h.state = "ST_SniffSyncData" /\ h.fd = t.fd /\ InStep(h, line, n, live, Thrown(h, seen))
    <3> HIDE DEF n, live
    <3> QED
      BY <1>2, <2>1, SyncKeeps
  <2> HIDE DEF h
  <2>3. h.fd = 1 /\ ~hup => live
    BY <2>2
  <2> HIDE DEF live
  <2>4. Left(h, line, seen)
    BY <1>1, <2>2, <2>3, SyncLeft
  <2> QED
    BY <1>2, <2>4 DEF LoopEvent, h
<1>3. CASE t.state # "ST_SniffSyncData"
  <2> DEFINE a == [t EXCEPT !.evAction = FALSE]
             h == IF t.evAction THEN a ELSE t
  <2>1. /\ a.zep = t.zep /\ a.sniffSeqNum = t.sniffSeqNum /\ a.state = t.state
        /\ t.state \notin {"ST_DumpFlashQueryFirmwareVersion", "ST_DumpFlashSend"}
    BY Zenon DEF Typed, Host, Placed, Resting, SniffStates
  <2>2. LoopEvent(t) = h
    BY <1>3, <2>1 DEF LoopEvent, DumpAction
  <2>3. h.zep = t.zep /\ h.sniffSeqNum = t.sniffSeqNum /\ h.state = t.state
    BY <2>1
  <2> HIDE DEF h
  <2>4. Left(h, line, seen)
    BY <1>1, <1>3, <2>3, QuietLeft
  <2> QED
    BY <2>2, <2>4
<1> QED
  BY <1>2, <1>3

\* The line behind what was read.
LEMMA RestReady ==
  ASSUME NEW l \in Seq(Sniffed), NEW n, Ready(l, n), NEW p \in 1..Len(l)
  PROVE  Ready(SubSeq(l, p + 1, Len(l)), n)
<1> DEFINE r == SubSeq(l, p + 1, Len(l))
<1>1. r \in Seq(Sniffed) /\ Len(r) = Len(l) - p /\ \A i \in 1..(Len(l) - p) : r[i] = l[i + p]
  BY ChunkOf
<1> HIDE DEF r
<1>2. p \in Nat /\ Len(r) + p <= Len(l) /\ Len(r) + p = Len(l)
        /\ \A i \in DOMAIN r : r[i] = l[i + p]
  BY <1>1
<1>3. /\ Stretch(r) /\ \A k : Upto(l, k) => Upto(r, k)
      /\ Len(r) + p = Len(l) /\ Complete(l) => Complete(r)
  BY <1>1, <1>2, StretchPart, Zenon DEF Ready
<1> QED
  BY <1>2, <1>3 DEF Ready, r

\* EV_RX_ASCII in the other states.
LEMMA AsciiQuiet ==
  ASSUME NEW g, g \in Host, g.state \notin {"ST_SniffSyncData", "ST_SniffRecvData"}
  PROVE  LET h == SniffAscii(g)
         IN  /\ h.zep = g.zep /\ h.sniffSeqNum = g.sniffSeqNum
             /\ \/ h.state \in {g.state, "ST_Init"} /\ g.state # "ST_SniffConfigConfirm"
                \/ h.state = g.state
                \/ /\ h.state = "ST_SniffSyncData" /\ g.state = "ST_SniffConfigConfirm"
                   /\ h.ascii = << >> /\ h.rp = 0
<1>1. CASE g.state = "ST_SniffConfigConfirm"
  <2>1. SniffAscii(g) = SniffConfigConfirmAscii(g)
    BY <1>1 DEF SniffAscii
  <2> QED
    BY <1>1, <2>1 DEF SniffConfigConfirmAscii, Armed, Host
<1>2. CASE g.state = "ST_SniffTeardown"
  <2>1. SniffAscii(g) = SniffTeardown(g)
    BY <1>2 DEF SniffAscii
  <2> QED
    BY <1>2, <2>1 DEF SniffTeardown, UdpFree, Armed, Host
<1>3. CASE g.state \notin {"ST_SniffConfigConfirm", "ST_SniffTeardown"}
  <2>1. SniffAscii(g) = g
    BY <1>3 DEF SniffAscii
  <2> QED
    BY <1>3, <2>1
<1> QED
  BY <1>1, <1>2, <1>3

\* Bytes are read.
LEMMA ReadLeft ==
  ASSUME Unmistakable, SniffInv, Task = "T_SNIFF", Good(t), SeenIn(seen),
         dev.air \in Nat, line \in Seq(Sniffed), NEW p \in 1..Len(line),
         NEW chunk, chunk = SubSeq(line, 1, p),
         NEW rest, rest = SubSeq(line, p + 1, Len(line))
  PROVE  Left(Received(t, chunk), rest, Notes(chunk))
<1> DEFINE live == t.fd = 1 /\ ~hup
           n == dev.air
           x == Notes(chunk)
           c == [i \in DOMAIN chunk |-> chunk[i].byte]
           a == Collect(t, c)
           h == SniffReceived(t, c)
<1>1. /\ Ready(line, n) /\ Told(t, n)
      /\ t.state = "ST_SniffConfigConfirm" => t.zep = << >> /\ seen.begun = {}
      /\ t.state = "ST_SniffSyncData" => InStep(t, line, n, live, seen)
  BY Zenon DEF SniffInv, Session
<1>2. chunk \in Seq(Sniffed) /\ Len(chunk) = p /\ c \in Seq(Bytes) /\ rest \in Seq(Sniffed)
  BY ChunkOf
<1>3. Ready(rest, n)
  <2> DEFINE r == SubSeq(line, p + 1, Len(line))
  <2>1. Ready(line, n) /\ line \in Seq(Sniffed) /\ p \in 1..Len(line)
    BY <1>1
  <2> HIDE DEF n
  <2>2. Ready(r, n)
    BY <2>1, RestReady, Zenon
  <2>3. rest = r
    OBVIOUS
  <2> HIDE DEF r
  <2> QED
    BY <2>2, <2>3, Zenon
<1>4. SeenIn(x)
  <2>1. chunk # << >>
    <3>1. Len(chunk) = p /\ Len(line) \in Nat
      BY <1>2
    <3>2. Len(chunk) # 0
      BY <3>1
    <3> QED
      BY <3>2, Zenon
  <2> QED
    BY <1>2, <2>1, NotesTyped, Zenon
<1>5. Received(t, chunk) = h /\ (h = a \/ h = SniffAscii(a))
  BY Zenon DEF Received, SniffReceived
<1>6. /\ Good(a) /\ a.state = t.state /\ a.fd = t.fd
      /\ a.zep = t.zep /\ a.sniffSeqNum = t.sniffSeqNum
  <2>1. Good(a) /\ a.state = t.state
    BY <1>2, CollectGood, Zenon
  <2>2. a.fd = t.fd /\ a.zep = t.zep /\ a.sniffSeqNum = t.sniffSeqNum
    BY Zenon DEF Good, Typed, Host, Collect
  <2> QED
    BY <2>1, <2>2, Zenon
<1>7. t.state # "ST_SniffRecvData" /\ Typed(a) /\ a \in Host
  BY <1>6, Zenon DEF Good, Typed, Placed, Resting
<1>8. CASE t.state = "ST_SniffSyncData"
  <2> DEFINE full == Len(t.ascii) + Len(chunk) > AsciiCap
             v == SniffSyncData(a)
  <2>1. NotedRead(x, seen, chunk, full)
    BY <1>8, Zenon DEF Notes, NotedRead, SeenIn
  <2> HIDE DEF a, c, h, x, n, live
  <2>2. InStep(a, rest, n, live, x)
    <3>1. Typed(t) /\ InStep(t, line, n, live, seen)
      BY <1>1, <1>8 DEF Good
    <3> QED
      BY <2>1, <3>1, ReadKeeps, Zenon DEF a, c
  <2>3. CASE h = a
    <3>1. InStep(a, rest, n, live, Thrown(a, x))
      BY <1>4, <2>2, ThrownKeeps
    <3>2. a.fd = 1 /\ ~hup => live
      BY <1>6 DEF live
    <3>3. Left(a, rest, x)
      BY <1>3, <1>6, <1>8, <3>1, <3>2, SyncLeft DEF n
    <3> QED
      BY <1>5, <2>3, <3>3 DEF x
  <2>4. CASE h = SniffAscii(a)
    <3>1. h = v
      BY <1>6, <1>8, <2>4 DEF SniffAscii
    <3>2. n \in Nat /\ a.state = "ST_SniffSyncData"
      BY <1>6, <1>8 DEF n
    <3>3. v.state = "ST_SniffSyncData" /\ v.fd = a.fd /\ InStep(v, rest, n, live, Thrown(v, x))
      BY <1>2, <1>4, <1>7, <2>2, <3>2, SyncKeeps, Zenon
    <3> HIDE DEF v
    <3>4. v.fd = 1 /\ ~hup => live
      BY <1>6, <3>3 DEF live
    <3>5. Left(v, rest, x)
      BY <1>3, <3>3, <3>4, SyncLeft DEF n
    <3> QED
      BY <1>5, <3>1, <3>5 DEF x
  <2> QED
    BY <1>5, <2>3, <2>4
<1>9. CASE t.state # "ST_SniffSyncData"
  <2>1. x = seen
    BY <1>9 DEF Notes
  <2>2. /\ h.zep = t.zep /\ h.sniffSeqNum = t.sniffSeqNum
        /\ \/ h.state \in {t.state, "ST_Init"}
           \/ /\ h.state = "ST_SniffSyncData" /\ t.state = "ST_SniffConfigConfirm"
              /\ h.ascii = << >> /\ h.rp = 0
    <3> HIDE DEF a, h
    <3>1. CASE h = a
      BY <1>6, <3>1
    <3>2. CASE h = SniffAscii(a)
      BY <1>6, <1>7, <1>9, <3>2, AsciiQuiet
    <3> QED
      BY <1>5, <3>1, <3>2
  <2> HIDE DEF h, a, c, x, n, live
  <2>3. CASE h.state = "ST_SniffSyncData"
    <3>1. h.ascii = << >> /\ h.rp = 0 /\ h.zep = << >> /\ seen.begun = {}
      BY <1>1, <1>9, <2>2, <2>3
    <3>2. h.sniffSeqNum = 0
      BY <1>1, <2>2, <3>1 DEF Told, Numbered
    <3>3. Thrown(h, seen).begun = {}
      BY <3>1 DEF Thrown, SeenIn
    <3>4. InStep(h, rest, n, TRUE, Thrown(h, seen))
      BY <1>3, <3>1, <3>2, <3>3, StartKeeps, Zenon DEF Ready
    <3>5. Left(h, rest, seen)
      BY <1>3, <2>3, <3>4, SyncLeft, Zenon DEF n
    <3> QED
      BY <1>5, <2>1, <3>5 DEF x
  <2>4. CASE h.state # "ST_SniffSyncData"
    <3>1. Left(h, rest, seen)
      BY <1>3, <2>2, <2>4, QuietLeft DEF n
    <3> QED
      BY <1>5, <2>1, <3>1 DEF x
  <2> QED
    BY <2>3, <2>4
<1> QED
  BY <1>8, <1>9

\* A line typed, or the end of stdin.
LEMMA KeysLeft ==
  ASSUME SniffInv, Task = "T_SNIFF", Typed(t), SeenIn(seen)
  PROVE  Left(IF snap.key = "eof" THEN Shut(t) ELSE Write(t, "parameter", 0), line, seen)
<1> DEFINE h == IF snap.key = "eof" THEN Shut(t) ELSE Write(t, "parameter", 0)
<1>1. Ready(line, dev.air)
  BY DEF SniffInv, Session
<1>2. /\ h.zep = t.zep /\ h.sniffSeqNum = t.sniffSeqNum
      /\ \/ h.state \notin {"ST_SniffConfig", "ST_SniffConfigConfirm", "ST_SniffSyncData"}
         \/ h.state = t.state /\ h.ascii = t.ascii /\ h.rp = t.rp /\ h.fd = t.fd
  <2>1. CASE snap.key = "eof"
    <3>1. h = Shut(t)
      BY <2>1
    <3> QED
      BY <3>1 DEF Shut, Typed, Host
  <2>2. CASE snap.key # "eof"
    <3>1. h = Write(t, "parameter", 0)
      BY <2>2
    <3> HIDE DEF h
    <3> QED
      BY <3>1, WriteQuiet DEF Typed
  <2> QED
    BY <2>1, <2>2
<1> HIDE DEF h
<1>3. Left(h, line, seen)
  BY <1>1, <1>2, QuietLeft
<1> QED
  BY <1>3 DEF h

\* The port is closed.
LEMMA DisconnectLeft ==
  ASSUME SniffInv, Task = "T_SNIFF", Typed(t), SeenIn(seen)
  PROVE  Left(Disconnect(t), << >>, seen)
<1> DEFINE h == Disconnect(t)
<1>1. /\ h.zep = t.zep /\ h.sniffSeqNum = t.sniffSeqNum
      /\ h.state \notin {"ST_SniffConfig", "ST_SniffConfigConfirm", "ST_SniffSyncData"}
  BY DisconnectQuiet DEF Typed
<1> HIDE DEF h
<1>2. Ready(<< >>, dev.air)
  BY EmptyReady
<1>3. Left(h, << >>, seen)
  BY <1>1, <1>2, QuietLeft
<1> QED
  BY <1>3 DEF h

\* Where nothing of the session changes.
LEMMA SniffKept ==
  ASSUME SniffInv, job' = job, t' = t, line' = line, dev'.air = dev.air, seen' = seen, hup' = hup
  PROVE  SniffInv'
<1>1. Task' = Task
  BY DEF Task
<1>2. Task = "T_SNIFF" => Session(t', line', dev'.air, t'.fd = 1 /\ ~hup', seen')
  BY DEF SniffInv
<1> QED
  BY <1>1, <1>2 DEF SniffInv

\* Where the task is another.
LEMMA OtherTask ==
  ASSUME job' = job, Task # "T_SNIFF"
  PROVE  SniffInv'
<1>1. Task' = Task
  BY DEF Task
<1> QED
  BY <1>1 DEF SniffInv

\* The sniffer says something: its answer, or the next frame.
LEMMA HeardSession ==
  ASSUME SniffInv, Task = "T_SNIFF", Typed(t), line \in Seq(Sniffed), dev.air \in Nat,
         NEW f \in 0..Len(Script), f # 0 => f = dev.air + 1, f <= dev'.air,
         dev'.air \in {dev.air, dev.air + 1},
         line' = Heard(Word(f)), job' = job, t' = t, hup' = hup, seen' = seen
  PROVE  SniffInv'
<1> DEFINE live == t.fd = 1 /\ ~hup
           n == dev.air
           k == dev'.air
           w == Word(f)
           m == line \o w
<1>1. /\ Stretch(line) /\ Complete(line) /\ Upto(line, n) /\ Told(t, n)
      /\ t.state \in {"ST_SniffConfig", "ST_SniffConfigConfirm"} => t.zep = << >> /\ seen.begun = {}
      /\ t.state = "ST_SniffSyncData" => InStep(t, line, n, live, seen)
  BY Zenon DEF SniffInv, Session, Ready
<1>2. /\ n \in Nat /\ f \in 0..Len(Script) /\ (f # 0 => f = n + 1) /\ f <= k /\ k \in {n, n + 1}
      /\ line \in Seq(Sniffed) /\ t.ascii \in Seq(Bytes)
  BY DEF Typed, Host
<1>3. Task' = Task
  BY DEF Task
<1>4. line' = IF live THEN m ELSE line
  BY DEF Heard
<1> HIDE DEF n, k, w, live
<1>5. Ready(m, k)
  BY <1>1, <1>2, WordKeeps DEF Ready, w
<1>6. Ready(line, k) /\ Told(t, k)
  <2>1. CASE k = n
    BY <1>1, <2>1 DEF Ready
  <2>2. CASE k = n + 1
    <3>1. Upto(line, n + 1)
      BY <1>1, <1>2, UptoMore
    <3>2. Told(t, n + 1)
      <4>1. Numbered(t) /\ \E of : Sends(t, of, n)
        BY <1>1 DEF Told
      <4>2. \A of : Sends(t, of, n) => Sends(t, of, n + 1)
        BY <1>2, UptoMore
      <4> QED
        BY <4>1, <4>2 DEF Told
    <3> QED
      BY <1>1, <2>2, <3>1, <3>2 DEF Ready
  <2> QED
    BY <1>2, <2>1, <2>2
<1> HIDE DEF m
<1>7. CASE live
  <2>1. ASSUME t.state = "ST_SniffSyncData"
        PROVE  InStep(t, m, k, live, seen)
    <3>1. InStep(t, line, n, TRUE, seen)
      <4>1. InStep(t, line, n, live, seen)
        BY <1>1, <2>1
      <4> QED
        BY <1>7, <4>1, SameKeeps, Zenon
    <3>2. InStep(t, m, k, TRUE, seen)
      BY <1>2, <3>1, HeardKeeps, Zenon DEF m, w
    <3> QED
      BY <3>2, SameKeeps, Zenon
  <2>2. Session(t, m, k, live, seen)
    BY <1>1, <1>5, <1>6, <2>1 DEF Session
  <2>3. Session(t', line', dev'.air, t'.fd = 1 /\ ~hup', seen')
    BY <1>4, <1>7, <2>2 DEF k, live
  <2> QED
    BY <2>3 DEF SniffInv
<1>8. CASE ~live
  <2>1. ASSUME t.state = "ST_SniffSyncData"
        PROVE  InStep(t, line, k, live, seen)
    <3>1. InStep(t, line, n, live, seen)
      BY <1>1, <2>1
    <3>2. InStep(t, line, n + 1, live, seen)
      BY <1>2, <3>1, AirKeeps
    <3> QED
      BY <1>2, <3>1, <3>2
  <2>2. Session(t, line, k, live, seen)
    BY <1>1, <1>6, <2>1 DEF Session
  <2>3. Session(t', line', dev'.air, t'.fd = 1 /\ ~hup', seen')
    BY <1>4, <1>8, <2>2 DEF k, live
  <2> QED
    BY <2>3 DEF SniffInv
<1> QED
  BY <1>7, <1>8

\* The device is unplugged.
LEMMA UnplugSession ==
  ASSUME SniffInv, Task = "T_SNIFF", Typed(t), line \in Seq(Sniffed), dev'.air = dev.air,
         line' = << >>, hup' = (t.fd = 1), job' = job, t' = t, seen' = seen
  PROVE  SniffInv'
<1> DEFINE live == t.fd = 1 /\ ~hup
           n == dev.air
<1>1. /\ Told(t, n)
      /\ t.state \in {"ST_SniffConfig", "ST_SniffConfigConfirm"} => t.zep = << >> /\ seen.begun = {}
      /\ t.state = "ST_SniffSyncData" => InStep(t, line, n, live, seen)
  BY Zenon DEF SniffInv, Session
<1>2. t.ascii \in Seq(Bytes)
  BY DEF Typed, Host
<1> HIDE DEF n, live
<1>3. t.state = "ST_SniffSyncData" => InStep(t, << >>, n, FALSE, seen)
  BY <1>1, <1>2, ClosedKeeps, Zenon
<1>4. Ready(<< >>, n)
  BY EmptyReady
<1>5. Session(t, << >>, n, FALSE, seen)
  BY <1>1, <1>3, <1>4, Zenon DEF Session
<1>6. (t'.fd = 1 /\ ~hup') = FALSE
  BY Zenon
<1>7. Session(t', line', dev'.air, t'.fd = 1 /\ ~hup', seen')
  BY <1>5, <1>6, Zenon DEF n
<1> QED
  BY <1>7 DEF SniffInv

\* A step of the device or of its surroundings keeps the session.
LEMMA DeviceSniff ==
  ASSUME TypeInv, SniffInv, loop # "start" => Good(t), Typed(t),
         DeviceStep \/ Air \/ Repeat \/ Restart \/ Unplug \/ Replug
  PROVE  SniffInv'
<1>1. CASE Task # "T_SNIFF"
  <2>1. job' = job
    BY Zenon DEF DeviceStep, Air, Repeat, Restart, Unplug, Replug
  <2> QED
    BY <1>1, <2>1, OtherTask
<1>2. CASE Task = "T_SNIFF"
  <2>0. /\ line \in Seq(Sniffed) /\ dev.air \in 0..Len(Script) /\ dev.air \in Nat
        /\ dev \in [mode : {"app", "sniff", "gone"}, air : 0..Len(Script)]
        /\ Len(Script) \in Nat
    BY <1>2, SerialAssumption DEF TypeInv, WorldTyped
  <2>1. CASE DeviceStep
    <3>1. job' = job /\ t' = t /\ hup' = hup
      BY <2>1 DEF DeviceStep
    <3>2. CASE dev' = [dev EXCEPT !.mode = "sniff"] /\ line' = Heard(Said(<<O, K>>)) /\ seen' = seen
      <4>1. dev'.air = dev.air
        BY <2>0, <3>2
      <4>2. line' = Heard(Word(0)) /\ 0 \in 0..Len(Script)
        BY <2>0, <3>2 DEF Word
      <4>3. dev'.air \in {dev.air, dev.air + 1} /\ 0 <= dev'.air /\ (0 # 0 => 0 = dev.air + 1)
        BY <2>0, <4>1
      <4> QED
        BY <1>2, <2>0, <3>1, <3>2, <4>2, <4>3, HeardSession, Zenon
    <3>3. CASE UNCHANGED <<dev, line, seen>>
      BY <3>1, <3>3, SniffKept
    <3> QED
      BY <1>2, <2>1, <3>2, <3>3 DEF DeviceStep
  <2>2. CASE Air
    <3> DEFINE f == dev.air + 1
    <3>1. /\ dev' = [dev EXCEPT !.air = @ + 1] /\ dev.air < Len(Script) /\ line' = Heard(FrameBytes(f))
          /\ job' = job /\ t' = t /\ hup' = hup /\ seen' = seen
      BY <2>2 DEF Air
    <3>2. dev'.air = f
      BY <2>0, <3>1
    <3>3. f \in 0..Len(Script) /\ f # 0 /\ f <= dev'.air /\ dev'.air \in {dev.air, dev.air + 1}
            /\ (f # 0 => f = dev.air + 1)
      BY <2>0, <3>1, <3>2
    <3> HIDE DEF f
    <3>4. line' = Heard(Word(f))
      BY <3>1, <3>3 DEF Word
    <3> QED
      BY <1>2, <2>0, <3>1, <3>3, <3>4, HeardSession
  <2>3. CASE Restart
    <3>1. dev'.air = dev.air
      BY <2>0, <2>3 DEF Restart
    <3> QED
      BY <2>3, <3>1, SniffKept DEF Restart
  <2>4. CASE Unplug
    <3>1. dev'.air = dev.air
      BY <2>0, <2>4 DEF Unplug
    <3> QED
      BY <1>2, <2>0, <2>4, <3>1, UnplugSession DEF Unplug
  <2>5. CASE Replug
    <3>1. dev'.air = dev.air
      BY <2>0, <2>5 DEF Replug
    <3> QED
      BY <2>5, <3>1, SniffKept DEF Replug
  <2> QED
    BY <1>2, <2>1, <2>2, <2>3, <2>4, <2>5 DEF Repeat
<1> QED
  BY <1>1, <1>2

\* Every step keeps the sniffer's invariant.
LEMMA NextSniff ==
  ASSUME Unmistakable, TypeInv, SniffInv, [Next]_vars
  PROVE  SniffInv'
<1>0. /\ SeenIn(seen) /\ Typed(t) /\ (loop # "start" => Good(t))
      /\ (Task = "T_SNIFF" => line \in Seq(Sniffed)) /\ dev.air \in Nat
  <2>1. dev.air \in 0..Len(Script) /\ Len(Script) \in Nat
    BY SerialAssumption DEF TypeInv, WorldTyped
  <2>2. dev.air \in Nat
    BY <2>1
  <2> QED
    BY <2>2, BootedTyped DEF TypeInv, WorldTyped, HostInv, Good
<1>e. << >> \in Seq(Sniffed)
  OBVIOUS
<1>1. CASE Task # "T_SNIFF"
  <2>1. job' = job
    BY Zenon DEF Next, HostStep, Started, Poll, PollFails, TimerNotDue, TimerDue, HangUp, Read,
           ReadNothing, Keys, Exit, Terminated, DeviceStep, Air, Repeat, Restart, Unplug, Replug, Turn, vars
  <2> QED
    BY <1>1, <2>1, OtherTask
<1>2. CASE Task = "T_SNIFF"
  <2>0. line \in Seq(Sniffed)
    BY <1>0, <1>2
  <2>1. CASE Started
    <3>1. PICK open \in BOOLEAN : Turn(InitEvent(t, open), line, seen)
      BY <2>1 DEF Started
    <3>2. t = Booted /\ t.state # "ST_SniffConfig" /\ t \in Host
      BY <1>0, <2>1, BootedTyped DEF Started, TypeInv, HostInv, Typed
    <3>3. Left(InitEvent(t, open), line, seen)
      BY <1>2, <3>2, SniffConnectLeft
    <3>4. Typed(InitEvent(t, open))
      BY <3>2, BootedTyped, InitEventGood DEF Good
    <3> QED
      BY <1>0, <1>2, <2>0, <3>1, <3>3, <3>4, TurnSession
  <2>2. CASE Poll \/ PollFails
    <3>1. Turn(LoopEvent(t), line, seen) /\ Good(t)
      BY <1>0, <2>2 DEF Poll, PollFails
    <3>2. Left(LoopEvent(t), line, seen)
      BY <1>0, <1>2, <2>0, <3>1, LoopLeft DEF Good
    <3>3. Typed(LoopEvent(t))
      BY <3>1, LoopEventGood DEF Good
    <3> QED
      BY <1>0, <1>2, <2>0, <3>1, <3>2, <3>3, TurnSession
  <2>3. CASE TimerNotDue
    BY <2>3, SniffKept DEF TimerNotDue
  <2>4. CASE TimerDue
    <3>1. PICK open \in BOOLEAN : Turn(Timeout(t, open), line, seen)
      BY <2>4 DEF TimerDue
    <3>2. Good(t)
      BY <1>0, <2>4 DEF TimerDue
    <3>3. Left(Timeout(t, open), line, seen)
      BY <1>0, <1>2, <3>2, TimeoutLeft DEF Good
    <3>4. Typed(Timeout(t, open))
      BY <3>2, TimeoutGood DEF Good, TypeInv, WorldTyped
    <3> QED
      BY <1>0, <1>2, <2>0, <3>1, <3>3, <3>4, TurnSession
  <2>5. CASE HangUp
    <3>1. Turn(Disconnect(t), << >>, seen) /\ Good(t)
      BY <1>0, <2>5 DEF HangUp
    <3>2. Left(Disconnect(t), << >>, seen)
      BY <1>0, <1>2, DisconnectLeft
    <3>3. Typed(Disconnect(t))
      BY <3>1, DisconnectGood DEF Good
    <3> QED
      BY <1>0, <1>e, <1>2, <3>1, <3>2, <3>3, TurnSession, Zenon
  <2>6. CASE Read
    <3>1. PICK n \in 1..RxCap :
            /\ n <= Len(line)
            /\ Turn(Received(t, SubSeq(line, 1, n)), SubSeq(line, n + 1, Len(line)),
                    Notes(SubSeq(line, 1, n)))
      BY <2>6 DEF Read
    <3> DEFINE chunk == SubSeq(line, 1, n)
               rest == SubSeq(line, n + 1, Len(line))
               g == Received(t, chunk)
    <3>2. n \in 1..Len(line)
      BY <2>0, <3>1, SerialAssumption
    <3>3. Good(t)
      BY <1>0, <2>6 DEF Read
    <3>4. chunk \in Seq(Sniffed) /\ Len(chunk) = n /\ rest \in Seq(Sniffed)
      BY <2>0, <3>2, ChunkOf
    <3>5. chunk # << >>
      <4>1. Len(chunk) = n /\ n # 0
        BY <3>2, <3>4
      <4> QED
        BY <4>1, Zenon
    <3>6. chunk = SubSeq(line, 1, n) /\ rest = SubSeq(line, n + 1, Len(line))
      OBVIOUS
    <3>7. Turn(g, rest, Notes(chunk))
      BY <3>1
    <3> HIDE DEF chunk, rest
    <3>8. Left(g, rest, Notes(chunk))
      BY <1>0, <1>2, <2>0, <3>2, <3>3, <3>6, ReadLeft, Zenon
    <3>9. Typed(g)
      BY <1>2, <3>3, <3>4, ReceivedGood DEF Good
    <3>10. SeenIn(Notes(chunk))
      BY <1>0, <3>4, <3>5, NotesTyped
    <3> HIDE DEF g
    <3> QED
      BY <1>2, <3>4, <3>7, <3>8, <3>9, <3>10, TurnSession
  <2>7. CASE ReadNothing
    BY <2>7, SniffKept DEF ReadNothing
  <2>8. CASE Keys
    <3> DEFINE g == IF snap.key = "eof" THEN Shut(t) ELSE Write(t, "parameter", 0)
    <3>1. Turn(g, line, seen) /\ Good(t)
      BY <1>0, <2>8 DEF Keys
    <3>2. Left(g, line, seen)
      BY <1>0, <1>2, KeysLeft
    <3>3. Typed(g)
      BY <3>1, ShutGood, WriteGood, CmdsTyped DEF Good
    <3> HIDE DEF g
    <3> QED
      BY <1>0, <1>2, <2>0, <3>1, <3>2, <3>3, TurnSession
  <2>9. CASE Exit
    <3>1. Turn(Disconnect(t), << >>, seen) /\ Good(t)
      BY <1>0, <2>9 DEF Exit
    <3>2. Left(Disconnect(t), << >>, seen)
      BY <1>0, <1>2, DisconnectLeft
    <3>3. Typed(Disconnect(t))
      BY <3>1, DisconnectGood DEF Good
    <3> QED
      BY <1>0, <1>e, <1>2, <3>1, <3>2, <3>3, TurnSession, Zenon
  <2>10. CASE UNCHANGED vars
    BY <2>10, SniffKept DEF vars
  <2>11. CASE DeviceStep \/ Air \/ Repeat \/ Restart \/ Unplug \/ Replug
    BY <1>0, <2>11, DeviceSniff
  <2> QED
    BY <2>1, <2>2, <2>3, <2>4, <2>5, <2>6, <2>7, <2>8, <2>9, <2>10, <2>11
    DEF Next, HostStep, Terminated
<1> QED
  BY <1>1, <1>2

\* It holds when the program starts.
LEMMA InitSniff ==
  ASSUME Init
  PROVE  SniffInv
<1> DEFINE n == dev.air
           live == t.fd = 1 /\ ~hup
<1>1. t.zep = << >> /\ t.sniffSeqNum = 0 /\ t.state = "ST_Init" /\ line = << >>
  BY DEF Init, Booted
<1> HIDE DEF n, live
<1>2. Told(t, n)
  BY <1>1, ToldNothing
<1>3. Ready(line, n)
  BY <1>1, EmptyReady
<1>4. Session(t, line, n, live, seen)
  BY <1>1, <1>2, <1>3 DEF Session
<1> QED
  BY <1>4 DEF SniffInv, n, live

\* So it holds in every reachable state.
LEMMA SniffInvariant ==
  ASSUME Unmistakable
  PROVE  Spec => [](TypeInv /\ SniffInv)
<1>1. Init => TypeInv /\ SniffInv
  BY InitTyped, InitSniff
<1>2. TypeInv /\ SniffInv /\ [Next]_vars => TypeInv' /\ SniffInv'
  BY NextTyped, NextSniff
<1> QED
  BY <1>1, <1>2, PTL DEF Spec

\* What is sent on is numbered without gaps and is what the sniffer sent, in its
\* order, whatever the chunks it is read in, the faults, and the markers that
\* occur inside frames, if no packet looks like a frame to a host that begins to
\* read in the middle of it (gcf.c 1278-1467).
THEOREM ForwardsWhatWasSent ==
  ASSUME Unmistakable
  PROVE  Spec => []ForwardedIsSent
<1>1. TypeInv /\ SniffInv => ForwardedIsSent
  <2> SUFFICES ASSUME TypeInv, SniffInv PROVE ForwardedIsSent
    OBVIOUS
  <2>1. CASE Task = "T_SNIFF"
    <3>1. Told(t, dev.air)
      BY <2>1 DEF SniffInv, Session
    <3>2. \A i \in DOMAIN t.zep : t.zep[i].seq = i - 1
      BY <3>1 DEF Told, Numbered
    <3>3. PICK of : Sends(t, of, dev.air)
      BY <3>1 DEF Told
    <3> QED
      BY <3>2, <3>3 DEF Sends, ForwardedIsSent
  <2>2. CASE Task # "T_SNIFF"
    <3> DEFINE of == [k \in {} |-> 0]
    <3>1. Typed(t) /\ Task \in {"T_CONNECT", "T_DUMP_FLASH"}
      BY <2>2, BootedTyped, Constants DEF TypeInv, WorldTyped, HostInv, Good
    <3>2. DOMAIN t.zep = {}
      <4>1. t.zep = << >>
        BY <3>1 DEF Typed
      <4> QED
        BY <4>1
    <3>3. of \in [{} -> 1..dev.air]
      OBVIOUS
    <3> HIDE DEF of
    <3> QED
      BY <3>2, <3>3, Zenon DEF ForwardedIsSent
  <2> QED
    BY <2>1, <2>2
<1> QED
  BY <1>1, SniffInvariant, PTL

\* When the host has nothing left to look at, every frame that was read in full
\* was sent on, unless the buffer overran or the host threw the start marker
\* away (gcf.c 1278-1378).
THEOREM NothingIsLost ==
  ASSUME Unmistakable
  PROVE  Spec => []NothingElseDropped
<1>1. TypeInv /\ SniffInv => NothingElseDropped
  <2> SUFFICES ASSUME TypeInv, SniffInv, t.state = "ST_SniffSyncData", t.ascii = << >>,
                      ~seen.rolled, NEW f \in seen.arrived \ seen.excused
               PROVE  Forwarded(f)
    BY DEF NothingElseDropped
  <2>1. Task = "T_SNIFF"
    <3>1. Good(t)
      BY BootedTyped DEF TypeInv, HostInv
    <3> QED
      BY <3>1, Constants DEF TypeInv, WorldTyped, Good, Placed, DumpStates
  <2>2. PICK S, of : Reads(t, S, of, line, dev.air, t.fd = 1 /\ ~hup, seen)
    BY <2>1, Zenon DEF SniffInv, Session, InStep
  <2>3. Accounted(t, S, seen)
    BY <2>2 DEF Reads
  <2>4. f \in seen.begun
    BY DEF TypeInv, WorldTyped, SeenIn
  <2>5. SentOn(t, f) \/ Pending(t, S, f)
    BY <2>3, <2>4 DEF Accounted
  <2>6. ~Pending(t, S, f)
    <3>1. Len(t.ascii) = 0
      OBVIOUS
    <3> QED
      BY <3>1 DEF Pending
  <2> QED
    BY <2>5, <2>6 DEF SentOn, Forwarded
<1> QED
  BY <1>1, SniffInvariant, PTL

=============================================================================
