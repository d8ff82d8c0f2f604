--------------------------- MODULE MCSerialTasks ---------------------------
(* Instances of SerialTasks for TLC.                                       *)
EXTENDS SerialTasks

Task3(task, ia) == [task |-> task, interactive |-> ia]

EveryTask == {Task3("T_CONNECT", FALSE), Task3("T_CONNECT", TRUE),
              Task3("T_SNIFF", FALSE), Task3("T_DUMP_FLASH", FALSE)}
OnlySniff == {Task3("T_SNIFF", FALSE)}

SmallBytes == 0..6

\* A packet that is a start marker, an acknowledge, a packet that is an end
\* marker.
ThreeFrames == << <<1>>, << >>, <<4>> >>
OneFrame == << <<1>> >>

\* These frames are Unmistakable: no length byte reaches beyond five words.
ASSUME FiveWords ==
  /\ \A b \in Bytes : 2 + b <= 4 * Len(Word(0))
  /\ \A w \in [1..5 -> 0..Len(Script)] :
       LET s == FlattenSeq([i \in 1..5 |-> Word(w[i])]) IN Stretch(s) => Legible(s)

=============================================================================
