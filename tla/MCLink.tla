------------------------------- MODULE MCLink -------------------------------
(* An instance of Link for TLC.                                            *)
EXTENDS Link

\* Packets that need no escape, escapes in the data, an escape in the checksum
\* (its low byte is that of FR_END), and one too long for the receiver.
SomePackets == {<<1>>, <<FR_END, FR_ESC>>, <<64>>, <<1, 2, 3>>}

\* Delimiter, escape, the second byte of an escape, and a byte of a packet.
SomeNoise == {FR_END, FR_ESC, T_FR_END, 1}

=============================================================================
