------------------------------- MODULE MCSer -------------------------------
(* Ser with a ring of four slots, which takes three bytes, and all packets *)
(* of one to three bytes over two values.  The ring wraps, and a packet    *)
(* may be as long as the ring or so short that the transmit interrupts     *)
(* have emptied it before ser_write() returns.                             *)
EXTENDS Ser

MCPackets == UNION {[1 .. n -> Byte] : n \in 1 .. 3}
=============================================================================
