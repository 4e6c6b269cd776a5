------------------------------- MODULE MCCmd -------------------------------
(* Cmd with two addresses besides 0, a packet of each kind that the        *)
(* dispatch tells apart, and a clock of 16 ticks on which a timeout of 3   *)
(* wraps.                                                                  *)
EXTENDS Cmd

Packet(a, c, u) == [addr |-> a, cmd |-> c, uid |-> u]

MCPackets == { Packet(1, "PING", FALSE), Packet(2, "PING", FALSE),
               Packet(1, "DFU", FALSE),  Packet(0, "UID", FALSE),
               Packet(1, "ADDR", TRUE),  Packet(1, "ADDR", FALSE),
               Packet(1, "FACTORY", FALSE), Packet(1, "SETPARM", FALSE) }
=============================================================================
