------------------------------- MODULE MCPkt -------------------------------
(* PktFrames with a two-byte header (the second byte is the length), up to *)
(* two payload bytes, and five byte values: the three acceptable lengths,  *)
(* the preamble and the sync.  The preamble and the sync also occur inside *)
(* packets, and as lengths they are too big.                               *)
EXTENDS PktFrames

MCBytes == 0 .. 4

\* a CRC over five values that depends on the order of the bytes
MCCrcUpdate(c, b) == (2 * c + b + 1) % 5
=============================================================================
