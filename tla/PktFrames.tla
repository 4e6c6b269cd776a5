----------------------------- MODULE PktFrames -----------------------------
(***************************************************************************)
(* What makes a frame good, said of the bytes on the line and not of the   *)
(* parser's variables, and the two directions of "the parser delivers      *)
(* exactly the good frames".                                               *)
(***************************************************************************)
EXTENDS Pkt

\* the CRC of the first n bytes of h, which starts at 0
CrcOf(h, n) ==
    LET crcs[i \in 0 .. n] == IF i = 0 THEN 0 ELSE CrcUpdate(crcs[i - 1], h[i])
    IN  crcs[n]

\* h is a header, the payload it announces, and the CRC of both
GoodFrame(h) ==
    /\ Len(h) > PKT_HEADER_LEN
    /\ h[PKT_HEADER_LEN] <= PKT_PAYLOAD_LEN
    /\ Len(h) = PKT_HEADER_LEN + h[PKT_HEADER_LEN] + 1
    /\ h[Len(h)] = CrcOf(h, Len(h) - 1)

\* Only good frames reach the main loop, and it finds them in the buffer as the
\* line carried them, although more may have been received since
\* (pkt.c:272-329).
OnlyGoodFrames ==
    ready_packet \/ held =>
        /\ GoodFrame(heard)
        /\ \A i \in 1 .. Len(heard) - 1 : rxbuf[i - 1] = heard[i]

\* A good frame that follows an accepted sync always reaches the mailbox, at
\* its last byte, whatever was received, abandoned, freed or reset before it
\* (pkt.c:272-329).
GoodFrameDelivered ==
    [][heard' # heard /\ GoodFrame(heard') => ready_packet']_vars
=============================================================================
