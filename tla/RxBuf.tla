------------------------------- MODULE RxBuf -------------------------------
(***************************************************************************)
(* What pkt.c promises to the rest of the firmware about its single        *)
(* receive buffer.                                                         *)
(*                                                                         *)
(* There is one rxbuf and it is passed around by pointer: the parser, in   *)
(* the receive interrupt, fills it; a complete packet waits in the         *)
(* "mailbox" (ready_packet); the main loop takes it out (pkt_ready), reads *)
(* it in place and gives it back (pkt_rx_free).  At every moment exactly   *)
(* one party owns the buffer, and only the parser ever changes its         *)
(* contents.  Module Pkt shows that the byte-level code implements this.   *)
(***************************************************************************)

CONSTANT Contents   \* what the buffer can hold

VARIABLES owner,    \* who may touch the buffer now
          data      \* what the buffer holds

bufVars == <<owner, data>>

Owners == {"free", "parser", "mailbox", "client"}

\* The buffer has one of its owners and holds one of its contents.
BufTypeOK == /\ owner \in Owners
             /\ data \in Contents

BufInit == /\ owner = "free"
           /\ data \in Contents

-----------------------------------------------------------------------------
(* The receive interrupt.                                                  *)

\* a sync byte arrives and the buffer is available
Claim == /\ owner = "free"
         /\ owner' = "parser"
         /\ UNCHANGED data

\* a packet byte is stored; the packet may turn out to be bad
Fill == /\ owner = "parser"
        /\ data' \in Contents
        /\ owner' \in {"parser", "free"}

\* the last byte arrives: the packet is good, or it is thrown away
Complete == /\ owner = "parser"
            /\ owner' \in {"mailbox", "free"}
            /\ UNCHANGED data

(* The main loop.                                                          *)

\* pkt_ready() finds a packet
Take == /\ owner = "mailbox"
        /\ owner' = "client"
        /\ UNCHANGED data

\* pkt_rx_free() by the client that took it
Release == /\ owner = "client"
           /\ owner' = "free"
           /\ UNCHANGED data

\* pkt_reset() by a main loop that holds no packet
Discard == /\ owner # "client"
           /\ owner' = "free"
           /\ UNCHANGED data

BufNext == Claim \/ Fill \/ Complete \/ Take \/ Release \/ Discard

BufSpec == BufInit /\ [][BufNext]_bufVars
=============================================================================
