-------------------------------- MODULE Ser --------------------------------
(***************************************************************************)
(* The serial driver, ser.c: the transmit ring, the data-register-empty    *)
(* and transmit-complete interrupts that drain it, and the switching of    *)
(* the half-duplex USART between receiving and transmitting.               *)
(*                                                                         *)
(* ser_write() runs in the main loop with interrupts on, so it is split    *)
(* into the steps between which an interrupt can matter; its last          *)
(* statement, CTRLA |= RXCIE, is a read and a later write of a register    *)
(* that the transmit interrupts change as well.  An interrupt handler is   *)
(* one step.                                                               *)
(*                                                                         *)
(* Assumptions.  (1) ser_write() is called only when nothing is being      *)
(* sent; module Cmd shows that the firmware does so.  (2) A byte takes     *)
(* longer on the wire (about 2 ms, some 20000 cycles) than the few         *)
(* instructions of ser_write() after it has enabled the interrupts:        *)
(* ShiftDone waits for pc = "return".  The USART itself is external: a     *)
(* data register, a shift register and the flag TXCIF.                     *)
(***************************************************************************)
EXTENDS Integers, Sequences

CONSTANTS
    BUF_SIZE,   \* 32
    Packets,    \* the byte sequences that pkt_send() passes to ser_write()
    Byte        \* the values of a byte

\* A reply is 10 to 22 bytes, a ring of 32 takes 31.
ASSUME SerAssumption ==
    /\ BUF_SIZE \in Nat \ {0, 1}
    /\ 0 \in Byte
    /\ \A p \in Packets : /\ p \in Seq(Byte)
                          /\ Len(p) \in 1 .. BUF_SIZE - 1

VARIABLES
    headp, tailp, txbuf,    \* the transmit ring
    RXCIE, DREIE, TXCIE,    \* USART0.CTRLA: interrupt enables
    RXEN, TXEN,             \* USART0.CTRLB: receiver and transmitter enables
    TXCIF,                  \* USART0.STATUS: transmit complete
    txdata, shift,          \* USART: data and shift register, <<>> or one byte
    pc,                     \* where the main loop is in ser_write()
    buf, cnt,               \* ser_write(): argument and bytes copied
    ctrla                   \* ser_write(): CTRLA as read by rxint_enable()

ring  == <<headp, tailp, txbuf>>
usart == <<RXCIE, DREIE, TXCIE, RXEN, TXEN, TXCIF, txdata, shift>>
main  == <<pc, buf, cnt, ctrla>>
vars  == <<ring, usart, main>>

Slots == 0 .. BUF_SIZE - 1

\* p++ followed by p &= 0x1F
Incr(p) == IF p = BUF_SIZE - 1 THEN 0 ELSE p + 1

BufEmpty == headp = tailp
BufCnt == IF tailp <= headp THEN headp - tailp ELSE headp - tailp + BUF_SIZE

\* ser_is_active(); the receive flag belongs to RxBuf's side of the driver
SerIsActive == ~BufEmpty \/ DREIE \/ TXCIE

\* Every variable holds what its C type allows; in particular the ring's indices
\* stay inside the ring, and each USART register holds at most one byte.
TypeOK ==
    /\ headp \in Slots /\ tailp \in Slots
    /\ txbuf \in [Slots -> Byte]
    /\ RXCIE \in BOOLEAN /\ DREIE \in BOOLEAN /\ TXCIE \in BOOLEAN
    /\ RXEN \in BOOLEAN /\ TXEN \in BOOLEAN
    /\ TXCIF \in BOOLEAN
    /\ txdata \in Seq(Byte) /\ Len(txdata) <= 1
    /\ shift \in Seq(Byte) /\ Len(shift) <= 1
    /\ pc \in {"return", "duplex", "txint", "rxint", "store"}
    /\ buf \in Packets \cup {<<>>}
    /\ cnt \in 0 .. BUF_SIZE
    /\ ctrla \in [DREIE : BOOLEAN, TXCIE : BOOLEAN]

\* after device_init() and ser_flush(): both directions are enabled
Init ==
    /\ headp = 0 /\ tailp = 0
    /\ txbuf = [s \in Slots |-> 0]
    /\ RXCIE = TRUE /\ DREIE = FALSE /\ TXCIE = FALSE
    /\ RXEN = TRUE /\ TXEN = TRUE
    /\ TXCIF = FALSE
    /\ txdata = <<>> /\ shift = <<>>
    /\ pc = "return" /\ buf = <<>> /\ cnt = 0
    /\ ctrla = [DREIE |-> FALSE, TXCIE |-> FALSE]

-----------------------------------------------------------------------------
(* ser_write(buf, len), in the main loop.                                  *)

\* how many of n bytes the copy loop finds room for
RoomFor(n) == IF n < BUF_SIZE - 1 - BufCnt THEN n ELSE BUF_SIZE - 1 - BufCnt

\* the slot that the i-th byte copied goes to
SlotOf(i) == IF headp + i - 1 < BUF_SIZE
             THEN headp + i - 1 ELSE headp + i - 1 - BUF_SIZE

\* the ring with the first n bytes of p added
Copied(p, n) == [s \in Slots |->
                    IF \E i \in 1 .. n : SlotOf(i) = s
                    THEN p[CHOOSE i \in 1 .. n : SlotOf(i) = s]
                    ELSE txbuf[s]]

\* disable the receive interrupt and copy until the ring is full or all is
\* copied; no transmit interrupt is enabled, so nothing sees the loop halfway
SerWrite(p) ==
    /\ pc = "return" /\ ~SerIsActive
    /\ RXCIE' = FALSE
    /\ buf' = p
    /\ cnt' = RoomFor(Len(p))
    /\ txbuf' = Copied(p, RoomFor(Len(p)))
    /\ headp' = SlotOf(RoomFor(Len(p)) + 1)
    /\ pc' = "duplex"
    /\ UNCHANGED <<tailp, DREIE, TXCIE, RXEN, TXEN, TXCIF, txdata, shift, ctrla>>

\* as SwitchDuplex, but the receiver stays on (a mutant)
SwitchHears ==
    /\ pc = "duplex" /\ pc' = "txint"
    /\ TXEN' = TRUE
    /\ UNCHANGED <<ring, RXCIE, RXEN, DREIE, TXCIE, TXCIF, txdata, shift, buf, cnt, ctrla>>

\* turn the receiver off and the transmitter on
SwitchDuplex ==
    /\ pc = "duplex" /\ pc' = "txint"
    /\ RXEN' = FALSE
    /\ TXEN' = TRUE
    /\ UNCHANGED <<ring, RXCIE, DREIE, TXCIE, TXCIF, txdata, shift, buf, cnt, ctrla>>

\* TXINT_ENABLE(): from here on the transmit interrupts run
TxIntEnable ==
    /\ pc = "txint" /\ pc' = "rxint"
    /\ DREIE' = TRUE
    /\ TXCIE' = TRUE
    /\ UNCHANGED <<ring, RXCIE, RXEN, TXEN, TXCIF, txdata, shift, buf, cnt, ctrla>>

\* rxint_enable() reads CTRLA ...
RxIntRead ==
    /\ pc = "rxint" /\ pc' = "store"
    /\ ctrla' = [DREIE |-> DREIE, TXCIE |-> TXCIE]
    /\ UNCHANGED <<ring, usart, buf, cnt>>

\* ... and writes it back with RXCIE set; then ser_write() returns
RxIntStore ==
    /\ pc = "store" /\ pc' = "return"
    /\ RXCIE' = TRUE
    /\ DREIE' = ctrla.DREIE
    /\ TXCIE' = ctrla.TXCIE
    /\ buf' = <<>>
    /\ cnt' = 0
    /\ ctrla' = [DREIE |-> FALSE, TXCIE |-> FALSE]
    /\ UNCHANGED <<ring, RXEN, TXEN, TXCIF, txdata, shift>>

-----------------------------------------------------------------------------
(* The interrupt handlers.                                                 *)

\* as DRE_vect, but does not clear TXCIF (a mutant)
DREKeepsTXCIF ==
    /\ DREIE /\ txdata = <<>>
    /\ IF BufEmpty
       THEN /\ DREIE' = FALSE
            /\ UNCHANGED <<tailp, txdata>>
       ELSE /\ txdata' = <<txbuf[tailp]>>
            /\ tailp' = Incr(tailp)
            /\ UNCHANGED DREIE
    /\ UNCHANGED <<headp, txbuf, RXCIE, TXCIE, RXEN, TXEN, TXCIF, shift, main>>

\* data register empty: feed the next byte, or stop asking for one
DRE_vect ==
    /\ DREIE /\ txdata = <<>>
    /\ IF BufEmpty
       THEN /\ DREIE' = FALSE
            /\ UNCHANGED <<tailp, txdata, TXCIF>>
       ELSE /\ TXCIF' = FALSE
            /\ txdata' = <<txbuf[tailp]>>
            /\ tailp' = Incr(tailp)
            /\ UNCHANGED DREIE
    /\ UNCHANGED <<headp, txbuf, RXCIE, TXCIE, RXEN, TXEN, shift, main>>

\* as TXC_vect, but without the second look at the ring (a mutant)
TXCStops ==
    /\ TXCIE /\ TXCIF
    /\ TXCIF' = FALSE
    /\ TXCIE' = FALSE
    /\ TXEN' = FALSE
    /\ RXEN' = TRUE
    /\ UNCHANGED <<ring, RXCIE, DREIE, txdata, shift, main>>

\* as TXC_vect, but leaves the receiver off (a mutant)
TXCStaysDeaf ==
    /\ TXCIE /\ TXCIF
    /\ TXCIF' = FALSE
    /\ IF BufEmpty
       THEN /\ TXCIE' = FALSE
            /\ TXEN' = FALSE
            /\ UNCHANGED DREIE
       ELSE DREIE' = TRUE /\ UNCHANGED <<TXCIE, TXEN>>
    /\ UNCHANGED <<ring, RXCIE, RXEN, txdata, shift, main>>

\* transmit complete: carry on if there is more, else turn the line around;
\* running the vector clears TXCIF
TXC_vect ==
    /\ TXCIE /\ TXCIF
    /\ TXCIF' = FALSE
    /\ IF BufEmpty
       THEN /\ TXCIE' = FALSE
            /\ TXEN' = FALSE
            /\ RXEN' = TRUE
            /\ UNCHANGED DREIE
       ELSE DREIE' = TRUE /\ UNCHANGED <<TXCIE, TXEN, RXEN>>
    /\ UNCHANGED <<ring, RXCIE, txdata, shift, main>>

-----------------------------------------------------------------------------
(* The USART (external).                                                   *)

\* the data register moves to the shift register when that is free
ShiftLoad ==
    /\ TXEN /\ txdata # <<>> /\ shift = <<>>
    /\ shift' = txdata
    /\ txdata' = <<>>
    /\ UNCHANGED <<ring, RXCIE, DREIE, TXCIE, RXEN, TXEN, TXCIF, main>>

\* a byte is out; transmission is complete if no other waits.  The handlers
\* may be late: the ring may still hold bytes.
ShiftDone ==
    /\ shift # <<>> /\ pc = "return"
    /\ shift' = <<>>
    /\ TXCIF' = (TXCIF \/ txdata = <<>>)
    /\ UNCHANGED <<ring, RXCIE, DREIE, TXCIE, RXEN, TXEN, txdata, main>>

SerWriteStep == SwitchDuplex \/ TxIntEnable \/ RxIntRead \/ RxIntStore

Next ==
    \/ \E p \in Packets : SerWrite(p)
    \/ SerWriteStep
    \/ DRE_vect
    \/ TXC_vect
    \/ ShiftLoad
    \/ ShiftDone

\* ser_write() goes on once called, a pending interrupt is served, and the
\* USART shifts what it has.  Nobody is obliged to send.
Fairness ==
    /\ WF_vars(SerWriteStep)
    /\ WF_vars(DRE_vect)
    /\ WF_vars(TXC_vect)
    /\ WF_vars(ShiftLoad \/ ShiftDone)

Spec == Init /\ [][Next]_vars /\ Fairness

-----------------------------------------------------------------------------
(* Properties.                                                             *)

\* The node never hears itself: the wire is looped back to the receiver
\* (USART_LBME), so a receiver that is on while a byte is shifted out feeds the
\* node's own reply to its parser (ser.c:149-152, 234-239).
NoEcho == shift # <<>> \/ txdata # <<>> => ~RXEN /\ TXEN

\* packet.md:23-24: "It must also make sure that the entire last byte has been
\* transmitted before turning off the TX signal."  The transmit-complete
\* interrupt may come while the ring still holds bytes, or be pending when a
\* late data-register-empty interrupt feeds another one (ser.c:189-241).
LastByteOut ==
    [][TXEN /\ ~TXEN' => BufEmpty /\ txdata = <<>> /\ shift = <<>>]_vars

\* Once a packet is on its way, the main loop is never told that the serial
\* module is idle (and may go to sleep) before the last bit is out and the
\* receiver is on again (ser.c:106-130).
IdleMeansListening ==
    pc = "return" /\ ~SerIsActive => /\ txdata = <<>> /\ shift = <<>>
                                     /\ RXEN /\ RXCIE

\* ser_write() takes the whole packet, so that pkt_send() never reports failure
\* after having sent a truncated packet (ser.c:138-154, pkt.c:213-219).
NeverTruncated == pc # "return" => cnt = Len(buf)

\* The ring's bytes, oldest first
Queued == [i \in 1 .. BufCnt |-> txbuf[IF tailp + i - 1 < BUF_SIZE
                                       THEN tailp + i - 1
                                       ELSE tailp + i - 1 - BUF_SIZE]]

Line == INSTANCE Duplex WITH
            mode <- IF TXCIE \/ pc # "return" THEN "send" ELSE "listen",
            queue <- shift \o txdata \o Queued,
            Messages <- Packets

\* The driver is a half-duplex line: each packet leaves whole, once and in
\* order, and the node returns to listening only then, and always does: no
\* interleaving of ser_write(), the handlers and the USART loses the interrupt
\* that the rest hangs on (ser.c:136-241).
ImplementsDuplex == Line!DuplexSpec
=============================================================================
