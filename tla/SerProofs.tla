----------------------------- MODULE SerProofs -----------------------------
(***************************************************************************)
(* Proofs about the serial driver, for every ring size and every set of    *)
(* packets that fit the ring (SerAssumption).                              *)
(***************************************************************************)
EXTENDS Ser, SequenceTheorems, TLAPS

(***************************************************************************)
(* The inductive invariant says where the bits can be in each phase.       *)
(*   Quiet    nothing is sent while TXCIE is off, except that ser_write()  *)
(*            may have filled the ring already;                            *)
(*   Turned   TXCIE is on only while the line is turned to sending;        *)
(*   Complete TXCIF is seen only when both USART registers are empty,      *)
(*            because DRE_vect clears it when it feeds a byte;             *)
(*   Writing  what ser_write() has done at each of its steps.  The value   *)
(*            it read from CTRLA has TXCIE set, so writing it back cannot  *)
(*            lose TXCIE, and TXC_vect cannot have run in between.         *)
(***************************************************************************)

Quiet == ~TXCIE =>
            /\ txdata = <<>> /\ shift = <<>> /\ ~TXCIF
            /\ pc = "return" => BufEmpty /\ RXEN
            /\ pc \in {"return", "duplex", "txint"}

Turned == TXCIE => ~RXEN /\ TXEN

Complete == TXCIF => txdata = <<>> /\ shift = <<>>

Writing ==
    /\ RXCIE <=> pc = "return"
    /\ pc \in {"duplex", "txint"} => ~TXCIE /\ ~DREIE
    /\ pc = "txint" => ~RXEN /\ TXEN
    /\ pc \in {"rxint", "store"} => TXCIE /\ ~TXCIF
    /\ pc = "store" => ctrla.TXCIE

IInv == TypeOK /\ Quiet /\ Turned /\ Complete /\ Writing /\ NeverTruncated

-----------------------------------------------------------------------------
\* device_init() and ser_flush() leave the driver idle and listening.
LEMMA InitIInv == Init => IInv
<1> SUFFICES ASSUME Init PROVE IInv
  OBVIOUS
<1>1. TypeOK
  <2>1. headp \in Slots /\ tailp \in Slots /\ cnt \in 0 .. BUF_SIZE
    BY SerAssumption DEF Init, Slots
  <2>2. txbuf \in [Slots -> Byte]
    BY SerAssumption DEF Init
  <2>3. txdata \in Seq(Byte) /\ shift \in Seq(Byte)
        /\ Len(txdata) <= 1 /\ Len(shift) <= 1
    BY DEF Init
  <2>4. ctrla \in [DREIE : BOOLEAN, TXCIE : BOOLEAN]
    BY DEF Init
  <2>5. /\ RXCIE \in BOOLEAN /\ DREIE \in BOOLEAN /\ TXCIE \in BOOLEAN
        /\ RXEN \in BOOLEAN /\ TXEN \in BOOLEAN /\ TXCIF \in BOOLEAN
        /\ pc \in {"return", "duplex", "txint", "rxint", "store"}
        /\ buf \in Packets \cup {<<>>}
    BY DEF Init
  <2> QED
    BY <2>1, <2>2, <2>3, <2>4, <2>5 DEF TypeOK
<1>2. Quiet /\ Turned /\ Complete /\ Writing /\ NeverTruncated
  BY DEF Init, Quiet, Turned, Complete, Writing, NeverTruncated, BufEmpty
<1> QED
  BY <1>1, <1>2 DEF IInv

\* The copy loop of ser_write(), called while the serial module is idle, takes
\* every byte of the packet and stays inside the ring (ser.c:138-148).
LEMMA CopyLoop ==
    ASSUME TypeOK, BufEmpty, NEW p \in Packets
    PROVE  /\ RoomFor(Len(p)) = Len(p)
           /\ Len(p) \in 1 .. BUF_SIZE - 1
           /\ SlotOf(Len(p) + 1) \in Slots
           /\ Copied(p, Len(p)) \in [Slots -> Byte]
<1>1. p \in Seq(Byte) /\ Len(p) \in 1 .. BUF_SIZE - 1 /\ BUF_SIZE \in Nat
  BY SerAssumption
<1>2. headp \in 0 .. BUF_SIZE - 1 /\ tailp = headp
  BY DEF TypeOK, Slots, BufEmpty
<1>3. BufCnt = 0
  BY <1>1, <1>2 DEF BufCnt
<1>4. RoomFor(Len(p)) = Len(p)
  BY <1>1, <1>3 DEF RoomFor
<1>5. SlotOf(Len(p) + 1) \in Slots
  BY <1>1, <1>2 DEF SlotOf, Slots
<1>6. ASSUME NEW s \in Slots
      PROVE  (IF \E i \in 1 .. Len(p) : SlotOf(i) = s
              THEN p[CHOOSE i \in 1 .. Len(p) : SlotOf(i) = s]
              ELSE txbuf[s]) \in Byte
  <2>1. CASE \E i \in 1 .. Len(p) : SlotOf(i) = s
    <3> DEFINE j == CHOOSE i \in 1 .. Len(p) : SlotOf(i) = s
    <3>1. j \in 1 .. Len(p)
      BY <2>1
    <3>2. p[j] \in Byte
      BY <1>1, <3>1
    <3> QED
      BY <2>1, <3>2
  <2>2. CASE ~ \E i \in 1 .. Len(p) : SlotOf(i) = s
    BY <2>2 DEF TypeOK
  <2> QED
    BY <2>1, <2>2
<1>7. Copied(p, Len(p)) \in [Slots -> Byte]
  BY <1>6 DEF Copied
<1> QED
  BY <1>1, <1>4, <1>5, <1>7

\* ser_write() up to its first interruptible point.
LEMMA SerWriteIInv ==
    ASSUME IInv, NEW p \in Packets, SerWrite(p)
    PROVE  IInv'
<1> USE DEF IInv
<1>1. /\ pc = "return" /\ BufEmpty /\ ~DREIE /\ ~TXCIE /\ pc' = "duplex"
      /\ RXCIE' = FALSE /\ buf' = p /\ cnt' = RoomFor(Len(p))
      /\ headp' = SlotOf(RoomFor(Len(p)) + 1)
      /\ txbuf' = Copied(p, RoomFor(Len(p)))
      /\ UNCHANGED <<tailp, DREIE, TXCIE, RXEN, TXEN, TXCIF, txdata, shift, ctrla>>
  BY DEF SerWrite, SerIsActive
<1>2. cnt' = Len(p) /\ Len(p) \in 1 .. BUF_SIZE - 1 /\ headp' \in Slots
  BY <1>1, CopyLoop
<1>3. txbuf' \in [Slots -> Byte]
  BY <1>1, CopyLoop
<1>4. TypeOK'
  <2>1. cnt' \in 0 .. BUF_SIZE /\ buf' \in Packets \cup {<<>>} /\ RXCIE' \in BOOLEAN
    <3>1. BUF_SIZE \in Nat
      BY SerAssumption
    <3>2. cnt' \in 0 .. BUF_SIZE
      BY <1>2, <3>1
    <3>3. buf' \in Packets \cup {<<>>} /\ RXCIE' \in BOOLEAN
      BY <1>1
    <3> QED
      BY <3>2, <3>3
  <2>2. pc' \in {"return", "duplex", "txint", "rxint", "store"}
        /\ headp' \in Slots /\ txbuf' \in [Slots -> Byte]
        /\ UNCHANGED <<tailp, DREIE, TXCIE, RXEN, TXEN, TXCIF, txdata, shift, ctrla>>
    BY <1>1, <1>2, <1>3
  <2> QED
    BY <2>1, <2>2 DEF TypeOK
<1>5. NeverTruncated'
  BY <1>1, <1>2 DEF NeverTruncated
<1>6. Quiet' /\ Turned' /\ Complete' /\ Writing'
  BY <1>1 DEF Quiet, Turned, Complete, Writing, TypeOK
<1> QED
  BY <1>4, <1>5, <1>6

\* The rest of ser_write(), statement by statement (ser.c:149-153).
LEMMA SerWriteStepIInv ==
    ASSUME IInv, SerWriteStep
    PROVE  IInv'
<1> USE DEF IInv, ring, usart
<1>1. CASE SwitchDuplex
  <2> USE <1>1 DEF SwitchDuplex
  <2>1. TypeOK'
    BY DEF TypeOK
  <2>2. Quiet' /\ Turned' /\ Complete' /\ Writing' /\ NeverTruncated'
    BY DEF Quiet, Turned, Complete, Writing, NeverTruncated, BufEmpty, TypeOK
  <2> QED
    BY <2>1, <2>2
<1>2. CASE TxIntEnable
  <2> USE <1>2 DEF TxIntEnable
  <2>1. TypeOK'
    BY DEF TypeOK
  <2>2. Quiet' /\ Turned' /\ Complete' /\ Writing' /\ NeverTruncated'
    BY DEF Quiet, Turned, Complete, Writing, NeverTruncated, BufEmpty, TypeOK
  <2> QED
    BY <2>1, <2>2
<1>3. CASE RxIntRead
  <2> USE <1>3 DEF RxIntRead
  <2>1. TypeOK'
    BY DEF TypeOK
  <2>2. Quiet' /\ Turned' /\ Complete' /\ Writing' /\ NeverTruncated'
    BY DEF Quiet, Turned, Complete, Writing, NeverTruncated, BufEmpty, TypeOK
  <2> QED
    BY <2>1, <2>2
<1>4. CASE RxIntStore
  <2> USE <1>4 DEF RxIntStore
  <2>1. TypeOK'
    <3>1. cnt' \in 0 .. BUF_SIZE /\ buf' \in Packets \cup {<<>>}
      BY SerAssumption
    <3>2. DREIE' \in BOOLEAN /\ TXCIE' \in BOOLEAN
      BY DEF TypeOK
    <3>3. ctrla' \in [DREIE : BOOLEAN, TXCIE : BOOLEAN]
      OBVIOUS
    <3> QED
      BY <3>1, <3>2, <3>3 DEF TypeOK
  <2>2. Quiet' /\ Turned' /\ Complete' /\ Writing' /\ NeverTruncated'
    BY DEF Quiet, Turned, Complete, Writing, NeverTruncated, BufEmpty, TypeOK
  <2> QED
    BY <2>1, <2>2
<1> QED
  BY <1>1, <1>2, <1>3, <1>4 DEF SerWriteStep

\* The interrupt handlers (ser.c:189-241).
LEMMA InterruptIInv ==
    ASSUME IInv, DRE_vect \/ TXC_vect
    PROVE  IInv'
<1> USE DEF IInv, ring, main
<1>1. CASE DRE_vect /\ BufEmpty
  <2>1. DREIE' = FALSE /\ UNCHANGED <<ring, RXCIE, TXCIE, RXEN, TXEN, TXCIF, txdata, shift, main>>
    BY <1>1 DEF DRE_vect
  <2>2. TypeOK'
    BY <2>1 DEF TypeOK
  <2>3. Quiet' /\ Turned' /\ Complete' /\ Writing' /\ NeverTruncated'
    BY <2>1 DEF Quiet, Turned, Complete, Writing, NeverTruncated, BufEmpty, TypeOK
  <2> QED
    BY <2>2, <2>3
<1>2. CASE DRE_vect /\ ~BufEmpty
  <2>1. /\ DREIE /\ TXCIF' = FALSE /\ txdata' = <<txbuf[tailp]>> /\ tailp' = Incr(tailp)
        /\ UNCHANGED <<headp, txbuf, RXCIE, DREIE, TXCIE, RXEN, TXEN, shift, main>>
    BY <1>2 DEF DRE_vect
  <2>2. TXCIE
    BY <1>2, <2>1 DEF Quiet, Writing, TypeOK
  <2>3. TypeOK'
    <3>1. tailp' \in Slots
      BY <2>1, SerAssumption DEF TypeOK, Slots, Incr
    <3>2. txdata' \in Seq(Byte) /\ Len(txdata') <= 1
      BY <2>1 DEF TypeOK
    <3> QED
      BY <2>1, <3>1, <3>2 DEF TypeOK
  <2>4. Quiet' /\ Turned' /\ Complete' /\ Writing' /\ NeverTruncated'
    BY <2>1, <2>2 DEF Quiet, Turned, Complete, Writing, NeverTruncated, TypeOK
  <2> QED
    BY <2>3, <2>4
<1>3. CASE TXC_vect /\ BufEmpty
  <2>1. /\ TXCIE /\ TXCIF /\ TXCIF' = FALSE /\ TXCIE' = FALSE /\ TXEN' = FALSE /\ RXEN' = TRUE
        /\ UNCHANGED <<ring, RXCIE, DREIE, txdata, shift, main>>
    BY <1>3 DEF TXC_vect
  <2>2. TypeOK'
    BY <2>1 DEF TypeOK
  <2>3. pc = "return"
    BY <2>1 DEF Writing, TypeOK
  <2>4. Quiet' /\ Turned' /\ Complete' /\ Writing' /\ NeverTruncated'
    BY <1>3, <2>1, <2>3 DEF Quiet, Turned, Complete, Writing, NeverTruncated, BufEmpty
  <2> QED
    BY <2>2, <2>4
<1>4. CASE TXC_vect /\ ~BufEmpty
  <2>1. /\ TXCIE /\ TXCIF /\ TXCIF' = FALSE /\ DREIE' = TRUE
        /\ UNCHANGED <<ring, RXCIE, TXCIE, RXEN, TXEN, txdata, shift, main>>
    BY <1>4 DEF TXC_vect
  <2>2. TypeOK'
    BY <2>1 DEF TypeOK
  <2>3. Quiet' /\ Turned' /\ Complete' /\ Writing' /\ NeverTruncated'
    BY <2>1 DEF Quiet, Turned, Complete, Writing, NeverTruncated, TypeOK
  <2> QED
    BY <2>2, <2>3
<1> QED
  BY <1>1, <1>2, <1>3, <1>4

\* The USART moves bytes on.
LEMMA UsartIInv ==
    ASSUME IInv, ShiftLoad \/ ShiftDone
    PROVE  IInv'
<1> USE DEF IInv, ring, main
<1>1. CASE ShiftLoad
  <2> USE <1>1 DEF ShiftLoad
  <2>1. TypeOK'
    BY DEF TypeOK
  <2>2. Quiet' /\ Turned' /\ Complete' /\ Writing' /\ NeverTruncated'
    BY DEF Quiet, Turned, Complete, Writing, NeverTruncated, TypeOK
  <2> QED
    BY <2>1, <2>2
<1>2. CASE ShiftDone
  <2>0. shift # <<>> /\ pc = "return" /\ shift' = <<>> /\ TXCIF' \in BOOLEAN
        /\ (TXCIF' => txdata = <<>>)
        /\ UNCHANGED <<ring, RXCIE, DREIE, TXCIE, RXEN, TXEN, txdata, main>>
    BY <1>2 DEF ShiftDone, Complete, TypeOK
  <2>1. TypeOK'
    BY <2>0 DEF TypeOK
  <2>2. TXCIE
    BY <2>0 DEF Quiet
  <2>3. Quiet' /\ Turned' /\ Complete' /\ Writing' /\ NeverTruncated'
    BY <2>0, <2>2 DEF Quiet, Turned, Complete, Writing, NeverTruncated
  <2> QED
    BY <2>1, <2>3
<1> QED
  BY <1>1, <1>2

\* Every step keeps the invariant.
LEMMA NextIInv == IInv /\ [Next]_vars => IInv'
<1> SUFFICES ASSUME IInv, [Next]_vars PROVE IInv'
  OBVIOUS
<1>1. CASE \E p \in Packets : SerWrite(p)
  BY <1>1, SerWriteIInv
<1>2. CASE SerWriteStep
  BY <1>2, SerWriteStepIInv
<1>3. CASE DRE_vect \/ TXC_vect
  BY <1>3, InterruptIInv
<1>4. CASE ShiftLoad \/ ShiftDone
  BY <1>4, UsartIInv
<1>5. CASE UNCHANGED vars
  BY <1>5 DEF vars, ring, usart, main, IInv, TypeOK, Quiet, Turned, Complete,
              Writing, NeverTruncated, BufEmpty
<1> QED
  BY <1>1, <1>2, <1>3, <1>4, <1>5 DEF Next

THEOREM Invariance == Spec => []IInv
<1>1. Init => IInv
  BY InitIInv
<1>2. IInv /\ [Next]_vars => IInv'
  BY NextIInv
<1> QED
  BY <1>1, <1>2, PTL DEF Spec

\* Type correctness.
THEOREM TypeCorrect == Spec => []TypeOK
<1>1. IInv => TypeOK
  BY DEF IInv
<1> QED
  BY <1>1, Invariance, PTL

\* The receiver is off whenever a byte of ours is on the looped-back wire.
THEOREM NeverEchoes == Spec => []NoEcho
<1>1. IInv => NoEcho
  BY DEF IInv, NoEcho, Quiet, Turned, TypeOK
<1> QED
  BY <1>1, Invariance, PTL

\* ser_write() never takes only a part of a packet.
THEOREM WholePackets == Spec => []NeverTruncated
<1>1. IInv => NeverTruncated
  BY DEF IInv
<1> QED
  BY <1>1, Invariance, PTL

\* A serial module that reports itself idle has nothing left to send and
\* listens.
THEOREM IdleListens == Spec => []IdleMeansListening
<1>1. IInv => IdleMeansListening
  BY DEF IInv, IdleMeansListening, SerIsActive, Quiet, Writing, TypeOK
<1> QED
  BY <1>1, Invariance, PTL

\* The transmitter is turned off only when the last bit is out.
THEOREM NothingCutOff == Spec => LastByteOut
<1>1. ASSUME IInv, [Next]_vars, TXEN, ~TXEN'
      PROVE  BufEmpty /\ txdata = <<>> /\ shift = <<>>
  <2>1. TXC_vect
    BY <1>1 DEF Next, vars, usart, SerWrite, SerWriteStep, SwitchDuplex,
                TxIntEnable, RxIntRead, RxIntStore, DRE_vect, ShiftLoad, ShiftDone
  <2>2. TXCIF /\ BufEmpty
    BY <1>1, <2>1 DEF TXC_vect
  <2> QED
    BY <1>1, <2>2 DEF IInv, Complete
<1>2. IInv /\ [Next]_vars =>
        [TXEN /\ ~TXEN' => BufEmpty /\ txdata = <<>> /\ shift = <<>>]_vars
  BY <1>1
<1> QED
  BY <1>2, Invariance, PTL DEF Spec, LastByteOut

-----------------------------------------------------------------------------
(***************************************************************************)
(* The driver implements the half-duplex line Duplex.  The refinement      *)
(* mapping reads the queue off shift register, data register and ring, in  *)
(* this order.  DRE_vect and ShiftLoad move a byte along it, which nobody  *)
(* sees from outside.                                                      *)
(***************************************************************************)

\* the slot of the i-th queued byte
At(i) == IF tailp + i - 1 < BUF_SIZE THEN tailp + i - 1 ELSE tailp + i - 1 - BUF_SIZE

QueueSound ==
    /\ Queued \in Seq(Byte) /\ BufCnt \in 0 .. BUF_SIZE - 1
    /\ Len(Queued) = BufCnt
    /\ \A i \in 1 .. BufCnt : Queued[i] = txbuf[At(i)] /\ At(i) \in Slots

\* The ring's bytes are a sequence, as long as BUF_CNT says (ser.c:43-45).
LEMMA QueuedIsSeq == TypeOK => QueueSound
<1> SUFFICES ASSUME TypeOK PROVE QueueSound
  OBVIOUS
<1>1. BUF_SIZE \in Nat /\ headp \in 0 .. BUF_SIZE - 1 /\ tailp \in 0 .. BUF_SIZE - 1
  BY SerAssumption DEF TypeOK, Slots
<1>2. BufCnt \in 0 .. BUF_SIZE - 1
  BY <1>1 DEF BufCnt
<1>3. ASSUME NEW i \in 1 .. BufCnt
      PROVE  At(i) \in Slots /\ txbuf[At(i)] \in Byte
  <2>1. At(i) \in Slots
    BY <1>1, <1>2 DEF At, Slots
  <2> QED
    BY <2>1 DEF TypeOK
<1>4. Queued = [i \in 1 .. BufCnt |-> txbuf[At(i)]]
  BY DEF Queued, At
<1>5. Queued \in [1 .. BufCnt -> Byte]
  BY <1>3, <1>4
<1>6. Queued \in Seq(Byte) /\ Len(Queued) = BufCnt
  BY <1>2, <1>5
<1> QED
  BY <1>2, <1>3, <1>4, <1>6 DEF QueueSound

LEMMA QueuedIsSeqNext == TypeOK' => QueueSound'
  BY QueuedIsSeq, PTL

\* A single byte in front of a sequence.
LEMMA ByteInFront ==
    ASSUME NEW b \in Seq(Byte), Len(b) = 1, NEW r \in Seq(Byte)
    PROVE  /\ b \o r \in Seq(Byte) /\ Len(b \o r) = 1 + Len(r)
           /\ (b \o r)[1] = b[1]
           /\ \A i \in 1 .. Len(r) : (b \o r)[i + 1] = r[i]
           /\ b \o r # <<>> /\ Tail(b \o r) = r
<1> DEFINE q == b \o r
<1>1. Len(r) \in Nat
  BY LenProperties
<1>2. /\ q \in Seq(Byte) /\ Len(q) = Len(b) + Len(r)
      /\ \A i \in 1 .. Len(b) + Len(r) : q[i] = IF i <= Len(b) THEN b[i] ELSE r[i - Len(b)]
  BY ConcatProperties
<1> HIDE DEF q
<1>3. q \in Seq(Byte) /\ Len(q) = 1 + Len(r) /\ q[1] = b[1]
  BY <1>1, <1>2
<1>4. \A i \in 1 .. Len(r) : q[i + 1] = r[i]
  BY <1>1, <1>2
<1>5. q # <<>>
  BY <1>1, <1>3, EmptySeq
<1>6. /\ Tail(q) \in Seq(Byte) /\ Len(Tail(q)) = Len(r)
      /\ \A i \in 1 .. Len(r) : Tail(q)[i] = q[i + 1]
  BY <1>1, <1>3, <1>5, HeadTailProperties
<1>7. Tail(q) = r
  BY <1>4, <1>6, SeqEqual
<1> QED
  BY <1>3, <1>4, <1>5, <1>7 DEF q

\* Nothing is queued exactly when the indices are equal (ser.c:43).
LEMMA QueuedEmpty ==
    ASSUME TypeOK
    PROVE  BufEmpty <=> Queued = <<>>
<1>1. Queued \in Seq(Byte) /\ Len(Queued) = BufCnt
  BY QueuedIsSeq DEF QueueSound
<1>2. BufEmpty <=> BufCnt = 0
  BY SerAssumption DEF BufEmpty, BufCnt, TypeOK, Slots
<1>3. Queued = <<>> <=> Len(Queued) = 0
  BY <1>1, EmptySeq
<1> QED
  BY <1>1, <1>2, <1>3

\* The copy loop queues the packet, whole and in order (ser.c:143-147).
LEMMA CopyQueues ==
    ASSUME IInv, IInv', NEW p \in Packets, SerWrite(p)
    PROVE  Queued' = p
<1>1. /\ BufEmpty /\ headp' = SlotOf(RoomFor(Len(p)) + 1) /\ tailp' = tailp
      /\ txbuf' = Copied(p, RoomFor(Len(p)))
  BY DEF SerWrite, SerIsActive
<1>2. RoomFor(Len(p)) = Len(p) /\ Len(p) \in 1 .. BUF_SIZE - 1
  BY <1>1, CopyLoop DEF IInv
<1>3. BUF_SIZE \in Nat /\ headp \in 0 .. BUF_SIZE - 1 /\ tailp = headp /\ p \in Seq(Byte)
  BY <1>1, SerAssumption DEF IInv, TypeOK, Slots, BufEmpty
<1>4. BufCnt' = Len(p)
  BY <1>1, <1>2, <1>3 DEF BufCnt, SlotOf
<1>5. Queued' \in Seq(Byte) /\ Len(Queued') = Len(p)
      /\ \A i \in 1 .. Len(p) : Queued'[i] = txbuf'[At(i)']
  BY <1>4, QueuedIsSeqNext DEF IInv, QueueSound
<1>6. ASSUME NEW i \in 1 .. Len(p)
      PROVE  Queued'[i] = p[i]
  <2>1. At(i)' = SlotOf(i) /\ SlotOf(i) \in Slots
    BY <1>1, <1>2, <1>3 DEF At, SlotOf, Slots
  <2>2. \A j \in 1 .. Len(p) : SlotOf(j) = SlotOf(i) => j = i
    BY <1>2, <1>3 DEF SlotOf
  <2>3. (CHOOSE j \in 1 .. Len(p) : SlotOf(j) = SlotOf(i)) = i
    BY <2>2
  <2>4. Copied(p, Len(p))[SlotOf(i)] = p[i]
    BY <2>1, <2>3 DEF Copied
  <2> QED
    BY <1>1, <1>2, <1>5, <2>1, <2>4
<1> QED
  BY <1>3, <1>5, <1>6, SeqEqual

\* DRE_vect takes the oldest byte (ser.c:201-204).
LEMMA HandlerTakesOldest ==
    ASSUME IInv, IInv', DRE_vect, ~BufEmpty
    PROVE  txdata' \o Queued' = Queued
<1>1. /\ txdata' = <<txbuf[tailp]>> /\ tailp' = Incr(tailp) /\ headp' = headp /\ txbuf' = txbuf
  BY DEF DRE_vect
<1>2. BUF_SIZE \in Nat /\ headp \in 0 .. BUF_SIZE - 1 /\ tailp \in 0 .. BUF_SIZE - 1 /\ headp # tailp
  BY SerAssumption DEF IInv, TypeOK, Slots, BufEmpty
<1>3. BufCnt' = BufCnt - 1 /\ BufCnt \in 1 .. BUF_SIZE - 1
  BY <1>1, <1>2 DEF BufCnt, Incr
<1>4. /\ Queued \in Seq(Byte) /\ Len(Queued) = BufCnt
      /\ \A i \in 1 .. BufCnt : Queued[i] = txbuf[At(i)]
  BY QueuedIsSeq DEF IInv, QueueSound
<1>5. /\ Queued' \in Seq(Byte) /\ Len(Queued') = BufCnt'
      /\ \A i \in 1 .. BufCnt' : Queued'[i] = txbuf'[At(i)']
  BY QueuedIsSeqNext DEF IInv, QueueSound
<1>6. txdata' \in Seq(Byte) /\ Len(txdata') = 1 /\ txdata'[1] = txbuf[tailp]
  BY <1>1 DEF IInv, TypeOK
<1>7. /\ txdata' \o Queued' \in Seq(Byte)
      /\ Len(txdata' \o Queued') = BufCnt
      /\ (txdata' \o Queued')[1] = txdata'[1]
      /\ \A i \in 1 .. BufCnt - 1 : (txdata' \o Queued')[i + 1] = Queued'[i]
  BY <1>3, <1>5, <1>6, ByteInFront
<1>8. ASSUME NEW i \in 1 .. BufCnt
      PROVE  (txdata' \o Queued')[i] = Queued[i]
  <2>1. CASE i = 1
    <3>1. At(1) = tailp
      BY <1>2 DEF At
    <3> QED
      BY <2>1, <3>1, <1>4, <1>6, <1>7
  <2>2. CASE i # 1
    <3>1. i - 1 \in 1 .. BufCnt' /\ i \in Nat
      BY <2>2, <1>3
    <3>2. At(i - 1)' = At(i)
      BY <3>1, <1>1, <1>2, <1>3 DEF At, Incr
    <3>3. Queued'[i - 1] = txbuf'[At(i - 1)']
      BY <3>1, <1>5
    <3>4. (txdata' \o Queued')[(i - 1) + 1] = Queued'[i - 1] /\ (i - 1) + 1 = i
      BY <3>1, <1>3, <1>7
    <3> QED
      BY <3>2, <3>3, <3>4, <1>1, <1>4
  <2> QED
    BY <2>1, <2>2
<1> QED
  BY <1>4, <1>7, <1>8, SeqEqual

LEMMA Associative == \A a, b, c \in Seq(Byte) : (a \o b) \o c = a \o (b \o c)
  BY ConcatAssociative

\* Each step of the driver is a step of the line or none.
LEMMA StepIsLineStep ==
    ASSUME IInv, IInv', [Next]_vars
    PROVE  [Line!DuplexNext]_Line!duplexVars
<1> DEFINE mode == IF TXCIE \/ pc # "return" THEN "send" ELSE "listen"
           queue == shift \o txdata \o Queued
<1> SUFFICES \/ mode = "listen" /\ mode' = "send" /\ queue' \in Packets
             \/ mode = "send" /\ queue # <<>> /\ queue' = Tail(queue) /\ mode' = mode
             \/ mode = "send" /\ queue = <<>> /\ mode' = "listen" /\ queue' = queue
             \/ mode' = mode /\ queue' = queue
  BY DEF Line!DuplexNext, Line!Send, Line!Emit, Line!Listen, Line!duplexVars
<1>1. /\ Queued \in Seq(Byte) /\ Queued' \in Seq(Byte)
      /\ shift \in Seq(Byte) /\ txdata \in Seq(Byte)
      /\ shift' \in Seq(Byte) /\ txdata' \in Seq(Byte)
  BY QueuedIsSeq, QueuedIsSeqNext DEF IInv, TypeOK, QueueSound
<1>2. ASSUME UNCHANGED <<ring, shift, txdata>>
      PROVE  queue' = queue
  BY <1>2 DEF ring, Queued, BufCnt
<1>3. ASSUME NEW p \in Packets, SerWrite(p)
      PROVE  mode = "listen" /\ mode' = "send" /\ queue' \in Packets
  <2>1. mode = "listen" /\ mode' = "send" /\ shift' = <<>> /\ txdata' = <<>>
    BY <1>3 DEF SerWrite, SerIsActive, IInv, Quiet
  <2>2. Queued' = p
    BY <1>3, CopyQueues
  <2>3. queue' = p
    <3>1. <<>> \o <<>> \o Queued' = Queued'
      BY <1>1, ConcatEmptySeq
    <3> QED
      BY <2>1, <2>2, <3>1
  <2> QED
    BY <2>1, <2>3
<1>4. CASE SerWriteStep
  <2>1. UNCHANGED <<ring, shift, txdata>>
    BY <1>4 DEF SerWriteStep, SwitchDuplex, TxIntEnable, RxIntRead, RxIntStore, usart
  <2>2. mode' = mode
    <3>1. CASE SwitchDuplex \/ TxIntEnable \/ RxIntRead
      BY <3>1 DEF SwitchDuplex, TxIntEnable, RxIntRead
    <3>2. CASE RxIntStore
      BY <3>2 DEF RxIntStore, IInv, Writing
    <3> QED
      BY <1>4, <3>1, <3>2 DEF SerWriteStep
  <2> QED
    BY <1>2, <2>1, <2>2
<1>5. CASE DRE_vect /\ BufEmpty
  <2>1. UNCHANGED <<ring, shift, txdata>> /\ UNCHANGED <<TXCIE, pc>>
    BY <1>5 DEF DRE_vect, ring, main
  <2> QED
    BY <1>2, <2>1
<1>6. CASE DRE_vect /\ ~BufEmpty
  <2>1. UNCHANGED <<TXCIE, pc, shift>> /\ txdata = <<>>
    BY <1>6 DEF DRE_vect, main
  <2>2. txdata' \o Queued' = Queued
    BY <1>6, HandlerTakesOldest
  <2>3. queue = shift \o Queued
    BY <1>1, <2>1, ConcatEmptySeq
  <2>4. queue' = shift \o (txdata' \o Queued')
    <3>1. (shift' \o txdata') \o Queued' = shift' \o (txdata' \o Queued')
      BY <1>1, Associative
    <3> QED
      BY <2>1, <3>1
  <2> QED
    BY <2>1, <2>2, <2>3, <2>4
<1>7. CASE TXC_vect /\ BufEmpty
  <2>1. /\ TXCIE /\ TXCIF /\ TXCIE' = FALSE
        /\ UNCHANGED <<ring, shift, txdata>> /\ pc' = pc
    BY <1>7 DEF TXC_vect, main
  <2>2. pc = "return"
    BY <2>1 DEF IInv, Writing, TypeOK
  <2>3. shift = <<>> /\ txdata = <<>> /\ Queued = <<>>
    BY <1>7, <2>1, QueuedEmpty DEF IInv, Complete
  <2>4. <<>> \o <<>> \o <<>> = <<>>
    BY EmptySeq, ConcatEmptySeq
  <2> QED
    BY <1>2, <2>1, <2>2, <2>3, <2>4
<1>8. CASE TXC_vect /\ ~BufEmpty
  <2>1. UNCHANGED <<ring, shift, txdata>> /\ UNCHANGED <<TXCIE, pc>>
    BY <1>8 DEF TXC_vect, main
  <2> QED
    BY <1>2, <2>1
<1>9. CASE ShiftLoad
  <2>1. /\ shift = <<>> /\ shift' = txdata /\ txdata' = <<>>
        /\ UNCHANGED <<ring, TXCIE, pc>>
    BY <1>9 DEF ShiftLoad, main
  <2>2. Queued' = Queued
    BY <2>1 DEF Queued, BufCnt, ring
  <2>3. <<>> \o txdata = txdata /\ txdata \o <<>> = txdata
    BY <1>1, ConcatEmptySeq
  <2> QED
    BY <2>1, <2>2, <2>3
<1>10. CASE ShiftDone
  <2>1. /\ shift # <<>> /\ shift' = <<>> /\ pc = "return"
        /\ UNCHANGED <<ring, txdata, TXCIE, pc>>
    BY <1>10 DEF ShiftDone, main
  <2>2. Queued' = Queued
    BY <2>1 DEF Queued, BufCnt, ring
  <2>3. mode = "send" /\ mode' = mode
    BY <2>1 DEF IInv, Quiet
  <2>4. Len(shift) = 1
    <3>1. Len(shift) \in Nat \ {0} /\ Len(shift) <= 1
      BY <2>1, EmptySeq DEF IInv, TypeOK
    <3>2. \A k \in Nat \ {0} : k <= 1 => k = 1
      OBVIOUS
    <3> QED
      BY <3>1, <3>2
  <2>5. queue # <<>> /\ queue' = Tail(queue)
    <3> DEFINE rest == txdata \o Queued
    <3>1. rest \in Seq(Byte) /\ queue = shift \o rest /\ queue' = rest
      <4>1. rest \in Seq(Byte)
        BY <1>1, ConcatProperties
      <4>2. queue = shift \o rest
        <5>1. (shift \o txdata) \o Queued = shift \o (txdata \o Queued)
          BY <1>1, Associative
        <5> QED
          BY <5>1
      <4>3. <<>> \o txdata = txdata
        BY <1>1, ConcatEmptySeq
      <4> QED
        BY <2>1, <2>2, <4>1, <4>2, <4>3
    <3> HIDE DEF rest, queue
    <3>2. shift \o rest # <<>> /\ Tail(shift \o rest) = rest
      BY <1>1, <2>4, <3>1, ByteInFront
    <3> QED
      BY <3>1, <3>2
  <2> QED
    BY <2>3, <2>5
<1>11. CASE UNCHANGED vars
  BY <1>2, <1>11 DEF vars, ring, usart, main
<1> QED
  BY <1>3, <1>4, <1>5, <1>6, <1>7, <1>8, <1>9, <1>10, <1>11 DEF Next

\* The driver implements the half-duplex line: a packet leaves whole, once and in
\* order, and until its last byte is out the node does not listen.  This is the
\* safety part of ImplementsDuplex.
THEOREM Refinement == Spec => Line!DuplexSafety
<1>1. Init => Line!DuplexInit
  <2> SUFFICES ASSUME Init PROVE Line!DuplexInit
    OBVIOUS
  <2>1. Queued = <<>>
    <3>1. TypeOK /\ BufEmpty
      BY InitIInv DEF Init, IInv, BufEmpty
    <3> QED
      BY <3>1, QueuedEmpty
  <2>2. <<>> \o <<>> \o <<>> = <<>>
    <3>1. <<>> \in Seq(Byte)
      BY EmptySeq
    <3>2. <<>> \o <<>> = <<>>
      BY <3>1, ConcatEmptySeq
    <3> QED
      BY <3>2
  <2> QED
    <3>1. TXCIE = FALSE /\ pc = "return" /\ shift = <<>> /\ txdata = <<>>
      BY DEF Init
    <3>2. (IF TXCIE \/ pc # "return" THEN "send" ELSE "listen") = "listen"
      BY <3>1
    <3>3. shift \o txdata \o Queued = <<>>
      BY <2>1, <2>2, <3>1
    <3> QED
      BY <3>2, <3>3 DEF Line!DuplexInit
<1>2. IInv /\ IInv' /\ [Next]_vars => [Line!DuplexNext]_Line!duplexVars
  BY StepIsLineStep
<1> QED
  BY <1>1, <1>2, Invariance, PTL DEF Spec, Line!DuplexSafety
=============================================================================
