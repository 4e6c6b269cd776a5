----------------------------- MODULE PktProofs -----------------------------
(***************************************************************************)
(* Proofs about the packet processor, for every set of byte values, every  *)
(* header and payload length and every CRC function that satisfy           *)
(* PktAssumption and CrcAssumption.                                        *)
(***************************************************************************)
EXTENDS PktFrames, FiniteSets, FiniteSetTheorems, TLAPS

(***************************************************************************)
(* The inductive invariant.  OneOwner and Framed are not inductive without *)
(* the relation between the parser's counters and the length field         *)
(* (Counters), and Resync follows from a bound on the run of preambles in  *)
(* every state of the parser (PreambleBound): a preamble is no acceptable  *)
(* length, so a run of preambles that enters the payload started after the *)
(* header, and it uses up one byte of the payload per preamble.            *)
(***************************************************************************)

Counters ==
    /\ state = "HEADER" => idx < PKT_HEADER_LEN
    /\ state = "DATA" =>
          /\ PKT_HEADER_LEN <= idx
          /\ len >= 1
          /\ idx + len = PKT_HEADER_LEN + PktGetLen(rxbuf)
          /\ PktGetLen(rxbuf) <= PKT_PAYLOAD_LEN
    /\ state = "CHECK" =>
          /\ idx = PKT_HEADER_LEN + PktGetLen(rxbuf)
          /\ PktGetLen(rxbuf) <= PKT_PAYLOAD_LEN

PreambleBound ==
    /\ state = "SEARCH" => preambles <= PKT_PAYLOAD_LEN + 1
    /\ state = "HEADER" => preambles <= idx
    /\ state = "DATA"   => preambles + len <= PKT_PAYLOAD_LEN
    /\ state = "CHECK"  => preambles <= PKT_PAYLOAD_LEN

Stored ==
    state \in Receiving =>
        /\ Len(heard) = idx
        /\ \A i \in 1 .. idx : rxbuf[i - 1] = heard[i]

IInv == TypeOK /\ OneOwner /\ Counters /\ PreambleBound /\ Stored /\ Framed

-----------------------------------------------------------------------------
\* Storing a byte (pbuf[idx] = nextbyte, pkt.c:272-313) keeps the buffer, the
\* index and the CRC in their types, and what is stored agrees with the line.
LEMMA StoreStep ==
    ASSUME TypeOK, Stored, Counters, state \in {"HEADER", "DATA"},
           NEW b \in Bytes, Store(b)
    PROVE  /\ idx < RXBUF_SIZE
           /\ rxbuf' \in Buffers /\ idx' \in 0 .. RXBUF_SIZE
           /\ crc' \in Uint8 /\ heard' \in Seq(Bytes)
           /\ rxbuf'[idx] = b
           /\ \A i \in 0 .. RXBUF_SIZE - 1 : i # idx => rxbuf'[i] = rxbuf[i]
           /\ Len(heard') = idx'
           /\ \A i \in 1 .. idx' : rxbuf'[i - 1] = heard'[i]
<1> USE PktAssumption
<1>1. b \in Uint8 /\ rxbuf \in Buffers /\ idx \in Nat
  BY DEF TypeOK
<1>1a. idx < RXBUF_SIZE
  <2>1. PktGetLen(rxbuf) \in 0 .. 255
    BY <1>1 DEF PktGetLen, Buffers, Uint8
  <2>2. CASE state = "HEADER"
    BY <1>1, <2>2 DEF Counters
  <2>3. CASE state = "DATA"
    <3>1. len \in 0 .. 255
      BY DEF TypeOK, Uint8
    <3> QED
      BY <1>1, <2>1, <2>3, <3>1 DEF Counters
  <2> QED
    BY <2>2, <2>3
<1>2. rxbuf' \in Buffers /\ idx' \in 0 .. RXBUF_SIZE /\ crc' \in Uint8
  BY <1>1, <1>1a, CrcAssumption DEF TypeOK, Store, Buffers
<1>3. /\ rxbuf'[idx] = b
      /\ \A i \in 0 .. RXBUF_SIZE - 1 : i # idx => rxbuf'[i] = rxbuf[i]
  BY <1>1, <1>1a DEF Store, Buffers
<1>4. heard \in Seq(Bytes) /\ Len(heard) = idx
  BY DEF TypeOK, Stored, Receiving
<1>5. heard' \in Seq(Bytes) /\ Len(heard') = idx + 1 /\ idx' = idx + 1
  BY <1>4 DEF Store
<1>6. ASSUME NEW i \in 1 .. idx'
      PROVE  rxbuf'[i - 1] = heard'[i]
  <2>1. CASE i = idx + 1
    BY <1>1, <1>3, <1>4, <2>1 DEF Store
  <2>2. CASE i # idx + 1
    <3>1. i \in 1 .. idx /\ i - 1 \in 0 .. RXBUF_SIZE - 1 /\ i - 1 # idx
      BY <1>1, <1>1a, <1>5, <2>2
    <3>2. heard'[i] = heard[i]
      BY <1>4, <3>1 DEF Store
    <3>3. rxbuf[i - 1] = heard[i]
      BY <3>1 DEF Stored, Receiving
    <3> QED
      BY <1>3, <3>1, <3>2, <3>3
  <2> QED
    BY <2>1, <2>2
<1> QED
  BY <1>1, <1>2, <1>3, <1>5, <1>6

\* The run of preambles stays within its cap, and a byte that is no preamble
\* ends it.
LEMMA CountStep ==
    ASSUME TypeOK, NEW b \in Bytes, CountPreambles(b)
    PROVE  /\ preambles' \in 0 .. PreambleCap
           /\ preambles' <= preambles + 1
           /\ b # PKT_PREAMBLE => preambles' = 0
           /\ preambles \in 0 .. PreambleCap
  BY PktAssumption DEF TypeOK, CountPreambles, PreambleCap

\* Reading the length out of the header yields a byte.
LEMMA LenIsByte ==
    ASSUME NEW buf \in Buffers
    PROVE  PktGetLen(buf) \in 0 .. 255
  BY PktAssumption DEF PktGetLen, Buffers, Uint8

-----------------------------------------------------------------------------
\* The parser starts in a state that satisfies the invariant (pkt.c:63-73).
LEMMA InitIInv == Init => IInv
<1> SUFFICES ASSUME Init PROVE IInv
  OBVIOUS
<1> USE PktAssumption
<1>1. TypeOK
  <2>1. rxbuf \in Buffers
    BY DEF Init, Buffers, Uint8
  <2>2. preambles \in 0 .. PreambleCap /\ heard \in Seq(Bytes)
    BY DEF Init, PreambleCap
  <2>3. /\ state \in States /\ idx \in 0 .. RXBUF_SIZE
        /\ crc \in Uint8 /\ len \in Uint8
    BY DEF Init, States, Uint8
  <2>4. rxbuf_inuse \in BOOLEAN /\ ready_packet \in BOOLEAN /\ held \in BOOLEAN
    BY DEF Init
  <2> QED
    BY <2>1, <2>2, <2>3, <2>4 DEF TypeOK
<1>2. OneOwner /\ Counters /\ Stored /\ Framed
  BY DEF Init, OneOwner, Counters, Stored, Framed, Receiving
<1>3. PreambleBound
  BY DEF Init, PreambleBound
<1> QED
  BY <1>1, <1>2, <1>3 DEF IInv

\* RX_SEARCH: nothing changes but the state and the history (pkt.c:236-241).
LEMMA SearchStep ==
    ASSUME IInv, NEW b \in Bytes, RxSearch(b), CountPreambles(b), UNCHANGED held
    PROVE  IInv'
<1> USE PktAssumption DEF IInv, RxSearch, bufferVars
<1>1. TypeOK'
  BY CountStep DEF TypeOK, States, PreambleCap
<1>2. OneOwner' /\ Counters' /\ Stored' /\ Framed'
  BY DEF OneOwner, Counters, Stored, Framed, Receiving
<1>3. PreambleBound'
  BY CountStep DEF PreambleBound, PreambleCap
<1> QED
  BY <1>1, <1>2, <1>3

\* RX_SYNC: the buffer is claimed only when nobody has it (pkt.c:244-269).
LEMMA SyncStep ==
    ASSUME IInv, NEW b \in Bytes, RxSync(b), CountPreambles(b), UNCHANGED held
    PROVE  IInv'
<1> USE PktAssumption DEF IInv, RxSync
<1>1. TypeOK'
  <2>1. CASE b = PKT_SYNC /\ ~rxbuf_inuse
    <3>1. /\ state' = "HEADER" /\ idx' = 0 /\ crc' = 0 /\ heard' = <<>>
          /\ rxbuf_inuse' = TRUE
          /\ UNCHANGED <<ready_packet, rxbuf, len>>
      BY <2>1
    <3> QED
      BY CountStep, <3>1 DEF TypeOK, States, Uint8
  <2>2. CASE ~(b = PKT_SYNC /\ ~rxbuf_inuse)
    <3>1. /\ state' \in {"SYNC", "SEARCH"}
          /\ UNCHANGED <<rxbuf_inuse, idx, crc, heard>>
          /\ UNCHANGED <<ready_packet, rxbuf, len>>
      BY <2>2
    <3> QED
      BY CountStep, <3>1 DEF TypeOK, States
  <2> QED
    BY <2>1, <2>2
<1>2. OneOwner'
  BY DEF OneOwner, Receiving
<1>3. Counters' /\ Stored'
  BY DEF Counters, Stored, Receiving
<1>4. Framed'
  BY DEF Framed, OneOwner, Receiving
<1>5. PreambleBound'
  BY CountStep DEF PreambleBound, PreambleCap
<1> QED
  BY <1>1, <1>2, <1>3, <1>4, <1>5

\* RX_HEADER: a header byte is stored; the last one decides what follows, and
\* if it was a preamble the packet is abandoned (pkt.c:272-300).
LEMMA HeaderStep ==
    ASSUME IInv, NEW b \in Bytes, RxHeader(b), CountPreambles(b), UNCHANGED held
    PROVE  IInv'
<1> USE PktAssumption DEF IInv
<1> DEFINE n == PktGetLen(rxbuf')
<1>1. /\ state = "HEADER" /\ Store(b) /\ ready_packet' = ready_packet
      /\ idx' = idx + 1 /\ idx \in Nat
  BY DEF RxHeader, Store, TypeOK
<1>2. /\ idx < RXBUF_SIZE
      /\ rxbuf' \in Buffers /\ idx' \in 0 .. RXBUF_SIZE
      /\ crc' \in Uint8 /\ heard' \in Seq(Bytes)
      /\ rxbuf'[idx] = b
      /\ Len(heard') = idx'
      /\ \A i \in 1 .. idx' : rxbuf'[i - 1] = heard'[i]
  BY <1>1, StoreStep
<1>3. n \in 0 .. 255
  BY <1>2, LenIsByte
<1>4. /\ ~ready_packet /\ ~held /\ rxbuf_inuse
      /\ ~ready_packet' /\ ~held'
  BY <1>1 DEF OneOwner, Receiving
<1>5. /\ preambles' \in 0 .. PreambleCap /\ preambles \in 0 .. PreambleCap
      /\ preambles' <= idx + 1
      /\ b # PKT_PREAMBLE => preambles' = 0
  BY <1>1, CountStep DEF PreambleBound, PreambleCap
<1>6. Framed'
  BY <1>4 DEF Framed
<1>7. CASE idx' # PKT_HEADER_LEN
  <2>1. UNCHANGED <<len, state, rxbuf_inuse>>
    BY <1>7 DEF RxHeader
  <2>2. TypeOK'
    BY <1>1, <1>2, <1>5, <2>1 DEF TypeOK
  <2>3. OneOwner'
    BY <1>1, <1>4, <2>1 DEF OneOwner, Receiving
  <2>4. Counters'
    BY <1>1, <1>7, <2>1 DEF Counters
  <2>5. Stored' /\ PreambleBound'
    BY <1>1, <1>2, <1>5, <2>1 DEF Stored, PreambleBound
  <2> QED
    BY <1>6, <2>2, <2>3, <2>4, <2>5
<1>8. CASE idx' = PKT_HEADER_LEN
  <2>1. /\ len' = n
        /\ state' = CASE n = 0               -> "CHECK"
                      [] n > PKT_PAYLOAD_LEN -> "SEARCH"
                      [] OTHER               -> "DATA"
        /\ rxbuf_inuse' = IF n > PKT_PAYLOAD_LEN THEN FALSE ELSE rxbuf_inuse
    BY <1>8 DEF RxHeader
  <2>1a. n = b
    BY <1>1, <1>2, <1>8 DEF PktGetLen
  <2>2. TypeOK'
    <3>1. state' \in States /\ len' \in Uint8
      BY <1>3, <2>1 DEF States, Uint8
    <3>2. rxbuf_inuse' \in BOOLEAN /\ ready_packet' \in BOOLEAN /\ held' \in BOOLEAN
      BY <1>1, <2>1 DEF TypeOK
    <3> QED
      BY <1>2, <1>5, <3>1, <3>2 DEF TypeOK
  <2>3. CASE n = 0
    <3>1. state' = "CHECK" /\ rxbuf_inuse' /\ preambles' = 0
      BY <1>4, <1>5, <2>1, <2>1a, <2>3
    <3>2. OneOwner' /\ Stored'
      BY <1>2, <1>4, <3>1 DEF OneOwner, Receiving, Stored
    <3>3. Counters'
      BY <1>8, <2>3, <3>1 DEF Counters
    <3>4. PreambleBound'
      BY <3>1 DEF PreambleBound
    <3> QED
      BY <1>6, <2>2, <3>2, <3>3, <3>4
  <2>4. CASE n > PKT_PAYLOAD_LEN
    <3>1. state' = "SEARCH" /\ ~rxbuf_inuse'
      BY <2>1, <2>4
    <3>2. OneOwner' /\ Stored' /\ Counters'
      BY <1>4, <3>1 DEF OneOwner, Receiving, Stored, Counters
    <3>3. PreambleBound'
      BY <1>1, <1>5, <1>8, <3>1 DEF PreambleBound, PreambleCap
    <3> QED
      BY <1>6, <2>2, <3>2, <3>3
  <2>5. CASE n # 0 /\ n <= PKT_PAYLOAD_LEN
    <3>1. state' = "DATA" /\ rxbuf_inuse' /\ preambles' = 0
      BY <1>3, <1>4, <1>5, <2>1, <2>1a, <2>5
    <3>2. OneOwner' /\ Stored'
      BY <1>2, <1>4, <3>1 DEF OneOwner, Receiving, Stored
    <3>3. Counters'
      BY <1>3, <1>8, <2>1, <2>5, <3>1 DEF Counters
    <3>4. PreambleBound'
      BY <1>3, <2>1, <2>5, <3>1 DEF PreambleBound
    <3> QED
      BY <1>6, <2>2, <3>2, <3>3, <3>4
  <2> QED
    BY <1>3, <2>3, <2>4, <2>5
<1> QED
  BY <1>7, <1>8

\* RX_DATA: a payload byte is stored and counted down (pkt.c:304-313).
LEMMA DataStep ==
    ASSUME IInv, NEW b \in Bytes, RxData(b), CountPreambles(b), UNCHANGED held
    PROVE  IInv'
<1> USE PktAssumption DEF IInv
<1>1. /\ state = "DATA" /\ Store(b)
      /\ len' = len - 1
      /\ state' = IF len' = 0 THEN "CHECK" ELSE "DATA"
      /\ UNCHANGED <<ready_packet, rxbuf_inuse, held>>
      /\ idx' = idx + 1 /\ idx \in Nat /\ len \in 0 .. 255
  BY DEF RxData, Store, TypeOK, Uint8
<1>2. /\ idx < RXBUF_SIZE
      /\ rxbuf' \in Buffers /\ idx' \in 0 .. RXBUF_SIZE
      /\ crc' \in Uint8 /\ heard' \in Seq(Bytes)
      /\ \A i \in 0 .. RXBUF_SIZE - 1 : i # idx => rxbuf'[i] = rxbuf[i]
      /\ Len(heard') = idx'
      /\ \A i \in 1 .. idx' : rxbuf'[i - 1] = heard'[i]
  BY <1>1, StoreStep
<1>3. /\ PKT_HEADER_LEN <= idx /\ len >= 1
      /\ idx + len = PKT_HEADER_LEN + PktGetLen(rxbuf)
      /\ PktGetLen(rxbuf) <= PKT_PAYLOAD_LEN
      /\ PktGetLen(rxbuf) \in 0 .. 255
  BY <1>1, LenIsByte DEF Counters, TypeOK
<1>4. PktGetLen(rxbuf') = PktGetLen(rxbuf)
  BY <1>1, <1>2, <1>3 DEF PktGetLen
<1>5. /\ preambles' \in 0 .. PreambleCap
      /\ preambles' + len' <= PKT_PAYLOAD_LEN
  BY <1>1, <1>3, CountStep DEF PreambleBound, PreambleCap
<1>6. ~ready_packet' /\ ~held' /\ rxbuf_inuse'
  BY <1>1 DEF OneOwner, Receiving
<1>7. TypeOK'
  <2>1. state' \in States /\ len' \in Uint8
    BY <1>1, <1>3 DEF States, Uint8
  <2> QED
    BY <1>1, <1>2, <1>5, <2>1 DEF TypeOK
<1>8. OneOwner' /\ Framed'
  BY <1>1, <1>6 DEF OneOwner, Receiving, Framed
<1>9. Counters'
  BY <1>1, <1>3, <1>4 DEF Counters
<1>10. PreambleBound'
  <2>1. state' \in {"DATA", "CHECK"}
    BY <1>1
  <2>2. preambles' <= PKT_PAYLOAD_LEN
    BY <1>1, <1>3, CountStep, <1>5 DEF PreambleBound, PreambleCap
  <2> QED
    BY <1>5, <2>1, <2>2 DEF PreambleBound
<1>11. Stored'
  BY <1>2 DEF Stored
<1> QED
  BY <1>7, <1>8, <1>9, <1>10, <1>11

\* RX_CHECK: the packet is delivered with its buffer, or the buffer is freed
\* (pkt.c:317-329).
LEMMA CheckStep ==
    ASSUME IInv, NEW b \in Bytes, RxCheck(b), CountPreambles(b), UNCHANGED held
    PROVE  IInv'
<1> USE PktAssumption DEF IInv
<1>1. /\ state = "CHECK" /\ state' = "SEARCH"
      /\ heard' = Append(heard, b)
      /\ UNCHANGED <<rxbuf, idx, crc, len, held>>
  BY DEF RxCheck
<1>2. /\ heard \in Seq(Bytes) /\ Len(heard) = idx /\ idx \in Nat
      /\ \A i \in 1 .. idx : rxbuf[i - 1] = heard[i]
      /\ idx = PKT_HEADER_LEN + PktGetLen(rxbuf)
      /\ PktGetLen(rxbuf) <= PKT_PAYLOAD_LEN
      /\ PktGetLen(rxbuf) \in 0 .. 255
  <2>1. Len(heard) = idx /\ \A i \in 1 .. idx : rxbuf[i - 1] = heard[i]
    BY <1>1 DEF Stored, Receiving
  <2>2. heard \in Seq(Bytes) /\ idx \in Nat /\ PktGetLen(rxbuf) \in 0 .. 255
    BY LenIsByte DEF TypeOK
  <2> QED
    BY <1>1, <2>1, <2>2 DEF Counters
<1>3. /\ heard' \in Seq(Bytes)
      /\ Len(heard') = PKT_HEADER_LEN + PktGetLen(rxbuf) + 1
      /\ \A i \in 1 .. Len(heard') - 1 : rxbuf[i - 1] = heard'[i]
  <2>1. heard' \in Seq(Bytes) /\ Len(heard') = idx + 1
    BY <1>1, <1>2
  <2>2. \A i \in 1 .. idx : heard'[i] = heard[i]
    BY <1>1, <1>2
  <2> QED
    BY <1>2, <2>1, <2>2
<1>4. Framed'
  <2>1. PktGetLen(rxbuf') = PktGetLen(rxbuf) /\ rxbuf' = rxbuf
    BY <1>1
  <2> QED
    BY <1>2, <1>3, <2>1 DEF Framed
<1>5. rxbuf_inuse /\ ~ready_packet /\ ~held /\ ~held'
  BY <1>1 DEF OneOwner, Receiving
<1>6. CASE b = crc
  <2>1. ready_packet' = TRUE /\ UNCHANGED rxbuf_inuse
    BY <1>6 DEF RxCheck
  <2>2. TypeOK'
    BY <1>1, <1>3, <2>1, CountStep DEF TypeOK, States
  <2>3. OneOwner' /\ Counters' /\ Stored'
    BY <1>1, <1>5, <2>1 DEF OneOwner, Receiving, Counters, Stored
  <2>4. PreambleBound'
    BY <1>1, CountStep DEF PreambleBound, PreambleCap
  <2> QED
    BY <1>4, <2>2, <2>3, <2>4
<1>7. CASE b # crc
  <2>1. rxbuf_inuse' = FALSE /\ UNCHANGED ready_packet
    BY <1>7 DEF RxCheck
  <2>2. TypeOK'
    BY <1>1, <1>3, <2>1, CountStep DEF TypeOK, States
  <2>3. OneOwner' /\ Counters' /\ Stored'
    BY <1>1, <1>5, <2>1 DEF OneOwner, Receiving, Counters, Stored
  <2>4. PreambleBound'
    BY <1>1, CountStep DEF PreambleBound, PreambleCap
  <2> QED
    BY <1>4, <2>2, <2>3, <2>4
<1> QED
  BY <1>6, <1>7

\* The main loop's operations keep the invariant: taking and freeing hand the
\* buffer on, a reset takes it from whoever has it (pkt.c:113-162).
LEMMA ClientStep ==
    ASSUME IInv, PktReady \/ PktRxFree \/ PktReset
    PROVE  IInv'
<1> USE PktAssumption DEF IInv, parserVars, history
<1>1. CASE PktReady
  <2> USE <1>1 DEF PktReady
  <2>1. TypeOK'
    BY DEF TypeOK
  <2>2. OneOwner'
    BY DEF OneOwner, Receiving, TypeOK
  <2>3. Counters' /\ PreambleBound' /\ Stored'
    BY DEF Counters, PreambleBound, Stored, PktGetLen
  <2>4. Framed'
    BY DEF Framed, PktGetLen
  <2> QED
    BY <2>1, <2>2, <2>3, <2>4
<1>2. CASE PktRxFree
  <2> USE <1>2 DEF PktRxFree
  <2>1. TypeOK'
    BY DEF TypeOK
  <2>2. OneOwner'
    BY DEF OneOwner, Receiving
  <2>3. Counters' /\ PreambleBound' /\ Stored'
    BY DEF Counters, PreambleBound, Stored, PktGetLen
  <2>4. Framed'
    BY DEF Framed, OneOwner, PktGetLen
  <2> QED
    BY <2>1, <2>2, <2>3, <2>4
<1>3. CASE PktReset
  <2> USE <1>3 DEF PktReset
  <2>1. TypeOK'
    <3>1. state' \in States /\ preambles' \in 0 .. PreambleCap
      BY DEF States, PreambleCap
    <3> QED
      BY <3>1 DEF TypeOK
  <2>2. OneOwner' /\ Counters' /\ Stored' /\ Framed'
    BY DEF OneOwner, Receiving, Counters, Stored, Framed
  <2>3. PreambleBound'
    BY DEF PreambleBound
  <2> QED
    BY <2>1, <2>2, <2>3
<1> QED
  BY <1>1, <1>2, <1>3

\* Every step keeps the invariant.
LEMMA NextIInv == IInv /\ [Next]_vars => IInv'
<1> SUFFICES ASSUME IInv, [Next]_vars
             PROVE  IInv'
  OBVIOUS
<1>1. ASSUME NEW b \in Bytes, PktParser(b)
      PROVE  IInv'
  <2>1. CountPreambles(b) /\ UNCHANGED held
    BY <1>1 DEF PktParser
  <2>2. CASE RxSearch(b)
    BY <2>1, <2>2, SearchStep
  <2>3. CASE RxSync(b)
    BY <2>1, <2>3, SyncStep
  <2>4. CASE RxHeader(b)
    BY <2>1, <2>4, HeaderStep
  <2>5. CASE RxData(b)
    BY <2>1, <2>5, DataStep
  <2>6. CASE RxCheck(b)
    BY <2>1, <2>6, CheckStep
  <2> QED
    BY <1>1, <2>2, <2>3, <2>4, <2>5, <2>6 DEF PktParser
<1>2. CASE PktReady \/ PktRxFree \/ PktReset
  BY <1>2, ClientStep
<1>3. CASE UNCHANGED vars
  BY <1>3 DEF vars, parserVars, bufferVars, history, IInv, TypeOK, OneOwner,
              Counters, PreambleBound, Stored, Framed, PktGetLen
<1> QED
  BY <1>1, <1>2, <1>3 DEF Next

-----------------------------------------------------------------------------
\* The inductive invariant holds in every behaviour.
THEOREM Invariance == Spec => []IInv
<1>1. Init => IInv
  BY InitIInv
<1>2. IInv /\ [Next]_vars => IInv'
  BY NextIInv
<1> QED
  BY <1>1, <1>2, PTL DEF Spec

\* Type correctness.
THEOREM TypeCorrect == Spec => []TypeOK
<1>1. IInv => TypeOK
  BY DEF IInv
<1> QED
  BY <1>1, Invariance, PTL

\* The buffer has one owner at a time and is never leaked.
THEOREM Ownership == Spec => []OneOwner
<1>1. IInv => OneOwner
  BY DEF IInv
<1> QED
  BY <1>1, Invariance, PTL

\* The parser never writes outside the buffer, whatever the header says.
THEOREM WritesInBounds == Spec => []NoOverrun
<1>1. IInv => NoOverrun
  <2> SUFFICES ASSUME IInv PROVE NoOverrun
    OBVIOUS
  <2> USE PktAssumption DEF IInv
  <2>1. idx \in Nat /\ len \in 0 .. 255 /\ PktGetLen(rxbuf) \in 0 .. 255
    BY LenIsByte DEF TypeOK, Uint8
  <2> QED
    BY <2>1 DEF NoOverrun, Counters
<1> QED
  BY <1>1, Invariance, PTL

\* PKT_PAYLOAD_LEN + 1 preambles (13) always end the packet in progress, and
\* one more leaves the parser waiting for a sync byte.
THEOREM PreamblesResync == Spec => []Resync
<1>1. IInv => Resync
  <2> SUFFICES ASSUME IInv PROVE Resync
    OBVIOUS
  <2> USE PktAssumption DEF IInv
  <2>1. /\ preambles \in Nat /\ idx \in Nat /\ len \in 0 .. 255
        /\ PktGetLen(rxbuf) \in 0 .. 255 /\ state \in States
    BY LenIsByte DEF TypeOK, Uint8, PreambleCap
  <2>2. state = "HEADER" => preambles < PKT_PAYLOAD_LEN + 1
    BY <2>1 DEF PreambleBound, Counters
  <2>3. state = "DATA" => preambles < PKT_PAYLOAD_LEN + 1
    BY <2>1 DEF PreambleBound, Counters
  <2>4. state = "CHECK" => preambles < PKT_PAYLOAD_LEN + 1
    BY <2>1 DEF PreambleBound
  <2>5. state = "SEARCH" => preambles < PKT_PAYLOAD_LEN + 2
    BY <2>1 DEF PreambleBound
  <2> QED
    BY <2>1, <2>2, <2>3, <2>4, <2>5 DEF Resync, States
<1> QED
  BY <1>1, Invariance, PTL

\* What the main loop gets is what the line carried after the sync.
THEOREM PacketsFramed == Spec => []Framed
<1>1. IInv => Framed
  BY DEF IInv
<1> QED
  BY <1>1, Invariance, PTL

\* pkt_is_active() is true just when somebody has the buffer, which is what
\* module Cmd takes it to mean.
THEOREM ActiveIffOwned == Spec => [](PktIsActive <=> Owner # "free")
<1>1. IInv => (PktIsActive <=> Owner # "free")
  BY DEF IInv, TypeOK, States, OneOwner, Receiving, PktIsActive, Owner
<1> QED
  BY <1>1, Invariance, PTL

-----------------------------------------------------------------------------
(* pkt.c implements the buffer of module RxBuf.                            *)

\* The initial buffer is free.
LEMMA RefineInit == Init => Buf!BufInit
  BY InitIInv DEF Init, IInv, TypeOK, Buf!BufInit, Owner

\* Every step of the parser and of the main loop hands the buffer on as RxBuf
\* allows, or leaves it where it is.
LEMMA RefineStep == IInv /\ [Next]_vars => [Buf!BufNext]_(Buf!bufVars)
<1> SUFFICES ASSUME IInv, [Next]_vars
             PROVE  [Buf!BufNext]_(Buf!bufVars)
  OBVIOUS
<1> USE DEF Owner, Buf!bufVars
<1>1. IInv' /\ rxbuf' \in Buffers
  BY NextIInv DEF IInv, TypeOK
<1>2. /\ rxbuf_inuse \in BOOLEAN /\ ready_packet \in BOOLEAN /\ held \in BOOLEAN
      /\ state \in Receiving => rxbuf_inuse /\ ~ready_packet /\ ~held
      /\ rxbuf_inuse => state \in Receiving \/ ready_packet \/ held
      /\ ready_packet => rxbuf_inuse /\ ~held
      /\ held => rxbuf_inuse
  BY DEF IInv, TypeOK, OneOwner
<1>3. ASSUME NEW b \in Bytes, PktParser(b)
      PROVE  [Buf!BufNext]_(Buf!bufVars)
  <2>1. UNCHANGED held
    BY <1>3 DEF PktParser
  <2>2. CASE RxSearch(b)
    BY <2>1, <2>2 DEF RxSearch, bufferVars
  <2>3. CASE RxSync(b)
    <3>1. CASE b = PKT_SYNC /\ ~rxbuf_inuse
      <4>1. Buf!Claim
        BY <1>2, <2>1, <2>3, <3>1 DEF RxSync, Buf!Claim
      <4> QED
        BY <4>1 DEF Buf!BufNext
    <3>2. CASE ~(b = PKT_SYNC /\ ~rxbuf_inuse)
      BY <2>1, <2>3, <3>2 DEF RxSync
    <3> QED
      BY <3>1, <3>2
  <2>4. CASE RxHeader(b)
    <3>1. /\ ~ready_packet /\ ~held /\ rxbuf_inuse /\ ~held' /\ ~ready_packet'
      BY <1>2, <2>1, <2>4 DEF RxHeader, Receiving
    <3>2. Buf!Fill
      BY <1>1, <3>1 DEF Buf!Fill
    <3> QED
      BY <3>2 DEF Buf!BufNext
  <2>5. CASE RxData(b)
    <3>1. /\ ~ready_packet /\ ~held /\ rxbuf_inuse /\ ~held' /\ ~ready_packet'
      BY <1>2, <2>1, <2>5 DEF RxData, Receiving
    <3>2. Buf!Fill
      BY <1>1, <3>1 DEF Buf!Fill
    <3> QED
      BY <3>2 DEF Buf!BufNext
  <2>6. CASE RxCheck(b)
    <3>1. Owner = "parser" /\ ~held' /\ UNCHANGED rxbuf
      BY <1>2, <2>1, <2>6 DEF RxCheck, Receiving
    <3>2. Owner' \in {"mailbox", "free"}
      <4>1. CASE b = crc
        BY <2>6, <3>1, <4>1 DEF RxCheck
      <4>2. CASE b # crc
        <5>1. ~ready_packet' /\ ~rxbuf_inuse'
          BY <1>2, <2>6, <4>2 DEF RxCheck, Receiving
        <5> QED
          BY <3>1, <5>1
      <4> QED
        BY <4>1, <4>2
    <3> QED
      BY <3>1, <3>2 DEF Buf!BufNext, Buf!Complete
  <2> QED
    BY <1>3, <2>2, <2>3, <2>4, <2>5, <2>6 DEF PktParser
<1>4. CASE PktReady
  <2>1. CASE ready_packet
    <3>1. ~held /\ held' /\ UNCHANGED rxbuf
      BY <1>4, <2>1 DEF PktReady
    <3> QED
      BY <2>1, <3>1 DEF Buf!BufNext, Buf!Take
  <2>2. CASE ~ready_packet
    BY <1>2, <1>4, <2>2 DEF PktReady
  <2> QED
    BY <2>1, <2>2
<1>5. CASE PktRxFree
  <2>1. held /\ ~held' /\ ~ready_packet' /\ ~rxbuf_inuse' /\ UNCHANGED rxbuf
    BY <1>2, <1>5 DEF PktRxFree
  <2> QED
    BY <2>1 DEF Buf!BufNext, Buf!Release
<1>6. CASE PktReset
  <2>1. Buf!Discard
    BY <1>2, <1>6 DEF PktReset, Buf!Discard
  <2> QED
    BY <2>1 DEF Buf!BufNext
<1>7. CASE UNCHANGED vars
  BY <1>7 DEF vars, bufferVars
<1> QED
  BY <1>3, <1>4, <1>5, <1>6, <1>7 DEF Next

\* The byte-level parser, interleaved with the main loop, implements the
\* single-owner buffer.
THEOREM Refinement == Spec => ImplementsRxBuf
<1>1. Init => Buf!BufInit
  BY RefineInit
<1>2. IInv /\ [Next]_vars => [Buf!BufNext]_(Buf!bufVars)
  BY RefineStep
<1> QED
  BY <1>1, <1>2, Invariance, PTL DEF Spec, ImplementsRxBuf, Buf!BufSpec

-----------------------------------------------------------------------------
(***************************************************************************)
(* Exactly the good frames are delivered.  The parser's crc is the CRC of  *)
(* the bytes heard since the sync (Checked), as long as it receives; this  *)
(* needs that one more byte takes CrcOf one CrcUpdate further, which is an *)
(* induction over the number of bytes.                                     *)
(***************************************************************************)

\* f[i] is the CRC of the first i bytes of h, up to n
IsCrcs(f, h, n) ==
    f = [i \in 0 .. n |-> IF i = 0 THEN 0 ELSE CrcUpdate(f[i - 1], h[i])]

LEMMA LeastNumber ==
    ASSUME NEW T \in SUBSET Nat, T # {}
    PROVE  \E k \in T : \A n \in T : k <= n
<1> DEFINE Below == { 0 .. k - 1 : k \in T }
<1>1. Below \subseteq FiniteSubsetsOf(Nat)
  <2> SUFFICES ASSUME NEW k \in T PROVE 0 .. k - 1 \in FiniteSubsetsOf(Nat)
    OBVIOUS
  <2>1. IsFiniteSet(0 .. k - 1)
    BY FS_Interval
  <2>2. 0 .. k - 1 \subseteq Nat
    OBVIOUS
  <2> QED
    BY <2>1, <2>2 DEF FiniteSubsetsOf
<1>2. Below # {}
  OBVIOUS
<1>3. IsWellFoundedOn(StrictSubsetOrdering(Nat), FiniteSubsetsOf(Nat))
  BY FS_StrictSubsetOrderingWellFounded
<1> HIDE DEF Below
<1>4. PICK x \in Below : \A y \in Below : ~ (<<y, x>> \in StrictSubsetOrdering(Nat))
  BY <1>1, <1>2, <1>3, WFMin
<1>5. PICK k \in T : x = 0 .. k - 1
  BY DEF Below
<1>6. ASSUME NEW n \in T, n < k PROVE FALSE
  <2>1. 0 .. n - 1 \in Below
    BY DEF Below
  <2>2. 0 .. n - 1 \subseteq x /\ 0 .. n - 1 # x /\ x \subseteq Nat
    BY <1>5, <1>6
  <2> QED
    BY <2>1, <2>2, <1>4 DEF StrictSubsetOrdering
<1> QED
  BY <1>6

LEMMA Induction ==
    ASSUME NEW S, 0 \in S, \A n \in Nat : n \in S => n + 1 \in S
    PROVE  Nat \subseteq S
<1> SUFFICES ASSUME ~(Nat \subseteq S) PROVE FALSE
  OBVIOUS
<1> DEFINE T == Nat \ S
<1>1. T # {} /\ T \in SUBSET Nat
  OBVIOUS
<1>2. PICK k \in T : \A n \in T : k <= n
  BY <1>1, LeastNumber
<1>3. k - 1 \in S /\ k - 1 \in Nat
  BY <1>2
<1> QED
  BY <1>3
\* h and k start with the same n bytes
SameStart(h, k, n) == \A i \in 1 .. n : h[i] = k[i]

\* The recursion in CrcOf defines a function.
LEMMA CrcsExist ==
    ASSUME NEW h, NEW n \in Nat
    PROVE  \E f : IsCrcs(f, h, n)
<1> DEFINE S == { m \in Nat : \E f : IsCrcs(f, h, m) }
<1>1. 0 \in S
  <2>1. IsCrcs([i \in 0 .. 0 |-> 0], h, 0)
    BY DEF IsCrcs
  <2> QED
    BY <2>1
<1>2. ASSUME NEW m \in Nat, m \in S
      PROVE  m + 1 \in S
  <2>1. PICK f : IsCrcs(f, h, m)
    BY <1>2
  <2> DEFINE g == [i \in 0 .. m + 1 |-> IF i = m + 1 THEN CrcUpdate(f[m], h[m + 1]) ELSE f[i]]
  <2>2. \A i \in 0 .. m : f[i] = IF i = 0 THEN 0 ELSE CrcUpdate(f[i - 1], h[i])
    BY <2>1 DEF IsCrcs
  <2>3. ASSUME NEW i \in 0 .. m + 1
        PROVE  g[i] = IF i = 0 THEN 0 ELSE CrcUpdate(g[i - 1], h[i])
    <3>1. CASE i = m + 1
      <4>1. i # 0 /\ i - 1 = m /\ m \in 0 .. m + 1 /\ m # m + 1
        BY <3>1
      <4> QED
        BY <3>1, <4>1
    <3>2. CASE i # m + 1
      <4>1. i \in 0 .. m /\ (i # 0 => i - 1 \in 0 .. m + 1 /\ i - 1 # m + 1)
        BY <3>2
      <4> QED
        BY <3>2, <4>1, <2>2
    <3> QED
      BY <3>1, <3>2
  <2>4. IsCrcs(g, h, m + 1)
    <3> DEFINE r == [i \in 0 .. m + 1 |-> IF i = 0 THEN 0 ELSE CrcUpdate(g[i - 1], h[i])]
    <3>1. \A i \in 0 .. m + 1 : g[i] = r[i]
      BY <2>3
    <3>2. g = r
      BY <3>1
    <3> QED
      BY <3>2 DEF IsCrcs
  <2> QED
    BY <2>4
<1>3. Nat \subseteq S
  <2> HIDE DEF S
  <2> QED
    BY <1>1, <1>2, Induction
<1> QED
  BY <1>3

\* CrcOf is the last value of such a function.
LEMMA CrcOfIsCrc ==
    ASSUME NEW h, NEW n \in Nat
    PROVE  \E f : IsCrcs(f, h, n) /\ CrcOf(h, n) = f[n]
<1> DEFINE f == CHOOSE c : c = [i \in 0 .. n |-> IF i = 0 THEN 0 ELSE CrcUpdate(c[i - 1], h[i])]
<1>1. IsCrcs(f, h, n)
  BY CrcsExist DEF IsCrcs
<1>2. CrcOf(h, n) = f[n]
  BY DEF CrcOf
<1> QED
  BY <1>1, <1>2

\* The CRC of the first bytes depends on these alone.
LEMMA CrcsAgree ==
    ASSUME NEW h, NEW k, NEW n \in Nat, NEW m \in Nat, n <= m,
           SameStart(h, k, n),
           NEW f, IsCrcs(f, h, n), NEW g, IsCrcs(g, k, m)
    PROVE  f[n] = g[n]
<1> DEFINE S == { i \in Nat : i <= n => f[i] = g[i] }
<1>1. /\ \A i \in 0 .. n : f[i] = IF i = 0 THEN 0 ELSE CrcUpdate(f[i - 1], h[i])
      /\ \A i \in 0 .. m : g[i] = IF i = 0 THEN 0 ELSE CrcUpdate(g[i - 1], k[i])
  BY DEF IsCrcs
<1>2. 0 \in S
  BY <1>1
<1>3. ASSUME NEW i \in Nat, i \in S
      PROVE  i + 1 \in S
  <2> SUFFICES ASSUME i + 1 <= n PROVE f[i + 1] = g[i + 1]
    OBVIOUS
  <2>1. i + 1 \in 1 .. n /\ i + 1 \in 0 .. m /\ (i + 1) - 1 = i /\ f[i] = g[i]
    BY <1>3
  <2> QED
    BY <1>1, <2>1 DEF SameStart
<1>4. Nat \subseteq S
  <2> HIDE DEF S
  <2> QED
    BY <1>2, <1>3, Induction
<1> QED
  BY <1>4

\* No bytes have the CRC that the parser starts with (pkt.c:254).
LEMMA CrcOfNothing == \A h : CrcOf(h, 0) = 0
<1> SUFFICES ASSUME NEW h PROVE CrcOf(h, 0) = 0
  OBVIOUS
<1>1. PICK f : IsCrcs(f, h, 0) /\ CrcOf(h, 0) = f[0]
  BY CrcOfIsCrc
<1> QED
  BY <1>1 DEF IsCrcs

\* One more byte updates the CRC once (pkt.c:276, 306).
LEMMA CrcOfNext ==
    ASSUME NEW h, NEW k, NEW n \in Nat, SameStart(h, k, n)
    PROVE  /\ CrcOf(k, n) = CrcOf(h, n)
           /\ CrcOf(k, n + 1) = CrcUpdate(CrcOf(h, n), k[n + 1])
<1>1. PICK f : IsCrcs(f, h, n) /\ CrcOf(h, n) = f[n]
  BY CrcOfIsCrc
<1>2. PICK e : IsCrcs(e, k, n) /\ CrcOf(k, n) = e[n]
  BY CrcOfIsCrc
<1>3. PICK g : IsCrcs(g, k, n + 1) /\ CrcOf(k, n + 1) = g[n + 1]
  BY CrcOfIsCrc
<1>4. f[n] = e[n]
  <2>1. n <= n
    OBVIOUS
  <2> QED
    BY <1>1, <1>2, <2>1, CrcsAgree
<1>5. f[n] = g[n]
  <2>1. n <= n + 1 /\ n + 1 \in Nat
    OBVIOUS
  <2> QED
    BY <1>1, <1>3, <2>1, CrcsAgree
<1>6. g[n + 1] = CrcUpdate(g[n], k[n + 1])
  <2>1. n + 1 \in 0 .. n + 1 /\ n + 1 # 0 /\ (n + 1) - 1 = n
    OBVIOUS
  <2> QED
    BY <1>3, <2>1 DEF IsCrcs
<1> QED
  BY <1>1, <1>2, <1>3, <1>4, <1>5, <1>6

Checked ==
    /\ state \in Receiving => crc = CrcOf(heard, Len(heard))
    /\ ready_packet \/ held => GoodFrame(heard)

\* The last byte of a frame: the parser delivers it just when it is good.
LEMMA LastByte ==
    ASSUME IInv, Checked, NEW b \in Bytes, RxCheck(b)
    PROVE  GoodFrame(heard') <=> b = crc
<1> USE PktAssumption
<1>1. /\ heard \in Seq(Bytes) /\ Len(heard) = idx /\ idx \in Nat
      /\ \A i \in 1 .. idx : rxbuf[i - 1] = heard[i]
      /\ idx = PKT_HEADER_LEN + PktGetLen(rxbuf)
      /\ PktGetLen(rxbuf) <= PKT_PAYLOAD_LEN
      /\ PktGetLen(rxbuf) \in 0 .. 255
      /\ crc = CrcOf(heard, idx)
  <2>1. state = "CHECK"
    BY DEF RxCheck
  <2>2. heard \in Seq(Bytes) /\ idx \in Nat /\ PktGetLen(rxbuf) \in 0 .. 255
    BY LenIsByte DEF IInv, TypeOK
  <2>3. Len(heard) = idx /\ \A i \in 1 .. idx : rxbuf[i - 1] = heard[i]
    BY <2>1 DEF IInv, Stored, Receiving
  <2>4. idx = PKT_HEADER_LEN + PktGetLen(rxbuf) /\ PktGetLen(rxbuf) <= PKT_PAYLOAD_LEN
    BY <2>1 DEF IInv, Counters
  <2>5. crc = CrcOf(heard, idx)
    BY <2>1, <2>3 DEF Checked, Receiving
  <2> QED
    BY <2>2, <2>3, <2>4, <2>5
<1>1a. idx >= PKT_HEADER_LEN /\ PKT_HEADER_LEN \in Nat \ {0}
  <2>1. \A n \in 0 .. 255, h \in Nat : h + n >= h
    OBVIOUS
  <2>2. PKT_HEADER_LEN \in Nat \ {0} /\ PktGetLen(rxbuf) \in 0 .. 255
        /\ idx = PKT_HEADER_LEN + PktGetLen(rxbuf)
    BY <1>1
  <2> QED
    BY <2>1, <2>2
<1>2. /\ Len(heard') = idx + 1 /\ heard'[idx + 1] = b
      /\ \A i \in 1 .. idx : heard'[i] = heard[i]
  BY <1>1 DEF RxCheck
<1>3. heard'[PKT_HEADER_LEN] = PktGetLen(rxbuf)
  <2>1. PKT_HEADER_LEN \in 1 .. idx
    BY <1>1, <1>1a
  <2>2. heard'[PKT_HEADER_LEN] = heard[PKT_HEADER_LEN]
    BY <1>2, <2>1
  <2>3. rxbuf[PKT_HEADER_LEN - 1] = heard[PKT_HEADER_LEN]
    BY <1>1, <2>1
  <2> QED
    BY <2>2, <2>3 DEF PktGetLen
<1>4. CrcOf(heard', idx) = crc
  <2>1. SameStart(heard, heard', idx)
    BY <1>2 DEF SameStart
  <2> QED
    BY <1>1, <2>1, CrcOfNext
<1> QED
  <2>1. Len(heard') - 1 = idx
    BY <1>1, <1>2
  <2>2. Len(heard') > PKT_HEADER_LEN
    BY <1>1, <1>1a, <1>2
  <2>3. Len(heard') = PKT_HEADER_LEN + heard'[PKT_HEADER_LEN] + 1
    BY <1>1, <1>2, <1>3
  <2>4. heard'[PKT_HEADER_LEN] <= PKT_PAYLOAD_LEN
    BY <1>1, <1>3
  <2>5. heard'[Len(heard')] = b /\ CrcOf(heard', Len(heard') - 1) = crc
    BY <1>2, <1>4, <2>1
  <2> QED
    BY <2>2, <2>3, <2>4, <2>5 DEF GoodFrame

\* While header and payload are stored the CRC follows, and what is heard is no
\* frame yet.
LEMMA StoredByte ==
    ASSUME IInv, Checked, NEW b \in Bytes, RxHeader(b) \/ RxData(b)
    PROVE  /\ crc' = CrcOf(heard', Len(heard'))
           /\ ~GoodFrame(heard') /\ ~ready_packet' /\ ~held
<1> USE PktAssumption
<1>1. state \in {"HEADER", "DATA"} /\ Store(b) /\ ready_packet' = ready_packet
  BY DEF RxHeader, RxData
<1>2. /\ heard \in Seq(Bytes) /\ Len(heard) = idx /\ idx \in Nat
      /\ crc = CrcOf(heard, idx) /\ ~ready_packet /\ ~held
  BY <1>1 DEF IInv, TypeOK, Stored, Receiving, Checked, OneOwner
<1>3. /\ heard' = Append(heard, b) /\ idx' = idx + 1 /\ crc' = CrcUpdate(crc, b)
      /\ Len(heard') = idx + 1 /\ heard'[idx + 1] = b
      /\ \A i \in 1 .. idx : heard'[i] = heard[i]
  BY <1>1, <1>2 DEF Store
<1>4. CrcOf(heard', idx + 1) = CrcUpdate(CrcOf(heard, idx), b)
  <2>1. SameStart(heard, heard', idx)
    BY <1>3 DEF SameStart
  <2>2. CrcOf(heard', idx + 1) = CrcUpdate(CrcOf(heard, idx), heard'[idx + 1])
    BY <1>2, <2>1, CrcOfNext
  <2> QED
    BY <1>3, <2>2
<1>5. ~GoodFrame(heard')
  <2>1. CASE state = "HEADER"
    <3>1. idx + 1 <= PKT_HEADER_LEN
      BY <1>2, <2>1 DEF IInv, Counters
    <3> QED
      BY <1>3, <3>1 DEF GoodFrame
  <2>2. CASE state = "DATA"
    <3>1. /\ PKT_HEADER_LEN \in 1 .. idx
          /\ idx + len = PKT_HEADER_LEN + PktGetLen(rxbuf) /\ len >= 1
          /\ PktGetLen(rxbuf) \in 0 .. 255 /\ len \in 0 .. 255
      BY <1>2, <2>2, LenIsByte DEF IInv, Counters, TypeOK, Uint8
    <3>2. heard'[PKT_HEADER_LEN] = PktGetLen(rxbuf)
      BY <1>1, <1>2, <1>3, <3>1 DEF IInv, Stored, Receiving, PktGetLen
    <3> QED
      BY <1>2, <1>3, <3>1, <3>2 DEF GoodFrame
  <2> QED
    BY <1>1, <2>1, <2>2
<1> QED
  BY <1>1, <1>2, <1>3, <1>4, <1>5

\* Every step keeps the CRC in line with the bytes and delivers good frames only.
LEMMA NextChecked == IInv /\ Checked /\ [Next]_vars => Checked'
<1> SUFFICES ASSUME IInv, Checked, [Next]_vars
             PROVE  Checked'
  OBVIOUS
<1>1. ASSUME NEW b \in Bytes, PktParser(b)
      PROVE  Checked'
  <2>1. UNCHANGED held
    BY <1>1 DEF PktParser
  <2>2. CASE RxSearch(b)
    BY <2>1, <2>2 DEF RxSearch, bufferVars, Checked, Receiving
  <2>3. CASE RxSync(b) /\ b = PKT_SYNC /\ ~rxbuf_inuse
    <3>1. /\ crc' = 0 /\ heard' = <<>> /\ UNCHANGED ready_packet /\ ~ready_packet /\ ~held
      BY <2>3 DEF RxSync, IInv, OneOwner
    <3>2. Len(<<>>) = 0
      OBVIOUS
    <3> QED
      BY <2>1, <3>1, <3>2, CrcOfNothing DEF Checked
  <2>4. CASE RxSync(b) /\ ~(b = PKT_SYNC /\ ~rxbuf_inuse)
    <3>1. state' \in {"SYNC", "SEARCH"} /\ UNCHANGED <<ready_packet, heard>>
      BY <2>4 DEF RxSync
    <3> QED
      BY <2>1, <3>1 DEF Checked, Receiving
  <2>5. CASE RxHeader(b) \/ RxData(b)
    BY <2>1, <2>5, StoredByte DEF Checked
  <2>6. CASE RxCheck(b)
    <3>1. state' = "SEARCH" /\ ~ready_packet /\ ~held
      BY <2>6 DEF RxCheck, IInv, OneOwner, Receiving
    <3>2. ready_packet' => b = crc
      BY <2>6, <3>1 DEF RxCheck
    <3> QED
      BY <2>1, <2>6, <3>1, <3>2, LastByte DEF Checked, Receiving
  <2> QED
    BY <1>1, <2>2, <2>3, <2>4, <2>5, <2>6 DEF PktParser
<1>2. CASE PktReady \/ PktRxFree \/ PktReset
  BY <1>2 DEF PktReady, PktRxFree, PktReset, parserVars, history, Checked, Receiving
<1>3. CASE UNCHANGED vars
  BY <1>3 DEF vars, parserVars, bufferVars, history, Checked
<1> QED
  BY <1>1, <1>2, <1>3 DEF Next

LEMMA InvarianceChecked == Spec => [](IInv /\ Checked)
<1>1. Init => Checked
  BY DEF Init, Checked, Receiving
<1>2. IInv /\ Checked /\ [Next]_vars => Checked'
  BY NextChecked
<1> QED
  BY <1>1, <1>2, InitIInv, NextIInv, PTL DEF Spec

\* What reaches the main loop is a good frame, as the line carried it.
THEOREM NothingElseDelivered == Spec => []OnlyGoodFrames
<1>1. IInv /\ Checked => OnlyGoodFrames
  BY DEF IInv, Checked, Framed, OnlyGoodFrames
<1> QED
  BY <1>1, InvarianceChecked, PTL

\* Every good frame after an accepted sync reaches the mailbox.
THEOREM GoodOnesDelivered == Spec => GoodFrameDelivered
<1>1. ASSUME IInv, Checked, [Next]_vars, heard' # heard, GoodFrame(heard')
      PROVE  ready_packet'
  <2>1. PICK b \in Bytes : RxSync(b) \/ RxHeader(b) \/ RxData(b) \/ RxCheck(b)
    BY <1>1 DEF Next, PktParser, RxSearch, PktReady, PktRxFree, PktReset, vars, history
  <2>2. CASE RxSync(b)
    <3>1. heard' = <<>>
      BY <1>1, <2>2 DEF RxSync
    <3> QED
      BY <1>1, <3>1, PktAssumption DEF GoodFrame
  <2>3. CASE RxHeader(b) \/ RxData(b)
    BY <1>1, <2>3, StoredByte
  <2>4. CASE RxCheck(b)
    BY <1>1, <2>4, LastByte DEF RxCheck
  <2> QED
    BY <2>1, <2>2, <2>3, <2>4
<1>2. IInv /\ Checked /\ [Next]_vars =>
        [heard' # heard /\ GoodFrame(heard') => ready_packet']_vars
  BY <1>1
<1> QED
  BY <1>2, InvarianceChecked, PTL DEF Spec, GoodFrameDelivered
=============================================================================
