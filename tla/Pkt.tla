-------------------------------- MODULE Pkt --------------------------------
(***************************************************************************)
(* The packet processor, pkt.c: the byte-at-a-time parser that runs in the *)
(* receive interrupt, and the operations by which the main loop takes a    *)
(* packet, gives the buffer back, or resets the parser.                    *)
(*                                                                         *)
(* Every operation is one action: the parser runs inside the interrupt,    *)
(* and each main loop operation is an ATOMIC_BLOCK, so a step of one is    *)
(* never split by a step of the other.  What interleaves is the sequence   *)
(* of steps.                                                               *)
(*                                                                         *)
(* `held' is the pointer the main loop got from pkt_ready() and has not    *)
(* freed yet.  The environment of this module is the main loop's contract: *)
(* it frees only what it holds, and takes or resets only when it holds     *)
(* nothing; module Cmd shows that cmd_process() and main_loop() keep it.   *)
(*                                                                         *)
(* Two history variables serve the properties only: `heard', the bytes the *)
(* line carried since the sync byte that the parser accepted, and          *)
(* `preambles', the number of preamble bytes that ended the line's traffic *)
(* so far, capped at PreambleCap and restarted by pkt_reset().             *)
(***************************************************************************)
EXTENDS Integers, Sequences

CONSTANTS
    Bytes,              \* the byte values that the line carries
    PKT_PREAMBLE,       \* 0x55
    PKT_SYNC,           \* 0xF0
    PKT_HEADER_LEN,     \* 4
    PKT_PAYLOAD_LEN,    \* 12
    RXBUF_SIZE,         \* 16
    CrcUpdate(_, _)     \* _crc8_ccitt_update()

Uint8 == 0 .. 255

\* The parser relies on all of these: the buffer holds the longest packet less
\* its CRC, a preamble byte is not an acceptable length, and a run of preambles
\* long enough to end the longest payload also ends any header.
ASSUME PktAssumption ==
    /\ Bytes \subseteq Uint8
    /\ {PKT_PREAMBLE, PKT_SYNC} \subseteq Bytes
    /\ PKT_PREAMBLE # PKT_SYNC
    /\ PKT_HEADER_LEN \in Nat \ {0}
    /\ PKT_PAYLOAD_LEN \in Nat
    /\ RXBUF_SIZE \in Nat
    /\ PKT_HEADER_LEN + PKT_PAYLOAD_LEN <= RXBUF_SIZE
    /\ PKT_PAYLOAD_LEN < PKT_PREAMBLE
    /\ PKT_HEADER_LEN <= PKT_PAYLOAD_LEN + 1

ASSUME CrcAssumption == \A c, b \in Uint8 : CrcUpdate(c, b) \in Uint8

VARIABLES
    state,          \* parser state
    rxbuf_inuse,    \* the buffer is allocated
    ready_packet,   \* TRUE: points to rxbuf, FALSE: NULL
    rxbuf,          \* the buffer
    idx,            \* parser: where the next byte goes
    crc,            \* parser: CRC so far
    len,            \* parser: payload bytes still to come
    held,           \* the main loop's packet pointer is not NULL
    heard,          \* history: bytes since the accepted sync
    preambles       \* history: length of the current run of preambles

parserVars == <<state, idx, crc, len>>
bufferVars == <<rxbuf_inuse, ready_packet, rxbuf>>
history    == <<heard, preambles>>
vars       == <<parserVars, bufferVars, held, history>>

States    == {"SEARCH", "SYNC", "HEADER", "DATA", "CHECK"}
Receiving == {"HEADER", "DATA", "CHECK"}   \* the states in which pbuf is used
Buffers   == [0 .. RXBUF_SIZE - 1 -> Uint8]

\* PKT_GET_LEN(): the length is the last byte of the header
PktGetLen(buf) == buf[PKT_HEADER_LEN - 1]

PreambleCap == PKT_PAYLOAD_LEN + 2

\* Every variable holds what its C type and the parser's states allow; in
\* particular the index never leaves the buffer by more than one (pkt.c:51-80).
TypeOK ==
    /\ state \in States
    /\ rxbuf_inuse \in BOOLEAN
    /\ ready_packet \in BOOLEAN
    /\ rxbuf \in Buffers
    /\ idx \in 0 .. RXBUF_SIZE
    /\ crc \in Uint8
    /\ len \in Uint8
    /\ held \in BOOLEAN
    /\ heard \in Seq(Bytes)
    /\ preambles \in 0 .. PreambleCap

Init ==
    /\ state = "SEARCH"
    /\ rxbuf_inuse = FALSE
    /\ ready_packet = FALSE
    /\ rxbuf = [i \in 0 .. RXBUF_SIZE - 1 |-> 0]
    /\ idx = 0
    /\ crc = 0
    /\ len = 0
    /\ held = FALSE
    /\ heard = <<>>
    /\ preambles = 0

-----------------------------------------------------------------------------
(* pkt_parser(nextbyte), one disjunct per parser state.                    *)

\* searching for preamble
RxSearch(b) ==
    /\ state = "SEARCH"
    /\ state' = IF b = PKT_PREAMBLE THEN "SYNC" ELSE "SEARCH"
    /\ UNCHANGED <<bufferVars, idx, crc, len, heard>>

\* as RxSync, but leaves the old CRC in place (a mutant)
RxSyncKeepsCrc(b) ==
    /\ state = "SYNC"
    /\ IF b = PKT_SYNC /\ ~rxbuf_inuse
       THEN /\ rxbuf_inuse' = TRUE
            /\ state' = "HEADER"
            /\ idx' = 0
            /\ heard' = <<>>
            /\ UNCHANGED crc
       ELSE /\ state' = IF b = PKT_PREAMBLE THEN "SYNC" ELSE "SEARCH"
            /\ UNCHANGED <<rxbuf_inuse, idx, crc, heard>>
    /\ UNCHANGED <<ready_packet, rxbuf, len>>

\* receiving preambles, waiting for sync; pkt_rx_alloc() may find no buffer
RxSync(b) ==
    /\ state = "SYNC"
    /\ IF b = PKT_SYNC /\ ~rxbuf_inuse
       THEN /\ rxbuf_inuse' = TRUE
            /\ state' = "HEADER"
            /\ idx' = 0
            /\ crc' = 0
            /\ heard' = <<>>
       ELSE /\ state' = IF b = PKT_PREAMBLE THEN "SYNC" ELSE "SEARCH"
            /\ UNCHANGED <<rxbuf_inuse, idx, crc, heard>>
    /\ UNCHANGED <<ready_packet, rxbuf, len>>

\* store a header or payload byte: pbuf[idx] = nextbyte
Store(b) ==
    /\ rxbuf' = [rxbuf EXCEPT ![idx] = b]
    /\ idx' = idx + 1
    /\ crc' = CrcUpdate(crc, b)
    /\ heard' = Append(heard, b)

\* as RxHeader, but accepts any length (a mutant)
RxHeaderAnyLength(b) ==
    /\ state = "HEADER"
    /\ Store(b)
    /\ UNCHANGED <<ready_packet, rxbuf_inuse>>
    /\ IF idx' = PKT_HEADER_LEN
       THEN /\ len' = PktGetLen(rxbuf')
            /\ state' = IF len' = 0 THEN "CHECK" ELSE "DATA"
       ELSE UNCHANGED <<len, state>>

\* as RxHeader, but keeps the buffer when the length is too big (a mutant)
RxHeaderLeaks(b) ==
    /\ state = "HEADER"
    /\ Store(b)
    /\ UNCHANGED <<ready_packet, rxbuf_inuse>>
    /\ IF idx' = PKT_HEADER_LEN
       THEN /\ len' = PktGetLen(rxbuf')
            /\ state' = CASE len' = 0               -> "CHECK"
                          [] len' > PKT_PAYLOAD_LEN -> "SEARCH"
                          [] OTHER                  -> "DATA"
       ELSE UNCHANGED <<len, state>>

\* read the header; its last byte says what follows
RxHeader(b) ==
    /\ state = "HEADER"
    /\ Store(b)
    /\ UNCHANGED ready_packet
    /\ IF idx' = PKT_HEADER_LEN
       THEN /\ len' = PktGetLen(rxbuf')
            /\ state' = CASE len' = 0               -> "CHECK"
                          [] len' > PKT_PAYLOAD_LEN -> "SEARCH"
                          [] OTHER                  -> "DATA"
            /\ rxbuf_inuse' = IF len' > PKT_PAYLOAD_LEN
                              THEN FALSE ELSE rxbuf_inuse
       ELSE UNCHANGED <<len, state, rxbuf_inuse>>

\* as RxData, but wants one byte more (a mutant)
RxDataOneMore(b) ==
    /\ state = "DATA"
    /\ Store(b)
    /\ len' = len - 1
    /\ state' = IF len = 0 THEN "CHECK" ELSE "DATA"
    /\ UNCHANGED <<ready_packet, rxbuf_inuse>>

\* store payload bytes until len of them have come
RxData(b) ==
    /\ state = "DATA"
    /\ Store(b)
    /\ len' = len - 1
    /\ state' = IF len' = 0 THEN "CHECK" ELSE "DATA"
    /\ UNCHANGED <<ready_packet, rxbuf_inuse>>

\* the CRC byte: deliver the packet or abandon it
RxCheck(b) ==
    /\ state = "CHECK"
    /\ state' = "SEARCH"
    /\ IF b = crc
       THEN ready_packet' = TRUE /\ UNCHANGED rxbuf_inuse
       ELSE rxbuf_inuse' = FALSE /\ UNCHANGED ready_packet
    /\ heard' = Append(heard, b)
    /\ UNCHANGED <<rxbuf, idx, crc, len>>

\* the history of preambles on the line
CountPreambles(b) ==
    preambles' = IF b # PKT_PREAMBLE THEN 0
                 ELSE IF preambles < PreambleCap THEN preambles + 1
                 ELSE PreambleCap

\* the receive interrupt hands the next byte to the parser
PktParser(b) ==
    /\ RxSearch(b) \/ RxSync(b) \/ RxHeader(b) \/ RxData(b) \/ RxCheck(b)
    /\ CountPreambles(b)
    /\ UNCHANGED held

-----------------------------------------------------------------------------
(* The main loop's operations.                                             *)

\* pkt_ready(): pick up the packet that is ready, if there is one
PktReady ==
    /\ ~held
    /\ held' = ready_packet
    /\ ready_packet' = FALSE
    /\ UNCHANGED <<parserVars, rxbuf_inuse, rxbuf, history>>

\* pkt_rx_free(): the main loop is done with its packet
PktRxFree ==
    /\ held
    /\ held' = FALSE
    /\ rxbuf_inuse' = FALSE
    /\ UNCHANGED <<parserVars, ready_packet, rxbuf, history>>

\* as PktReset, but the parser carries on where it was (a mutant)
PktResetBufferOnly ==
    /\ ~held
    /\ rxbuf_inuse' = FALSE
    /\ ready_packet' = FALSE
    /\ preambles' = 0
    /\ UNCHANGED <<state, idx, crc, len, rxbuf, held, heard>>

\* pkt_reset(): back to the initial state, whatever was going on
PktReset ==
    /\ ~held
    /\ state' = "SEARCH"
    /\ rxbuf_inuse' = FALSE
    /\ ready_packet' = FALSE
    /\ preambles' = 0
    /\ UNCHANGED <<idx, crc, len, rxbuf, held, heard>>

\* pkt_is_active(): is anything received, waiting or being processed?
PktIsActive == rxbuf_inuse \/ ready_packet \/ state \notin {"SEARCH", "SYNC"}

Next ==
    \/ \E b \in Bytes : PktParser(b)
    \/ PktReady
    \/ PktRxFree
    \/ PktReset

Spec == Init /\ [][Next]_vars

-----------------------------------------------------------------------------
(* Properties.                                                             *)

\* The buffer has one owner at a time, although the parser, the mailbox and
\* the main loop all reach it through pointers, and it is never leaked: it is
\* allocated just when the parser is filling it, a packet waits in it or the
\* main loop is processing one, and no two of these hold together
\* (pkt.c:110-162, 244-329).
OneOwner ==
    /\ rxbuf_inuse <=> (state \in Receiving \/ ready_packet \/ held)
    /\ state \in Receiving => ~ready_packet /\ ~held
    /\ ~(ready_packet /\ held)

\* The parser never writes outside rxbuf, whatever bytes arrive and wherever a
\* reset cuts a packet short: `idx' is bounded only by what the header said and
\* by the check of the length (pkt.c:272-313).
NoOverrun == state \in {"HEADER", "DATA"} => idx < RXBUF_SIZE

\* packet.md:78-80 and 213-219: "13 preamble bytes should always cause the
\* parser to return to the searching state", from any state and although the
\* preambles may be taken for header, payload or CRC.  SYNC searches too: it
\* differs from SEARCH in having seen a preamble.  One more preamble and the
\* parser is ready for a sync byte.
Resync ==
    /\ preambles >= PKT_PAYLOAD_LEN + 1 => state \in {"SEARCH", "SYNC"}
    /\ preambles >= PKT_PAYLOAD_LEN + 2 => state = "SYNC"

\* A packet that waits in the mailbox or is being processed is what the line
\* carried after the sync: the whole of it, with as many payload bytes as its
\* own header announces, and nothing that came later (pkt.c:272-329).
Framed ==
    ready_packet \/ held =>
        /\ PktGetLen(rxbuf) <= PKT_PAYLOAD_LEN
        /\ Len(heard) = PKT_HEADER_LEN + PktGetLen(rxbuf) + 1
        /\ \A i \in 1 .. Len(heard) - 1 : rxbuf[i - 1] = heard[i]

\* Who owns the buffer, in the terms of RxBuf.
Owner == IF held THEN "client"
         ELSE IF ready_packet THEN "mailbox"
         ELSE IF rxbuf_inuse THEN "parser" ELSE "free"

Buf == INSTANCE RxBuf WITH owner <- Owner, data <- rxbuf, Contents <- Buffers

\* The parser and the main loop's operations, interleaved in any order, are a
\* buffer that changes hands as RxBuf says and that nobody but the parser
\* writes: in particular a waiting packet, or one being processed, is never
\* overwritten by what arrives meanwhile.
ImplementsRxBuf == Buf!BufSpec
=============================================================================
