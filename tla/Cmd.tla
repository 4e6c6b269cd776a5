-------------------------------- MODULE Cmd --------------------------------
(***************************************************************************)
(* The command processor, cmd_process(), as the main loop calls it, with   *)
(* the receive interrupt, the serial line and the tick interrupt running   *)
(* in between its statements.                                              *)
(*                                                                         *)
(* The receive buffer is that of RxBuf (which Pkt implements) and the line *)
(* that of Duplex (which Ser implements, of which only the mode matters    *)
(* here).  A packet is what the dispatch looks at: its address, its        *)
(* command, and whether the UID in its payload is that of this node.       *)
(*                                                                         *)
(* History variables: `age', ticks since the sync byte of the packet that  *)
(* is being received or waits; `armed', ticks since pkt_timeout was set.   *)
(* Both stop at Cap.                                                       *)
(***************************************************************************)
EXTENDS RxBuf, Tmr

CONSTANTS
    Addrs,          \* node addresses, 0 is "none"
    Commands,       \* command codes
    PKT_TIMEOUT,    \* 5000
    MaxLoop,        \* ticks that one pass of the main loop may take
    Cap             \* where the history variables stop counting

\* The commands that a node answers when they carry its address.  DFU makes it
\* reset, and ADDR is answered whatever the address.
Answered == {"PING", "UID", "ADCRAW", "STATUS", "SHUNTON", "SHUNTOFF",
             "GETPARM", "SETPARM", "TESTMODE", "FACTORY"}

Packets == [addr : Addrs, cmd : Commands, uid : BOOLEAN]

\* A timeout must end before the clock has gone half way round, however late
\* the main loop looks.
ASSUME CmdAssumption ==
    /\ Contents \subseteq Packets
    /\ 0 \in Addrs
    /\ PKT_TIMEOUT \in Nat \ {0}
    /\ MaxLoop \in Nat \ {0}
    /\ PKT_TIMEOUT + 2 * MaxLoop < Half
    /\ Cap \in Nat /\ Cap >= PKT_TIMEOUT + 4 * MaxLoop

VARIABLES
    mode,           \* "listen" or "send"
    nodeid,         \* NODEID, g_cfg_parms.addr
    pkt_waiting,    \* a packet is being timed
    pkt_timeout,    \* until when
    systick,        \* the tick counter
    pc,             \* where the main loop is
    skipped,        \* the last pass of the main loop handled a timer instead
    lag,            \* ticks since this pass of the main loop began
    age,            \* history: ticks since the packet's sync byte
    armed           \* history: ticks since pkt_timeout was set

timing  == <<pkt_waiting, pkt_timeout>>
history == <<age, armed>>
loop    == <<pc, skipped, lag>>
vars    == <<bufVars, mode, nodeid, timing, systick, loop, history>>

Steps == {"top", "dispatch", "app", "wait", "reset", "arm"}

\* Every variable holds what its C type allows, the times stay on the clock's
\* circle, and no pass of the main loop is longer than MaxLoop.
TypeOK ==
    /\ BufTypeOK
    /\ mode \in {"listen", "send"}
    /\ nodeid \in Addrs
    /\ pkt_waiting \in BOOLEAN
    /\ pkt_timeout \in Time
    /\ systick \in Time
    /\ pc \in Steps
    /\ skipped \in BOOLEAN
    /\ lag \in 0 .. MaxLoop
    /\ age \in 0 .. Cap
    /\ armed \in 0 .. Cap

Init ==
    /\ BufInit
    /\ mode = "listen"
    /\ nodeid \in Addrs
    /\ pkt_waiting = FALSE
    /\ pkt_timeout = 0
    /\ systick = 0
    /\ pc = "top" /\ skipped = FALSE /\ lag = 0
    /\ age = 0 /\ armed = 0

-----------------------------------------------------------------------------
(* Interrupts.                                                             *)

\* as RxByte, but the receiver stays on while the node sends (a mutant)
RxByteAlways ==
    /\ Claim \/ Fill \/ Complete
    /\ age' = IF owner' \in {"parser", "mailbox"} THEN age ELSE 0
    /\ UNCHANGED <<mode, nodeid, timing, systick, loop, armed>>

\* a byte for the parser; the receiver is off while the node sends
RxByte ==
    /\ mode = "listen"
    /\ Claim \/ Fill \/ Complete
    /\ age' = IF owner' \in {"parser", "mailbox"} THEN age ELSE 0
    /\ UNCHANGED <<mode, nodeid, timing, systick, loop, armed>>

\* the reply is out and the line turned around
Sent ==
    /\ mode = "send"
    /\ mode' = "listen"
    /\ UNCHANGED <<bufVars, nodeid, timing, systick, loop, history>>

Count(n) == IF n < Cap THEN n + 1 ELSE Cap

\* TCB0_INT_vect.  MaxLoop bounds the ticks in one pass of the main loop.
Tick ==
    /\ lag < MaxLoop
    /\ lag' = lag + 1
    /\ systick' = Wrap(systick + 1)
    /\ age' = IF owner \in {"parser", "mailbox"} THEN Count(age) ELSE 0
    /\ armed' = IF pkt_waiting THEN Count(armed) ELSE 0
    /\ UNCHANGED <<bufVars, mode, nodeid, timing, pc, skipped>>

-----------------------------------------------------------------------------
(* The main loop around cmd_process().                                     *)

GoTo(step) == pc' = step /\ UNCHANGED <<skipped, lag>>

\* the pass is over: on to the next
NextPass == pc' = "top" /\ lag' = 0

\* A timer expired: this pass handles EVT_TIMEOUT and does not call
\* cmd_process().  The next one does: the state timer was just removed from the
\* timer list, or set at least a second ahead.
SkipCmd ==
    /\ pc = "top" /\ ~skipped
    /\ NextPass
    /\ skipped' = TRUE
    /\ UNCHANGED <<bufVars, mode, nodeid, timing, systick, history>>

\* cmd_process() looks for a packet; if there is one, nothing is awaited
PktReady ==
    /\ pc = "top"
    /\ skipped' = FALSE
    /\ IF owner = "mailbox"
       THEN /\ Take
            /\ pc' = "dispatch"
            /\ pkt_waiting' = FALSE
            /\ age' = 0 /\ armed' = 0
            /\ UNCHANGED pkt_timeout
       ELSE /\ pc' = "wait"
            /\ UNCHANGED <<bufVars, timing, history>>
    /\ UNCHANGED <<mode, nodeid, systick, lag>>

\* does this node answer p?
Answers(p) ==
    \/ p.cmd = "ADDR" /\ p.uid
    \/ p.cmd = "UID" /\ nodeid = 0 /\ p.addr = 0
    \/ p.cmd \in Answered /\ nodeid # 0 /\ p.addr = nodeid

\* is p a request to this node to enter the boot loader?
Reboots(p) == p.cmd = "DFU" /\ nodeid # 0 /\ p.addr = nodeid

\* the addresses that the node may have after p: ADDR sets it, FACTORY clears
\* it, SETPARM sets any parameter, the address among them
NodeidsAfter(p) == CASE p.cmd = "ADDR"    -> {p.addr}
                     [] p.cmd = "FACTORY" -> {0}
                     [] p.cmd = "SETPARM" -> Addrs
                     [] OTHER             -> {nodeid}

\* the command is executed and the reply handed to the serial line, which has
\* room for it since it is idle (NoReplyWhileSending, NeverTruncated of Ser); the
\* packet is returned to the main loop, which still reads it
Answer ==
    /\ pc = "dispatch" /\ Answers(data)
    /\ nodeid' \in NodeidsAfter(data)
    /\ mode' = "send"
    /\ GoTo("app")
    /\ UNCHANGED <<bufVars, timing, systick, history>>

\* DFU for another node: no reply, but the main loop is told
OthersDFU ==
    /\ pc = "dispatch" /\ data.cmd = "DFU" /\ ~Reboots(data)
    /\ GoTo("app")
    /\ UNCHANGED <<bufVars, mode, nodeid, timing, systick, history>>

\* DFU for this node: a software reset puts everything back to Init, except the
\* configuration, which is in EEPROM
Reboot ==
    /\ pc = "dispatch" /\ Reboots(data)
    /\ owner' = "free" /\ mode' = "listen"
    /\ pkt_waiting' = FALSE /\ pkt_timeout' = 0 /\ systick' = 0
    /\ NextPass /\ skipped' = FALSE
    /\ age' = 0 /\ armed' = 0
    /\ UNCHANGED <<data, nodeid>>

\* as Ignore, but also returns the packet (a mutant)
IgnoreReturns ==
    /\ pc = "dispatch" /\ ~Answers(data) /\ data.cmd # "DFU"
    /\ Release
    /\ GoTo("app")
    /\ UNCHANGED <<mode, nodeid, timing, systick, history>>

\* any other packet is freed at once, and cmd_process() goes on to the timeout
Ignore ==
    /\ pc = "dispatch" /\ ~Answers(data) /\ data.cmd # "DFU"
    /\ Release
    /\ GoTo("wait")
    /\ UNCHANGED <<mode, nodeid, timing, systick, history>>

\* as AppDone, but does not free the packet (a mutant)
AppLeaks ==
    /\ pc = "app"
    /\ NextPass
    /\ UNCHANGED <<bufVars, mode, nodeid, timing, systick, skipped, history>>

\* the state machine has run with EVT_CMD; the main loop frees the packet
AppDone ==
    /\ pc = "app"
    /\ Release
    /\ NextPass
    /\ UNCHANGED <<mode, nodeid, timing, systick, skipped, history>>

\* is a packet being timed, and is its time up?  Is there one to be timed?
\* pkt_is_active() is owner # "free" (theorem ActiveIffOwned of PktProofs).
CheckTimeout ==
    /\ pc = "wait"
    /\ \/ pkt_waiting /\ TmrExpired(systick, pkt_timeout) /\ GoTo("reset")
       \/ ~pkt_waiting /\ owner # "free" /\ GoTo("arm")
       \/ /\ IF pkt_waiting THEN ~TmrExpired(systick, pkt_timeout)
                            ELSE owner = "free"
          /\ NextPass /\ UNCHANGED skipped
    /\ UNCHANGED <<bufVars, mode, nodeid, timing, systick, history>>

\* the time is up: pkt_reset()
ResetPkt ==
    /\ pc = "reset"
    /\ Discard
    /\ pkt_waiting' = FALSE
    /\ age' = 0 /\ armed' = 0
    /\ NextPass
    /\ UNCHANGED <<mode, nodeid, pkt_timeout, systick, skipped>>

\* as ArmTimeout, but does not say so (a mutant)
ArmTimeoutForgets ==
    /\ pc = "arm"
    /\ pkt_timeout' = TmrSet(systick, PKT_TIMEOUT)
    /\ armed' = 0
    /\ NextPass
    /\ UNCHANGED <<bufVars, mode, nodeid, pkt_waiting, systick, skipped, age>>

\* start the timeout
ArmTimeout ==
    /\ pc = "arm"
    /\ pkt_timeout' = TmrSet(systick, PKT_TIMEOUT)
    /\ pkt_waiting' = TRUE
    /\ armed' = 0
    /\ NextPass
    /\ UNCHANGED <<bufVars, mode, nodeid, systick, skipped, age>>

Main == \/ PktReady \/ Answer \/ OthersDFU \/ Reboot \/ Ignore \/ AppDone
        \/ CheckTimeout \/ ResetPkt \/ ArmTimeout

Next == RxByte \/ Sent \/ Tick \/ SkipCmd \/ Main

\* The main loop never stops, time goes on and a reply is out some time.  No
\* byte ever has to arrive.
Fairness == WF_vars(Main) /\ WF_vars(Tick) /\ WF_vars(Sent)

Spec == Init /\ [][Next]_vars /\ Fairness

-----------------------------------------------------------------------------
(* Properties.                                                             *)

\* The main loop keeps its side of the bargain that Pkt relies on: it processes
\* and frees a packet only while it holds one, and takes or resets only while
\* it does not (cmd.c:234-373, main.c:456-487).
MainContract == owner = "client" <=> pc \in {"dispatch", "app"}

\* No reply is ever started while another is going out: pkt_send() has no lock
\* (pkt.c:164-170) and ser_write() changes the line's direction under the
\* transmit interrupts.  It is the receive path that prevents it: with a single
\* buffer, and the receiver off while sending, there is no packet to answer.
NoReplyWhileSending == pc = "dispatch" => mode = "listen"

\* The 16-bit comparison of times is exact for the packet timeout: it never
\* takes a future time for a past one, nor one long past for a future one
\* (tmr.c:77-86, cmd.c:349-369).
TimeoutExact ==
    pkt_waiting => (TmrExpired(systick, pkt_timeout) <=> armed >= PKT_TIMEOUT)

\* A packet whose rest never comes does not keep the buffer (and so the node
\* awake and deaf to others) for longer than the timeout and the few passes of
\* the main loop that it takes to start it and to see it expire, wherever the
\* bytes stop and whatever else the main loop is doing.
StuckPacketBounded == owner = "parser" => age < PKT_TIMEOUT + 4 * MaxLoop

\* Whatever arrives, and if the line then falls silent in the middle of a
\* packet, the node always gets back to where it can receive the next one:
\* listening, with the buffer free.
AlwaysReceivesAgain == []<>(owner = "free" /\ mode = "listen")

\* cmd.c:366-367: "set a timeout to make sure packet processor doesnt get
\* stuck", "5 seconds to complete packet": what the time out throws away is a
\* packet that had its 5 seconds.
FullTimeToComplete ==
    [][pc = "reset" /\ pc' = "top" /\ owner # "free"
            => age >= PKT_TIMEOUT]_vars
=============================================================================
