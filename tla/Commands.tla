------------------------------ MODULE Commands ------------------------------
(***************************************************************************)
(* The commands of cmd.c with their payloads, over the configuration.      *)
(*                                                                         *)
(* A packet is executed in place, in the one receive buffer, of which the  *)
(* packet has overwritten only as many bytes as it has: behind them is     *)
(* still what earlier packets, good or bad, have left there.  The buffer   *)
(* does not change while a packet is executed (module RxBuf), and the      *)
(* packet's reply is sent when the configuration has been stored.          *)
(***************************************************************************)
EXTENDS Cfg

CONSTANTS
    UID,            \* the bytes of cfg_uid()
    Addrs,          \* addresses on the bus
    PayloadBytes,   \* byte values that occur in payloads
    PAYLOAD_LEN     \* bytes of payload that the buffer has room for

\* PING stands for all commands that read only, or act on the shunt and the test
\* modes (module App).
Codes == {"PING", "UID", "ADDR", "SETPARM", "GETPARM", "FACTORY"}

ADDR_ID == 1    \* the parameter that is the node's address

ASSUME CommandsAssumption ==
    /\ ADDR_ID <= MAX_PARMID /\ parmtable[ADDR_ID].count = 1
    /\ Addrs \cup PayloadBytes \subseteq Byte /\ 0 \in Addrs
    /\ 0 \in PayloadBytes /\ UID \in Seq(PayloadBytes)
    /\ PAYLOAD_LEN \in Nat \ {0} /\ PAYLOAD_LEN >= Len(UID)

Payload == [1 .. PAYLOAD_LEN -> PayloadBytes]

VARIABLES
    payload,    \* the payload bytes of the receive buffer
    pkt,        \* the rest of the packet being executed: cmd, addr, len
    step,       \* "wait" for a packet, "execute" it, "again" (store), "reply"
    sent        \* the last reply, until the next packet

cmdVars == <<payload, pkt, step, sent>>
allVars == <<cfgVars, cmdVars>>

NoPacket == [cmd |-> "none", addr |-> 0, len |-> 0]
NoReply  == [cmd |-> "none", addr |-> 0, payload |-> <<>>]

NODEID == g_cfg_parms[parmtable[ADDR_ID].index]

-----------------------------------------------------------------------------
(* The receive buffer.                                                     *)

\* a packet that is cut short, or turns out to be bad: any first bytes of the
\* buffer are overwritten
BadPacket ==
    /\ step = "wait" /\ stage = "ready"
    /\ payload' \in Payload
    /\ UNCHANGED <<cfgVars, pkt, step, sent>>

\* Commands that do not look at their payload come without one; what the buffer
\* would hold after a longer one, it can hold after a bad packet.
Lengths(c) == IF c \in {"PING", "UID", "FACTORY"} THEN {0} ELSE 0 .. PAYLOAD_LEN

\* len bytes of anything are received over the old contents
Overwrites(len) ==
    \E fresh \in [1 .. len -> PayloadBytes] :
        payload' = [i \in 1 .. PAYLOAD_LEN |->
                        IF i <= len THEN fresh[i] ELSE payload[i]]

\* a good packet, for this node or another
GoodPacket ==
    /\ step = "wait" /\ stage = "ready"
    /\ \E c \in Codes : \E a \in Addrs : \E len \in Lengths(c) :
         /\ pkt' = [cmd |-> c, addr |-> a, len |-> len]
         /\ Overwrites(len)
    /\ step' = "execute"
    /\ sent' = NoReply
    /\ UNCHANGED cfgVars

-----------------------------------------------------------------------------
(* Executing a packet.                                                     *)

\* the reply is queued and the packet freed
Send(addr, reply) ==
    /\ sent' = [cmd |-> pkt.cmd, addr |-> addr, payload |-> reply]
    /\ pkt' = NoPacket
    /\ step' = "wait"

\* a node without an address answers to UID at address 0 only
ForUs == IF NODEID = 0 THEN pkt.cmd = "UID" /\ pkt.addr = 0
                       ELSE pkt.cmd # "ADDR" /\ pkt.addr = NODEID

\* is it an ADDR with this node's UID?
NamesUs == pkt.cmd = "ADDR" /\ SubSeq(payload, 1, Len(UID)) = UID

Ignore ==
    /\ step = "execute" /\ ~ForUs /\ ~NamesUs
    /\ step' = "wait" /\ pkt' = NoPacket
    /\ UNCHANGED <<cfgVars, payload, sent>>

Executes(c) == step = "execute" /\ ForUs /\ pkt.cmd = c

\* cmd_ack() and the other replies that only read
Ping ==
    /\ Executes("PING") \/ Executes("UID")
    /\ Send(pkt.addr, <<>>)
    /\ UNCHANGED <<cfgVars, payload>>

\* cmd_addr() sets the parameter through a SETPARM payload of its own
Addr ==
    /\ step = "execute" /\ NamesUs
    /\ CfgSet(<<ADDR_ID, pkt.addr>>)
    /\ step' = "again"
    /\ UNCHANGED <<payload, pkt, sent>>

\* and stores the configuration, which cfg_set() has just done
AddrStore ==
    /\ step = "again"
    /\ CfgStore
    /\ step' = "reply"
    /\ UNCHANGED <<payload, pkt, sent>>

\* cmd_setparm(): the reply does not tell whether the parameter was accepted
SetParm ==
    /\ Executes("SETPARM")
    /\ IF SetAccepts(pkt.len, payload)
       THEN CfgSet(payload) ELSE UNCHANGED cfgVars
    /\ step' = "reply"
    /\ UNCHANGED <<payload, pkt, sent>>

\* cfg_get() and the payload that cmd_getparm() makes of it: the parameter id
\* and its bytes, or the id alone if there is no such parameter
CfgGet(id) ==
    IF id \in 1 .. MAX_PARMID
    THEN [i \in 1 .. parmtable[id].count + 1 |->
              IF i = 1 THEN id ELSE g_cfg_parms[parmtable[id].index + i - 2]]
    ELSE <<id>>

GetParm ==
    /\ Executes("GETPARM")
    /\ Send(NODEID, CfgGet(payload[1]))
    /\ UNCHANGED <<cfgVars, payload>>

Factory ==
    /\ Executes("FACTORY")
    /\ CfgReset
    /\ step' = "reply"
    /\ UNCHANGED <<payload, pkt, sent>>

\* as Reply, but without waiting for the store (a mutant)
ReplyEarly ==
    /\ step = "reply"
    /\ \/ pkt.cmd = "ADDR"    /\ Send(NODEID, SubSeq(payload, 1, Len(UID)))
       \/ pkt.cmd = "SETPARM" /\ Send(NODEID, <<payload[1]>>)
       \/ pkt.cmd = "FACTORY" /\ Send(pkt.addr, <<>>)
    /\ UNCHANGED <<cfgVars, payload>>

\* a command that stored something (or tried) has returned from cfg.c
Reply ==
    /\ step = "reply" /\ stage = "ready"
    /\ \/ pkt.cmd = "ADDR"    /\ Send(NODEID, SubSeq(payload, 1, Len(UID)))
       \/ pkt.cmd = "SETPARM" /\ Send(NODEID, <<payload[1]>>)
       \/ pkt.cmd = "FACTORY" /\ Send(pkt.addr, <<>>)
    /\ UNCHANGED <<cfgVars, payload>>

-----------------------------------------------------------------------------

\* cfg.c at work, while the command waits
Configure ==
    /\ CfgLoad \/ WriteByte \/ WriteDone
    /\ UNCHANGED cmdVars

\* power fails or the node is reset, at any moment
Restart ==
    /\ PowerFail
    /\ payload' = [i \in 1 .. PAYLOAD_LEN |-> 0]
    /\ pkt' = NoPacket /\ step' = "wait" /\ sent' = NoReply

Init ==
    /\ CfgInit
    /\ payload = [i \in 1 .. PAYLOAD_LEN |-> 0]
    /\ pkt = NoPacket /\ step = "wait" /\ sent = NoReply

Execute == \/ Ping \/ Addr \/ AddrStore \/ SetParm \/ GetParm
           \/ Factory \/ Reply \/ Ignore

Next == BadPacket \/ GoodPacket \/ Execute \/ Configure \/ Restart

Spec == Init /\ [][Next]_allVars

-----------------------------------------------------------------------------
(* Properties.                                                             *)

\* Every variable holds what its C type allows.
TypeOK ==
    /\ CfgTypeOK
    /\ payload \in Payload
    /\ pkt.cmd \in Codes \cup {"none"} /\ pkt.addr \in Addrs
    /\ pkt.len \in 0 .. PAYLOAD_LEN
    /\ step \in {"wait", "execute", "again", "reply"}
    /\ sent.payload \in Seq(Byte)

\* No parameter is ever set to bytes that an earlier packet left in the buffer:
\* SETPARM of any length stores only bytes that it came with (cfg_set() never
\* looks behind them, cfg.c:223-262), and only those of the parameter it names.
SetsOnlyWhatWasSent ==
    [][pkt.cmd = "SETPARM" /\ stage = "ready" /\ stage' = "write" =>
         \A i \in ParmBytes :
             \/ g_cfg_parms'[i] = g_cfg_parms[i]
             \/ /\ i \in BytesOf(payload[1])
                /\ \E j \in 2 .. pkt.len : g_cfg_parms'[i] = payload[j]]_allVars

\* What GETPARM answers, sent back as SETPARM, is accepted and changes nothing:
\* cfg_get() and cfg_set() agree on where a parameter is and how long it is.
GetThenSet ==
    sent.cmd = "GETPARM" /\ Len(sent.payload) > 1 =>
        /\ SetAccepts(Len(sent.payload), sent.payload)
        /\ AfterSet(g_cfg_parms, sent.payload) = g_cfg_parms

\* A reply to ADDR, SETPARM or FACTORY is not sent before the EEPROM holds the
\* change: the controller may cut the power as soon as it has the reply, and
\* ADDR's reply carries the address that the node will have from then on.
AcknowledgedIsStored ==
    [][sent' # sent /\ sent'.cmd \in {"ADDR", "SETPARM", "FACTORY"} =>
         /\ Saved(eeprom) = Parms(g_cfg_parms)
         /\ sent'.cmd = "ADDR" =>
                sent'.addr = Saved(eeprom)[parmtable[ADDR_ID].index]]_allVars
=============================================================================
