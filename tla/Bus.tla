-------------------------------- MODULE Bus --------------------------------
(***************************************************************************)
(* Several nodes and a controller on one bus.                              *)
(*                                                                         *)
(* Everybody hears everybody, except when asleep, sending, busy with an    *)
(* earlier packet, or disturbed by noise: any packet may be missed by any  *)
(* receiver.  A node looks at the address, the command and, for ADDR, the  *)
(* UID of what it hears, and not at the reply flag, so it may take another *)
(* node's reply for a request.                                             *)
(*                                                                         *)
(* The controller is outside src/.  It behaves as doc/packet.md asks: it   *)
(* sends when the bus is quiet, gives every node an address of its own     *)
(* and has no more than one node without an address at a time.  What it    *)
(* knows of the nodes it has from replies (`maybe').  What two senders at  *)
(* once do to each other is left out: OneTalker shows there never are two. *)
(***************************************************************************)
EXTENDS Naturals, FiniteSets

CONSTANTS
    Node,       \* the nodes, which are also their UIDs
    NoNode,
    Addrs       \* bus addresses; 0 is "none"

ASSUME BusAssumption == NoNode \notin Node /\ 0 \in Addrs

\* Requests differ in what they do to the address: PING stands for all that
\* leave it alone.  (DFU stops a node; SETPARM of the address is advised
\* against.)
Codes == {"PING", "UID", "ADDR", "FACTORY"}

Packets == [reply : BOOLEAN, addr : Addrs, cmd : Codes, uid : Node \cup {NoNode}]
None == [reply |-> FALSE, addr |-> 0, cmd |-> "none", uid |-> NoNode]

VARIABLES
    nodeid,     \* address of each node, NODEID
    inbox,      \* the packet that a node has received and not yet dealt with
    outbox,     \* the reply that a node is sending
    maybe,      \* addresses that a node may have, as far as the controller knows
    answers     \* history: replies sent since the last request (at most 2)

vars == <<nodeid, inbox, outbox, maybe, answers>>

\* nobody sends, and nobody has anything to answer
Quiet == \A n \in Node : inbox[n] = None /\ outbox[n] = None

-----------------------------------------------------------------------------
(* A node, cmd_process().                                                  *)

\* as Answers, but UID at address 0 finds every node (a mutant)
AnswersAnyUid(n, p) ==
    \/ p.cmd = "ADDR" /\ p.uid = n
    \/ p.cmd = "UID" /\ p.addr = 0
    \/ p.cmd # "ADDR" /\ nodeid[n] # 0 /\ p.addr = nodeid[n]

\* as Answers, but address 0 is for everybody (a mutant)
AnswersBroadcast(n, p) ==
    IF p.cmd = "ADDR" THEN p.uid = n ELSE p.addr \in {0, nodeid[n]}

\* as Answers, but a node without an address takes the first it hears (a mutant)
AnswersFirstAddr(n, p) ==
    IF p.cmd = "ADDR"    THEN p.uid = n \/ nodeid[n] = 0
    ELSE IF nodeid[n] = 0 THEN p.cmd = "UID" /\ p.addr = 0
    ELSE p.addr = nodeid[n]

Answers(n, p) ==
    IF p.cmd = "ADDR"    THEN p.uid = n
    ELSE IF nodeid[n] = 0 THEN p.cmd = "UID" /\ p.addr = 0
    ELSE p.addr = nodeid[n]

\* as NodeidAfter, but the old address is used until the next boot (a mutant)
NodeidKept(n, p) == IF p.cmd = "ADDR" THEN p.addr ELSE nodeid[n]

\* the node's address after it has executed p (Commands: as stored in EEPROM)
NodeidAfter(n, p) ==
    IF p.cmd = "ADDR" THEN p.addr ELSE IF p.cmd = "FACTORY" THEN 0 ELSE nodeid[n]

\* The reply: acknowledgements have the address of the request, the others that
\* of the node, and UID and ADDR tell its UID.
PktSend(n, p) ==
    [reply |-> TRUE,
     addr  |-> IF p.cmd \in {"PING", "FACTORY"} THEN p.addr ELSE NodeidAfter(n, p),
     cmd   |-> p.cmd,
     uid   |-> IF p.cmd \in {"UID", "ADDR"} THEN n ELSE NoNode]

Drop(n) ==
    /\ inbox[n] # None /\ ~Answers(n, inbox[n])
    /\ inbox' = [inbox EXCEPT ![n] = None]
    /\ UNCHANGED <<nodeid, outbox, maybe, answers>>

Answer(n) ==
    /\ inbox[n] # None /\ Answers(n, inbox[n])
    /\ nodeid' = [nodeid EXCEPT ![n] = NodeidAfter(n, inbox[n])]
    /\ outbox' = [outbox EXCEPT ![n] = PktSend(n, inbox[n])]
    /\ inbox'  = [inbox EXCEPT ![n] = None]
    /\ answers' = IF answers < 2 THEN answers + 1 ELSE answers
    /\ UNCHANGED maybe

\* power fails at a node, or its watchdog bites: what it was about to do is
\* lost, its address is in EEPROM
Restart(n) ==
    /\ inbox'  = [inbox EXCEPT ![n] = None]
    /\ outbox' = [outbox EXCEPT ![n] = None]
    /\ UNCHANGED <<nodeid, maybe, answers>>

-----------------------------------------------------------------------------
(* The bus and the controller.                                             *)

\* p is over; it was heard by some of the nodes that could hear it
Heard(p, by) ==
    [n \in Node |-> IF n \in by /\ inbox[n] = None /\ outbox[n] = None
                    THEN p ELSE inbox[n]]

\* what a request may change, and what a reply makes certain
Uncertain(p) ==
    [n \in Node |-> maybe[n] \cup
        CASE p.cmd = "ADDR" /\ p.uid = n -> {p.addr}
          [] p.cmd = "FACTORY" /\ p.addr \in maybe[n] -> {0}
          [] OTHER -> {}]
Certain(p) ==
    [n \in Node |-> CASE p.cmd \in {"ADDR", "UID"} /\ p.uid = n -> {p.addr}
                      [] p.cmd = "FACTORY" /\ p.addr \in maybe[n] -> {0}
                      [] p.cmd = "PING" /\ p.addr \in maybe[n] -> {p.addr}
                      [] OTHER -> maybe[n]]

\* n has finished sending; the controller hears it, or not
Sent(n) ==
    /\ outbox[n] # None
    /\ \E by \in SUBSET (Node \ {n}) :
         inbox' = [Heard(outbox[n], by) EXCEPT ![n] = inbox[n]]
    /\ outbox' = [outbox EXCEPT ![n] = None]
    /\ maybe' \in {maybe, Certain(outbox[n])}
    /\ UNCHANGED <<nodeid, answers>>

\* may a have been given to another node than n?
Taken(a, n) == \E m \in Node \ {n} : a \in maybe[m]

\* the controller's discipline
Allowed(p) ==
    CASE p.cmd = "ADDR"    -> p.uid # NoNode /\ p.addr # 0 /\ ~Taken(p.addr, p.uid)
      [] p.cmd = "FACTORY" -> \E n \in Node : p.addr \in maybe[n] /\ ~Taken(0, n)
      [] OTHER             -> TRUE

\* a new request, or an old one again
Request ==
    /\ Quiet
    /\ \E p \in Packets :
         /\ ~p.reply /\ (p.uid # NoNode => p.cmd = "ADDR") /\ Allowed(p)
         /\ p.cmd = "FACTORY" => p.addr # 0
         /\ \E by \in SUBSET Node : inbox' = Heard(p, by)
         /\ maybe' = Uncertain(p)
    /\ answers' = 0
    /\ UNCHANGED <<nodeid, outbox>>

\* every node has an address of its own, or one has none, and the controller
\* has just found that out
Init ==
    /\ nodeid \in [Node -> Addrs]
    /\ \A m \in Node : \A n \in Node : m # n => nodeid[m] # nodeid[n]
    /\ inbox = [n \in Node |-> None] /\ outbox = [n \in Node |-> None]
    /\ maybe = [n \in Node |-> {nodeid[n]}]
    /\ answers = 0

NodeStep(n) == Drop(n) \/ Answer(n) \/ Sent(n)

Next == Request \/ \E n \in Node : NodeStep(n) \/ Restart(n)

\* a node deals with what it has received and finishes what it sends
Spec == Init /\ [][Next]_vars /\ \A n \in Node : WF_vars(NodeStep(n))

-----------------------------------------------------------------------------
(* Properties.                                                             *)

\* Addresses are addresses and mailboxes hold packets.
TypeOK ==
    /\ nodeid \in [Node -> Addrs]
    /\ inbox \in [Node -> Packets \cup {None}]
    /\ outbox \in [Node -> Packets \cup {None}]
    /\ maybe \in [Node -> SUBSET Addrs]
    /\ answers \in 0 .. 2

\* "There is no hardware mechanism to prevent bus collisions": although nodes
\* hear each other's replies and do not look at the reply flag, at most one
\* replies to a request, and only once; while it sends, no other does.
OneTalker ==
    /\ answers <= 1
    /\ Cardinality({n \in Node : outbox[n] # None}) <= 1

\* Whatever is lost, requests, replies or both, the controller is never wrong
\* about a node, at worst uncertain: a node has one of the addresses that
\* requests may have given it and, once a reply arrives, the one it confirms.
KnowledgeRight == \A n \in Node : nodeid[n] \in maybe[n]

\* No address ever belongs to two nodes, and never are two without one: ADDR
\* goes by UID, and no overheard reply changes the address of another node.
AddressesUnique ==
    \A m \in Node : \A n \in Node : m # n => nodeid[m] # nodeid[n]

\* No request sets off an exchange among the nodes that does not end: if the
\* controller stops, the bus falls silent and can be used again.
FallsQuiet == []<>Quiet
=============================================================================
