----------------------------- MODULE BusProofs -----------------------------
(***************************************************************************)
(* Proofs about Bus, for every number of nodes and addresses.              *)
(***************************************************************************)
EXTENDS Bus, FiniteSetTheorems, TLAPS

\* n has received a packet that it is going to answer
Answerable(n) == inbox[n] # None /\ Answers(n, inbox[n])

\* no address may, as far as the controller knows, belong to two nodes
Disjoint == \A m, n \in Node : m # n => maybe[m] \cap maybe[n] = {}

\* one request has at most one answer: it is still to come, on its way, or over
OneAnswer ==
    /\ answers <= 1
    /\ \A n \in Node : Answerable(n) =>
          /\ answers = 0
          /\ \A m \in Node : Answerable(m) => m = n
    /\ \A n \in Node : outbox[n] # None =>
          /\ answers = 1
          /\ \A m \in Node : outbox[m] # None => m = n
    /\ \A m, n \in Node : ~(Answerable(m) /\ outbox[n] # None)

\* what a request is going to do is something the controller reckons with
Expected ==
    \A n \in Node : Answerable(n) => NodeidAfter(n, inbox[n]) \in maybe[n]

\* a reply on its way tells the truth, and is known for that node's
Truthful ==
    \A n \in Node : outbox[n] # None =>
        LET p == outbox[n]
        IN  /\ p.cmd \in {"UID", "ADDR"} => p.uid = n
            /\ p.cmd \in {"UID", "ADDR", "PING"} => p.addr = nodeid[n]
            /\ p.cmd = "FACTORY" => p.addr \in maybe[n] /\ nodeid[n] = 0

IInv == TypeOK /\ KnowledgeRight /\ Disjoint /\ OneAnswer /\ Expected /\ Truthful

-----------------------------------------------------------------------------
(* What packets do.                                                        *)

LEMMA NoneNoPacket == None \notin Packets
BY DEF None, Packets, Codes

LEMMA NoneFields == None.cmd = "none" /\ None.addr = 0
BY DEF None

LEMMA PacketFields ==
    ASSUME NEW p \in Packets
    PROVE  /\ p.cmd \in Codes /\ p.addr \in Addrs /\ p.uid \in Node \cup {NoNode}
           /\ p # None
BY NoneNoPacket DEF Packets

\* addresses are unique as long as the controller is right about them
LEMMA Unique ==
    ASSUME KnowledgeRight, Disjoint
    PROVE  AddressesUnique
BY DEF KnowledgeRight, Disjoint, AddressesUnique

\* at most one node answers a packet
LEMMA OneAnswers ==
    ASSUME AddressesUnique, NEW p \in Packets, NEW m \in Node, NEW n \in Node,
           Answers(m, p), Answers(n, p)
    PROVE  m = n
<1>1. CASE p.cmd = "ADDR"
  BY <1>1 DEF Answers
<1>2. CASE p.cmd # "ADDR"
  <2>1. nodeid[m] = p.addr /\ nodeid[n] = p.addr
    BY <1>2 DEF Answers
  <2> QED
    BY <2>1 DEF AddressesUnique
<1> QED
  BY <1>1, <1>2

\* a node that answers has the address, or is named
LEMMA AnswersMeans ==
    ASSUME NEW p, NEW n \in Node, Answers(n, p)
    PROVE  /\ p.cmd = "ADDR" => p.uid = n
           /\ p.cmd # "ADDR" => p.addr = nodeid[n]
           /\ p.cmd = "FACTORY" => nodeid[n] # 0
BY DEF Answers

\* a request leaves what was possible possible, adds what it asks for...
LEMMA UncertainGrows ==
    ASSUME NEW p, NEW n \in Node
    PROVE  /\ maybe[n] \subseteq Uncertain(p)[n]
           /\ p.cmd = "ADDR" /\ p.uid = n => p.addr \in Uncertain(p)[n]
           /\ p.cmd = "FACTORY" /\ p.addr \in maybe[n] => 0 \in Uncertain(p)[n]
           /\ \A a \in Uncertain(p)[n] :
                \/ a \in maybe[n]
                \/ p.cmd = "ADDR" /\ p.uid = n /\ a = p.addr
                \/ p.cmd = "FACTORY" /\ p.addr \in maybe[n] /\ a = 0
BY DEF Uncertain

\* ...and, if the controller is allowed to send it, creates no doubt about who
\* has an address
LEMMA UncertainDisjoint ==
    ASSUME Disjoint, NEW p, Allowed(p), NEW m \in Node, NEW n \in Node, m # n,
           p.uid \in Node \cup {NoNode}
    PROVE  Uncertain(p)[m] \cap Uncertain(p)[n] = {}
<1> SUFFICES ASSUME NEW a, a \in Uncertain(p)[m], a \in Uncertain(p)[n] PROVE FALSE
  OBVIOUS
<1>1. maybe[m] \cap maybe[n] = {}
  BY DEF Disjoint
<1>2. CASE p.cmd = "ADDR"
  <2>1. ~Taken(p.addr, p.uid)
    BY <1>2 DEF Allowed
  <2>2. \/ a \in maybe[m]
        \/ p.uid = m /\ a = p.addr
    BY <1>2, UncertainGrows
  <2>3. \/ a \in maybe[n]
        \/ p.uid = n /\ a = p.addr
    BY <1>2, UncertainGrows
  <2> QED
    BY <1>1, <2>1, <2>2, <2>3 DEF Taken
<1>3. CASE p.cmd = "FACTORY"
  <2>1. PICK k \in Node : p.addr \in maybe[k] /\ ~Taken(0, k)
    BY <1>3 DEF Allowed
  <2>2. \/ a \in maybe[m]
        \/ p.addr \in maybe[m] /\ a = 0
    BY <1>3, UncertainGrows
  <2>3. \/ a \in maybe[n]
        \/ p.addr \in maybe[n] /\ a = 0
    BY <1>3, UncertainGrows
  <2> QED
    BY <1>1, <2>1, <2>2, <2>3 DEF Taken, Disjoint
<1>4. CASE p.cmd \notin {"ADDR", "FACTORY"}
  BY <1>1, <1>4, UncertainGrows
<1> QED
  BY <1>2, <1>3, <1>4

\* a reply leaves the controller with no more than it reckoned with, and not
\* without the truth
LEMMA CertainRight ==
    ASSUME KnowledgeRight, Disjoint, Truthful, NEW n \in Node, outbox[n] # None,
           NEW k \in Node
    PROVE  nodeid[k] \in Certain(outbox[n])[k] /\ Certain(outbox[n])[k] \subseteq maybe[k]
<1> DEFINE p == outbox[n]
<1>1. nodeid[k] \in maybe[k] /\ nodeid[n] \in maybe[n]
  BY DEF KnowledgeRight
<1>2. \A a : a \in maybe[k] /\ a \in maybe[n] => k = n
  BY DEF Disjoint
<1>3. CASE p.cmd \in {"ADDR", "UID"}
  <2>1. p.uid = n /\ p.addr = nodeid[n]
    BY <1>3 DEF Truthful
  <2>2. Certain(p)[k] = IF k = n THEN {p.addr} ELSE maybe[k]
    BY <1>3, <2>1 DEF Certain
  <2> QED
    BY <1>1, <2>1, <2>2
<1>4. CASE p.cmd = "FACTORY"
  <2>1. p.addr \in maybe[n] /\ nodeid[n] = 0
    BY <1>4 DEF Truthful
  <2>2. Certain(p)[k] = IF p.addr \in maybe[k] THEN {0} ELSE maybe[k]
    BY <1>4 DEF Certain
  <2> QED
    BY <1>1, <1>2, <2>1, <2>2
<1>5. CASE p.cmd = "PING"
  <2>1. p.addr = nodeid[n]
    BY <1>5 DEF Truthful
  <2>2. Certain(p)[k] = IF p.addr \in maybe[k] THEN {p.addr} ELSE maybe[k]
    BY <1>5 DEF Certain
  <2> QED
    BY <1>1, <1>2, <2>1, <2>2
<1>6. CASE p.cmd \notin {"ADDR", "UID", "FACTORY", "PING"}
  <2>1. Certain(p)[k] = maybe[k]
    BY <1>6 DEF Certain
  <2> QED
    BY <1>1, <2>1
<1> QED
  BY <1>3, <1>4, <1>5, <1>6

\* nobody takes a reply for a request
LEMMA RepliesIgnored ==
    ASSUME TypeOK, KnowledgeRight, Disjoint, Truthful,
           NEW m \in Node, outbox[m] # None, NEW n \in Node, m # n
    PROVE  ~Answers(n, outbox[m])
<1> DEFINE p == outbox[m]
<1>1. p.cmd \in {"UID", "ADDR", "PING", "FACTORY"}
  <2>1. p \in Packets
    BY DEF TypeOK
  <2> QED
    BY <2>1, PacketFields DEF Codes
<1>2. nodeid[n] \in maybe[n] /\ nodeid[m] \in maybe[m] /\ maybe[n] \cap maybe[m] = {}
  BY DEF KnowledgeRight, Disjoint
<1> SUFFICES ASSUME Answers(n, p) PROVE FALSE
  OBVIOUS
<1>3. CASE p.cmd = "ADDR"
  BY <1>3, AnswersMeans DEF Truthful
<1>4. CASE p.cmd \in {"UID", "PING"}
  <2>1. p.addr = nodeid[n]
    BY <1>4, AnswersMeans
  <2>2. p.addr = nodeid[m]
    BY <1>4 DEF Truthful
  <2> QED
    BY <1>2, <2>1, <2>2
<1>5. CASE p.cmd = "FACTORY"
  <2>1. p.addr = nodeid[n]
    BY <1>5, AnswersMeans
  <2>2. p.addr \in maybe[m]
    BY <1>5 DEF Truthful
  <2> QED
    BY <1>2, <2>1, <2>2
<1> QED
  BY <1>1, <1>3, <1>4, <1>5

-----------------------------------------------------------------------------
(* The invariant.                                                          *)

LEMMA InitIInv == Init => IInv
<1> SUFFICES ASSUME Init PROVE IInv
  OBVIOUS
<1>1. \A n \in Node : inbox[n] = None /\ outbox[n] = None /\ maybe[n] = {nodeid[n]}
  BY DEF Init
<1>2. TypeOK
  BY DEF Init, TypeOK
<1>3. KnowledgeRight /\ Disjoint
  BY <1>1 DEF Init, KnowledgeRight, Disjoint
<1>4. \A n \in Node : ~Answerable(n) /\ outbox[n] = None
  BY <1>1 DEF Answerable
<1>5. OneAnswer /\ Expected /\ Truthful
  BY <1>4 DEF Init, OneAnswer, Expected, Truthful
<1> QED
  BY <1>2, <1>3, <1>5 DEF IInv

LEMMA RequestIInv == IInv /\ Request => IInv'
<1> SUFFICES ASSUME IInv, Request PROVE IInv'
  OBVIOUS
<1>1. PICK p \in Packets :
        /\ Allowed(p)
        /\ \E by \in SUBSET Node : inbox' = Heard(p, by)
        /\ maybe' = Uncertain(p)
  BY DEF Request
<1>2. PICK by \in SUBSET Node : inbox' = Heard(p, by)
  BY <1>1
<1>3. answers' = 0 /\ nodeid' = nodeid /\ outbox' = outbox
      /\ \A n \in Node : inbox[n] = None /\ outbox[n] = None
  BY DEF Request, Quiet
<1>4. \A n \in Node : inbox'[n] \in {None, p}
  BY <1>2, <1>3 DEF Heard
<1>5. \A n \in Node : maybe[n] \subseteq maybe'[n]
  BY <1>1, UncertainGrows
<1>6. TypeOK'
  <2>1. inbox' \in [Node -> Packets \cup {None}]
    BY <1>2 DEF Heard, IInv, TypeOK
  <2>2. p.addr \in Addrs /\ p.uid \in Node \cup {NoNode}
    BY PacketFields
  <2>3. \A n \in Node : Uncertain(p)[n] \subseteq Addrs
    BY <2>2, UncertainGrows, BusAssumption DEF IInv, TypeOK
  <2>4. maybe' \in [Node -> SUBSET Addrs]
    BY <1>1, <2>3 DEF Uncertain
  <2> QED
    BY <1>3, <2>1, <2>4 DEF IInv, TypeOK
<1>7. KnowledgeRight'
  BY <1>3, <1>5 DEF IInv, KnowledgeRight
<1>8. Disjoint'
  <2> SUFFICES ASSUME NEW m \in Node, NEW n \in Node, m # n
               PROVE  Uncertain(p)[m] \cap Uncertain(p)[n] = {}
    BY <1>1 DEF Disjoint
  <2> QED
    BY <1>1, UncertainDisjoint, PacketFields DEF IInv
<1>9. \A n \in Node : Answerable(n)' => inbox'[n] = p /\ Answers(n, p)
  BY <1>3, <1>4 DEF Answerable, Answers
<1>10. OneAnswer'
  <2>1. \A m, n \in Node : Answerable(m)' /\ Answerable(n)' => m = n
    BY <1>9, Unique, OneAnswers DEF IInv
  <2> QED
    BY <1>3, <2>1 DEF OneAnswer
<1>11. Expected'
  <2> SUFFICES ASSUME NEW n \in Node, Answerable(n)'
               PROVE  NodeidAfter(n, inbox[n])' \in maybe'[n]
    BY DEF Expected
  <2>1. inbox'[n] = p /\ Answers(n, p)
    BY <1>9
  <2>2. nodeid[n] \in maybe[n]
    BY DEF IInv, KnowledgeRight
  <2>3. NodeidAfter(n, p) \in Uncertain(p)[n]
    BY <2>1, <2>2, AnswersMeans, UncertainGrows DEF NodeidAfter
  <2> QED
    BY <1>1, <1>3, <2>1, <2>3 DEF NodeidAfter
<1>12. Truthful'
  BY <1>3 DEF Truthful
<1> QED
  BY <1>6, <1>7, <1>8, <1>10, <1>11, <1>12 DEF IInv

\* a node that drops a packet answers what it answered before
LEMMA DropIInv == ASSUME NEW n \in Node, IInv, Drop(n) PROVE IInv'
<1>1. /\ UNCHANGED <<nodeid, outbox, maybe, answers>>
      /\ inbox' = [inbox EXCEPT ![n] = None]
  BY DEF Drop
<1>2. TypeOK'
  BY <1>1 DEF IInv, TypeOK
<1>3. \A m \in Node : Answerable(m)' => m # n /\ inbox'[m] = inbox[m] /\ Answerable(m)
  BY <1>1 DEF Answerable, Answers, IInv, TypeOK
<1>4. KnowledgeRight' /\ Disjoint' /\ Truthful'
  BY <1>1 DEF IInv, KnowledgeRight, Disjoint, Truthful
<1>5. OneAnswer'
  BY <1>1, <1>3 DEF IInv, OneAnswer
<1>6. Expected'
  BY <1>1, <1>3 DEF IInv, Expected, NodeidAfter
<1> QED
  BY <1>2, <1>4, <1>5, <1>6 DEF IInv

LEMMA RestartIInv == ASSUME NEW n \in Node, IInv, Restart(n) PROVE IInv'
<1>1. /\ UNCHANGED <<nodeid, maybe, answers>>
      /\ inbox' = [inbox EXCEPT ![n] = None]
      /\ outbox' = [outbox EXCEPT ![n] = None]
  BY DEF Restart
<1>2. TypeOK'
  BY <1>1 DEF IInv, TypeOK
<1>3. \A m \in Node : Answerable(m)' => m # n /\ inbox'[m] = inbox[m] /\ Answerable(m)
  BY <1>1 DEF Answerable, Answers, IInv, TypeOK
<1>4. \A m \in Node : outbox'[m] # None => m # n /\ outbox'[m] = outbox[m]
  BY <1>1 DEF IInv, TypeOK
<1>5. KnowledgeRight' /\ Disjoint'
  BY <1>1 DEF IInv, KnowledgeRight, Disjoint
<1>6. Truthful'
  BY <1>1, <1>4 DEF IInv, Truthful
<1>7. OneAnswer'
  BY <1>1, <1>3, <1>4 DEF IInv, OneAnswer
<1>8. Expected'
  BY <1>1, <1>3 DEF IInv, Expected, NodeidAfter
<1> QED
  BY <1>2, <1>5, <1>6, <1>7, <1>8 DEF IInv

\* the answer that was to come is on its way, and no other is to come
LEMMA AnswerIInv == ASSUME NEW n \in Node, IInv, Answer(n) PROVE IInv'
<1> DEFINE p == inbox[n]
           r == PktSend(n, p)
<1>1. /\ p # None /\ Answers(n, p)
      /\ nodeid' = [nodeid EXCEPT ![n] = NodeidAfter(n, p)]
      /\ outbox' = [outbox EXCEPT ![n] = r]
      /\ inbox'  = [inbox EXCEPT ![n] = None]
      /\ answers' = IF answers < 2 THEN answers + 1 ELSE answers
      /\ maybe' = maybe
  BY DEF Answer
<1>2. Answerable(n)
  BY <1>1 DEF Answerable
<1>3. /\ answers = 0
      /\ \A m \in Node : outbox[m] = None
      /\ \A m \in Node : Answerable(m) => m = n
  BY <1>2 DEF IInv, OneAnswer
<1>4. p \in Packets /\ p.cmd \in Codes /\ p.addr \in Addrs
  BY <1>1, PacketFields DEF IInv, TypeOK
<1>5. NodeidAfter(n, p) \in maybe[n] /\ nodeid[n] \in maybe[n] /\ maybe[n] \subseteq Addrs
  BY <1>2 DEF IInv, Expected, KnowledgeRight, TypeOK
<1>6. /\ r.cmd = p.cmd
      /\ r.addr = IF p.cmd \in {"PING", "FACTORY"} THEN p.addr ELSE NodeidAfter(n, p)
      /\ r.uid = IF p.cmd \in {"UID", "ADDR"} THEN n ELSE NoNode
      /\ r \in Packets
  BY <1>4, <1>5 DEF PktSend, Packets
<1>7. /\ nodeid'[n] = NodeidAfter(n, p) /\ outbox'[n] = r /\ inbox'[n] = None
      /\ \A m \in Node : m # n => /\ nodeid'[m] = nodeid[m] /\ inbox'[m] = inbox[m]
                                  /\ outbox'[m] = None
  BY <1>1, <1>3 DEF IInv, TypeOK
<1>8. TypeOK'
  <2>1. nodeid' \in [Node -> Addrs]
    BY <1>1, <1>5 DEF IInv, TypeOK
  <2>2. outbox' \in [Node -> Packets \cup {None}] /\ inbox' \in [Node -> Packets \cup {None}]
    BY <1>1, <1>6 DEF IInv, TypeOK
  <2> QED
    BY <1>1, <1>3, <2>1, <2>2 DEF IInv, TypeOK
<1>9. KnowledgeRight' /\ Disjoint'
  BY <1>1, <1>5, <1>7 DEF IInv, KnowledgeRight, Disjoint
<1>10. \A m \in Node : ~Answerable(m)'
  <2> SUFFICES ASSUME NEW m \in Node, Answerable(m)' PROVE FALSE
    OBVIOUS
  <2>1. m # n
    BY <1>7 DEF Answerable
  <2>2. Answerable(m)
    BY <1>7, <2>1 DEF Answerable, Answers
  <2> QED
    BY <1>3, <2>1, <2>2
<1>11. OneAnswer'
  <2>1. answers' = 1
    BY <1>1, <1>3
  <2> QED
    BY <1>7, <1>10, <2>1 DEF OneAnswer
<1>12. Expected'
  BY <1>10 DEF Expected
<1>13. Truthful'
  <2>1. p.cmd \in {"UID", "ADDR"} => r.uid = n
    BY <1>6
  <2>2. p.cmd \in {"UID", "ADDR", "PING"} => r.addr = nodeid'[n]
    BY <1>1, <1>6, <1>7, AnswersMeans DEF NodeidAfter
  <2>3. p.cmd = "FACTORY" => r.addr \in maybe'[n] /\ nodeid'[n] = 0
    BY <1>1, <1>5, <1>6, <1>7, AnswersMeans DEF NodeidAfter
  <2> QED
    BY <1>6, <1>7, <2>1, <2>2, <2>3 DEF Truthful
<1> QED
  BY <1>8, <1>9, <1>11, <1>12, <1>13 DEF IInv

\* nobody answers the reply
LEMMA SentIInv == ASSUME NEW n \in Node, IInv, Sent(n) PROVE IInv'
<1> DEFINE p == outbox[n]
<1>1. /\ p # None
      /\ outbox' = [outbox EXCEPT ![n] = None]
      /\ maybe' \in {maybe, Certain(p)}
      /\ nodeid' = nodeid /\ answers' = answers
  BY DEF Sent
<1>2. PICK by \in SUBSET (Node \ {n}) : inbox' = [Heard(p, by) EXCEPT ![n] = inbox[n]]
  BY DEF Sent
<1>3. /\ answers = 1
      /\ \A m \in Node : outbox[m] # None => m = n
      /\ \A m \in Node : ~Answerable(m)
  BY <1>1 DEF IInv, OneAnswer
<1>4. p \in Packets
  BY <1>1 DEF IInv, TypeOK
<1>5. \A m \in Node : nodeid[m] \in maybe'[m] /\ maybe'[m] \subseteq maybe[m]
  <2> SUFFICES ASSUME NEW m \in Node
               PROVE  nodeid[m] \in maybe'[m] /\ maybe'[m] \subseteq maybe[m]
    OBVIOUS
  <2>1. nodeid[m] \in Certain(p)[m] /\ Certain(p)[m] \subseteq maybe[m]
    BY <1>1, CertainRight DEF IInv
  <2> QED
    BY <1>1, <2>1 DEF IInv, KnowledgeRight
<1>6. TypeOK'
  <2>1. inbox' \in [Node -> Packets \cup {None}]
    BY <1>2, <1>4 DEF Heard, IInv, TypeOK
  <2>2. outbox' \in [Node -> Packets \cup {None}]
    BY <1>1 DEF IInv, TypeOK
  <2>3. maybe' \in [Node -> SUBSET Addrs]
    <3>1. maybe' = [m \in Node |-> maybe'[m]]
      BY <1>1 DEF IInv, TypeOK, Certain
    <3>2. \A m \in Node : maybe'[m] \subseteq Addrs
      BY <1>5 DEF IInv, TypeOK
    <3> QED
      BY <3>1, <3>2
  <2> QED
    BY <1>1, <2>1, <2>2, <2>3 DEF IInv, TypeOK
<1>7. KnowledgeRight' /\ Disjoint'
  BY <1>1, <1>5 DEF IInv, KnowledgeRight, Disjoint
<1>8. \A m \in Node : outbox'[m] = None
  BY <1>1, <1>3 DEF IInv, TypeOK
<1>9. \A m \in Node : ~Answerable(m)'
  <2> SUFFICES ASSUME NEW m \in Node PROVE ~Answerable(m)'
    OBVIOUS
  <2>1. inbox'[m] = inbox[m] \/ (m # n /\ inbox'[m] = p)
    BY <1>2 DEF Heard
  <2>2. CASE inbox'[m] = inbox[m]
    BY <1>1, <1>3, <2>2 DEF Answerable, Answers
  <2>3. CASE m # n /\ inbox'[m] = p
    <3>1. ~Answers(m, p)
      BY <1>1, <2>3, RepliesIgnored DEF IInv
    <3> QED
      BY <1>1, <2>3, <3>1 DEF Answerable, Answers
  <2> QED
    BY <2>1, <2>2, <2>3
<1>10. OneAnswer' /\ Expected' /\ Truthful'
  BY <1>1, <1>3, <1>8, <1>9 DEF OneAnswer, Expected, Truthful
<1> QED
  BY <1>6, <1>7, <1>10 DEF IInv

LEMMA NextIInv == IInv /\ [Next]_vars => IInv'
<1> SUFFICES ASSUME IInv, [Next]_vars PROVE IInv'
  OBVIOUS
<1>1. CASE UNCHANGED vars
  BY <1>1 DEF vars, IInv, TypeOK, KnowledgeRight, Disjoint, OneAnswer, Expected,
              Truthful, Answerable, Answers, NodeidAfter
<1>2. ASSUME NEW n \in Node, NodeStep(n) \/ Restart(n) PROVE IInv'
  BY <1>2, DropIInv, AnswerIInv, SentIInv, RestartIInv DEF NodeStep
<1> QED
  BY <1>1, <1>2, RequestIInv DEF Next

-----------------------------------------------------------------------------
(* The theorems.                                                           *)

\* The inductive invariant: what the controller may rightly think, and where the
\* one answer to a request is (cmd.c:256-283).
THEOREM Invariance == Spec => []IInv
<1>1. Init => IInv
  BY InitIInv
<1>2. IInv /\ [Next]_vars => IInv'
  BY NextIInv
<1> QED
  BY <1>1, <1>2, PTL DEF Spec

\* Addresses are addresses and mailboxes hold packets, on a bus of any size.
THEOREM TypeCorrect == Spec => []TypeOK
<1>1. IInv => TypeOK
  BY DEF IInv
<1> QED
  BY <1>1, Invariance, PTL

\* On a bus with any number of nodes, the controller is never wrong about a
\* node's address, whatever packets are lost and whichever node restarts.
THEOREM NeverWrong == Spec => []KnowledgeRight
<1>1. IInv => KnowledgeRight
  BY DEF IInv
<1> QED
  BY <1>1, Invariance, PTL

\* Any number of nodes keep addresses of their own, although they take each
\* other's replies for requests (cmd.c:256-283).
THEOREM NoSharedAddress == Spec => []AddressesUnique
<1>1. IInv => AddressesUnique
  BY Unique DEF IInv
<1> QED
  BY <1>1, Invariance, PTL

\* However many nodes hear a request, and hear the reply to it, one of them
\* talks, once.
THEOREM NoCollision == Spec => []OneTalker
<1>1. IInv => OneTalker
  <2> SUFFICES ASSUME IInv PROVE OneTalker
    OBVIOUS
  <2> DEFINE T == {n \in Node : outbox[n] # None}
  <2>1. CASE T = {}
    <3>1. Cardinality(T) = 0
      BY <2>1, FS_EmptySet
    <3> QED
      BY <3>1 DEF IInv, OneAnswer, OneTalker
  <2>2. CASE T # {}
    <3>1. PICK n \in Node : outbox[n] # None
      BY <2>2
    <3>2. T = {n}
      BY <3>1 DEF IInv, OneAnswer
    <3>3. Cardinality(T) = 1
      BY <3>2, FS_Singleton
    <3> QED
      BY <3>3 DEF IInv, OneAnswer, OneTalker
  <2> QED
    BY <2>1, <2>2
<1> QED
  BY <1>1, Invariance, PTL
=============================================================================
