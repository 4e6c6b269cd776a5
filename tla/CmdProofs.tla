----------------------------- MODULE CmdProofs -----------------------------
(***************************************************************************)
(* Proofs about Cmd, for every clock, timeout, set of packets and length   *)
(* of a pass of the main loop that CmdAssumption allows.                   *)
(*                                                                         *)
(* The two bounds on time need an invariant that says, for each place the  *)
(* main loop can be at, how long the packet has been under way and how     *)
(* long it has been timed: see ArmedBound and AgeBound.                    *)
(***************************************************************************)
EXTENDS Cmd, TLAPS

\* what the difference of the two times says about how long ago it was set
ClockInv ==
    pkt_waiting => Wrap(systick - pkt_timeout) =
                     IF armed >= PKT_TIMEOUT THEN armed - PKT_TIMEOUT
                                             ELSE armed - PKT_TIMEOUT + TICKS

\* where the main loop can be while a packet is timed, and for how long the
\* packet can have been timed when it is there: it was found not to have
\* expired in the last pass but one (if the last handled a timer) or in the last
ArmedBound ==
    /\ pc # "top" => ~skipped
    /\ pkt_waiting =>
         /\ pc \in {"top", "wait", "reset"}
         /\ armed < PKT_TIMEOUT + MaxLoop + lag
         /\ pc = "top" /\ ~skipped => armed < PKT_TIMEOUT + lag

\* how long a packet can have been under way; before it is timed, since at most
\* the last pass but one
AgeBound ==
    /\ owner \in {"free", "client"} => age = 0
    /\ owner = "parser" /\ ~pkt_waiting =>
         /\ age <= MaxLoop + lag
         /\ pc = "top" /\ ~skipped => age <= lag
    /\ owner = "parser" /\ pkt_waiting => age <= armed + 2 * MaxLoop

\* while the node sends, it has no packet but the one it answers
Quiet ==
    mode = "send" => owner = "free" \/ (owner = "client" /\ pc = "app")

IInv == TypeOK /\ MainContract /\ Quiet /\ ClockInv /\ ArmedBound /\ AgeBound
-----------------------------------------------------------------------------
(* The clock.                                                              *)

\* half the circle, as arithmetic knows it
LEMMA HalfFact == Half \in Nat /\ 2 * Half = TICKS /\ TICKS \in Nat \ {0}
BY TicksAssumption DEF Half

\* one tick moves the distance of two times by one, around the circle
LEMMA WrapTick ==
    ASSUME NEW a \in Time, NEW b \in Time
    PROVE  Wrap(Wrap(a + 1) - b) = Wrap(Wrap(a - b) + 1)
BY HalfFact DEF Time, Wrap

\* a timer of d ticks lies d ticks ahead
LEMMA WrapSet ==
    ASSUME NEW a \in Time, NEW d \in 1 .. TICKS - 1
    PROVE  TmrSet(a, d) \in Time /\ Wrap(a - TmrSet(a, d)) = TICKS - d
BY HalfFact DEF Time, Wrap, TmrSet

\* The half of the circle behind the present holds the times that have passed,
\* if the timer is looked at soon enough.
LEMMA ExpiredExact ==
    ASSUME TypeOK, ClockInv, pkt_waiting, armed < PKT_TIMEOUT + 2 * MaxLoop
    PROVE  TmrExpired(systick, pkt_timeout) <=> armed >= PKT_TIMEOUT
<1>1. armed \in Nat /\ PKT_TIMEOUT \in Nat \ {0} /\ MaxLoop \in Nat \ {0}
      /\ PKT_TIMEOUT + 2 * MaxLoop < Half
  BY CmdAssumption DEF TypeOK
<1>2. Wrap(systick - pkt_timeout) =
        IF armed >= PKT_TIMEOUT THEN armed - PKT_TIMEOUT
                                ELSE armed - PKT_TIMEOUT + TICKS
  BY DEF ClockInv
<1>3. Half \in Nat /\ 2 * Half = TICKS
  BY HalfFact
<1> HIDE DEF Half
<1> QED
  BY <1>1, <1>2, <1>3 DEF TmrExpired

\* The invariant keeps every look at the timer soon enough.
LEMMA LooksInTime ==
    ASSUME TypeOK, ArmedBound, pkt_waiting
    PROVE  armed < PKT_TIMEOUT + 2 * MaxLoop
<1>1. armed \in Nat /\ lag \in 0 .. MaxLoop
      /\ PKT_TIMEOUT \in Nat \ {0} /\ MaxLoop \in Nat \ {0}
  BY CmdAssumption DEF TypeOK
<1> QED
  BY <1>1 DEF ArmedBound

-----------------------------------------------------------------------------
(* The initial states.                                                     *)

LEMMA InitIInv == Init => IInv
<1> SUFFICES ASSUME Init PROVE IInv
  OBVIOUS
<1>1. 0 \in Time /\ 0 \in 0 .. MaxLoop /\ 0 \in 0 .. Cap
  BY HalfFact, CmdAssumption DEF Time
<1>2. TypeOK
  BY <1>1 DEF Init, TypeOK, BufInit, BufTypeOK, Owners, Steps
<1>3. MainContract /\ Quiet /\ ClockInv /\ ArmedBound
  BY DEF Init, BufInit, MainContract, Quiet, ClockInv, ArmedBound
<1>4. AgeBound
  BY DEF Init, BufInit, AgeBound
<1> QED
  BY <1>2, <1>3, <1>4 DEF IInv

-----------------------------------------------------------------------------
(* Types.                                                                  *)

\* a history variable counts within its bound
LEMMA CountInCap == ASSUME NEW n \in 0 .. Cap PROVE Count(n) \in 0 .. Cap
BY CmdAssumption DEF Count

\* the actions of the receive buffer
LEMMA BufTyped ==
    ASSUME BufTypeOK, Claim \/ Fill \/ Complete \/ Take \/ Release \/ Discard
    PROVE  BufTypeOK'
BY DEF BufTypeOK, Owners, Claim, Fill, Complete, Take, Release, Discard

LEMMA TypePreserved == TypeOK /\ [Next]_vars => TypeOK'
<1> SUFFICES ASSUME TypeOK, [Next]_vars PROVE TypeOK'
  OBVIOUS
<1>0. 0 \in Time /\ 0 \in 0 .. MaxLoop /\ 0 \in 0 .. Cap
  BY HalfFact, CmdAssumption DEF Time
<1> USE DEF TypeOK, bufVars, timing, loop, history, Steps
<1>1. CASE RxByte
  <2>1. BufTypeOK'
    BY <1>1, BufTyped DEF RxByte
  <2> QED
    BY <1>0, <1>1, <2>1 DEF RxByte
<1>2. CASE Sent
  BY <1>2 DEF Sent, BufTypeOK
<1>3. CASE Tick
  <2>1. systick' \in Time
    BY <1>3, HalfFact DEF Tick, Wrap, Time
  <2>2. lag' \in 0 .. MaxLoop
    BY <1>3, CmdAssumption DEF Tick
  <2>3. age' \in 0 .. Cap /\ armed' \in 0 .. Cap
    BY <1>0, <1>3, CountInCap DEF Tick
  <2> QED
    BY <1>3, <2>1, <2>2, <2>3 DEF Tick, BufTypeOK
<1>4. CASE SkipCmd
  BY <1>0, <1>4 DEF SkipCmd, NextPass, BufTypeOK
<1>5. CASE PktReady
  BY <1>0, <1>5, BufTyped DEF PktReady, BufTypeOK
<1>6. CASE Answer
  <2>1. data \in Packets
    BY CmdAssumption DEF BufTypeOK
  <2>2. data.addr \in Addrs /\ 0 \in Addrs
    BY <2>1, CmdAssumption DEF Packets
  <2>3. NodeidsAfter(data) \subseteq Addrs
    BY <2>2 DEF NodeidsAfter
  <2> QED
    BY <1>6, <2>3 DEF Answer, GoTo, BufTypeOK
<1>7. CASE OthersDFU
  BY <1>7 DEF OthersDFU, GoTo, BufTypeOK
<1>8. CASE Reboot
  BY <1>0, <1>8 DEF Reboot, NextPass, BufTypeOK, Owners
<1>9. CASE Ignore
  BY <1>9, BufTyped DEF Ignore, GoTo
<1>10. CASE AppDone
  BY <1>0, <1>10, BufTyped DEF AppDone, NextPass
<1>11. CASE CheckTimeout
  BY <1>0, <1>11 DEF CheckTimeout, GoTo, NextPass, BufTypeOK
<1>12. CASE ResetPkt
  BY <1>0, <1>12, BufTyped DEF ResetPkt, NextPass
<1>13. CASE ArmTimeout
  <2>1. PKT_TIMEOUT \in 1 .. TICKS - 1
    BY CmdAssumption, HalfFact
  <2>2. pkt_timeout' \in Time
    BY <1>13, <2>1, WrapSet DEF ArmTimeout
  <2> QED
    BY <1>0, <1>13, <2>2 DEF ArmTimeout, NextPass, BufTypeOK
<1>14. CASE UNCHANGED vars
  BY <1>14 DEF vars, BufTypeOK
<1> QED
  BY <1>1, <1>2, <1>3, <1>4, <1>5, <1>6, <1>7, <1>8, <1>9, <1>10, <1>11, <1>12,
     <1>13, <1>14 DEF Next, Main
-----------------------------------------------------------------------------
(* Who holds the packet, and the line.                                     *)

\* an interrupt takes no packet from the main loop and gives it none
LEMMA ContractPreserved == TypeOK /\ MainContract /\ [Next]_vars => MainContract'
<1> SUFFICES ASSUME TypeOK, MainContract, [Next]_vars PROVE MainContract'
  OBVIOUS
<1> USE DEF MainContract, loop, bufVars
<1>1. CASE RxByte
  BY <1>1 DEF RxByte, Claim, Fill, Complete
<1>2. CASE Sent \/ Tick
  BY <1>2 DEF Sent, Tick
<1>3. CASE SkipCmd
  BY <1>3 DEF SkipCmd, NextPass
<1>4. CASE PktReady
  BY <1>4 DEF PktReady, Take
<1>5. CASE Answer \/ OthersDFU
  BY <1>5 DEF Answer, OthersDFU, GoTo
<1>6. CASE Reboot
  BY <1>6 DEF Reboot, NextPass
<1>7. CASE Ignore \/ AppDone
  BY <1>7 DEF Ignore, AppDone, GoTo, NextPass, Release
<1>8. CASE CheckTimeout
  BY <1>8 DEF CheckTimeout, GoTo, NextPass
<1>9. CASE ResetPkt
  BY <1>9 DEF ResetPkt, Discard, NextPass
<1>10. CASE ArmTimeout
  BY <1>10 DEF ArmTimeout, NextPass
<1>11. CASE UNCHANGED vars
  BY <1>11 DEF vars
<1> QED
  BY <1>1, <1>2, <1>3, <1>4, <1>5, <1>6, <1>7, <1>8, <1>9, <1>10, <1>11
     DEF Next, Main

\* sending starts from a packet the main loop holds, and no other can come in
LEMMA QuietPreserved ==
    TypeOK /\ MainContract /\ Quiet /\ [Next]_vars => Quiet'
<1> SUFFICES ASSUME TypeOK, MainContract, Quiet, [Next]_vars PROVE Quiet'
  OBVIOUS
<1> USE DEF Quiet, loop, bufVars
<1>1. CASE RxByte
  BY <1>1 DEF RxByte
<1>2. CASE Sent \/ Tick
  BY <1>2 DEF Sent, Tick
<1>3. CASE SkipCmd
  BY <1>3 DEF SkipCmd
<1>4. CASE PktReady
  BY <1>4 DEF PktReady, Take
<1>5. CASE Answer \/ OthersDFU
  BY <1>5 DEF Answer, OthersDFU, GoTo, MainContract
<1>6. CASE Reboot
  BY <1>6 DEF Reboot
<1>7. CASE Ignore \/ AppDone
  BY <1>7 DEF Ignore, AppDone, Release
<1>8. CASE CheckTimeout
  BY <1>8 DEF CheckTimeout
<1>9. CASE ResetPkt
  BY <1>9 DEF ResetPkt, Discard
<1>10. CASE ArmTimeout
  BY <1>10 DEF ArmTimeout
<1>11. CASE UNCHANGED vars
  BY <1>11 DEF vars
<1> QED
  BY <1>1, <1>2, <1>3, <1>4, <1>5, <1>6, <1>7, <1>8, <1>9, <1>10, <1>11
     DEF Next, Main

-----------------------------------------------------------------------------
(* The timeout.                                                            *)

\* only ArmTimeout starts the timing, and only time changes it after that
LEMMA ClockPreserved ==
    TypeOK /\ ClockInv /\ ArmedBound /\ [Next]_vars => ClockInv'
<1> SUFFICES ASSUME TypeOK, ClockInv, ArmedBound, [Next]_vars PROVE ClockInv'
  OBVIOUS
<1>0. systick \in Time /\ pkt_timeout \in Time /\ armed \in Nat
      /\ pkt_waiting \in BOOLEAN
  BY CmdAssumption DEF TypeOK
<1>1. CASE Tick /\ pkt_waiting
  <2>1. /\ systick' = Wrap(systick + 1) /\ armed' = Count(armed)
        /\ UNCHANGED <<pkt_waiting, pkt_timeout>>
    BY <1>1 DEF Tick, timing
  <2>2. armed < PKT_TIMEOUT + 2 * MaxLoop
    BY <1>1, LooksInTime
  <2>3. /\ PKT_TIMEOUT \in Nat \ {0} /\ MaxLoop \in Nat \ {0} /\ Cap \in Nat
        /\ PKT_TIMEOUT + 2 * MaxLoop < Half /\ Cap >= PKT_TIMEOUT + 4 * MaxLoop
        /\ Half \in Nat /\ 2 * Half = TICKS
    BY CmdAssumption, HalfFact
  <2> HIDE DEF Half
  <2>4. armed' = armed + 1
    BY <1>0, <2>1, <2>2, <2>3 DEF Count
  <2>5. Wrap(systick' - pkt_timeout) = Wrap(Wrap(systick - pkt_timeout) + 1)
    BY <1>0, <2>1, WrapTick
  <2>6. Wrap(systick - pkt_timeout) =
          IF armed >= PKT_TIMEOUT THEN armed - PKT_TIMEOUT
                                  ELSE armed - PKT_TIMEOUT + TICKS
    BY <1>1 DEF ClockInv
  <2>7. Wrap(Wrap(systick - pkt_timeout) + 1) =
          IF armed + 1 >= PKT_TIMEOUT THEN armed + 1 - PKT_TIMEOUT
                                      ELSE armed + 1 - PKT_TIMEOUT + TICKS
    BY <1>0, <2>2, <2>3, <2>6 DEF Wrap
  <2>8. pkt_timeout' = pkt_timeout
    BY <2>1
  <2>9. Wrap(systick' - pkt_timeout') = Wrap(Wrap(systick - pkt_timeout) + 1)
    BY <2>5, <2>8
  <2>10. Wrap(systick' - pkt_timeout') =
           IF armed' >= PKT_TIMEOUT THEN armed' - PKT_TIMEOUT
                                    ELSE armed' - PKT_TIMEOUT + TICKS
    BY <1>0, <2>3, <2>4, <2>7, <2>9
  <2> QED
    BY <2>10 DEF ClockInv
<1>2. CASE ArmTimeout
  <2>1. PKT_TIMEOUT \in 1 .. TICKS - 1
    BY CmdAssumption, HalfFact
  <2>2. pkt_timeout' = TmrSet(systick, PKT_TIMEOUT) /\ armed' = 0
        /\ systick' = systick
    BY <1>2 DEF ArmTimeout
  <2>3. Wrap(systick' - pkt_timeout') = TICKS - PKT_TIMEOUT
    BY <1>0, <2>1, <2>2, WrapSet
  <2>4. PKT_TIMEOUT \in Nat \ {0} /\ TICKS \in Nat
    BY CmdAssumption, HalfFact
  <2> QED
    BY <2>2, <2>3, <2>4 DEF ClockInv
<1>3. CASE UNCHANGED <<pkt_waiting, pkt_timeout, systick, armed>>
  BY <1>3 DEF ClockInv
<1>4. CASE ~pkt_waiting'
  BY <1>4 DEF ClockInv
<1>5. \/ Tick /\ pkt_waiting
      \/ ArmTimeout
      \/ UNCHANGED <<pkt_waiting, pkt_timeout, systick, armed>>
      \/ ~pkt_waiting'
  <2>1. CASE RxByte \/ Sent \/ SkipCmd
    BY <2>1 DEF RxByte, Sent, SkipCmd, timing, history
  <2>2. CASE Tick
    BY <2>2, <1>0 DEF Tick, timing
  <2>3. CASE PktReady
    BY <2>3 DEF PktReady, timing, history
  <2>4. CASE Answer \/ OthersDFU \/ Ignore \/ AppDone \/ CheckTimeout
    BY <2>4 DEF Answer, OthersDFU, Ignore, AppDone, CheckTimeout, timing, history
  <2>5. CASE Reboot \/ ResetPkt
    BY <2>5 DEF Reboot, ResetPkt
  <2>6. CASE UNCHANGED vars
    BY <2>6 DEF vars, timing, history
  <2> QED
    BY <2>1, <2>2, <2>3, <2>4, <2>5, <2>6 DEF Next, Main
<1> QED
  BY <1>1, <1>2, <1>3, <1>4, <1>5

\* the numbers of the two bounds
LEMMA Numbers ==
    ASSUME TypeOK
    PROVE  /\ lag \in Nat /\ lag <= MaxLoop /\ armed \in Nat /\ age \in Nat
           /\ PKT_TIMEOUT \in Nat \ {0} /\ MaxLoop \in Nat \ {0} /\ Cap \in Nat
           /\ Cap >= PKT_TIMEOUT + 4 * MaxLoop
BY CmdAssumption DEF TypeOK

\* A packet that is timed is looked at in at least every other pass of the main
\* loop, and that look ends the timing if the time is up.
LEMMA ArmedPreserved ==
    TypeOK /\ MainContract /\ ClockInv /\ ArmedBound /\ [Next]_vars => ArmedBound'
<1> SUFFICES ASSUME TypeOK, MainContract, ClockInv, ArmedBound, [Next]_vars
             PROVE  ArmedBound'
  OBVIOUS
<1> USE DEF loop, timing, history
<1>1. CASE RxByte \/ Sent
  BY <1>1 DEF RxByte, Sent, ArmedBound
<1>2. CASE Tick
  <2>1. lag' = lag + 1 /\ UNCHANGED <<pc, skipped, pkt_waiting>>
    BY <1>2 DEF Tick, timing
  <2>2. pkt_waiting => armed' <= armed + 1 /\ armed' \in Nat
    BY <1>2, Numbers DEF Tick, Count
  <2> QED
    BY <2>1, <2>2, Numbers DEF ArmedBound
<1>3. CASE SkipCmd
  BY <1>3, Numbers DEF SkipCmd, NextPass, ArmedBound
<1>4. CASE PktReady
  BY <1>4, Numbers DEF PktReady, ArmedBound
<1>5. CASE Answer \/ OthersDFU \/ Ignore
  BY <1>5 DEF Answer, OthersDFU, Ignore, GoTo, ArmedBound
<1>6. CASE Reboot \/ ResetPkt
  BY <1>6 DEF Reboot, ResetPkt, NextPass, ArmedBound
<1>7. CASE AppDone
  BY <1>7 DEF AppDone, NextPass, ArmedBound
<1>8. CASE CheckTimeout
  <2>1. ~skipped /\ pc = "wait" /\ UNCHANGED <<pkt_waiting, armed, skipped>>
    BY <1>8 DEF CheckTimeout, GoTo, NextPass, ArmedBound
  <2>2. CASE ~pkt_waiting
    BY <1>8, <2>1, <2>2 DEF ArmedBound, CheckTimeout, GoTo, NextPass
  <2>3. CASE pkt_waiting /\ TmrExpired(systick, pkt_timeout)
    BY <1>8, <2>1, <2>3 DEF ArmedBound, CheckTimeout, GoTo, NextPass
  <2>4. CASE pkt_waiting /\ ~TmrExpired(systick, pkt_timeout)
    <3>1. armed < PKT_TIMEOUT
      BY <2>4, ExpiredExact, LooksInTime, Numbers
    <3>2. pc' = "top" /\ lag' = 0
      BY <1>8, <2>4 DEF CheckTimeout, GoTo, NextPass
    <3> QED
      BY <2>1, <3>1, <3>2, Numbers DEF ArmedBound
  <2> QED
    BY <2>2, <2>3, <2>4
<1>9. CASE ArmTimeout
  BY <1>9, Numbers DEF ArmTimeout, NextPass, ArmedBound
<1>10. CASE UNCHANGED vars
  BY <1>10 DEF vars, ArmedBound
<1> QED
  BY <1>1, <1>2, <1>3, <1>4, <1>5, <1>6, <1>7, <1>8, <1>9, <1>10 DEF Next, Main

\* A packet is noticed by the first look of cmd_process() after its sync byte,
\* and timed from then on.
LEMMA AgePreserved ==
    TypeOK /\ MainContract /\ ArmedBound /\ AgeBound /\ [Next]_vars => AgeBound'
<1> SUFFICES ASSUME TypeOK, MainContract, ArmedBound, AgeBound, [Next]_vars
             PROVE  AgeBound'
  OBVIOUS
<1> USE DEF loop, timing, history, bufVars
<1>1. CASE RxByte
  <2>1. UNCHANGED <<pkt_waiting, armed, pc, skipped, lag>>
    BY <1>1 DEF RxByte
  <2>2. age' = IF owner' \in {"parser", "mailbox"} THEN age ELSE 0
    BY <1>1 DEF RxByte
  <2>3. CASE owner = "free"
    <3>1. age = 0 /\ age' = 0
      BY <2>2, <2>3 DEF AgeBound
    <3> QED
      BY <2>1, <3>1, Numbers DEF AgeBound
  <2>4. CASE owner = "parser"
    <3>1. owner' \in {"parser", "mailbox", "free"}
      BY <1>1, <2>4 DEF RxByte, Claim, Fill, Complete
    <3>2. owner' = "parser" => age' = age
      BY <2>2
    <3>3. owner' \in {"free", "client"} => age' = 0
      BY <2>2
    <3> QED
      BY <2>1, <2>4, <3>2, <3>3 DEF AgeBound
  <2> QED
    BY <1>1, <2>3, <2>4 DEF RxByte, Claim, Fill, Complete
<1>2. CASE Sent
  BY <1>2 DEF Sent, AgeBound
<1>3. CASE Tick
  <2>1. lag' = lag + 1 /\ UNCHANGED <<pc, skipped, pkt_waiting, owner>>
    BY <1>3 DEF Tick
  <2>2. owner = "parser" => age' <= age + 1 /\ age' \in Nat
    BY <1>3, Numbers DEF Tick, Count
  <2>3. owner \in {"free", "client"} => age' = 0
    BY <1>3 DEF Tick
  <2>4. CASE owner # "parser"
    BY <2>1, <2>3, <2>4 DEF AgeBound
  <2>5. CASE owner = "parser" /\ ~pkt_waiting
    BY <2>1, <2>2, <2>5, Numbers DEF AgeBound
  <2>6. CASE owner = "parser" /\ pkt_waiting
    <3>1. age <= armed + 2 * MaxLoop /\ armed < PKT_TIMEOUT + 2 * MaxLoop
      BY <2>6, LooksInTime DEF AgeBound
    <3>2. armed' = Count(armed)
      BY <1>3, <2>6 DEF Tick
    <3>3. armed' = armed + 1
      BY <3>1, <3>2, Numbers DEF Count
    <3> QED
      BY <2>1, <2>2, <2>6, <3>1, <3>3, Numbers DEF AgeBound
  <2> QED
    BY <2>4, <2>5, <2>6 DEF TypeOK
<1>4. CASE SkipCmd
  BY <1>4, Numbers DEF SkipCmd, NextPass, AgeBound
<1>5. CASE PktReady
  <2>1. CASE owner = "mailbox"
    BY <1>5, <2>1 DEF PktReady, Take, AgeBound
  <2>2. CASE owner # "mailbox"
    <3>1. pc = "top" /\ pc' = "wait" /\ skipped' = FALSE
          /\ UNCHANGED <<owner, pkt_waiting, armed, age, lag>>
      BY <1>5, <2>2 DEF PktReady
    <3> QED
      BY <3>1, Numbers DEF AgeBound
  <2> QED
    BY <2>1, <2>2
<1>6. CASE Answer \/ OthersDFU
  BY <1>6 DEF Answer, OthersDFU, GoTo, AgeBound, MainContract
<1>7. CASE Reboot
  BY <1>7 DEF Reboot, AgeBound
<1>8. CASE Ignore \/ AppDone
  BY <1>8 DEF Ignore, AppDone, Release, AgeBound
<1>9. CASE ResetPkt
  BY <1>9 DEF ResetPkt, Discard, AgeBound
<1>10. CASE CheckTimeout
  <2>1. UNCHANGED <<owner, pkt_waiting, armed, age>> /\ pc = "wait"
    BY <1>10 DEF CheckTimeout
  <2>2. CASE owner = "parser" /\ ~pkt_waiting
    BY <1>10, <2>1, <2>2 DEF CheckTimeout, GoTo, AgeBound
  <2>3. CASE owner # "parser" \/ pkt_waiting
    BY <2>1, <2>3 DEF AgeBound
  <2> QED
    BY <2>2, <2>3
<1>11. CASE ArmTimeout
  <2>1. /\ pc = "arm" /\ pkt_waiting' = TRUE /\ armed' = 0
        /\ UNCHANGED <<owner, age>>
    BY <1>11 DEF ArmTimeout
  <2>2. ~pkt_waiting
    BY <2>1 DEF ArmedBound
  <2>3. owner = "parser" => age' <= armed' + 2 * MaxLoop
    BY <2>1, <2>2, Numbers DEF AgeBound
  <2> QED
    BY <2>1, <2>3 DEF AgeBound
<1>12. CASE UNCHANGED vars
  BY <1>12 DEF vars, AgeBound
<1> QED
  BY <1>1, <1>2, <1>3, <1>4, <1>5, <1>6, <1>7, <1>8, <1>9, <1>10, <1>11, <1>12
     DEF Next, Main

-----------------------------------------------------------------------------
(* The theorems.                                                           *)

\* Every reachable state satisfies the inductive invariant.
THEOREM Invariance == Spec => []IInv
<1>1. Init => IInv
  BY InitIInv
<1>2. IInv /\ [Next]_vars => IInv'
  BY TypePreserved, ContractPreserved, QuietPreserved, ClockPreserved,
     ArmedPreserved, AgePreserved DEF IInv
<1> QED
  BY <1>1, <1>2, PTL DEF Spec

\* The variables stay in their types; in particular the times stay in 16 bits
\* and no pass of the main loop outlasts MaxLoop.
THEOREM TypeCorrect == Spec => []TypeOK
<1>1. IInv => TypeOK
  BY DEF IInv
<1> QED
  BY <1>1, Invariance, PTL

\* The main loop uses and frees the packet exactly while it holds it, whatever
\* the interrupts do (cmd.c:234-373, main.c:476-491).
THEOREM ClientKeepsContract == Spec => []MainContract
<1>1. IInv => MainContract
  BY DEF IInv
<1> QED
  BY <1>1, Invariance, PTL

\* pkt_send() needs no lock: there is never a command to answer while a reply
\* is still going out (pkt.c:164-171).
THEOREM OneReplyAtATime == Spec => []NoReplyWhileSending
<1>1. IInv => NoReplyWhileSending
  <2> SUFFICES ASSUME IInv, pc = "dispatch" PROVE mode = "listen"
    BY DEF NoReplyWhileSending
  <2>1. owner = "client" /\ mode # "send"
    BY DEF IInv, MainContract, Quiet
  <2> QED
    BY <2>1 DEF IInv, TypeOK
<1> QED
  BY <1>1, Invariance, PTL

\* tmr_expired() is exact for the packet timeout, around the wrap of the 16-bit
\* tick counter and however the passes of the main loop fall.
THEOREM TimeoutIsExact == Spec => []TimeoutExact
<1>1. IInv => TimeoutExact
  BY ExpiredExact, LooksInTime DEF IInv, TimeoutExact
<1> QED
  BY <1>1, Invariance, PTL

\* A packet that stops half way holds the buffer for less than the timeout and
\* four passes of the main loop.
THEOREM StuckPacketIsDropped == Spec => []StuckPacketBounded
<1>1. IInv => StuckPacketBounded
  <2> SUFFICES ASSUME IInv, owner = "parser"
               PROVE  age < PKT_TIMEOUT + 4 * MaxLoop
    BY DEF StuckPacketBounded
  <2>1. TypeOK /\ ArmedBound /\ AgeBound
    BY DEF IInv
  <2>2. CASE pkt_waiting
    <3>1. age <= armed + 2 * MaxLoop /\ armed < PKT_TIMEOUT + 2 * MaxLoop
      BY <2>1, <2>2, LooksInTime DEF AgeBound
    <3> QED
      BY <2>1, <3>1, Numbers
  <2>3. CASE ~pkt_waiting
    BY <2>1, <2>3, Numbers DEF AgeBound
  <2> QED
    BY <2>2, <2>3
<1> QED
  BY <1>1, Invariance, PTL
=============================================================================
