----------------------------- MODULE AppProofs -----------------------------
(***************************************************************************)
(* Proofs about the shunt, and about the application on top of it, for     *)
(* every number of duty steps, all times that fit half a turn of the       *)
(* clock, and all parameters and readings of the widths that the code      *)
(* gives them.                                                             *)
(***************************************************************************)
EXTENDS App, TLAPS

(***************************************************************************)
(* The shunt by itself (Shunt).                                            *)
(***************************************************************************)

\* the timer that drives the pin is off with the status
TimerOff == shunt_status = "OFF" => ~timer

\* While the shunt is on, its two timers are where time has put them.  The last
\* conjunct is the crux of UnattendedEnds: a control pass that goes on has found
\* the idle timeout still ahead, and the next one is a period later.
Timing ==
    shunt_status # "OFF" =>
        /\ loop_timeout \in -MaxLate .. SHUNT_LOOP_TIME
        /\ shunt_timeout = SHUNT_IDLE_TIME - quiet
        /\ quiet + loop_timeout <= SHUNT_IDLE_TIME + SHUNT_LOOP_TIME

Resting == shunt_status = "OFF" => shunt_timeout = 0 /\ loop_timeout = 0 /\ quiet = 0

\* what also holds when test functions drive the pin
ShuntInv == TypeOK /\ TimerOff /\ Timing /\ Resting

PinOff == shunt_status = "OFF" => ~override

IInv == ShuntInv /\ PinOff

-----------------------------------------------------------------------------
(* Arithmetic.                                                             *)

LEMMA Bounds ==
    /\ PWM_STEPS \in Nat /\ 2 <= PWM_STEPS /\ PWM_STEPS <= 256 /\ SHUNT_LOOP_TIME \in Nat \ {0}
    /\ SHUNT_IDLE_TIME \in Nat \ {0} /\ MaxLate \in Nat /\ Half \in Nat
    /\ SHUNT_IDLE_TIME < Half /\ SHUNT_LOOP_TIME + MaxLate < Half
BY ShuntAssumption

LEMMA ParmsFact ==
    ASSUME parms \in Parms
    PROVE  /\ parms.shuntmin \in Uint16 /\ parms.shuntmax \in Uint16
           /\ parms.templo \in Int8 /\ parms.temphi \in Int8
BY ShuntAssumption

LEMMA Uint16Nat == ASSUME NEW x \in Uint16 PROVE x \in Nat /\ x <= UINT16_MAX
BY DEF Uint16

LEMMA U16Type == ASSUME NEW x \in Int PROVE U16(x) \in Uint16
BY DEF U16, Uint16, UINT16_MAX

LEMMA DivNat == ASSUME NEW a \in Nat, NEW b \in Nat \ {0} PROVE a \div b \in Nat
OBVIOUS

\* a time that is not near the end of its range moves down by one
LEMMA DownOne ==
    ASSUME NEW left \in Int, left # 1 - Half
    PROVE  Down(left) = left - 1
BY DEF Down

\* a control pass never aims beyond the full duty cycle
LEMMA LevelRange ==
    ASSUME parms \in Parms, vrange \in Uint16, NEW mv \in Voltages,
           NEW level \in ByVoltage(mv)
    PROVE  level \in 0 .. Full
<1>1. mv \in Nat
  BY ShuntAssumption, Uint16Nat
<1>2. parms.shuntmin \in Nat /\ parms.shuntmax \in Nat
  BY ParmsFact, Uint16Nat
<1>3. 0 \in 0 .. Full /\ Full \in 0 .. Full /\ Full \in Int
  BY Bounds DEF Full
<1>4. CASE mv <= parms.shuntmin \/ mv >= parms.shuntmax
  BY <1>3, <1>4 DEF ByVoltage
<1>5. CASE ~(mv <= parms.shuntmin) /\ ~(mv >= parms.shuntmax)
  <2> DEFINE x == (mv - parms.shuntmin) * PWM_STEPS
  <2>1. PICK q \in Quotient(x, vrange) : level = IF q > Full THEN Full ELSE q
    BY <1>5 DEF ByVoltage
  <2>2. mv - parms.shuntmin \in Nat /\ PWM_STEPS \in Nat
    BY <1>1, <1>2, <1>5, Bounds
  <2>3. x \in Nat
    BY <2>2
  <2> HIDE DEF x
  <2>4. q \in Nat
    <3>1. CASE vrange = 0
      BY <2>1, <3>1, Uint16Nat DEF Quotient
    <3>2. CASE vrange # 0
      <4>1. vrange \in Nat \ {0}
        BY <3>2, Uint16Nat
      <4>2. x \div vrange \in Nat
        BY <2>3, <4>1, DivNat
      <4> QED
        BY <2>1, <3>2, <4>2 DEF Quotient
    <3> QED
      BY <3>1, <3>2
  <2> QED
    BY <2>1, <2>4, <1>3
<1> QED
  BY <1>4, <1>5

LEMMA LimitNat ==
    ASSUME parms \in Parms, trange \in Uint16, NEW temp \in Temps,
           NEW limit \in ByTemp(temp)
    PROVE  limit \in Nat
<1>1. temp \in Int
  BY ShuntAssumption DEF Int16
<1>2. parms.temphi \in Int /\ PWM_STEPS \in Int
  BY ParmsFact, Bounds DEF Int8
<1>3. Full \in Nat
  BY Bounds DEF Full
<1>4. CASE U16(temp) >= U16(parms.temphi) \/ U16(temp) <= U16(parms.templo)
  BY <1>3, <1>4 DEF ByTemp
<1>5. CASE ~(U16(temp) >= U16(parms.temphi)) /\ ~(U16(temp) <= U16(parms.templo))
  <2> DEFINE x == U16((parms.temphi - temp) * PWM_STEPS)
  <2>1. (parms.temphi - temp) * PWM_STEPS \in Int
    BY <1>1, <1>2
  <2>2. x \in Nat
    BY <2>1, U16Type, Uint16Nat
  <2>3. limit \in Quotient(x, trange)
    BY <1>5 DEF ByTemp
  <2> HIDE DEF x
  <2>4. CASE trange = 0
    BY <2>3, <2>4, Uint16Nat DEF Quotient
  <2>5. CASE trange # 0
    <3>1. trange \in Nat \ {0}
      BY <2>5, Uint16Nat
    <3>2. x \div trange \in Nat
      BY <2>2, <3>1, DivNat
    <3> QED
      BY <2>3, <2>5, <3>2 DEF Quotient
  <2> QED
    BY <2>4, <2>5
<1> QED
  BY <1>4, <1>5

LEMMA TargetType ==
    ASSUME TypeOK, NEW mv \in Voltages, NEW temp \in Temps, NEW t \in Targets(mv, temp)
    PROVE  t.pwm \in 0 .. Full /\ t.status \in {"IDLE", "ON", "LIMIT"}
<1>1. PICK level \in ByVoltage(mv), limit \in ByTemp(temp) :
        t = [pwm    |-> IF limit < level THEN limit ELSE level,
             status |-> IF level = 0 /\ mv <= parms.shuntmin THEN "IDLE"
                        ELSE IF limit < level THEN "LIMIT" ELSE "ON"]
  BY DEF Targets
<1>2. level \in 0 .. Full
  BY LevelRange DEF TypeOK
<1>3. limit \in Nat
  BY LimitNat DEF TypeOK
<1>4. Full \in Nat
  BY Bounds DEF Full
<1>5. t.pwm = IF limit < level THEN limit ELSE level
  BY <1>1
<1>6. t.status \in {"IDLE", "ON", "LIMIT"}
  BY <1>1
<1> QED
  BY <1>2, <1>3, <1>4, <1>5, <1>6

LEMMA DivAtLeast ==
    ASSUME NEW a \in Int, NEW b \in Nat \ {0}, NEW k \in Int, a >= k * b
    PROVE  a \div b >= k
<1> DEFINE q == a \div b
<1>1. q \in Int /\ b * q <= a /\ a < b * q + b
  OBVIOUS
<1> HIDE DEF q
<1>2. b * (k - q) < b
  <2>1. k * b = b * k /\ b * (k - q) = b * k - b * q
    BY <1>1
  <2> QED
    BY <1>1, <2>1
<1>3. k - q < 1
  <2> SUFFICES ASSUME k - q >= 1 PROVE FALSE
    BY <1>1
  <2>1. b * (k - q) >= b
    BY <1>1
  <2> QED
    BY <1>1, <1>2, <2>1
<1>4. q >= k
  BY <1>1, <1>3
<1> QED
  BY <1>4 DEF q

LEMMA DivBelow ==
    ASSUME NEW a \in Int, NEW b \in Nat \ {0}, NEW k \in Int, a < k * b
    PROVE  a \div b < k
<1> DEFINE q == a \div b
<1>1. q \in Int /\ b * q <= a /\ a < b * q + b
  OBVIOUS
<1> HIDE DEF q
<1>2. b * (q - k) < 0
  <2>1. k * b = b * k /\ b * (q - k) = b * q - b * k
    BY <1>1
  <2> QED
    BY <1>1, <2>1
<1>3. q - k < 0
  <2> SUFFICES ASSUME q - k >= 0 PROVE FALSE
    BY <1>1
  <2>1. b * (q - k) >= 0
    BY <1>1
  <2> QED
    BY <1>1, <1>2, <2>1
<1>4. q < k
  BY <1>1, <1>3
<1> QED
  BY <1>4 DEF q

LEMMA ClampFacts ==
    /\ \A x \in Int : x < 1 => Clamp(x) = 0
    /\ \A x \in Int : x >= PWM_STEPS => Clamp(x) = Full
    /\ \A x \in Nat : Clamp(x) = IF x > Full THEN Full ELSE x
    /\ \A x \in Nat : x < PWM_STEPS => Clamp(x) = x
BY Bounds DEF Clamp, Full

\* the voltage's share is the documented curve
LEMMA VoltageExact ==
    ASSUME parms \in Parms, Sane, NEW mv \in Voltages, VoltageSettled(mv),
           NEW level \in ByVoltage(mv)
    PROVE  level = VoltageCurve(mv)
<1>1. mv \in Nat
  BY ShuntAssumption, Uint16Nat
<1>2. parms.shuntmin \in Nat /\ parms.shuntmax \in Nat
  BY ParmsFact, Uint16Nat
<1>3. PWM_STEPS \in Nat
  BY Bounds
<1> DEFINE d == parms.shuntmax - parms.shuntmin
           u == mv - parms.shuntmin
<1>4. d \in Nat \ {0} /\ u \in Int /\ u * PWM_STEPS \in Int
  BY <1>1, <1>2, <1>3 DEF Sane
<1>5. VoltageCurve(mv) = Clamp((u * PWM_STEPS) \div d)
  BY DEF VoltageCurve
<1>6. (u * PWM_STEPS) \div d \in Int
  <2> HIDE DEF u, d
  <2> QED
    BY <1>4
<1>7. CASE mv <= parms.shuntmin
  <2>1. level = 0
    BY <1>7 DEF ByVoltage
  <2>2. u <= 0
    BY <1>1, <1>2, <1>7
  <2> HIDE DEF u, d
  <2>3. u * PWM_STEPS < 1 * d
    BY <1>3, <1>4, <2>2
  <2>4. (u * PWM_STEPS) \div d < 1
    BY <1>4, <2>3, DivBelow
  <2> QED
    BY <1>5, <1>6, <2>1, <2>4, ClampFacts
<1>8. CASE ~(mv <= parms.shuntmin) /\ mv >= parms.shuntmax
  <2>1. level = Full
    BY <1>8 DEF ByVoltage
  <2>2. u >= d
    BY <1>1, <1>2, <1>8
  <2> HIDE DEF u, d
  <2>3. u * PWM_STEPS >= PWM_STEPS * d
    BY <1>3, <1>4, <2>2
  <2>4. (u * PWM_STEPS) \div d >= PWM_STEPS
    BY <1>3, <1>4, <2>3, DivAtLeast
  <2> QED
    BY <1>5, <1>6, <2>1, <2>4, ClampFacts
<1>9. CASE ~(mv <= parms.shuntmin) /\ ~(mv >= parms.shuntmax)
  <2>1. PICK q \in Quotient(u * PWM_STEPS, vrange) : level = IF q > Full THEN Full ELSE q
    BY <1>9 DEF ByVoltage
  <2>2. u \in Nat
    BY <1>1, <1>2, <1>9
  <2>5. vrange = d
    BY <1>9 DEF VoltageSettled
  <2> HIDE DEF u, d
  <2>3. q = (u * PWM_STEPS) \div d
    BY <1>4, <2>1, <2>5 DEF Quotient
  <2>4. q \in Nat
    <3>1. u * PWM_STEPS \in Nat
      BY <1>3, <2>2
    <3> QED
      BY <1>4, <2>3, <3>1, DivNat
  <2> QED
    BY <1>5, <2>1, <2>3, <2>4, ClampFacts
<1> QED
  BY <1>7, <1>8, <1>9

LEMMA Int16Top == ASSUME NEW x \in Int16 PROVE x <= INT16_MAX
BY DEF Int16

LEMMA Int8Top == ASSUME NEW x \in Int8 PROVE x \in Int /\ x <= INT8_MAX
BY DEF Int8

LEMMA Wraps == \A x \in Nat : x <= UINT16_MAX => U16(x) = x
BY DEF U16, UINT16_MAX

\* and above freezing so is the temperature's: its product fits in 16 bits
LEMMA TempExact ==
    ASSUME parms \in Parms, Sane, NEW temp \in Temps \cap Nat,
           TempSettled(temp), NEW limit \in ByTemp(temp)
    PROVE  limit = TempCurve(temp)
<1>1. temp \in Nat /\ temp <= 32767
  <2>1. temp \in Int16 /\ temp \in Nat
    BY ShuntAssumption
  <2> QED
    BY <2>1, Int16Top DEF INT16_MAX
<1>2. /\ parms.templo \in Nat /\ parms.temphi \in Nat /\ parms.temphi <= 127
      /\ parms.templo < parms.temphi
  <2>1. parms.templo \in Int8 /\ parms.temphi \in Int8
    BY ParmsFact
  <2>2. /\ parms.templo \in Int /\ parms.temphi \in Int
        /\ parms.temphi <= INT8_MAX
    BY <2>1, Int8Top
  <2>3. 0 <= parms.templo /\ parms.templo < parms.temphi
    BY DEF Sane
  <2> QED
    BY <2>2, <2>3 DEF INT8_MAX
<1>3. PWM_STEPS \in Nat /\ PWM_STEPS <= 256
  BY Bounds
<1>4. /\ U16(temp) = temp /\ U16(parms.temphi) = parms.temphi
      /\ U16(parms.templo) = parms.templo
  BY <1>1, <1>2, Wraps DEF UINT16_MAX
<1> DEFINE d == parms.temphi - parms.templo
           u == parms.temphi - temp
<1>5. d \in Nat \ {0} /\ u \in Int /\ u * PWM_STEPS \in Int
  BY <1>1, <1>2, <1>3
<1>6. TempCurve(temp) = Clamp((u * PWM_STEPS) \div d)
  BY DEF TempCurve
<1>7. (u * PWM_STEPS) \div d \in Int
  <2> HIDE DEF u, d
  <2> QED
    BY <1>5
<1>8. CASE temp >= parms.temphi
  <2>1. limit = 0
    BY <1>4, <1>8 DEF ByTemp
  <2>2. u <= 0
    BY <1>1, <1>2, <1>8
  <2> HIDE DEF u, d
  <2>3. u * PWM_STEPS < 1 * d
    BY <1>3, <1>5, <2>2
  <2>4. (u * PWM_STEPS) \div d < 1
    BY <1>5, <2>3, DivBelow
  <2> QED
    BY <1>6, <1>7, <2>1, <2>4, ClampFacts
<1>9. CASE ~(temp >= parms.temphi) /\ temp <= parms.templo
  <2>1. limit = Full
    BY <1>4, <1>9 DEF ByTemp
  <2>2. u >= d
    BY <1>1, <1>2, <1>9
  <2> HIDE DEF u, d
  <2>3. u * PWM_STEPS >= PWM_STEPS * d
    BY <1>3, <1>5, <2>2
  <2>4. (u * PWM_STEPS) \div d >= PWM_STEPS
    BY <1>3, <1>5, <2>3, DivAtLeast
  <2> QED
    BY <1>6, <1>7, <2>1, <2>4, ClampFacts
<1>10. CASE ~(temp >= parms.temphi) /\ ~(temp <= parms.templo)
  <2>1. limit \in Quotient(U16(u * PWM_STEPS), trange)
    BY <1>4, <1>10 DEF ByTemp
  <2>2. u \in Nat /\ u < d /\ u <= 127
    BY <1>1, <1>2, <1>10
  <2>9. trange = d
    BY <1>1, <1>2, <1>10 DEF TempSettled
  <2> HIDE DEF u, d
  <2>3. u * PWM_STEPS \in Nat /\ u * PWM_STEPS <= 127 * 256
    BY <1>3, <2>2
  <2>4. U16(u * PWM_STEPS) = u * PWM_STEPS
    BY <2>3, Wraps DEF UINT16_MAX
  <2>5. limit = (u * PWM_STEPS) \div d
    BY <1>5, <2>1, <2>4, <2>9 DEF Quotient
  <2>6. limit \in Nat
    BY <1>5, <2>3, <2>5, DivNat
  <2>7. u * PWM_STEPS < PWM_STEPS * d
    <3>1. PWM_STEPS >= 1
      BY Bounds
    <3> QED
      BY <1>3, <1>5, <2>2, <3>1
  <2>8. limit < PWM_STEPS
    BY <1>3, <1>5, <2>5, <2>7, DivBelow
  <2> QED
    BY <1>6, <2>5, <2>6, <2>8, ClampFacts
<1> QED
  BY <1>8, <1>9, <1>10

LEMMA SmallTimes ==
    /\ 0 \in Left /\ SHUNT_IDLE_TIME \in Left /\ 1 \in -MaxLate .. SHUNT_LOOP_TIME
    /\ QuietCap \in Nat /\ 0 \in 0 .. QuietCap
    /\ 0 \in 0 .. Full /\ 0 \in Uint16
BY Bounds DEF Left, QuietCap, Full, Uint16, UINT16_MAX

-----------------------------------------------------------------------------
(* The invariant.                                                          *)

LEMMA InitInv == Init => ShuntInv /\ PinOff
BY SmallTimes DEF Init, ShuntInv, TypeOK, TimerOff, Timing, Resting, PinOff

LEMMA StartInv ==
    ASSUME ShuntInv, NEW level \in 0 .. Full, Start(level)
    PROVE  ShuntInv' /\ shunt_status' # "OFF" /\ ~override'
<1>1. vrange' \in Uint16 /\ trange' \in Uint16
  <2>1. parms.shuntmin \in Int /\ parms.shuntmax \in Int
        /\ parms.templo \in Int /\ parms.temphi \in Int
    BY ParmsFact, Uint16Nat DEF ShuntInv, TypeOK, Int8
  <2>2. /\ parms.shuntmax - parms.shuntmin \in Int
        /\ parms.temphi - parms.templo \in Int
    BY <2>1
  <2>3. /\ U16(parms.shuntmax - parms.shuntmin) \in Uint16
        /\ U16(parms.temphi - parms.templo) \in Uint16
    BY <2>2, U16Type
  <2>4. /\ vrange' = U16(parms.shuntmax - parms.shuntmin)
        /\ trange' = U16(parms.temphi - parms.templo)
    BY DEF Start
  <2> QED
    BY <2>3, <2>4
<1>2. TypeOK'
  <2>1. 1 \in Left
    BY Bounds DEF Left
  <2>2. shunt_timeout' \in Left /\ loop_timeout' \in Left
    BY <2>1, SmallTimes DEF Start
  <2>3. pwm' \in 0 .. Full /\ quiet' \in 0 .. QuietCap
    BY SmallTimes DEF Start
  <2>4. /\ parms' \in Parms /\ hot' \in BOOLEAN
        /\ shunt_status' \in {"OFF", "IDLE", "ON", "LIMIT"}
        /\ timer' \in BOOLEAN /\ override' \in BOOLEAN
    BY DEF Start, ShuntInv, TypeOK
  <2> QED
    BY <1>1, <2>2, <2>3, <2>4 DEF TypeOK
<1>3. shunt_status' # "OFF" /\ ~override'
  BY DEF Start
<1>4. Timing'
  BY SmallTimes, Bounds DEF Start, Timing
<1> QED
  BY <1>2, <1>3, <1>4 DEF ShuntInv, TimerOff, Resting

LEMMA StopInv ==
    ASSUME ShuntInv, Stop
    PROVE  ShuntInv' /\ shunt_status' = "OFF" /\ ~override'
BY SmallTimes DEF Stop, ShuntInv, TypeOK, TimerOff, Timing, Resting

LEMMA GetStatusInv == ASSUME ShuntInv, GetStatus PROVE ShuntInv'
<1>1. TypeOK'
  BY SmallTimes DEF GetStatus, ShuntInv, TypeOK
<1>2. TimerOff' /\ Resting'
  BY DEF GetStatus, ShuntInv, TimerOff, Resting
<1>3. Timing'
  BY Bounds DEF GetStatus, ShuntInv, Timing
<1> QED
  BY <1>1, <1>2, <1>3 DEF ShuntInv

LEMMA SetParmsInv == ASSUME ShuntInv, SetParms PROVE ShuntInv'
BY DEF SetParms, ShuntInv, TypeOK, TimerOff, Timing, Resting

\* while the shunt is on, a tick moves both timers down, and neither wraps
LEMMA TickInv ==
    ASSUME ShuntInv, ShuntTick, shunt_status = "OFF" \/ loop_timeout > -MaxLate
    PROVE  /\ ShuntInv'
           /\ shunt_status # "OFF" => loop_timeout' = loop_timeout - 1
<1>1. CASE shunt_status = "OFF"
  BY <1>1 DEF ShuntTick, ShuntInv, TypeOK, TimerOff, Timing, Resting
<1>2. CASE shunt_status # "OFF"
  <2>1. /\ loop_timeout \in -MaxLate .. SHUNT_LOOP_TIME /\ loop_timeout > -MaxLate
        /\ shunt_timeout = SHUNT_IDLE_TIME - quiet /\ quiet \in 0 .. QuietCap
        /\ quiet + loop_timeout <= SHUNT_IDLE_TIME + SHUNT_LOOP_TIME
    BY <1>2 DEF ShuntInv, TypeOK, Timing
  <2>2. /\ loop_timeout \in Int /\ quiet \in Nat /\ shunt_timeout \in Int
        /\ loop_timeout # 1 - Half /\ shunt_timeout # 1 - Half
        /\ quiet < QuietCap
    BY <2>1, Bounds DEF QuietCap
  <2>3. /\ loop_timeout' = loop_timeout - 1 /\ shunt_timeout' = shunt_timeout - 1
        /\ quiet' = quiet + 1
    BY <1>2, <2>2, DownOne DEF ShuntTick
  <2>4. UNCHANGED <<parms, shunt_status, pwm, timer, override, vrange, trange, hot>>
    BY DEF ShuntTick
  <2>5. Timing'
    BY <2>1, <2>3, Bounds DEF Timing
  <2>6. loop_timeout' \in Left /\ shunt_timeout' \in Left /\ quiet' \in 0 .. QuietCap
    BY <2>1, <2>2, <2>3, Bounds DEF Left, QuietCap
  <2>7. TypeOK'
    BY <2>4, <2>6 DEF ShuntInv, TypeOK
  <2>8. TimerOff' /\ Resting'
    BY <1>2, <2>4 DEF TimerOff, Resting
  <2> QED
    BY <2>3, <2>5, <2>7, <2>8 DEF ShuntInv
<1> QED
  BY <1>1, <1>2

\* A control pass that does not end the shunting comes before the idle time is
\* over; the next is a period after this one was due.
LEMMA ControlInv ==
    ASSUME ShuntInv, shunt_status # "OFF", loop_timeout <= 0,
           NEW mv \in Voltages, NEW temp \in Temps, Control(mv, temp)
    PROVE  /\ ShuntInv'
           /\ \/ shunt_status' = "OFF" /\ ~override'
              \/ /\ shunt_status' # "OFF" /\ UNCHANGED override
                 /\ loop_timeout' = loop_timeout + SHUNT_LOOP_TIME
<1>1. CASE shunt_timeout <= 0
  BY <1>1, StopInv DEF Control
<1>2. CASE ~(shunt_timeout <= 0)
  <2>1. PICK t \in Targets(mv, temp) :
          /\ loop_timeout' = loop_timeout + SHUNT_LOOP_TIME
          /\ hot' = (U16(temp) >= U16(parms.temphi))
          /\ shunt_status' = t.status
          /\ pwm' = Toward(pwm, t.pwm)
          /\ UNCHANGED <<parms, timer, override, shunt_timeout, vrange, trange, quiet>>
    BY <1>2 DEF Control
  <2>2. t.pwm \in 0 .. Full /\ t.status \in {"IDLE", "ON", "LIMIT"}
    BY TargetType DEF ShuntInv
  <2>3. pwm' \in 0 .. Full
    <3>1. pwm \in 0 .. Full /\ Full \in Nat
      BY Bounds DEF ShuntInv, TypeOK, Full
    <3> QED
      BY <2>1, <2>2, <3>1 DEF Toward
  <2>4. /\ loop_timeout \in -MaxLate .. SHUNT_LOOP_TIME
        /\ shunt_timeout = SHUNT_IDLE_TIME - quiet /\ quiet \in Nat
    BY DEF ShuntInv, Timing, TypeOK
  <2>5. Timing'
    BY <1>2, <2>1, <2>4, Bounds DEF Timing
  <2>6. loop_timeout' \in Left
    BY <2>1, <2>4, Bounds DEF Left
  <2>7. hot' \in BOOLEAN /\ shunt_status' \in {"OFF", "IDLE", "ON", "LIMIT"}
    BY <2>1, <2>2
  <2>8. TypeOK'
    BY <2>1, <2>3, <2>6, <2>7 DEF ShuntInv, TypeOK
  <2>9. shunt_status' # "OFF"
    BY <2>1, <2>2
  <2> QED
    BY <2>1, <2>5, <2>8, <2>9 DEF ShuntInv, TimerOff, Resting
<1> QED
  BY <1>1, <1>2

\* shunt_run(): what it leaves behind is off, or has a control pass ahead
LEMMA RunInv ==
    ASSUME ShuntInv, AnyRun
    PROVE  /\ ShuntInv'
           /\ \/ shunt_status' = "OFF" /\ ~override'
              \/ /\ shunt_status # "OFF" /\ shunt_status' # "OFF" /\ UNCHANGED override
                 /\ \/ loop_timeout > 0 /\ loop_timeout' = loop_timeout
                    \/ loop_timeout <= 0 /\ loop_timeout' = loop_timeout + SHUNT_LOOP_TIME
<1>1. PICK mv \in Voltages, temp \in Temps : Run(mv, temp)
  BY DEF AnyRun
<1>2. CASE shunt_status = "OFF" /\ Stop
  BY <1>2, StopInv
<1>3. CASE shunt_status # "OFF" /\ loop_timeout > 0 /\ UNCHANGED shuntVars
  BY <1>3 DEF ShuntInv, TypeOK, TimerOff, Timing, Resting, shuntVars
<1>4. CASE shunt_status # "OFF" /\ loop_timeout <= 0 /\ Control(mv, temp)
  BY <1>4, ControlInv
<1> QED
  BY <1>1, <1>2, <1>3, <1>4 DEF Run

LEMMA StutterInv == ASSUME ShuntInv, UNCHANGED shuntVars PROVE ShuntInv'
BY DEF ShuntInv, TypeOK, TimerOff, Timing, Resting, shuntVars

LEMMA NextIInv == IInv /\ [Next]_shuntVars => IInv'
<1> SUFFICES ASSUME IInv, [Next]_shuntVars PROVE IInv'
  OBVIOUS
<1> ShuntInv /\ PinOff
  BY DEF IInv
<1>1. CASE Start(0)
  BY <1>1, StartInv, SmallTimes DEF IInv, PinOff
<1>2. CASE Stop
  BY <1>2, StopInv DEF IInv, PinOff
<1>3. CASE GetStatus
  <2>1. PinOff'
    BY <1>3 DEF GetStatus, PinOff
  <2> QED
    BY <1>3, <2>1, GetStatusInv DEF IInv
<1>4. CASE AnyRun
  BY <1>4, RunInv DEF IInv, PinOff
<1>5. CASE SetParms
  <2>1. PinOff'
    BY <1>5 DEF SetParms, PinOff
  <2> QED
    BY <1>5, <2>1, SetParmsInv DEF IInv
<1>6. CASE Tick
  <2>1. PinOff'
    BY <1>6 DEF Tick, ShuntTick, PinOff
  <2> QED
    BY <1>6, <2>1, TickInv DEF IInv, Tick
<1>7. CASE UNCHANGED shuntVars
  <2>1. PinOff'
    BY <1>7 DEF shuntVars, PinOff
  <2> QED
    BY <1>7, <2>1, StutterInv DEF IInv
<1> QED
  BY <1>1, <1>2, <1>3, <1>4, <1>5, <1>6, <1>7 DEF Next

-----------------------------------------------------------------------------
(* The theorems.                                                           *)

\* The inductive invariant: types, hardware and status, and where the timers of
\* shunt.c:41-49 are while it shunts.
THEOREM Invariance == Spec => []IInv
<1>1. Init => IInv
  BY InitInv DEF IInv
<1>2. IInv /\ [Next]_shuntVars => IInv'
  BY NextIInv
<1> QED
  BY <1>1, <1>2, PTL DEF Spec

\* Every variable of shunt.c holds what its type allows: the duty cycle never
\* steps past its ends, although the voltage's and the temperature's shares of
\* it are computed in other widths (shunt.c:153-254).
THEOREM TypeCorrect == Spec => []TypeOK
<1>1. IInv => TypeOK
  BY DEF IInv, ShuntInv
<1> QED
  BY <1>1, Invariance, PTL

\* A shunt that reports to be off draws no current (shunt.c:115-135, 246-251).
THEOREM OffIsDark == Spec => []DarkWhenOff
<1>1. IInv => DarkWhenOff
  BY DEF IInv, ShuntInv, TimerOff, PinOff, DarkWhenOff, LoadOn
<1> QED
  BY <1>1, Invariance, PTL

\* A shunt whose status nobody asks for ends, at the latest a control period and
\* a late pass after its idle time, for all times that fit half a turn of the
\* clock (shunt.c:246-251).
THEOREM NobodyAsksSoItEnds == Spec => []UnattendedEnds
<1>1. IInv => UnattendedEnds
  <2> SUFFICES ASSUME IInv, shunt_status # "OFF"
               PROVE  quiet <= SHUNT_IDLE_TIME + SHUNT_LOOP_TIME + MaxLate
    BY DEF UnattendedEnds
  <2>1. /\ loop_timeout \in -MaxLate .. SHUNT_LOOP_TIME /\ quiet \in Nat
        /\ quiet + loop_timeout <= SHUNT_IDLE_TIME + SHUNT_LOOP_TIME
    BY DEF IInv, ShuntInv, Timing, TypeOK
  <2> QED
    BY <2>1, Bounds
<1> QED
  BY <1>1, Invariance, PTL

LEMMA CurvesInt ==
    ASSUME parms \in Parms, Sane, NEW mv \in Voltages, NEW temp \in Temps
    PROVE  VoltageCurve(mv) \in Int /\ TempCurve(temp) \in Int
<1>1. Full \in Int
  BY Bounds DEF Full
<1>2. \A x : Clamp(x) \in {0, Full} \/ (Clamp(x) = x /\ ~(x < 0))
  BY DEF Clamp
<1>3. mv \in Int /\ temp \in Int /\ PWM_STEPS \in Int
  BY Bounds, ShuntAssumption, Uint16Nat DEF Int16
<1>4. /\ parms.shuntmin \in Int /\ parms.shuntmax \in Int
      /\ parms.templo \in Int /\ parms.temphi \in Int
  BY ParmsFact, Uint16Nat DEF Int8
<1>5. /\ parms.shuntmax - parms.shuntmin \in Nat \ {0}
      /\ parms.temphi - parms.templo \in Nat \ {0}
  BY <1>4 DEF Sane
<1>6. /\ (mv - parms.shuntmin) * PWM_STEPS \in Int
      /\ (parms.temphi - temp) * PWM_STEPS \in Int
  BY <1>3, <1>4
<1>7. \A a \in Int, b \in Nat \ {0} : a \div b \in Int
  OBVIOUS
<1> QED
  BY <1>1, <1>2, <1>5, <1>6, <1>7 DEF VoltageCurve, TempCurve

\* For all parameters that make sense, voltages and temperatures above freezing,
\* a control pass aims at the lower of the two documented curves, in spite of
\* 16-bit products and integer division, and stays below the one that is right if
\* the range of the other is that of old parameters (shunt.c:108, 153-230).
THEOREM CurvesAlwaysFollowed == Spec => []CurvesFollowed
<1>1. IInv => CurvesFollowed
  <2> SUFFICES ASSUME parms \in Parms, TypeOK, Sane,
                      NEW mv \in Voltages, NEW temp \in Temps \cap Nat
               PROVE  /\ VoltageSettled(mv) => StaysBelow(VoltageCurve(mv), mv, temp)
                      /\ TempSettled(temp) => StaysBelow(TempCurve(temp), mv, temp)
                      /\ VoltageSettled(mv) /\ TempSettled(temp)
                           => AimsAtCurves(mv, temp)
    BY DEF IInv, ShuntInv, TypeOK, CurvesFollowed
  <2> DEFINE Lower(level, limit) == IF limit < level THEN limit ELSE level
  <2>1. \A t \in Targets(mv, temp) :
          \E level \in ByVoltage(mv), limit \in ByTemp(temp) :
            t.pwm = Lower(level, limit)
    BY DEF Targets
  <2>2. \A level \in ByVoltage(mv), limit \in ByTemp(temp) :
          level \in Int /\ limit \in Int
    <3>1. Full \in Int
      BY Bounds DEF Full
    <3> QED
      BY <3>1, LevelRange, LimitNat DEF TypeOK
  <2>3. VoltageCurve(mv) \in Int /\ TempCurve(temp) \in Int
    BY CurvesInt
  <2>4. VoltageSettled(mv) => \A level \in ByVoltage(mv) : level = VoltageCurve(mv)
    BY VoltageExact
  <2>5. TempSettled(temp) => \A limit \in ByTemp(temp) : limit = TempCurve(temp)
    BY TempExact
  <2>6. VoltageSettled(mv) => StaysBelow(VoltageCurve(mv), mv, temp)
    BY <2>1, <2>2, <2>4 DEF StaysBelow
  <2>7. TempSettled(temp) => StaysBelow(TempCurve(temp), mv, temp)
    BY <2>1, <2>2, <2>5 DEF StaysBelow
  <2>8. VoltageSettled(mv) /\ TempSettled(temp) => AimsAtCurves(mv, temp)
    BY <2>1, <2>3, <2>4, <2>5 DEF AimsAtCurves, Smaller
  <2> QED
    BY <2>6, <2>7, <2>8
<1> QED
  BY <1>1, Invariance, PTL

-----------------------------------------------------------------------------
(***************************************************************************)
(* The application (App).                                                  *)
(***************************************************************************)

AppTypes ==
    /\ state \in States
    /\ pc \in {"poll", "run"}
    /\ evt \in Events
    /\ state_tmr \in {NoTimer} \cup 0 .. IDLE_TIME \cup 0 .. DFU_TIME
    /\ test_state \in {"off", "vref", "io", "shunt", "blink"}
    /\ test_seconds \in 0 .. TEST_SECONDS - 1
    /\ test_timeout \in Left
    /\ extio \in BOOLEAN /\ asleep \in BOOLEAN
    /\ wdt \in {WdtOff} \cup 0 .. WDT_TIME
    /\ lag \in 0 .. MaxLoop
    /\ rx \in 0 .. Ready
    /\ calm \in 0 .. CalmCap /\ tested \in 0 .. TestedCap

\* The pass before this one may have been a command's: then the buffer was empty
\* when this one began, and a packet takes longer than a pass.
CommandJustBefore == rx <= lag + 1 /\ evt \notin Commands

\* the shunt is on in the states and tests that turn it on, and the pin is driven
\* by the blink test in the testmode state only
Loads == /\ shunt_status # "OFF" => state = "shunt" \/ test_state # "off"
         /\ override => state = "testmode" /\ test_state # "off"

\* shunt_run() looks at its timer in every pass that is not a command's
LookedAt ==
    state = "shunt" /\ shunt_status # "OFF" =>
        \/ loop_timeout >= 1 - lag
        \/ loop_timeout >= 1 - lag - MaxLoop /\ CommandJustBefore

\* the watchdog is petted in every pass but the first and those of commands
Petted ==
    /\ wdt = WdtOff <=> state = "sleep"
    /\ wdt <= lag + MaxLoop
    /\ wdt > lag => state # "initial" /\ (state = "powerup" \/ CommandJustBefore)

Passes == /\ evt = "timeout" => state_tmr = NoTimer
          /\ pc = "poll" => evt = "none"

\* In idle the timer runs out only if the buffer was empty at the last look, which
\* was at the beginning of this pass.
Listening == state = "idle" => rx <= lag + 1 \/ state_tmr >= IDLE_TIME - lag

Sleeping == asleep => state = "sleep" /\ rx <= PKT_MIN

\* the timer of the idle state does not run ahead of the quiet
Quiet ==
    state = "idle" /\ evt \notin Commands =>
        calm >= IDLE_TIME - (IF state_tmr < 0 THEN 0 ELSE state_tmr)

\* In testmode a second is counted in every pass until the count has caught up
\* with a timer that was left alone; from then on the timer measures what is
\* missing.
TestTime ==
    state = "testmode" =>
        \/ tested <= test_seconds * SECOND + lag
        \/ /\ test_state # "off" /\ test_timeout >= 1 - lag
           /\ tested + test_timeout <= Half + MaxLoop + test_seconds * SECOND

AppIInv ==
    /\ AppTypes /\ ShuntInv /\ Loads /\ LookedAt
    /\ Petted /\ Passes /\ Listening /\ Sleeping /\ Quiet /\ TestTime

-----------------------------------------------------------------------------
(* Facts about the operations.                                             *)

LEMMA AppBounds ==
    /\ IDLE_TIME \in Nat /\ DFU_TIME \in Nat /\ SECOND \in Nat
    /\ TEST_SECONDS \in Nat \ {0} /\ WDT_TIME \in Nat
    /\ MaxLoop \in Nat \ {0} /\ PKT_MIN \in Nat
    /\ PKT_MIN > MaxLoop
    /\ MaxLoop < IDLE_TIME /\ MaxLoop < DFU_TIME /\ MaxLoop <= SECOND
    /\ 2 * MaxLoop < WDT_TIME
    /\ SECOND < Half
    /\ 2 * MaxLoop <= MaxLate /\ 2 * MaxLoop <= SHUNT_LOOP_TIME
    /\ TestFuncs \subseteq {"off", "vref", "io", "shunt", "blink", "badkey"}
BY AppAssumption

LEMMA AppInitIInv == AppInit => AppIInv
<1> SUFFICES ASSUME AppInit PROVE AppIInv
  OBVIOUS
<1>1. ShuntInv /\ PinOff
  BY InitInv DEF AppInit
<1>2. TestedCap \in Nat /\ CalmCap \in Nat /\ 0 \in Left
  <2>1. TEST_SECONDS * SECOND \in Nat
    BY AppBounds
  <2> QED
    BY <2>1, AppBounds, Bounds, SmallTimes DEF TestedCap, CalmCap
<1>3. AppTypes
  <2>1. /\ 0 \in 0 .. TEST_SECONDS - 1 /\ 0 \in 0 .. WDT_TIME /\ 0 \in 0 .. MaxLoop
        /\ 0 \in 0 .. Ready /\ 0 \in 0 .. CalmCap /\ 0 \in 0 .. TestedCap
    BY <1>2, AppBounds DEF Ready
  <2>2. "initial" \in States /\ "none" \in Events
    BY DEF States, Events
  <2> QED
    BY <1>2, <2>1, <2>2 DEF AppInit, AppTypes, NoPacket
<1>4. Loads /\ LookedAt /\ Listening /\ Sleeping /\ Quiet /\ TestTime
  BY <1>1 DEF AppInit, Init, Loads, LookedAt, Listening, Sleeping, Quiet, TestTime
<1>5. Petted /\ Passes
  BY AppBounds DEF AppInit, Petted, Passes, WdtOff
<1> QED
  BY <1>1, <1>3, <1>4, <1>5 DEF AppIInv

\* testmode_on()
LEMMA TestOnFacts ==
    ASSUME ShuntInv, extio \in BOOLEAN, NEW func \in TestFuncs \ {"badkey"},
           NEW val0 \in 0 .. Full, TestOn(func, val0)
    PROVE  /\ ShuntInv'
           /\ test_state' \in {"off", "vref", "io", "shunt", "blink"}
           /\ test_seconds' = 0 /\ test_timeout' \in {0, SECOND}
           /\ test_state' # "off" => test_timeout' = SECOND
           /\ extio' \in BOOLEAN
           /\ \/ test_state' = "off" /\ shunt_status' = "OFF" /\ ~override'
              \/ test_state' # "off" /\ loop_timeout' = 1 /\ ~override'
              \/ test_state' # "off" /\ UNCHANGED shuntVars
<1>1. func \in {"off", "vref", "io", "shunt", "blink"}
  BY AppBounds
<1>2. CASE func = "off"
  BY <1>2, StopInv DEF TestOn, TestOff
<1>3. CASE func = "shunt"
  <2>1. Start(val0) /\ test_state' = "shunt"
    BY <1>3 DEF TestOn
  <2>2. loop_timeout' = 1
    BY <2>1 DEF Start
  <2> QED
    BY <1>3, <2>1, <2>2, StartInv DEF TestOn
<1>4. CASE func \notin {"off", "shunt"}
  BY <1>1, <1>4, StutterInv DEF TestOn
<1> QED
  BY <1>2, <1>3, <1>4

\* testmode_run()
LEMMA TestRunFacts ==
    ASSUME ShuntInv, AppTypes, NEW temp \in Temps, TestRun(temp)
    PROVE  /\ ShuntInv'
           /\ \/ /\ test_state' = "off" /\ test_seconds' = 0 /\ test_timeout' = 0
                 /\ shunt_status' = "OFF" /\ ~override' /\ extio' = FALSE
              \/ /\ test_state # "off" /\ UNCHANGED <<test_state, extio, shunt_status>>
                 /\ \/ /\ test_timeout > 0 /\ UNCHANGED <<test_seconds, test_timeout>>
                    \/ /\ test_timeout <= 0
                       /\ test_seconds' = test_seconds + 1
                       /\ test_seconds + 1 < TEST_SECONDS
                       /\ test_timeout' = test_timeout + SECOND
<1>1. CASE TestOff
  BY <1>1, StopInv DEF TestOff
<1>2. CASE ~TestOff
  <2>1. /\ test_state # "off" /\ TestFunction(temp)
        /\ ~(test_timeout <= 0 /\ test_seconds + 1 >= TEST_SECONDS)
        /\ test_seconds' = IF test_timeout <= 0 THEN test_seconds + 1 ELSE test_seconds
        /\ test_timeout' = IF test_timeout <= 0 THEN test_timeout + SECOND ELSE test_timeout
    BY <1>2 DEF TestRun
  <2>2. ShuntInv' /\ UNCHANGED <<test_state, extio, shunt_status>>
    <3>1. CASE test_state = "blink"
      BY <2>1, <3>1 DEF TestFunction, ShuntInv, TypeOK, TimerOff, Timing, Resting
    <3>2. CASE UNCHANGED <<shuntVars, extio, test_state>>
      BY <3>2, StutterInv DEF shuntVars
    <3> QED
      BY <2>1, <3>1, <3>2 DEF TestFunction
  <2>3. test_timeout \in Int /\ test_seconds \in Int /\ TEST_SECONDS \in Int
    BY AppBounds, Bounds DEF AppTypes, Left
  <2> QED
    BY <2>1, <2>2, <2>3
<1> QED
  BY <1>1, <1>2

-----------------------------------------------------------------------------
(* Types.                                                                  *)

\* what the entry of a state sets the state timer to
LEMMA TimerTypes ==
    /\ NoTimer \in {NoTimer} \cup 0 .. IDLE_TIME \cup 0 .. DFU_TIME
    /\ IDLE_TIME \in {NoTimer} \cup 0 .. IDLE_TIME \cup 0 .. DFU_TIME
    /\ DFU_TIME \in {NoTimer} \cup 0 .. IDLE_TIME \cup 0 .. DFU_TIME
    /\ 0 \in {WdtOff} \cup 0 .. WDT_TIME /\ WdtOff \in {WdtOff} \cup 0 .. WDT_TIME
    /\ 0 \in 0 .. MaxLoop /\ NoPacket \in 0 .. Ready /\ 1 \in 0 .. Ready /\ Ready \in 0 .. Ready
    /\ 0 \in 0 .. CalmCap /\ 0 \in 0 .. TestedCap
    /\ 0 \in 0 .. TEST_SECONDS - 1 /\ 0 \in Left /\ SECOND \in Left
<1>1. TEST_SECONDS * SECOND \in Nat
  BY AppBounds
<1>2. TestedCap \in Nat
  BY <1>1, AppBounds, Bounds DEF TestedCap
<1> QED
  BY <1>2, AppBounds, Bounds DEF Ready, NoPacket, CalmCap, Left

LEMMA TickTypes == ASSUME AppIInv, AppTick PROVE AppTypes'
<1> USE DEF AppIInv, AppTypes
<1>1. TEST_SECONDS * SECOND \in Nat
  BY AppBounds
<1>2. TestedCap \in Nat /\ CalmCap \in Nat
  BY <1>1, AppBounds, Bounds DEF TestedCap, CalmCap
<1>3. lag' \in 0 .. MaxLoop /\ rx' \in 0 .. Ready
  BY AppBounds DEF AppTick, Ready
<1>4. state_tmr' \in {NoTimer} \cup 0 .. IDLE_TIME \cup 0 .. DFU_TIME
  BY AppBounds DEF AppTick, NoTimer
<1>5. wdt' \in {WdtOff} \cup 0 .. WDT_TIME
  BY AppBounds DEF AppTick, WdtOff
<1>6. calm' \in 0 .. CalmCap /\ tested' \in 0 .. TestedCap
  BY <1>2 DEF AppTick
<1>7. test_timeout' \in Left
  BY Bounds DEF AppTick, Left, Down
<1>8. UNCHANGED <<state, pc, evt, test_state, test_seconds, extio, asleep>>
  BY DEF AppTick
<1> QED
  BY <1>3, <1>4, <1>5, <1>6, <1>7, <1>8

LEMMA PollTypes == ASSUME AppIInv, Poll PROVE AppTypes'
<1> USE DEF AppIInv
<1>1. UNCHANGED <<state, asleep, wdt, lag>>
  BY DEF Poll
<1>2. CASE Timeout
  BY <1>1, <1>2, TimerTypes DEF Timeout, AppTypes, Event, Events, shuntVars, testVars
<1>3. CASE Nothing
  BY <1>1, <1>3, TimerTypes DEF Nothing, AppTypes, Event, Events, shuntVars, testVars
<1>4. CASE Command
  <2>1. calm' \in 0 .. CalmCap /\ UNCHANGED <<state_tmr, rx>>
    BY <1>4, TimerTypes DEF Command
  <2>2. pc' \in {"poll", "run"} /\ evt' \in Events
    BY <1>4 DEF Command, Event, Events, Commands
  <2>3. /\ test_state' \in {"off", "vref", "io", "shunt", "blink"}
        /\ test_seconds' \in 0 .. TEST_SECONDS - 1 /\ test_timeout' \in Left
        /\ extio' \in BOOLEAN /\ tested' \in 0 .. TestedCap
    <3>1. CASE UNCHANGED <<testVars, tested>>
      BY <3>1 DEF AppTypes, testVars
    <3>2. CASE \E func \in TestFuncs \ {"badkey"}, val0 \in 0 .. Full :
                  TestOn(func, val0) /\ tested' = 0
      BY <3>2, TestOnFacts, TimerTypes DEF AppTypes
    <3> QED
      BY <1>4, <3>1, <3>2 DEF Command
  <2> QED
    BY <1>1, <2>1, <2>2, <2>3 DEF AppTypes
<1> QED
  BY <1>2, <1>3, <1>4 DEF Poll

\* every entry of a state, and staying in it, as far as types are concerned
LEMMA HandlerTypes ==
    ASSUME AppTypes, pc' = "poll", lag' = 0, evt' = "none", rx' \in {rx, NoPacket},
           state' \in States, asleep' \in BOOLEAN, wdt' \in {wdt, 0, WdtOff},
           state_tmr' \in {state_tmr, IDLE_TIME, DFU_TIME},
           calm' \in {calm, 0}, tested' \in {tested, 0},
           extio' \in BOOLEAN,
           test_state' \in {"off", "vref", "io", "shunt", "blink"},
           test_seconds' \in 0 .. TEST_SECONDS - 1, test_timeout' \in Left
    PROVE  AppTypes'
BY TimerTypes DEF AppTypes, Events

LEMMA MainTypes ==
    ASSUME AppIInv, Main
    PROVE  AppTypes'
<1> USE DEF AppIInv
<1>1. CASE Poll
  BY <1>1, PollTypes
<1>2. CASE Reboot
  BY <1>2, TimerTypes DEF Reboot, AppTypes, States, Events
<1>3. CASE HandleTestmode
  <2>1. PICK temp \in Temps : TestRun(temp)
    BY <1>3 DEF HandleTestmode
  <2>2. /\ test_state' \in {"off", "vref", "io", "shunt", "blink"}
        /\ test_seconds' \in 0 .. TEST_SECONDS - 1 /\ test_timeout' \in Left
        /\ extio' \in BOOLEAN
    <3>1. test_seconds \in 0 .. TEST_SECONDS - 1 /\ test_timeout \in Left
      BY DEF AppTypes
    <3>2. \/ test_seconds' = 0 /\ test_timeout' = 0
          \/ UNCHANGED <<test_seconds, test_timeout>>
          \/ /\ test_timeout <= 0 /\ test_seconds' = test_seconds + 1
             /\ test_seconds + 1 < TEST_SECONDS
             /\ test_timeout' = test_timeout + SECOND
      BY <2>1, TestRunFacts
    <3>3. test_seconds' \in 0 .. TEST_SECONDS - 1 /\ test_timeout' \in Left
      BY <3>1, <3>2, AppBounds, Bounds, TimerTypes DEF Left
    <3> QED
      BY <2>1, <3>3, TestRunFacts DEF AppTypes
  <2>3. UNCHANGED <<state, state_tmr, asleep, calm, tested>> \/ EnterIdle
    BY <1>3 DEF HandleTestmode, Stay
  <2> HIDE DEF AppIInv
  <2> QED
    BY <1>3, <2>2, <2>3, HandlerTypes
       DEF AppIInv, HandleTestmode, Handler, EnterIdle, AppTypes, States
<1>4. CASE \/ HandleInitial \/ HandlePowerup \/ HandleIdle \/ HandleDfu
           \/ HandleShunt \/ HandleSleep
  <2>1. /\ pc' = "poll" /\ lag' = 0 /\ evt' = "none" /\ rx' \in {rx, NoPacket}
    BY <1>4 DEF HandleInitial, HandlePowerup, HandleIdle, HandleDfu, HandleShunt,
                HandleSleep, Handler
  <2>2. /\ state' \in States /\ asleep' \in BOOLEAN /\ wdt' \in {wdt, 0, WdtOff}
        /\ state_tmr' \in {state_tmr, IDLE_TIME, DFU_TIME}
        /\ calm' \in {calm, 0} /\ tested' \in {tested, 0}
    BY <1>4 DEF HandleInitial, HandlePowerup, HandleIdle, HandleDfu, HandleShunt,
                HandleSleep, IdleCommand, IdleWatch, EnterIdle, EnterDfu, EnterShunt,
                EnterTestmode, EnterSleep, Stay, AppTypes, States
  <2>3. UNCHANGED <<test_state, test_seconds, test_timeout>> /\ extio' \in {extio, FALSE}
    BY <1>4 DEF HandleInitial, HandlePowerup, HandleIdle, HandleDfu, HandleShunt,
                HandleSleep, IdleCommand, IdleWatch, EnterSleep, testVars
  <2> QED
    BY <2>1, <2>2, <2>3, HandlerTypes DEF AppTypes
<1> QED
  BY <1>1, <1>2, <1>3, <1>4 DEF Main

LEMMA TypesStep == ASSUME AppIInv, [AppNext]_vars PROVE AppTypes'
<1> USE DEF AppIInv
<1>1. CASE PacketStarts
  BY <1>1, TimerTypes DEF PacketStarts, AppTypes, testVars
<1>2. CASE PacketByte
  BY <1>2, TimerTypes DEF PacketByte, AppTypes, testVars
<1>3. CASE UNCHANGED vars
  BY <1>3 DEF vars, testVars, mainVars, AppTypes
<1> QED
  BY <1>1, <1>2, <1>3, TickTypes, MainTypes DEF AppNext

-----------------------------------------------------------------------------
(* The shunt and the tests.                                                *)

\* the shunt's own invariant, and why it is on
ShuntPart == ShuntInv /\ Loads /\ LookedAt

LEMMA TickShunt == ASSUME AppIInv, AppTick PROVE ShuntPart'
<1> USE DEF AppIInv
<1>1. CASE state = "shunt"
  <2>1. ShuntTick /\ UNCHANGED <<state, test_state, evt>> /\ lag' = lag + 1 /\ lag < MaxLoop
    BY <1>1 DEF AppTick
  <2>2. lag \in Nat /\ rx \in Nat /\ rx' \in {rx, rx + 1} /\ loop_timeout \in Int
    BY DEF AppTick, AppTypes, ShuntInv, TypeOK, Left
  <2>3. shunt_status # "OFF" => loop_timeout >= 1 - lag - MaxLoop
    BY <1>1, <2>2, AppBounds DEF LookedAt
  <2>4. shunt_status = "OFF" \/ loop_timeout > -MaxLate
    BY <2>1, <2>2, <2>3, AppBounds, Bounds
  <2>5. /\ ShuntInv'
        /\ shunt_status # "OFF" => loop_timeout' = loop_timeout - 1
    BY <2>1, <2>4, TickInv
  <2>6. UNCHANGED <<shunt_status, override>>
    BY <2>1 DEF ShuntTick
  <2>7. Loads'
    BY <2>1, <2>6 DEF Loads
  <2>8. LookedAt'
    BY <1>1, <2>1, <2>2, <2>5, <2>6, AppBounds DEF LookedAt, CommandJustBefore
  <2> QED
    BY <2>5, <2>7, <2>8 DEF ShuntPart
<1>2. CASE state # "shunt"
  <2>1. UNCHANGED shuntVars /\ UNCHANGED <<state, test_state>>
    BY <1>2 DEF AppTick
  <2> QED
    BY <1>2, <2>1, StutterInv DEF ShuntPart, Loads, LookedAt, shuntVars
<1> QED
  BY <1>1, <1>2

LEMMA PollShunt == ASSUME AppIInv, Poll PROVE ShuntPart'
<1> USE DEF AppIInv
<1>1. UNCHANGED <<state, lag>> /\ pc = "poll" /\ evt = "none" /\ lag \in 0 .. MaxLoop
      /\ rx \in Nat
  BY DEF Poll, Passes, AppTypes
<1>2. CASE UNCHANGED shuntVars /\ UNCHANGED test_state /\ rx' \in {rx, NoPacket}
           /\ evt' \notin Commands
  BY <1>1, <1>2, StutterInv
     DEF ShuntPart, Loads, LookedAt, CommandJustBefore, NoPacket, shuntVars
<1>3. CASE Command
  <2>1. rx = Ready /\ UNCHANGED rx
    BY <1>3 DEF Command
  <2>2. ~CommandJustBefore
    BY <1>1, <2>1, AppBounds DEF CommandJustBefore, Ready
  <2>3. CASE UNCHANGED shuntVars /\ UNCHANGED test_state
    BY <1>1, <2>2, <2>3, StutterInv DEF ShuntPart, Loads, LookedAt, shuntVars
  <2>4. CASE UNCHANGED test_state /\ (GetStatus \/ SetParms)
    <3>1. UNCHANGED <<shunt_status, override, loop_timeout>>
      BY <2>4 DEF GetStatus, SetParms
    <3> QED
      BY <1>1, <2>2, <2>4, <3>1, GetStatusInv, SetParmsInv
         DEF ShuntPart, Loads, LookedAt
  <2>5. CASE \E func \in TestFuncs \ {"badkey"}, val0 \in 0 .. Full : TestOn(func, val0)
    <3>1. extio \in BOOLEAN
      BY DEF AppTypes
    <3>2. /\ ShuntInv'
          /\ \/ test_state' = "off" /\ shunt_status' = "OFF" /\ ~override'
             \/ test_state' # "off" /\ loop_timeout' = 1 /\ ~override'
             \/ test_state' # "off" /\ UNCHANGED shuntVars
      BY <2>5, <3>1, TestOnFacts
    <3>3. Loads'
      BY <1>1, <3>2 DEF Loads, shuntVars
    <3>4. LookedAt'
      BY <1>1, <2>2, <3>2 DEF LookedAt, shuntVars
    <3> QED
      BY <3>2, <3>3, <3>4 DEF ShuntPart
  <2> QED
    BY <1>3, <2>3, <2>4, <2>5 DEF Command, testVars
<1>4. CASE Timeout
  BY <1>2, <1>4 DEF Timeout, Event, Commands, testVars
<1>5. CASE Nothing
  BY <1>2, <1>5 DEF Nothing, Event, Commands, testVars
<1> QED
  BY <1>3, <1>4, <1>5 DEF Poll

\* the shunt state: commands leave the shunt alone or stop it, all other passes run it
LEMMA HandleShuntShunt == ASSUME AppIInv, HandleShunt PROVE ShuntPart'
<1> USE DEF AppIInv
<1>1. /\ state = "shunt" /\ lag' = 0 /\ evt' = "none" /\ UNCHANGED test_state
      /\ lag \in 0 .. MaxLoop /\ loop_timeout \in Int
      /\ rx' = IF evt \in Commands THEN NoPacket ELSE rx
  BY DEF HandleShunt, Handler, testVars, AppTypes, ShuntInv, TypeOK, Left
<1>2. CASE evt \in Commands
  <2>1. CASE evt = "SHUNTOFF"
    <3>1. Stop /\ state' = "idle"
      BY <1>2, <2>1 DEF HandleShunt, EnterIdle
    <3> QED
      BY <3>1, StopInv DEF ShuntPart, Loads, LookedAt
  <2>2. CASE evt # "SHUNTOFF"
    <3>1. UNCHANGED shuntVars /\ UNCHANGED state
      BY <1>2, <2>2 DEF HandleShunt, Stay
    <3>2. shunt_status # "OFF" => loop_timeout >= 1 - lag
      BY <1>1, <1>2 DEF LookedAt, CommandJustBefore
    <3>3. CommandJustBefore'
      BY <1>1, <1>2 DEF CommandJustBefore, NoPacket, Commands
    <3>4. LookedAt'
      BY <1>1, <3>1, <3>2, <3>3, AppBounds DEF LookedAt, shuntVars
    <3> QED
      BY <1>1, <3>1, <3>4, StutterInv DEF ShuntPart, Loads, shuntVars
  <2> QED
    BY <2>1, <2>2
<1>3. CASE evt \notin Commands
  <2>1. AnyRun /\ (IF shunt_status' = "OFF" THEN state' = "idle" ELSE UNCHANGED state)
    BY <1>3 DEF HandleShunt, EnterIdle, Stay
  <2>2. /\ ShuntInv'
        /\ \/ shunt_status' = "OFF" /\ ~override'
           \/ /\ shunt_status # "OFF" /\ shunt_status' # "OFF" /\ UNCHANGED override
              /\ \/ loop_timeout > 0 /\ loop_timeout' = loop_timeout
                 \/ loop_timeout <= 0 /\ loop_timeout' = loop_timeout + SHUNT_LOOP_TIME
    BY <2>1, RunInv
  <2>3. Loads'
    <3>1. ~override
      BY <1>1 DEF Loads
    <3>2. ~override'
      BY <2>2, <3>1
    <3>3. shunt_status' # "OFF" => state' = "shunt"
      BY <1>1, <2>1
    <3> QED
      BY <3>2, <3>3 DEF Loads
  <2>4. shunt_status # "OFF" => loop_timeout >= 1 - 2 * MaxLoop
    <3> SUFFICES ASSUME shunt_status # "OFF" PROVE loop_timeout >= 1 - 2 * MaxLoop
      OBVIOUS
    <3>1. lag \in 0 .. MaxLoop /\ loop_timeout \in Int
      BY <1>1
    <3>2. loop_timeout >= 1 - lag \/ loop_timeout >= 1 - lag - MaxLoop
      BY <1>1 DEF LookedAt
    <3> QED
      BY <3>1, <3>2, AppBounds
  <2>5. LookedAt'
    BY <1>1, <2>1, <2>2, <2>4, AppBounds, Bounds DEF LookedAt
  <2> QED
    BY <2>2, <2>3, <2>5 DEF ShuntPart
<1> QED
  BY <1>2, <1>3

LEMMA ShuntStep == ASSUME AppIInv, [AppNext]_vars PROVE ShuntPart'
<1> USE DEF AppIInv
<1>1. CASE PacketStarts
  <2>1. UNCHANGED shuntVars /\ UNCHANGED <<state, test_state, evt, lag>> /\ rx' = 1
        /\ lag \in 0 .. MaxLoop
    BY <1>1 DEF PacketStarts, testVars, AppTypes
  <2> QED
    BY <2>1, StutterInv DEF ShuntPart, Loads, LookedAt, CommandJustBefore, shuntVars
<1>2. CASE PacketByte
  <2>1. /\ UNCHANGED shuntVars /\ UNCHANGED <<state, test_state, evt, lag>>
        /\ lag \in 0 .. MaxLoop /\ rx \in Nat
        /\ rx' \in {rx, 0} \/ rx = PKT_MIN + 1
    BY <1>2 DEF PacketByte, testVars, AppTypes, NoPacket
  <2>2. CommandJustBefore => CommandJustBefore'
    BY <2>1, AppBounds DEF CommandJustBefore
  <2> QED
    BY <2>1, <2>2, StutterInv DEF ShuntPart, Loads, LookedAt, shuntVars
<1>3. CASE Reboot
  <2>1. /\ shunt_status' = "OFF" /\ ~timer' /\ ~override' /\ state' = "initial"
    BY <1>3 DEF Reboot
  <2>2. TypeOK'
    BY <1>3, SmallTimes DEF Reboot, ShuntInv, TypeOK
  <2> QED
    BY <1>3, <2>1, <2>2
       DEF Reboot, ShuntPart, ShuntInv, TimerOff, Timing, Resting, Loads, LookedAt
<1>4. CASE HandleInitial \/ HandlePowerup \/ HandleDfu \/ HandleSleep
  <2>1. UNCHANGED shuntVars /\ UNCHANGED test_state /\ state' \notin {"shunt"}
        /\ state \notin {"shunt", "testmode"}
    BY <1>4 DEF HandleInitial, HandlePowerup, HandleDfu, HandleSleep, Handler, EnterIdle,
                Stay, testVars
  <2> QED
    BY <2>1, StutterInv DEF ShuntPart, Loads, LookedAt, shuntVars
<1>5. CASE HandleIdle
  <2>1. state = "idle" /\ UNCHANGED test_state /\ lag' = 0
    BY <1>5 DEF HandleIdle, Handler, EnterSleep, IdleCommand, IdleWatch, testVars
  <2>2. CASE UNCHANGED shuntVars /\ state' # "shunt"
    BY <2>1, <2>2, StutterInv DEF ShuntPart, Loads, LookedAt, shuntVars
  <2>3. CASE EnterShunt
    <3>1. Start(0) /\ loop_timeout' = 1 /\ state' = "shunt"
      BY <2>3 DEF EnterShunt, Start
    <3> QED
      BY <2>1, <3>1, StartInv, SmallTimes DEF ShuntPart, Loads, LookedAt
  <2> QED
    BY <1>5, <2>1, <2>2, <2>3
       DEF HandleIdle, EnterSleep, IdleCommand, IdleWatch, EnterDfu, EnterTestmode
<1>6. CASE HandleTestmode
  <2>1. PICK temp \in Temps : TestRun(temp)
    BY <1>6 DEF HandleTestmode
  <2>2. IF test_state' = "off" THEN state' = "idle" ELSE UNCHANGED state
    BY <1>6 DEF HandleTestmode, EnterIdle, Stay
  <2>3. state = "testmode"
    BY <1>6 DEF HandleTestmode, Handler
  <2> HIDE DEF AppIInv
  <2>4. /\ ShuntInv'
        /\ \/ test_state' = "off" /\ shunt_status' = "OFF" /\ ~override'
           \/ test_state # "off" /\ UNCHANGED test_state
    BY <2>1, TestRunFacts DEF AppIInv
  <2> QED
    BY <2>2, <2>3, <2>4 DEF ShuntPart, Loads, LookedAt
<1>7. CASE UNCHANGED vars
  BY <1>7, StutterInv
     DEF vars, mainVars, testVars, ShuntPart, Loads, LookedAt, CommandJustBefore, shuntVars
<1> QED
  BY <1>1, <1>2, <1>3, <1>4, <1>5, <1>6, <1>7, TickShunt, PollShunt, HandleShuntShunt
     DEF AppNext, Main

-----------------------------------------------------------------------------
(* The main loop.                                                          *)

MainPart == Petted /\ Passes /\ Listening /\ Sleeping /\ Quiet

\* the numbers of the main loop, as the prover needs them
LEMMA MainTypesFacts ==
    ASSUME AppTypes
    PROVE  /\ lag \in Nat /\ lag <= MaxLoop /\ rx \in Nat /\ wdt \in Int
           /\ state_tmr \in Int /\ calm \in Nat /\ calm <= IDLE_TIME
           /\ wdt \in {-1} \cup Nat /\ wdt <= WDT_TIME
BY AppBounds DEF AppTypes, NoTimer, WdtOff, CalmCap

LEMMA TickMain == ASSUME AppIInv, AppTick PROVE MainPart'
<1> USE DEF AppIInv
<1>1. /\ lag \in Nat /\ lag <= MaxLoop /\ rx \in Nat /\ wdt \in Int
      /\ state_tmr \in Int /\ calm \in Nat /\ calm <= IDLE_TIME
      /\ wdt \in {-1} \cup Nat /\ wdt <= WDT_TIME
  BY MainTypesFacts
<1>2. UNCHANGED <<state, pc, evt, asleep>> /\ ~asleep /\ lag' = lag + 1 /\ lag < MaxLoop
  BY DEF AppTick
<1>3. rx' \in {rx, rx + 1}
  BY DEF AppTick
<1>4. state_tmr' = IF state_tmr > 0 THEN state_tmr - 1 ELSE state_tmr
  BY DEF AppTick
<1>5. Petted'
  <2>1. wdt' = IF wdt \in {WdtOff, WDT_TIME} THEN wdt ELSE wdt + 1
    BY DEF AppTick
  <2>2. CommandJustBefore => CommandJustBefore'
    BY <1>1, <1>2, <1>3 DEF CommandJustBefore
  <2>3. wdt' = WdtOff <=> state' = "sleep"
    BY <1>1, <1>2, <2>1, AppBounds DEF Petted, WdtOff
  <2>4. wdt' <= lag' + MaxLoop
    BY <1>1, <1>2, <2>1, AppBounds DEF Petted, WdtOff
  <2>5. wdt' > lag' => wdt > lag
    BY <1>1, <1>2, <2>1, AppBounds DEF WdtOff
  <2> QED
    BY <1>2, <2>2, <2>3, <2>4, <2>5 DEF Petted
<1>6. Passes'
  BY <1>1, <1>2, <1>4 DEF Passes, NoTimer
<1>7. Listening'
  BY <1>1, <1>2, <1>3, <1>4, AppBounds DEF Listening
<1>8. Sleeping'
  BY <1>2 DEF Sleeping
<1>9. Quiet'
  <2>1. calm' = IF state = "idle" /\ calm < CalmCap THEN calm + 1 ELSE calm
    BY DEF AppTick
  <2> QED
    BY <1>1, <1>2, <1>4, <2>1, AppBounds DEF Quiet, CalmCap
<1> QED
  BY <1>5, <1>6, <1>7, <1>8, <1>9 DEF MainPart

LEMMA BusMain == ASSUME AppIInv, PacketStarts \/ PacketByte PROVE MainPart'
<1> USE DEF AppIInv
<1>1. /\ lag \in Nat /\ lag <= MaxLoop /\ rx \in Nat /\ state_tmr \in Int /\ wdt \in Int
  BY MainTypesFacts
<1>2. /\ UNCHANGED <<state, pc, evt, state_tmr, wdt, lag, calm>> /\ ~asleep'
      /\ \/ rx' = 1 \/ rx' = rx \/ rx' = 0
         \/ rx = PKT_MIN + 1
  BY DEF PacketStarts, PacketByte, NoPacket
<1>3. rx <= lag + 1 => rx' <= lag' + 1
  BY <1>1, <1>2, AppBounds
<1>4. CommandJustBefore => CommandJustBefore'
  BY <1>2, <1>3 DEF CommandJustBefore
<1>5. Petted'
  BY <1>2, <1>4 DEF Petted
<1>6. Passes' /\ Sleeping' /\ Quiet'
  BY <1>2 DEF Passes, Sleeping, Quiet
<1>7. Listening'
  BY <1>2, <1>3 DEF Listening
<1> QED
  BY <1>5, <1>6, <1>7 DEF MainPart

LEMMA PollMain == ASSUME AppIInv, Poll PROVE MainPart'
<1> USE DEF AppIInv
<1>1. /\ lag \in Nat /\ lag <= MaxLoop /\ rx \in Nat /\ wdt \in Int
      /\ state_tmr \in Int /\ calm \in Nat
  BY MainTypesFacts
<1>2. UNCHANGED <<state, asleep, wdt, lag>> /\ ~asleep /\ pc = "poll" /\ evt = "none"
  BY DEF Poll, Passes
<1>3. "none" \notin Commands /\ "timeout" \notin Commands
  BY DEF Commands
<1>4. Sleeping'
  BY <1>2 DEF Sleeping
<1>5. CASE Timeout
  <2>1. /\ state_tmr = 0 /\ state_tmr' = NoTimer /\ pc' = "run" /\ evt' = "timeout"
        /\ UNCHANGED <<rx, calm>>
    BY <1>5 DEF Timeout, Event
  <2>2. Petted'
    BY <1>2, <1>3, <2>1 DEF Petted, CommandJustBefore
  <2>3. Listening'
    BY <1>1, <1>2, <2>1, AppBounds DEF Listening
  <2>4. Quiet'
    BY <1>1, <1>2, <1>3, <2>1 DEF Quiet, NoTimer
  <2> QED
    BY <1>4, <2>1, <2>2, <2>3, <2>4 DEF MainPart, Passes
<1>6. CASE Command
  <2>1. /\ UNCHANGED <<state_tmr, rx>> /\ rx = Ready /\ pc' = "run" /\ evt' \in Commands
    BY <1>6 DEF Command, Event, Commands
  <2>2. ~CommandJustBefore
    BY <1>1, <2>1, AppBounds DEF CommandJustBefore, Ready
  <2>3. Petted'
    BY <1>2, <2>2 DEF Petted
  <2>4. evt' # "timeout"
    BY <1>3, <2>1
  <2> QED
    BY <1>2, <1>4, <2>1, <2>3, <2>4 DEF MainPart, Passes, Listening, Quiet
<1>7. CASE Nothing
  <2>1. /\ UNCHANGED <<state_tmr, calm>> /\ pc' = "run" /\ evt' = "none"
        /\ rx' = rx \/ rx' = 0
    BY <1>7 DEF Nothing, Event, NoPacket
  <2>2. rx <= lag + 1 => rx' <= lag' + 1
    BY <1>1, <1>2, <2>1
  <2>3. CommandJustBefore => CommandJustBefore'
    BY <1>2, <2>1, <2>2 DEF CommandJustBefore
  <2>4. Petted'
    BY <1>2, <2>3 DEF Petted
  <2>5. Listening'
    BY <1>2, <2>1, <2>2 DEF Listening
  <2> QED
    BY <1>2, <1>4, <2>1, <2>4, <2>5 DEF MainPart, Passes, Quiet
<1> QED
  BY <1>5, <1>6, <1>7 DEF Poll

\* a handler that pets the watchdog
LEMMA PetMain ==
    ASSUME AppIInv, NEW s \in States, Handler(s), wdt' = 0, ~asleep',
           \/ UNCHANGED <<state, state_tmr, calm>> /\ s # "idle" /\ s # "sleep"
           \/ state' = "idle" /\ state_tmr' = IDLE_TIME /\ calm' = 0
           \/ /\ UNCHANGED <<state, calm>> /\ s = "idle" /\ evt \notin Commands
              /\ \/ state_tmr' = IDLE_TIME
                 \/ rx = NoPacket /\ UNCHANGED state_tmr
    PROVE  MainPart'
<1> USE DEF AppIInv
<1>1. lag \in Nat /\ rx \in Nat /\ state_tmr \in Int /\ calm \in Nat
  BY MainTypesFacts
<1>2. /\ state = s /\ pc' = "poll" /\ lag' = 0 /\ evt' = "none"
      /\ rx' = IF evt \in Commands THEN NoPacket ELSE rx
  BY DEF Handler
<1>3. state' # "sleep"
  BY <1>2
<1>4. Petted'
  BY <1>2, <1>3, AppBounds DEF Petted, WdtOff
<1>5. Passes' /\ Sleeping'
  BY <1>2 DEF Passes, Sleeping
<1>6. Listening'
  BY <1>1, <1>2, AppBounds DEF Listening, NoPacket
<1>7. Quiet'
  <2> SUFFICES ASSUME state' = "idle"
               PROVE  calm' >= IDLE_TIME - (IF state_tmr' < 0 THEN 0 ELSE state_tmr')
    BY DEF Quiet
  <2>1. CASE state_tmr' = IDLE_TIME /\ calm' \in Nat
    BY <2>1, AppBounds
  <2>2. CASE UNCHANGED <<state_tmr, calm>> /\ state = "idle" /\ evt \notin Commands
    BY <2>2 DEF Quiet
  <2> QED
    BY <1>1, <1>2, <2>1, <2>2
<1> QED
  BY <1>4, <1>5, <1>6, <1>7 DEF MainPart

\* A command's handler, and that of the first pass, leave the watchdog alone.
LEMMA UnpettedMain ==
    ASSUME AppIInv, NEW s \in States, Handler(s), UNCHANGED wdt, ~asleep',
           \/ s = "initial" /\ state' = "powerup"
           \/ evt \in Commands /\ s \in {"idle", "shunt"} /\ state' \notin {"initial", "sleep"},
           state' = "idle" => \/ state_tmr' = IDLE_TIME /\ calm' \in Nat
    PROVE  MainPart'
<1> USE DEF AppIInv
<1>1. lag \in Nat /\ lag <= MaxLoop /\ rx \in Nat /\ wdt \in Int
  BY MainTypesFacts
<1>2. /\ state = s /\ pc' = "poll" /\ lag' = 0 /\ evt' = "none"
      /\ rx' = IF evt \in Commands THEN NoPacket ELSE rx
  BY DEF Handler
<1>3. Petted'
  <2>1. wdt <= lag
    BY <1>1, <1>2 DEF Petted, CommandJustBefore
  <2>2. evt \in Commands => CommandJustBefore'
    BY <1>2 DEF CommandJustBefore, NoPacket, Commands
  <2>3. wdt # WdtOff /\ state' \notin {"initial", "sleep"}
    BY <1>2 DEF Petted
  <2>4. wdt' <= lag' + MaxLoop
    BY <1>1, <1>2, <2>1, AppBounds
  <2> QED
    BY <1>2, <2>2, <2>3, <2>4 DEF Petted
<1>4. Passes' /\ Sleeping'
  BY <1>2 DEF Passes, Sleeping
<1>5. Listening'
  BY <1>2, AppBounds DEF Listening
<1>6. Quiet'
  BY AppBounds DEF Quiet
<1> QED
  BY <1>3, <1>4, <1>5, <1>6 DEF MainPart

\* The timer of the idle state has run out: the buffer was empty when this pass
\* began.
LEMMA SleepMain == ASSUME AppIInv, Handler("idle"), evt = "timeout", EnterSleep PROVE MainPart'
<1> USE DEF AppIInv
<1>1. lag \in Nat /\ lag <= MaxLoop /\ rx \in Nat
  BY MainTypesFacts
<1>2. /\ state = "idle" /\ pc' = "poll" /\ lag' = 0 /\ evt' = "none" /\ rx' = rx
      /\ state' = "sleep" /\ wdt' = WdtOff
  BY DEF Handler, EnterSleep, Commands
<1>3. state_tmr = NoTimer
  BY DEF Passes
<1>4. rx <= PKT_MIN
  BY <1>1, <1>2, <1>3, AppBounds DEF Listening, NoTimer
<1>5. Petted'
  BY <1>2, AppBounds DEF Petted, WdtOff
<1> QED
  BY <1>2, <1>4, <1>5 DEF MainPart, Passes, Listening, Sleeping, Quiet

LEMMA MainStep == ASSUME AppIInv, [AppNext]_vars PROVE MainPart'
<1> USE DEF AppIInv
<1> calm \in Nat
  BY MainTypesFacts
<1> "idle" \in States /\ "shunt" \in States /\ "initial" \in States /\ "powerup" \in States
    /\ "dfu" \in States /\ "testmode" \in States /\ "sleep" \in States
  BY DEF States
<1>1. CASE Reboot
  BY <1>1, AppBounds
     DEF Reboot, MainPart, Petted, Passes, Listening, Sleeping, Quiet, WdtOff, NoTimer
<1>2. CASE HandleInitial
  <2>1. Handler("initial") /\ UNCHANGED wdt /\ ~asleep' /\ state' = "powerup"
    BY <1>2 DEF HandleInitial, Handler
  <2> QED
    BY <2>1, UnpettedMain
<1>3. CASE HandlePowerup
  <2>1. /\ Handler("powerup") /\ wdt' = 0 /\ ~asleep'
        /\ \/ UNCHANGED <<state, state_tmr, calm>>
           \/ state' = "idle" /\ state_tmr' = IDLE_TIME /\ calm' = 0
    BY <1>3 DEF HandlePowerup, Handler, Stay, EnterIdle
  <2> QED
    BY <2>1, PetMain
<1>4. CASE HandleDfu
  <2>1. /\ Handler("dfu") /\ wdt' = 0 /\ ~asleep'
        /\ \/ UNCHANGED <<state, state_tmr, calm>>
           \/ state' = "idle" /\ state_tmr' = IDLE_TIME /\ calm' = 0
    BY <1>4 DEF HandleDfu, Handler, Stay, EnterIdle
  <2> QED
    BY <2>1, PetMain
<1>5. CASE HandleTestmode
  <2>1. /\ Handler("testmode") /\ wdt' = 0 /\ ~asleep'
        /\ \/ UNCHANGED <<state, state_tmr, calm>>
           \/ state' = "idle" /\ state_tmr' = IDLE_TIME /\ calm' = 0
    BY <1>5 DEF HandleTestmode, Handler, Stay, EnterIdle
  <2> QED
    BY <2>1, PetMain
<1>6. CASE HandleSleep
  <2>1. /\ Handler("sleep") /\ wdt' = 0 /\ ~asleep'
        /\ state' = "idle" /\ state_tmr' = IDLE_TIME /\ calm' = 0
    BY <1>6 DEF HandleSleep, Handler, EnterIdle
  <2> QED
    BY <2>1, PetMain
<1>7. CASE HandleShunt
  <2>1. Handler("shunt") /\ ~asleep'
    BY <1>7 DEF HandleShunt, Handler, Stay, EnterIdle
  <2>2. \/ UNCHANGED <<state, state_tmr, calm>>
        \/ state' = "idle" /\ state_tmr' = IDLE_TIME /\ calm' = 0
    BY <1>7 DEF HandleShunt, Stay, EnterIdle
  <2>3. \/ wdt' = 0
        \/ UNCHANGED wdt /\ evt \in Commands
    BY <1>7 DEF HandleShunt
  <2>4. CASE wdt' = 0
    BY <2>1, <2>2, <2>4, PetMain
  <2>5. CASE UNCHANGED wdt /\ evt \in Commands
    <3>1. state' \notin {"initial", "sleep"} /\ (state' = "idle" => state_tmr' = IDLE_TIME /\ calm' \in Nat)
      BY <2>1, <2>2 DEF Handler
    <3> QED
      BY <2>1, <2>5, <3>1, UnpettedMain
  <2> QED
    BY <2>3, <2>4, <2>5
<1>8. CASE HandleIdle
  <2>1. Handler("idle")
    BY <1>8 DEF HandleIdle
  <2>2. CASE evt = "timeout" /\ EnterSleep
    BY <2>1, <2>2, SleepMain
  <2>3. CASE IdleCommand
    <3>1. evt \in Commands /\ UNCHANGED wdt /\ ~asleep' /\ state' \notin {"initial", "sleep"}
          /\ (state' = "idle" => state_tmr' = IDLE_TIME /\ calm' \in Nat)
      BY <2>1, <2>3 DEF IdleCommand, Handler, EnterDfu, EnterShunt, EnterTestmode
    <3> QED
      BY <2>1, <3>1, UnpettedMain
  <2>4. CASE IdleWatch
    <3>1. /\ evt = "none" /\ wdt' = 0 /\ ~asleep' /\ UNCHANGED <<state, calm>>
          /\ state_tmr' = IDLE_TIME \/ (rx = NoPacket /\ UNCHANGED state_tmr)
      BY <2>1, <2>4 DEF IdleWatch, Handler
    <3>2. evt \notin Commands
      BY <3>1 DEF Commands
    <3> QED
      BY <2>1, <3>1, <3>2, PetMain
  <2> QED
    BY <1>8, <2>2, <2>3, <2>4 DEF HandleIdle
<1>9. CASE UNCHANGED vars
  BY <1>9 DEF vars, mainVars, MainPart, Petted, Passes, Listening, Sleeping, Quiet,
              CommandJustBefore
<1> QED
  BY <1>1, <1>2, <1>3, <1>4, <1>5, <1>6, <1>7, <1>8, <1>9, TickMain, BusMain, PollMain
     DEF AppNext, Main

-----------------------------------------------------------------------------
(* The time of a test function.                                            *)

LEMMA Seconds ==
    /\ 0 * SECOND = 0
    /\ \A n \in Nat : n * SECOND \in Nat /\ (n + 1) * SECOND = n * SECOND + SECOND
    /\ \A n \in Nat : n <= TEST_SECONDS - 1 => n * SECOND <= TEST_SECONDS * SECOND - SECOND
<1>1. \A n \in Nat : n * SECOND \in Nat /\ (n + 1) * SECOND = n * SECOND + SECOND
  BY AppBounds
<1>2. ASSUME NEW n \in Nat, n <= TEST_SECONDS - 1
      PROVE  n * SECOND <= TEST_SECONDS * SECOND - SECOND
  <2> DEFINE k == TEST_SECONDS - 1 - n
  <2>1. k \in Nat /\ TEST_SECONDS = n + k + 1
    BY <1>2, AppBounds
  <2> HIDE DEF k
  <2>2. TEST_SECONDS * SECOND = n * SECOND + k * SECOND + SECOND
    BY <2>1, AppBounds
  <2> QED
    BY <2>1, <2>2, <1>1, AppBounds
<1> QED
  BY <1>1, <1>2, AppBounds

\* TestTime of a state whose seconds amount to `sum'
TestTimeAt(sum, left, age, ticks, on) ==
    \/ age <= sum + ticks
    \/ on /\ left >= 1 - ticks /\ age + left <= Half + MaxLoop + sum

LEMMA TestTimeStep == ASSUME AppIInv, AppNext \/ UNCHANGED vars PROVE TestTime'
<1> USE DEF AppIInv
<1>1. /\ lag \in Nat /\ lag <= MaxLoop /\ tested \in Nat /\ test_timeout \in Left
      /\ test_seconds \in Nat /\ test_timeout \in Int
  BY AppBounds, Bounds DEF AppTypes, TestedCap, Left
<1> DEFINE sum == test_seconds * SECOND
<1>2. sum \in Nat
  BY <1>1, Seconds
<1> HIDE DEF sum
<1>3. TestTime <=>
        (state = "testmode" =>
            TestTimeAt(sum, test_timeout, tested, lag, test_state # "off"))
  BY DEF TestTime, TestTimeAt, sum
<1>4. CASE UNCHANGED <<state, test_state, test_seconds, test_timeout, lag, tested>>
  BY <1>4 DEF TestTime
<1>5. CASE state' # "testmode"
  BY <1>5 DEF TestTime
<1>6. CASE AppTick
  <2>1. /\ UNCHANGED <<state, test_state, test_seconds>> /\ lag' = lag + 1 /\ lag < MaxLoop
        /\ test_timeout' = IF test_state = "off" THEN 0 ELSE Down(test_timeout)
        /\ tested' \in {tested, tested + 1}
        /\ test_state # "off" \/ tested' = tested
    BY <1>6 DEF AppTick
  <2>2. sum' = sum
    BY <2>1 DEF sum
  <2>3. CASE tested <= sum + lag
    <3>1. tested' <= sum' + lag'
      BY <1>1, <1>2, <2>1, <2>2, <2>3
    <3> QED
      BY <3>1 DEF TestTime, sum
  <2>4. CASE /\ test_state # "off" /\ test_timeout >= 1 - lag
             /\ tested + test_timeout <= Half + MaxLoop + sum
    <3>1. test_timeout # 1 - Half
      BY <1>1, <2>1, <2>4, AppBounds, Bounds
    <3>2. test_timeout' = test_timeout - 1
      BY <1>1, <2>1, <2>4, <3>1, DownOne
    <3>3. test_timeout' >= 1 - lag'
      BY <1>1, <2>1, <2>4, <3>2
    <3>4. tested' + test_timeout' <= Half + MaxLoop + sum'
      <4>1. tested' = tested \/ tested' = tested + 1
        BY <2>1
      <4> QED
        BY <1>1, <1>2, <2>2, <2>4, <3>2, <4>1, AppBounds, Bounds
    <3> QED
      BY <2>1, <2>4, <3>3, <3>4 DEF TestTime, sum
  <2> QED
    BY <1>3, <1>5, <2>1, <2>3, <2>4 DEF TestTimeAt
<1>7. CASE Poll
  <2>1. UNCHANGED lag
    BY <1>7 DEF Poll
  <2>2. CASE tested' = 0
    <3>1. test_seconds' = test_seconds \/ test_seconds' = 0
      BY <1>7, TestOnFacts
         DEF Poll, Timeout, Nothing, Command, testVars, AppTypes
    <3>2. test_seconds' * SECOND \in Nat
      BY <1>1, <3>1, Seconds
    <3>3. tested' <= test_seconds' * SECOND + lag'
      BY <1>1, <2>1, <2>2, <3>2
    <3> QED
      BY <3>3 DEF TestTime
  <2>3. CASE UNCHANGED <<testVars, tested>>
    BY <1>4, <1>7, <2>3 DEF Poll, testVars
  <2> QED
    BY <1>7, <2>2, <2>3 DEF Poll, Timeout, Nothing, Command
<1>8. CASE HandleTestmode
  <2>1. PICK temp \in Temps : TestRun(temp)
    BY <1>8 DEF HandleTestmode
  <2>2. state = "testmode" /\ lag' = 0
    BY <1>8 DEF HandleTestmode, Handler
  <2>3. CASE test_state' = "off"
    BY <1>5, <1>8, <2>3 DEF HandleTestmode, EnterIdle
  <2>4. CASE test_state' # "off"
    <3>1. UNCHANGED <<state, tested>>
      BY <1>8, <2>4 DEF HandleTestmode, Stay
    <3>2. /\ UNCHANGED test_state
          /\ \/ test_timeout > 0 /\ UNCHANGED <<test_seconds, test_timeout>>
             \/ /\ test_timeout <= 0 /\ test_seconds' = test_seconds + 1
                /\ test_timeout' = test_timeout + SECOND
      BY <2>1, <2>4, TestRunFacts
    <3>3. TestTimeAt(sum, test_timeout, tested, lag, test_state # "off")
      BY <1>3, <2>2
    <3>4. CASE test_timeout > 0 /\ UNCHANGED <<test_seconds, test_timeout>>
      <4>1. sum' = sum
        BY <3>4 DEF sum
      <4>2. \/ tested' <= sum' + lag'
            \/ /\ test_timeout' >= 1 - lag'
               /\ tested' + test_timeout' <= Half + MaxLoop + sum'
        <5>1. CASE tested <= sum + lag
          <6>1. test_timeout <= Half
            BY <1>1, Bounds DEF Left
          <6> QED
            BY <1>1, <1>2, <2>2, <3>1, <3>4, <4>1, <5>1, <6>1, AppBounds, Bounds
        <5>2. CASE tested + test_timeout <= Half + MaxLoop + sum
          BY <1>1, <1>2, <2>2, <3>1, <3>4, <4>1, <5>2, AppBounds, Bounds
        <5> QED
          BY <3>3, <5>1, <5>2 DEF TestTimeAt
      <4> QED
        BY <2>4, <4>2 DEF TestTime, sum
    <3>5. CASE /\ test_timeout <= 0 /\ test_seconds' = test_seconds + 1
               /\ test_timeout' = test_timeout + SECOND
      <4>1. sum' = sum + SECOND
        BY <1>1, <3>5, Seconds DEF sum
      <4>2. \/ tested' <= sum' + lag'
            \/ /\ test_timeout' >= 1 - lag'
               /\ tested' + test_timeout' <= Half + MaxLoop + sum'
        <5>1. CASE tested <= sum + lag
          BY <1>1, <1>2, <2>2, <3>1, <4>1, <5>1, AppBounds
        <5>2. CASE /\ test_timeout >= 1 - lag
                   /\ tested + test_timeout <= Half + MaxLoop + sum
          BY <1>1, <1>2, <2>2, <3>1, <3>5, <4>1, <5>2, AppBounds, Bounds
        <5> QED
          BY <3>3, <5>1, <5>2 DEF TestTimeAt
      <4> QED
        BY <2>4, <4>2 DEF TestTime, sum
    <3> QED
      BY <3>2, <3>4, <3>5
  <2> QED
    BY <2>3, <2>4
<1>9. CASE HandleIdle
  <2>1. CASE EnterTestmode
    <3>1. tested' = 0 /\ UNCHANGED test_seconds /\ lag' = 0
      BY <1>9, <2>1 DEF HandleIdle, Handler, IdleCommand, IdleWatch, EnterSleep, EnterTestmode,
                        testVars
    <3>2. tested' <= test_seconds' * SECOND + lag'
      BY <1>1, <3>1, Seconds
    <3> QED
      BY <3>2 DEF TestTime
  <2>2. CASE state' # "testmode"
    BY <1>5, <2>2
  <2> QED
    BY <1>9, <2>1, <2>2
       DEF HandleIdle, Handler, IdleCommand, IdleWatch, EnterSleep, EnterDfu, EnterShunt
<1>10. CASE PacketStarts \/ PacketByte \/ UNCHANGED vars
  BY <1>4, <1>10 DEF PacketStarts, PacketByte, vars, testVars, mainVars
<1>11. CASE \/ Reboot \/ HandleInitial \/ HandlePowerup \/ HandleDfu \/ HandleShunt
            \/ HandleSleep
  BY <1>5, <1>11 DEF Reboot, HandleInitial, HandlePowerup, HandleDfu, HandleShunt,
                     HandleSleep, Handler, Stay, EnterIdle
<1> QED
  BY <1>6, <1>7, <1>8, <1>9, <1>10, <1>11 DEF AppNext, Main

-----------------------------------------------------------------------------
(* The theorems.                                                           *)

\* The inductive invariant of the application: types, why the load is on, how far
\* the watchdog, the control timer, the timers of idle and of a test can be behind,
\* and what the bus can have brought since they were last looked at.
THEOREM AppInvariance == AppSpec => []AppIInv
<1>1. AppInit => AppIInv
  BY AppInitIInv
<1>2. AppIInv /\ [AppNext]_vars => AppIInv'
  <2> SUFFICES ASSUME AppIInv, [AppNext]_vars PROVE AppIInv'
    OBVIOUS
  <2>1. AppTypes' /\ ShuntPart' /\ MainPart' /\ TestTime'
    BY TypesStep, ShuntStep, MainStep, TestTimeStep
  <2> QED
    BY <2>1 DEF AppIInv, ShuntPart, MainPart
<1> QED
  BY <1>1, <1>2, PTL DEF AppSpec

\* Every variable of the main loop, the states and the test modes keeps its type,
\* and the seconds of a test function never pass their limit (testmode.c:52-58,
\* 126-140).
THEOREM AppTypeCorrect == AppSpec => []AppTypeOK
<1>1. AppIInv => AppTypeOK
  BY DEF AppIInv, AppTypes, ShuntInv, AppTypeOK
<1> QED
  BY <1>1, AppInvariance, PTL

\* The load is on only while the node shunts or a test function is on, and a shunt
\* that reports to be off is lit by the blink test only, through all commands,
\* timeouts, test functions and reboots (main.c:275-356, testmode.c:67-199).
THEOREM LoadHasAReason == AppSpec => []LoadExplained
<1>1. AppIInv => LoadExplained
  BY DEF AppIInv, ShuntInv, TimerOff, Loads, LoadExplained, LoadOn
<1> QED
  BY <1>1, AppInvariance, PTL

\* The watchdog never resets a node whose main loop runs: no two passes in a row
\* leave it alone (main.c:141-413).
THEOREM WatchdogNeverBites == AppSpec => []WatchdogFed
<1>1. AppIInv => WatchdogFed
  <2> SUFFICES ASSUME AppIInv PROVE WatchdogFed
    OBVIOUS
  <2>1. lag \in Nat /\ lag <= MaxLoop /\ wdt \in Int
    BY MainTypesFacts DEF AppIInv
  <2>2. wdt <= lag + MaxLoop /\ (wdt = WdtOff => state = "sleep")
    BY DEF AppIInv, Petted
  <2> QED
    BY <2>1, <2>2, AppBounds DEF WatchdogFed
<1> QED
  BY <1>1, AppInvariance, PTL

\* No packet is complete while the processor sleeps: the buffer was empty at the
\* last look before the idle timer ran out, and a packet takes longer than a pass
\* (main.c:207-224, 384).
THEOREM NoPacketSleptOver == AppSpec => []NoPacketAsleep
<1>1. AppIInv => NoPacketAsleep
  BY MainTypesFacts, AppBounds DEF AppIInv, Sleeping, NoPacketAsleep, Ready
<1> QED
  BY <1>1, AppInvariance, PTL

\* The node goes to sleep only after a full idle time in which it was idle and
\* took no command, whatever timer the state before had left running
\* (main.c:161-211).
THEOREM SleepsAfterQuiet == AppSpec => SleepsOnlyWhenQuiet
<1>1. AppIInv /\ [AppNext]_vars => (~asleep /\ asleep' => calm >= IDLE_TIME)
  <2> SUFFICES ASSUME AppIInv, [AppNext]_vars, ~asleep, asleep'
               PROVE  calm >= IDLE_TIME
    OBVIOUS
  <2>1. CASE HandleIdle /\ evt = "timeout"
    <3>1. state = "idle" /\ evt \notin Commands
      BY <2>1 DEF HandleIdle, Handler, Commands
    <3>2. state_tmr = NoTimer
      BY <2>1 DEF AppIInv, Passes
    <3> QED
      BY <3>1, <3>2, AppBounds DEF AppIInv, Quiet, NoTimer
  <2>2. CASE HandleIdle /\ evt # "timeout"
    BY <2>2 DEF HandleIdle, IdleCommand, IdleWatch, EnterDfu, EnterShunt, EnterTestmode
  <2>3. CASE ~HandleIdle
    BY <2>3 DEF AppNext, Main, AppTick, PacketStarts, PacketByte, Poll, Reboot, HandleInitial,
                HandlePowerup, HandleDfu, HandleShunt, HandleTestmode, HandleSleep,
                EnterIdle, Stay, vars, mainVars
  <2> QED
    BY <2>1, <2>2, <2>3
<1>2. AppIInv /\ [AppNext]_vars => [~asleep /\ asleep' => calm >= IDLE_TIME]_vars
  BY <1>1
<1> QED
  BY <1>2, AppInvariance, PTL DEF AppSpec, SleepsOnlyWhenQuiet

\* Shunting ends when nobody asks, although commands take passes away from
\* shunt_run(); a test function ends in the testmode state, at the latest half a
\* turn of the clock after its time (main.c:289-315, testmode.c:116-137).
THEOREM LoadsAlwaysEnd == AppSpec => []LoadsEnd
<1>1. AppIInv => LoadsEnd
  <2> SUFFICES ASSUME AppIInv PROVE LoadsEnd
    OBVIOUS
  <2>1. UnattendedEnds
    <3> SUFFICES ASSUME shunt_status # "OFF"
                 PROVE  quiet <= SHUNT_IDLE_TIME + SHUNT_LOOP_TIME + MaxLate
      BY DEF UnattendedEnds
    <3>1. /\ loop_timeout \in -MaxLate .. SHUNT_LOOP_TIME /\ quiet \in Nat
          /\ quiet + loop_timeout <= SHUNT_IDLE_TIME + SHUNT_LOOP_TIME
      BY DEF AppIInv, ShuntInv, Timing, TypeOK
    <3> QED
      BY <3>1, Bounds
  <2>2. ASSUME state = "testmode"
        PROVE  tested <= TEST_SECONDS * SECOND + Half + 2 * MaxLoop
    <3>1. /\ lag \in Nat /\ lag <= MaxLoop /\ tested \in Nat /\ test_timeout \in Int
          /\ test_seconds \in Nat /\ test_seconds <= TEST_SECONDS - 1
      BY AppBounds, Bounds DEF AppIInv, AppTypes, TestedCap, Left
    <3> DEFINE sum == test_seconds * SECOND
               all == TEST_SECONDS * SECOND
    <3>2. sum \in Nat /\ sum <= all - SECOND /\ all \in Nat
      BY <3>1, Seconds, AppBounds
    <3>3. \/ tested <= sum + lag
          \/ test_timeout >= 1 - lag /\ tested + test_timeout <= Half + MaxLoop + sum
      BY <2>2 DEF AppIInv, TestTime
    <3> HIDE DEF sum, all
    <3>4. tested <= all + Half + 2 * MaxLoop
      BY <3>1, <3>2, <3>3, AppBounds, Bounds
    <3> QED
      BY <3>4 DEF all
  <2> QED
    BY <2>1, <2>2 DEF LoadsEnd
<1> QED
  BY <1>1, AppInvariance, PTL
=============================================================================
