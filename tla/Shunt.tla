------------------------------- MODULE Shunt -------------------------------
(***************************************************************************)
(* shunt.c: the shunt load and the loop that regulates it.                 *)
(*                                                                         *)
(* A timer is kept as the ticks that are left of it, its distance from the *)
(* present as an int16: it has expired when none is left, and counts on to *)
(* where the distance wraps and the timer lies ahead again.  (Cmd models   *)
(* the two times themselves.)  Timers of a shunt that is off are not read  *)
(* before they are set again, and stand at 0.                              *)
(*                                                                         *)
(* History variables: `hot', the last control pass found the board at or   *)
(* above temphi; `quiet', ticks since the shunt was started or its status  *)
(* was asked for.                                                          *)
(***************************************************************************)
EXTENDS Integers

CONSTANTS
    PWM_STEPS,          \* 256
    SHUNT_LOOP_TIME,    \* 100
    SHUNT_IDLE_TIME,    \* 30000
    MaxLate,            \* ticks by which a control pass may be late
    Half,               \* 32768, where a distance in time wraps
    Parms,              \* values of the configuration
    Voltages,           \* cell voltages in mV
    Temps               \* board temperatures in C

INT8_MAX == 127
INT16_MAX == 32767
UINT16_MAX == 65535
Int8   == -INT8_MAX - 1 .. INT8_MAX
Int16  == -INT16_MAX - 1 .. INT16_MAX
Uint16 == 0 .. UINT16_MAX

ASSUME ShuntAssumption ==
    /\ PWM_STEPS \in Nat /\ 2 <= PWM_STEPS /\ PWM_STEPS <= 256
    /\ SHUNT_LOOP_TIME \in Nat \ {0}
    /\ SHUNT_IDLE_TIME \in Nat \ {0}
    /\ MaxLate \in Nat /\ Half \in Nat
    /\ SHUNT_IDLE_TIME < Half
    /\ SHUNT_LOOP_TIME + MaxLate < Half
    /\ Parms \subseteq [shuntmin : Uint16, shuntmax : Uint16,
                        templo : Int8, temphi : Int8]
    /\ Voltages \subseteq Uint16 /\ Temps \subseteq Int16

VARIABLES
    parms,          \* g_cfg_parms
    shunt_status,
    pwm,
    timer,          \* TCA0 runs and drives the pin with `pwm'
    override,       \* CMP1OV of TCA0: the pin is high while the timer is off
    shunt_timeout,
    loop_timeout,
    vrange,
    trange,
    hot,
    quiet

shuntVars == <<parms, shunt_status, pwm, timer, override, shunt_timeout,
               loop_timeout, vrange, trange, hot, quiet>>

Full == PWM_STEPS - 1
Left == 1 - Half .. Half
U16(x) == x % 65536

\* where `quiet' stops counting
QuietCap == SHUNT_IDLE_TIME + SHUNT_LOOP_TIME + MaxLate + 1

\* Every variable holds what its C type allows; in particular the duty cycle
\* never steps past its ends (shunt.c:44-49, 235-244).
TypeOK ==
    /\ parms \in Parms
    /\ shunt_status \in {"OFF", "IDLE", "ON", "LIMIT"}
    /\ pwm \in 0 .. Full
    /\ timer \in BOOLEAN /\ override \in BOOLEAN /\ hot \in BOOLEAN
    /\ shunt_timeout \in Left
    /\ loop_timeout \in Left
    /\ vrange \in Uint16 /\ trange \in Uint16
    /\ quiet \in 0 .. QuietCap

Init ==
    /\ parms \in Parms
    /\ shunt_status = "OFF" /\ pwm = 0
    /\ timer = FALSE /\ override = FALSE
    /\ shunt_timeout = 0 /\ loop_timeout = 0
    /\ vrange = 0 /\ trange = 0
    /\ hot = FALSE /\ quiet = 0

-----------------------------------------------------------------------------
(* The operations.                                                         *)

\* shunt_start(), and then shunt_set(level)
Start(level) ==
    /\ shunt_status' = "IDLE"
    /\ pwm' = level
    /\ timer' = TRUE /\ override' = FALSE
    /\ shunt_timeout' = SHUNT_IDLE_TIME
    /\ loop_timeout' = 1
    /\ vrange' = U16(parms.shuntmax - parms.shuntmin)
    /\ trange' = U16(parms.temphi - parms.templo)
    /\ hot' = FALSE /\ quiet' = 0
    /\ UNCHANGED parms

\* as Stop, but the hardware timer is left to run (a mutant)
StopSoftly ==
    /\ shunt_status' = "OFF"
    /\ override' = FALSE
    /\ shunt_timeout' = 0 /\ loop_timeout' = 0
    /\ hot' = FALSE /\ quiet' = 0
    /\ UNCHANGED <<parms, pwm, timer, vrange, trange>>

\* shunt_stop()
Stop ==
    /\ shunt_status' = "OFF" /\ pwm' = 0
    /\ timer' = FALSE /\ override' = FALSE
    /\ shunt_timeout' = 0 /\ loop_timeout' = 0
    /\ hot' = FALSE /\ quiet' = 0
    /\ UNCHANGED <<parms, vrange, trange>>

\* shunt_get_status()
GetStatus ==
    /\ shunt_timeout' = IF shunt_status = "OFF" THEN 0 ELSE SHUNT_IDLE_TIME
    /\ quiet' = 0
    /\ UNCHANGED <<parms, shunt_status, pwm, timer, override, loop_timeout,
                   vrange, trange, hot>>

Quotient(x, y) == IF y = 0 THEN Uint16 ELSE {x \div y}

\* the duty cycle that the voltage asks for; a division by zero gives anything
ByVoltage(mv) ==
    IF mv <= parms.shuntmin THEN {0}
    ELSE IF mv >= parms.shuntmax THEN {Full}
    ELSE { IF q > Full THEN Full ELSE q :
             q \in Quotient((mv - parms.shuntmin) * PWM_STEPS, vrange) }

\* as ByTemp, but the upper limit too is taken from the range (a mutant)
ByTempOldLimit(temp) ==
    IF U16(temp) >= U16(parms.templo + trange) THEN {0}
    ELSE IF U16(temp) <= U16(parms.templo) THEN {Full}
    ELSE Quotient(U16((parms.templo + trange - temp) * PWM_STEPS), trange)

\* the most that the temperature allows, in uint16_t: the temperature and the
\* limits lose their signs
ByTemp(temp) ==
    IF U16(temp) >= U16(parms.temphi) THEN {0}
    ELSE IF U16(temp) <= U16(parms.templo) THEN {Full}
    ELSE Quotient(U16((parms.temphi - temp) * PWM_STEPS), trange)

\* the duty cycles that a control pass may aim at, with the status it reports
Targets(mv, temp) ==
    { [pwm    |-> IF limit < level THEN limit ELSE level,
       status |-> IF level = 0 /\ mv <= parms.shuntmin THEN "IDLE"
                  ELSE IF limit < level THEN "LIMIT" ELSE "ON"] :
         level \in ByVoltage(mv), limit \in ByTemp(temp) }

\* as Toward, but `adjust' is an unsigned number (a mutant)
TowardUp(from, to) == IF to > from THEN from + 1 ELSE from

\* one step of the duty cycle
Toward(from, to) ==
    IF to > from THEN from + 1 ELSE IF to < from THEN from - 1 ELSE from

\* as Control, but starts the idle timeout over (a mutant)
ControlRearms(mv, temp) ==
    \E t \in Targets(mv, temp) :
      /\ loop_timeout' = loop_timeout + SHUNT_LOOP_TIME
      /\ hot' = (U16(temp) >= U16(parms.temphi))
      /\ shunt_status' = t.status
      /\ pwm' = Toward(pwm, t.pwm)
      /\ shunt_timeout' = SHUNT_IDLE_TIME
      /\ UNCHANGED <<parms, timer, override, vrange, trange, quiet>>

\* a control pass of shunt_run(), which ends the shunting when nobody has asked
\* for the status for too long
Control(mv, temp) ==
    IF shunt_timeout <= 0 THEN Stop
    ELSE \E t \in Targets(mv, temp) :
           /\ loop_timeout' = loop_timeout + SHUNT_LOOP_TIME
           /\ hot' = (U16(temp) >= U16(parms.temphi))
           /\ shunt_status' = t.status
           /\ pwm' = Toward(pwm, t.pwm)
           /\ UNCHANGED <<parms, timer, override, shunt_timeout, vrange, trange,
                          quiet>>

\* shunt_run(); its result is the new shunt_status
Run(mv, temp) ==
    \/ shunt_status = "OFF" /\ Stop
    \/ shunt_status # "OFF" /\ loop_timeout > 0 /\ UNCHANGED shuntVars
    \/ shunt_status # "OFF" /\ loop_timeout <= 0 /\ Control(mv, temp)

\* cfg_set() of a parameter that the shunt reads
SetParms ==
    /\ parms' \in Parms
    /\ UNCHANGED <<shunt_status, pwm, timer, override, shunt_timeout,
                   loop_timeout, vrange, trange, hot, quiet>>

Down(left) == IF left = 1 - Half THEN Half ELSE left - 1

\* a millisecond
ShuntTick ==
    /\ IF shunt_status = "OFF"
       THEN UNCHANGED <<shunt_timeout, loop_timeout, quiet>>
       ELSE /\ shunt_timeout' = Down(shunt_timeout)
            /\ loop_timeout' = Down(loop_timeout)
            /\ quiet' = IF quiet < QuietCap THEN quiet + 1 ELSE quiet
    /\ UNCHANGED <<parms, shunt_status, pwm, timer, override, vrange, trange, hot>>

-----------------------------------------------------------------------------
(* The module on its own, with a client that calls shunt_run() at most     *)
(* MaxLate ticks late.                                                     *)

AnyRun == \E mv \in Voltages, temp \in Temps : Run(mv, temp)

Tick == /\ shunt_status = "OFF" \/ loop_timeout > -MaxLate
        /\ ShuntTick

Next == Start(0) \/ Stop \/ GetStatus \/ AnyRun \/ SetParms \/ Tick

\* The main loop never stops and time goes on.
Spec == Init /\ [][Next]_shuntVars /\ WF_shuntVars(AnyRun) /\ WF_shuntVars(Tick)

-----------------------------------------------------------------------------
(* Properties.                                                             *)

LoadOn == IF timer THEN pwm > 0 ELSE override

\* A shunt that reports to be off draws no current (shunt.h:59-61): the status
\* and the hardware go off together on every way out, by command and by timeout.
DarkWhenOff == shunt_status = "OFF" => ~LoadOn /\ ~timer

\* the parameters make sense
Sane == parms.shuntmin < parms.shuntmax /\ 0 <= parms.templo
        /\ parms.templo < parms.temphi

Clamp(x) == IF x < 0 THEN 0 ELSE IF x > Full THEN Full ELSE x
Smaller(x, y) == IF x < y THEN x ELSE y

\* the curves of the manual: linear between the limits, flat outside
VoltageCurve(mv) == Clamp(((mv - parms.shuntmin) * PWM_STEPS)
                          \div (parms.shuntmax - parms.shuntmin))
TempCurve(temp)  == Clamp(((parms.temphi - temp) * PWM_STEPS)
                          \div (parms.temphi - parms.templo))

\* A reading is judged right if it needs no range, or the range that was computed
\* when the shunt was started is still that of the limits.
VoltageSettled(mv) == \/ mv <= parms.shuntmin \/ mv >= parms.shuntmax
                      \/ vrange = parms.shuntmax - parms.shuntmin
TempSettled(temp)  == \/ temp <= parms.templo \/ temp >= parms.temphi
                      \/ trange = parms.temphi - parms.templo

AimsAtCurves(mv, temp) ==
    \A t \in Targets(mv, temp) :
        t.pwm = Smaller(VoltageCurve(mv), TempCurve(temp))

StaysBelow(curve, mv, temp) == \A t \in Targets(mv, temp) : t.pwm <= curve

\* Above freezing, with parameters that make sense, every control pass aims at
\* the lower of the two documented curves (command.md:282-305, shunt.c:178-230):
\* no overflow, no jump at the limits, no temperature at which the limit is lost.
\* The parameters may change while shunting. Only between limits whose distance
\* has changed does the old range then count (shunt.c:108): nothing is added to
\* what the other reading allows, and new limits themselves hold from the next
\* pass on.
CurvesFollowed ==
    shunt_status # "OFF" /\ Sane =>
        \A mv \in Voltages, temp \in Temps \cap Nat :
            /\ VoltageSettled(mv) => StaysBelow(VoltageCurve(mv), mv, temp)
            /\ TempSettled(temp) => StaysBelow(TempCurve(temp), mv, temp)
            /\ VoltageSettled(mv) /\ TempSettled(temp) => AimsAtCurves(mv, temp)

\* command.md:297: "When the temperature is below `TEMPLO`, there is no
\* temperature shunt power limit."
ColdNotLimited ==
    shunt_status # "OFF" /\ Sane =>
        \A mv \in Voltages, temp \in Temps :
            VoltageSettled(mv) /\ TempSettled(temp) => AimsAtCurves(mv, temp)

\* A shunt whose status nobody asks for turns itself off: at the latest one
\* control pass after its idle timeout, however late the passes are
\* (shunt.c:246-251).
UnattendedEnds ==
    shunt_status # "OFF" => quiet <= SHUNT_IDLE_TIME + SHUNT_LOOP_TIME + MaxLate

\* If from some time on every control pass finds the board too hot, the load
\* ends up off, and stays so (shunt.h:108-111).
HotCoolsDown == <>[]hot => <>[]~LoadOn
=============================================================================
