-------------------------------- MODULE Led --------------------------------
(***************************************************************************)
(* led.c: the LEDs, which blink or go out by themselves.                   *)
(*                                                                         *)
(* As in Shunt, a timer is kept as the ticks that are left of it.  The     *)
(* times of an LED whose mode does not use them stand at 0: they are set   *)
(* with the mode.                                                          *)
(*                                                                         *)
(* History: `since', the ticks since led_run() or a caller switched it.    *)
(***************************************************************************)
EXTENDS Integers

CONSTANTS
    Leds,       \* led_index
    OnTimes,    \* what callers pass to led_blink() and led_oneshot()
    OffTimes

ASSUME LedAssumption == OnTimes \subseteq Nat /\ OffTimes \subseteq Nat

VARIABLE led    \* struct led of each: mode, ton, toff, tmr, and whether it is lit

Timed == {"LED_BLINK_OFF", "LED_BLINK_ON", "LED_1SHOT"}
Modes == Timed \cup {"LED_OFF", "LED_ON"}

\* struct led
LedState(mode, ton, toff, tmr, lit, since) ==
    [mode |-> mode, ton |-> ton, toff |-> toff, tmr |-> tmr, lit |-> lit, since |-> since]

Off == LedState("LED_OFF", 0, 0, 0, FALSE, 0)

\* C's initial values
LedInit == led = [i \in Leds |-> Off]

Becomes(i, l) == led' = [led EXCEPT ![i] = l]

\* led_on(), led_off()
LedOn(i) == Becomes(i, LedState("LED_ON", 0, 0, 0, TRUE, 0))
LedOff(i) == Becomes(i, Off)

\* led_blink()
LedBlink(i) ==
    \E on \in OnTimes, off \in OffTimes :
        IF on = 0 THEN LedOff(i)
        ELSE IF off = 0 THEN LedOn(i)
        ELSE Becomes(i, LedState("LED_BLINK_ON", on, off, on, TRUE, 0))

\* as LedOneshot, but the timer keeps its old time (a mutant)
LedOneshotOldTime(i) ==
    \E on \in OnTimes :
        IF on = 0 THEN LedOff(i)
        ELSE Becomes(i, LedState("LED_1SHOT", 0, 0, led[i].tmr, TRUE, 0))

\* led_oneshot()
LedOneshot(i) ==
    \E on \in OnTimes :
        IF on = 0 THEN LedOff(i)
        ELSE Becomes(i, LedState("LED_1SHOT", 0, 0, on, TRUE, 0))

\* as LedProcessed, but with the times of a blinking LED exchanged (a mutant)
LedProcessedSwapped(l) ==
    IF l.mode \notin Timed \/ l.tmr > 0 THEN l
    ELSE IF l.mode = "LED_BLINK_OFF"
    THEN LedState("LED_BLINK_ON", l.ton, l.toff, l.tmr + l.toff, TRUE, 0)
    ELSE IF l.mode = "LED_BLINK_ON"
    THEN LedState("LED_BLINK_OFF", l.ton, l.toff, l.tmr + l.ton, FALSE, 0)
    ELSE Off

\* led_process()
LedProcessed(l) ==
    IF l.mode \notin Timed \/ l.tmr > 0 THEN l
    ELSE IF l.mode = "LED_BLINK_OFF"
    THEN LedState("LED_BLINK_ON", l.ton, l.toff, l.tmr + l.ton, TRUE, 0)
    ELSE IF l.mode = "LED_BLINK_ON"
    THEN LedState("LED_BLINK_OFF", l.ton, l.toff, l.tmr + l.toff, FALSE, 0)
    ELSE Off

\* led_run()
LedRun == led' = [i \in Leds |-> LedProcessed(led[i])]

Ticked(l) == LedState(l.mode, l.ton, l.toff, l.tmr - 1, l.lit, l.since + 1)

\* a tick of the clock
LedTick ==
    led' = [i \in Leds |-> IF led[i].mode \in Timed THEN Ticked(led[i]) ELSE led[i]]
=============================================================================
