------------------------------- MODULE Periph -------------------------------
(***************************************************************************)
(* The main loop's background: each pass runs the LEDs, then the           *)
(* converters, and then handles an event, in which the state machine may   *)
(* switch LEDs and turn the converters on or off (main.c:448-491).  The    *)
(* tick interrupt may come between any two of these.                       *)
(***************************************************************************)
EXTENDS Led, Adc

CONSTANT MaxLoop    \* ticks that a pass may take

VARIABLES at,       \* where in the pass
          lag       \* ticks since it began

vars == <<led, adcVars, at, lag>>

\* between two looks at a timer lie the rest of a pass and the start of the next
MaxLate == 2 * MaxLoop - 1

ASSUME PeriphAssumption ==
    /\ MaxLoop \in Nat \ {0}
    /\ \A t \in (OnTimes \cup OffTimes) \ {0} : t > MaxLate
    /\ ADC_SAMPLE_PERIOD > MaxLate

Init == LedInit /\ AdcInit /\ at = "leds" /\ lag = 0

RunLeds == /\ at = "leds" /\ at' = "adc"
           /\ LedRun
           /\ UNCHANGED <<adcVars, lag>>

RunAdc == /\ at = "adc" /\ at' = "event"
          /\ AdcRun
          /\ UNCHANGED <<led, lag>>

\* what a handler of main.c may call
SwitchLed == /\ at = "event"
             /\ \E i \in Leds : LedOn(i) \/ LedOff(i) \/ LedBlink(i) \/ LedOneshot(i)
             /\ UNCHANGED <<adcVars, at, lag>>

SwitchAdc == /\ at = "event"
             /\ AdcPowerup \/ AdcPowerdown
             /\ UNCHANGED <<led, at, lag>>

EndPass == /\ at = "event" /\ at' = "leds"
           /\ lag' = 0
           /\ UNCHANGED <<led, adcVars>>

\* TCB0_INT_vect
Tick == /\ lag < MaxLoop
        /\ lag' = lag + 1
        /\ LedTick /\ AdcTick
        /\ UNCHANGED at

World == SceneChanges /\ UNCHANGED <<led, at, lag>>

Next == RunLeds \/ RunAdc \/ SwitchLed \/ SwitchAdc \/ EndPass \/ Tick \/ World

\* the main loop goes round, and the clock ticks
Spec == /\ Init /\ [][Next]_vars
        /\ WF_vars(RunLeds) /\ WF_vars(RunAdc) /\ WF_vars(EndPass) /\ WF_vars(Tick)

-----------------------------------------------------------------------------
(* Properties.                                                             *)

\* Modes and times are ones that callers gave, and no smoothed reading is larger
\* than the converter's ten bits.
TypeOK ==
    /\ led \in [Leds -> [mode : Modes, ton : OnTimes \cup {0}, toff : OffTimes \cup {0},
                         tmr : Int, lit : BOOLEAN, since : Nat]]
    /\ enabled \in BOOLEAN /\ adc_timeout \in Int
    /\ results \in [Channels -> Counts] /\ scene \in Scenes
    /\ at \in {"leds", "adc", "event"} /\ lag \in 0 .. MaxLoop /\ gap \in Nat

\* The phase a blinking LED is in lasts the time asked for, less what it began
\* late, and ends late by no more than the rest of one pass and the start of the
\* next: lateness does not add up.  A one-shot lasts what the caller asked for.
\* An LED that is dark between two flashes comes on again (led.c:81-153).
PhasesLast ==
    \A i \in Leds :
        LET whole == led[i].since + led[i].tmr
        IN  /\ led[i].mode = "LED_BLINK_ON" => whole \in led[i].ton - MaxLate .. led[i].ton
            /\ led[i].mode = "LED_BLINK_OFF" => whole \in led[i].toff - MaxLate .. led[i].toff
            /\ led[i].mode = "LED_1SHOT" => whole \in OnTimes \ {0}
            /\ led[i].mode \in Timed => led[i].tmr >= -MaxLate

\* Samples are a period apart, late by no more than a pass, and the first one is
\* not taken before the references have settled, however often the converters
\* are turned off and on between passes (adc.h:58-63): what has passed since and
\* what is left of the timer make up the whole time (adc.c:125-126, 189-196).
SamplesSpaced ==
    enabled =>
        /\ gap + adc_timeout
              \in {ADC_POWERUP_TIME} \cup (ADC_SAMPLE_PERIOD - MaxLate .. ADC_SAMPLE_PERIOD)
        /\ adc_timeout >= -MaxLate

\* A smoothed reading moves towards what is measured and never past it,
\* whatever the 16-bit products and the rounding do (adc.c:139-144).
NeverOvershoots ==
    [][\A ch \in Channels :
          \/ results[ch] <= results'[ch] /\ results'[ch] <= scene[ch]
          \/ scene[ch] <= results'[ch] /\ results'[ch] <= results[ch]
          \/ results'[ch] = results[ch]]_vars

\* Where a reading may come to rest: the filter stops short of its input by one
\* count from below and by two from above.
Near(s) == \A ch \in Channels : results[ch] - s[ch] \in -1 .. 2

\* Once nothing changes any more, the readings come near what is measured and
\* stay there, whatever they were before (adc.c:139-196).
FollowsInput == \A s \in Scenes : <>[](scene = s /\ enabled) => <>[]Near(s)

\* From the first sample on the conversions are those of doc/command.md:439 and
\* of the data sheet in plain arithmetic, with no wrap at 16 or 32 bits, and a
\* temperature is within half a degree of the line through the table's entries,
\* below the coldest entry, where C rounds the other way, within three halves
\* (adc.c:205-232, thermistor_table.c:116-124).
ReadingsExact ==
    /\ \A c \in Calibrations :
          /\ results[ADC_CH_CELLV] > 0 =>
                AdcGetCellmv(results, c) = (results[ADC_CH_CELLV] * c.vscale) \div 1024 + c.voffset
          /\ results[ADC_CH_MCU_TEMP] > 0 =>
                McuTempC(results, c) =
                    ((results[ADC_CH_MCU_TEMP] - c.offset) * c.gain + 128) \div 256 - 273
    /\ \A ch \in {ADC_CH_BOARD_TEMP, ADC_CH_EXT_TEMP} :
          LET adc  == results[ch]
              idx  == Segment(adc)
              line == T_STEP * (adc - therm_table[idx])     \* times Range(idx)
              temp == (AdcToTemp(adc) - T_STEP * (idx - 1)) * Range(idx)
          IN  2 * (temp - line) \in IF adc >= therm_table[1] THEN -Range(idx) .. Range(idx)
                                    ELSE -Range(idx) .. 3 * Range(idx)
=============================================================================
