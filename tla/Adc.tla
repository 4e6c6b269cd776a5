-------------------------------- MODULE Adc --------------------------------
(***************************************************************************)
(* adc.c and thermistor_table.c: the four channels, sampled at a regular   *)
(* interval, smoothed, and converted to millivolts and degrees.            *)
(*                                                                         *)
(* As in Shunt, a timer is kept as the ticks that are left of it.  While   *)
(* the converters are off their timer is not read, and stands at 0.        *)
(*                                                                         *)
(* History variable: `gap', the ticks since the converters were turned on  *)
(* or took a sample.                                                       *)
(***************************************************************************)
EXTENDS Integers, Sequences

CONSTANTS
    ADC_POWERUP_TIME,   \* 3, the argument of tmr_set() in adc_powerup()
    ADC_SAMPLE_PERIOD,  \* 100
    Scenes,             \* what the converters may measure, on all channels
    Calibrations        \* [vscale, voffset: parameters; gain, offset: SIGROW]

CONSTANTS ADC_CH_CELLV, ADC_CH_BOARD_TEMP, ADC_CH_EXT_TEMP, ADC_CH_MCU_TEMP

Channels == {ADC_CH_CELLV, ADC_CH_BOARD_TEMP, ADC_CH_EXT_TEMP, ADC_CH_MCU_TEMP}
Counts == 0 .. 1023

ASSUME AdcAssumption ==
    /\ ADC_POWERUP_TIME \in Nat \ {0} /\ ADC_SAMPLE_PERIOD \in Nat \ {0}
    /\ Scenes \subseteq [Channels -> Counts]

UINT16 == 0 .. 65535
INT16 == -32768 .. 32767

ASSUME CalibrationAssumption ==
    Calibrations \subseteq [vscale : UINT16, voffset : INT16,
                            gain : 0 .. 255, offset : -128 .. 127]

VARIABLES
    enabled,        \* ADC_ENABLED
    adc_timeout,
    results,        \* smoothed readings
    scene,          \* the world
    gap             \* history

adcVars == <<enabled, adc_timeout, results, scene, gap>>

U16(x) == x % 65536
S16(x) == IF U16(x) < 32768 THEN U16(x) ELSE U16(x) - 65536

\* division of C
Quotient(a, b) == IF a >= 0 THEN a \div b ELSE -((-a) \div b)

-----------------------------------------------------------------------------
(* Smoothing.                                                              *)

FILTER_WEIGHT == 8

\* as AdcFilter, but without rounding (a mutant)
AdcFilterTruncating(sample, smoothed) ==
    U16(sample * FILTER_WEIGHT + smoothed * (32 - FILTER_WEIGHT)) \div 32

\* adc_filter(), in uint16_t
AdcFilter(sample, smoothed) ==
    U16(U16(sample * FILTER_WEIGHT + smoothed * (32 - FILTER_WEIGHT)) + 16) \div 32

-----------------------------------------------------------------------------
(* Conversions.                                                            *)

\* as AdcGetCellmv, but the product is not widened (a mutant)
AdcGetCellmvNarrow(res, cal) ==
    U16(U16(res[ADC_CH_CELLV] * cal.vscale) \div 1024 + cal.voffset)

\* adc_get_cellmv(); the product of two uint16_t fits in uint32_t
AdcGetCellmv(res, cal) ==
    U16((res[ADC_CH_CELLV] * cal.vscale) \div 1024 + cal.voffset)

\* the MCU's own sensor in adc_get_tempC(), in degrees: the difference is
\* computed in uint16_t, which is int's width here, the rest in uint32_t, where
\* nothing is too large
McuTempC(res, cal) ==
    S16((U16(res[ADC_CH_MCU_TEMP] - cal.offset) * cal.gain + 128) \div 256 - 273)

therm_table == <<267, 304, 343, 382, 422, 462, 502, 540, 578, 613,
                 647, 679, 709, 736, 761, 785, 806, 826, 843, 859>>
T_STEP == 4
T_LAST_IDX == Len(therm_table)

\* the segment of the table, from idx to idx + 1, on which adc_to_temp() puts a
\* reading; the first and the last one extend beyond the table
Segment(adc) ==
    IF adc < therm_table[1] THEN 1
    ELSE IF adc >= therm_table[T_LAST_IDX] THEN T_LAST_IDX - 1
    ELSE CHOOSE idx \in 1 .. T_LAST_IDX - 1 :
            therm_table[idx] <= adc /\ adc < therm_table[idx + 1]

Range(idx) == therm_table[idx + 1] - therm_table[idx]

\* as AdcToTemp, but the difference is not signed (a mutant)
AdcToTempUnsigned(adc) ==
    LET idx == Segment(adc)
        delta == U16(adc - therm_table[idx])
    IN  S16((delta * T_STEP + Range(idx) \div 2) \div Range(idx)) + T_STEP * (idx - 1)

\* adc_to_temp(): linear between the entries, rounded by half a digit
AdcToTemp(adc) ==
    LET idx == Segment(adc)
        delta == adc - therm_table[idx]
    IN  Quotient(delta * T_STEP + Range(idx) \div 2, Range(idx)) + T_STEP * (idx - 1)

-----------------------------------------------------------------------------
(* What conversions need to be exact, and the code does not check.         *)

\* the readings that a channel may have once it has been sampled, but for 0: all
\* are larger than the first one after a measurement
Readable(ch) == { r \in Counts \ {0} : \E s \in Scenes : AdcFilter(s[ch], 0) <= r }

\* Negative calibration values are no larger than what they are taken from, and
\* a cell voltage fits in uint16_t.
CalibrationFits ==
    \A c \in Calibrations :
        /\ \A r \in Readable(ADC_CH_CELLV) :
              LET mv == (r * c.vscale) \div 1024 + c.voffset
              IN  0 <= mv /\ mv < 65536
        /\ \A r \in Readable(ADC_CH_MCU_TEMP) : c.offset <= r

-----------------------------------------------------------------------------
(* Sampling.                                                               *)

\* C's initial values; main_loop() calls adc_powerup()
AdcInit ==
    /\ enabled = TRUE
    /\ adc_timeout = ADC_POWERUP_TIME
    /\ results = [ch \in Channels |-> 0]
    /\ scene \in Scenes
    /\ gap = 0

\* as AdcPowerup, but does not set the timer (a mutant)
AdcPowerupTooSoon ==
    /\ ~enabled
    /\ enabled' = TRUE
    /\ UNCHANGED <<adc_timeout, results, scene, gap>>

\* adc_powerup(), which is called at the start and after adc_powerdown()
AdcPowerup ==
    /\ ~enabled
    /\ enabled' = TRUE
    /\ adc_timeout' = ADC_POWERUP_TIME
    /\ gap' = 0
    /\ UNCHANGED <<results, scene>>

\* adc_powerdown()
AdcPowerdown ==
    /\ enabled' = FALSE
    /\ adc_timeout' = 0
    /\ gap' = 0
    /\ UNCHANGED <<results, scene>>

\* adc_collect(): all channels; a conversion returns what there is to measure
AdcCollect ==
    results' = [ch \in Channels |-> AdcFilter(scene[ch], results[ch])]

\* adc_run()
AdcRun ==
    IF enabled /\ adc_timeout <= 0
    THEN /\ adc_timeout' = adc_timeout + ADC_SAMPLE_PERIOD
         /\ AdcCollect
         /\ gap' = 0
         /\ UNCHANGED <<enabled, scene>>
    ELSE UNCHANGED adcVars

\* a tick of the clock
AdcTick ==
    /\ IF enabled THEN adc_timeout' = adc_timeout - 1 /\ gap' = gap + 1
       ELSE UNCHANGED <<adc_timeout, gap>>
    /\ UNCHANGED <<enabled, results, scene>>

\* the cell is loaded, warms up...
SceneChanges ==
    /\ scene' \in Scenes
    /\ UNCHANGED <<enabled, adc_timeout, results, gap>>
=============================================================================
