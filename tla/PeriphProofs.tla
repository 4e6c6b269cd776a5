---------------------------- MODULE PeriphProofs ----------------------------
(***************************************************************************)
(* Proofs about Periph, for every number of LEDs, all times that are       *)
(* longer than a pass may be late, and all that converters may measure.    *)
(***************************************************************************)
EXTENDS Periph, TLAPS

\* a timer that is looked at in each pass, and was last set to a time ahead when
\* this pass (`seen'), which began `late' ticks ago, or the one before looked at it
Ahead(tmr, seen, late) == tmr >= IF seen THEN 1 - late ELSE 1 - MaxLoop - late

\* An LED blinks with times that its caller gave it.
GoodTimes(l) ==
    l.mode \in {"LED_BLINK_ON", "LED_BLINK_OFF"} =>
        l.ton \in OnTimes \ {0} /\ l.toff \in OffTimes \ {0}

\* how long the phase lasts that an LED is in
GoodPhase(l) ==
    LET whole == l.since + l.tmr
    IN  /\ l.mode = "LED_BLINK_ON" => whole \in l.ton - MaxLate .. l.ton
        /\ l.mode = "LED_BLINK_OFF" => whole \in l.toff - MaxLate .. l.toff
        /\ l.mode = "LED_1SHOT" => whole \in OnTimes \ {0}

LedTypes == [mode : Modes, ton : OnTimes \cup {0}, toff : OffTimes \cup {0},
             tmr : Int, lit : BOOLEAN, since : Nat]

Good(l, seen, late) ==
    /\ l \in LedTypes
    /\ GoodTimes(l) /\ GoodPhase(l)
    /\ l.mode \in Timed => Ahead(l.tmr, seen, late)

LedsInv ==
    /\ led = [i \in Leds |-> led[i]]
    /\ \A i \in Leds : Good(led[i], at # "leds", lag)

AdcTypes ==
    /\ enabled \in BOOLEAN /\ adc_timeout \in Int /\ gap \in Nat
    /\ results \in [Channels -> Counts] /\ scene \in Scenes

AdcInv ==
    /\ AdcTypes
    /\ enabled =>
        /\ gap + adc_timeout
              \in {ADC_POWERUP_TIME} \cup (ADC_SAMPLE_PERIOD - MaxLate .. ADC_SAMPLE_PERIOD)
        /\ Ahead(adc_timeout, at = "event", lag)

PassInv == at \in {"leds", "adc", "event"} /\ lag \in 0 .. MaxLoop

IInv == LedsInv /\ AdcInv /\ PassInv

-----------------------------------------------------------------------------
(* Arithmetic.                                                             *)

LEMMA Bounds ==
    /\ MaxLoop \in Nat /\ MaxLoop >= 1 /\ MaxLate \in Nat /\ MaxLate = 2 * MaxLoop - 1
    /\ ADC_POWERUP_TIME \in Nat /\ ADC_POWERUP_TIME >= 1
    /\ ADC_SAMPLE_PERIOD \in Nat /\ ADC_SAMPLE_PERIOD > MaxLate
BY PeriphAssumption, AdcAssumption DEF MaxLate

LEMMA Times ==
    /\ \A t \in OnTimes \ {0} : t \in Nat /\ t > MaxLate
    /\ \A t \in OffTimes \ {0} : t \in Nat /\ t > MaxLate
BY PeriphAssumption, LedAssumption

LEMMA CountsNat == \A x \in Counts : x \in Nat /\ x <= 1023
BY DEF Counts

LEMMA Integers16 == UINT16 \subseteq Int /\ INT16 \subseteq Int
<1>1. \A m \in Int, n \in Int : m .. n \subseteq Int
  OBVIOUS
<1>2. 0 \in Int /\ 65535 \in Int /\ -32768 \in Int /\ 32767 \in Int
  OBVIOUS
<1> QED
  BY <1>1, <1>2 DEF UINT16, INT16

LEMMA CountsFrom ==
    ASSUME NEW x \in Nat, x <= 1023
    PROVE  x \in Counts
BY DEF Counts

\* The products of the filter fit in 16 bits, and its rounding never takes a
\* reading past its input (adc.c:139-144).
LEMMA FilterBetween ==
    ASSUME NEW s \in Counts, NEW r \in Counts
    PROVE  LET f == AdcFilter(s, r)
           IN  f \in Counts /\ ((r <= f /\ f <= s) \/ (s <= f /\ f <= r))
<1>1. s \in Nat /\ s <= 1023 /\ r \in Nat /\ r <= 1023
  BY CountsNat
<1> DEFINE x == s * 8 + r * 24
<1>2. x \in Nat /\ x + 16 < 65536 /\ x < 65536
  BY <1>1
<1>3. U16(x) = x /\ U16(x + 16) = x + 16
  BY <1>2 DEF U16
<1>4. AdcFilter(s, r) = (x + 16) \div 32
  BY <1>3 DEF AdcFilter, FILTER_WEIGHT
<1> DEFINE f == (x + 16) \div 32
<1>5. f \in Nat /\ 32 * f <= x + 16 /\ x + 16 < 32 * f + 32
  BY <1>2
<1>6. (r <= f /\ f <= s) \/ (s <= f /\ f <= r)
  <2> HIDE DEF f
  <2> QED
    BY <1>1, <1>5
<1>7. f \in Counts
  <2>1. f <= 1023
    <3> HIDE DEF f
    <3> QED
      BY <1>1, <1>5, <1>6
  <2> QED
    BY <1>5, <2>1, CountsFrom
<1> QED
  BY <1>4, <1>6, <1>7

-----------------------------------------------------------------------------
(* Conversions.                                                            *)

\* The table has twenty entries, each larger than the one before
\* (thermistor_table.c:50-72).
LEMMA TableEntries ==
    /\ T_LAST_IDX = 20 /\ T_STEP = 4
    /\ therm_table[1] = 267  /\ therm_table[2] = 304  /\ therm_table[3] = 343
    /\ therm_table[4] = 382  /\ therm_table[5] = 422  /\ therm_table[6] = 462
    /\ therm_table[7] = 502  /\ therm_table[8] = 540  /\ therm_table[9] = 578
    /\ therm_table[10] = 613 /\ therm_table[11] = 647 /\ therm_table[12] = 679
    /\ therm_table[13] = 709 /\ therm_table[14] = 736 /\ therm_table[15] = 761
    /\ therm_table[16] = 785 /\ therm_table[17] = 806 /\ therm_table[18] = 826
    /\ therm_table[19] = 843 /\ therm_table[20] = 859
BY DEF T_LAST_IDX, T_STEP, therm_table

LEMMA TableAscends ==
    \A idx \in 1 .. 19 : /\ therm_table[idx] \in Nat /\ Range(idx) \in Nat \ {0}
                         /\ therm_table[idx + 1] = therm_table[idx] + Range(idx)
<1> SUFFICES ASSUME NEW idx \in 1 .. 19
             PROVE  /\ therm_table[idx] \in Nat /\ therm_table[idx + 1] \in Nat
                    /\ therm_table[idx] < therm_table[idx + 1]
  BY DEF Range
<1> QED
  BY TableEntries

\* The search always finds a segment, and a reading that is not below the table
\* is not below its segment.
LEMMA SegmentFound ==
    ASSUME NEW adc \in Counts
    PROVE  /\ Segment(adc) \in 1 .. 19
           /\ therm_table[1] <= adc => therm_table[Segment(adc)] <= adc
           /\ adc < therm_table[1] => Segment(adc) = 1
<1>1. adc \in Nat
  BY CountsNat
<1>2. CASE adc < therm_table[1]
  <2>1. Segment(adc) = 1
    BY <1>2 DEF Segment
  <2> QED
    BY <1>1, <1>2, <2>1, TableEntries
<1>3. CASE adc >= therm_table[T_LAST_IDX]
  <2>1. Segment(adc) = 19
    BY <1>1, <1>3, TableEntries DEF Segment
  <2> QED
    BY <1>1, <1>3, <2>1, TableEntries
<1>4. CASE ~(adc < therm_table[1]) /\ ~(adc >= therm_table[T_LAST_IDX])
  <2> DEFINE Here(idx) == therm_table[idx] <= adc /\ adc < therm_table[idx + 1]
  <2>1. \E idx \in 1 .. 19 : Here(idx)
    <3> SUFFICES ASSUME \A idx \in 1 .. 19 : therm_table[idx] <= adc => therm_table[idx + 1] <= adc
                 PROVE  FALSE
      BY <1>1, TableEntries
    <3> QED
      BY <1>1, <1>4, TableEntries
  <2>2. Segment(adc) = CHOOSE idx \in 1 .. T_LAST_IDX - 1 : Here(idx)
    BY <1>4 DEF Segment
  <2>3. T_LAST_IDX - 1 = 19
    BY TableEntries
  <2> HIDE DEF Here
  <2>4. Segment(adc) \in 1 .. 19 /\ Here(Segment(adc))
    BY <2>1, <2>2, <2>3
  <2> QED
    BY <1>4, <2>4 DEF Here
<1> QED
  BY <1>2, <1>3, <1>4

\* C's division of a value to which half of the divisor has been added.
LEMMA Rounded ==
    ASSUME NEW x \in Int, NEW r \in Nat \ {0}
    PROVE  LET q == Quotient(x + r \div 2, r)
           IN  /\ q \in Int
               /\ 2 * (q * r - x) \in -r .. 3 * r
               /\ x >= 0 => 2 * (q * r - x) \in -r .. r
<1> DEFINE h == r \div 2
<1>1. h \in Nat /\ 2 * h <= r /\ r <= 2 * h + 1
  OBVIOUS
<1> DEFINE a == x + h
           q == Quotient(a, r)
<1>2. a \in Int
  BY <1>1
<1>3. CASE a >= 0
  <2> DEFINE p == a \div r
             m == p * r
  <2>1. q = p
    BY <1>3 DEF Quotient
  <2>2. p \in Int /\ m \in Int /\ m <= a /\ a < m + r
    <3> HIDE DEF a
    <3> QED
      BY <1>2, <1>3
  <2> HIDE DEF p, m, q, h
  <2>3. 2 * (m - x) \in -r .. r
    BY <1>1, <2>2
  <2> QED
    BY <1>1, <2>1, <2>2, <2>3 DEF m, q
<1>4. CASE ~(a >= 0)
  <2> DEFINE b == -a
             p == b \div r
             m == p * r
  <2>1. q = -p
    BY <1>4 DEF Quotient
  <2>2. b \in Nat
    BY <1>2, <1>4
  <2>3. p \in Int /\ m \in Int /\ m <= b /\ b < m + r
    <3> HIDE DEF b
    <3> QED
      BY <2>2
  <2>4. q * r = -m /\ q \in Int
    <3> HIDE DEF p, q
    <3> QED
      BY <2>1, <2>3
  <2>5. ~(x >= 0)
    BY <1>1, <1>4
  <2>6. 2 * (-m - x) \in -r .. 3 * r
    <3> HIDE DEF p, m, q, h
    <3> QED
      BY <1>1, <2>3
  <2> QED
    BY <2>4, <2>5, <2>6 DEF q, h
<1> QED
  BY <1>3, <1>4

\* What C computes from a reading in 16 and 32 bits is what the doc and the data
\* sheet say (adc.c:205-228).
LEMMA CellmvExact ==
    ASSUME CalibrationFits, NEW c \in Calibrations, NEW res,
           res[ADC_CH_CELLV] \in Readable(ADC_CH_CELLV)
    PROVE  AdcGetCellmv(res, c) = (res[ADC_CH_CELLV] * c.vscale) \div 1024 + c.voffset
<1> DEFINE r == res[ADC_CH_CELLV]
           mv == (r * c.vscale) \div 1024 + c.voffset
<1>1. 0 <= mv /\ mv < 65536
  BY DEF CalibrationFits
<1>2. AdcGetCellmv(res, c) = U16(mv)
  BY DEF AdcGetCellmv
<1>3. mv \in Int
  <2>1. r \in Nat
    BY CountsNat DEF Readable
  <2>2. c.vscale \in UINT16 /\ c.voffset \in INT16
    BY CalibrationAssumption
  <2>3. c.vscale \in Int /\ c.voffset \in Int
    BY <2>2, Integers16
  <2>4. r * c.vscale \in Int
    <3> HIDE DEF r
    <3> QED
      BY <2>1, <2>3
  <2> DEFINE m == r * c.vscale
  <2> HIDE DEF m
  <2> QED
    BY <2>3, <2>4 DEF m
<1>4. U16(mv) = mv
  <2> HIDE DEF mv
  <2> QED
    BY <1>1, <1>3 DEF U16
<1> QED
  BY <1>2, <1>4

LEMMA McuTempExact ==
    ASSUME CalibrationFits, NEW c \in Calibrations, NEW res,
           res[ADC_CH_MCU_TEMP] \in Readable(ADC_CH_MCU_TEMP)
    PROVE  McuTempC(res, c) =
               ((res[ADC_CH_MCU_TEMP] - c.offset) * c.gain + 128) \div 256 - 273
<1> DEFINE r == res[ADC_CH_MCU_TEMP]
           x == r - c.offset
           g == c.gain
<1>1. c.offset <= r /\ r \in Counts
  <2>1. \A k \in Readable(ADC_CH_MCU_TEMP) : c.offset <= k
    BY DEF CalibrationFits
  <2>2. r \in Counts
    BY DEF Readable
  <2> QED
    BY <2>1, <2>2
<1>2. c.offset \in Int /\ -128 <= c.offset /\ g \in Nat /\ g <= 255
  <2>1. c.offset \in -128 .. 127 /\ c.gain \in 0 .. 255
    BY CalibrationAssumption
  <2> QED
    BY <2>1
<1>3. r \in Nat /\ r <= 1023
  BY <1>1, CountsNat
<1> HIDE DEF r, g
<1>4. x \in Nat /\ x <= 1151
  BY <1>1, <1>2, <1>3
<1>5. McuTempC(res, c) = S16((U16(x) * g + 128) \div 256 - 273)
  BY DEF McuTempC, r, g
<1> HIDE DEF x
<1>6. U16(x) = x
  BY <1>4 DEF U16
<1>7. x * g \in Nat /\ x * g <= 1151 * 255
  <2>1. x * g <= 1151 * g
    BY <1>2, <1>4
  <2>2. x * g \in Nat
    BY <1>2, <1>4
  <2>3. 1151 * g <= 1151 * 255
    BY <1>2
  <2> DEFINE m == x * g
  <2> HIDE DEF m
  <2> QED
    BY <1>2, <2>1, <2>2, <2>3 DEF m
<1> DEFINE m == x * g
           t == (m + 128) \div 256 - 273
<1>8. S16(t) = t
  <2>1. m \in Nat /\ m <= 293505
    BY <1>7
  <2> HIDE DEF m
  <2>2. t \in Int /\ -273 <= t /\ t <= 1000
    BY <2>1
  <2> HIDE DEF t
  <2> QED
    BY <2>2 DEF S16, U16
<1> QED
  BY <1>5, <1>6, <1>8 DEF x, r, g

\* adc_to_temp() is half a degree from the line at most (thermistor_table.c:79-127).
LEMMA TempOnLine ==
    ASSUME NEW adc \in Counts
    PROVE  LET idx  == Segment(adc)
               line == T_STEP * (adc - therm_table[idx])
               temp == (AdcToTemp(adc) - T_STEP * (idx - 1)) * Range(idx)
           IN  2 * (temp - line) \in IF adc >= therm_table[1] THEN -Range(idx) .. Range(idx)
                                     ELSE -Range(idx) .. 3 * Range(idx)
<1> DEFINE idx == Segment(adc)
           r == Range(idx)
           x == T_STEP * (adc - therm_table[idx])
           q == Quotient(x + r \div 2, r)
<1>1. idx \in 1 .. 19 /\ (therm_table[1] <= adc => therm_table[idx] <= adc)
  BY SegmentFound
<1> HIDE DEF idx
<1>2. therm_table[idx] \in Nat /\ r \in Nat \ {0} /\ therm_table[1] \in Nat /\ adc \in Nat
      /\ T_STEP = 4
  BY <1>1, TableAscends, TableEntries, CountsNat
<1>3. x \in Int /\ (adc >= therm_table[1] => x >= 0)
  BY <1>1, <1>2
<1>4. AdcToTemp(adc) = q + T_STEP * (idx - 1)
  <2>1. (adc - therm_table[idx]) * T_STEP = x
    BY <1>2
  <2> QED
    BY <2>1 DEF AdcToTemp, idx
<1> HIDE DEF x, r
<1>5. /\ q \in Int
      /\ 2 * (q * r - x) \in -r .. 3 * r
      /\ x >= 0 => 2 * (q * r - x) \in -r .. r
  BY <1>2, <1>3, Rounded
<1> HIDE DEF q
<1>6. AdcToTemp(adc) - T_STEP * (idx - 1) = q
  <2>1. idx \in Int
    BY <1>1
  <2> QED
    BY <1>2, <1>4, <1>5, <2>1
<1>7. 2 * (q * r - x) \in IF adc >= therm_table[1] THEN -r .. r ELSE -r .. 3 * r
  BY <1>3, <1>5
<1> QED
  BY <1>6, <1>7 DEF idx, r, x

-----------------------------------------------------------------------------
(* LEDs.                                                                   *)

LEMMA OffFields ==
    Off \in LedTypes /\ Off.mode = "LED_OFF" /\ Off.mode \notin Timed
BY DEF Off, LedState, LedTypes, Modes, Timed

LEMMA OffGood == Good(Off, TRUE, lag) /\ Good(Off, FALSE, lag)
BY OffFields DEF Good, GoodTimes, GoodPhase

\* led_process() sets a timer that has run out to a time ahead
LEMMA ProcessedGood ==
    ASSUME PassInv, NEW l, Good(l, FALSE, lag)
    PROVE  Good(LedProcessed(l), TRUE, lag)
<1> DEFINE k == LedProcessed(l)
<1>1. /\ l \in LedTypes /\ l.tmr \in Int /\ l.since \in Nat /\ l.mode \in Modes
      /\ l.ton \in OnTimes \cup {0} /\ l.toff \in OffTimes \cup {0}
  BY DEF Good, LedTypes
<1>2. lag \in Nat /\ lag <= MaxLoop
  BY Bounds DEF PassInv
<1>3. CASE l.mode \notin Timed
  <2>1. k = l
    BY <1>3 DEF LedProcessed
  <2> QED
    BY <1>3, <2>1 DEF Good
<1>4. CASE l.mode \in Timed /\ l.tmr > 0
  <2>1. k = l
    BY <1>4 DEF LedProcessed
  <2>2. Ahead(l.tmr, TRUE, lag)
    BY <1>1, <1>2, <1>4 DEF Ahead
  <2> QED
    BY <2>1, <2>2 DEF Good
<1>5. CASE l.mode \in Timed /\ ~(l.tmr > 0)
  <2>1. l.tmr >= -MaxLate /\ l.tmr <= 0
    BY <1>1, <1>2, <1>5, Bounds DEF Good, Ahead
  <2>2. CASE l.mode = "LED_BLINK_OFF"
    <3>1. k = LedState("LED_BLINK_ON", l.ton, l.toff, l.tmr + l.ton, TRUE, 0)
      BY <1>5, <2>2 DEF LedProcessed
    <3>2. l.ton \in OnTimes \ {0} /\ l.toff \in OffTimes \ {0}
      BY <2>2 DEF Good, GoodTimes
    <3>3. l.ton \in Nat /\ l.ton > MaxLate
      BY <3>2, Times
    <3>4. l.tmr + l.ton \in Int /\ "LED_BLINK_ON" \in Modes
      BY <1>1, <3>3 DEF Modes, Timed
    <3>5. /\ k.mode = "LED_BLINK_ON" /\ k.tmr = l.tmr + l.ton /\ k.since = 0
          /\ k.ton = l.ton /\ k.toff = l.toff /\ k \in LedTypes
      BY <1>1, <3>1, <3>4 DEF LedState, LedTypes
    <3>6. GoodTimes(k)
      BY <3>2, <3>5 DEF GoodTimes
    <3>7. k.since + k.tmr = l.tmr + l.ton
      BY <1>1, <3>3, <3>5
    <3>8. l.tmr + l.ton \in l.ton - MaxLate .. l.ton
      BY <1>1, <2>1, <3>3, Bounds
    <3>9. GoodPhase(k)
      BY <3>5, <3>7, <3>8 DEF GoodPhase
    <3>10. Ahead(k.tmr, TRUE, lag)
      BY <1>1, <1>2, <2>1, <3>3, <3>5, Bounds DEF Ahead
    <3> QED
      BY <3>5, <3>6, <3>9, <3>10 DEF Good
  <2>3. CASE l.mode = "LED_BLINK_ON"
    <3>1. k = LedState("LED_BLINK_OFF", l.ton, l.toff, l.tmr + l.toff, FALSE, 0)
      BY <1>5, <2>3 DEF LedProcessed
    <3>2. l.ton \in OnTimes \ {0} /\ l.toff \in OffTimes \ {0}
      BY <2>3 DEF Good, GoodTimes
    <3>3. l.toff \in Nat /\ l.toff > MaxLate
      BY <3>2, Times
    <3>4. l.tmr + l.toff \in Int /\ "LED_BLINK_OFF" \in Modes
      BY <1>1, <3>3 DEF Modes, Timed
    <3>5. /\ k.mode = "LED_BLINK_OFF" /\ k.tmr = l.tmr + l.toff /\ k.since = 0
          /\ k.ton = l.ton /\ k.toff = l.toff /\ k \in LedTypes
      BY <1>1, <3>1, <3>4 DEF LedState, LedTypes
    <3>6. GoodTimes(k)
      BY <3>2, <3>5 DEF GoodTimes
    <3>7. k.since + k.tmr = l.tmr + l.toff
      BY <1>1, <3>3, <3>5
    <3>8. l.tmr + l.toff \in l.toff - MaxLate .. l.toff
      BY <1>1, <2>1, <3>3, Bounds
    <3>9. GoodPhase(k)
      BY <3>5, <3>7, <3>8 DEF GoodPhase
    <3>10. Ahead(k.tmr, TRUE, lag)
      BY <1>1, <1>2, <2>1, <3>3, <3>5, Bounds DEF Ahead
    <3> QED
      BY <3>5, <3>6, <3>9, <3>10 DEF Good
  <2>4. CASE l.mode = "LED_1SHOT"
    <3>1. k = Off
      BY <1>5, <2>4 DEF LedProcessed
    <3> QED
      BY <3>1, OffGood
  <2> QED
    BY <1>5, <2>2, <2>3, <2>4 DEF Timed
<1> QED
  BY <1>3, <1>4, <1>5

\* what a caller sets has its time ahead
LEMMA SwitchedGood ==
    ASSUME PassInv, NEW i \in Leds, led = [j \in Leds |-> led[j]],
           LedOn(i) \/ LedOff(i) \/ LedBlink(i) \/ LedOneshot(i)
    PROVE  /\ led' = [j \in Leds |-> led'[j]]
           /\ Good(led'[i], TRUE, lag)
           /\ \A j \in Leds : j # i => led'[j] = led[j]
<1> DEFINE On == LedState("LED_ON", 0, 0, 0, TRUE, 0)
           Blink(on, off) == LedState("LED_BLINK_ON", on, off, on, TRUE, 0)
           Oneshot(on) == LedState("LED_1SHOT", 0, 0, on, TRUE, 0)
<1>0. lag \in Nat
  BY Bounds DEF PassInv
<1>1. Good(On, TRUE, lag)
  <2>1. "LED_ON" \in Modes /\ "LED_ON" \notin Timed
    BY DEF Modes, Timed
  <2>2. On \in LedTypes /\ On.mode = "LED_ON"
    BY <2>1 DEF LedState, LedTypes
  <2> QED
    BY <2>1, <2>2 DEF Good, GoodTimes, GoodPhase
<1>2. ASSUME NEW on \in OnTimes, NEW off \in OffTimes, on # 0, off # 0
      PROVE  Good(Blink(on, off), TRUE, lag)
  <2>1. on \in Nat /\ on > MaxLate /\ off \in Nat
    BY <1>2, Times
  <2>2. on \in Int /\ "LED_BLINK_ON" \in Modes
    BY <2>1 DEF Modes, Timed
  <2>3. /\ Blink(on, off) \in LedTypes /\ Blink(on, off).mode = "LED_BLINK_ON"
        /\ Blink(on, off).ton = on /\ Blink(on, off).toff = off
        /\ Blink(on, off).tmr = on /\ Blink(on, off).since = 0
    BY <2>2 DEF LedState, LedTypes
  <2>4. 0 + on \in on - MaxLate .. on
    BY <2>1, Bounds
  <2>5. GoodTimes(Blink(on, off)) /\ GoodPhase(Blink(on, off))
    BY <1>2, <2>3, <2>4 DEF GoodTimes, GoodPhase
  <2>6. Ahead(on, TRUE, lag)
    BY <1>0, <2>1, Bounds DEF Ahead
  <2> QED
    BY <2>3, <2>5, <2>6 DEF Good
<1>3. ASSUME NEW on \in OnTimes, on # 0
      PROVE  Good(Oneshot(on), TRUE, lag)
  <2>1. on \in Nat /\ on > MaxLate
    BY <1>3, Times
  <2>2. on \in Int /\ "LED_1SHOT" \in Modes
    BY <2>1 DEF Modes, Timed
  <2>3. /\ Oneshot(on) \in LedTypes
        /\ Oneshot(on).mode = "LED_1SHOT" /\ Oneshot(on).tmr = on /\ Oneshot(on).since = 0
    BY <2>2 DEF LedState, LedTypes
  <2>4. 0 + on \in OnTimes \ {0}
    BY <1>3, <2>1
  <2>5. GoodTimes(Oneshot(on)) /\ GoodPhase(Oneshot(on))
    BY <2>3, <2>4 DEF GoodTimes, GoodPhase
  <2>6. Ahead(on, TRUE, lag)
    BY <1>0, <2>1, Bounds DEF Ahead
  <2> QED
    BY <2>3, <2>5, <2>6 DEF Good
<1> HIDE DEF Blink, Oneshot, On
<1>4. PICK l : led' = [led EXCEPT ![i] = l] /\ Good(l, TRUE, lag)
  <2>1. CASE LedOn(i)
    BY <1>1, <2>1 DEF LedOn, Becomes, On
  <2>2. CASE LedOff(i)
    BY <2>2, OffGood DEF LedOff, Becomes
  <2>3. CASE LedBlink(i)
    <3>1. PICK on \in OnTimes, off \in OffTimes :
            IF on = 0 THEN LedOff(i)
            ELSE IF off = 0 THEN LedOn(i)
            ELSE Becomes(i, Blink(on, off))
      BY <2>3 DEF LedBlink, Blink
    <3> QED
      BY <1>1, <1>2, <3>1, OffGood DEF LedOff, LedOn, Becomes, On
  <2>4. CASE LedOneshot(i)
    <3>1. PICK on \in OnTimes :
            IF on = 0 THEN LedOff(i) ELSE Becomes(i, Oneshot(on))
      BY <2>4 DEF LedOneshot, Oneshot
    <3> QED
      BY <1>3, <3>1, OffGood DEF LedOff, Becomes
  <2> QED
    BY <2>1, <2>2, <2>3, <2>4
<1> QED
  BY <1>4

\* a tick brings a timer nearer, and the end of the pass
LEMMA TickedGood ==
    ASSUME PassInv, lag < MaxLoop, NEW seen \in BOOLEAN, NEW l,
           Good(l, seen, lag), l.mode \in Timed
    PROVE  Good(Ticked(l), seen, lag + 1)
<1> DEFINE k == Ticked(l)
<1>1. /\ l \in LedTypes /\ l.tmr \in Int /\ l.since \in Nat
  BY DEF Good, LedTypes
<1>2. /\ k.mode = l.mode /\ k.ton = l.ton /\ k.toff = l.toff
      /\ k.tmr = l.tmr - 1 /\ k.since = l.since + 1 /\ k \in LedTypes
  <2>1. l.tmr - 1 \in Int /\ l.since + 1 \in Nat
    BY <1>1
  <2> QED
    BY <1>1, <2>1 DEF Ticked, LedState, LedTypes
<1>3. k.since + k.tmr = l.since + l.tmr
  BY <1>1, <1>2
<1>4. GoodTimes(k) /\ GoodPhase(k)
  BY <1>2, <1>3 DEF Good, GoodTimes, GoodPhase
<1>5. Ahead(k.tmr, seen, lag + 1)
  BY <1>1, <1>2, Bounds DEF Good, Ahead, PassInv
<1> QED
  BY <1>2, <1>4, <1>5 DEF Good

LEMMA RunLedsIInv == IInv /\ RunLeds => IInv'
<1> SUFFICES ASSUME IInv, RunLeds PROVE IInv'
  OBVIOUS
<1>1. /\ at = "leds" /\ at' = "adc" /\ lag' = lag
      /\ led' = [i \in Leds |-> LedProcessed(led[i])]
      /\ UNCHANGED adcVars
  BY DEF RunLeds, LedRun
<1>2. \A i \in Leds : Good(led'[i], TRUE, lag)
  BY <1>1, ProcessedGood DEF IInv, LedsInv
<1>3. LedsInv'
  BY <1>1, <1>2 DEF LedsInv
<1>4. AdcInv'
  BY <1>1 DEF IInv, AdcInv, AdcTypes, adcVars
<1> QED
  BY <1>1, <1>3, <1>4 DEF IInv, PassInv

\* a sample is taken at most MaxLate ticks late, and the next is a period later
LEMMA RunAdcIInv == IInv /\ RunAdc => IInv'
<1> SUFFICES ASSUME IInv, RunAdc PROVE IInv'
  OBVIOUS
<1>1. at = "adc" /\ at' = "event" /\ AdcRun /\ led' = led /\ lag' = lag
  BY DEF RunAdc
<1>2. LedsInv' /\ PassInv'
  BY <1>1 DEF IInv, LedsInv, PassInv
<1>3. lag \in Nat /\ lag <= MaxLoop /\ adc_timeout \in Int /\ gap \in Nat
  BY Bounds DEF IInv, PassInv, AdcInv, AdcTypes
<1>4. CASE enabled /\ adc_timeout <= 0
  <2>1. /\ adc_timeout' = adc_timeout + ADC_SAMPLE_PERIOD
        /\ AdcCollect /\ gap' = 0 /\ enabled' = enabled /\ scene' = scene
    BY <1>1, <1>4 DEF AdcRun
  <2>2. adc_timeout >= -MaxLate
    BY <1>1, <1>3, <1>4, Bounds DEF IInv, AdcInv, Ahead
  <2>3. results' \in [Channels -> Counts]
    <3>1. results \in [Channels -> Counts] /\ scene \in [Channels -> Counts]
      BY AdcAssumption DEF IInv, AdcInv, AdcTypes
    <3>2. \A ch \in Channels : AdcFilter(scene[ch], results[ch]) \in Counts
      BY <3>1, FilterBetween
    <3> QED
      BY <2>1, <3>2 DEF AdcCollect
  <2>4. AdcTypes'
    BY <1>3, <2>1, <2>3, Bounds DEF IInv, AdcInv, AdcTypes
  <2>5. gap' + adc_timeout' \in ADC_SAMPLE_PERIOD - MaxLate .. ADC_SAMPLE_PERIOD
    BY <1>3, <1>4, <2>1, <2>2, Bounds
  <2>6. Ahead(adc_timeout', TRUE, lag')
    BY <1>1, <1>3, <2>1, <2>2, Bounds DEF Ahead
  <2>7. AdcInv'
    BY <1>1, <2>4, <2>5, <2>6 DEF AdcInv
  <2> QED
    BY <1>2, <2>7 DEF IInv
<1>5. CASE ~(enabled /\ adc_timeout <= 0)
  <2>1. UNCHANGED adcVars
    BY <1>1, <1>5 DEF AdcRun
  <2>2. enabled => Ahead(adc_timeout, TRUE, lag)
    BY <1>3, <1>5 DEF Ahead
  <2>3. AdcInv'
    BY <1>1, <2>1, <2>2 DEF IInv, AdcInv, AdcTypes, adcVars
  <2> QED
    BY <1>2, <2>3 DEF IInv
<1> QED
  BY <1>4, <1>5

LEMMA SwitchLedIInv == IInv /\ SwitchLed => IInv'
<1> SUFFICES ASSUME IInv, SwitchLed PROVE IInv'
  OBVIOUS
<1>1. PICK i \in Leds : LedOn(i) \/ LedOff(i) \/ LedBlink(i) \/ LedOneshot(i)
  BY DEF SwitchLed
<1>2. at = "event" /\ UNCHANGED <<adcVars, at, lag>>
  BY DEF SwitchLed
<1>3. /\ led' = [j \in Leds |-> led'[j]]
      /\ Good(led'[i], TRUE, lag)
      /\ \A j \in Leds : j # i => led'[j] = led[j]
  BY <1>1, SwitchedGood DEF IInv, LedsInv
<1>4. LedsInv'
  BY <1>2, <1>3 DEF IInv, LedsInv
<1>5. AdcInv' /\ PassInv'
  BY <1>2 DEF IInv, AdcInv, AdcTypes, adcVars, PassInv
<1> QED
  BY <1>4, <1>5 DEF IInv

LEMMA SwitchAdcIInv == IInv /\ SwitchAdc => IInv'
<1> SUFFICES ASSUME IInv, SwitchAdc PROVE IInv'
  OBVIOUS
<1>1. at = "event" /\ UNCHANGED <<led, at, lag>>
  BY DEF SwitchAdc
<1>2. LedsInv' /\ PassInv'
  BY <1>1 DEF IInv, LedsInv, PassInv
<1>3. CASE AdcPowerup
  <2>1. AdcTypes' /\ gap' = 0 /\ adc_timeout' = ADC_POWERUP_TIME
    BY <1>3, Bounds DEF AdcPowerup, IInv, AdcInv, AdcTypes
  <2>2. gap' + adc_timeout' = ADC_POWERUP_TIME
    BY <2>1, Bounds
  <2>3. gap' + adc_timeout' \in
            {ADC_POWERUP_TIME} \cup (ADC_SAMPLE_PERIOD - MaxLate .. ADC_SAMPLE_PERIOD)
    BY <2>2
  <2>4. Ahead(adc_timeout', TRUE, lag') /\ at' = "event"
    BY <1>1, <2>1, Bounds DEF Ahead, IInv, PassInv
  <2>5. AdcInv'
    BY <2>1, <2>3, <2>4 DEF AdcInv
  <2> QED
    BY <1>2, <2>5 DEF IInv
<1>4. CASE AdcPowerdown
  <2>1. /\ enabled' = FALSE /\ adc_timeout' = 0 /\ gap' = 0
        /\ results' = results /\ scene' = scene
    BY <1>4 DEF AdcPowerdown
  <2>2. AdcTypes'
    <3>1. enabled' \in BOOLEAN
      BY <2>1
    <3>2. adc_timeout' \in Int /\ gap' \in Nat
      BY <2>1
    <3>3. results' \in [Channels -> Counts] /\ scene' \in Scenes
      BY <2>1 DEF IInv, AdcInv, AdcTypes
    <3> QED
      BY <3>1, <3>2, <3>3 DEF AdcTypes
  <2> QED
    BY <1>2, <2>1, <2>2 DEF IInv, AdcInv
<1> QED
  BY <1>3, <1>4 DEF SwitchAdc

\* the next pass begins: no timer has been looked at in it
LEMMA EndPassIInv == IInv /\ EndPass => IInv'
<1> SUFFICES ASSUME IInv, EndPass PROVE IInv'
  OBVIOUS
<1>1. at = "event" /\ at' = "leds" /\ lag' = 0 /\ led' = led /\ UNCHANGED adcVars
  BY DEF EndPass
<1>2. lag \in Nat /\ lag <= MaxLoop
  BY Bounds DEF IInv, PassInv
<1>3. ASSUME NEW tmr \in Int, Ahead(tmr, TRUE, lag) PROVE Ahead(tmr, FALSE, 0)
  BY <1>2, <1>3, Bounds DEF Ahead
<1>4. LedsInv'
  <2> SUFFICES ASSUME NEW i \in Leds PROVE Good(led[i], FALSE, 0)
    BY <1>1 DEF IInv, LedsInv
  <2>1. Good(led[i], TRUE, lag) /\ led[i].tmr \in Int
    BY <1>1 DEF IInv, LedsInv, Good, LedTypes
  <2> QED
    BY <1>3, <2>1 DEF Good
<1>5. AdcInv'
  <2>1. enabled => Ahead(adc_timeout, FALSE, 0)
    BY <1>1, <1>3 DEF IInv, AdcInv, AdcTypes
  <2> QED
    BY <1>1, <2>1 DEF IInv, AdcInv, AdcTypes, adcVars
<1>6. PassInv'
  BY <1>1, Bounds DEF PassInv
<1> QED
  BY <1>4, <1>5, <1>6 DEF IInv

LEMMA TickIInv == IInv /\ Tick => IInv'
<1> SUFFICES ASSUME IInv, Tick PROVE IInv'
  OBVIOUS
<1>1. /\ lag < MaxLoop /\ lag' = lag + 1 /\ at' = at
      /\ led' = [i \in Leds |-> IF led[i].mode \in Timed THEN Ticked(led[i]) ELSE led[i]]
      /\ AdcTick
  BY DEF Tick, LedTick
<1>2. lag \in Nat /\ lag <= MaxLoop
  BY Bounds DEF IInv, PassInv
<1>3. LedsInv'
  <2> SUFFICES ASSUME NEW i \in Leds PROVE Good(led'[i], at # "leds", lag + 1)
    BY <1>1 DEF LedsInv
  <2>1. Good(led[i], at # "leds", lag)
    BY DEF IInv, LedsInv
  <2>2. CASE led[i].mode \in Timed
    <3>1. Good(Ticked(led[i]), at # "leds", lag + 1)
      BY <1>1, <2>1, <2>2, TickedGood DEF IInv
    <3> QED
      BY <1>1, <2>2, <3>1
  <2>3. CASE led[i].mode \notin Timed
    <3>1. led'[i] = led[i]
      BY <1>1, <2>3
    <3> QED
      BY <2>1, <2>3, <3>1 DEF Good
  <2> QED
    BY <2>2, <2>3
<1>4. AdcInv'
  <2>1. /\ enabled' = enabled /\ results' = results /\ scene' = scene
        /\ adc_timeout \in Int /\ gap \in Nat
    BY <1>1 DEF AdcTick, IInv, AdcInv, AdcTypes
  <2>2. CASE enabled
    <3>1. adc_timeout' = adc_timeout - 1 /\ gap' = gap + 1
      BY <1>1, <2>2 DEF AdcTick
    <3>2. gap' + adc_timeout' = gap + adc_timeout
      BY <2>1, <3>1
    <3>3. Ahead(adc_timeout', at = "event", lag')
      BY <1>1, <1>2, <2>1, <2>2, <3>1, Bounds DEF IInv, AdcInv, Ahead
    <3>4. AdcTypes'
      BY <2>1, <3>1 DEF IInv, AdcInv, AdcTypes
    <3> QED
      BY <1>1, <2>2, <3>2, <3>3, <3>4 DEF IInv, AdcInv
  <2>3. CASE ~enabled
    BY <1>1, <2>1, <2>3 DEF AdcTick, IInv, AdcInv, AdcTypes
  <2> QED
    BY <2>2, <2>3
<1>5. PassInv'
  BY <1>1, <1>2, Bounds DEF IInv, PassInv
<1> QED
  BY <1>3, <1>4, <1>5 DEF IInv

LEMMA WorldIInv == IInv /\ World => IInv'
<1> SUFFICES ASSUME IInv, World PROVE IInv'
  OBVIOUS
<1>1. /\ UNCHANGED <<led, at, lag, enabled, adc_timeout, results, gap>>
      /\ scene' \in Scenes
  BY DEF World, SceneChanges
<1> QED
  BY <1>1 DEF IInv, LedsInv, AdcInv, AdcTypes, PassInv

LEMMA InitIInv == Init => IInv
<1> SUFFICES ASSUME Init PROVE IInv
  OBVIOUS
<1>1. at = "leds" /\ lag = 0 /\ LedInit /\ AdcInit
  BY DEF Init
<1>2. PassInv
  BY <1>1, Bounds DEF PassInv
<1>3. LedsInv
  <2>1. Good(Off, FALSE, 0)
    BY OffFields DEF Good, GoodTimes, GoodPhase
  <2> QED
    BY <1>1, <2>1 DEF LedInit, LedsInv
<1>4. AdcInv
  <2>1. 0 \in Counts
    BY DEF Counts
  <2>2. AdcTypes
    BY <1>1, <2>1, Bounds DEF AdcInit, AdcTypes
  <2>3. gap + adc_timeout = ADC_POWERUP_TIME /\ Ahead(adc_timeout, FALSE, 0)
    BY <1>1, Bounds DEF AdcInit, Ahead
  <2> QED
    BY <1>1, <2>2, <2>3 DEF AdcInv
<1> QED
  BY <1>2, <1>3, <1>4 DEF IInv

LEMMA NextIInv == IInv /\ [Next]_vars => IInv'
<1> SUFFICES ASSUME IInv, [Next]_vars PROVE IInv'
  OBVIOUS
<1>1. CASE UNCHANGED vars
  BY <1>1 DEF vars, adcVars, IInv, LedsInv, AdcInv, AdcTypes, PassInv
<1> QED
  BY <1>1, RunLedsIInv, RunAdcIInv, SwitchLedIInv, SwitchAdcIInv, EndPassIInv,
     TickIInv, WorldIInv DEF Next

-----------------------------------------------------------------------------
(* The theorems.                                                           *)

\* The inductive invariant: a timer that the last pass has looked at is never
\* further behind than that pass and this one are long.
THEOREM Invariance == Spec => []IInv
<1>1. Init => IInv
  BY InitIInv
<1>2. IInv /\ [Next]_vars => IInv'
  BY NextIInv
<1> QED
  BY <1>1, <1>2, PTL DEF Spec

\* Modes and times are ones that callers gave, and no smoothed reading is larger
\* than the converter's ten bits, although it is computed in 16
\* (adc.c:139-144).
THEOREM TypeCorrect == Spec => []TypeOK
<1>1. IInv => TypeOK
  BY DEF IInv, LedsInv, Good, LedTypes, AdcInv, AdcTypes, PassInv, TypeOK
<1> QED
  BY <1>1, Invariance, PTL

\* No lateness of led_run() adds up: each phase of a blinking LED is as long as
\* asked for, less what it began late (led.c:81-153).
THEOREM PhasesKeepTime == Spec => []PhasesLast
<1>1. IInv => PhasesLast
  <2> SUFFICES ASSUME IInv, NEW i \in Leds
               PROVE  GoodPhase(led[i]) /\ (led[i].mode \in Timed => led[i].tmr >= -MaxLate)
    BY DEF PhasesLast, GoodPhase
  <2>1. Good(led[i], at # "leds", lag) /\ led[i].tmr \in Int /\ lag \in Nat /\ lag <= MaxLoop
    BY Bounds DEF IInv, LedsInv, PassInv, Good, LedTypes
  <2> QED
    BY <2>1, Bounds DEF Good, Ahead
<1> QED
  BY <1>1, Invariance, PTL

\* Samples are a period apart and never early, also when the converters were
\* turned off and on in between (adc.c:120-196).
THEOREM SamplesKeepTime == Spec => []SamplesSpaced
<1>1. IInv => SamplesSpaced
  <2> SUFFICES ASSUME IInv, enabled
               PROVE  /\ gap + adc_timeout \in {ADC_POWERUP_TIME} \cup
                            (ADC_SAMPLE_PERIOD - MaxLate .. ADC_SAMPLE_PERIOD)
                      /\ adc_timeout >= -MaxLate
    BY DEF SamplesSpaced
  <2>1. /\ Ahead(adc_timeout, at = "event", lag) /\ adc_timeout \in Int
        /\ lag \in Nat /\ lag <= MaxLoop
    BY Bounds DEF IInv, AdcInv, AdcTypes, PassInv
  <2>2. adc_timeout >= -MaxLate
    BY <2>1, Bounds DEF Ahead
  <2> QED
    BY <2>2 DEF IInv, AdcInv
<1> QED
  BY <1>1, Invariance, PTL

\* A smoothed reading never passes what is measured: the 16-bit products do not
\* wrap, and rounding does not overshoot (adc.c:139-144).
THEOREM FilterIsSafe == Spec => NeverOvershoots
<1> DEFINE Safe == \A ch \in Channels :
          \/ results[ch] <= results'[ch] /\ results'[ch] <= scene[ch]
          \/ scene[ch] <= results'[ch] /\ results'[ch] <= results[ch]
          \/ results'[ch] = results[ch]
<1>1. IInv /\ [Next]_vars => [Safe]_vars
  <2> SUFFICES ASSUME IInv, Next PROVE Safe
    OBVIOUS
  <2>1. CASE RunAdc
    <3>1. results' = results \/ AdcCollect
      BY <2>1 DEF RunAdc, AdcRun, adcVars
    <3>2. results \in [Channels -> Counts] /\ scene \in [Channels -> Counts]
      BY AdcAssumption DEF IInv, AdcInv, AdcTypes
    <3> QED
      BY <3>1, <3>2, FilterBetween DEF AdcCollect
  <2>2. CASE ~RunAdc
    <3>1. results' = results
      BY <2>2 DEF Next, RunLeds, SwitchLed, SwitchAdc, AdcPowerup, AdcPowerdown,
                  EndPass, Tick, AdcTick, World, SceneChanges, adcVars
    <3> QED
      BY <3>1
  <2> QED
    BY <2>1, <2>2
<1>2. Spec => [][Safe]_vars
  BY <1>1, Invariance, PTL DEF Spec
<1> QED
  BY <1>2 DEF NeverOvershoots

-----------------------------------------------------------------------------
(* From the first sample on, no reading is smaller than a first sample.    *)

Sampled == \A ch \in Channels : results[ch] # 0 => results[ch] \in Readable(ch)

LEMMA SampledNext == IInv /\ Sampled /\ [Next]_vars => Sampled'
<1> SUFFICES ASSUME IInv, Sampled, [Next]_vars PROVE Sampled'
  OBVIOUS
<1>1. results \in [Channels -> Counts] /\ scene \in Scenes /\ scene \in [Channels -> Counts]
  BY AdcAssumption DEF IInv, AdcInv, AdcTypes
<1>2. CASE results' = results
  BY <1>2 DEF Sampled
<1>3. CASE AdcCollect
  <2> SUFFICES ASSUME NEW ch \in Channels, results'[ch] # 0
               PROVE  results'[ch] \in Readable(ch)
    BY DEF Sampled
  <2> DEFINE r == results[ch]
             x == scene[ch]
             f == AdcFilter(x, r)
  <2>1. r \in Counts /\ x \in Counts /\ results'[ch] = f
    BY <1>1, <1>3 DEF AdcCollect
  <2>2. f \in Counts /\ ((r <= f /\ f <= x) \/ (x <= f /\ f <= r))
    BY <2>1, FilterBetween
  <2>3. 0 \in Counts /\ AdcFilter(x, 0) \in Counts /\ AdcFilter(x, 0) <= x
    <3>1. 0 \in Counts
      BY DEF Counts
    <3>2. AdcFilter(x, 0) \in Counts /\ ((0 <= AdcFilter(x, 0) /\ AdcFilter(x, 0) <= x)
                                         \/ (x <= AdcFilter(x, 0) /\ AdcFilter(x, 0) <= 0))
      BY <2>1, <3>1, FilterBetween
    <3> HIDE DEF x
    <3> QED
      BY <2>1, <3>1, <3>2, CountsNat
  <2>4. \E s \in Scenes : AdcFilter(s[ch], 0) <= f
    <3>1. CASE r = 0
      BY <1>1, <2>1, <2>3, <3>1, CountsNat
    <3>2. CASE r # 0 /\ r <= f
      <4>1. PICK s \in Scenes : AdcFilter(s[ch], 0) <= r
        BY <3>2 DEF Sampled, Readable
      <4>2. AdcFilter(s[ch], 0) \in Counts
        <5>1. s[ch] \in Counts
          BY AdcAssumption
        <5> QED
          BY <2>3, <5>1, FilterBetween
      <4> HIDE DEF f, r
      <4>3. AdcFilter(s[ch], 0) <= f
        BY <2>1, <2>2, <3>2, <4>1, <4>2, CountsNat
      <4> QED
        BY <4>3
    <3>3. CASE x <= f
      <4>1. AdcFilter(x, 0) <= f
        <5> DEFINE y == AdcFilter(x, 0)
        <5> HIDE DEF f, x, y
        <5>1. y \in Counts /\ y <= x
          BY <2>3 DEF y
        <5>2. y <= f
          BY <2>1, <2>2, <3>3, <5>1, CountsNat
        <5> QED
          BY <5>2 DEF y
      <4> QED
        BY <1>1, <4>1
    <3> QED
      BY <2>2, <3>1, <3>2, <3>3
  <2> QED
    BY <2>1, <2>2, <2>4 DEF Readable
<1> QED
  BY <1>2, <1>3 DEF Next, RunLeds, RunAdc, AdcRun, SwitchLed, SwitchAdc, AdcPowerup,
     AdcPowerdown, EndPass, Tick, AdcTick, World, SceneChanges, adcVars, vars

\* If the calibration fits the readings, no conversion wraps at 16 or 32 bits, and
\* a temperature is as near to the table's line as rounding allows, beyond both
\* ends of the table too (adc.c:205-232, thermistor_table.c:79-127).
THEOREM ConversionsExact ==
    ASSUME CalibrationFits
    PROVE  Spec => []ReadingsExact
<1>1. Init => Sampled
  BY DEF Init, AdcInit, Sampled
<1>2. IInv /\ Sampled /\ [Next]_vars => Sampled'
  BY SampledNext
<1>3. IInv /\ Sampled => ReadingsExact
  <2> SUFFICES ASSUME IInv, Sampled PROVE ReadingsExact
    OBVIOUS
  <2>1. results \in [Channels -> Counts]
    BY DEF IInv, AdcInv, AdcTypes
  <2>2. ASSUME NEW c \in Calibrations
        PROVE  /\ results[ADC_CH_CELLV] > 0 =>
                    AdcGetCellmv(results, c) = (results[ADC_CH_CELLV] * c.vscale) \div 1024 + c.voffset
               /\ results[ADC_CH_MCU_TEMP] > 0 =>
                    McuTempC(results, c) =
                        ((results[ADC_CH_MCU_TEMP] - c.offset) * c.gain + 128) \div 256 - 273
    <3>1. \A ch \in Channels : results[ch] > 0 => results[ch] \in Readable(ch)
      BY <2>1, CountsNat DEF Sampled
    <3>2. ADC_CH_CELLV \in Channels /\ ADC_CH_MCU_TEMP \in Channels
      BY DEF Channels
    <3> QED
      BY <3>1, <3>2, CellmvExact, McuTempExact
  <2>3. \A ch \in {ADC_CH_BOARD_TEMP, ADC_CH_EXT_TEMP} : results[ch] \in Counts
    BY <2>1 DEF Channels
  <2> QED
    BY <2>2, <2>3, TempOnLine DEF ReadingsExact
<1> QED
  BY <1>1, <1>2, <1>3, Invariance, PTL DEF Spec
=============================================================================
