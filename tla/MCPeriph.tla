------------------------------ MODULE MCPeriph ------------------------------
(* Periph with one LED, real readings and the real table.  The board's     *)
(* temperature goes back and forth across the table's cold end, and all    *)
(* channels come up from 0, the external one to beyond the table's other   *)
(* end; there is a calibration for each sign of an offset.                 *)
EXTENDS Periph

Scene(board) ==
    [ch \in Channels |->
        IF ch = ADC_CH_CELLV THEN 861
        ELSE IF ch = ADC_CH_BOARD_TEMP THEN board
        ELSE IF ch = ADC_CH_EXT_TEMP THEN 870 ELSE 290]

MCScenes == {Scene(260), Scene(276)}

MCCalibrations ==
    {[vscale |-> 4400, voffset |-> 0, gain |-> 240, offset |-> 10],
     [vscale |-> 4432, voffset |-> -25, gain |-> 250, offset |-> -7],
     [vscale |-> 4300, voffset |-> 31, gain |-> 235, offset |-> 0]}

\* so that the hypothesis of the theorem about conversions is one that holds here
ASSUME FitsAssumption == CalibrationFits
=============================================================================
