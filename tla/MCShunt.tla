------------------------------ MODULE MCShunt ------------------------------
(* Shunt with a duty cycle of 8 steps and three sets of parameters; from   *)
(* one to another the limits change with both ranges or only one. The      *)
(* voltages and temperatures lie below, at, between and above the limits.  *)
EXTENDS Shunt

Limits(min, max, lo, hi) ==
    [shuntmin |-> min, shuntmax |-> max, templo |-> lo, temphi |-> hi]

MCParms    == { Limits(3900, 4100, 40, 50), Limits(3800, 3900, 20, 60),
                Limits(3800, 4000, 40, 60) }
MCVoltages == { 3800, 3850, 3899, 3900, 3901, 4000, 4099, 4100 }
MCTemps    == { -5, 0, 20, 39, 40, 41, 45, 49, 50, 60 }
=============================================================================
