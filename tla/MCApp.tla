------------------------------- MODULE MCApp -------------------------------
(* App with a duty cycle of two steps, one set of shunt parameters, and    *)
(* readings that make the shunt idle, on and limited and end its test.     *)
EXTENDS App

MCParms    == { [shuntmin |-> 3900, shuntmax |-> 4100,
                 templo |-> 40, temphi |-> 50] }
MCVoltages == { 3800, 4200 }
MCTemps    == { 20, 70 }
=============================================================================
