------------------------------- MODULE MCBus -------------------------------
(* Bus with three nodes and three addresses besides 0.                     *)
EXTENDS Bus
=============================================================================
