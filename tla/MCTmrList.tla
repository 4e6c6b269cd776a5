----------------------------- MODULE MCTmrList -----------------------------
(* TmrList with three timers, which come due in any order and together, on *)
(* a clock of 14 ticks that wraps.                                         *)
EXTENDS TmrList
=============================================================================
