-------------------------------- MODULE Tmr --------------------------------
(***************************************************************************)
(* The tick arithmetic of tmr.c.  Times are unsigned and wrap at TICKS     *)
(* (65536 in the code); a timer is a point in time, and it has expired if  *)
(* it lies in the half of the circle behind the present.                   *)
(***************************************************************************)
EXTENDS Integers

CONSTANT TICKS

ASSUME TicksAssumption == TICKS \in Nat \ {0, 1} /\ TICKS % 2 = 0

Time == 0 .. TICKS - 1
Half == TICKS \div 2

\* conversion to uint16_t, for results of one addition or subtraction
Wrap(t) == IF t < 0 THEN t + TICKS ELSE IF t >= TICKS THEN t - TICKS ELSE t

\* tmr_set(): the time that lies ms ticks ahead
TmrSet(now, ms) == Wrap(now + ms)

\* as TmrExpired, but by comparing the times themselves (a mutant)
TmrExpiredNaive(now, timeout) == now >= timeout

\* tmr_expired()
TmrExpired(now, timeout) == Wrap(now - timeout) < Half
=============================================================================
