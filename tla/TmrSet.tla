------------------------------- MODULE TmrSet -------------------------------
(***************************************************************************)
(* What the timer list of tmr.c promises: a set of running timers.  A      *)
(* timer is returned when its time has come and never before; then it is   *)
(* over, or runs on for another period; and as long as the time of some    *)
(* timer has come, one is returned.                                        *)
(***************************************************************************)
EXTENDS Integers

CONSTANTS Timers, Durations, Nobody

VARIABLES running,  \* the timers that have been scheduled
          left,     \* ticks until a timer's time, negative when it has come
          period,   \* of a running timer, 0 if it is to run once
          returned  \* what tmr_process() returned last

setVars == <<running, left, period, returned>>

SetInit == /\ running = {}
           /\ left = [t \in Timers |-> 0]
           /\ period = [t \in Timers |-> 0]
           /\ returned = Nobody

Schedule(t) ==
    \E d \in Durations :
        /\ running' = running \cup {t}
        /\ left' = [left EXCEPT ![t] = d]
        /\ \E p \in {0, d} : period' = [period EXCEPT ![t] = p]
        /\ UNCHANGED returned

Stop(t) ==
    /\ running' = running \ {t}
    /\ left' = [left EXCEPT ![t] = 0]
    /\ period' = [period EXCEPT ![t] = 0]
    /\ UNCHANGED returned

Pass == /\ left' = [t \in Timers |-> IF t \in running THEN left[t] - 1 ELSE 0]
        /\ UNCHANGED <<running, period, returned>>

\* t's time has come
Return(t) ==
    /\ t \in running /\ left[t] <= 0
    /\ returned' = t
    /\ IF period[t] # 0
       THEN /\ left' = [left EXCEPT ![t] = @ + period[t]]
            /\ UNCHANGED <<running, period>>
       ELSE /\ running' = running \ {t}
            /\ left' = [left EXCEPT ![t] = 0]
            /\ UNCHANGED period

\* nobody's has
ReturnNobody ==
    /\ \A t \in running : left[t] > 0
    /\ returned' = Nobody
    /\ UNCHANGED <<running, left, period>>

SetNext == \/ Pass \/ ReturnNobody
           \/ \E t \in Timers : Schedule(t) \/ Stop(t) \/ Return(t)

SetSpec == SetInit /\ [][SetNext]_setVars
=============================================================================
