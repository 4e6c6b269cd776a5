------------------------------ MODULE TmrList ------------------------------
(***************************************************************************)
(* The list of scheduled timers of tmr.c, linked through the timers        *)
(* themselves by list.c, and searched by the main loop once a pass.        *)
(*                                                                         *)
(* Only the main loop uses the list; the tick interrupt changes the clock  *)
(* alone.  The fields of a timer that is not in the list are kept at 0:    *)
(* tmr_schedule() sets them all before they are read.                      *)
(*                                                                         *)
(* History variable: `left', the ticks until a timer's time in unbounded   *)
(* arithmetic; it stops at -Cap.                                           *)
(***************************************************************************)
EXTENDS Tmr, FiniteSets

CONSTANTS
    Timers,     \* the struct tmr's
    HEAD,       \* tmrlist
    NULL,
    Durations,  \* with which timers are scheduled
    MaxLoop,    \* ticks that one pass of the main loop may take
    Cap         \* where the history variable stops counting

\* A pass handles one timer, so no timer may come round again before all others
\* have had a pass; and a time must be over before the clock has gone half way
\* round.
MaxLate == Cardinality(Timers) * MaxLoop

ASSUME ListAssumption ==
    /\ HEAD \notin Timers /\ NULL \notin Timers /\ HEAD # NULL
    /\ IsFiniteSet(Timers)
    /\ MaxLoop \in Nat \ {0}
    /\ \A d \in Durations : d \in Nat /\ MaxLate <= d /\ d + MaxLate < Half
    /\ Cap \in Nat /\ Cap > MaxLate

VARIABLES
    p_next,     \* the links, from the head and from each timer
    timeout,    \* fields of the timers
    periodic,
    systick,    \* the clock
    lag,        \* ticks since this pass of the main loop began
    expired,    \* what tmr_process() has returned in this pass
    left        \* history

vars == <<p_next, timeout, periodic, systick, lag, expired, left>>

-----------------------------------------------------------------------------
(* list.c: a list is its links.                                            *)

\* the nodes in the order in which list_iter() finds them; NULL from the end on
Walk(next) ==
    LET node[k \in 0 .. Cardinality(Timers) + 1] ==
            IF k = 0 THEN HEAD
            ELSE IF node[k - 1] = NULL THEN NULL ELSE next[node[k - 1]]
    IN  node

Members(next) == {Walk(next)[k] : k \in 1 .. Cardinality(Timers)} \ {NULL}

ListAdd(next, t) == [next EXCEPT ![t] = next[HEAD], ![HEAD] = t]

\* as ListRemove, but only looks at the first item (a mutant)
ListRemoveFirst(next, t) ==
    IF next[HEAD] = t THEN [next EXCEPT ![HEAD] = next[t], ![t] = NULL] ELSE next

\* the item is unlinked from the one before it, if it is in the list
ListRemove(next, t) ==
    IF t \in Members(next)
    THEN LET prev == CHOOSE n \in Members(next) \cup {HEAD} : next[n] = t
         IN  [next EXCEPT ![prev] = next[t], ![t] = NULL]
    ELSE next

-----------------------------------------------------------------------------
(* tmr.c.                                                                  *)

\* tmr_schedule(), once or periodic
TmrSchedule(t) ==
    \E d \in Durations :
        /\ p_next' = ListAdd(ListRemove(p_next, t), t)
        /\ timeout' = [timeout EXCEPT ![t] = TmrSet(systick, d)]
        /\ \E p \in {0, d} : periodic' = [periodic EXCEPT ![t] = p]
        /\ left' = [left EXCEPT ![t] = d]
        /\ UNCHANGED <<systick, lag, expired>>

\* t leaves the list
Unlinked(t) ==
    /\ p_next' = ListRemove(p_next, t)
    /\ timeout' = [timeout EXCEPT ![t] = 0]
    /\ periodic' = [periodic EXCEPT ![t] = 0]
    /\ left' = [left EXCEPT ![t] = 0]

\* tmr_unschedule()
TmrUnschedule(t) ==
    /\ Unlinked(t)
    /\ UNCHANGED <<systick, lag, expired>>

\* as Refreshed, but counts the period from now (a mutant)
RefreshedFromNow(t) ==
    /\ timeout' = [timeout EXCEPT ![t] = Wrap(systick + periodic[t])]
    /\ left' = [left EXCEPT ![t] = @ + periodic[t]]
    /\ UNCHANGED <<p_next, periodic>>

\* the next time of a periodic timer
Refreshed(t) ==
    /\ timeout' = [timeout EXCEPT ![t] = Wrap(@ + periodic[t])]
    /\ left' = [left EXCEPT ![t] = @ + periodic[t]]
    /\ UNCHANGED <<p_next, periodic>>

\* the first timer in the list that has expired
FirstExpired ==
    LET node == Walk(p_next)
        late == {k \in 1 .. Cardinality(Timers) :
                    node[k] # NULL /\ TmrExpired(systick, timeout[node[k]])}
    IN  IF late = {} THEN NULL
        ELSE node[CHOOSE k \in late : \A j \in late : k <= j]

\* tmr_process(), which begins a pass of the main loop
TmrProcess ==
    /\ expired' = FirstExpired
    /\ IF expired' = NULL THEN UNCHANGED <<p_next, timeout, periodic, left>>
       ELSE IF periodic[expired'] # 0 THEN Refreshed(expired')
       ELSE Unlinked(expired')
    /\ lag' = 0
    /\ UNCHANGED systick

\* TCB0_INT_vect
Tick ==
    /\ lag < MaxLoop
    /\ lag' = lag + 1
    /\ systick' = Wrap(systick + 1)
    /\ left' = [t \in Timers |->
                    IF t \in Members(p_next) /\ left[t] > -Cap
                    THEN left[t] - 1 ELSE left[t]]
    /\ UNCHANGED <<p_next, timeout, periodic, expired>>

\* tmr_init()
Init ==
    /\ p_next = [n \in Timers \cup {HEAD} |-> NULL]
    /\ timeout = [t \in Timers |-> 0]
    /\ periodic = [t \in Timers |-> 0]
    /\ systick = 0 /\ lag = 0
    /\ expired = NULL
    /\ left = [t \in Timers |-> 0]

Next == \/ TmrProcess \/ Tick
        \/ \E t \in Timers : TmrSchedule(t) \/ TmrUnschedule(t)

Spec == Init /\ [][Next]_vars

-----------------------------------------------------------------------------
(* Properties.                                                             *)

\* Links lead to timers, and times are on the clock's circle.
TypeOK ==
    /\ p_next \in [Timers \cup {HEAD} -> Timers \cup {NULL}]
    /\ timeout \in [Timers -> Time]
    /\ periodic \in [Timers -> {0} \cup Durations]
    /\ systick \in Time /\ lag \in 0 .. MaxLoop
    /\ expired \in Timers \cup {NULL}
    /\ left \in [Timers -> Int]

\* The walk through the links ends, meets no timer twice, and passes all
\* timers that are linked to anything: whatever is added, removed, added again
\* or removed from the middle, no timer is lost from the list, and none is left
\* pointing into it from outside (list.c:30-53).
ListSound ==
    LET node == Walk(p_next)
    IN  /\ node[Cardinality(Timers) + 1] = NULL
        /\ \A i \in 1 .. Cardinality(Timers) : \A j \in 1 .. Cardinality(Timers) :
              i # j /\ node[i] # NULL => node[i] # node[j]
        /\ \A t \in Timers \ Members(p_next) : p_next[t] = NULL

\* A pass returns one timer, the first in the list, and new ones are put first.
\* No timer is lost from the list, and none waits behind the others for longer
\* than a pass each, although handlers schedule and stop timers as they like
\* (tmr.c:115-143).
LatenessBounded ==
    /\ ListSound
    /\ \A t \in Members(p_next) : left[t] >= -MaxLate

Abstract == INSTANCE TmrSet WITH
    running  <- Members(p_next),
    period   <- periodic,
    returned <- expired,
    Nobody   <- NULL

\* The linked list with its wrapping times is the set of timers of TmrSet: a
\* timer is returned when, and only when, its time has come in unbounded time.
ImplementsTmrSet == Abstract!SetSpec
=============================================================================
