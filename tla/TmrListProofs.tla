--------------------------- MODULE TmrListProofs ---------------------------
(***************************************************************************)
(* Proofs about the timer list, for any number of timers, any durations    *)
(* that ListAssumption allows and any size of the clock.                   *)
(*                                                                         *)
(* The walk through the links is a recursive function.  A list that is     *)
(* sound has a chain, the sequence of its timers with the head before and  *)
(* NULL after them; the walk is the chain (by induction along it), and     *)
(* adding and removing are simple operations on chains.                    *)
(***************************************************************************)
EXTENDS TmrList, FiniteSetTheorems, TLAPS

N == Cardinality(Timers)

Links == [Timers \cup {HEAD} -> Timers \cup {NULL}]

\* the timers s[1] ... s[n] are linked in this order, and no others are
Chain(next, s, n) ==
    /\ n \in Nat
    /\ s[0] = HEAD /\ s[n + 1] = NULL
    /\ \A k \in 1 .. n : s[k] \in Timers
    /\ \A j \in 1 .. n : \A k \in 1 .. n : s[j] = s[k] => j = k
    /\ \A k \in 0 .. n : next[s[k]] = s[k + 1]
    /\ \A t \in Timers : next[t] # NULL => \E k \in 1 .. n : t = s[k]

Sound(next) == next \in Links /\ \E n, s : Chain(next, s, n)

-----------------------------------------------------------------------------
\* Numbers have a least element.
LEMMA LeastNumber ==
    ASSUME NEW T \in SUBSET Nat, T # {}
    PROVE  \E k \in T : \A n \in T : k <= n
<1> DEFINE Below == { 0 .. k - 1 : k \in T }
<1>1. Below \subseteq FiniteSubsetsOf(Nat)
  <2> SUFFICES ASSUME NEW k \in T PROVE 0 .. k - 1 \in FiniteSubsetsOf(Nat)
    OBVIOUS
  <2>1. IsFiniteSet(0 .. k - 1)
    BY FS_Interval
  <2>2. 0 .. k - 1 \subseteq Nat
    OBVIOUS
  <2> QED
    BY <2>1, <2>2 DEF FiniteSubsetsOf
<1>2. Below # {}
  OBVIOUS
<1>3. IsWellFoundedOn(StrictSubsetOrdering(Nat), FiniteSubsetsOf(Nat))
  BY FS_StrictSubsetOrderingWellFounded
<1> HIDE DEF Below
<1>4. PICK x \in Below : \A y \in Below : ~ (<<y, x>> \in StrictSubsetOrdering(Nat))
  BY <1>1, <1>2, <1>3, WFMin
<1>5. PICK k \in T : x = 0 .. k - 1
  BY DEF Below
<1>6. ASSUME NEW n \in T, n < k PROVE FALSE
  <2>1. 0 .. n - 1 \in Below
    BY DEF Below
  <2>2. 0 .. n - 1 \subseteq x /\ 0 .. n - 1 # x /\ x \subseteq Nat
    BY <1>5, <1>6
  <2> QED
    BY <2>1, <2>2, <1>4 DEF StrictSubsetOrdering
<1> QED
  BY <1>6

\* Induction over the numbers.
LEMMA Induction ==
    ASSUME NEW S, 0 \in S, \A n \in Nat : n \in S => n + 1 \in S
    PROVE  Nat \subseteq S
<1> SUFFICES ASSUME ~(Nat \subseteq S) PROVE FALSE
  OBVIOUS
<1> DEFINE T == Nat \ S
<1>1. T # {} /\ T \in SUBSET Nat
  OBVIOUS
<1>2. PICK k \in T : \A n \in T : k <= n
  BY <1>1, LeastNumber
<1>3. k - 1 \in S /\ k - 1 \in Nat
  BY <1>2
<1> QED
  BY <1>3

-----------------------------------------------------------------------------
(* The list is a chain.                                                    *)

LEMMA TimersFinite == N \in Nat
  BY ListAssumption, FS_CardinalityType DEF N

\* No timer occurs twice, so a chain is not longer than there are timers.
LEMMA ChainShort ==
    ASSUME NEW next, NEW s, NEW n, Chain(next, s, n)
    PROVE  n \in 0 .. N
<1>1. n \in Nat /\ N \in Nat
  BY TimersFinite DEF Chain
<1>2. ASSUME n > N
      PROVE  FALSE
  <2> DEFINE f == [k \in 1 .. n |-> s[k]]
  <2>1. f \in [1 .. n -> Timers]
    BY DEF Chain
  <2>2. IsFiniteSet(1 .. n) /\ Cardinality(1 .. n) = n
    BY <1>1, <1>2, FS_Interval
  <2>3. \E j, k \in 1 .. n : j # k /\ f[j] = f[k]
    <3> HIDE DEF f
    <3>1. IsFiniteSet(Timers) /\ Cardinality(Timers) < Cardinality(1 .. n)
      BY <1>2, <2>2, ListAssumption DEF N
    <3> QED
      BY <2>1, <2>2, <3>1, FS_PigeonHole
  <2> QED
    BY <2>3 DEF Chain
<1> QED
  BY <1>1, <1>2

\* Walking through the links yields the chain, and NULL from its end on.
LEMMA WalkIsChain ==
    ASSUME NEW next, NEW s, NEW n, Chain(next, s, n)
    PROVE  \A k \in 0 .. N + 1 : Walk(next)[k] = IF k <= n THEN s[k] ELSE NULL
<1> DEFINE w == [k \in 0 .. N + 1 |-> IF k <= n THEN s[k] ELSE NULL]
           IsWalk(f) == f = [k \in 0 .. N + 1 |->
                                IF k = 0 THEN HEAD
                                ELSE IF f[k - 1] = NULL THEN NULL ELSE next[f[k - 1]]]
<1>1. n \in 0 .. N /\ N \in Nat
  BY ChainShort, TimersFinite
<1>2. IsWalk(w)
  <2> DEFINE r == [k \in 0 .. N + 1 |->
                      IF k = 0 THEN HEAD
                      ELSE IF w[k - 1] = NULL THEN NULL ELSE next[w[k - 1]]]
  <2>1. ASSUME NEW k \in 0 .. N + 1
        PROVE  w[k] = r[k]
    <3>1. CASE k = 0
      BY <1>1, <3>1 DEF Chain
    <3>2. CASE k # 0 /\ k <= n + 1
      <4>1. k - 1 \in 0 .. n /\ k - 1 \in 0 .. N + 1 /\ (k - 1) + 1 = k
        BY <1>1, <3>2
      <4>2. w[k - 1] = s[k - 1] /\ s[k - 1] # NULL
        <5>1. CASE k = 1
          BY <1>1, <4>1, <5>1, ListAssumption DEF Chain
        <5>2. CASE k # 1
          <6>1. k - 1 \in 1 .. n
            BY <4>1, <5>2
          <6> QED
            BY <1>1, <4>1, <6>1, ListAssumption DEF Chain
        <5> QED
          BY <5>1, <5>2
      <4>3. next[s[k - 1]] = s[k]
        BY <4>1 DEF Chain
      <4>4. w[k] = s[k]
        <5>1. CASE k <= n
          BY <5>1
        <5>2. CASE k = n + 1
          <6>1. ~(k <= n)
            BY <1>1, <5>2
          <6>2. w[k] = NULL /\ s[k] = NULL
            BY <5>2, <6>1 DEF Chain
          <6> QED
            BY <6>2
        <5> QED
          BY <1>1, <3>2, <5>1, <5>2
      <4> QED
        BY <3>2, <4>2, <4>3, <4>4
    <3>3. CASE k > n + 1
      <4>1. k - 1 \in 0 .. N + 1 /\ ~(k - 1 <= n) /\ ~(k <= n) /\ k # 0
        BY <1>1, <3>3
      <4> QED
        BY <4>1
    <3> QED
      BY <1>1, <3>1, <3>2, <3>3
  <2>2. w = r
    BY <2>1
  <2> QED
    BY <2>2
<1>3. Walk(next) = CHOOSE f : IsWalk(f)
  BY DEF Walk, N
<1> DEFINE v == Walk(next)
<1>4. IsWalk(v)
  <2> HIDE DEF IsWalk, w
  <2> QED
    BY <1>2, <1>3
<1> DEFINE S == { k \in Nat : k <= N + 1 => v[k] = w[k] }
<1>5. /\ \A k \in 0 .. N + 1 : v[k] = IF k = 0 THEN HEAD
                                      ELSE IF v[k - 1] = NULL THEN NULL ELSE next[v[k - 1]]
      /\ \A k \in 0 .. N + 1 : w[k] = IF k = 0 THEN HEAD
                                      ELSE IF w[k - 1] = NULL THEN NULL ELSE next[w[k - 1]]
  <2> HIDE DEF v, w
  <2> QED
    BY <1>2, <1>4
<1>6. 0 \in S
  <2> HIDE DEF v, w
  <2> QED
    BY <1>1, <1>5
<1>7. ASSUME NEW k \in Nat, k \in S
      PROVE  k + 1 \in S
  <2> SUFFICES ASSUME k + 1 <= N + 1 PROVE v[k + 1] = w[k + 1]
    OBVIOUS
  <2>1. k + 1 \in 0 .. N + 1 /\ k + 1 # 0 /\ (k + 1) - 1 = k /\ v[k] = w[k]
    BY <1>1, <1>7
  <2> HIDE DEF v, w
  <2> QED
    BY <1>5, <2>1
<1>8. Nat \subseteq S
  <2> HIDE DEF S
  <2> QED
    BY <1>6, <1>7, Induction
<1>9. \A k \in 0 .. N + 1 : v[k] = w[k]
  <2> HIDE DEF v, w
  <2> QED
    BY <1>8
<1> QED
  BY <1>9

\* The members of the list are the timers of its chain.
LEMMA MembersOfChain ==
    ASSUME NEW next, NEW s, NEW n, Chain(next, s, n)
    PROVE  /\ \A k \in 1 .. n : s[k] \in Members(next)
           /\ \A t \in Members(next) : t \in Timers /\ \E k \in 1 .. n : t = s[k]
<1>1. n \in 0 .. N /\ N \in Nat
  BY ChainShort, TimersFinite
<1>2. Members(next) = {Walk(next)[k] : k \in 1 .. N} \ {NULL}
  BY DEF Members, N
<1>3. \A k \in 1 .. N : Walk(next)[k] = IF k <= n THEN s[k] ELSE NULL
  BY <1>1, WalkIsChain
<1>4. \A k \in 1 .. n : s[k] \in Timers /\ s[k] # NULL /\ k \in 1 .. N /\ k <= n
  BY <1>1, ListAssumption DEF Chain
<1>5. \A k \in 1 .. n : s[k] \in Members(next)
  BY <1>2, <1>3, <1>4
<1>6. ASSUME NEW t \in Members(next)
      PROVE  t \in Timers /\ \E k \in 1 .. n : t = s[k]
  <2>1. PICK k \in 1 .. N : t = Walk(next)[k] /\ t # NULL
    BY <1>2
  <2>2. k <= n /\ t = s[k]
    BY <2>1, <1>3
  <2>3. k \in 1 .. n
    BY <1>1, <2>2
  <2> QED
    BY <1>4, <2>2, <2>3
<1> QED
  BY <1>5, <1>6

\* list_add(): the timer comes first (list.c:30-34).
LEMMA Added ==
    ASSUME NEW next, Sound(next), NEW t \in Timers, t \notin Members(next)
    PROVE  /\ Sound(ListAdd(next, t))
           /\ Members(ListAdd(next, t)) = Members(next) \cup {t}
<1> USE ListAssumption
<1>1. next \in Links
  BY DEF Sound
<1>2. PICK n, s : Chain(next, s, n)
  BY DEF Sound
<1> DEFINE new == ListAdd(next, t)
           z == [k \in 0 .. n + 2 |-> IF k = 0 THEN HEAD ELSE IF k = 1 THEN t ELSE s[k - 1]]
<1>3. /\ n \in Nat /\ s[0] = HEAD /\ s[n + 1] = NULL
      /\ \A k \in 1 .. n : s[k] \in Timers
      /\ \A j \in 1 .. n : \A k \in 1 .. n : s[j] = s[k] => j = k
      /\ \A k \in 0 .. n : next[s[k]] = s[k + 1]
      /\ \A u \in Timers : next[u] # NULL => \E k \in 1 .. n : u = s[k]
  BY <1>2 DEF Chain
<1>4. \A k \in 1 .. n : s[k] # t
  BY <1>2, MembersOfChain
<1>5. /\ new \in Links /\ new[t] = next[HEAD] /\ new[HEAD] = t
      /\ \A u \in Timers : u # t => new[u] = next[u]
  BY <1>1 DEF ListAdd, Links
<1>6. /\ z[0] = HEAD /\ z[1] = t
      /\ \A k \in 2 .. n + 2 : z[k] = s[k - 1]
  BY <1>3
<1> HIDE DEF new, z
<1>7. Chain(new, z, n + 1)
  <2>1. z[(n + 1) + 1] = NULL
    <3>1. (n + 1) + 1 \in 2 .. n + 2 /\ ((n + 1) + 1) - 1 = n + 1
      BY <1>3
    <3> QED
      BY <1>3, <1>6, <3>1
  <2>2. ASSUME NEW k \in 1 .. n + 1
        PROVE  z[k] \in Timers /\ (k # 1 => k - 1 \in 1 .. n /\ z[k] = s[k - 1])
    <3>1. CASE k = 1
      BY <1>6, <3>1
    <3>2. CASE k # 1
      <4>1. k - 1 \in 1 .. n /\ k \in 2 .. n + 2
        BY <1>3, <3>2
      <4> QED
        BY <1>3, <1>6, <4>1
    <3> QED
      BY <3>1, <3>2
  <2>3. ASSUME NEW j \in 1 .. n + 1, NEW k \in 1 .. n + 1, z[j] = z[k]
        PROVE  j = k
    <3>1. CASE j = 1 \/ k = 1
      BY <1>4, <1>6, <2>2, <2>3, <3>1
    <3>2. CASE j # 1 /\ k # 1
      <4>1. j - 1 = k - 1
        BY <1>3, <2>2, <2>3, <3>2
      <4> QED
        BY <1>3, <4>1
    <3> QED
      BY <3>1, <3>2
  <2>4. ASSUME NEW k \in 0 .. n + 1
        PROVE  new[z[k]] = z[k + 1]
    <3>1. CASE k = 0
      BY <1>5, <1>6, <3>1
    <3>2. CASE k = 1
      <4>1. z[2] = s[1]
        <5>1. 2 \in 2 .. n + 2 /\ 2 - 1 = 1
          BY <1>3
        <5> QED
          BY <1>6, <5>1
      <4>2. next[HEAD] = s[1]
        <5>1. 0 \in 0 .. n /\ 0 + 1 = 1
          BY <1>3
        <5> QED
          BY <1>3, <5>1
      <4> QED
        BY <1>5, <1>6, <3>2, <4>1, <4>2
    <3>3. CASE k # 0 /\ k # 1
      <4>1. /\ k - 1 \in 1 .. n /\ k - 1 \in 0 .. n /\ (k - 1) + 1 = k /\ (k + 1) - 1 = k
            /\ k \in 2 .. n + 2 /\ k + 1 \in 2 .. n + 2
        BY <1>3, <3>3
      <4>2. z[k] = s[k - 1] /\ z[k + 1] = s[k]
        BY <1>6, <4>1
      <4>3. s[k - 1] \in Timers /\ s[k - 1] # t /\ next[s[k - 1]] = s[k]
        BY <1>3, <1>4, <4>1
      <4> QED
        BY <1>5, <4>2, <4>3
    <3> QED
      BY <3>1, <3>2, <3>3
  <2>5. ASSUME NEW u \in Timers, new[u] # NULL
        PROVE  \E k \in 1 .. n + 1 : u = z[k]
    <3>1. CASE u = t
      <4>1. 1 \in 1 .. n + 1
        BY <1>3
      <4> QED
        BY <1>6, <3>1, <4>1
    <3>2. CASE u # t
      <4>1. PICK k \in 1 .. n : u = s[k]
        BY <1>3, <1>5, <2>5, <3>2
      <4>2. k + 1 \in 1 .. n + 1 /\ k + 1 \in 2 .. n + 2 /\ (k + 1) - 1 = k
        BY <1>3
      <4> QED
        BY <1>6, <4>1, <4>2
    <3> QED
      BY <3>1, <3>2
  <2>6. n + 1 \in Nat
    BY <1>3
  <2> QED
    BY <1>6, <2>1, <2>2, <2>3, <2>4, <2>5, <2>6 DEF Chain
<1>8. Members(new) = Members(next) \cup {t}
  <2>1. ASSUME NEW u \in Members(new)
        PROVE  u \in Members(next) \cup {t}
    <3>1. PICK k \in 1 .. n + 1 : u = z[k]
      BY <1>7, MembersOfChain
    <3>2. CASE k # 1
      <4>1. k - 1 \in 1 .. n /\ u = s[k - 1]
        <5>1. k - 1 \in 1 .. n /\ k \in 2 .. n + 2
          BY <1>3, <3>2
        <5> QED
          BY <1>6, <3>1, <5>1
      <4> QED
        BY <1>2, <4>1, MembersOfChain
    <3> QED
      BY <1>6, <3>1, <3>2
  <2>2. t \in Members(new)
    <3>1. 1 \in 1 .. n + 1
      BY <1>3
    <3> QED
      BY <1>6, <1>7, <3>1, MembersOfChain
  <2>3. ASSUME NEW u \in Members(next)
        PROVE  u \in Members(new)
    <3>1. PICK k \in 1 .. n : u = s[k]
      BY <1>2, MembersOfChain
    <3>2. k + 1 \in 1 .. n + 1 /\ k + 1 \in 2 .. n + 2 /\ (k + 1) - 1 = k
      BY <1>3
    <3>3. u = z[k + 1]
      BY <1>6, <3>1, <3>2
    <3> QED
      BY <1>7, <3>2, <3>3, MembersOfChain
  <2> QED
    BY <2>1, <2>2, <2>3
<1> QED
  BY <1>5, <1>7, <1>8 DEF Sound, new

\* list_remove(): the timer is unlinked from the one before it, wherever it is,
\* and nothing happens if it is not in the list (list.c:36-53).
LEMMA Removed ==
    ASSUME NEW next, Sound(next), NEW t \in Timers
    PROVE  /\ Sound(ListRemove(next, t))
           /\ Members(ListRemove(next, t)) = Members(next) \ {t}
<1> USE ListAssumption
<1>1. next \in Links
  BY DEF Sound
<1>2. PICK n, s : Chain(next, s, n)
  BY DEF Sound
<1>3. /\ n \in Nat /\ s[0] = HEAD /\ s[n + 1] = NULL
      /\ \A k \in 1 .. n : s[k] \in Timers
      /\ \A j \in 1 .. n : \A k \in 1 .. n : s[j] = s[k] => j = k
      /\ \A k \in 0 .. n : next[s[k]] = s[k + 1]
      /\ \A u \in Timers : next[u] # NULL => \E k \in 1 .. n : u = s[k]
  BY <1>2 DEF Chain
<1>4. CASE t \notin Members(next)
  <2>1. ListRemove(next, t) = next
    BY <1>4 DEF ListRemove
  <2> QED
    BY <1>4, <2>1
<1>5. CASE t \in Members(next)
  <2>1. PICK i \in 1 .. n : t = s[i]
    BY <1>2, <1>5, MembersOfChain
  <2> DEFINE IsPrev(m) == m \in Members(next) \cup {HEAD} /\ next[m] = t
             prev == CHOOSE m \in Members(next) \cup {HEAD} : next[m] = t
             new == ListRemove(next, t)
             z == [k \in 0 .. n |-> IF k < i THEN s[k] ELSE s[k + 1]]
  <2>2. i \in Nat /\ i - 1 \in 0 .. n /\ (i - 1) + 1 = i
    BY <1>3
  <2>3. IsPrev(s[i - 1])
    <3>1. next[s[i - 1]] = t
      BY <1>3, <2>1, <2>2
    <3>2. CASE i = 1
      BY <1>3, <3>1, <3>2
    <3>3. CASE i # 1
      <4>1. i - 1 \in 1 .. n
        BY <2>2, <3>3
      <4> QED
        BY <1>2, <3>1, <4>1, MembersOfChain
    <3> QED
      BY <3>2, <3>3
  <2>4. ASSUME NEW m, IsPrev(m)
        PROVE  m = s[i - 1]
    <3>1. PICK k \in 0 .. n : m = s[k]
      <4>1. CASE m = HEAD
        <5>1. 0 \in 0 .. n
          BY <1>3
        <5> QED
          BY <1>3, <4>1, <5>1
      <4>2. CASE m \in Members(next)
        <5>1. PICK k \in 1 .. n : m = s[k]
          BY <1>2, <4>2, MembersOfChain
        <5>2. k \in 0 .. n
          BY <1>3
        <5> QED
          BY <5>1, <5>2
      <4> QED
        BY <2>4, <4>1, <4>2
    <3>2. s[k + 1] = s[i]
      BY <1>3, <2>1, <2>4, <3>1
    <3>3. k # n
      BY <1>3, <2>1, <3>2
    <3>4. k + 1 \in 1 .. n
      BY <1>3, <3>3
    <3>5. k + 1 = i
      BY <1>3, <3>2, <3>4
    <3>6. k = i - 1
      BY <1>3, <2>2, <3>5
    <3> QED
      BY <3>1, <3>6
  <2>5. prev = s[i - 1]
    <3>1. IsPrev(prev)
      BY <2>3
    <3> HIDE DEF prev, IsPrev
    <3> QED
      BY <2>4, <3>1
  <2>6. new = [next EXCEPT ![s[i - 1]] = next[t], ![t] = NULL]
    <3>1. new = [next EXCEPT ![prev] = next[t], ![t] = NULL]
      BY <1>5 DEF ListRemove
    <3> HIDE DEF new, prev
    <3> QED
      BY <2>5, <3>1
  <2>7. s[i - 1] \in Timers \cup {HEAD} /\ s[i - 1] # t
    <3>1. CASE i = 1
      BY <1>3, <3>1
    <3>2. CASE i # 1
      <4>1. i - 1 \in 1 .. n /\ i - 1 # i
        BY <2>2, <3>2
      <4> QED
        BY <1>3, <2>1, <4>1
    <3> QED
      BY <3>1, <3>2
  <2>8. next[t] = s[i + 1] /\ i \in 0 .. n
    BY <1>3, <2>1, <2>2
  <2>9. /\ new \in Links /\ new[t] = NULL /\ new[s[i - 1]] = s[i + 1]
        /\ \A u \in Timers \cup {HEAD} : u # t /\ u # s[i - 1] => new[u] = next[u]
    <3> HIDE DEF new
    <3> QED
      BY <1>1, <2>6, <2>7, <2>8 DEF Links
  <2>10. /\ \A k \in 0 .. n : k < i => z[k] = s[k]
         /\ \A k \in 0 .. n : k >= i => z[k] = s[k + 1]
    BY <2>2
  <2> HIDE DEF new, z, prev, IsPrev
  <2>11. ASSUME NEW k \in 1 .. n - 1
        PROVE  \E h \in 1 .. n : /\ z[k] = s[h] /\ h # i
                                 /\ h = IF k < i THEN k ELSE k + 1
    <3>1. CASE k < i
      <4>1. k \in 1 .. n /\ k \in 0 .. n
        BY <1>3
      <4> QED
        BY <2>10, <3>1, <4>1
    <3>2. CASE k >= i
      <4>1. k + 1 \in 1 .. n /\ k \in 0 .. n /\ k + 1 # i /\ ~(k < i)
        BY <1>3, <3>2
      <4> QED
        BY <2>10, <3>2, <4>1
    <3> QED
      BY <1>3, <3>1, <3>2
  <2>12. ASSUME NEW h \in 1 .. n, h # i
        PROVE  \E k \in 1 .. n - 1 : s[h] = z[k]
    <3>1. CASE h < i
      <4>1. h \in 1 .. n - 1 /\ h \in 0 .. n
        BY <1>3, <2>2, <3>1
      <4> QED
        BY <2>10, <3>1, <4>1
    <3>2. CASE h > i
      <4>1. h - 1 \in 1 .. n - 1 /\ h - 1 \in 0 .. n /\ h - 1 >= i /\ (h - 1) + 1 = h
        BY <1>3, <2>2, <3>2
      <4> QED
        BY <2>10, <4>1
    <3> QED
      BY <1>3, <2>2, <2>12, <3>1, <3>2
  <2>13. Chain(new, z, n - 1)
    <3>1. n - 1 \in Nat /\ (n - 1) + 1 = n
      BY <1>3, <2>2
    <3>2. z[0] = HEAD /\ z[(n - 1) + 1] = NULL
      <4>1. z[0] = HEAD
        <5>1. 0 \in 0 .. n /\ 0 < i
          BY <1>3
        <5> QED
          BY <1>3, <2>10, <5>1
      <4>2. z[n] = NULL
        <5>1. n \in 0 .. n /\ n >= i
          BY <1>3
        <5> QED
          BY <1>3, <2>10, <5>1
      <4> QED
        BY <3>1, <4>1, <4>2
    <3>4. \A k \in 1 .. n - 1 : z[k] \in Timers
      BY <1>3, <2>11
    <3>5. ASSUME NEW j \in 1 .. n - 1, NEW k \in 1 .. n - 1, z[j] = z[k]
          PROVE  j = k
      <4>1. PICK g \in 1 .. n : z[j] = s[g] /\ g = IF j < i THEN j ELSE j + 1
        BY <2>11
      <4>2. PICK h \in 1 .. n : z[k] = s[h] /\ h = IF k < i THEN k ELSE k + 1
        BY <2>11
      <4>3. g = h
        BY <1>3, <3>5, <4>1, <4>2
      <4> QED
        BY <1>3, <2>2, <4>1, <4>2, <4>3
    <3>6. ASSUME NEW k \in 0 .. n - 1
          PROVE  new[z[k]] = z[k + 1]
      <4>0. k \in Nat /\ k \in 0 .. n /\ k + 1 \in 0 .. n
        BY <1>3
      <4>1. CASE k = i - 1
        <5>1. k < i /\ k + 1 >= i /\ (k + 1) + 1 = i + 1
          BY <2>2, <4>1
        <5>2. z[k] = s[i - 1] /\ z[k + 1] = s[i + 1]
          BY <2>10, <4>0, <4>1, <5>1
        <5> QED
          BY <2>9, <5>2
      <4>2. CASE k < i - 1
        <5>1. k < i /\ k + 1 < i /\ k # i /\ k # i - 1
          BY <2>2, <4>0, <4>2
        <5>2. z[k] = s[k] /\ z[k + 1] = s[k + 1] /\ next[s[k]] = s[k + 1]
          BY <1>3, <2>10, <4>0, <5>1
        <5>3. s[k] \in Timers \cup {HEAD} /\ s[k] # t /\ s[k] # s[i - 1]
          <6>1. CASE k = 0
            <7>1. i - 1 \in 1 .. n
              BY <2>2, <4>2, <6>1
            <7> QED
              BY <1>3, <6>1, <7>1
          <6>2. CASE k # 0
            <7>1. k \in 1 .. n /\ i - 1 \in 1 .. n
              BY <2>2, <4>0, <4>2, <6>2
            <7> QED
              BY <1>3, <2>1, <5>1, <7>1
          <6> QED
            BY <6>1, <6>2
        <5> QED
          BY <2>9, <5>2, <5>3
      <4>3. CASE k >= i
        <5>1. /\ k + 1 \in 1 .. n /\ k + 1 >= i /\ k + 1 # i /\ k + 1 # i - 1
          BY <2>2, <4>0, <4>3
        <5>2. z[k] = s[k + 1] /\ z[k + 1] = s[(k + 1) + 1] /\ next[s[k + 1]] = s[(k + 1) + 1]
          BY <1>3, <2>10, <4>0, <4>3, <5>1
        <5>3. s[k + 1] \in Timers \cup {HEAD} /\ s[k + 1] # t /\ s[k + 1] # s[i - 1]
          <6>1. CASE i = 1
            BY <1>3, <2>1, <5>1, <6>1
          <6>2. CASE i # 1
            <7>1. i - 1 \in 1 .. n
              BY <2>2, <6>2
            <7> QED
              BY <1>3, <2>1, <5>1, <7>1
          <6> QED
            BY <6>1, <6>2
        <5> QED
          BY <2>9, <5>2, <5>3
      <4> QED
        BY <2>2, <4>0, <4>1, <4>2, <4>3
    <3>8. ASSUME NEW u \in Timers, new[u] # NULL
          PROVE  \E k \in 1 .. n - 1 : u = z[k]
      <4>1. u # t
        BY <2>9, <3>8
      <4>2. PICK h \in 1 .. n : u = s[h]
        <5>1. CASE u = s[i - 1]
          <6>1. i - 1 \in 1 .. n
            BY <1>3, <2>2, <5>1
          <6> QED
            BY <5>1, <6>1
        <5>2. CASE u # s[i - 1]
          BY <1>3, <2>9, <3>8, <4>1, <5>2
        <5> QED
          BY <5>1, <5>2
      <4>3. h # i
        BY <2>1, <4>1, <4>2
      <4> QED
        BY <2>12, <4>2, <4>3
    <3> QED
      BY <3>1, <3>2, <3>4, <3>5, <3>6, <3>8 DEF Chain
  <2>14. Members(new) = Members(next) \ {t}
    <3>1. ASSUME NEW u \in Members(new)
          PROVE  u \in Members(next) \ {t}
      <4>1. PICK k \in 1 .. n - 1 : u = z[k]
        BY <2>13, MembersOfChain
      <4>2. PICK h \in 1 .. n : u = s[h] /\ h # i
        BY <4>1, <2>11
      <4>3. u # t
        BY <1>3, <2>1, <4>2
      <4> QED
        BY <1>2, <4>2, <4>3, MembersOfChain
    <3>2. ASSUME NEW u \in Members(next), u # t
          PROVE  u \in Members(new)
      <4>1. u \in Timers
        BY <1>2, MembersOfChain
      <4>2. PICK h \in 1 .. n : u = s[h]
        BY <1>2, MembersOfChain
      <4>3. h # i
        BY <2>1, <3>2, <4>2
      <4>4. \E k \in 1 .. n - 1 : u = z[k]
        BY <2>12, <4>2, <4>3
      <4> QED
        BY <2>13, <4>4, MembersOfChain
    <3> QED
      BY <3>1, <3>2
  <2> QED
    BY <2>9, <2>13, <2>14 DEF Sound, new
<1> QED
  BY <1>4, <1>5

\* The list is sound in the sense of the property.
LEMMA SoundIsListSound == Sound(p_next) => ListSound
<1> SUFFICES ASSUME Sound(p_next) PROVE ListSound
  OBVIOUS
<1> USE ListAssumption
<1>1. PICK n, s : Chain(p_next, s, n)
  BY DEF Sound
<1>2. n \in 0 .. N /\ N \in Nat
  BY <1>1, ChainShort, TimersFinite
<1>3. \A k \in 0 .. N + 1 : Walk(p_next)[k] = IF k <= n THEN s[k] ELSE NULL
  BY <1>1, WalkIsChain
<1>4. Walk(p_next)[N + 1] = NULL
  BY <1>2, <1>3
<1>5. ASSUME NEW i \in 1 .. N, NEW j \in 1 .. N,
             i # j, Walk(p_next)[i] # NULL
      PROVE  Walk(p_next)[i] # Walk(p_next)[j]
  <2>1. i \in 1 .. n /\ Walk(p_next)[i] = s[i]
    BY <1>2, <1>3, <1>5
  <2>2. CASE j <= n
    <3>1. j \in 1 .. n /\ Walk(p_next)[j] = s[j]
      BY <1>2, <1>3, <2>2
    <3> QED
      BY <1>1, <1>5, <2>1, <3>1 DEF Chain
  <2>3. CASE ~(j <= n)
    <3>1. Walk(p_next)[j] = NULL
      BY <1>2, <1>3, <2>3
    <3> QED
      BY <1>5, <3>1
  <2> QED
    BY <2>2, <2>3
<1>6. ASSUME NEW t \in Timers \ Members(p_next)
      PROVE  p_next[t] = NULL
  <2>1. \A k \in 1 .. n : s[k] \in Members(p_next)
    BY <1>1, MembersOfChain
  <2>2. p_next[t] # NULL => \E k \in 1 .. n : t = s[k]
    BY <1>1 DEF Chain
  <2> QED
    BY <2>1, <2>2
<1> QED
  BY <1>4, <1>5, <1>6 DEF ListSound, N

\* tmr_process() finds a timer that has expired, if there is one (tmr.c:115-143).
LEMMA FirstExpiredIsExpired ==
    ASSUME Sound(p_next)
    PROVE  /\ FirstExpired = NULL =>
                 \A t \in Members(p_next) : ~TmrExpired(systick, timeout[t])
           /\ FirstExpired # NULL =>
                 /\ FirstExpired \in Members(p_next)
                 /\ TmrExpired(systick, timeout[FirstExpired])
<1> USE ListAssumption
<1>1. PICK n, s : Chain(p_next, s, n)
  BY DEF Sound
<1>2. n \in 0 .. N /\ N \in Nat
  BY <1>1, ChainShort, TimersFinite
<1> DEFINE node == Walk(p_next)
           late == {k \in 1 .. N : node[k] # NULL /\ TmrExpired(systick, timeout[node[k]])}
<1>3. FirstExpired = IF late = {} THEN NULL
                     ELSE node[CHOOSE k \in late : \A j \in late : k <= j]
  BY DEF FirstExpired, N
<1>4. \A k \in 1 .. N : node[k] = IF k <= n THEN s[k] ELSE NULL
  BY <1>1, <1>2, WalkIsChain
<1>5. Members(p_next) = {node[k] : k \in 1 .. N} \ {NULL}
  BY DEF Members, N
<1> HIDE DEF node
<1>6. CASE late = {}
  <2>1. \A t \in Members(p_next) : ~TmrExpired(systick, timeout[t])
    BY <1>5, <1>6
  <2> QED
    BY <1>3, <1>6, <2>1
<1>7. CASE late # {}
  <2> DEFINE k == CHOOSE k \in late : \A j \in late : k <= j
  <2>1. late \in SUBSET Nat
    BY <1>2
  <2>2. k \in late
    <3>1. \E i \in late : \A j \in late : i <= j
      <4> HIDE DEF late
      <4> QED
        BY <1>7, <2>1, LeastNumber
    <3> QED
      BY <3>1
  <2>3. FirstExpired = node[k]
    BY <1>3, <1>7
  <2> HIDE DEF k
  <2>4. node[k] # NULL /\ TmrExpired(systick, timeout[node[k]]) /\ k \in 1 .. N
    BY <2>2
  <2> QED
    BY <1>5, <2>3, <2>4
<1> QED
  BY <1>6, <1>7

-----------------------------------------------------------------------------
(***************************************************************************)
(* Times on the circle.  A time that is less than half the circle away can *)
(* be told from one that has passed.                                       *)
(***************************************************************************)

LEMMA HalfIsHalf == Half \in Nat \ {0} /\ TICKS = 2 * Half
  BY TicksAssumption DEF Half

\* The arithmetic of tmr_set(), tmr_expired() and of a period (tmr.c:77-86, 134).
LEMMA OnTheCircle ==
    ASSUME NEW s \in Time, NEW x \in Int, -Half < x, x < Half
    PROVE  /\ Wrap(s + x) \in Time
           /\ TmrExpired(s, Wrap(s + x)) <=> x <= 0
           /\ -Half < x - 1 => Wrap(Wrap(s + 1) + (x - 1)) = Wrap(s + x)
<1>1. /\ TICKS = 2 * Half /\ Half \in Nat /\ Half > 0
      /\ s \in Int /\ 0 <= s /\ s < TICKS
  BY HalfIsHalf DEF Time
<1>2. Wrap(s + x) \in Time
  BY <1>1 DEF Wrap, Time
<1>3. TmrExpired(s, Wrap(s + x)) <=> x <= 0
  BY <1>1 DEF Wrap, TmrExpired
<1>4. -Half < x - 1 => Wrap(Wrap(s + 1) + (x - 1)) = Wrap(s + x)
  BY <1>1 DEF Wrap
<1> QED
  BY <1>2, <1>3, <1>4

LEMMA NextPeriod ==
    ASSUME NEW s \in Time, NEW x \in Int, -Half < x, x <= 0,
           NEW d \in Nat, d < Half
    PROVE  Wrap(Wrap(s + x) + d) = Wrap(s + (x + d))
<1>1. /\ TICKS = 2 * Half /\ Half \in Nat /\ Half > 0
      /\ s \in Int /\ 0 <= s /\ s < TICKS
  BY HalfIsHalf DEF Time
<1> QED
  BY <1>1 DEF Wrap

-----------------------------------------------------------------------------
(***************************************************************************)
(* The inductive invariant.  That no timer waits longer than MaxLate is    *)
(* not inductive by itself.  Punctual looks back to the last pass that     *)
(* found no timer expired, or had served all that had, p passes ago: at    *)
(* most Elapsed(p) ticks have gone since, and of the N timers that could   *)
(* come due within MaxLate of it, p have been served and will not come due *)
(* in this time again, because their durations are MaxLate at least.  So   *)
(* after N passes at the latest no timer is left that has expired.         *)
(***************************************************************************)

Running == Members(p_next)

Idle == \A t \in Timers \ Running : left[t] = 0 /\ periodic[t] = 0

\* the clock and a timer's time are as far apart as `left' says, and a time is
\* never further ahead than a duration
Distance == \A t \in Running : /\ timeout[t] = Wrap(systick + left[t])
                               /\ \E d \in Durations : left[t] <= d

Elapsed(p) == p * MaxLoop + lag

\* the timers that come due within MaxLate of the pass that p counts from
Soon(p) == { t \in Running : left[t] <= MaxLate - Elapsed(p) }

PunctualAt(p) ==
    /\ p = 0 \/ p < N
    /\ \A t \in Running : left[t] >= 1 - Elapsed(p)
    /\ Cardinality(Soon(p)) <= N - p

Punctual == \E p \in 0 .. N : PunctualAt(p)

IInv == TypeOK /\ Sound(p_next) /\ Idle /\ Distance /\ Punctual

LEMMA Bounds ==
    /\ N \in Nat /\ MaxLoop \in Nat \ {0} /\ MaxLate \in Nat
    /\ Timers # {} => N >= 1 /\ MaxLate >= 1
    /\ \A d \in Durations : d \in Nat /\ MaxLate <= d /\ d + MaxLate < Half
    /\ Half \in Nat
<1>1. N \in Nat /\ MaxLoop \in Nat \ {0} /\ Half \in Nat
  BY TimersFinite, ListAssumption, HalfIsHalf
<1>2. MaxLate \in Nat
  BY <1>1 DEF MaxLate, N
<1>3. ASSUME Timers # {} PROVE N >= 1 /\ MaxLate >= 1
  <2>1. N >= 1
    BY <1>1, <1>3, ListAssumption, FS_EmptySet DEF N
  <2>2. N * MaxLoop >= 1
    BY <1>1, <2>1
  <2> QED
    BY <2>1, <2>2 DEF MaxLate, N
<1> QED
  BY <1>1, <1>2, <1>3, ListAssumption

\* Counting passes and counting ticks.
LEMMA Passes ==
    ASSUME NEW p \in 0 .. N
    PROVE  /\ p * MaxLoop \in Nat /\ p + 1 \in Nat
           /\ (p + 1) * MaxLoop = p * MaxLoop + MaxLoop
           /\ p >= 1 => p * MaxLoop >= 1
           /\ p = 0 => p * MaxLoop = 0
           /\ p < N => p * MaxLoop + MaxLoop <= MaxLate
           /\ p = N => p * MaxLoop = MaxLate
<1>1. p \in Nat /\ N \in Nat /\ MaxLoop \in Nat /\ MaxLoop >= 1 /\ MaxLate = N * MaxLoop
  BY Bounds DEF MaxLate, N
<1>2. p * MaxLoop \in Nat /\ (p + 1) * MaxLoop = p * MaxLoop + MaxLoop
  BY <1>1
<1>3. p >= 1 => p * MaxLoop >= 1
  BY <1>1
<1>4. p < N => p * MaxLoop + MaxLoop <= MaxLate
  <2> SUFFICES ASSUME p < N PROVE (p + 1) * MaxLoop <= N * MaxLoop
    BY <1>1, <1>2
  <2>1. p + 1 <= N
    BY <1>1
  <2> QED
    BY <1>1, <2>1
<1> QED
  BY <1>1, <1>2, <1>3, <1>4

LEMMA RunningAreTimers ==
    ASSUME Sound(p_next)
    PROVE  Running \subseteq Timers
<1>1. PICK n, s : Chain(p_next, s, n)
  BY DEF Sound
<1> QED
  BY <1>1, MembersOfChain DEF Running

\* A running timer is never late by MaxLate, and nearer than half the circle.
LEMMA Near ==
    ASSUME IInv, NEW t \in Running
    PROVE  /\ t \in Timers /\ left[t] \in Int
           /\ left[t] >= 1 - MaxLate /\ left[t] + MaxLate < Half
           /\ -Half < left[t] - 1 /\ left[t] < Half
<1>1. t \in Timers /\ left[t] \in Int /\ lag \in 0 .. MaxLoop
  BY RunningAreTimers DEF IInv, TypeOK
<1>2. PICK d \in Durations : left[t] <= d
  BY DEF IInv, Distance
<1>3. /\ d \in Nat /\ MaxLate <= d /\ d + MaxLate < Half
      /\ MaxLate \in Nat /\ MaxLoop \in Nat /\ Half \in Nat /\ N \in Nat /\ N >= 1
  BY <1>1, Bounds
<1>4. PICK p \in 0 .. N : PunctualAt(p)
  BY DEF IInv, Punctual
<1>5. left[t] >= 1 - Elapsed(p) /\ p < N
  BY <1>3, <1>4 DEF PunctualAt
<1>6. Elapsed(p) \in Nat /\ Elapsed(p) <= MaxLate
  <2>1. p * MaxLoop \in Nat /\ p * MaxLoop + MaxLoop <= MaxLate
    BY <1>5, Passes
  <2> DEFINE q == p * MaxLoop
  <2>2. Elapsed(p) = q + lag
    BY DEF Elapsed
  <2>3. q \in Nat /\ q + MaxLoop <= MaxLate
    BY <2>1
  <2> HIDE DEF q
  <2> QED
    BY <1>1, <1>3, <2>2, <2>3
<1>7. left[t] >= 1 - MaxLate
  BY <1>1, <1>3, <1>5, <1>6
<1>8. left[t] + MaxLate < Half
  BY <1>1, <1>2, <1>3
<1> QED
  BY <1>1, <1>3, <1>7, <1>8

\* All sets of timers are finite and no larger than Timers.
LEMMA SetsOfTimers ==
    ASSUME NEW S \in SUBSET Timers
    PROVE  /\ IsFiniteSet(S) /\ Cardinality(S) \in Nat /\ Cardinality(S) <= N
           /\ \A T \in SUBSET S : Cardinality(T) <= Cardinality(S)
           /\ \A t \in S : \A T \in SUBSET (S \ {t}) : Cardinality(T) <= Cardinality(S) - 1
           /\ Cardinality(S) <= 0 => S = {}
<1>1. IsFiniteSet(S) /\ Cardinality(S) <= N
  BY ListAssumption, FS_Subset DEF N
<1>2. Cardinality(S) \in Nat
  BY <1>1, FS_CardinalityType
<1>3. \A T \in SUBSET S : Cardinality(T) <= Cardinality(S)
  BY <1>1, FS_Subset
<1>4. ASSUME NEW t \in S, NEW T \in SUBSET (S \ {t})
      PROVE  Cardinality(T) <= Cardinality(S) - 1
  <2>1. IsFiniteSet(S \ {t}) /\ Cardinality(S \ {t}) = Cardinality(S) - 1
    BY <1>1, FS_RemoveElement
  <2>2. Cardinality(T) <= Cardinality(S \ {t})
    BY <2>1, FS_Subset
  <2> QED
    BY <2>1, <2>2
<1>5. Cardinality(S) <= 0 => S = {}
  BY <1>1, <1>2, FS_EmptySet
<1> QED
  BY <1>1, <1>2, <1>3, <1>4, <1>5

\* tmr_init(): the list is empty.
LEMMA InitIInv == Init => IInv /\ Running = {}
<1> SUFFICES ASSUME Init PROVE IInv /\ Running = {}
  OBVIOUS
<1> USE ListAssumption
<1>1. TypeOK
  <2>1. TICKS \in Nat /\ TICKS > 0
    BY HalfIsHalf
  <2>2. 0 \in Time /\ 0 \in 0 .. MaxLoop
    BY <2>1 DEF Time
  <2> QED
    BY <2>2 DEF Init, TypeOK
<1>2. Sound(p_next)
  <2> DEFINE s == [k \in 0 .. 1 |-> IF k = 0 THEN HEAD ELSE NULL]
  <2>1. Chain(p_next, s, 0)
    BY DEF Init, Chain
  <2>2. p_next \in Links
    BY DEF Init, Links
  <2> QED
    BY <2>1, <2>2 DEF Sound
<1>3. Idle
  BY DEF Init, Idle
<1>4. Running = {}
  <2>1. Members(p_next) \subseteq Timers
    BY <1>2, RunningAreTimers DEF Running
  <2>2. \A t \in Timers : p_next[t] = NULL /\ p_next[HEAD] = NULL
    BY DEF Init
  <2>3. PICK n, s : Chain(p_next, s, n)
    BY <1>2 DEF Sound
  <2>4. n = 0
    <3>1. n \in Nat /\ (n # 0 => s[1] \in Timers) /\ p_next[s[0]] = s[0 + 1] /\ s[0] = HEAD
      BY <2>3 DEF Chain
    <3>2. s[1] = NULL
      BY <3>1 DEF Init
    <3> QED
      BY <3>1, <3>2
  <2> QED
    BY <2>3, <2>4, MembersOfChain DEF Running
<1>5. Distance
  BY <1>4 DEF Distance
<1>6. Punctual
  <2>1. Soon(0) = {}
    BY <1>4 DEF Soon
  <2>2. Cardinality(Soon(0)) = 0 /\ N \in Nat
    BY <2>1, FS_EmptySet, Bounds
  <2>3. PunctualAt(0)
    BY <1>4, <2>2 DEF PunctualAt
  <2> QED
    BY <2>2, <2>3 DEF Punctual
<1> QED
  BY <1>1, <1>2, <1>3, <1>4, <1>5, <1>6 DEF IInv

\* tmr_schedule(): a timer that is scheduled now comes due after all that could
\* come due before it have been served.
LEMMA ScheduleIInv ==
    ASSUME IInv, NEW t \in Timers, TmrSchedule(t)
    PROVE  IInv' /\ Running' = Running \cup {t}
<1>1. PICK d \in Durations :
        /\ p_next' = ListAdd(ListRemove(p_next, t), t)
        /\ timeout' = [timeout EXCEPT ![t] = TmrSet(systick, d)]
        /\ \E p \in {0, d} : periodic' = [periodic EXCEPT ![t] = p]
        /\ left' = [left EXCEPT ![t] = d]
        /\ UNCHANGED <<systick, lag, expired>>
  BY DEF TmrSchedule
<1>2. /\ TypeOK /\ Sound(p_next) /\ Idle /\ Distance
      /\ timeout \in [Timers -> Time] /\ left \in [Timers -> Int]
      /\ periodic \in [Timers -> {0} \cup Durations] /\ systick \in Time
      /\ lag \in 0 .. MaxLoop /\ expired \in Timers \cup {NULL}
  BY DEF IInv, TypeOK
<1>3. /\ N \in Nat /\ N >= 1 /\ MaxLate \in Nat /\ MaxLate >= 1 /\ Half \in Nat
      /\ MaxLoop \in Nat
      /\ d \in Nat /\ MaxLate <= d /\ d + MaxLate < Half
  BY Bounds
<1>4. Sound(p_next') /\ Running' = Running \cup {t}
  <2>1. /\ Sound(ListRemove(p_next, t))
        /\ Members(ListRemove(p_next, t)) = Members(p_next) \ {t}
    BY <1>2, Removed
  <2>2. /\ Sound(ListAdd(ListRemove(p_next, t), t))
        /\ Members(ListAdd(ListRemove(p_next, t), t)) = (Members(p_next) \ {t}) \cup {t}
    BY <2>1, Added
  <2> QED
    BY <1>1, <2>2 DEF Running
<1>5. timeout'[t] = Wrap(systick + d) /\ Wrap(systick + d) \in Time /\ left'[t] = d
  <2>1. Wrap(systick + d) \in Time
    BY <1>2, <1>3, OnTheCircle
  <2> QED
    BY <1>1, <1>2, <2>1 DEF TmrSet
<1>6. \A u \in Timers : u # t => /\ timeout'[u] = timeout[u] /\ left'[u] = left[u]
                                 /\ periodic'[u] = periodic[u]
  BY <1>1, <1>2
<1>7. TypeOK'
  <2>1. p_next' \in [Timers \cup {HEAD} -> Timers \cup {NULL}]
    BY <1>4 DEF Sound, Links
  <2>2. timeout' \in [Timers -> Time]
    BY <1>1, <1>2, <1>5 DEF TmrSet
  <2>3. left' \in [Timers -> Int] /\ periodic' \in [Timers -> {0} \cup Durations]
    BY <1>1, <1>2, <1>3
  <2> QED
    BY <1>1, <1>2, <2>1, <2>2, <2>3 DEF TypeOK
<1>8. Idle'
  BY <1>2, <1>4, <1>6 DEF Idle
<1>9. Distance'
  <2> SUFFICES ASSUME NEW u \in Running'
               PROVE  /\ timeout'[u] = Wrap(systick' + left'[u])
                      /\ \E e \in Durations : left'[u] <= e
    BY DEF Distance
  <2>1. CASE u = t
    BY <1>1, <1>3, <1>5, <2>1
  <2>2. CASE u # t
    <3>1. u \in Running /\ u \in Timers
      BY <1>2, <1>4, <2>2, RunningAreTimers
    <3> QED
      BY <1>1, <1>2, <1>6, <2>2, <3>1 DEF Distance
  <2> QED
    BY <2>1, <2>2
<1>10. Punctual'
  <2>1. PICK p \in 0 .. N : PunctualAt(p)
    BY DEF IInv, Punctual
  <2>2. Elapsed(p)' = Elapsed(p) /\ Elapsed(p) \in Nat
        /\ (p >= 1 => Elapsed(p) >= 1)
    <3> DEFINE q == p * MaxLoop
    <3>1. q \in Nat /\ (p >= 1 => q >= 1)
      BY Passes
    <3>2. Elapsed(p) = q + lag /\ Elapsed(p)' = q + lag'
      BY DEF Elapsed
    <3> HIDE DEF q
    <3> QED
      BY <1>1, <1>2, <3>1, <3>2
  <2>3. Running \subseteq Timers /\ Running' \subseteq Timers
    BY <1>2, <1>4, RunningAreTimers
  <2>4. \A u \in Running' : left'[u] >= 1 - Elapsed(p)
    <3> SUFFICES ASSUME NEW u \in Running' PROVE left'[u] >= 1 - Elapsed(p)
      OBVIOUS
    <3>1. CASE u = t
      BY <1>3, <1>5, <2>2, <3>1
    <3>2. CASE u # t
      BY <1>4, <1>6, <2>1, <2>3, <3>2 DEF PunctualAt
    <3> QED
      BY <3>1, <3>2
  <2>5. Cardinality(Soon(p)') <= N - p
    <3>1. Soon(p)' = { u \in Running' : left'[u] <= MaxLate - Elapsed(p)' }
      BY DEF Soon, MaxLate
    <3>2. Soon(p)' \subseteq Timers /\ Soon(p) \subseteq Timers
      BY <2>3, <3>1 DEF Soon
    <3>3. CASE p = 0
      <4>1. Cardinality(Soon(p)') <= N /\ N - p = N
        BY <1>3, <3>2, <3>3, SetsOfTimers
      <4> QED
        BY <4>1
    <3>4. CASE p # 0
      <4>1. t \notin Soon(p)'
        <5>1. p >= 1
          BY <3>4
        <5> QED
          BY <1>3, <1>5, <2>2, <3>1, <5>1
      <4>2. Soon(p)' \subseteq Soon(p)
        <5> SUFFICES ASSUME NEW u \in Soon(p)' PROVE u \in Soon(p)
          OBVIOUS
        <5>1. u \in Running /\ u # t /\ left'[u] <= MaxLate - Elapsed(p)
          BY <1>4, <2>2, <3>1, <4>1
        <5>2. left'[u] = left[u]
          BY <1>6, <2>3, <5>1
        <5> QED
          BY <5>1, <5>2 DEF Soon
      <4>3. Cardinality(Soon(p)') <= Cardinality(Soon(p))
        BY <3>2, <4>2, SetsOfTimers
      <4>4. Cardinality(Soon(p)) <= N - p
        BY <2>1 DEF PunctualAt
      <4>5. Cardinality(Soon(p)') \in Nat /\ Cardinality(Soon(p)) \in Nat
        BY <3>2, SetsOfTimers
      <4> QED
        BY <1>3, <4>3, <4>4, <4>5
    <3> QED
      BY <3>3, <3>4
  <2>6. PunctualAt(p)'
    <3>1. \A u \in Running' : left'[u] >= 1 - Elapsed(p)'
      BY <2>2, <2>4
    <3>2. p = 0 \/ p < N
      BY <2>1 DEF PunctualAt
    <3> QED
      BY <2>5, <3>1, <3>2 DEF PunctualAt, N
  <2> QED
    BY <2>6 DEF Punctual, N
<1> QED
  BY <1>4, <1>7, <1>8, <1>9, <1>10 DEF IInv

\* A timer that leaves the list leaves the others as they are: what holds of the
\* remaining ones still holds.
LEMMA UnlinkedKeeps ==
    ASSUME IInv, NEW t \in Timers, Unlinked(t), UNCHANGED systick, lag' \in 0 .. MaxLoop,
           expired' \in Timers \cup {NULL}
    PROVE  /\ TypeOK' /\ Sound(p_next') /\ Idle' /\ Distance'
           /\ Running' = Running \ {t} /\ Running \subseteq Timers
           /\ \A u \in Running' : left'[u] = left[u]
<1>1. /\ p_next' = ListRemove(p_next, t)
      /\ timeout' = [timeout EXCEPT ![t] = 0]
      /\ periodic' = [periodic EXCEPT ![t] = 0]
      /\ left' = [left EXCEPT ![t] = 0]
  BY DEF Unlinked
<1>2. /\ TypeOK /\ Sound(p_next) /\ Idle /\ Distance
      /\ timeout \in [Timers -> Time] /\ left \in [Timers -> Int]
      /\ periodic \in [Timers -> {0} \cup Durations] /\ systick \in Time
  BY DEF IInv, TypeOK
<1>3. Sound(p_next') /\ Running' = Running \ {t} /\ Running \subseteq Timers
  BY <1>1, <1>2, Removed, RunningAreTimers DEF Running
<1>4. TypeOK'
  <2>1. p_next' \in [Timers \cup {HEAD} -> Timers \cup {NULL}]
    BY <1>3 DEF Sound, Links
  <2>2. 0 \in Time
    BY HalfIsHalf DEF Time
  <2>3. /\ timeout' \in [Timers -> Time] /\ left' \in [Timers -> Int]
        /\ periodic' \in [Timers -> {0} \cup Durations]
    BY <1>1, <1>2, <2>2
  <2> QED
    BY <1>2, <2>1, <2>3 DEF TypeOK
<1>5. \A u \in Timers : u # t => /\ timeout'[u] = timeout[u] /\ left'[u] = left[u]
                                 /\ periodic'[u] = periodic[u]
  BY <1>1, <1>2
<1>6. left'[t] = 0 /\ periodic'[t] = 0
  BY <1>1, <1>2
<1>7. Idle'
  BY <1>2, <1>3, <1>5, <1>6 DEF Idle
<1>8. Distance'
  BY <1>2, <1>3, <1>5 DEF Distance
<1> QED
  BY <1>3, <1>4, <1>5, <1>7, <1>8

\* tmr_unschedule()
LEMMA UnscheduleIInv ==
    ASSUME IInv, NEW t \in Timers, TmrUnschedule(t)
    PROVE  IInv' /\ Running' = Running \ {t}
<1>1. Unlinked(t) /\ UNCHANGED <<systick, lag, expired>> /\ lag' \in 0 .. MaxLoop
      /\ expired' \in Timers \cup {NULL}
  BY DEF TmrUnschedule, IInv, TypeOK
<1>2. /\ TypeOK' /\ Sound(p_next') /\ Idle' /\ Distance'
      /\ Running' = Running \ {t} /\ Running \subseteq Timers
      /\ \A u \in Running' : left'[u] = left[u]
  BY <1>1, UnlinkedKeeps
<1>3. PICK p \in 0 .. N : PunctualAt(p)
  BY DEF IInv, Punctual
<1>4. Elapsed(p)' = Elapsed(p)
  BY <1>1 DEF Elapsed
<1>5. Soon(p)' \subseteq Soon(p) /\ Soon(p) \subseteq Timers
  BY <1>2, <1>4 DEF Soon, MaxLate
<1>6. Cardinality(Soon(p)') <= N - p
  <2>1. Cardinality(Soon(p)') <= Cardinality(Soon(p))
    BY <1>5, SetsOfTimers
  <2>2. Cardinality(Soon(p)) \in Nat /\ Cardinality(Soon(p)') \in Nat
    BY <1>5, SetsOfTimers
  <2>3. Cardinality(Soon(p)) <= N - p /\ N \in Nat
    BY <1>3, Bounds DEF PunctualAt
  <2> QED
    BY <2>1, <2>2, <2>3
<1>7. PunctualAt(p)'
  BY <1>2, <1>3, <1>4, <1>6 DEF PunctualAt, N
<1> QED
  BY <1>2, <1>7 DEF IInv, Punctual, N

\* The clock goes on for all timers alike.
LEMMA TickIInv ==
    ASSUME IInv, Tick
    PROVE  /\ IInv' /\ Running' = Running
           /\ left' = [t \in Timers |-> IF t \in Running THEN left[t] - 1 ELSE 0]
<1>1. /\ lag < MaxLoop /\ lag' = lag + 1 /\ systick' = Wrap(systick + 1)
      /\ left' = [t \in Timers |-> IF t \in Running /\ left[t] > -Cap
                                   THEN left[t] - 1 ELSE left[t]]
      /\ UNCHANGED <<p_next, timeout, periodic, expired>>
  BY DEF Tick, Running
<1>2. /\ TypeOK /\ Sound(p_next) /\ Idle /\ Distance
      /\ timeout \in [Timers -> Time] /\ left \in [Timers -> Int]
      /\ periodic \in [Timers -> {0} \cup Durations] /\ systick \in Time
      /\ lag \in 0 .. MaxLoop /\ expired \in Timers \cup {NULL}
  BY DEF IInv, TypeOK
<1>3. Running' = Running /\ Running \subseteq Timers
  BY <1>1, <1>2, RunningAreTimers DEF Running
<1>4. \A t \in Running : left[t] > -Cap /\ left'[t] = left[t] - 1
  <2> SUFFICES ASSUME NEW t \in Running PROVE left[t] > -Cap /\ left'[t] = left[t] - 1
    OBVIOUS
  <2>1. t \in Timers /\ left[t] \in Int /\ left[t] >= 1 - MaxLate
    BY Near
  <2>2. left[t] > -Cap
    BY <2>1, Bounds, ListAssumption
  <2> QED
    BY <1>1, <2>1, <2>2
<1>5. \A t \in Timers \ Running : left[t] = 0 /\ left'[t] = 0
  BY <1>1, <1>2 DEF Idle
<1>6. left' = [t \in Timers |-> IF t \in Running THEN left[t] - 1 ELSE 0]
  BY <1>1, <1>3, <1>4, <1>5
<1>7. TypeOK'
  <2>1. systick' \in Time
    <3>1. 1 \in Int /\ TICKS = 2 * Half /\ Half \in Nat /\ Half > 0
      BY HalfIsHalf
    <3> QED
      BY <1>1, <1>2, <3>1 DEF Wrap, Time
  <2>2. lag' \in 0 .. MaxLoop
    BY <1>1, <1>2, Bounds
  <2>3. left' \in [Timers -> Int]
    BY <1>2, <1>6
  <2> QED
    BY <1>1, <1>2, <2>1, <2>2, <2>3 DEF TypeOK
<1>8. Idle'
  BY <1>1, <1>2, <1>3, <1>5 DEF Idle
<1>9. Distance'
  <2> SUFFICES ASSUME NEW t \in Running
               PROVE  /\ timeout[t] = Wrap(Wrap(systick + 1) + (left[t] - 1))
                      /\ \E d \in Durations : left[t] - 1 <= d
    BY <1>1, <1>3, <1>4 DEF Distance
  <2>1. left[t] \in Int /\ -Half < left[t] - 1 /\ left[t] < Half /\ -Half < left[t]
    <3>1. left[t] \in Int /\ -Half < left[t] - 1 /\ left[t] < Half
      BY Near
    <3> QED
      BY <3>1, Bounds
  <2>2. timeout[t] = Wrap(systick + left[t])
    BY <1>2 DEF Distance
  <2>3. PICK d \in Durations : left[t] <= d
    BY <1>2 DEF Distance
  <2>4. left[t] - 1 <= d
    BY <2>1, <2>3, Bounds
  <2> QED
    BY <1>2, <2>1, <2>2, <2>4, OnTheCircle
<1>10. Punctual'
  <2>1. PICK p \in 0 .. N : PunctualAt(p)
    BY DEF IInv, Punctual
  <2>2. Elapsed(p)' = Elapsed(p) + 1 /\ Elapsed(p) \in Nat
    <3> DEFINE q == p * MaxLoop
    <3>1. q \in Nat
      BY Passes
    <3>2. Elapsed(p) = q + lag /\ Elapsed(p)' = q + lag'
      BY DEF Elapsed
    <3> HIDE DEF q
    <3> QED
      BY <1>1, <1>2, <3>1, <3>2
  <2>3. \A t \in Running : left[t] \in Int
    BY <1>2, <1>3
  <2>4. Soon(p)' = Soon(p)
    <3>1. Soon(p)' = { t \in Running : left[t] - 1 <= MaxLate - (Elapsed(p) + 1) }
      BY <1>3, <1>4, <2>2 DEF Soon, MaxLate
    <3>2. \A t \in Running : left[t] - 1 <= MaxLate - (Elapsed(p) + 1)
                               <=> left[t] <= MaxLate - Elapsed(p)
      BY <2>2, <2>3, Bounds
    <3> QED
      BY <3>1, <3>2 DEF Soon
  <2>5. \A t \in Running' : left'[t] >= 1 - Elapsed(p)'
    BY <1>3, <1>4, <2>1, <2>2, <2>3 DEF PunctualAt
  <2>6. PunctualAt(p)'
    BY <2>1, <2>4, <2>5 DEF PunctualAt, N
  <2> QED
    BY <2>6 DEF Punctual, N
<1> QED
  BY <1>1, <1>2, <1>3, <1>6, <1>7, <1>8, <1>9, <1>10 DEF IInv

\* A pass begins to count anew when no timer is left that has expired.
LEMMA CountFromNow ==
    ASSUME lag = 0, Running \subseteq Timers, \A t \in Running : left[t] >= 1
    PROVE  Punctual
<1>1. Elapsed(0) = 0 /\ N \in Nat
  BY Bounds DEF Elapsed
<1>2. Soon(0) \subseteq Timers
  BY DEF Soon
<1>3. Cardinality(Soon(0)) <= N - 0
  BY <1>1, <1>2, SetsOfTimers
<1>4. PunctualAt(0)
  BY <1>1, <1>3 DEF PunctualAt
<1> QED
  BY <1>1, <1>4 DEF Punctual

LEMMA CountFromNowNext ==
    (lag = 0 /\ Running \subseteq Timers /\ \A t \in Running : left[t] >= 1)'
        => Punctual'
<1>1. lag = 0 /\ Running \subseteq Timers /\ (\A t \in Running : left[t] >= 1) => Punctual
  BY CountFromNow
<1> QED
  BY <1>1, PTL

\* One timer has been served: it is not running, or will come due much later.
LEMMA ServedCounts ==
    ASSUME IInv, NEW t \in Running, left[t] <= 0, lag' = 0,
           Running' \subseteq Running,
           \A u \in Running' : left'[u] \in Int,
           \A u \in Running' : u # t => left'[u] = left[u],
           t \in Running' => left'[t] >= left[t] + MaxLate
    PROVE  Punctual'
<1>1. PICK p \in 0 .. N : PunctualAt(p)
  BY DEF IInv, Punctual
<1>2. /\ Running \subseteq Timers /\ lag \in 0 .. MaxLoop
      /\ \A u \in Running : left[u] \in Int
  BY RunningAreTimers DEF IInv, TypeOK
<1>3. N \in Nat /\ N >= 1 /\ MaxLate \in Nat /\ MaxLoop \in Nat
  BY <1>2, Bounds
<1>4. p < N /\ p + 1 \in 0 .. N /\ p \in Nat
  BY <1>1, <1>3 DEF PunctualAt
<1>5. /\ Elapsed(p) \in Nat /\ Elapsed(p) <= MaxLate
      /\ Elapsed(p + 1)' \in Nat /\ Elapsed(p) <= Elapsed(p + 1)'
      /\ (p + 1 = N => Elapsed(p + 1)' = MaxLate)
  <2> DEFINE q == p * MaxLoop
             r == (p + 1) * MaxLoop
  <2>1. q \in Nat /\ r = q + MaxLoop /\ q + MaxLoop <= MaxLate
    BY <1>4, Passes
  <2>2. Elapsed(p) = q + lag /\ Elapsed(p + 1)' = r + lag'
    BY DEF Elapsed
  <2>3. p + 1 = N => r = MaxLate
    BY <1>4, Passes
  <2> HIDE DEF q, r
  <2> QED
    BY <1>2, <1>3, <2>1, <2>2, <2>3
<1>6. \A u \in Running : left[u] >= 1 - Elapsed(p)
  BY <1>1 DEF PunctualAt
<1>7. t \in Soon(p)
  BY <1>2, <1>3, <1>5 DEF Soon
<1>8. Soon(p + 1)' = { u \in Running' : left'[u] <= MaxLate - Elapsed(p + 1)' }
  BY DEF Soon, MaxLate
<1>9. Soon(p + 1)' \subseteq Soon(p) \ {t} /\ Soon(p) \subseteq Timers
  <2>1. ASSUME NEW u \in Soon(p + 1)'
        PROVE  u \in Soon(p) \ {t}
    <3>1. u \in Running' /\ u \in Running /\ left'[u] <= MaxLate - Elapsed(p + 1)'
      BY <1>8
    <3>2. left[u] \in Int /\ left'[u] \in Int /\ left[t] \in Int
      BY <1>2, <3>1
    <3>3. u # t
      <4> SUFFICES ASSUME u = t PROVE FALSE
        OBVIOUS
      <4>1. left'[t] >= left[t] + MaxLate /\ left[t] >= 1 - Elapsed(p)
        BY <1>6, <3>1
      <4> QED
        BY <1>3, <1>5, <3>1, <3>2, <4>1
    <3>4. left[u] <= MaxLate - Elapsed(p)
      <4>1. left[u] = left'[u]
        BY <3>1, <3>3
      <4> QED
        BY <1>3, <1>5, <3>1, <3>2, <4>1
    <3> QED
      BY <3>1, <3>3, <3>4 DEF Soon
  <2> QED
    BY <1>2, <2>1 DEF Soon
<1>10. Cardinality(Soon(p + 1)') <= N - (p + 1) /\ Soon(p + 1)' \subseteq Timers
  <2>1. Cardinality(Soon(p + 1)') <= Cardinality(Soon(p)) - 1
    BY <1>7, <1>9, SetsOfTimers
  <2>2. Soon(p + 1)' \subseteq Timers
    BY <1>9
  <2>3. Cardinality(Soon(p)) \in Nat /\ Cardinality(Soon(p + 1)') \in Nat
    BY <1>9, <2>2, SetsOfTimers
  <2>4. Cardinality(Soon(p)) <= N - p
    BY <1>1 DEF PunctualAt
  <2> QED
    BY <1>3, <1>4, <2>1, <2>2, <2>3, <2>4
<1>11. \A u \in Running' : left'[u] >= 1 - Elapsed(p + 1)'
  <2> SUFFICES ASSUME NEW u \in Running' PROVE left'[u] >= 1 - Elapsed(p + 1)'
    OBVIOUS
  <2>1. left[u] \in Int /\ left'[u] \in Int /\ left[u] >= 1 - Elapsed(p)
    BY <1>2, <1>6
  <2>2. left'[u] >= left[u]
    <3>1. CASE u = t
      BY <1>3, <2>1, <3>1
    <3>2. CASE u # t
      BY <2>1, <3>2
    <3> QED
      BY <3>1, <3>2
  <2> QED
    BY <1>5, <2>1, <2>2
<1>12. CASE p + 1 < N
  <2>1. PunctualAt(p + 1)'
    BY <1>10, <1>11, <1>12 DEF PunctualAt, N
  <2> QED
    BY <1>4, <2>1 DEF Punctual, N
<1>13. CASE p + 1 = N
  <2>1. Soon(p + 1)' = {}
    <3>1. Cardinality(Soon(p + 1)') <= 0
      BY <1>3, <1>4, <1>10, <1>13
    <3> QED
      BY <1>10, <3>1, SetsOfTimers
  <2>2. \A u \in Running' : left'[u] >= 1
    <3> SUFFICES ASSUME NEW u \in Running' PROVE left'[u] >= 1
      OBVIOUS
    <3>1. ~(left'[u] <= MaxLate - MaxLate) /\ left'[u] \in Int
      BY <1>5, <1>8, <1>13, <2>1
    <3> QED
      BY <1>3, <3>1
  <2>3. Running' \subseteq Timers
    BY <1>2
  <2> QED
    BY <2>2, <2>3, CountFromNowNext
<1> QED
  BY <1>3, <1>4, <1>12, <1>13

\* A timer has expired when it has no ticks left (tmr.c:84-86).
LEMMA ExpiredIsDue ==
    ASSUME IInv, NEW t \in Running
    PROVE  TmrExpired(systick, timeout[t]) <=> left[t] <= 0
<1>1. left[t] \in Int /\ -Half < left[t] /\ left[t] < Half
  <2>1. left[t] \in Int /\ -Half < left[t] - 1 /\ left[t] < Half
    BY Near
  <2> QED
    BY <2>1, Bounds
<1>2. timeout[t] = Wrap(systick + left[t]) /\ systick \in Time
  BY DEF IInv, Distance, TypeOK
<1> QED
  BY <1>1, <1>2, OnTheCircle

\* A pass that finds no timer expired.
LEMMA NobodyIInv ==
    ASSUME IInv, TmrProcess, expired' = NULL
    PROVE  /\ IInv' /\ Running' = Running
           /\ UNCHANGED <<left, periodic>>
           /\ \A t \in Running : left[t] > 0
<1>1. /\ FirstExpired = NULL /\ lag' = 0
      /\ UNCHANGED <<p_next, timeout, periodic, left, systick>>
  BY DEF TmrProcess
<1>2. /\ TypeOK /\ Sound(p_next) /\ Idle /\ Distance
      /\ \A t \in Timers : left[t] \in Int
  BY DEF IInv, TypeOK
<1>3. Running' = Running /\ Running \subseteq Timers
  BY <1>1, <1>2, RunningAreTimers DEF Running
<1>4. ASSUME NEW t \in Running
      PROVE  left[t] >= 1 /\ left[t] > 0
  <2>1. ~(left[t] <= 0)
    BY <1>1, <1>2, FirstExpiredIsExpired, ExpiredIsDue DEF Running
  <2> QED
    BY <1>2, <1>3, <2>1
<1>5. TypeOK'
  <2>1. 0 \in 0 .. MaxLoop
    BY Bounds
  <2> QED
    BY <1>1, <1>2, <2>1 DEF TypeOK, TmrProcess
<1>6. Idle' /\ Distance'
  BY <1>1, <1>2, <1>3 DEF Idle, Distance
<1>7. Punctual'
  BY <1>1, <1>3, <1>4, CountFromNowNext
<1> QED
  BY <1>1, <1>2, <1>3, <1>4, <1>5, <1>6, <1>7 DEF IInv

\* A pass that returns a timer: its time has come.
LEMMA Served ==
    ASSUME IInv, TmrProcess, expired' # NULL
    PROVE  /\ expired' \in Running /\ expired' \in Timers /\ left[expired'] <= 0
           /\ IF periodic[expired'] # 0 THEN Refreshed(expired') ELSE Unlinked(expired')
           /\ lag' = 0 /\ UNCHANGED systick
<1>1. /\ expired' = FirstExpired /\ lag' = 0 /\ UNCHANGED systick
      /\ IF periodic[expired'] # 0 THEN Refreshed(expired') ELSE Unlinked(expired')
  BY DEF TmrProcess
<1>2. Sound(p_next)
  BY DEF IInv
<1>3. expired' \in Running /\ TmrExpired(systick, timeout[expired'])
  BY <1>1, <1>2, FirstExpiredIsExpired DEF Running
<1>4. expired' \in Timers
  BY <1>2, <1>3, RunningAreTimers
<1> QED
  BY <1>1, <1>3, <1>4, ExpiredIsDue

\* It is periodic: it runs on, and its next period begins where this one ended.
LEMMA RefreshedIInv ==
    ASSUME IInv, TmrProcess, NEW t, t = expired', t # NULL, periodic[t] # 0
    PROVE  /\ IInv' /\ Running' = Running
           /\ left' = [left EXCEPT ![t] = @ + periodic[t]]
           /\ UNCHANGED periodic
<1>1. t \in Running /\ t \in Timers /\ left[t] <= 0 /\ Refreshed(t) /\ lag' = 0
      /\ UNCHANGED systick
  BY Served
<1>2. /\ TypeOK /\ Sound(p_next) /\ Idle /\ Distance
      /\ timeout \in [Timers -> Time] /\ left \in [Timers -> Int]
      /\ periodic \in [Timers -> {0} \cup Durations] /\ systick \in Time
  BY DEF IInv, TypeOK
<1>3. /\ timeout' = [timeout EXCEPT ![t] = Wrap(timeout[t] + periodic[t])]
      /\ left' = [left EXCEPT ![t] = left[t] + periodic[t]]
      /\ UNCHANGED <<p_next, periodic>>
  BY <1>1 DEF Refreshed
<1>4. Running' = Running /\ Running \subseteq Timers
  BY <1>2, <1>3, RunningAreTimers DEF Running
<1> DEFINE d == periodic[t]
<1>5. d \in Durations
  BY <1>1, <1>2
<1> HIDE DEF d
<1>6. /\ d \in Nat /\ MaxLate <= d /\ d + MaxLate < Half /\ Half \in Nat /\ MaxLate \in Nat
      /\ left[t] \in Int /\ -Half < left[t] - 1 /\ left[t] < Half
      /\ left[t] >= 1 - MaxLate
  BY <1>1, <1>5, Bounds, Near
<1>7. /\ left'[t] = left[t] + d
      /\ \A u \in Timers : u # t => left'[u] = left[u] /\ timeout'[u] = timeout[u]
      /\ left' \in [Timers -> Int]
  BY <1>1, <1>2, <1>3, <1>6 DEF d
<1>8. timeout'[t] = Wrap(systick + (left[t] + d)) /\ timeout'[t] \in Time
  <2>1. timeout'[t] = Wrap(timeout[t] + d)
    BY <1>1, <1>2, <1>3 DEF d
  <2>2. timeout[t] = Wrap(systick + left[t])
    BY <1>1, <1>2 DEF Distance
  <2>3. -Half < left[t] /\ d < Half
    BY <1>6
  <2>4. Wrap(Wrap(systick + left[t]) + d) = Wrap(systick + (left[t] + d))
    BY <1>1, <1>2, <1>6, <2>3, NextPeriod
  <2>5. left[t] + d \in Int /\ -Half < left[t] + d /\ left[t] + d < Half
    BY <1>1, <1>6
  <2>6. Wrap(systick + (left[t] + d)) \in Time
    BY <1>2, <2>5, OnTheCircle
  <2> QED
    BY <2>1, <2>2, <2>4, <2>6
<1>9. TypeOK'
  <2>1. timeout' \in [Timers -> Time]
    <3>1. timeout' = [timeout EXCEPT ![t] = timeout'[t]]
      BY <1>1, <1>2, <1>3
    <3> QED
      BY <1>2, <1>8, <3>1
  <2>2. lag' \in 0 .. MaxLoop
    BY <1>1, Bounds
  <2>3. expired' \in Timers \cup {NULL}
    BY <1>1
  <2> QED
    BY <1>1, <1>2, <1>3, <1>7, <2>1, <2>2, <2>3 DEF TypeOK
<1>10. Idle'
  BY <1>1, <1>2, <1>3, <1>4, <1>7 DEF Idle
<1>11. Distance'
  <2> SUFFICES ASSUME NEW u \in Running
               PROVE  /\ timeout'[u] = Wrap(systick + left'[u])
                      /\ \E e \in Durations : left'[u] <= e
    BY <1>1, <1>4 DEF Distance
  <2>1. CASE u = t
    <3>1. left'[t] <= d
      BY <1>1, <1>6, <1>7
    <3> QED
      BY <1>5, <1>7, <1>8, <2>1, <3>1
  <2>2. CASE u # t
    BY <1>2, <1>4, <1>7, <2>2 DEF Distance
  <2> QED
    BY <2>1, <2>2
<1>12. Punctual'
  <2>1. \A u \in Running' : left'[u] \in Int /\ (u # t => left'[u] = left[u])
    BY <1>4, <1>7
  <2>2. left'[t] >= left[t] + MaxLate
    BY <1>6, <1>7
  <2> QED
    BY <1>1, <1>4, <2>1, <2>2, ServedCounts
<1> QED
  BY <1>2, <1>3, <1>4, <1>9, <1>10, <1>11, <1>12 DEF IInv

\* It is to run once: it leaves the list.
LEMMA OverIInv ==
    ASSUME IInv, TmrProcess, NEW t, t = expired', t # NULL, periodic[t] = 0
    PROVE  /\ IInv' /\ Running' = Running \ {t}
           /\ left' = [left EXCEPT ![t] = 0]
           /\ UNCHANGED periodic
<1>1. t \in Running /\ t \in Timers /\ left[t] <= 0 /\ Unlinked(t) /\ lag' = 0
      /\ UNCHANGED systick
  BY Served
<1>2. lag' \in 0 .. MaxLoop /\ expired' \in Timers \cup {NULL}
  BY <1>1, Bounds
<1>3. /\ TypeOK' /\ Sound(p_next') /\ Idle' /\ Distance'
      /\ Running' = Running \ {t} /\ Running \subseteq Timers
      /\ \A u \in Running' : left'[u] = left[u]
  BY <1>1, <1>2, UnlinkedKeeps
<1>4. UNCHANGED periodic
  <2>1. periodic' = [periodic EXCEPT ![t] = 0]
    BY <1>1 DEF Unlinked
  <2>2. periodic \in [Timers -> {0} \cup Durations]
    BY DEF IInv, TypeOK
  <2> QED
    BY <1>1, <2>1, <2>2
<1>5. Punctual'
  <2>1. \A u \in Running' : left'[u] \in Int
    BY <1>3 DEF TypeOK
  <2>2. t \notin Running' /\ Running' \subseteq Running
    BY <1>3
  <2> QED
    BY <1>1, <1>3, <2>1, <2>2, ServedCounts
<1> QED
  BY <1>1, <1>3, <1>4, <1>5 DEF IInv, Unlinked

-----------------------------------------------------------------------------
(* The theorems.                                                           *)

LEMMA NextIInv == IInv /\ [Next]_vars => IInv'
<1> SUFFICES ASSUME IInv, [Next]_vars PROVE IInv'
  OBVIOUS
<1>1. CASE TmrProcess
  BY <1>1, NobodyIInv, RefreshedIInv, OverIInv
<1>2. CASE Tick
  BY <1>2, TickIInv
<1>3. ASSUME NEW t \in Timers, TmrSchedule(t) PROVE IInv'
  BY <1>3, ScheduleIInv
<1>4. ASSUME NEW t \in Timers, TmrUnschedule(t) PROVE IInv'
  BY <1>4, UnscheduleIInv
<1>5. CASE UNCHANGED vars
  <2>1. UNCHANGED <<p_next, timeout, periodic, systick, lag, expired, left>>
    BY <1>5 DEF vars
  <2> QED
    BY <2>1 DEF IInv, TypeOK, Sound, Idle, Distance, Punctual, PunctualAt, Soon,
                Elapsed, Running, N
<1> QED
  BY <1>1, <1>2, <1>3, <1>4, <1>5 DEF Next

\* The inductive invariant holds of the timer list.
THEOREM Invariance == Spec => []IInv
  BY InitIInv, NextIInv, PTL DEF Spec

\* Links lead to timers, and times are on the clock's circle.
THEOREM TypeCorrect == Spec => []TypeOK
<1>1. IInv => TypeOK
  BY DEF IInv
<1> QED
  BY <1>1, Invariance, PTL

\* Whatever handlers schedule and stop, no timer is lost from the list, and none
\* waits for longer than a pass for each timer (tmr.c:115-143, list.c:30-53).
THEOREM NeverLate == Spec => []LatenessBounded
<1>1. IInv => LatenessBounded
  <2> SUFFICES ASSUME IInv PROVE LatenessBounded
    OBVIOUS
  <2>1. ListSound
    BY SoundIsListSound DEF IInv
  <2>2. ASSUME NEW t \in Running PROVE left[t] >= -MaxLate
    <3>1. left[t] \in Int /\ left[t] >= 1 - MaxLate /\ MaxLate \in Nat
      BY Near, Bounds
    <3> QED
      BY <3>1
  <2> QED
    BY <2>1, <2>2 DEF LatenessBounded, Running
<1> QED
  BY <1>1, Invariance, PTL

\* Each step of the list is a step of the set of timers, or changes nothing of it.
LEMMA StepIsSetStep == IInv /\ [Next]_vars => [Abstract!SetNext]_(Abstract!setVars)
<1> SUFFICES ASSUME IInv, [Next]_vars
             PROVE  Abstract!SetNext \/ UNCHANGED Abstract!setVars
  OBVIOUS
<1> USE DEF Running
<1>1. CASE TmrProcess
  <2>1. CASE expired' = NULL
    <3>1. Abstract!ReturnNobody
      BY <1>1, <2>1, NobodyIInv DEF Abstract!ReturnNobody
    <3> QED
      BY <3>1 DEF Abstract!SetNext
  <2>2. CASE expired' # NULL
    <3> DEFINE t == expired'
    <3>1. t \in Timers /\ t \in Running /\ left[t] <= 0
      BY <1>1, <2>2, Served
    <3>2. CASE periodic[t] # 0
      <4>1. Abstract!Return(t)
        BY <1>1, <2>2, <3>1, <3>2, RefreshedIInv DEF Abstract!Return
      <4> QED
        BY <3>1, <4>1 DEF Abstract!SetNext
    <3>3. CASE periodic[t] = 0
      <4>1. Abstract!Return(t)
        BY <1>1, <2>2, <3>1, <3>3, OverIInv DEF Abstract!Return
      <4> QED
        BY <3>1, <4>1 DEF Abstract!SetNext
    <3> QED
      BY <3>2, <3>3
  <2> QED
    BY <2>1, <2>2
<1>2. CASE Tick
  <2>1. Abstract!Pass
    BY <1>2, TickIInv DEF Tick, Abstract!Pass
  <2> QED
    BY <2>1 DEF Abstract!SetNext
<1>3. ASSUME NEW t \in Timers, TmrSchedule(t)
      PROVE  Abstract!SetNext
  <2>1. Abstract!Schedule(t)
    <3>1. Running' = Running \cup {t}
      BY <1>3, ScheduleIInv
    <3> QED
      BY <1>3, <3>1 DEF TmrSchedule, Abstract!Schedule
  <2> QED
    BY <2>1 DEF Abstract!SetNext
<1>4. ASSUME NEW t \in Timers, TmrUnschedule(t)
      PROVE  Abstract!SetNext
  <2>1. Abstract!Stop(t)
    <3>1. Running' = Running \ {t}
      BY <1>4, UnscheduleIInv
    <3> QED
      BY <1>4, <3>1 DEF TmrUnschedule, Unlinked, Abstract!Stop
  <2> QED
    BY <2>1 DEF Abstract!SetNext
<1>5. CASE UNCHANGED vars
  BY <1>5 DEF vars, Abstract!setVars
<1> QED
  BY <1>1, <1>2, <1>3, <1>4, <1>5 DEF Next

\* The linked list with its wrapping 16-bit times is the set of timers of TmrSet:
\* a timer is returned when, and only when, its time has come in unbounded time.
THEOREM Refinement == Spec => ImplementsTmrSet
<1>1. Init => Abstract!SetInit
  BY InitIInv DEF Init, Running, Abstract!SetInit
<1>2. IInv /\ [Next]_vars => [Abstract!SetNext]_(Abstract!setVars)
  BY StepIsSetStep
<1> QED
  BY <1>1, <1>2, Invariance, PTL DEF Spec, ImplementsTmrSet, Abstract!SetSpec
=============================================================================
