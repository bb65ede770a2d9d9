--------------------------- MODULE CadenceProofs ---------------------------
(***************************************************************************)
(* Theorems of Cadence, for every set of targets, every interval, phase    *)
(* and bound.                                                              *)
(***************************************************************************)
EXTENDS Cadence, WellFoundedInduction, TLAPS

\* What the armed timer still has to run.
Left == IF pc = "armed" THEN timer ELSE 0

OnItsSlot == \A t \in Targets : next[t] % Interval[t] = Phase[t]

Tally ==
    /\ pc = "down" => restarts > 0
    /\ stall > 0 => late
    /\ timer <= Longest
    /\ backs = 0 => waiting = {}

\* Without a step forward, nothing has been due for longer than the scheduler is late.
Due ==
    forwards = 0 /\ pc # "down" =>
        \A t \in Targets : wall + Left <= next[t] + stall

\* Until something happens, a target fires an interval after it last did.
Undisturbed ==
    Events = 0 \/ (Events = 1 /\ pc = "down") =>
        \A t \in Targets : age[t] + next[t] <= wall + Interval[t]

\* The slots of a process that is down pass while it is.
Missed ==
    Events = 1 /\ pc = "down" /\ ~late =>
        \A t \in Targets : wall <= next[t] + downtime

Restarted ==
    Events = 1 /\ restarts = 1 /\ pc # "down" /\ ~late =>
        \A t \in Targets :
            downtime < Interval[t] => age[t] + next[t] <= wall + 2 * Interval[t]

\* After a step back the next fire times are too far away by the step ...
TooFar ==
    Events = 1 /\ backs = 1 /\ ~late =>
        \A t \in waiting : since + next[t] <= wall + Interval[t] + stepped

\* ... and after a long one every one of them, until the timer runs out and the lap that
\* follows puts all of them back.
Behind ==
    /\ waiting = Targets
    /\ since + Left <= Longest
    /\ \A t \in Targets : wall + stepped + Left <= next[t]

Caught == \A t \in waiting : since + next[t] <= wall + Interval[t] + Longest

LongStep ==
    Events = 1 /\ backs = 1 /\ ~late /\ stepped > Longest => Behind \/ Caught

SlotInv == TypeOK /\ OnItsSlot

GapInv == Tally /\ Due /\ Undisturbed /\ Missed /\ Restarted /\ TooFar /\ LongStep

-----------------------------------------------------------------------------
(***************************************************************************)
(* Division.                                                               *)
(***************************************************************************)

\* Quotient and remainder, for the solver.
LEMMA Divides ==
    ASSUME NEW a \in Nat, NEW m \in Nat \ {0}
    PROVE  a = m * (a \div m) + (a % m) /\ a % m \in 0..m-1 /\ a \div m \in Nat
BY SMT

\* Different multiples of an interval are an interval apart.
LEMMA MultiplesApart ==
    ASSUME NEW m \in Nat \ {0}, NEW p \in Int, NEW q \in Int, p < q
    PROVE  m * p + m <= m * q
BY SMT

\* The quotient and the remainder are the only ones.
LEMMA Remainder ==
    ASSUME NEW m \in Nat \ {0}, NEW q \in Nat, NEW r \in 0..m-1, NEW a, a = m * q + r
    PROVE  a \in Nat /\ a % m = r /\ a \div m = q
<1>1. a \in Nat
  OBVIOUS
<1> DEFINE p == a \div m
           s == a % m
<1>2. a = m * p + s /\ s \in 0..m-1 /\ p \in Nat
  BY <1>1, Divides
<1> HIDE DEF p, s
<1>3. m * p \in Nat /\ m * q \in Nat /\ m * p + s = m * q + r
  BY <1>2
<1>4. p = q /\ s = r
  <2>1. ~(p < q)
    <3> SUFFICES ASSUME p < q PROVE FALSE
      OBVIOUS
    <3>1. m * p + m <= m * q
      BY <1>2, MultiplesApart
    <3> QED
      BY <1>2, <1>3, <3>1
  <2>2. ~(q < p)
    <3> SUFFICES ASSUME q < p PROVE FALSE
      OBVIOUS
    <3>1. m * q + m <= m * p
      BY <1>2, MultiplesApart
    <3> QED
      BY <1>2, <1>3, <3>1
  <2>3. p = q
    BY <1>2, <2>1, <2>2
  <2> QED
    BY <1>2, <1>3, <2>3
<1> QED
  BY <1>1, <1>4 DEF p, s

\* An interval after a slot there is a slot.
LEMMA IntervalLater ==
    ASSUME NEW m \in Nat, NEW iv \in Nat \ {0}, NEW ph \in 0..iv-1, m % iv = ph
    PROVE  (m + iv) % iv = ph
<1> DEFINE p == m \div iv
           k == p + 1
<1>1. m = iv * p + ph /\ p \in Nat
  BY Divides
<1> HIDE DEF p
<1>2. iv * k = iv * p + iv /\ k \in Nat /\ iv * p \in Nat
  BY <1>1
<1> HIDE DEF k
<1>3. m + iv = iv * k + ph
  BY <1>1, <1>2
<1>4. \A j \in Nat \ {0}, l \in Nat, r \in Nat : r \in 0..j-1 => (j * l + r) % j = r
  BY Remainder
<1>5. (iv * k + ph) % iv = ph
  <2>1. ph \in Nat /\ k \in Nat
    BY <1>2
  <2> QED
    BY <1>4, <2>1, Zenon
<1> QED
  BY <1>3, <1>5

-----------------------------------------------------------------------------
(***************************************************************************)
(* The computations of a next fire time.                                   *)
(***************************************************************************)
\* The first slot strictly after now, and none before it.
LEMMA SlotAfterIsNextSlot ==
    ASSUME NEW now \in Nat, NEW iv \in Nat \ {0}, NEW ph \in 0..iv-1
    PROVE  /\ SlotAfter(now, iv, ph) \in Nat
           /\ now < SlotAfter(now, iv, ph) /\ SlotAfter(now, iv, ph) <= now + iv
           /\ SlotAfter(now, iv, ph) % iv = ph
           /\ \A m \in Nat : m % iv = ph /\ now < m => SlotAfter(now, iv, ph) <= m
<1> DEFINE q == now \div iv
           r == now % iv
           f == SlotAfter(now, iv, ph)
<1>1. now = iv * q + r /\ r \in 0..iv-1 /\ q \in Nat
  BY Divides
<1>2. f = IF (now - r) + ph > now THEN (now - r) + ph ELSE (now - r) + ph + iv
  BY DEF SlotAfter
<1> HIDE DEF q, r, f
<1>3. iv * q \in Nat /\ iv * (q + 1) = iv * q + iv
  BY <1>1
<1>4. \/ f = iv * q + ph /\ f > now
      \/ f = iv * (q + 1) + ph /\ iv * q + ph <= now
  BY <1>1, <1>2, <1>3
<1>5. f \in Nat /\ now < f /\ f <= now + iv
  BY <1>1, <1>3, <1>4
<1>6. f % iv = ph
  <2>1. q + 1 \in Nat
    BY <1>1
  <2> QED
    BY <1>1, <1>4, <2>1, Remainder, Zenon
<1>7. ASSUME NEW m \in Nat, m % iv = ph, now < m PROVE f <= m
  <2> SUFFICES ASSUME m < f PROVE FALSE
    BY <1>5
  <2> DEFINE k == m \div iv
  <2>1. m = iv * k + ph /\ k \in Nat
    BY <1>7, Divides
  <2> HIDE DEF k
  <2>2. iv * k \in Nat
    BY <2>1
  <2>3. PICK l \in Nat : f = iv * l + ph /\ (l = q \/ l = q + 1)
    <3>1. q + 1 \in Nat
      BY <1>1
    <3> QED
      BY <1>1, <1>4, <3>1, Zenon
  <2>4. iv * l \in Nat
    BY <2>3
  <2>5. k < l
    <3> SUFFICES ASSUME l <= k PROVE FALSE
      BY <2>1, <2>3
    <3>1. l = k \/ iv * l + iv <= iv * k
      BY <2>1, <2>3, MultiplesApart
    <3> QED
      BY <2>1, <2>2, <2>3, <2>4, <3>1
  <2>6. iv * k + iv <= iv * l
    BY <2>1, <2>3, <2>5, MultiplesApart
  <2>7. m + iv <= f
    BY <2>1, <2>2, <2>3, <2>4, <2>6
  <2> QED
    BY <1>5, <1>7, <2>7
<1> QED
  BY <1>5, <1>6, <1>7 DEF f

\* The wrapped product is the whole number of intervals, or so far back that the guard of
\* Advance falls back to the epoch.
LEMMA WrapIsKnown ==
    ASSUME NEW x \in Nat, MaxDuration \in Nat, x <= 2 * MaxDuration
    PROVE  Wrap(x) = x \/ (Wrap(x) \in Int /\ Wrap(x) < 0)
<1> DEFINE N == 2 * (MaxDuration + 1)
           y == x + MaxDuration + 1
<1>1. N \in Nat \ {0} /\ y \in Nat /\ Wrap(x) = (y % N) - (MaxDuration + 1)
  BY DEF Wrap
<1>2. CASE x <= MaxDuration
  <2> DEFINE z == N * 0 + y
  <2>1. y \in 0..N-1 /\ z = y
    BY <1>2
  <2> HIDE DEF N, y
  <2>2. 0 \in Nat /\ z = N * 0 + y
    OBVIOUS
  <2> HIDE DEF z
  <2>3. z % N = y
    <3>1. N \in Nat \ {0}
      BY <1>1
    <3>2. 0 \in Nat
      BY <2>2
    <3>3. y \in 0..N-1
      BY <2>1
    <3>4. z = N * 0 + y
      BY <2>2
    <3> QED
      BY <3>1, <3>2, <3>3, <3>4, Remainder, Zenon
  <2> QED
    BY <1>1, <2>1, <2>3 DEF y
<1>3. CASE x > MaxDuration
  <2> DEFINE r == y - N
  <2>1. r \in 0..N-1 /\ y = N * 1 + r /\ r < MaxDuration + 1
    BY <1>3
  <2> HIDE DEF N, y, r
  <2>2. 1 \in Nat
    OBVIOUS
  <2>3. y % N = r
    <3>1. N \in Nat \ {0}
      BY <1>1
    <3>2. r \in 0..N-1
      BY <2>1
    <3>3. y = N * 1 + r
      BY <2>1
    <3> QED
      BY <2>2, <3>1, <3>2, <3>3, Remainder, Zenon
  <2> QED
    BY <1>1, <2>1, <2>3
<1> QED
  BY <1>2, <1>3

\* A target that is due goes to a slot in the future, at most an interval away.
LEMMA AdvanceIsNextSlot ==
    ASSUME NEW t \in Targets, NEW now \in Nat,
           next[t] \in Nat, next[t] % Interval[t] = Phase[t], next[t] <= now
    PROVE  /\ Advance(t, now) \in Nat
           /\ now < Advance(t, now) /\ Advance(t, now) <= now + Interval[t]
           /\ Advance(t, now) % Interval[t] = Phase[t]
<1> DEFINE iv == Interval[t]
           d  == Sub(now, next[t])
           q  == d \div iv
           x  == (q + 1) * iv
           n  == next[t] + Wrap(x)
           s  == SlotAfter(now, iv, Phase[t])
<1>0. /\ iv \in Nat \ {0} /\ iv <= MaxDuration /\ MaxDuration \in Nat
      /\ Phase[t] \in 0..iv-1
  BY CadenceAssumption
<1>1. Advance(t, now) = IF n > now THEN n ELSE s
  BY DEF Advance
<1>2. s \in Nat /\ now < s /\ s <= now + iv /\ s % iv = Phase[t]
  <2>1. Interval[t] \in Nat \ {0} /\ Phase[t] \in 0..Interval[t]-1
    BY <1>0
  <2>2. \A j \in Nat \ {0} : \A ph \in 0..j-1 :
            /\ SlotAfter(now, j, ph) \in Nat /\ now < SlotAfter(now, j, ph)
            /\ SlotAfter(now, j, ph) <= now + j /\ SlotAfter(now, j, ph) % j = ph
    BY SlotAfterIsNextSlot
  <2> QED
    BY <2>1, <2>2
<1>3. d \in Nat /\ d <= MaxDuration /\ d <= now - next[t]
  BY <1>0 DEF Sub
<1> HIDE DEF iv, d, s
<1>4. q \in Nat /\ d = iv * q + (d % iv) /\ d % iv \in 0..iv-1
  BY <1>0, <1>3, Divides
<1> HIDE DEF q
<1>5. /\ x = iv * q + iv /\ iv * q \in Nat /\ x \in Nat
      /\ x <= d + iv /\ d < x
  BY <1>0, <1>3, <1>4
<1> HIDE DEF x
<1>6. Wrap(x) = x \/ (Wrap(x) \in Int /\ Wrap(x) < 0)
  BY <1>0, <1>3, <1>5, WrapIsKnown
<1>7. CASE Wrap(x) < 0 /\ Wrap(x) \in Int
  <2>1. ~(n > now)
    BY <1>7
  <2> QED
    BY <1>1, <1>2, <2>1 DEF iv
<1>8. CASE Wrap(x) = x /\ n > now
  <2>1. n = next[t] + x /\ n \in Nat /\ n <= now + iv
    BY <1>0, <1>3, <1>5, <1>8
  <2>2. next[t] = iv * (next[t] \div iv) + Phase[t] /\ next[t] \div iv \in Nat
    BY <1>0, Divides DEF iv
  <2> DEFINE p == next[t] \div iv
  <2> HIDE DEF p, n
  <2>3. p \in Nat /\ next[t] = iv * p + Phase[t]
    BY <2>2 DEF p
  <2> DEFINE k == p + q + 1
  <2>4. iv * k = iv * p + iv * q + iv /\ k \in Nat /\ iv * p \in Nat
    BY <1>0, <1>4, <2>3
  <2> HIDE DEF k
  <2>5. n = iv * k + Phase[t]
    <3> DEFINE a == iv * p
               b == iv * q
               c == iv * k
    <3>1. c = a + b + iv /\ a \in Nat /\ b \in Nat /\ x = b + iv /\ next[t] = a + Phase[t]
      BY <1>5, <2>3, <2>4
    <3>2. iv \in Nat /\ Phase[t] \in Nat
      BY <1>0
    <3> HIDE DEF a, b, c
    <3>3. n = c + Phase[t]
      BY <2>1, <3>1, <3>2
    <3> QED
      BY <3>3 DEF c
  <2>6. n % iv = Phase[t]
    <3>1. iv \in Nat \ {0}
      BY <1>0
    <3>2. k \in Nat
      BY <2>4
    <3>3. Phase[t] \in 0..iv-1
      BY <1>0
    <3>4. \A m \in Nat \ {0}, j \in Nat, r \in Nat :
             r \in 0..m-1 => (m * j + r) % m = r
      BY Remainder
    <3>5. (iv * k + Phase[t]) % iv = Phase[t]
      BY <3>1, <3>2, <3>3, <3>4
    <3> QED
      BY <2>5, <3>5
  <2> QED
    BY <1>1, <1>8, <2>1, <2>6 DEF iv
<1>9. CASE ~(n > now)
  BY <1>1, <1>2, <1>9 DEF iv
<1> QED
  BY <1>6, <1>7, <1>8, <1>9

-----------------------------------------------------------------------------
(***************************************************************************)
(* The operators at a state of the system.                                 *)
(***************************************************************************)

\* What the assumption says of one target.
LEMMA Intervals ==
    /\ \A t \in Targets : /\ Interval[t] \in Nat \ {0} /\ Phase[t] \in 0..Interval[t]-1
                          /\ Interval[t] <= MaxDuration /\ Interval[t] <= MaxWall
    /\ MaxDuration \in Nat /\ MaxWall \in Nat /\ MaxStep \in Nat /\ MaxEvents \in Nat
    /\ MaxStall \in Nat
BY CadenceAssumption

\* The longest interval is some target's.
LEMMA LongestIsAnInterval ==
    /\ \E t \in Targets : Longest = Interval[t]
    /\ \A t \in Targets : Interval[t] <= Longest
<1> DEFINE Rest(t) == MaxDuration - Interval[t]
           R == {Rest(t) : t \in Targets}
<1>1. R \in SUBSET Nat /\ R # {}
  BY Intervals, CadenceAssumption
<1>2. PICK x \in R : \A y \in R : ~(<<y, x>> \in OpToRel(<, Nat))
  BY <1>1, WFMin, NatLessThanWellFounded
<1>3. \A y \in R : ~(y < x)
  BY <1>1, <1>2 DEF OpToRel
<1>4. PICK t \in Targets : x = Rest(t)
  OBVIOUS
<1>5. ASSUME NEW u \in Targets PROVE Interval[u] <= Interval[t]
  <2>1. ~(Rest(u) < Rest(t))
    BY <1>3, <1>4
  <2> QED
    BY <2>1, Intervals
<1>6. \E iv \in {Interval[u] : u \in Targets} : \A u \in Targets : Interval[u] <= iv
  BY <1>5
<1>7. Longest \in {Interval[u] : u \in Targets} /\ \A u \in Targets : Interval[u] <= Longest
  BY <1>6 DEF Longest
<1> QED
  BY <1>7

\* The next slot of a target, by SlotAfterIsNextSlot, within the bound of the clock.
LEMMA SlotOfTarget ==
    ASSUME wall \in Nat, NEW t \in Targets
    PROVE  LET s == SlotAfter(wall, Interval[t], Phase[t])
           IN  /\ s \in Nat /\ wall < s /\ s <= wall + Interval[t]
               /\ s % Interval[t] = Phase[t]
               /\ \A m \in Nat : m % Interval[t] = Phase[t] /\ wall < m => s <= m
BY Intervals, SlotAfterIsNextSlot

\* What the re-anchor guard takes for stale lies beyond the next slot, and, where no
\* interval is the longest Duration, nothing else does.
LEMMA StaleIsTooFar ==
    ASSUME wall \in Nat, next \in [Targets -> Nat], NEW t \in Targets
    PROVE  /\ Stale(t) => next[t] > wall + Interval[t]
           /\ Interval[t] < MaxDuration /\ next[t] > wall + Interval[t] => Stale(t)
<1>1. next[t] \in Nat /\ Interval[t] \in Nat /\ MaxDuration \in Nat
  BY Intervals
<1> QED
  BY <1>1 DEF Stale, Sub

\* Whatever moves a next fire time moves it to the target's next slot, or one within
\* an interval.
LEMMA MovesToASlot ==
    ASSUME TypeOK, OnItsSlot, [Next]_vars
    PROVE  \/ next' = next
           \/ /\ next' \in [Targets -> Nat]
              /\ \A t \in Targets : next'[t] # next[t] =>
                    /\ wall < next'[t] /\ next'[t] <= wall + Interval[t]
                    /\ next'[t] % Interval[t] = Phase[t]
<1>0. wall \in Nat /\ next \in [Targets -> Nat]
  BY Intervals DEF TypeOK
<1>1. CASE Reanchor
  <2> DEFINE s(t) == SlotAfter(wall, Interval[t], Phase[t])
  <2>1. \A t \in Targets : s(t) \in Nat /\ wall < s(t) /\ s(t) <= wall + Interval[t]
                           /\ s(t) % Interval[t] = Phase[t]
    BY <1>0, SlotOfTarget
  <2>2. next' = [t \in Targets |-> IF Stale(t) THEN s(t) ELSE next[t]]
    BY <1>1 DEF Reanchor
  <2> HIDE DEF s
  <2> QED
    BY <1>0, <2>1, <2>2
<1>2. CASE Start
  <2> DEFINE s(t) == SlotAfter(wall, Interval[t], Phase[t])
  <2>1. \A t \in Targets : s(t) \in Nat /\ wall < s(t) /\ s(t) <= wall + Interval[t]
                           /\ s(t) % Interval[t] = Phase[t]
    BY <1>0, SlotOfTarget
  <2>2. next' = [t \in Targets |-> s(t)]
    BY <1>2 DEF Start, Schedule
  <2> HIDE DEF s
  <2> QED
    BY <2>1, <2>2
<1>3. CASE \E t \in Targets : Fire(t)
  <2>1. PICK t \in Targets : Fire(t)
    BY <1>3
  <2>2. next[t] \in Nat /\ next[t] % Interval[t] = Phase[t] /\ next[t] <= wall
    BY <1>0, <2>1 DEF Fire, OnItsSlot
  <2> DEFINE a == Advance(t, wall)
  <2>3. a \in Nat /\ wall < a /\ a <= wall + Interval[t] /\ a % Interval[t] = Phase[t]
    BY <1>0, <2>2, AdvanceIsNextSlot
  <2>4. next' = [next EXCEPT ![t] = a]
    BY <2>1 DEF Fire
  <2> HIDE DEF a
  <2> QED
    BY <1>0, <2>3, <2>4
<1>4. CASE (\E t \in Targets : Arm(t)) \/ Wake \/ Elapse \/ StepBack \/ StepForward \/ Stop
           \/ UNCHANGED vars
  BY <1>4 DEF Arm, Wake, Elapse, StepBack, StepForward, Stop, vars
<1> QED
  BY <1>1, <1>2, <1>3, <1>4 DEF Next

-----------------------------------------------------------------------------
\* A process begins on its slots.
LEMMA SlotInitially == Init => SlotInv
<1> SUFFICES ASSUME Init PROVE SlotInv
  OBVIOUS
<1>1. wall \in 0..MaxWall /\ wall \in Nat
  BY LongestIsAnInterval, Intervals DEF Init
<1> DEFINE s(t) == SlotAfter(wall, Interval[t], Phase[t])
<1>2. \A t \in Targets : s(t) \in Nat /\ s(t) % Interval[t] = Phase[t]
  BY <1>1, SlotOfTarget
<1>3. next = [t \in Targets |-> s(t)]
  BY DEF Init, Schedule
<1> HIDE DEF s
<1>4. next \in [Targets -> Nat] /\ OnItsSlot
  BY <1>2, <1>3 DEF OnItsSlot
<1>5. TypeOK
  <2>1. /\ timer \in 0..MaxDuration /\ stall \in 0..MaxStall /\ stepped \in 0..MaxStep
        /\ backs \in Nat /\ forwards \in Nat /\ restarts \in Nat /\ Events <= MaxEvents
        /\ downtime \in Nat /\ since \in Nat
    BY Intervals DEF Init, Events
  <2>2. pc \in {"lap", "armed", "down"} /\ late \in BOOLEAN /\ waiting \subseteq Targets
    BY DEF Init
  <2>3. age \in [Targets -> Nat]
    BY DEF Init
  <2> QED
    BY <1>1, <1>4, <2>1, <2>2, <2>3 DEF TypeOK
<1> QED
  BY <1>4, <1>5 DEF SlotInv

\* Each action leaves every target on a slot of its own.
LEMMA SlotStep == SlotInv /\ [Next]_vars => SlotInv'
<1> SUFFICES ASSUME SlotInv, [Next]_vars PROVE SlotInv'
  OBVIOUS
<1>0. TypeOK /\ OnItsSlot
  BY DEF SlotInv
<1>1. (next \in [Targets -> Nat])' /\ OnItsSlot'
  BY <1>0, MovesToASlot DEF TypeOK, OnItsSlot
<1>2. (age \in [Targets -> Nat])'
  <2>1. CASE \E t \in Targets : Fire(t)
    BY <1>0, <2>1 DEF TypeOK, Fire
  <2>2. CASE Elapse
    BY <1>0, <2>2 DEF TypeOK, Elapse, Older
  <2>3. CASE ~Elapse /\ ~\E t \in Targets : Fire(t)
    BY <1>0, <2>3 DEF TypeOK, Next, Reanchor, Arm, Wake, StepBack, StepForward, Stop, Start, vars
  <2> QED
    BY <2>1, <2>2, <2>3
<1>3. (waiting \subseteq Targets)'
  BY <1>0 DEF TypeOK, Next, Reanchor, Arm, Fire, Wake, Elapse, StepBack, StepForward, Stop, Start, vars
<1>4. (/\ pc \in {"lap", "armed", "down"} /\ late \in BOOLEAN)'
  BY <1>0 DEF TypeOK, Next, Reanchor, Arm, Fire, Wake, Elapse, StepBack, StepForward, Stop, Start,
      vars, stepVars
<1>5. (timer \in 0..MaxDuration)'
  <2>1. CASE \E t \in Targets : Arm(t)
    <3>1. PICK t \in Targets : Arm(t)
      BY <2>1
    <3>2. next[t] \in Nat /\ wall \in Nat
      BY <1>0, Intervals DEF TypeOK
    <3> QED
      BY <3>1, <3>2, Intervals DEF Arm, Sub
  <2>2. CASE ~\E t \in Targets : Arm(t)
    BY <1>0, <2>2, Intervals
    DEF TypeOK, Next, Reanchor, Fire, Wake, Elapse, StepBack, StepForward, Stop, Start, vars
  <2> QED
    BY <2>1, <2>2
<1>6. (/\ wall \in 0..MaxWall /\ stall \in 0..MaxStall
       /\ downtime \in Nat /\ stepped \in 0..MaxStep /\ since \in Nat)'
  BY <1>0, Intervals DEF TypeOK, Next, Reanchor, Arm, Fire, Wake, Elapse, StepBack, StepForward,
      Stop, Start, vars, stepVars
<1>7. (/\ backs \in Nat /\ forwards \in Nat /\ restarts \in Nat
       /\ Events <= MaxEvents)'
  BY <1>0, Intervals DEF TypeOK, Next, Reanchor, Arm, Fire, Wake, Elapse, StepBack, StepForward,
      Stop, Start, vars, stepVars, Events
<1> QED
  BY <1>1, <1>2, <1>3, <1>4, <1>5, <1>6, <1>7 DEF SlotInv, TypeOK

\* The invariant behind StaysOnSlot and ReschedulesForward.
LEMMA SlotInvariant == Spec => []SlotInv
BY SlotInitially, SlotStep, PTL DEF Spec

\* Phase never drifts, whatever the clock does, however long the scheduler stalls and
\* however often the process restarts, and also where a Duration saturates or wraps
\* (runner.go, slotAfter and schedule).
THEOREM StaysOnSlot == Spec => []OnSlot
<1>1. SlotInv => OnSlot
  BY DEF SlotInv, OnItsSlot, OnSlot
<1> QED
  BY <1>1, SlotInvariant, PTL

\* No next fire time is computed in the past, and none more than an interval away
\* (runner.go, schedule).
THEOREM ReschedulesForward == Spec => Reschedules
<1>1. SlotInv /\ [Next]_vars =>
        [\A t \in Targets :
            next'[t] # next[t] => wall < next'[t] /\ next'[t] <= wall + Interval[t]]_vars
  BY MovesToASlot DEF SlotInv
<1> QED
  BY <1>1, SlotInvariant, PTL DEF Spec, Reschedules

-----------------------------------------------------------------------------
(***************************************************************************)
(* How far apart two firings are.                                          *)
(***************************************************************************)

\* The clocks and the counters are naturals.
LEMMA Numbers ==
    ASSUME TypeOK
    PROVE  /\ wall \in Nat /\ timer \in Nat /\ stall \in Nat
           /\ backs \in Nat /\ forwards \in Nat /\ restarts \in Nat
           /\ downtime \in Nat /\ stepped \in Nat /\ since \in Nat
           /\ Left \in Nat /\ Longest \in Nat
           /\ \A t \in Targets : /\ next[t] \in Nat /\ age[t] \in Nat
                                 /\ Interval[t] \in Nat \ {0} /\ Interval[t] <= Longest
<1>1. Longest \in Nat /\ \A t \in Targets : Interval[t] <= Longest
  BY LongestIsAnInterval, Intervals
<1> QED
  BY <1>1, Intervals DEF TypeOK, Left

\* Before anything has happened nothing is late, stepped or missed.
LEMMA GapInitially == Init => GapInv
<1> SUFFICES ASSUME Init PROVE GapInv
  OBVIOUS
<1>0. SlotInv
  BY SlotInitially
<1>1. /\ wall \in Nat
      /\ \A t \in Targets : /\ next[t] \in Nat /\ Interval[t] \in Nat /\ age[t] = 0
                            /\ wall < next[t] /\ next[t] <= wall + Interval[t]
  BY <1>0, Numbers, SlotOfTarget DEF SlotInv, Schedule, Init
<1>2. Events = 0 /\ stall = 0 /\ pc = "lap" /\ Left = 0 /\ timer = 0 /\ waiting = {}
  BY DEF Init, Events, Left
<1>3. Tally
  BY <1>0, <1>2, Numbers DEF Tally, SlotInv
<1>4. Due
  <2>1. ASSUME NEW t \in Targets PROVE wall + Left <= next[t] + stall
    BY <1>1, <1>2
  <2> QED
    BY <2>1 DEF Due
<1>5. Undisturbed
  <2>1. ASSUME NEW t \in Targets PROVE age[t] + next[t] <= wall + Interval[t]
    BY <1>1, <1>2
  <2> QED
    BY <2>1 DEF Undisturbed
<1>6. Missed /\ Restarted /\ TooFar /\ LongStep
  BY <1>2 DEF Missed, Restarted, TooFar, LongStep
<1> QED
  BY <1>3, <1>4, <1>5, <1>6 DEF GapInv

\* The laps: Reanchor, Arm, Fire and Wake.  Time stands still and only next fire times,
\* the timer and what has just fired change.
LEMMA LapStep ==
    ASSUME SlotInv, GapInv, \A t \in Targets : Interval[t] < MaxDuration,
           Reanchor \/ (\E t \in Targets : Arm(t) \/ Fire(t)) \/ Wake
    PROVE  GapInv'
<1>0. /\ TypeOK /\ OnItsSlot
      /\ Tally /\ Due /\ Undisturbed /\ Missed /\ Restarted /\ TooFar /\ LongStep
  BY DEF SlotInv, GapInv
<1>1. CASE Reanchor
  <2>1. /\ UNCHANGED <<wall, timer, pc, stall, backs, forwards, restarts, late, downtime, stepped,
                       since, age, waiting>>
        /\ pc = "lap" /\ Left' = Left /\ Left = 0 /\ UNCHANGED Events
    BY <1>1 DEF Reanchor, stepVars, Left, Events
  <2>2. \A t \in Targets :
            \/ next'[t] = next[t] /\ ~Stale(t)
            \/ /\ next'[t] \in Nat /\ wall < next'[t] /\ next'[t] <= wall + Interval[t]
               /\ next'[t] < next[t]
    <3> SUFFICES ASSUME NEW t \in Targets
                 PROVE  \/ next'[t] = next[t] /\ ~Stale(t)
                        \/ /\ next'[t] \in Nat /\ wall < next'[t] /\ next'[t] <= wall + Interval[t]
                           /\ next'[t] < next[t]
      OBVIOUS
    <3>1. /\ SlotAfter(wall, Interval[t], Phase[t]) \in Nat
          /\ wall < SlotAfter(wall, Interval[t], Phase[t])
          /\ SlotAfter(wall, Interval[t], Phase[t]) <= wall + Interval[t]
      BY <1>0, Numbers, SlotOfTarget
    <3>2. Stale(t) => next[t] > wall + Interval[t]
      BY <1>0, Numbers, StaleIsTooFar DEF TypeOK
    <3>3. next'[t] = IF Stale(t) THEN SlotAfter(wall, Interval[t], Phase[t]) ELSE next[t]
      BY <1>1 DEF Reanchor
    <3> QED
      BY <1>0, <3>1, <3>2, <3>3, Numbers
  <2>3. Tally' /\ Missed'
    BY <1>0, <2>1 DEF Tally, Missed
  <2>4. Due'
    BY <1>0, <2>1, <2>2, Numbers DEF Due
  <2>5. Undisturbed' /\ Restarted' /\ TooFar'
    BY <1>0, <2>1, <2>2, Numbers DEF Undisturbed, Restarted, TooFar, TypeOK
  <2>6. LongStep'
    BY <1>0, <2>1, <2>2, Numbers, StaleIsTooFar DEF LongStep, Behind, Caught, TypeOK
  <2> QED
    BY <2>3, <2>4, <2>5, <2>6 DEF GapInv
<1>2. ASSUME NEW t \in Targets, Arm(t) PROVE GapInv'
  <2>1. /\ UNCHANGED <<wall, next, backs, forwards, restarts, late, downtime, stepped,
                       since, age, waiting>>
        /\ UNCHANGED Events
        /\ pc = "lap" /\ pc' = "armed" /\ Left = 0 /\ Left' = timer' /\ stall' = 0
    BY <1>2 DEF Arm, stepVars, Left, Events
  <2>2. /\ timer' \in Nat /\ timer' <= next[t] - wall /\ timer' <= Interval[t]
        /\ \A u \in Targets : next[t] <= next[u]
        /\ next[t] > wall
    BY <1>0, <1>2, Numbers, Intervals DEF Arm, Sub, Stale, Top
  <2>3. Tally'
    BY <1>0, <2>1, <2>2, Numbers DEF Tally
  <2>4. Due'
    BY <1>0, <2>1, <2>2, Numbers DEF Due
  <2>5. Undisturbed' /\ Missed' /\ Restarted' /\ TooFar'
    BY <1>0, <2>1 DEF Undisturbed, Missed, Restarted, TooFar
  <2>6. LongStep'
    <3>1. ~Stale(t)
      BY <1>2 DEF Arm
    <3> QED
      BY <1>0, <2>1, <2>2, <3>1, Numbers, StaleIsTooFar DEF LongStep, Behind, Caught, TypeOK
  <2> QED
    BY <2>3, <2>4, <2>5, <2>6 DEF GapInv
<1>3. ASSUME NEW t \in Targets, Fire(t) PROVE GapInv'
  <2>1. /\ UNCHANGED <<wall, timer, pc, stall, backs, forwards, restarts, late, downtime, stepped,
                       since>>
        /\ pc = "lap" /\ Left' = Left /\ Left = 0 /\ UNCHANGED Events
        /\ waiting' = waiting \ {t} /\ next[t] <= wall
    BY <1>3 DEF Fire, stepVars, Left, Events
  <2>2. /\ \A u \in Targets : u # t => next'[u] = next[u] /\ age'[u] = age[u]
        /\ next'[t] = Advance(t, wall) /\ age'[t] = 0
    BY <1>0, <1>3 DEF Fire, TypeOK
  <2>3. next'[t] \in Nat /\ wall < next'[t] /\ next'[t] <= wall + Interval[t]
    BY <1>0, <2>1, <2>2, Numbers, AdvanceIsNextSlot DEF OnItsSlot
  <2>4. Tally'
    BY <1>0, <2>1 DEF Tally
  <2>5. Due'
    BY <1>0, <2>1, <2>2, <2>3, Numbers DEF Due
  <2>6. Undisturbed' /\ Missed' /\ Restarted' /\ TooFar'
    BY <1>0, <2>1, <2>2, <2>3, Numbers DEF Undisturbed, Missed, Restarted, TooFar, TypeOK
  <2>7. LongStep'
    BY <1>0, <2>1, <2>2, Numbers DEF LongStep, Behind, Caught, TypeOK
  <2> QED
    BY <2>4, <2>5, <2>6, <2>7 DEF GapInv
<1>4. CASE Wake
  <2>1. /\ UNCHANGED <<wall, timer, next, stall, backs, forwards, restarts, late, downtime, stepped,
                       since, age, waiting>>
        /\ pc = "armed" /\ pc' = "lap" /\ Left' = 0 /\ UNCHANGED Events
    BY <1>4 DEF Wake, stepVars, Left, Events
  <2>2. Left' <= Left
    BY <1>0, <2>1, Numbers
  <2>3. Tally' /\ Undisturbed' /\ Missed' /\ Restarted' /\ TooFar'
    BY <1>0, <2>1 DEF Tally, Undisturbed, Missed, Restarted, TooFar
  <2>4. Due'
    BY <1>0, <2>1, <2>2, Numbers DEF Due
  <2>5. LongStep'
    BY <1>0, <2>1, <2>2, Numbers DEF LongStep, Behind, Caught
  <2> QED
    BY <2>3, <2>4, <2>5 DEF GapInv
<1> QED
  BY <1>1, <1>2, <1>3, <1>4

\* Time passes: where the timer runs it counts down, elsewhere the scheduler is late, or
\* the process is down.
LEMMA ElapseStep ==
    ASSUME SlotInv, GapInv, Elapse
    PROVE  GapInv'
<1>0. /\ TypeOK
      /\ Tally /\ Due /\ Undisturbed /\ Missed /\ Restarted /\ TooFar /\ LongStep
  BY DEF SlotInv, GapInv
<1>1. /\ UNCHANGED <<pc, next, backs, forwards, restarts, stepped, waiting, Events>>
      /\ wall' = wall + 1
      /\ \A t \in Targets : age'[t] = age[t] + 1
      /\ waiting # {} => since' = since + 1
  BY DEF Elapse, Older, Events
<1>2. \/ /\ pc = "armed" /\ timer > 0 /\ timer' = timer - 1
         /\ UNCHANGED <<stall, late, downtime>>
      \/ /\ pc # "down" /\ (pc = "lap" \/ timer = 0) /\ timer' = timer
         /\ stall' = stall + 1 /\ late' /\ UNCHANGED downtime
      \/ /\ pc = "down" /\ downtime' = downtime + 1
         /\ UNCHANGED <<timer, stall, late>>
  BY DEF Elapse
<1>3. Tally'
  BY <1>0, <1>1, <1>2, Numbers DEF Tally
<1>4. Due'
  BY <1>0, <1>1, <1>2, Numbers DEF Due, Left
<1>5. Undisturbed'
  BY <1>0, <1>1, Numbers DEF Undisturbed
<1>6. Missed'
  BY <1>0, <1>1, <1>2, Numbers DEF Missed
<1>7. Restarted'
  BY <1>0, <1>1, <1>2, Numbers DEF Restarted
<1>8. TooFar'
  BY <1>0, <1>1, <1>2, Numbers DEF TooFar, TypeOK
<1>9. LongStep'
  <2> SUFFICES ASSUME Events' = 1, backs' = 1, ~late', stepped' > Longest
               PROVE  Behind' \/ Caught'
    BY DEF LongStep
  <2>1. ~late /\ Events = 1 /\ backs = 1 /\ stepped > Longest
    BY <1>1, <1>2
  <2>2. Behind \/ Caught
    BY <1>0, <2>1 DEF LongStep
  <2>3. CASE Caught
    BY <1>0, <1>1, <2>3, Numbers DEF Caught, TypeOK
  <2>4. CASE Behind
    <3>1. pc # "down"
      BY <1>0, <1>1, Numbers DEF Tally, Events
    <3>2. Left = timer /\ Left' = timer' /\ timer' = timer - 1 /\ timer > 0
      BY <1>1, <1>2, <3>1 DEF Left
    <3>3. waiting # {} => since' + Left' <= Longest
      BY <1>0, <1>1, <2>4, <3>2, Numbers DEF Behind
    <3>4. \A t \in Targets : wall' + stepped' + Left' <= next'[t]
      BY <1>0, <1>1, <2>4, <3>2, Numbers DEF Behind
    <3>5. waiting # {} /\ waiting' = Targets
      BY <1>1, <2>4, CadenceAssumption DEF Behind
    <3> QED
      BY <3>3, <3>4, <3>5 DEF Behind
  <2> QED
    BY <2>2, <2>3, <2>4
<1> QED
  BY <1>3, <1>4, <1>5, <1>6, <1>7, <1>8, <1>9 DEF GapInv

\* The clock steps back: what was due in time is due later, by the step.
LEMMA StepBackStep ==
    ASSUME SlotInv, GapInv, StepBack
    PROVE  GapInv'
<1>0. /\ TypeOK
      /\ Tally /\ Due /\ Undisturbed /\ Missed /\ Restarted /\ TooFar /\ LongStep
  BY DEF SlotInv, GapInv
<1>1. PICK s \in 1..MaxStep : s <= wall /\ wall' = wall - s /\ stepped' = s
  BY DEF StepBack
<1>2. /\ UNCHANGED <<timer, pc, next, stall, forwards, restarts, late, age, downtime, Left>>
      /\ backs' = backs + 1 /\ since' = 0 /\ waiting' = Targets
  BY DEF StepBack, Left
<1>3. Events' = Events + 1 /\ Events \in Nat /\ (Events = 0 => restarts = 0 /\ forwards = 0)
  BY <1>0, <1>2, Numbers DEF Events
<1>4. Tally'
  BY <1>0, <1>2, Numbers DEF Tally
<1>5. Due'
  BY <1>0, <1>1, <1>2, Numbers, Intervals DEF Due
<1>6. Events' = 1 => pc # "down" /\ restarts' = 0
  BY <1>0, <1>2, <1>3, Numbers DEF Tally
<1>7. Undisturbed' /\ Missed' /\ Restarted'
  BY <1>2, <1>3, <1>6 DEF Undisturbed, Missed, Restarted
<1>8. TooFar'
  <2> SUFFICES ASSUME Events' = 1, NEW t \in Targets
               PROVE  0 + next[t] <= wall' + Interval[t] + stepped'
    BY <1>2 DEF TooFar
  <2>1. age[t] + next[t] <= wall + Interval[t]
    BY <1>0, <1>3 DEF Undisturbed
  <2> QED
    BY <1>0, <1>1, <2>1, Numbers, Intervals
<1>9. LongStep'
  <2> SUFFICES ASSUME Events' = 1, ~late' PROVE Behind'
    BY DEF LongStep
  <2>1. stall = 0 /\ forwards = 0 /\ Left <= Longest
    BY <1>0, <1>2, <1>3, Numbers DEF Tally, Left
  <2>2. \A t \in Targets : wall + Left <= next[t]
    BY <1>0, <1>6, <2>1, Numbers DEF Due
  <2>3. \A t \in Targets : wall' + stepped' + Left' <= next'[t]
    BY <1>0, <1>1, <1>2, <2>2, Numbers, Intervals
  <2> QED
    BY <1>0, <1>2, <2>1, <2>3, Numbers DEF Behind
<1> QED
  BY <1>4, <1>5, <1>7, <1>8, <1>9 DEF GapInv

\* The clock steps forward: of the bounds only those of an undisturbed run speak of it.
LEMMA StepForwardStep ==
    ASSUME SlotInv, GapInv, StepForward
    PROVE  GapInv'
<1>0. TypeOK /\ Tally
  BY DEF SlotInv, GapInv
<1>1. /\ UNCHANGED <<timer, pc, next, stall, backs, restarts, late, age, downtime, waiting>>
      /\ forwards' = forwards + 1
  BY DEF StepForward
<1>2. forwards' # 0 /\ Events' # 0 /\ (Events' = 1 => restarts' = 0 /\ backs' = 0 /\ pc' # "down")
  BY <1>0, <1>1, Numbers DEF Events, Tally
<1>3. Tally'
  BY <1>0, <1>1 DEF Tally
<1> QED
  BY <1>2, <1>3 DEF GapInv, Due, Undisturbed, Missed, Restarted, TooFar, LongStep

\* The process stops: the timer and the lap are gone, the next fire times are not read
\* again.
LEMMA StopStep ==
    ASSUME SlotInv, GapInv, Stop
    PROVE  GapInv'
<1>0. TypeOK /\ Tally /\ Due /\ Undisturbed
  BY DEF SlotInv, GapInv
<1>1. /\ UNCHANGED <<wall, next, stall, backs, forwards, late, age, waiting>>
      /\ pc = "armed" /\ pc' = "down" /\ timer' = 0 /\ downtime' = 0 /\ restarts' = restarts + 1
  BY DEF Stop
<1>2. Events' = Events + 1 /\ Events \in Nat /\ restarts' > 0
      /\ (Events = 0 => backs = 0 /\ forwards = 0)
  BY <1>0, <1>1, Numbers DEF Events
<1>3. Tally'
  BY <1>0, <1>1, <1>2, Numbers DEF Tally
<1>4. Undisturbed'
  BY <1>0, <1>1, <1>2 DEF Undisturbed
<1>5. Missed'
  <2> SUFFICES ASSUME Events = 0, ~late, NEW t \in Targets PROVE wall <= next[t] + 0
    BY <1>1, <1>2 DEF Missed
  <2>1. stall = 0 /\ wall + Left <= next[t] + stall
    BY <1>0, <1>1, <1>2, Numbers DEF Tally, Due
  <2> QED
    BY <1>0, <2>1, Numbers
<1>6. Due' /\ Restarted'
  BY <1>1 DEF Due, Restarted
<1>7. TooFar' /\ LongStep'
  BY <1>1, <1>2 DEF TooFar, LongStep
<1> QED
  BY <1>3, <1>4, <1>5, <1>6, <1>7 DEF GapInv

\* A new process resumes at the first slot it has not missed.
LEMMA StartStep ==
    ASSUME SlotInv, GapInv, Start
    PROVE  GapInv'
<1>0. TypeOK /\ OnItsSlot /\ Tally /\ Undisturbed /\ Missed
  BY DEF SlotInv, GapInv
<1>1. /\ UNCHANGED <<wall, timer, age, backs, forwards, restarts, late, downtime, waiting, Events>>
      /\ pc = "down" /\ pc' = "lap" /\ stall' = 0 /\ Left' = 0
      /\ \A t \in Targets : next'[t] = SlotAfter(wall, Interval[t], Phase[t])
  BY DEF Start, stepVars, Schedule, Events, Left
<1>2. \A t \in Targets :
        /\ next'[t] \in Nat /\ wall < next'[t] /\ next'[t] <= wall + Interval[t]
        /\ \A m \in Nat : m % Interval[t] = Phase[t] /\ wall < m => next'[t] <= m
  BY <1>0, <1>1, Numbers, SlotOfTarget
<1>3. Tally'
  BY <1>0, <1>1, Numbers DEF Tally
<1>4. Due'
  BY <1>0, <1>1, <1>2, Numbers DEF Due
<1>5. restarts > 0 /\ (Events = 1 => backs = 0) /\ Events # 0
  BY <1>0, <1>1, Numbers DEF Tally, Events
<1>6. Restarted'
  <2> SUFFICES ASSUME Events = 1, ~late, NEW t \in Targets, downtime < Interval[t]
               PROVE  age[t] + next'[t] <= wall + 2 * Interval[t]
    BY <1>1 DEF Restarted
  <2>1. age[t] + next[t] <= wall + Interval[t] /\ wall <= next[t] + downtime
    BY <1>0, <1>1 DEF Undisturbed, Missed
  <2> DEFINE m == next[t] + Interval[t]
  <2>2. m \in Nat /\ wall < m
    BY <1>0, <2>1, Numbers
  <2>3. m % Interval[t] = Phase[t]
    <3>1. /\ next[t] \in Nat /\ next[t] % Interval[t] = Phase[t]
          /\ Interval[t] \in Nat \ {0} /\ Phase[t] \in 0..Interval[t]-1
      BY <1>0, Numbers, Intervals DEF OnItsSlot
    <3> QED
      BY <3>1, IntervalLater
  <2>4. next'[t] <= m
    BY <1>2, <2>2, <2>3
  <2> QED
    BY <1>0, <1>2, <2>1, <2>4, Numbers
<1>7. Undisturbed' /\ Missed' /\ TooFar' /\ LongStep'
  BY <1>1, <1>5 DEF Undisturbed, Missed, TooFar, LongStep
<1> QED
  BY <1>3, <1>4, <1>6, <1>7 DEF GapInv

\* How far apart two firings of a target are - while nothing happens, after one step back
\* of the clock, after one restart - for every interval but the longest Duration, which
\* the re-anchor guard cannot tell from a saturated difference (runner.go, "Cadence" and
\* "Re-anchor guard").
THEOREM GapsAreBounded ==
    ASSUME \A t \in Targets : Interval[t] < MaxDuration
    PROVE  Spec => []GapBounded
<1>1. Init => SlotInv /\ GapInv
  BY SlotInitially, GapInitially
<1>2. SlotInv /\ GapInv /\ [Next]_vars => (SlotInv /\ GapInv)'
  <2> SUFFICES ASSUME SlotInv, GapInv, [Next]_vars PROVE GapInv'
    BY SlotStep
  <2>1. CASE Reanchor \/ (\E t \in Targets : Arm(t) \/ Fire(t)) \/ Wake
    BY <2>1, LapStep
  <2>2. CASE Elapse
    BY <2>2, ElapseStep
  <2>3. CASE StepBack
    BY <2>3, StepBackStep
  <2>4. CASE StepForward
    BY <2>4, StepForwardStep
  <2>5. CASE Stop
    BY <2>5, StopStep
  <2>6. CASE Start
    BY <2>6, StartStep
  <2>7. CASE UNCHANGED vars
    BY <2>7 DEF vars, stepVars, GapInv, Tally, Due, Left, Undisturbed, Missed, Restarted, TooFar,
         LongStep, Behind, Caught, Events
  <2> QED
    BY <2>1, <2>2, <2>3, <2>4, <2>5, <2>6, <2>7 DEF Next
<1>3. SlotInv /\ GapInv => GapBounded
  <2> SUFFICES ASSUME SlotInv, GapInv PROVE GapBounded
    OBVIOUS
  <2>0. TypeOK /\ Tally /\ Due /\ Undisturbed /\ Restarted /\ TooFar /\ LongStep
    BY DEF SlotInv, GapInv
  <2>1. SteadyCadence
    <3> SUFFICES ASSUME Events = 0, NEW t \in Targets PROVE age[t] <= Interval[t] + stall
      BY DEF SteadyCadence
    <3>1. restarts = 0 /\ forwards = 0
      <4>1. backs \in Nat /\ forwards \in Nat /\ restarts \in Nat
        BY <2>0, Numbers
      <4>2. backs + forwards + restarts = 0
        BY DEF Events
      <4> QED
        BY <4>1, <4>2
    <3>2. age[t] + next[t] <= wall + Interval[t]
      BY <2>0 DEF Undisturbed
    <3>3. wall + Left <= next[t] + stall
      BY <2>0, <3>1 DEF Due, Tally
    <3> QED
      BY <2>0, <3>2, <3>3, Numbers
  <2>2. BackStepBound
    <3> SUFFICES ASSUME Events = 1, ~late, NEW t \in waiting
                 PROVE  since <= Interval[t] + (IF stepped < Longest THEN stepped ELSE Longest)
      BY DEF BackStepBound
    <3>0. t \in Targets
      BY <2>0 DEF TypeOK
    <3>1. backs = 1 /\ restarts = 0 /\ forwards = 0 /\ stall = 0
      BY <2>0, Numbers DEF Events, Tally
    <3>2. since + next[t] <= wall + Interval[t] + stepped
      BY <2>0, <3>1 DEF TooFar
    <3>3. wall + Left <= next[t] + stall
      BY <2>0, <3>0, <3>1 DEF Due, Tally
    <3>4. stepped > Longest => since <= Interval[t] + Longest
      <4> SUFFICES ASSUME stepped > Longest PROVE since <= Interval[t] + Longest
        OBVIOUS
      <4>1. CASE Behind
        BY <2>0, <3>0, <4>1, Numbers DEF Behind
      <4>2. CASE Caught
        <5>1. since + next[t] <= wall + Interval[t] + Longest
          BY <4>2 DEF Caught
        <5> QED
          BY <2>0, <3>0, <3>1, <3>3, <5>1, Numbers
      <4> QED
        BY <2>0, <3>1, <4>1, <4>2 DEF LongStep
    <3>5. since <= Interval[t] + stepped
      BY <2>0, <3>0, <3>1, <3>2, <3>3, Numbers
    <3> QED
      BY <2>0, <3>0, <3>4, <3>5, Numbers
  <2>3. RestartGap
    <3> SUFFICES ASSUME Events = 1, restarts = 1, ~late, pc # "down",
                        NEW t \in Targets, downtime < Interval[t]
                 PROVE  age[t] <= 2 * Interval[t]
      BY DEF RestartGap
    <3>1. forwards = 0 /\ stall = 0
      BY <2>0, Numbers DEF Events, Tally
    <3>2. age[t] + next[t] <= wall + 2 * Interval[t]
      BY <2>0 DEF Restarted
    <3>3. wall + Left <= next[t] + stall
      BY <2>0, <3>1 DEF Due
    <3> QED
      BY <2>0, <3>1, <3>2, <3>3, Numbers
  <2> QED
    BY <2>1, <2>2, <2>3 DEF GapBounded
<1> QED
  BY <1>1, <1>2, <1>3, PTL DEF Spec

=============================================================================
