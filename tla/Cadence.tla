------------------------------- MODULE Cadence -------------------------------
(***************************************************************************)
(* When the targets come due: slotAfter, the heap of next fire times, the  *)
(* single re-armed timer, the re-anchor guard and the advance by whole     *)
(* intervals of schedule in src/runner/runner.go.                          *)
(*                                                                         *)
(* Two clocks disagree: next fire times are on the wall clock, which steps, *)
(* the timer runs on the monotonic clock, which does not.  A lap reads the *)
(* wall clock once and is one step here: nothing but the clock moves       *)
(* between its reading and its use, and a step of the clock there has the  *)
(* effect of the same step just after it.  Whether a slot is dispatched or *)
(* skipped does not matter to the cadence: it is fired.                    *)
(*                                                                         *)
(* Durations saturate and overflow as time.Duration does, at MaxDuration.  *)
(* An operator marked "Variant" is a plausible bug of its neighbour, kept  *)
(* to show which property would catch it.                                  *)
(***************************************************************************)
EXTENDS Integers

CONSTANTS
    Targets,
    Interval,     \* the interval of each target
    Phase,        \* FNV-1a of its URL, mod the interval
    MaxDuration,  \* math.MaxInt64 nanoseconds
    MaxWall,      \* bound on the wall clock
    MaxStep,      \* bound on the size of a step of the wall clock
    MaxEvents,    \* bound on the steps of the wall clock and the restarts together
    MaxStall      \* time that may pass between the timer and the lap it wakes

ASSUME CadenceAssumption ==
    /\ Interval \in [Targets -> Nat \ {0}]
    /\ Phase \in [Targets -> Nat]
    /\ \A t \in Targets : Phase[t] < Interval[t]
    /\ MaxDuration \in Nat
    /\ \A t \in Targets : Interval[t] <= MaxDuration /\ Interval[t] <= MaxWall
    /\ Targets # {}
    /\ MaxWall \in Nat /\ MaxStep \in Nat /\ MaxStall \in Nat
    /\ MaxEvents \in Nat

VARIABLES
    wall,       \* clock.Now()
    timer,      \* what is left of the armed timer; 0 = it has fired
    pc,         \* "lap", "armed", or "down" between two processes
    next,       \* entry.next
    stall,      \* time passed since the timer fired
    backs, forwards, restarts,  \* what has happened so far
    late,       \* history: the scheduler has been late at all
    age,        \* history: monotonic time since the target last fired
    downtime,   \* history: length of the last restart
    stepped,    \* history: size of the last backward step
    since,      \* history: monotonic time since that step
    waiting     \* history: targets that have not fired since that step

stepVars == <<backs, forwards, restarts, late, downtime, stepped, since>>

vars == <<wall, timer, pc, next, stall, stepVars, age, waiting>>

\* Variants: the phase is forgotten; the slot of this window is forgotten.
SlotUnphased(now, iv, ph) == (now - (now % iv)) + iv

SlotOfNextWindow(now, iv, ph) == (now - (now % iv)) + ph + iv

\* The first slot of (iv, ph) strictly after now.
SlotAfter(now, iv, ph) ==
    LET slot == (now - (now % iv)) + ph
    IN  IF slot > now THEN slot ELSE slot + iv

\* Time.Sub saturates, int64 multiplication wraps round.
Sub(a, b) ==
    IF a - b > MaxDuration THEN MaxDuration
    ELSE IF a - b < -MaxDuration - 1 THEN -MaxDuration - 1 ELSE a - b

Wrap(d) == ((d + MaxDuration + 1) % (2 * (MaxDuration + 1))) - (MaxDuration + 1)

\* Variant: one interval at a time.
AdvanceOnce(t, now) == next[t] + Interval[t]

\* The next fire time of a target that is due: whole intervals, else the epoch.
Advance(t, now) ==
    LET k == Sub(now, next[t]) \div Interval[t] + 1
        n == next[t] + Wrap(k * Interval[t])
    IN  IF n > now THEN n ELSE SlotAfter(now, Interval[t], Phase[t])

\* More than one interval in the future: the wall clock has stepped back.
Stale(t) == Sub(next[t], wall) > Interval[t]

\* The top of the heap.
Top(t) == \A u \in Targets : next[t] <= next[u]

Schedule == [t \in Targets |-> SlotAfter(wall, Interval[t], Phase[t])]

Longest == CHOOSE iv \in {Interval[t] : t \in Targets} :
                \A t \in Targets : Interval[t] <= iv

-----------------------------------------------------------------------------
Init ==
    /\ wall \in 0..Longest
    /\ next = Schedule
    /\ timer = 0
    /\ pc = "lap"
    /\ stall = 0
    /\ backs = 0
    /\ forwards = 0
    /\ restarts = 0
    /\ late = FALSE
    /\ age = [t \in Targets |-> 0]
    /\ downtime = 0
    /\ stepped = 0
    /\ since = 0
    /\ waiting = {}

\* Variant: the guard looks at the whole heap but moves only its top.
ReanchorTop ==
    /\ pc = "lap"
    /\ \E t \in Targets :
        /\ Top(t)
        /\ Stale(t)
        /\ next' = [next EXCEPT ![t] = SlotAfter(wall, Interval[t], Phase[t])]
    /\ UNCHANGED <<wall, timer, pc, stall, stepVars, age, waiting>>

\* The guard on the top is true: every stale entry goes back to its epoch slot.
Reanchor ==
    /\ pc = "lap"
    /\ \E t \in Targets : Top(t) /\ Stale(t)
    /\ next' = [t \in Targets |-> IF Stale(t)
                                  THEN SlotAfter(wall, Interval[t], Phase[t])
                                  ELSE next[t]]
    /\ UNCHANGED <<wall, timer, pc, stall, stepVars, age, waiting>>

\* Nothing is due: wait for the top.
Arm(t) ==
    /\ pc = "lap"
    /\ Top(t)
    /\ ~Stale(t)
    /\ next[t] > wall
    /\ timer' = Sub(next[t], wall)
    /\ pc' = "armed"
    /\ stall' = 0
    /\ UNCHANGED <<wall, next, stepVars, age, waiting>>

\* The top is due: its slot is processed and its next one computed.
Fire(t) ==
    /\ pc = "lap"
    /\ Top(t)
    /\ next[t] <= wall
    /\ next' = [next EXCEPT ![t] = Advance(t, wall)]
    /\ age' = [age EXCEPT ![t] = 0]
    /\ waiting' = waiting \ {t}
    /\ UNCHANGED <<wall, timer, pc, stall, stepVars>>

\* The timer fired, or the ack of a finished run woke the scheduler.
Wake ==
    /\ pc = "armed"
    /\ pc' = "lap"
    /\ UNCHANGED <<wall, timer, next, stall, stepVars, age, waiting>>

-----------------------------------------------------------------------------
(***************************************************************************)
(* Time.  It passes while the timer runs and while the process is down; it *)
(* passes elsewhere, at most MaxStall, when the scheduler is late.         *)
(***************************************************************************)
Older == age' = [t \in Targets |-> age[t] + 1]

Elapse ==
    /\ wall < MaxWall
    /\ wall' = wall + 1
    /\ Older
    /\ since' = IF waiting = {} THEN since ELSE since + 1
    /\ \/ /\ pc = "armed" /\ timer > 0
          /\ timer' = timer - 1
          /\ UNCHANGED <<stall, late, downtime>>
       \/ /\ pc = "lap" \/ timer = 0
          /\ pc # "down"
          /\ stall < MaxStall
          /\ stall' = stall + 1
          /\ late' = TRUE
          /\ UNCHANGED <<timer, downtime>>
       \/ /\ pc = "down"
          /\ downtime' = downtime + 1
          /\ UNCHANGED <<timer, stall, late>>
    /\ UNCHANGED <<pc, next, backs, forwards, restarts, stepped, waiting>>

Events == backs + forwards + restarts

StepBack ==
    /\ Events < MaxEvents
    /\ \E s \in 1..MaxStep :
        /\ s <= wall
        /\ wall' = wall - s
        /\ stepped' = s
    /\ backs' = backs + 1
    /\ since' = 0
    /\ waiting' = Targets
    /\ UNCHANGED <<timer, pc, next, stall, forwards, restarts, late, age, downtime>>

\* Also a host that slept: the monotonic timer did not run meanwhile.
StepForward ==
    /\ Events < MaxEvents
    /\ \E s \in 1..MaxStep :
        /\ wall + s <= MaxWall
        /\ wall' = wall + s
    /\ forwards' = forwards + 1
    /\ UNCHANGED <<timer, pc, next, stall, backs, restarts, late, age, downtime,
                   stepped, since, waiting>>

Stop ==
    /\ pc = "armed"
    /\ Events < MaxEvents
    /\ restarts' = restarts + 1
    /\ downtime' = 0
    /\ pc' = "down"
    /\ timer' = 0
    /\ UNCHANGED <<wall, next, stall, backs, forwards, late, age, stepped, since,
                   waiting>>

\* A new process computes its slots from the same epoch.
Start ==
    /\ pc = "down"
    /\ next' = Schedule
    /\ pc' = "lap"
    /\ stall' = 0
    /\ UNCHANGED <<wall, timer, stepVars, age, waiting>>

Next ==
    \/ Reanchor
    \/ \E t \in Targets : Arm(t) \/ Fire(t)
    \/ Wake
    \/ Elapse \/ StepBack \/ StepForward
    \/ Stop \/ Start

Spec == Init /\ [][Next]_vars

-----------------------------------------------------------------------------
TypeOK ==
    /\ wall \in 0..MaxWall
    /\ timer \in 0..MaxDuration
    /\ pc \in {"lap", "armed", "down"}
    /\ next \in [Targets -> Nat]
    /\ stall \in 0..MaxStall
    /\ backs \in Nat /\ forwards \in Nat /\ restarts \in Nat
    /\ Events <= MaxEvents
    /\ late \in BOOLEAN
    /\ age \in [Targets -> Nat]
    /\ downtime \in Nat
    /\ stepped \in 0..MaxStep
    /\ since \in Nat
    /\ waiting \subseteq Targets

\* Phase never drifts: whatever the clock did and however often the process was
\* restarted, a target is due on its own slots only (runner.go, "Cadence").
OnSlot ==
    /\ TypeOK
    /\ \A t \in Targets : next[t] % Interval[t] = Phase[t]

\* Every computation of a next slot lands in the future and at most one interval
\* away, after a stall of any length and when a duration saturated (runner.go,
\* schedule: one run and one reschedule, no spinning on a next in the past).
Reschedules ==
    [][\A t \in Targets :
        next'[t] # next[t] => wall < next'[t] /\ next'[t] <= wall + Interval[t]]_vars

\* While the clock does not step and the process runs, no two firings of a target
\* are more than an interval and the scheduler's own lateness apart.
SteadyCadence ==
    Events = 0 =>
        \A t \in Targets : age[t] <= Interval[t] + stall

\* A backward step of s delays a target by its interval plus min(s, the longest
\* interval) at most (runner.go, "Re-anchor guard"), if it is the only disturbance:
\* a step that finds a target overdue leaves it on top of the heap, where it hides
\* the stale ones from the guard.
BackStepBound ==
    Events = 1 /\ ~late =>
        \A t \in waiting :
            since <= Interval[t] + (IF stepped < Longest THEN stepped ELSE Longest)

\* A restart shorter than an interval leaves a gap of two intervals at most
\* (runner.go, "Cadence").
RestartGap ==
    Events = 1 /\ restarts = 1 /\ ~late /\ pc # "down" =>
        \A t \in Targets : downtime < Interval[t] => age[t] <= 2 * Interval[t]

\* How far apart two firings of a target may be, disturbance by disturbance.
GapBounded == SteadyCadence /\ BackStepBound /\ RestartGap

\* What docs/OPERATIONS.md says of a long step: every target fires within one
\* interval when the step is longer than the longest interval.
OneIntervalAfterLongStep ==
    Events = 1 /\ ~late /\ stepped > Longest => \A t \in waiting : since <= Interval[t]

=============================================================================
