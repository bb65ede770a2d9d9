------------------------------ MODULE DropWarn ------------------------------
(***************************************************************************)
(* The rate limit of the "results channel full" warning: the lock-free end *)
(* of reportResult in src/runner/runner.go, run at once by the workers and *)
(* the scheduler.  A reporter reads the wall clock, then lastDropWarn, then *)
(* tries to replace it; the clock may move, and step back, in between.     *)
(* An operator marked "Variant" is a plausible bug of its neighbour, kept  *)
(* to show which property would catch it.                                  *)
(***************************************************************************)
EXTENDS Naturals

CONSTANTS
    Reporters,  \* the goroutines that may lose a Result
    Interval,   \* the runner's default interval, in clock units
    MaxTime,    \* bound on the wall clock
    MaxBack,    \* bound on the backward steps of the wall clock
    MaxDrops    \* bound on the lost Results

ASSUME DropWarnAssumption ==
    /\ Interval \in Nat \ {0}
    /\ MaxTime \in Nat \ {0}
    /\ MaxBack \in Nat
    /\ MaxDrops \in Nat

VARIABLES
    wall,       \* the wall clock, UnixNano
    backs,      \* backward steps so far
    lastWarn,   \* Runner.lastDropWarn; 0 = never
    dropped,    \* Runner.dropped
    pc,         \* where each reporter is in reportResult
    now,        \* its local now
    last,       \* its local last
    stamps,     \* history: the stamps of all warnings
    warned      \* history: a warning was given since the reporter dropped

warnVars == <<wall, backs, lastWarn, dropped, pc, now, last, stamps, warned>>

PCs == {"idle", "stamped", "loaded", "silent"}

WarnInit ==
    /\ wall = 1
    /\ backs = 0
    /\ lastWarn = 0
    /\ dropped = 0
    /\ pc = [r \in Reporters |-> "idle"]
    /\ now = [r \in Reporters |-> 0]
    /\ last = [r \in Reporters |-> 0]
    /\ stamps = {}
    /\ warned = [r \in Reporters |-> FALSE]

Tick ==
    /\ wall < MaxTime
    /\ wall' = wall + 1
    /\ UNCHANGED <<backs, lastWarn, dropped, pc, now, last, stamps, warned>>

StepBack ==
    /\ backs < MaxBack
    /\ backs' = backs + 1
    /\ wall' \in 1..(wall - 1)
    /\ UNCHANGED <<lastWarn, dropped, pc, now, last, stamps, warned>>

\* dropped.Add(1); now := clock.Now()
Drop(r) ==
    /\ pc[r] = "idle"
    /\ dropped < MaxDrops
    /\ dropped' = dropped + 1
    /\ now' = [now EXCEPT ![r] = wall]
    /\ warned' = [warned EXCEPT ![r] = FALSE]
    /\ pc' = [pc EXCEPT ![r] = "stamped"]
    /\ UNCHANGED <<wall, backs, lastWarn, last, stamps>>

\* last := lastDropWarn.Load()
LoadLast(r) ==
    /\ pc[r] = "stamped"
    /\ last' = [last EXCEPT ![r] = lastWarn]
    /\ pc' = [pc EXCEPT ![r] = "loaded"]
    /\ UNCHANGED <<wall, backs, lastWarn, dropped, now, stamps, warned>>

\* Variant: the clock catches up with the old stamp before it warns again.
MayWarnForwardOnly(r) == last[r] = 0 \/ now[r] >= last[r] + Interval

\* No warning yet, an interval since the last one, or the clock stepped back.
MayWarn(r) ==
    \/ last[r] = 0
    \/ now[r] >= last[r] + Interval
    \/ now[r] < last[r]

\* Variant: a plain store where the code compares and swaps.
WarnWithoutCAS(r) ==
    /\ pc[r] = "loaded"
    /\ MayWarn(r)
    /\ lastWarn' = now[r]
    /\ stamps' = stamps \cup {now[r]}
    /\ warned' = [s \in Reporters |-> TRUE]
    /\ pc' = [pc EXCEPT ![r] = "idle"]
    /\ UNCHANGED <<wall, backs, dropped, now, last>>

\* CompareAndSwap(last, now) succeeds: warn.
Warn(r) ==
    /\ pc[r] = "loaded"
    /\ MayWarn(r)
    /\ lastWarn = last[r]
    /\ lastWarn' = now[r]
    /\ stamps' = stamps \cup {now[r]}
    /\ warned' = [s \in Reporters |-> TRUE]
    /\ pc' = [pc EXCEPT ![r] = "idle"]
    /\ UNCHANGED <<wall, backs, dropped, now, last>>

StaySilent(r) ==
    /\ pc[r] = "loaded"
    /\ ~MayWarn(r) \/ lastWarn # last[r]
    /\ pc' = [pc EXCEPT ![r] = "silent"]
    /\ UNCHANGED <<wall, backs, lastWarn, dropped, now, last, stamps, warned>>

Return(r) ==
    /\ pc[r] = "silent"
    /\ pc' = [pc EXCEPT ![r] = "idle"]
    /\ UNCHANGED <<wall, backs, lastWarn, dropped, now, last, stamps, warned>>

WarnNext ==
    \/ Tick \/ StepBack
    \/ \E r \in Reporters :
        Drop(r) \/ LoadLast(r) \/ Warn(r) \/ StaySilent(r) \/ Return(r)

WarnSpec == WarnInit /\ [][WarnNext]_warnVars

-----------------------------------------------------------------------------
\* The locals and the shared stamp are clock readings.
WarnTypeOK ==
    /\ wall \in 1..MaxTime
    /\ backs \in 0..MaxBack
    /\ lastWarn \in 0..MaxTime
    /\ dropped \in 0..MaxDrops
    /\ pc \in [Reporters -> PCs]
    /\ now \in [Reporters -> 0..MaxTime]
    /\ last \in [Reporters -> 0..MaxTime]
    /\ stamps \subseteq 1..MaxTime
    /\ warned \in [Reporters -> BOOLEAN]

\* No loss goes unnoticed, also across a backward step of the clock: a drop
\* that does not warn has a warning stamped less than an interval before it, or
\* a warning was given while it was in reportResult.
NoSilentDrop ==
    /\ WarnTypeOK
    /\ \A r \in Reporters : pc[r] = "silent" =>
        warned[r] \/ \E s \in stamps : s <= now[r] /\ now[r] < s + Interval

\* The compare-and-swap keeps forward stamps apart: of the reporters that pass
\* the interval test together, one warns.
ForwardWarnsSpaced ==
    [][lastWarn # 0 /\ lastWarn' > lastWarn => lastWarn' >= lastWarn + Interval]_warnVars

\* What the comment of reportResult says: while the clock does not step back, a
\* drop is "warned at most once per runner-default interval".
WarnsOncePerInterval ==
    backs = 0 => \A s, t \in stamps : s < t => t >= s + Interval

=============================================================================
