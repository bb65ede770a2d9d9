------------------------------- MODULE Drain -------------------------------
(***************************************************************************)
(* drainResults of src/cmd/descry/main.go: the only reader of the runner's *)
(* Results.  It counts the failures, shows every skip to the metrics and   *)
(* prints skips to stderr, at most one line per window.  One action is one *)
(* iteration of its loop; time passes between two of them.  Its clock is   *)
(* time.Now, whose readings are compared by their monotonic part, so it    *)
(* does not go back when the wall clock is set.  Module Telemetry puts the *)
(* channel and the runner before it.                                       *)
(*                                                                         *)
(* An operator marked "Variant" is a plausible bug of its neighbour.       *)
(***************************************************************************)
EXTENDS Integers, FiniteSetsExt

CONSTANTS
    Targets,
    URL,         \* Target.URL; two entries of the config may share one
    Interval,    \* Target.Interval; 0 for the runner's default
    Default,     \* the runner's default interval
    Start,       \* the clock at the start
    MaxElapsed,  \* bound on the time that passes
    MaxResults   \* bound on the Results

ASSUME DrainAssumption ==
    /\ DOMAIN URL = Targets
    /\ Interval \in [Targets -> Nat]
    /\ Default \in Nat \ {0}
    /\ Start \in Nat \ {0}
    /\ {MaxElapsed, MaxResults} \subseteq Nat

URLs == {URL[t] : t \in Targets}

VARIABLES
    now,        \* the clock; 0 is the zero time.Time
    last,       \* skipState.last of each URL
    suppressed, \* skipState.suppressed
    failures,   \* the failures counter
    observed,   \* what observeSkip counted, of each kind
    \* history:
    sent,       \* Results of each kind
    skips,      \* skips of each URL
    shown,      \* skips its lines stand for
    lines       \* lines of each URL

drainVars == <<last, suppressed, failures, observed>>
histVars  == <<sent, skips, shown, lines>>

loopVars == <<drainVars, histVars, now>>

SkipKinds == {"queued", "in_flight"}

Kinds == SkipKinds \cup {"failure", "ok"}

\* What errors.Is finds: ErrSkippedQueued wraps ErrSkipped.
Chain(k) ==
    CASE k = "queued"    -> {"ErrSkippedQueued", "ErrSkipped"}
      [] k = "in_flight" -> {"ErrSkipped"}
      [] OTHER           -> {}

\* Variant: the wrapped error is looked for first.
KindOuterLast(k) == IF "ErrSkipped" \in Chain(k) THEN "in_flight" ELSE "queued"

Kind(k) == IF "ErrSkippedQueued" \in Chain(k) THEN "queued" ELSE "in_flight"

\* Variant: one window for all.
DefaultWindow(t) == Default

Window(t) == IF Interval[t] > 0 THEN Interval[t] ELSE Default

\* Variant: the zero time is a time like any other: nothing is ever silenced.
NeverSilent(t) == last[URL[t]] = 0 /\ now - last[URL[t]] < Window(t)

Silent(t) ==
    /\ last[URL[t]] # 0
    /\ now - last[URL[t]] < Window(t)
    /\ now - last[URL[t]] >= 0

-----------------------------------------------------------------------------
DrainInit ==
    /\ now = Start
    /\ last = [u \in URLs |-> 0]
    /\ suppressed = [u \in URLs |-> 0]
    /\ failures = 0
    /\ observed = [k \in SkipKinds |-> 0]
    /\ sent = [k \in Kinds |-> 0]
    /\ skips = [u \in URLs |-> 0]
    /\ shown = [u \in URLs |-> 0]
    /\ lines = [u \in URLs |-> 0]

Plus(f, x, n) == [f EXCEPT ![x] = @ + n]

\* A Result leaves the channel.
Receive(k) == sent' = Plus(sent, k, 1)

\* observeSkip comes before the rate limit.
Observe(k) == observed' = Plus(observed, Kind(k), 1)

\* A failure is counted and always printed; a success is neither.
NotASkip(k) ==
    /\ k \notin SkipKinds
    /\ Receive(k)
    /\ failures' = failures + (IF k = "failure" THEN 1 ELSE 0)
    /\ UNCHANGED <<last, suppressed, observed, skips, shown, lines, now>>

Suppress(t, k) ==
    /\ k \in SkipKinds
    /\ Receive(k) /\ Observe(k)
    /\ Silent(t)
    /\ suppressed' = Plus(suppressed, URL[t], 1)
    /\ skips' = Plus(skips, URL[t], 1)
    /\ UNCHANGED <<last, failures, shown, lines, now>>

\* Variant: the count is printed and kept.
PrintKeepsCount(t, k) ==
    /\ k \in SkipKinds
    /\ Receive(k) /\ Observe(k)
    /\ ~Silent(t)
    /\ last' = [last EXCEPT ![URL[t]] = now]
    /\ skips' = Plus(skips, URL[t], 1)
    /\ shown' = Plus(shown, URL[t], 1 + suppressed[URL[t]])
    /\ lines' = Plus(lines, URL[t], 1)
    /\ UNCHANGED <<suppressed, failures, now>>

\* The line says how many were suppressed since the one before.
PrintLine(t, k) ==
    /\ k \in SkipKinds
    /\ Receive(k) /\ Observe(k)
    /\ ~Silent(t)
    /\ last' = [last EXCEPT ![URL[t]] = now]
    /\ suppressed' = [suppressed EXCEPT ![URL[t]] = 0]
    /\ skips' = Plus(skips, URL[t], 1)
    /\ shown' = Plus(shown, URL[t], 1 + suppressed[URL[t]])
    /\ lines' = Plus(lines, URL[t], 1)
    /\ UNCHANGED <<failures, now>>

TimePasses ==
    /\ now < Start + MaxElapsed
    /\ now' = now + 1
    /\ UNCHANGED <<drainVars, histVars>>

Iteration(t, k) == NotASkip(k) \/ Suppress(t, k) \/ PrintLine(t, k)

-----------------------------------------------------------------------------
\* The interval the runner schedules a target at (runner.New).
Cadence(t) == IF Interval[t] = 0 THEN Default ELSE Interval[t]

Shortest(u) == Min({Cadence(t) : t \in {x \in Targets : URL[x] = u}})

DrainTypeOK ==
    /\ now \in Start..(Start + MaxElapsed)
    /\ last \in [URLs -> 0..(Start + MaxElapsed)]
    /\ suppressed \in [URLs -> 0..MaxResults]
    /\ failures \in 0..MaxResults
    /\ observed \in [SkipKinds -> 0..MaxResults]
    /\ sent \in [Kinds -> 0..MaxResults]
    /\ skips \in [URLs -> 0..MaxResults]
    /\ shown \in [URLs -> 0..MaxResults]
    /\ lines \in [URLs -> 0..MaxResults]

\* The metrics see every skip, printed or not, under its own kind, and the failure
\* counter no skip at all.
KindsCounted ==
    /\ \A k \in SkipKinds : observed[k] = sent[k]
    /\ failures = sent["failure"]

\* No skip is lost between the lines: the skips the lines stand for and the ones still
\* suppressed are all there were, through every window, and all of them are in the metrics, each under its kind (main.go, "with a suppressed count
\* on the next line printed", "a skip counter sees every skip").
SkipsAccountedFor ==
    /\ DrainTypeOK
    /\ KindsCounted
    /\ \A u \in URLs : skips[u] = shown[u] + suppressed[u]

\* stderr is not flooded: one line, then one for each of the shortest windows of the
\* URL's targets that passed (main.go, the reason for the rate limit).
LinesBounded ==
    \A u \in URLs : lines[u] * Shortest(u) <= now - Start + Shortest(u)

\* The lines are few and together they tell of every skip.
LinesTellAll == SkipsAccountedFor /\ LinesBounded

=============================================================================
