----------------------------- MODULE Telemetry -----------------------------
(***************************************************************************)
(* The way of a Result from the runner to the metrics: skip and the        *)
(* workers of src/runner/runner.go report it through a channel that drops  *)
(* what does not fit, the drain takes it from there (module Drain), and    *)
(* src/metrics/metrics.go exports the runner's own counters, exact, next   *)
(* to the ones the drain feeds, which are not.                             *)
(*                                                                         *)
(* A Result is a record of its target and kind; the target only matters of *)
(* a skip.  Which target is skipped, and as which kind, is module Runner's *)
(* concern; here any may be.                                               *)
(***************************************************************************)
EXTENDS Drain, Functions, Sequences

CONSTANTS
    Workers,
    Capacity  \* of Results()

ASSUME TelemetryAssumption ==
    /\ IsFiniteSet(Workers) /\ "scheduler" \notin Workers
    /\ Capacity \in Nat \ {0}

VARIABLES
    skipped,   \* Runner.Skipped()
    dropped,   \* Runner.Dropped()
    queue,     \* Results()
    reporting, \* the Result each goroutine of the runner has in reportResult
    full,      \* goroutines that found the channel full
    inHand     \* the Result of the drain's iteration

runnerVars == <<skipped, dropped, reporting, full>>

allVars == <<loopVars, runnerVars, queue, inHand>>

Reporters == Workers \cup {"scheduler"}

Nothing == [target |-> "none", kind |-> "none"]

Skips == [target : Targets, kind : SkipKinds]

Ends == [target : {"any"}, kind : Kinds \ SkipKinds]

Busy == {p \in Reporters : reporting[p] # Nothing}

\* Results there have been so far.
Reported ==
    SumFunction(sent) + dropped + Len(queue) + Cardinality(Busy)
      + (IF inHand = Nothing THEN 0 ELSE 1)

-----------------------------------------------------------------------------
TInit ==
    /\ DrainInit
    /\ skipped = 0
    /\ dropped = 0
    /\ queue = <<>>
    /\ reporting = [p \in Reporters |-> Nothing]
    /\ full = {}
    /\ inHand = Nothing

Begin(p, r) ==
    /\ Reported < MaxResults
    /\ reporting[p] = Nothing
    /\ reporting' = [reporting EXCEPT ![p] = r]

\* skip, of the scheduler.
Skip ==
    /\ \E r \in Skips : Begin("scheduler", r)
    /\ skipped' = skipped + 1
    /\ UNCHANGED <<loopVars, dropped, full, queue, inHand>>

\* The end of runOne, with the error of the check, the encoder or the sink, or none.
RunEnds(w) ==
    /\ \E r \in Ends : Begin(w, r)
    /\ UNCHANGED <<loopVars, skipped, dropped, full, queue, inHand>>

\* reportResult: into the channel, if it has room ...
Send(p) ==
    /\ p \in Busy \ full
    /\ IF Len(queue) < Capacity
       THEN /\ queue' = Append(queue, reporting[p])
            /\ reporting' = [reporting EXCEPT ![p] = Nothing]
            /\ UNCHANGED full
       ELSE /\ full' = full \cup {p}
            /\ UNCHANGED <<queue, reporting>>
    /\ UNCHANGED <<loopVars, skipped, dropped, inHand>>

\* Variant: only failures are worth a count.
DropFailure(p) ==
    /\ p \in full
    /\ dropped' = dropped + (IF reporting[p].kind = "failure" THEN 1 ELSE 0)
    /\ full' = full \ {p}
    /\ reporting' = [reporting EXCEPT ![p] = Nothing]
    /\ UNCHANGED <<loopVars, skipped, queue, inHand>>

\* ... or counted, and gone.
Drop(p) ==
    /\ p \in full
    /\ dropped' = dropped + 1
    /\ full' = full \ {p}
    /\ reporting' = [reporting EXCEPT ![p] = Nothing]
    /\ UNCHANGED <<loopVars, skipped, queue, inHand>>

\* for res := range results
Take ==
    /\ inHand = Nothing
    /\ queue # <<>>
    /\ inHand' = Head(queue)
    /\ queue' = Tail(queue)
    /\ UNCHANGED <<loopVars, runnerVars>>

Handle ==
    /\ inHand # Nothing
    /\ Iteration(inHand.target, inHand.kind)
    /\ inHand' = Nothing
    /\ UNCHANGED <<runnerVars, queue>>

Clock == TimePasses /\ UNCHANGED <<runnerVars, queue, inHand>>

TNext ==
    \/ Skip
    \/ \E w \in Workers : RunEnds(w)
    \/ \E p \in Reporters : Send(p) \/ Drop(p)
    \/ Take \/ Handle
    \/ Clock

TSpec == TInit /\ [][TNext]_allVars

\* What a scrape finds: the counter functions that metrics.New registers read the
\* runner's atomics and the drain's.  main attaches the runner (SetRunner) before Run.
Exported ==
    [skipped_slots   |-> skipped,
     dropped_results |-> dropped,
     result_errors   |-> failures,
     skips_observed  |-> observed]

-----------------------------------------------------------------------------
TTypeOK ==
    /\ DrainTypeOK
    /\ {skipped, dropped} \subseteq 0..MaxResults
    /\ queue \in Seq(Skips \cup Ends) /\ Len(queue) <= Capacity
    /\ reporting \in [Reporters -> Skips \cup Ends \cup {Nothing}]
    /\ full \subseteq Busy
    /\ inHand \in Skips \cup Ends \cup {Nothing}

InQueue(K) == Cardinality({i \in 1..Len(queue) : queue[i].kind \in K})

Underway(K) == InQueue(K) + Cardinality({p \in Busy : reporting[p].kind \in K})
                 + (IF inHand.kind \in K THEN 1 ELSE 0)

Observed == Exported.skips_observed["queued"] + Exported.skips_observed["in_flight"]

CaughtUp == queue = <<>> /\ Busy = {} /\ inHand = Nothing

\* The counters a scrape sees side by side: the skips the drain has seen are never more
\* than the runner's own count; they lag it by the Results dropped and by those still
\* under way, which are no more than the channel holds and one in each hand; and once
\* the drain has caught up only by the dropped ones (src/metrics/doc.go, Skips:
\* "skipped - observed <= dropped").
SkipsLag ==
    /\ Observed <= Exported.skipped_slots
    /\ Exported.skipped_slots - Observed <= Exported.dropped_results + Underway(SkipKinds)
    /\ Underway(SkipKinds) <= Capacity + 2
    /\ CaughtUp => Exported.skipped_slots - Observed <= Exported.dropped_results

\* No Result is lost untold, whoever drops or drains it, and no skip between the lines,
\* which are few.
ResultsTold ==
    /\ TTypeOK
    /\ LinesTellAll
    /\ SkipsLag

=============================================================================
