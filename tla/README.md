# A TLA+ model of descry

descry probes a list of HTTP targets on a cadence, maps each outcome to a
CloudEvent and appends it to stdout or a file, one JSON line each. This directory
holds TLA+ models of its concurrent and stateful parts, TLC configurations that
check them on small instances, and proofs that TLAPS checks for every instance.
`PROJECT.json` lists the components, the runs, the source lines behind each
definition, the hazards and the theorems.

    tlc -workers 2 -config MCRunner.cfg MCRunner.tla   # a run
    tlapm RunnerProofs.tla                             # the proofs of a module

## The system

| Part | State | Operations | What is hard |
|---|---|---|---|
| Runner: scheduler and pool (`runner/runner.go`) | heap of entries; `inflight` (scheduler) and `started` (atomic) per entry; the channels `work`, `done`, `results`; two counters | `Run`, `schedule`, `skip`, `drainDone`, `finish`, `worker`, `runOne`, `reportResult` | one scheduler and many workers over bounded channels; cancellation at any point; the grace with stragglers; results dropped |
| Runner: cadence | `next` of each entry, one timer | `slotAfter`, the lap of `schedule`, the re-anchor guard | the wall clock steps, the timer's does not; stalls; restarts; saturating durations |
| Runner: drop warning | `lastDropWarn`, `dropped` | tail of `reportResult` | lock-free, several loads, a clock that steps |
| Line sinks (`sink/`) | the file, a `bufio.Writer`, `torn` | open, `Publish`, `Close` | partial writes, latched errors, crashes, another appender |
| Process life (`cmd/descry/main.go`, `run`) | the stages, the goroutines, the readiness flag, the exit code | startup, shutdown, signals | many failures in one life; the order of shutdown; a signal at any moment |
| Results drain (`drainResults`) | a window and a suppressed count per URL, the failure count | one iteration per Result | rate limit while time passes and Results are dropped; entries that share a URL |
| Admin server (`cmd/descry/admin.go`) | two semaphores, `done`, `err` | `Accept`, `Close`, `limitInFlight`, `shutdown` | a full server, clients that hang, accept errors, double closes |
| Metrics (`metrics/metrics.go`) | cache of series, counters, gauges | `record`, `series`, `tlsGauge` | workers and scrapes at once, locks of two layers |
| Target labels (`metrics/label.go`) | none | `TargetLabel`, `render` | URLs that `net/url` reads otherwise than the eye; a rendering that is not its own |
| Config and targets (`config/`, `checkLabelCollisions`, `buildTargets`) | none | `Load`, `ValidateSink`, the overrides | zero, negative, too small and absent; two targets under one label |
| Event encoder (`event/`) | none | `NewEncoder`, `Encode` | mostly the CloudEvents SDK |
| HTTP check and address guard (`checks/http/`) | an `http.Client` with its idle connections | `Run`, `classifyError`, `assertSafeURL`, the dial hook | redirects, deadlines, the body after the answer, errors that wrap each other |

How they interact: `main` builds the parts in order and starts four goroutines -
the runner (its own), the drain, the admin server, the watcher of the context. The
scheduler hands entries to the workers over `work` and gets them back over `done`;
a worker calls the check (wrapped by the collector, which records the outcome),
encodes, publishes to the sink with up to three attempts, and reports a `Result`
without ever blocking. The drain is the only reader of `Results()`; it counts
failures (the collector reads the count at scrape time) and shows skips to the
collector. A signal or a dead admin server cancels the one context, which the
scheduler, the back-off and well-behaved checks look at.

## Modules

`Module` = specification, `MC...` = its instance for TLC, `...Proofs` = theorems.
An operator marked *Variant* is not part of a specification: it is a plausible bug
of the operator it precedes, and the property that catches it is listed under
`mutants`.

**Runner** (`Runner.tla`, `MCRunner.tla`). One action per visible operation of the
scheduler or of a worker: `spc` says where the scheduler is, `wpc[w]` where a worker
is. `BeginLap`, `DrainOne`, `DrainEmpty` are `drainDone`; `DispatchDue`, `Send`,
`SendCancelled` the dispatch; `SkipDue`, `ReportSkip` the skip, with the load of
`started` and the report apart; `WaitTimer`, `WaitAck`, `WaitCancelled` the select;
`CloseWork`, `ReturnClean`, `ReturnTimeout` the end of `Run`; `Dequeue`, `Admit` or
`PassOver`, `StartCheck`, `CheckReturns`, `PublishReturns`, `BackedOff`, `ReportRun`,
`Ack` a worker. Time is left out: on every lap any entry may be due. A slot counts
when it was dispatched or skipped.

**TargetLifecycle** is the abstract specification: the idle - queued - running
diagram of the package documentation, with the blame of a skip. `Runner` implements
it (`ImplementsLifecycle`) under the mapping that reads the phase off `inflight` and
`started` - the two variables, owned by different goroutines, that the code itself
reads it from.

**Cadence** (`Cadence.tla`, `MCCadence.tla`). The wall clock, the timer (monotonic),
`next` of each target. A lap is `Reanchor`, `Arm` or `Fire`; between laps time passes
(`Elapse`), the wall clock steps, the process stops and starts. `time.Duration`
saturates and wraps at `MaxDuration`.

**DropWarn**. The lock-free tail of `reportResult`: clock, load, compare-and-swap are
separate steps of each reporter.

**LineSink**. The file is a sequence of publish numbers (one per byte) and newlines; a
step is one write call, which may fail after any prefix; crashes between calls;
`Foreign` is another process that appends.

**Delivery** (`Delivery.tla`, `MCDelivery.tla`) puts the publish loop of `runOne` over
LineSink: a record is a run's event, each of its attempts a publish of the sink with
the same bytes. `Encoded`, `Attempt`, `AttemptFails` or `AttemptSucceeds`, `BackoffOver` or
`BackoffCancelled` are a worker; `SinkStep` a write call; `Cancel` and `CloseSink` the
shutdown, which with a grace may close the sink under a worker; `ProcessDies` and
`Restart` a crash and the reopening.

**TargetLabel** and **Config** are operators, without state. A URL is its kind and a
sequence of tokens: the delimiters, escapes, a space, a credential, plain words.
`Parse`, `Parses` and `EscapedPath` are `net/url` as far as `render` relies on it.
`Refuses` and `Loaded` are `config.Load` on a decoded document, `Override` the flags,
`SharesLabel` `checkLabelCollisions`, `Built` `buildTargets`, `Encodes` `event.NewEncoder`.

**DescryMain** (`DescryMain.tla`, `MCDescryMain.tla`) EXTENDS Config: `run` from the flags
to the deferred calls. The process finds a config file and flags (`given`); a stage
passes or fails with its exit code, by what it finds where that is known
(`LoadConfig`, `CheckCollisions`, `CheckSink`, `CheckEncoder`), by choice where the
operating system decides (`Bind`, `OpenSink`); then the main goroutine, the drain, the
admin server, the watcher and signals interleave. The runner and the server are what
their own modules show: `Run` returns once cancelled and idle, `shutdown` always
returns.

**Drain** is one iteration of the loop of `drainResults`, time passing between two.
`now = 0` is the zero `time.Time`. Its clock never goes back: `main` passes `time.Now`,
whose readings `Sub` compares by their monotonic part, so that a wall clock set back
does not reach the window (`Silent` keeps the code's test for it all the same). The
wall clock matters in Cadence, where `Truncate` strips the monotonic part of `next`, and
in DropWarn, which compares `UnixNano`s. **Telemetry** (`Telemetry.tla`,
`MCTelemetry.tla`) EXTENDS it with what comes before: `skip` counts and reports, `runOne`
reports, `reportResult` sends (`Send`) or finds the channel full and drops (`Drop`), the
drain takes a Result (`Take`) and handles it (`Handle`). `Exported` is what the counter
functions of `metrics.New` show of both sides.

**HttpCheck** (`HttpCheck.tla`, `MCHttpCheck.tla`). `Check.Run` from the first look at the
URL to the closing of the body, one action per thing that can happen to the request:
a kept connection is reused (`Reuse`), a name resolved, an address dialled or refused by
`controlContext` (`Dial`), the exchange broken off, redirected (`Follow`, through
`CheckRedirect`), answered, a body that comes in pieces or not at all. Time passes and
the context may be cancelled at any of them. Servers are external and may do
anything. `classifyError` ends in a search of the error's text, so the model keeps the
words in it: those of the cause, and those of the URLs that `net/http` names - the one
under way, or the Location that `CheckRedirect` refused, or both where the Location does
not parse. `words` is the history of the latter.

**Admin**. The accept loop with its slots, a goroutine per connection, `shutdown`.
`net/http` is external and modelled as `admin.go` relies on it: `Serve` retries
temporary accept errors, `Shutdown` closes the listener and waits for `Serve` to let
go of it whatever its context says, then for the connections until the timeout.

**Collector** (`Collector.tla`, `MCCollector.tla`). `record` as the sequence of its
atomic updates, `series` with its two locks, the vecs of the Prometheus library as
maps from labels to children whose creation waits for a scrape. A run is one of a
target, a series one of a URL: two targets of one URL may be recorded at once, and may
race for its series (`Insert`) and for its tls gauge.

## Runs

Passing runs:

| Run | Module, cfg | Bounds | Shows |
|---|---|---|---|
| `runner_pool` | MCRunner, MCRunner.cfg | 2 targets, 2 workers, 2 slots each, with or without a grace | no target twice at once, channels never block, the blame is right, no false skip, each slot has one fate, clean return, implements TargetLifecycle |
| `runner_one_target` | MCRunner, MCRunnerLive.cfg | 1 target whose check may hang, 1 worker, 4 slots over a results channel of 3, fairness | losses are counted and the sums agree, dispatches are answered, shutdown completes unless a check hangs and there is no grace |
| `drop_warning` | DropWarn | 2 reporters, 4 drops, one backward step | no silent drop, forward warnings spaced |
| `cadence` | MCCadence, MCCadence.cfg | intervals 2 and 5, wall clock up to 16, durations saturate at 7, steps up to 9, any two of backward step, forward step and restart, up to 2 late | slots kept, reschedules into the next interval, steady cadence, bounds on the gap after a backward step and after a restart |
| `delivery` | MCDelivery | 2 workers, a record each, 3 attempts, buffer 3, lines of 1-3, 2 failed writes, 1 crash, 1 foreign line, with or without a grace | no record fused with a fragment, torn is known, every Result tells what is in the file, a second copy only after a failed write |
| `process_life` | MCDescryMain | every field of a config, about a thousand URLs of up to five tokens, pairs of targets, the flags; 2 signals, 2 results in the channel, honest and hanging checks, fairness | safe labels, targets fit for the runner; readiness, order of shutdown, exit code, no file left behind; a signal or a dead server ends the process; once cancelled the next signal kills a process that has not ended; while the watcher runs none does before |
| `http_check` | MCHttpCheck | 2 runs, 5 URLs, 3 kinds of address, 3 requests, a timeout of 2, bodies of 3 pieces of which 1 is kept and 1 drained, fairness | every hop is guarded, the verdict names the cause, one timeout bounds the run, the run returns |
| `telemetry` | MCTelemetry | 3 targets on 2 URLs, windows 1, 2 and 3, 4 results, 1 worker, a channel of 1, a clock of 3 | the drain's counts lag the runner's by what is dropped or under way, every skip accounted for by kind, lines bounded, also for entries that share a window |
| `admin` | Admin | 3 clients of which 2 may hang, 2 connections, 1 body, 2 accept errors, fairness | slots accounted for, held bodies bounded, nothing left open; shutdown returns, waiting clients are accepted |
| `metrics` | MCCollector | 2 workers, 2 targets of two labels, of one label or of one URL, 3 runs | gauges agree, no run lost to racing resolvers, fleet and target counters agree, tls only when seen, cached lookups go on during a scrape |

Runs that end in a violation (see Findings): `drop_warning_rate` (DropWarnDoc.cfg), `cadence_long_step` (MCCadenceDoc.cfg).

Why the bounds are enough: each is the smallest that lets the interesting case occur
twice. Two targets on two workers give every order of two runs; a second slot lets a
target be skipped, freed and dispatched again. One target is enough for a full
results channel, because its capacity is `2*1+1` and four slots exceed it. Intervals
2 and 5 with phases 1 and 3 give a stale entry under a heap top that is not stale; a
step of 9 is longer than the longest interval and than `MaxDuration`. Line lengths of
one below, at and above the room left in the buffer decide all branches of
`writeLine`. Three clients exceed two connection slots, and two that hang fill them.
Three runs let a series be created, used while another is created, and overwritten.
Two runs of the HTTP check let the second use the connection the first left. Two tokens
before and after an `@`, or three behind a host, are enough for every pair of
delimiters to change places. A channel of one is full as soon as two report.
`SYMMETRY` is used in `runner_pool` (targets and workers) and `metrics` (workers),
where nothing distinguishes the members and no liveness is checked.

Each module has one type invariant, `TypeOK`. `runner_pool` checks it by name; in the other
modules it is a conjunct of the property that relates the most variables (`OnSlot`,
`TornIsKnown`, `ReadyWhileRunning`, ...), whose definition says so.

Some properties hold under a condition that the definition states: `NoFusedRecords`
where the file is not shared or no write fails (a fragment beside another writer's
line cannot be told apart by either), the bounds of Cadence where the disturbance is
the only one, `GaugesAgree` (half of `SeriesTrue`) for labels of one target, the class
"timeout" of `VerdictTellsCause` where no URL that the error names contains the word, and
the class of a cancelled run where they contain none of `classifyError`'s words,
`ShutdownCompletes` and `EndsWhenTold` where no check hangs or the grace ends the wait.

Deadlock is checked wherever the system has an end state of its own; the runs over a
bounded clock or bounded inputs turn it off, since the system stops at the bound.

## Fairness

- *Runner*: the scheduler and the workers are goroutines, so each step they can take
  is taken (weak fairness). The cancelled branch of a select that is ready again and
  again is taken in the end (strong fairness on `WaitCancelled`; Go picks at
  random among ready cases). A call out of the program - check, publish - returns only
  where the target is not in `stuck`, which any behaviour may choose among the `Unruly`
  targets. Nothing is assumed of the consumer of results.
- *DescryMain*: goroutines run; a check ends once cancelled only if `honest`. No signal
  and no failure has to happen. For the startup this is written `[]<>(pc \notin Startup)`:
  every stage always has a step, passing or failing, and none comes back, so it says
  the same as weak fairness of `StartupStep`, and spares TLC the evaluation of its
  enabledness, which would compute a label for each pair of URLs in each state.
- *HttpCheck*: the client takes its own steps, the clock runs, and the deadline, once it
  has come, strikes. No server has to answer, and no name to resolve: `RunReturns` is
  shown from the timeout alone.
- *Admin*: `Serve` and `shutdown` run; the read, scrape and write timeouts end the
  requests of the clients that are not in `hung`, and nothing ends those of the others.

The other modules state safety only.

## Proofs

Every safety property and every action property that a passing run checks is also
proved, for every value of the constants that the `ASSUME` of its module allows. A
bound in a guard (`MaxSlots`, `MaxWall`, ...) is a constant too, so the proofs are not
about short behaviours. The exception is liveness, at the end of this section.

| Module | Theorems about | Inductive invariant |
|---|---|---|
| `RunnerProofs` | Runner, TargetLifecycle | `PoolInv`, `BlameInv`, `DrainInv`, `Accounted`, `FleetSums` |
| `CadenceProofs` | Cadence | `SlotInv`, `GapInv` |
| `DeliveryProofs` | LineSink, Delivery, DropWarn | `SinkInv` within `DeliveryInv`; `WarnInv` |
| `DescryMainProofs` | DescryMain, Config, TargetLabel | `LifeInv`, `ConfigInv` |
| `HttpCheckProofs` | HttpCheck | `HttpInv` |
| `CollectorProofs` | Collector | `SeriesInv` |
| `OperatorProofs` | Admin; Drain and Telemetry | `AdminInv`; `TelemetryInv` |
| `SumProofs` | sums over finite sets, used by three of the others | none |

All follow one plan: the initial states satisfy the invariant, each action preserves it
(a lemma for each part of the invariant, in it a step for each action that can disturb
the part), the invariant implies the property.

**Runner.** `PoolInv` is `TypeOK`, `NeverConcurrentWithItself` and three facts it needs.
`SendIsOut`: between the decision to dispatch and the send, the entry is marked in flight
and is nowhere in the pool - without it the send could duplicate an entry.
`ClosedOnReturn`: the results are closed only on return - without it a second close
would break the type of `closes`. `NoPoolYet`: before `StartPool` no worker has anything.
`NeverBlocks` follows from uniqueness by counting: a channel with as many elements as
there are targets would already hold the entry that is about to be sent (`RoomForOne`).
On top of it:

- `SkipsTrue`. `BlameIsRight` needs `FreshOnSend` (the entry about to be queued has not
  started) and `UnrunOnlyAtShutdown` (an ack without a run means cancelled), and
  uniqueness: setting `started` for one worker's entry cannot touch that of another.
  `NoFalseSkip` needs `DrainInv`, what has become of the acks that were there when the
  lap began.
- `Lifecycles`: every step of the pool is one of the diagram's or a stutter;
  `UnrunOnlyAtShutdown` allows the way from queued to idle.
- `SlotsAddUp`: send and skip open a slot, `ReportSkip`, `PassOver` and `ReportRun` settle
  it; uniqueness says that what one worker settles is not open in another place.
- `FleetAddsUp`: the sums over all targets move by one with the counter that claims to
  know them; a skip that has been counted and not yet reported is the difference.
- `ReturnsClean`, `GivesUp`, `NeverConcurrent`, `TypeCorrect`.

**Cadence.** `SlotAfterIsNextSlot` is the arithmetic of `slotAfter`: the first slot strictly
after now, by quotient and remainder. With it `StaysOnSlot` and `ReschedulesForward`
hold whatever the clock does, saturation and wrapping included: where the product
wraps, the guard of `Advance` falls back to `SlotAfter` (`AdvanceIsNextSlot`). `GapsAreBounded` has a
disjunct of `GapInv` per disturbance, for what is between two firings: `Undisturbed`,
`TooFar` and `Behind` or `Caught` (a step back; after a long one the timer first runs
out, then one lap puts every target back), `Missed` and `Restarted`.

`GapsAreBounded` assumes `Interval[t] < MaxDuration`, one nanosecond more than
`CadenceAssumption`. With an interval of exactly `MaxDuration` (292 years) TLC finds
`GapBounded` violated: `Sub` saturates at that value, so the guard's test "further away
than the interval" cannot become true.

**Delivery.** `SinkInv` says what the file looks like between two write calls: the plan
of what is left to write belongs to the publish under way (`PlanOK`), a fragment at the
end is known and ended by the next write (`FragmentsEnd`), each publish has its bytes in
the file once (`BytesOnce`), an acknowledged line is whole (`WholeLines`). `Growth` says
that a step appends nothing, a prefix of a write call, or a foreign line; every part of
the invariant is preserved by appending such. `DeliveryInv` adds the workers: a record is
in one pair of hands (`InHand`), no attempt comes after an acknowledged one (`Tries`), and
where no write fails only the last attempt has bytes in the file (`LastHasBytes`) - the
fact behind "at most one copy". `NeverFused`, `FragmentIsKnown`, `ResultsAreTrue` and
`DeliversOnce` follow. `WarnInv` adds to `NoSilentDrop` that a stamp which was read was a
warning's, and that one which has changed since means a warning meanwhile.

**DescryMain.** `Goroutined` bounds what the drain, the server and the watcher can be
doing by where main is; `Flagged` is the protocol of the ready flag between main and the
watcher, `Told` that the worst failure so far is what the exit code will say. `ConfigInv`
is what startup knows after each stage; it carries the result of `Load`, the flags and
the checks to `RunnerGetsWhatFits`. `LabelIsAlwaysSafe` is about `TargetLabel` alone, for
URLs of any length: each token of a rendering is traced back to the host, the path or the
escaping, and none of them can be a credential or a delimiter.

**HttpCheck.** `Guarded` extends the two layers of the guard to the kept connections - a
request that reuses one is guarded by the check made when it was dialled. `Clock` fixes
the deadline at the run's start; `Verdict` says that nothing has failed while the run
goes on.

**Collector.** The counters are related to the history of runs by sets: `Told(u)` is the
set of runs that have told `u`, by where their workers are (`Ahead`), and each counter is
the cardinality of such a set (`Counters`), each gauge its newest member (`GaugesTell`).
`OneEach` (a target is recorded by one worker at a time) makes the newest the last;
`Cached` is the discipline of the two locks and gives `LookupsGoOn` too. `FleetAgrees`
adds the counters up: the classes and the labels each partition the runs that were down,
and `SumOfParts` says that the sum of the parts is the whole.

**Admin.** The semaphores are cardinalities (`Counted`): a slot belongs to an open
connection or to the Accept that waits. `BacklogWaits` keeps a client from being accepted
twice, `ShutdownInOrder` says what each stage of `shutdown` has waited for.

**Telemetry.** Each Result is in the channel, with a reporter, in the drain's hand,
handled or dropped; `Counts` and `Lag` say so in sums, which every action moves from one
place to the next. The bound on the lines takes `Stamps`: the lines there were already fit
into the time before the last one's stamp, and the next comes a window later
(`LineAllowed`), which is no shorter than the shortest of the URL (`ShortestIs`).

**Sums.** `SumProofs` proves what `SumFunction` of the community modules is: it picks an
element at a time, and that such a fold exists takes an induction over the cardinality.
The library's induction theorems take an operator and cannot be used here; so a claim is
a set of naturals (or of subsets), and a least counterexample, from
`NatLessThanWellFounded`, contradicts it (`AllNaturals`, `AllSubsets`). From there on:
a sum of zeros is zero, a sum moves by what one term moves, a sum of the sizes of parts
is the size of the whole.

Assumptions on the constants that the proofs brought in: the targets, labels,
classes and clients are finite sets (the configuration is a file, `Classes` a fixed
list), the placeholders `NoEntry`, `NoWorker`, "none" are not members of the sets they
stand beside, and a document that decodes has the types of the Go struct
(`WellFormed`). TLC evaluates each of them in the runs.

Only model-checked: liveness, which is out of the prover's reach - `ShutdownCompletes`,
`DispatchIsAnswered`, `EndsWhenTold`, `SecondSignalKills`, `ShutdownReturnsAlways`,
`BacklogServed`, `RunReturns`.

## Findings

- `drop_warning_rate`: two reporters can warn twice in one interval though the clock
  never steps back, because `now` is read before `lastDropWarn`.
- `cadence_long_step`: after a backward step longer than the longest interval a target
  can take more than the one interval that `docs/OPERATIONS.md` names, because the
  timer armed before the step still runs its course.

Four further observations have no run of their own.

- The accounting identity of the package documentation (`runner.go:93`: completed runs and
  skips make up the slots processed) leaves out the slots that were queued at shutdown
  and passed over by `runOne`. `EverySlotAccountedFor` counts them as a fate of their own.
- The bound in the comment of the re-anchor guard (interval plus min(s, longest
  interval)) takes a target that is not overdue when the clock steps: one that is stays
  on top of the heap for a lap and hides the stale ones from the guard. So the part of
  `GapBounded` about it is stated for a step that is the only disturbance.
- Entries of the config that list one URL twice share the skip window and the suppressed
  count of `drainResults`, where its comment says "one per target per interval";
  `telemetry` has such a pair and shows what does hold for it.
- The last resort of `classifyError` searches `err.Error()`, and the text of a `url.Error`
  quotes the URL. A cancelled run, a redirect limit or a broken exchange against a URL
  that contains "timeout", "tls" or another of the words is classed by that word. Of a
  refused or unparseable redirect it is the Location, which the server chooses: a target
  whose own URL has no such word, redirected at the limit to one that ends in `/timeout`,
  is told as a timeout.

## Not modelled

- `RedactURL` and the text of log lines; of the two rate-limited lines the count and
  the spacing are modelled, not the wording. The warnings of `buildTargets` are left
  out for the same reason: they change nothing.
- Reading and YAML-decoding the config file, which passes or fails; `Config` starts from
  the decoded document. A duration is a number there, and the syntax of one is not looked at.
- The JSON form of an event and the validation inside the CloudEvents SDK. `Encode` is
  the step that yields a run's one event; `NewEncoder` is modelled as the test of the source.
- The registration of the metrics, `SetTargetCount` and the expiry time of a certificate
  as a value; that a gauge of it exists only once seen is modelled (`SeriesTrue`).
- The mux of the admin server, which keeps no state and routes to the handlers modelled.
- The retry that `net/http` makes by itself when a kept connection breaks before the first
  byte of the answer: it dials again through the same hook, which `EveryHopGuarded` is
  about, within the same deadline.
- `examples`, `contrib`, `docs`, the CI and the test helpers: no program logic.

External and modelled only as the code relies on them: `net/http` (server in Admin,
client in HttpCheck), `net/url` (TargetLabel), the Prometheus vecs (Collector), the
operating system's files (LineSink).

## Plan

Done: all modules above, and a theorem for every safety and action property of a passing
run.

Next, in this order:

1. A refinement for the sink: an abstract log, to which a record is appended whole or
   not at all, with the copies that `DeliveredOnce` allows; Delivery implements it.
2. The same for the drain: a meter that counts Results in one step, implemented by
   Telemetry.
3. The proofs made shorter where three of them share a lemma about sequences or finite
   sets (`TakeFirst`, `PutLast`, `OneTo`, `OneMore`).
