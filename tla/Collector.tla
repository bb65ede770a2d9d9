----------------------------- MODULE Collector -----------------------------
(***************************************************************************)
(* The metrics of src/metrics/metrics.go, updated by all workers at once   *)
(* while scrapes read them: Collector.record step by step, the cache of    *)
(* per-target series, and the locks of the Prometheus vecs, whose children *)
(* are found by label.  A gauge is modelled by the number of the run that  *)
(* wrote it last (0: none), a counter by its value.                        *)
(*                                                                         *)
(* The runner never runs a target concurrently with itself (module         *)
(* Runner), but targets are told apart by their place in the config and    *)
(* series by their URL.  main serves per-target series only for targets of *)
(* distinct labels (checkLabelCollisions); a program of its own may let    *)
(* two targets have one label, or one URL and so one cached series.  An    *)
(* operator marked "Variant" is a plausible bug of its neighbour.          *)
(***************************************************************************)
EXTENDS Naturals, Sequences, FiniteSetsExt, Functions

CONSTANTS
    Workers,
    Targets,
    URLs,
    Labels,
    Configurations, \* Target.URL of the targets, what TargetLabel makes of the URLs
    Classes,        \* error classes of the table; a custom check may report others
    MaxRuns         \* bound on the runs

NoWorker == "free"

ASSUME CollectorAssumption ==
    /\ NoWorker \notin Workers
    /\ IsFiniteSet(Labels)
    /\ Configurations \subseteq [url : [Targets -> URLs], label : [URLs -> Labels]]
    /\ IsFiniteSet(Classes) /\ "unknown" \in Classes /\ "none" \notin Classes
    /\ MaxRuns \in Nat

VARIABLES
    url,       \* Target.URL
    label,     \* TargetLabel of each URL
    perTarget, \* perTargetActive
    log,       \* history: the runs recorded, in the order record was entered
    pc,        \* where each worker is in record
    run,       \* the run it records, an index of log
    mu,        \* the worker that has c.mu for writing
    byURL,     \* URLs with a cached series
    child,     \* labels whose children exist in the vecs
    tlsCached, \* URLs whose series has resolved its tls gauge
    tlsChild,  \* labels that export a tls gauge
    gauge,     \* up, status_code, latency, last_run and tls of each label
    runs,      \* runs_total of each label and status
    duration,  \* count of the duration histogram
    errs,      \* errors_total of each class
    scraping   \* a scrape holds the vecs' locks

confVars   == <<url, label, perTarget>>
cacheVars  == <<mu, byURL, child, tlsCached, tlsChild>>
seriesVars == <<gauge, runs, duration, errs>>

vars == <<confVars, log, pc, run, cacheVars, seriesVars, scraping>>

Gauges == {"up", "status", "latency", "last", "tls"}

\* What a run of a target may come to: an error of Run, or an Observation.
Outcomes ==
    [target : Targets, url : URLs, err : {TRUE}, up : {FALSE}, class : {"none"}, tls : {FALSE}]
      \cup [target : Targets, url : URLs, err : {FALSE}, up : {TRUE}, class : {"none"},
            tls : BOOLEAN]
      \cup [target : Targets, url : URLs, err : {FALSE}, up : {FALSE},
            class : (Classes \ {"unknown"}) \cup {"custom"}, tls : BOOLEAN]

Of(w) == log[run[w]]

L(w) == label[Of(w).url]

-----------------------------------------------------------------------------
Init ==
    /\ \E c \in Configurations : url = c.url /\ label = c.label
    /\ perTarget \in BOOLEAN
    /\ log = <<>>
    /\ pc = [w \in Workers |-> "idle"]
    /\ run = [w \in Workers |-> 0]
    /\ mu = NoWorker
    /\ byURL = {} /\ child = {}
    /\ tlsCached = {} /\ tlsChild = {}
    /\ gauge = [g \in Gauges |-> [l \in Labels |-> 0]]
    /\ runs = [l \in Labels |-> [s \in {"up", "down"} |-> 0]]
    /\ duration = 0
    /\ errs = [c \in Classes |-> 0]
    /\ scraping = FALSE

Goes(w, from, to) ==
    /\ pc[w] = from
    /\ pc' = [pc EXCEPT ![w] = to]

AfterSeries(w) == IF Of(w).err THEN "count_error" ELSE "observe"

\* instrumented.Run has the outcome of the check; record begins.  No other worker is at
\* this target, but one may be at another target of its URL.
Record(w, r) ==
    /\ Len(log) < MaxRuns
    /\ r.url = url[r.target]
    /\ \A v \in Workers : pc[v] # "idle" => Of(v).target # r.target
    /\ log' = Append(log, r)
    /\ run' = [run EXCEPT ![w] = Len(log) + 1]
    /\ Goes(w, "idle", IF perTarget THEN "lookup"
                       ELSE IF r.err THEN "count_error" ELSE "observe")
    /\ UNCHANGED <<confVars, cacheVars, seriesVars, scraping>>

-----------------------------------------------------------------------------
(***************************************************************************)
(* series: the cached children of a URL.                                   *)
(***************************************************************************)
Lookup(w) ==
    /\ mu = NoWorker
    /\ Goes(w, "lookup", IF Of(w).url \in byURL THEN AfterSeries(w) ELSE "resolve")
    /\ UNCHANGED <<confVars, log, run, cacheVars, seriesVars, scraping>>

\* Variant: the children are resolved with c.mu held.
ResolveUnderLock(w) ==
    /\ UNCHANGED <<confVars, log, run, byURL, tlsCached, tlsChild, seriesVars,
                   scraping>>
    /\ \/ /\ pc[w] = "resolve" /\ mu = NoWorker
          /\ mu' = w
          /\ UNCHANGED <<pc, child>>
       \/ /\ mu = w
          /\ Goes(w, "resolve", "lock")
          /\ scraping => L(w) \in child
          /\ child' = child \cup {L(w)}
          /\ mu' = NoWorker

\* Variant: a resolver registers children of its own.
ResolveAnew(w) ==
    /\ Goes(w, "resolve", "lock")
    /\ scraping => L(w) \in child
    /\ child' = child \cup {L(w)}
    /\ runs' = [runs EXCEPT ![L(w)] = [s \in {"up", "down"} |-> 0]]
    /\ UNCHANGED <<confVars, log, run, mu, byURL, tlsCached, tlsChild, gauge,
                   duration, errs, scraping>>

\* WithLabelValues of every vec; a child that is new waits for a scrape to end.
Resolve(w) ==
    /\ Goes(w, "resolve", "lock")
    /\ scraping => L(w) \in child
    /\ child' = child \cup {L(w)}
    /\ UNCHANGED <<confVars, log, run, mu, byURL, tlsCached, tlsChild, seriesVars,
                   scraping>>

LockSeries(w) ==
    /\ mu = NoWorker
    /\ Goes(w, "lock", "insert")
    /\ mu' = w
    /\ UNCHANGED <<confVars, log, run, byURL, child, tlsCached, tlsChild, seriesVars,
                   scraping>>

\* The first series of a URL stays.  Two targets of it may both come here: the loser
\* drops its own and goes on with the other's, which has the same children.
Insert(w) ==
    /\ Goes(w, "insert", AfterSeries(w))
    /\ byURL' = byURL \cup {Of(w).url}
    /\ mu' = NoWorker
    /\ UNCHANGED <<confVars, log, run, child, tlsCached, tlsChild, seriesVars,
                   scraping>>

-----------------------------------------------------------------------------
(***************************************************************************)
(* The updates.                                                            *)
(***************************************************************************)
Set(w, g) == gauge' = [gauge EXCEPT ![g][L(w)] = run[w]]

\* A run without per-target series is over.
OrEnd(to) == IF perTarget THEN to ELSE "idle"

CountError(w) ==
    /\ Goes(w, "count_error", OrEnd("up"))
    /\ errs' = [errs EXCEPT !["unknown"] = @ + 1]
    /\ UNCHANGED <<confVars, log, run, cacheVars, gauge, runs, duration, scraping>>

Observe(w) ==
    /\ Goes(w, "observe", IF Of(w).class = "none" THEN OrEnd("up") ELSE "class")
    /\ duration' = duration + 1
    /\ UNCHANGED <<confVars, log, run, cacheVars, gauge, runs, errs, scraping>>

\* Variant: a class that is not in the table is not counted.
CountKnownClass(w) ==
    /\ Goes(w, "class", OrEnd("up"))
    /\ errs' = IF Of(w).class \in Classes THEN [errs EXCEPT ![Of(w).class] = @ + 1]
               ELSE errs
    /\ UNCHANGED <<confVars, log, run, cacheVars, gauge, runs, duration, scraping>>

\* A class that is not in the table counts as unknown.
CountClass(w) ==
    /\ Goes(w, "class", OrEnd("up"))
    /\ errs' = [errs EXCEPT ![IF Of(w).class \in Classes THEN Of(w).class
                              ELSE "unknown"] = @ + 1]
    /\ UNCHANGED <<confVars, log, run, cacheVars, gauge, runs, duration, scraping>>

SetUp(w) ==
    /\ Goes(w, "up", IF Of(w).err THEN "status" ELSE "runs")
    /\ Set(w, "up")
    /\ UNCHANGED <<confVars, log, run, cacheVars, runs, duration, errs, scraping>>

\* Of an Observation before the gauges, of an error after them.
CountRun(w) ==
    /\ Goes(w, "runs", IF Of(w).err THEN "idle" ELSE "status")
    /\ runs' = [runs EXCEPT ![L(w)][IF Of(w).up THEN "up" ELSE "down"] = @ + 1]
    /\ UNCHANGED <<confVars, log, run, cacheVars, gauge, duration, errs, scraping>>

\* Variant: an error of Run leaves the status code of the run before.
SetStatusOfObservation(w) ==
    /\ Goes(w, "status", IF Of(w).err THEN "last" ELSE "latency")
    /\ IF Of(w).err THEN UNCHANGED gauge ELSE Set(w, "status")
    /\ UNCHANGED <<confVars, log, run, cacheVars, runs, duration, errs, scraping>>

SetStatus(w) ==
    /\ Goes(w, "status", IF Of(w).err THEN "last" ELSE "latency")
    /\ Set(w, "status")
    /\ UNCHANGED <<confVars, log, run, cacheVars, runs, duration, errs, scraping>>

SetLatency(w) ==
    /\ Goes(w, "latency", "last")
    /\ Set(w, "latency")
    /\ UNCHANGED <<confVars, log, run, cacheVars, runs, duration, errs, scraping>>

SetLast(w) ==
    /\ Goes(w, "last", IF Of(w).err THEN "runs"
                       ELSE IF Of(w).tls THEN "tls" ELSE "idle")
    /\ Set(w, "last")
    /\ UNCHANGED <<confVars, log, run, cacheVars, runs, duration, errs, scraping>>

\* tlsGauge: the cached child, or the vec's, which may be new; two workers at the series
\* of a URL find the same one.
ResolveTLS(w) ==
    /\ Goes(w, "tls", "set_tls")
    /\ scraping => Of(w).url \in tlsCached \/ L(w) \in tlsChild
    /\ tlsCached' = tlsCached \cup {Of(w).url}
    /\ tlsChild' = tlsChild \cup {L(w)}
    /\ UNCHANGED <<confVars, log, run, mu, byURL, child, seriesVars, scraping>>

SetTLS(w) ==
    /\ Goes(w, "set_tls", "idle")
    /\ Set(w, "tls")
    /\ UNCHANGED <<confVars, log, run, cacheVars, runs, duration, errs, scraping>>

ScrapeBegins ==
    /\ ~scraping
    /\ scraping' = TRUE
    /\ UNCHANGED <<confVars, log, pc, run, cacheVars, seriesVars>>

ScrapeEnds ==
    /\ scraping
    /\ scraping' = FALSE
    /\ UNCHANGED <<confVars, log, pc, run, cacheVars, seriesVars>>

Step(w) ==
    \/ Lookup(w) \/ Resolve(w) \/ LockSeries(w) \/ Insert(w)
    \/ CountError(w) \/ Observe(w) \/ CountClass(w)
    \/ SetUp(w) \/ CountRun(w) \/ SetStatus(w) \/ SetLatency(w) \/ SetLast(w)
    \/ ResolveTLS(w) \/ SetTLS(w)

Next ==
    \/ \E w \in Workers : Step(w) \/ \E r \in Outcomes : Record(w, r)
    \/ ScrapeBegins \/ ScrapeEnds

Spec == Init /\ [][Next]_vars

-----------------------------------------------------------------------------
Runs == DOMAIN log

RunsOf(l) == {i \in Runs : label[log[i].url] = l}

Quiet(l) == \A w \in Workers : pc[w] # "idle" => L(w) # l

AllIdle == \A w \in Workers : pc[w] = "idle"

Unshared(l) == \A x, y \in Targets : label[url[x]] = l /\ label[url[y]] = l => x = y

Newest(I) == Max(I \cup {0})

TypeOK ==
    /\ [url |-> url, label |-> label] \in Configurations
    /\ perTarget \in BOOLEAN
    /\ log \in Seq(Outcomes) /\ Len(log) <= MaxRuns
    /\ run \in [Workers -> 0..Len(log)]
    /\ mu \in Workers \cup {NoWorker}
    /\ byURL \subseteq URLs /\ tlsCached \subseteq byURL
    /\ child \subseteq Labels /\ tlsChild \subseteq child
    /\ gauge \in [Gauges -> [Labels -> 0..Len(log)]]
    /\ runs \in [Labels -> [{"up", "down"} -> 0..Len(log)]]
    /\ duration \in 0..Len(log)
    /\ errs \in [Classes -> 0..Len(log)]
    /\ scraping \in BOOLEAN

\* Between two runs of a target its gauges all tell of the last one: the status code
\* never stays from a run before, the latency is that of the last Observation and the
\* tls expiry the last one seen (metrics.go, Check).  It takes a label of its own, and
\* main refuses targets that share one.  One that never reported an expiry exports no tls
\* series (targetSeries.tls).
GaugesAgree ==
    perTarget =>
        \A l \in Labels : Quiet(l) /\ Unshared(l) =>
            /\ \A g \in {"up", "status", "last"} : gauge[g][l] = Newest(RunsOf(l))
            /\ gauge["latency"][l] = Newest({i \in RunsOf(l) : ~log[i].err})
            /\ gauge["tls"][l] = Newest({i \in RunsOf(l) : log[i].tls})
            /\ l \in tlsChild <=> \E i \in RunsOf(l) : log[i].tls

\* No run is lost or counted twice, whoever resolved the series first: the counters of
\* a label are the runs of all its targets, those of one URL included (metrics.go,
\* series).
RunsCounted ==
    /\ TypeOK
    /\ perTarget =>
        \A l \in Labels : Quiet(l) =>
            /\ runs[l]["up"] = Cardinality({i \in RunsOf(l) : log[i].up})
            /\ runs[l]["down"] = Cardinality({i \in RunsOf(l) : ~log[i].up})

\* The series of a target tell of its runs: its gauges of the last, its counters of all.
SeriesTrue == GaugesAgree /\ RunsCounted

\* With a check that reports a class exactly when it is down, as the HTTP check does,
\* errors_total and runs_total agree, and the histogram misses only the errors of Run
\* (metrics.go, Check: "the bundled HTTP check keeps the two in step").
FleetAgreesWithTargets ==
    AllIdle =>
        LET failed == SumFunction(errs)
            down   == SumFunction([l \in Labels |-> runs[l]["down"]])
        IN  /\ failed = Cardinality({i \in Runs : ~log[i].up})
            /\ perTarget => down = failed
            /\ duration = Cardinality({i \in Runs : ~log[i].err})

\* A run of a target whose series is cached does not wait for a scrape, even while the
\* series of another target has to: whoever holds c.mu has left the vecs' locks behind
\* (metrics.go, series: "holding c.mu meanwhile would stall every cached lookup too").
CachedLookupNeverStalls ==
    scraping /\ mu # NoWorker =>
        pc[mu] = "insert" /\ L(mu) \in child

=============================================================================
