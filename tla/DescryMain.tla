----------------------------- MODULE DescryMain -----------------------------
(***************************************************************************)
(* The life of the descry process: run in src/cmd/descry/main.go.  Startup *)
(* stage by stage, on a configuration that is loaded and turned into       *)
(* targets as module Config has it, then the goroutines that main starts - *)
(* the drain of the results, the admin server, the watcher of the context  *)
(* - then shutdown.                                                        *)
(*                                                                         *)
(* The runner is what module Runner shows it to be: Run returns when the   *)
(* context is cancelled and no check is in flight, having closed the       *)
(* results.  The admin server is in module Admin; here it serves, fails or *)
(* is shut down.  An operator marked "Variant" is a plausible bug of its   *)
(* neighbour, kept to show which property would catch it.                  *)
(***************************************************************************)
EXTENDS Config

CONSTANTS
    Givens,      \* what the process may find: a config file and the flags --sink and
                 \* --file, as records with fields doc and flags
    MaxSignals,  \* bound on the signals
    MaxResults   \* bound on the results waiting in the channel

IsSeq(s) == s \in Seq({s[i] : i \in 1..Len(s)})

\* What decoding makes of a document: its lists are lists, its numbers numbers.
WellFormed(doc) ==
    /\ {doc.interval, doc.timeout} \subseteq Int \cup {Absent, Malformed}
    /\ doc.concurrency \in Int \cup {Absent}
    /\ IsSeq(doc.targets)
    /\ \A i \in 1..Len(doc.targets) :
        LET t == doc.targets[i]
        IN  /\ t = [url |-> t.url, interval |-> t.interval, label |-> t.label]
            /\ t.interval \in Int \cup {Absent, Malformed}
            /\ IsSeq(t.url.rest)

ASSUME DescryMainAssumption ==
    /\ MaxSignals \in Nat
    /\ MaxResults \in Nat \ {0}
    /\ \A g \in Givens : g.doc.decodes => WellFormed(g.doc)

VARIABLES
    pc,        \* where main is
    listening, \* --listen was given
    perTarget, \* --metrics-per-target
    given,     \* the config file and the flags, until they are read
    cfg,       \* the configuration, until the runner is started with it
    targets,   \* what it makes of the targets
    fileSink,  \* the sink is a file
    honest,    \* checks return when their context is cancelled
    listener,  \* the admin listener is bound
    created,   \* the events file exists
    sink,      \* "none", "open", "closed"
    handler,   \* signals are delivered to the context
    cancelled, \* ctx
    busy,      \* a check or publish of the runner is in flight
    results,   \* results waiting in the channel
    closed,    \* the results channel is closed
    drain,     \* the drain goroutine: "none", "on", "done"
    admin,     \* "none", "serving", "failing", "failed", "stopped"
    watcher,   \* "none", "waiting", "stop", "done"
    ready,     \* readyState
    code,      \* the exit code so far
    failures,  \* history: what went wrong
    signals

optVars  == <<listening, perTarget, honest, given, cfg, targets, fileSink>>
resVars  == <<listener, created, sink>>
runVars  == <<busy, results, closed>>
goVars   == <<drain, admin, watcher>>
ctxVars  == <<handler, cancelled, signals>>

vars == <<pc, optVars, resVars, runVars, goVars, ctxVars, ready, code, failures>>

Usage == {"flags", "config", "collision", "sink_settings", "encoder", "open_sink"}

Fatal == {"bind", "collector", "admin", "close_sink"}

Startup == {"flags", "config", "collision", "sink_settings", "encoder", "bind",
            "collector", "open_sink", "targets", "goroutines"}

NothingToRead == [flags |-> {}]

NoConfig == [targets |-> <<>>]

Ended == pc \in {"exited", "killed"}

-----------------------------------------------------------------------------
Init ==
    /\ pc = "flags"
    /\ listening \in BOOLEAN /\ perTarget \in BOOLEAN
    /\ honest = FALSE
    /\ given \in Givens
    /\ cfg = NoConfig
    /\ targets = <<>>
    /\ fileSink = FALSE
    /\ listener = FALSE
    /\ created = FALSE
    /\ sink = "none"
    /\ handler = FALSE
    /\ cancelled = FALSE
    /\ busy = FALSE
    /\ results = 0
    /\ closed = FALSE
    /\ drain = "none"
    /\ admin = "none"
    /\ watcher = "none"
    /\ ready = FALSE
    /\ code = 0
    /\ failures = {}
    /\ signals = 0

\* A startup stage fails: run returns c, through the deferred calls.
Fail(stage, c) ==
    /\ failures' = failures \cup {stage}
    /\ code' = c
    /\ pc' = "defers"

Pass(to) ==
    /\ pc' = to
    /\ UNCHANGED <<code, failures>>

\* -h and --version end the process with 0.
ParseFlags ==
    /\ pc = "flags"
    /\ Pass("config") \/ Pass("defers") \/ Fail("flags", 2)
    /\ UNCHANGED <<optVars, resVars, runVars, goVars, ctxVars, ready>>

\* config.Load, then the flags that override the sink.
LoadConfig ==
    /\ pc = "config"
    /\ IF Refuses(given.doc) THEN Fail("config", 2) /\ UNCHANGED cfg
       ELSE Pass("collision") /\ cfg' = Override(Loaded(given.doc), given.flags)
    /\ given' = NothingToRead
    /\ UNCHANGED <<listening, perTarget, honest, targets, fileSink, resVars, runVars, goVars,
                   ctxVars, ready>>

\* Only refused where the per-target series are served.
CheckCollisions ==
    /\ pc = "collision"
    /\ IF listening /\ perTarget /\ SharesLabel(cfg.targets)
       THEN Fail("collision", 2) ELSE Pass("sink_settings")
    /\ UNCHANGED <<optVars, resVars, runVars, goVars, ctxVars, ready>>

CheckSink ==
    /\ pc = "sink_settings"
    /\ IF ValidSink(cfg.sink, cfg.path)
       THEN Pass("encoder") /\ fileSink' = (cfg.sink = "file")
       ELSE Fail("sink_settings", 2) /\ UNCHANGED fileSink
    /\ UNCHANGED <<listening, perTarget, honest, given, cfg, targets, resVars, runVars, goVars,
                   ctxVars, ready>>

\* Variant: the file is opened to see whether it can be, then the source is checked.
CheckEncoderAfterFile ==
    /\ pc = "encoder"
    /\ IF Encodes(cfg.source) THEN Pass("bind") ELSE Fail("encoder", 2)
    /\ created' = fileSink
    /\ UNCHANGED <<listener, sink, optVars, runVars, goVars, ctxVars, ready>>

\* Before the sink is opened: Load accepts any source.
CheckEncoder ==
    /\ pc = "encoder"
    /\ IF Encodes(cfg.source) THEN Pass("bind") ELSE Fail("encoder", 2)
    /\ UNCHANGED <<optVars, resVars, runVars, goVars, ctxVars, ready>>

Bind ==
    /\ pc = "bind"
    /\ \/ Pass("collector") /\ listener' = listening
       \/ listening /\ Fail("bind", 1) /\ UNCHANGED listener
    /\ UNCHANGED <<created, sink, optVars, runVars, goVars, ctxVars, ready>>

BuildCollector ==
    /\ pc = "collector"
    /\ Pass("open_sink") \/ (listening /\ Fail("collector", 1))
    /\ UNCHANGED <<optVars, resVars, runVars, goVars, ctxVars, ready>>

\* A file that cannot be opened may still have been created (chmod failed).
OpenSink ==
    /\ pc = "open_sink"
    /\ \/ /\ Pass("targets")
          /\ sink' = "open"
          /\ created' = fileSink
       \/ /\ fileSink
          /\ Fail("open_sink", 2)
          /\ created' \in BOOLEAN
          /\ UNCHANGED sink
    /\ UNCHANGED <<listener, optVars, runVars, goVars, ctxVars, ready>>

BuildTargets ==
    /\ pc = "targets"
    /\ targets' = Built(cfg)
    /\ Pass("goroutines")
    /\ UNCHANGED <<listening, perTarget, honest, given, cfg, fileSink, resVars, runVars, goVars,
                   ctxVars, ready>>

\* The runner takes the targets; the signal handler, the drain, the admin server and
\* the watcher start.
StartGoroutines ==
    /\ pc = "goroutines"
    /\ handler' = TRUE
    /\ drain' = "on"
    /\ admin' = IF listening THEN "serving" ELSE "none"
    /\ watcher' = "waiting"
    /\ pc' = "set_ready"
    /\ cfg' = NoConfig /\ targets' = <<>>
    /\ honest' \in BOOLEAN
    /\ UNCHANGED <<cancelled, signals, listening, perTarget, given, fileSink, resVars, runVars,
                   ready, code, failures>>

SetReady ==
    /\ pc = "set_ready"
    /\ ready' = TRUE
    /\ pc' = "recheck"
    /\ UNCHANGED <<optVars, resVars, runVars, goVars, ctxVars, code, failures>>

\* Variant: the flag is set and not looked at again.
RecheckSkipped ==
    /\ pc = "recheck"
    /\ pc' = "run"
    /\ UNCHANGED <<optVars, resVars, runVars, goVars, ctxVars, ready, code,
                   failures>>

\* The watcher may have cleared the flag first.
Recheck ==
    /\ pc = "recheck"
    /\ ready' = (ready /\ ~cancelled)
    /\ pc' = "run"
    /\ UNCHANGED <<optVars, resVars, runVars, goVars, ctxVars, code, failures>>

\* r.Run(ctx) returns, with ctx.Err(): the results are closed.
RunReturns ==
    /\ pc = "run"
    /\ cancelled
    /\ ~busy
    /\ closed' = TRUE
    /\ pc' = "unready"
    /\ UNCHANGED <<busy, results, optVars, resVars, goVars, ctxVars, ready, code,
                   failures>>

Unready ==
    /\ pc = "unready"
    /\ ready' = FALSE
    /\ pc' = "await_drain"
    /\ UNCHANGED <<optVars, resVars, runVars, goVars, ctxVars, code, failures>>

\* Variant: the server goes down while the last results are still counted.
AwaitNothing ==
    /\ pc = "await_drain"
    /\ pc' = "admin"
    /\ UNCHANGED <<optVars, resVars, runVars, goVars, ctxVars, ready, code,
                   failures>>

AwaitDrain ==
    /\ pc = "await_drain"
    /\ drain = "done"
    /\ pc' = "admin"
    /\ UNCHANGED <<optVars, resVars, runVars, goVars, ctxVars, ready, code,
                   failures>>

\* Variant: the server is left to the end of the process.
ShutdownAdminNever ==
    /\ pc = "admin"
    /\ pc' = "defers"
    /\ UNCHANGED <<resVars, goVars, optVars, runVars, ctxVars, ready, code,
                   failures>>

\* adm.shutdown, then the exit code: a cancelled Run is 0, the server's error 1.
ShutdownAdmin ==
    /\ pc = "admin"
    /\ admin # "failing"
    /\ admin' = IF admin = "serving" THEN "stopped" ELSE admin
    /\ listener' = FALSE
    /\ code' = IF admin = "failed" THEN 1 ELSE 0
    /\ pc' = "defers"
    /\ UNCHANGED <<created, sink, drain, watcher, optVars, runVars, ctxVars,
                   ready, failures>>

\* Variant: a failed Close is printed and the exit code stays.
CloseQuietly ==
    /\ pc = "defers"
    /\ handler' = FALSE
    /\ cancelled' = TRUE
    /\ listener' = FALSE
    /\ \/ UNCHANGED failures
       \/ fileSink /\ sink = "open" /\ failures' = failures \cup {"close_sink"}
    /\ sink' = IF sink = "open" THEN "closed" ELSE sink
    /\ pc' = "exited"
    /\ UNCHANGED <<code, signals, created, optVars, runVars, goVars, ready>>

\* The deferred calls, last first: cancel, stop, the sink's Close (which turns 0
\* into 1 when it fails), the listener's Close.
RunDefers ==
    /\ pc = "defers"
    /\ handler' = FALSE
    /\ cancelled' = TRUE
    /\ listener' = FALSE
    /\ \/ UNCHANGED <<code, failures>>
       \/ /\ fileSink /\ sink = "open"
          /\ failures' = failures \cup {"close_sink"}
          /\ code' = IF code = 0 THEN 1 ELSE code
    /\ sink' = IF sink = "open" THEN "closed" ELSE sink
    /\ pc' = "exited"
    /\ UNCHANGED <<signals, created, optVars, runVars, goVars, ready>>

-----------------------------------------------------------------------------
(***************************************************************************)
(* The other goroutines.                                                   *)
(***************************************************************************)
CheckStarts ==
    /\ pc = "run"
    /\ ~busy /\ ~cancelled
    /\ busy' = TRUE
    /\ UNCHANGED <<pc, results, closed, optVars, resVars, goVars, ctxVars, ready,
                   code, failures>>

\* The check returns, its event is published, its Result reported or dropped.
CheckEnds ==
    /\ pc = "run"
    /\ busy
    /\ busy' = FALSE
    /\ results' = IF results < MaxResults THEN results + 1 ELSE results
    /\ UNCHANGED <<pc, closed, optVars, resVars, goVars, ctxVars, ready, code,
                   failures>>

DrainOne ==
    /\ ~Ended
    /\ drain = "on"
    /\ results > 0
    /\ results' = results - 1
    /\ UNCHANGED <<pc, busy, closed, optVars, resVars, goVars, ctxVars, ready,
                   code, failures>>

DrainEnds ==
    /\ ~Ended
    /\ drain = "on"
    /\ closed /\ results = 0
    /\ drain' = "done"
    /\ UNCHANGED <<pc, admin, watcher, optVars, resVars, runVars, ctxVars, ready,
                   code, failures>>

\* Serve returns an error of its own ...
AdminFails ==
    /\ ~Ended
    /\ admin = "serving"
    /\ admin' = "failing"
    /\ failures' = failures \cup {"admin"}
    /\ UNCHANGED <<pc, drain, watcher, optVars, resVars, runVars, ctxVars, ready,
                   code>>

\* Variant: ... which is only kept.
AdminFailsSilently ==
    /\ ~Ended
    /\ admin = "failing"
    /\ admin' = "failed"
    /\ UNCHANGED <<pc, drain, watcher, optVars, resVars, runVars, ctxVars, ready,
                   code, failures>>

\* ... which is printed at once and cancels the run.
AdminCancels ==
    /\ ~Ended
    /\ admin = "failing"
    /\ admin' = "failed"
    /\ cancelled' = TRUE
    /\ UNCHANGED <<pc, drain, watcher, handler, signals, optVars, resVars,
                   runVars, ready, code, failures>>

\* Variant: the watcher waits for Run to return.
WatcherAfterRun ==
    /\ ~Ended
    /\ watcher = "waiting"
    /\ cancelled /\ closed
    /\ ready' = FALSE
    /\ watcher' = "stop"
    /\ UNCHANGED <<pc, drain, admin, optVars, resVars, runVars, ctxVars, code,
                   failures>>

WatcherUnready ==
    /\ ~Ended
    /\ watcher = "waiting"
    /\ cancelled
    /\ ready' = FALSE
    /\ watcher' = "stop"
    /\ UNCHANGED <<pc, drain, admin, optVars, resVars, runVars, ctxVars, code,
                   failures>>

\* Variant: stop() does not wait for the context.
WatcherStopsAtOnce ==
    /\ ~Ended
    /\ watcher \in {"waiting", "stop"}
    /\ handler' = FALSE
    /\ watcher' = IF watcher = "stop" THEN "done" ELSE watcher
    /\ UNCHANGED <<pc, drain, admin, cancelled, signals, optVars, resVars,
                   runVars, ready, code, failures>>

\* stop(): from now on a signal has its default effect.
WatcherStops ==
    /\ ~Ended
    /\ watcher = "stop"
    /\ handler' = FALSE
    /\ watcher' = "done"
    /\ UNCHANGED <<pc, drain, admin, cancelled, signals, optVars, resVars,
                   runVars, ready, code, failures>>

\* SIGINT or SIGTERM: cancels the context, or kills the process.
Signal ==
    /\ ~Ended
    /\ signals < MaxSignals
    /\ signals' = signals + 1
    /\ \/ handler /\ cancelled' = TRUE /\ UNCHANGED <<pc, handler>>
       \/ ~handler /\ pc' = "killed" /\ UNCHANGED <<handler, cancelled>>
    /\ UNCHANGED <<optVars, resVars, runVars, goVars, ready, code, failures>>

Terminated == Ended /\ UNCHANGED vars

StartupStep ==
    \/ ParseFlags \/ LoadConfig \/ CheckCollisions \/ CheckSink \/ CheckEncoder
    \/ Bind \/ BuildCollector \/ OpenSink \/ BuildTargets \/ StartGoroutines

Main ==
    \/ SetReady \/ Recheck \/ RunReturns \/ Unready \/ AwaitDrain
    \/ ShutdownAdmin \/ RunDefers

Goroutines ==
    \/ DrainOne \/ DrainEnds \/ AdminCancels \/ WatcherUnready \/ WatcherStops

Next ==
    \/ StartupStep \/ Main \/ Goroutines
    \/ CheckStarts \/ CheckEnds \/ AdminFails \/ Signal
    \/ Terminated

(***************************************************************************)
(* Every goroutine that can run does: startup leaves its stages (each has  *)
(* a step, so this is the weak fairness of it), and so do the others.   *)
(* Nobody has to send a signal, nor the admin server to fail; a check ends *)
(* once cancelled if it is honest.                                         *)
(***************************************************************************)
Fairness ==
    /\ []<>(pc \notin Startup)
    /\ WF_vars(Main)
    /\ WF_vars(DrainOne \/ DrainEnds)
    /\ WF_vars(AdminCancels)
    /\ WF_vars(WatcherUnready \/ WatcherStops)
    /\ WF_vars(honest /\ CheckEnds)

Spec == Init /\ [][Next]_vars

FairSpec == Spec /\ Fairness

-----------------------------------------------------------------------------
TypeOK ==
    /\ pc \in Startup \cup {"set_ready", "recheck", "run", "unready", "await_drain",
                            "admin", "defers", "exited", "killed"}
    /\ listening \in BOOLEAN /\ perTarget \in BOOLEAN /\ fileSink \in BOOLEAN
    /\ honest \in BOOLEAN /\ listener \in BOOLEAN /\ created \in BOOLEAN
    /\ handler \in BOOLEAN /\ cancelled \in BOOLEAN /\ busy \in BOOLEAN
    /\ closed \in BOOLEAN /\ ready \in BOOLEAN
    /\ sink \in {"none", "open", "closed"}
    /\ results \in 0..MaxResults
    /\ drain \in {"none", "on", "done"}
    /\ admin \in {"none", "serving", "failing", "failed", "stopped"}
    /\ watcher \in {"none", "waiting", "stop", "done"}
    /\ code \in 0..2
    /\ failures \subseteq Usage \cup Fatal
    /\ signals \in 0..MaxSignals

\* /readyz says ready only while Run is about to run or running, and once the
\* watcher has seen the cancellation it does not, whichever of the two goroutines
\* wrote the flag last (main.go, the re-check after ready.set(true)).
ReadyWhileRunning ==
    /\ TypeOK
    /\ ready => pc \in {"recheck", "run", "unready", "killed"}
    /\ ready /\ watcher \in {"stop", "done"} => pc = "recheck" \/ Ended

\* Every label that is shown is safe, whatever the URL of the target (main.go, eventURL).
LabelsAreSafe ==
    pc = "goroutines" =>
        \A i \in 1..Len(targets) :
            /\ LabelIsSafe(targets[i].url)
            /\ targets[i].subject.kind # "verbatim" => targets[i].subject = Label(targets[i].url)

\* What the runner is started with is what it was promised: positive defaults, which
\* runner.New panics without, no effective interval below the floor, a sink that can be
\* opened, and where per-target series are served no two targets of one series
\* (config.go, MinInterval; main.go, checkLabelCollisions).
TargetsFit ==
    pc = "goroutines" =>
        /\ cfg.interval >= MinInterval /\ cfg.timeout > 0 /\ cfg.concurrency > 0
        /\ Len(targets) > 0
        /\ \A i \in 1..Len(targets) : Effective(targets[i], cfg) >= MinInterval
        /\ fileSink => cfg.path # ""
        /\ listening /\ perTarget =>
            \A i, j \in 1..Len(targets) :
                Label(targets[i].url) = Label(targets[j].url) => i = j

\* No publish, no Result and no request is left when the sink is closed.
SinkClosesLast ==
    sink = "closed" /\ closed =>
        ~busy /\ drain = "done" /\ admin \notin {"serving", "failing"}

\* The admin server outlives the drain.
CountsBeforeServerStops == admin = "stopped" => drain = "done" /\ results = 0

\* The sink is closed after the last publish, after the drain and after the admin
\* server, and the server only after the drain has counted every Result, so a scrape
\* can still see the last counts (main.go, the comment on shutdown above run).
ShutdownOrder == SinkClosesLast /\ CountsBeforeServerStops

\* The exit code names the worst failure.
ExitCodeTells ==
    code = IF failures \cap Usage # {} THEN 2
           ELSE IF failures # {} THEN 1 ELSE 0

\* A start that fails before the sink creates no events file.
NoFileLeftBehind ==
    failures \cap ((Usage \ {"open_sink"}) \cup {"bind", "collector"}) # {} => ~created

\* What the process leaves behind: an exit code that tells what went wrong - 2 for
\* usage and configuration, 1 for a failure at run time, 0 for neither - and no events
\* file where the start failed before the sink (main.go, the table above run).
ExitTellsAll == pc = "exited" => ExitCodeTells /\ NoFileLeftBehind

\* A signal, or a failure of the admin server, ends the process, unless a check
\* ignores its context (main.go, run).
EndsWhenTold == honest /\ (cancelled \/ admin = "failing") ~> Ended

\* Once the context is cancelled, by a signal or a failure of the admin server, signals
\* get their default effect back before long, which is to kill, also while Run waits on a
\* check that ignores its context; and no signal has it before: the first one after the
\* handler is set only asks for a shutdown (main.go, the watcher).
SecondSignalKills ==
    /\ cancelled /\ pc \notin Startup ~> ~handler \/ Ended
    /\ [][watcher # "none" /\ pc' = "killed" => cancelled]_vars

=============================================================================
