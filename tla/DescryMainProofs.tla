-------------------------- MODULE DescryMainProofs --------------------------
(***************************************************************************)
(* Theorems of DescryMain, for every set of configurations, flags and      *)
(* URLs, and every number of signals and of results in the channel.        *)
(***************************************************************************)
EXTENDS DescryMain, FiniteSetTheorems, SequenceTheorems, WellFoundedInduction, TLAPS

\* Run has not returned.
BeforeReturn == Startup \cup {"set_ready", "recheck", "run"}

\* Where main is bounds what the other goroutines can be doing.
Goroutined ==
    /\ pc \in Startup => drain = "none" /\ admin = "none" /\ watcher = "none"
    /\ busy => pc \in {"run", "killed"}
    /\ closed => pc \notin BeforeReturn /\ ~busy
    /\ pc \in {"unready", "await_drain", "admin"} => closed
    /\ drain = "done" => closed /\ results = 0
    /\ pc = "admin" => drain = "done"
    /\ pc \in {"defers", "exited"} => admin \notin {"serving", "failing"}
    /\ pc \in {"defers", "exited"} /\ closed => drain = "done"
    /\ admin = "stopped" => pc \in {"defers", "exited", "killed"} /\ drain = "done"
    /\ sink = "closed" => pc = "exited"
    /\ pc \in Startup \ {"targets", "goroutines"} => sink = "none" /\ ~created

\* The ready flag is written by main and by the watcher.
Flagged ==
    /\ ready => pc \in {"recheck", "run", "unready", "killed"}
    /\ watcher \in {"stop", "done"} => cancelled
    /\ ready /\ watcher \in {"stop", "done"} => pc = "recheck" \/ Ended

\* Until the deferred calls, only the admin server has failed, and the exit code says
\* nothing of it yet.
Told ==
    /\ pc \in Startup => failures = {} /\ code = 0
    /\ pc \notin Startup \cup {"defers", "exited", "killed"} =>
        /\ code = 0
        /\ failures = IF admin \in {"failing", "failed"} THEN {"admin"} ELSE {}
    /\ pc \in {"defers", "exited"} => ExitCodeTells /\ NoFileLeftBehind

LifeInv == TypeOK /\ Goroutined /\ Flagged /\ Told

-----------------------------------------------------------------------------
(***************************************************************************)
(* What startup knows of the configuration after each stage.               *)
(***************************************************************************)
Configured == Startup \ {"flags", "config"}

Checked == Configured \ {"collision"}

Settled == Checked \ {"sink_settings"}

ConfigInv ==
    /\ pc \in {"flags", "config"} => given \in Givens
    /\ pc \in Configured =>
        \E g \in Givens : ~Refuses(g.doc) /\ cfg = Override(Loaded(g.doc), g.flags)
    /\ pc \in Checked /\ listening /\ perTarget => ~SharesLabel(cfg.targets)
    /\ pc \in Settled => ValidSink(cfg.sink, cfg.path) /\ fileSink = (cfg.sink = "file")
    /\ pc = "goroutines" => targets = Built(cfg)

-----------------------------------------------------------------------------
(***************************************************************************)
(* The life of the process.                                                *)
(***************************************************************************)
Booleans ==
    /\ listening \in BOOLEAN /\ perTarget \in BOOLEAN /\ fileSink \in BOOLEAN
    /\ honest \in BOOLEAN /\ listener \in BOOLEAN /\ created \in BOOLEAN
    /\ handler \in BOOLEAN /\ cancelled \in BOOLEAN /\ busy \in BOOLEAN
    /\ closed \in BOOLEAN /\ ready \in BOOLEAN

\* The bounds are numbers.
LEMMA Bounds == MaxSignals \in Nat /\ MaxResults \in Nat \ {0}
BY DescryMainAssumption

\* A process begins with the flags, and nothing running.
LEMMA LifeInitially == Init => LifeInv
<1> SUFFICES ASSUME Init PROVE LifeInv
  OBVIOUS
<1> USE Bounds DEF Init, Startup
<1>1. TypeOK
  <2>1. Booleans
    BY DEF Booleans
  <2>2. pc \in Startup /\ results \in 0..MaxResults /\ signals \in 0..MaxSignals
    OBVIOUS
  <2>3. code \in 0..2 /\ failures \subseteq Usage \cup Fatal
    OBVIOUS
  <2> QED
    BY <2>1, <2>2, <2>3 DEF TypeOK, Booleans
<1>2. Goroutined
  BY DEF Goroutined, BeforeReturn
<1>3. Flagged
  BY DEF Flagged
<1>4. Told
  BY DEF Told
<1> QED
  BY <1>1, <1>2, <1>3, <1>4 DEF LifeInv

\* The types, action by action.
LEMMA TypesStep == TypeOK /\ [Next]_vars => TypeOK'
<1> SUFFICES ASSUME TypeOK, [Next]_vars PROVE TypeOK'
  OBVIOUS
<1> USE Bounds
<1> USE DEF Startup, Usage, Fatal, vars, optVars, resVars, runVars, goVars, ctxVars
<1>0. Booleans
  BY DEF TypeOK, Booleans
<1>1. CASE StartupStep
  <2> USE <1>1 DEF StartupStep, ParseFlags, LoadConfig, CheckCollisions, CheckSink, CheckEncoder,
                   Bind, BuildCollector, OpenSink, BuildTargets, StartGoroutines, Fail, Pass
  <2>1. Booleans'
    <3>1. UNCHANGED <<listening, perTarget, cancelled, busy, closed, ready>>
      OBVIOUS
    <3>2. (listener \in BOOLEAN /\ created \in BOOLEAN)'
      BY <1>0 DEF Booleans
    <3>3. (fileSink \in BOOLEAN)'
      BY <1>0 DEF Booleans
    <3>4. (handler \in BOOLEAN /\ honest \in BOOLEAN)'
      BY <1>0 DEF Booleans
    <3> QED
      BY <1>0, <3>1, <3>2, <3>3, <3>4 DEF Booleans
  <2>2. (pc \in Startup \cup {"set_ready", "defers"})' /\ UNCHANGED <<results, signals>>
    OBVIOUS
  <2>3. (sink \in {"none", "open", "closed"} /\ code \in 0..2)'
    BY DEF TypeOK
  <2>4. (failures \subseteq Usage \cup Fatal)'
    BY DEF TypeOK
  <2>5. (/\ drain \in {"none", "on", "done"}
         /\ admin \in {"none", "serving", "failing", "failed", "stopped"}
         /\ watcher \in {"none", "waiting", "stop", "done"})'
    BY <1>0 DEF TypeOK, Booleans
  <2> QED
    BY <2>1, <2>2, <2>3, <2>4, <2>5 DEF TypeOK, Booleans
<1>2. CASE Main
  <2> USE <1>2 DEF Main, SetReady, Recheck, RunReturns, Unready, AwaitDrain, ShutdownAdmin, RunDefers
  <2>1. Booleans'
    <3>1. UNCHANGED <<listening, perTarget, fileSink, honest, created, busy>>
      OBVIOUS
    <3>2. (listener \in BOOLEAN /\ handler \in BOOLEAN)'
      BY <1>0 DEF Booleans
    <3>3. (cancelled \in BOOLEAN /\ closed \in BOOLEAN)'
      BY <1>0 DEF Booleans
    <3>4. (ready \in BOOLEAN)'
      BY <1>0 DEF Booleans
    <3> QED
      BY <1>0, <3>1, <3>2, <3>3, <3>4 DEF Booleans
  <2>2. (pc \in {"recheck", "run", "unready", "await_drain", "admin", "defers", "exited"})'
    OBVIOUS
  <2>3. UNCHANGED <<results, drain, watcher, signals>>
    OBVIOUS
  <2>4. (sink \in {"none", "open", "closed"})' /\ (code \in 0..2)'
    BY DEF TypeOK
  <2>5. (failures \subseteq Usage \cup Fatal)'
    BY DEF TypeOK
  <2>6. (admin \in {"none", "serving", "failing", "failed", "stopped"})'
    BY DEF TypeOK
  <2> QED
    BY <2>1, <2>2, <2>3, <2>4, <2>5, <2>6 DEF TypeOK, Booleans
<1>3. CASE Goroutines \/ CheckStarts \/ CheckEnds \/ AdminFails \/ Signal
  <2> USE <1>3 DEF Goroutines, DrainOne, DrainEnds, AdminCancels, WatcherUnready, WatcherStops,
                   CheckStarts, CheckEnds, AdminFails, Signal
  <2>1. Booleans'
    <3>1. UNCHANGED <<listening, perTarget, fileSink, honest, listener, created, closed>>
      OBVIOUS
    <3>2. (busy \in BOOLEAN /\ handler \in BOOLEAN)'
      BY <1>0 DEF Booleans
    <3>3. (cancelled \in BOOLEAN /\ ready \in BOOLEAN)'
      BY <1>0 DEF Booleans
    <3> QED
      BY <1>0, <3>1, <3>2, <3>3 DEF Booleans
  <2>2. pc' \in {pc, "killed"} /\ UNCHANGED <<sink, code>>
    OBVIOUS
  <2>3. (results \in 0..MaxResults)' /\ (signals \in 0..MaxSignals)'
    BY DEF TypeOK
  <2>4. (/\ drain \in {"none", "on", "done"}
         /\ failures \subseteq Usage \cup Fatal
         /\ admin \in {"none", "serving", "failing", "failed", "stopped"}
         /\ watcher \in {"none", "waiting", "stop", "done"})'
    BY DEF TypeOK
  <2> QED
    BY <2>1, <2>2, <2>3, <2>4 DEF TypeOK, Booleans
<1>4. CASE UNCHANGED vars
  BY <1>4 DEF TypeOK
<1> QED
  BY <1>1, <1>2, <1>3, <1>4 DEF Next, Terminated

\* No goroutine outruns what main has reached.
LEMMA GoroutinedStep == LifeInv /\ [Next]_vars => Goroutined'
<1> SUFFICES ASSUME LifeInv, [Next]_vars PROVE Goroutined'
  OBVIOUS
<1> USE Bounds
<1> USE DEF Startup, BeforeReturn, vars, optVars, resVars, runVars, goVars, ctxVars, Ended
<1>0. Goroutined /\ results \in Nat
  BY DEF LifeInv, TypeOK
<1>1. CASE StartupStep
  BY <1>0, <1>1 DEF StartupStep, ParseFlags, LoadConfig, CheckCollisions, CheckSink, CheckEncoder,
       Bind, BuildCollector, OpenSink, BuildTargets, StartGoroutines, Fail, Pass, Goroutined
<1>2. CASE Main
  BY <1>0, <1>2 DEF Main, SetReady, Recheck, RunReturns, Unready, AwaitDrain, ShutdownAdmin,
       RunDefers, Goroutined
<1>3. CASE Goroutines \/ CheckStarts \/ CheckEnds \/ AdminFails \/ Signal
  BY <1>0, <1>3 DEF Goroutines, DrainOne, DrainEnds, AdminCancels, WatcherUnready, WatcherStops,
       CheckStarts, CheckEnds, AdminFails, Signal, Goroutined
<1>4. CASE UNCHANGED vars
  BY <1>0, <1>4 DEF Goroutined
<1> QED
  BY <1>1, <1>2, <1>3, <1>4 DEF Next, Terminated

\* Each write of the ready flag, by main or by the watcher.
LEMMA FlaggedStep == LifeInv /\ [Next]_vars => Flagged'
<1> SUFFICES ASSUME LifeInv, [Next]_vars PROVE Flagged'
  OBVIOUS
<1> USE DEF Startup, vars, optVars, resVars, runVars, goVars, ctxVars, Ended
<1>0. Flagged /\ Goroutined
  BY DEF LifeInv
<1>1. CASE StartupStep
  BY <1>0, <1>1 DEF StartupStep, ParseFlags, LoadConfig, CheckCollisions, CheckSink, CheckEncoder,
       Bind, BuildCollector, OpenSink, BuildTargets, StartGoroutines, Fail, Pass, Flagged, Goroutined
<1>2. CASE Recheck
  <2>1. pc' = "run" /\ watcher' = watcher /\ cancelled' = cancelled
    BY <1>2 DEF Recheck
  <2>2. ready' => ready /\ ~cancelled
    BY <1>2 DEF Recheck
  <2> QED
    BY <1>0, <2>1, <2>2 DEF Flagged
<1>3. CASE Main /\ ~Recheck
  BY <1>0, <1>3 DEF Main, SetReady, RunReturns, Unready, AwaitDrain, ShutdownAdmin, RunDefers,
       Flagged
<1>4. CASE Goroutines \/ CheckStarts \/ CheckEnds \/ AdminFails \/ Signal
  BY <1>0, <1>4 DEF Goroutines, DrainOne, DrainEnds, AdminCancels, WatcherUnready, WatcherStops,
       CheckStarts, CheckEnds, AdminFails, Signal, Flagged
<1>5. CASE UNCHANGED vars
  BY <1>0, <1>5 DEF Flagged
<1> QED
  BY <1>1, <1>2, <1>3, <1>4, <1>5 DEF Next, Terminated

\* What fails is remembered until the exit code says it.
LEMMA ToldStep == LifeInv /\ [Next]_vars => Told'
<1> SUFFICES ASSUME LifeInv, [Next]_vars PROVE Told'
  OBVIOUS
<1> USE DEF Startup, vars, optVars, resVars, runVars, goVars, ctxVars, Ended,
            ExitCodeTells, NoFileLeftBehind, Usage
<1>0. Told /\ Goroutined /\ code \in 0..2
  BY DEF LifeInv, TypeOK
<1>1. CASE StartupStep
  <2>1. CASE ParseFlags \/ LoadConfig \/ CheckCollisions
    BY <1>0, <2>1 DEF ParseFlags, LoadConfig, CheckCollisions, Fail, Pass, Told, Goroutined
  <2>2. CASE CheckSink \/ CheckEncoder
    BY <1>0, <2>2 DEF CheckSink, CheckEncoder, Fail, Pass, Told, Goroutined
  <2>3. CASE Bind \/ BuildCollector
    BY <1>0, <2>3 DEF Bind, BuildCollector, Fail, Pass, Told, Goroutined
  <2>4. CASE OpenSink
    BY <1>0, <2>4 DEF OpenSink, Fail, Pass, Told, Goroutined
  <2>5. CASE BuildTargets \/ StartGoroutines
    BY <1>0, <2>5 DEF BuildTargets, StartGoroutines, Pass, Told, Goroutined
  <2> QED
    BY <1>1, <2>1, <2>2, <2>3, <2>4, <2>5 DEF StartupStep
<1>2. CASE Main
  <2>1. CASE SetReady \/ Recheck \/ RunReturns \/ Unready \/ AwaitDrain
    BY <1>0, <2>1 DEF SetReady, Recheck, RunReturns, Unready, AwaitDrain, Told
  <2>2. CASE ShutdownAdmin
    BY <1>0, <2>2 DEF ShutdownAdmin, Told
  <2>3. CASE RunDefers
    BY <1>0, <2>3 DEF RunDefers, Told
  <2> QED
    BY <1>2, <2>1, <2>2, <2>3 DEF Main
<1>3. CASE Goroutines \/ CheckStarts \/ CheckEnds \/ AdminFails \/ Signal
  BY <1>0, <1>3 DEF Goroutines, DrainOne, DrainEnds, AdminCancels, WatcherUnready, WatcherStops,
       CheckStarts, CheckEnds, AdminFails, Signal, Told, Goroutined
<1>4. CASE UNCHANGED vars
  BY <1>0, <1>4 DEF Told
<1> QED
  BY <1>1, <1>2, <1>3, <1>4 DEF Next, Terminated

\* The invariant behind the theorems about the life of the process.
LEMMA LifeInvariant == Spec => []LifeInv
<1>1. LifeInv /\ [Next]_vars => LifeInv'
  BY TypesStep, GoroutinedStep, FlaggedStep, ToldStep DEF LifeInv
<1> QED
  BY <1>1, LifeInitially, PTL DEF Spec

-----------------------------------------------------------------------------
\* Between the two goroutines that write the flag, /readyz says ready only while Run is
\* about to run or running, and not once the watcher has seen the cancellation (main.go,
\* the re-check after ready.set(true)).
THEOREM ReadyOnlyWhileRunning == Spec => []ReadyWhileRunning
<1>1. LifeInv => ReadyWhileRunning
  BY DEF LifeInv, Flagged, ReadyWhileRunning
<1> QED
  BY <1>1, LifeInvariant, PTL

\* The sink outlives the last publish, the drain and the admin server, and the server
\* the drain, however signals, the server's failure and the checks in flight interleave
\* (main.go, the comment on shutdown above run).
THEOREM ShutsDownInOrder == Spec => []ShutdownOrder
<1>1. LifeInv => ShutdownOrder
  BY DEF LifeInv, Goroutined, ShutdownOrder, SinkClosesLast, CountsBeforeServerStops
<1> QED
  BY <1>1, LifeInvariant, PTL

\* Whichever stage of startup fails, and whatever fails later, a process that exits says
\* so with its code, and leaves no events file behind when it never came to the sink
\* (main.go, the table above run).
THEOREM ExitTells == Spec => []ExitTellsAll
<1>1. LifeInv => ExitTellsAll
  BY DEF LifeInv, Told, ExitTellsAll
<1> QED
  BY <1>1, LifeInvariant, PTL

-----------------------------------------------------------------------------
(***************************************************************************)
(* From the configuration to the targets.                                  *)
(***************************************************************************)

\* A default replaces what is absent or not positive.
LEMMA Defaults ==
    ASSUME NEW field \in Int \cup {Absent}, NEW default \in Int
    PROVE  /\ OrDefault(field, default) \in Int
           /\ \/ OrDefault(field, default) = default
              \/ field \in Int /\ field > 0 /\ OrDefault(field, default) = field
BY ConfigAssumption DEF OrDefault

\* What Load accepts: an interval that is not below the floor, at the top and in each
\* target, or none.
LEMMA LoadAccepts ==
    ASSUME NEW doc, WellFormed(doc), ~Refuses(doc)
    PROVE  /\ Loaded(doc).interval \in Int /\ Loaded(doc).interval >= MinInterval
           /\ Loaded(doc).timeout \in Int /\ Loaded(doc).timeout > 0
           /\ Loaded(doc).concurrency \in Int /\ Loaded(doc).concurrency > 0
           /\ Len(doc.targets) \in Nat /\ Len(doc.targets) > 0
           /\ \A i \in 1..Len(doc.targets) :
                LET t == Loaded(doc).targets[i]
                IN  /\ t.url = doc.targets[i].url /\ t.label = doc.targets[i].label
                    /\ t.interval \in Int /\ (t.interval > 0 => t.interval >= MinInterval)
           /\ Loaded(doc).targets \in [1..Len(doc.targets) -> {Loaded(doc).targets[i] : i \in 1..Len(doc.targets)}]
<1> DEFINE n == Len(doc.targets)
<1>0. /\ MinInterval \in Nat \ {0} /\ DefaultInterval \in Nat /\ MinInterval <= DefaultInterval
      /\ DefaultTimeout \in Nat \ {0} /\ DefaultConcurrency \in Nat \ {0}
      /\ Absent \notin Int /\ Malformed \notin Int
  BY ConfigAssumption
<1>1. doc.interval \in Int \cup {Absent} /\ ~BelowFloor(doc.interval)
  BY DEF WellFormed, Refuses
<1>2. doc.timeout \in Int \cup {Absent}
  BY DEF WellFormed, Refuses
<1>3. doc.concurrency \in Int \cup {Absent}
  BY DEF WellFormed
<1>4. Loaded(doc).interval \in Int /\ Loaded(doc).interval >= MinInterval
  <2>1. Loaded(doc).interval = OrDefault(doc.interval, DefaultInterval)
    BY DEF Loaded
  <2>2. doc.interval \in Int /\ doc.interval > 0 => doc.interval >= MinInterval
    BY <1>0, <1>1 DEF BelowFloor
  <2>3. /\ Loaded(doc).interval \in Int
        /\ \/ Loaded(doc).interval = DefaultInterval
           \/ doc.interval \in Int /\ doc.interval > 0 /\ Loaded(doc).interval = doc.interval
    <3>1. DefaultInterval \in Int
      BY <1>0
    <3>2. /\ OrDefault(doc.interval, DefaultInterval) \in Int
          /\ \/ OrDefault(doc.interval, DefaultInterval) = DefaultInterval
             \/ /\ doc.interval \in Int /\ doc.interval > 0
                /\ OrDefault(doc.interval, DefaultInterval) = doc.interval
      BY <1>1, <3>1, Defaults, Zenon
    <3> QED
      BY <2>1, <3>2
  <2> QED
    BY <1>0, <2>2, <2>3
<1>5. Loaded(doc).timeout \in Int /\ Loaded(doc).timeout > 0
  BY <1>0, <1>2, Defaults DEF Loaded
<1>6. Loaded(doc).concurrency \in Int /\ Loaded(doc).concurrency > 0
  BY <1>0, <1>3, Defaults DEF Loaded
<1>7. n \in Nat /\ n > 0
  <2>1. doc.targets \in Seq({doc.targets[i] : i \in 1..n})
    BY DEF WellFormed, IsSeq
  <2>2. doc.targets # <<>>
    BY DEF Refuses
  <2> HIDE DEF n
  <2>3. n = Len(doc.targets)
    BY DEF n
  <2> QED
    BY <2>1, <2>2, <2>3
<1>8. \A i \in 1..n : Loaded(doc).targets[i] =
          [doc.targets[i] EXCEPT !.interval = OrDefault(@, 0)]
  BY DEF Loaded
<1>9. ASSUME NEW i \in 1..n
      PROVE  LET t == Loaded(doc).targets[i]
             IN  /\ t.url = doc.targets[i].url /\ t.label = doc.targets[i].label
                 /\ t.interval \in Int /\ (t.interval > 0 => t.interval >= MinInterval)
  <2> DEFINE t == doc.targets[i]
             k == OrDefault(t.interval, 0)
  <2>1. t = [url |-> t.url, interval |-> t.interval, label |-> t.label]
    BY DEF WellFormed
  <2>2. ~RefusesTarget(t)
    BY DEF Refuses
  <2>3. t.interval \in Int \cup {Absent} /\ ~BelowFloor(t.interval)
    BY <2>2 DEF WellFormed, RefusesTarget, BadInterval
  <2>4. k \in Int /\ (k > 0 => k >= MinInterval)
    <3>1. t.interval \in Int /\ t.interval > 0 => t.interval >= MinInterval
      BY <1>0, <2>3 DEF BelowFloor
    <3>2. /\ k \in Int
          /\ \/ k = 0
             \/ t.interval \in Int /\ t.interval > 0 /\ k = t.interval
      <4>1. 0 \in Int
        OBVIOUS
      <4> QED
        BY <2>3, <4>1, Defaults, Zenon
    <3> HIDE DEF k, t
    <3> QED
      BY <1>0, <3>1, <3>2
  <2>5. [t EXCEPT !.interval = OrDefault(@, 0)] = [url |-> t.url, interval |-> k, label |-> t.label]
    BY <2>1
  <2> QED
    BY <1>8, <2>4, <2>5
<1>10. Loaded(doc).targets \in [1..n -> {Loaded(doc).targets[i] : i \in 1..n}]
  BY DEF Loaded
<1> QED
  BY <1>4, <1>5, <1>6, <1>7, <1>9, <1>10

\* The flags change the sink and nothing else, and buildTargets keeps the order.
LEMMA BuildsTheTargets ==
    ASSUME NEW doc, NEW flags, WellFormed(doc), ~Refuses(doc),
           NEW c, c = Override(Loaded(doc), flags)
    PROVE  /\ c.interval = Loaded(doc).interval /\ c.timeout = Loaded(doc).timeout
           /\ c.concurrency = Loaded(doc).concurrency /\ c.targets = Loaded(doc).targets
           /\ Len(c.targets) = Len(doc.targets) /\ Len(Built(c)) = Len(doc.targets)
           /\ \A i \in 1..Len(doc.targets) :
                /\ Built(c)[i].url = doc.targets[i].url
                /\ Built(c)[i].interval = c.targets[i].interval
                /\ Built(c)[i].subject.kind # "verbatim" =>
                        Built(c)[i].subject = Label(doc.targets[i].url)
<1> DEFINE n == Len(doc.targets)
           ts == Loaded(doc).targets
<1>1. /\ c.interval = Loaded(doc).interval /\ c.timeout = Loaded(doc).timeout
      /\ c.concurrency = Loaded(doc).concurrency /\ c.targets = ts
  BY DEF Override, Loaded
<1>2. n \in Nat /\ n > 0
  BY LoadAccepts
<1>3. Len(ts) = n
  <2>1. ts \in [1..n -> {ts[i] : i \in 1..n}]
    BY LoadAccepts
  <2> HIDE DEF ts, n
  <2> QED
    BY <1>2, <2>1
<1>4. Built(c) = [i \in 1..n |->
          [url |-> ts[i].url, interval |-> ts[i].interval,
           subject |-> IF ts[i].label = <<>> THEN Label(ts[i].url)
                       ELSE [kind |-> "verbatim", rest |-> ts[i].label]]]
  BY <1>1, <1>3 DEF Built
<1>5. Len(Built(c)) = n
  <2> DEFINE b == Built(c)
  <2>1. b \in [1..n -> {b[i] : i \in 1..n}]
    BY <1>4
  <2> HIDE DEF b, n
  <2>2. Len(b) = n
    BY <1>2, <2>1
  <2> QED
    BY <2>2 DEF b
<1>6. ASSUME NEW i \in 1..n
      PROVE  /\ Built(c)[i].url = doc.targets[i].url
             /\ Built(c)[i].interval = c.targets[i].interval
             /\ Built(c)[i].subject.kind # "verbatim" =>
                        Built(c)[i].subject = Label(doc.targets[i].url)
  <2>1. ts[i].url = doc.targets[i].url
    BY LoadAccepts
  <2>2. CASE ts[i].label = <<>>
    BY <1>1, <1>4, <2>1, <2>2
  <2>3. CASE ts[i].label # <<>>
    BY <1>1, <1>4, <2>1, <2>3
  <2> QED
    BY <2>2, <2>3
<1> QED
  BY <1>1, <1>3, <1>5, <1>6

\* Each stage of startup adds what it has checked.
LEMMA ConfigStep == ConfigInv /\ [Next]_vars => ConfigInv'
<1> SUFFICES ASSUME ConfigInv, [Next]_vars PROVE ConfigInv'
  OBVIOUS
<1> USE DEF Startup, Configured, Checked, Settled, vars, optVars, ConfigInv
<1>1. CASE ParseFlags
  BY <1>1 DEF ParseFlags, Fail, Pass
<1>2. CASE LoadConfig
  BY <1>2 DEF LoadConfig, Fail, Pass
<1>3. CASE CheckCollisions
  BY <1>3 DEF CheckCollisions, Fail, Pass
<1>4. CASE CheckSink
  BY <1>4 DEF CheckSink, Fail, Pass
<1>5. CASE CheckEncoder \/ Bind \/ BuildCollector \/ OpenSink
  BY <1>5 DEF CheckEncoder, Bind, BuildCollector, OpenSink, Fail, Pass
<1>6. CASE BuildTargets
  BY <1>6 DEF BuildTargets, Pass
<1>7. CASE StartGoroutines
  BY <1>7 DEF StartGoroutines
<1>8. CASE Main
  BY <1>8 DEF Main, SetReady, Recheck, RunReturns, Unready, AwaitDrain, ShutdownAdmin, RunDefers
<1>9. CASE Goroutines \/ CheckStarts \/ CheckEnds \/ AdminFails \/ Signal
  BY <1>9 DEF Goroutines, DrainOne, DrainEnds, AdminCancels, WatcherUnready, WatcherStops,
       CheckStarts, CheckEnds, AdminFails, Signal
<1>10. CASE UNCHANGED vars
  BY <1>10
<1> QED
  BY <1>1, <1>2, <1>3, <1>4, <1>5, <1>6, <1>7, <1>8, <1>9, <1>10 DEF Next, StartupStep, Terminated

\* The invariant behind RunnerGetsWhatFits and LabelsStaySafe.
LEMMA ConfigInvariant == Spec => []ConfigInv
<1>1. Init => ConfigInv
  BY DEF Init, ConfigInv, Startup, Configured, Checked, Settled
<1> QED
  BY <1>1, ConfigStep, PTL DEF Spec

\* Whatever the document and the flags say, what passes the stages of startup is what the
\* runner was promised: positive defaults, no effective interval below the floor, a sink
\* that can be opened, no two targets of one series (config.go, Load and MinInterval;
\* main.go, checkLabelCollisions).
THEOREM RunnerGetsWhatFits == Spec => []TargetsFit
<1>1. ASSUME ConfigInv PROVE TargetsFit
  <2> SUFFICES ASSUME pc = "goroutines"
               PROVE  /\ cfg.interval >= MinInterval /\ cfg.timeout > 0 /\ cfg.concurrency > 0
                      /\ Len(targets) > 0
                      /\ \A i \in 1..Len(targets) : Effective(targets[i], cfg) >= MinInterval
                      /\ fileSink => cfg.path # ""
                      /\ listening /\ perTarget =>
                          \A i, j \in 1..Len(targets) :
                              Label(targets[i].url) = Label(targets[j].url) => i = j
    BY DEF TargetsFit
  <2>1. PICK g \in Givens : ~Refuses(g.doc) /\ cfg = Override(Loaded(g.doc), g.flags)
    BY <1>1 DEF ConfigInv, Configured, Startup
  <2> DEFINE doc == g.doc
             n == Len(doc.targets)
  <2>2. WellFormed(doc)
    BY <2>1, DescryMainAssumption DEF Refuses
  <2>3. targets = Built(cfg)
    BY <1>1 DEF ConfigInv
  <2>4. /\ Len(targets) = n /\ Len(cfg.targets) = n /\ cfg.targets = Loaded(doc).targets
        /\ \A i \in 1..n : /\ targets[i].url = doc.targets[i].url
                           /\ targets[i].interval = cfg.targets[i].interval
    BY <2>1, <2>2, <2>3, BuildsTheTargets
  <2>5. /\ cfg.interval \in Int /\ cfg.interval >= MinInterval
        /\ cfg.timeout > 0 /\ cfg.concurrency > 0
        /\ n \in Nat /\ n > 0
    <3>1. /\ cfg.interval = Loaded(doc).interval /\ cfg.timeout = Loaded(doc).timeout
          /\ cfg.concurrency = Loaded(doc).concurrency
      BY <2>1, <2>2, BuildsTheTargets
    <3> QED
      BY <2>1, <2>2, <3>1, LoadAccepts
  <2>6. ASSUME NEW i \in 1..n PROVE Effective(targets[i], cfg) >= MinInterval
    <3>1. targets[i].interval \in Int
          /\ (targets[i].interval > 0 => targets[i].interval >= MinInterval)
      BY <2>1, <2>2, <2>4, LoadAccepts
    <3> QED
      BY <2>5, <3>1 DEF Effective
  <2>7. fileSink => cfg.path # ""
    BY <1>1 DEF ConfigInv, Settled, Checked, Configured, Startup, ValidSink
  <2>8. ASSUME listening, perTarget, NEW i \in 1..n, NEW j \in 1..n,
               Label(targets[i].url) = Label(targets[j].url)
        PROVE  i = j
    <3>1. ~SharesLabel(cfg.targets)
      BY <1>1, <2>8 DEF ConfigInv, Checked, Configured, Startup
    <3>2. \A k, l \in 1..n : k < l => Label(cfg.targets[k].url) # Label(cfg.targets[l].url)
      BY <2>4, <3>1 DEF SharesLabel
    <3>3. \A k \in 1..n : cfg.targets[k].url = targets[k].url
      BY <2>1, <2>2, <2>4, LoadAccepts
    <3>4. ~(i < j) /\ ~(j < i)
      BY <2>8, <3>2, <3>3
    <3> QED
      BY <2>5, <3>4
  <2> QED
    BY <2>4, <2>5, <2>6, <2>7, <2>8
<1> QED
  BY <1>1, ConfigInvariant, PTL

-----------------------------------------------------------------------------
(***************************************************************************)
(* What a label shows of its URL.                                          *)
(***************************************************************************)

\* A set of naturals has a least one.
LEMMA LeastNumber ==
    ASSUME NEW T \in SUBSET Nat, T # {}
    PROVE  \E x \in T : \A y \in T : x <= y
<1>1. PICK x \in T : \A y \in T : ~(<<y, x>> \in OpToRel(<, Nat))
  BY WFMin, NatLessThanWellFounded
<1>2. \A y \in T : ~(y < x)
  BY <1>1 DEF OpToRel
<1> QED
  BY <1>2

\* First finds the first occurrence of a token.
LEMMA FirstIsFirst ==
    ASSUME NEW S, NEW s \in Seq(S), NEW t, Has(s, t)
    PROVE  /\ First(s, t) \in 1..Len(s) /\ s[First(s, t)] = t
           /\ \A j \in 1..Len(s) : s[j] = t => First(s, t) <= j
<1>1. Positions(s, t) \subseteq Nat /\ Positions(s, t) # {}
  BY DEF Positions, Has
<1>2. \E i \in Positions(s, t) : \A j \in Positions(s, t) : i <= j
  BY <1>1, LeastNumber
<1>3. /\ First(s, t) \in Positions(s, t)
      /\ \A j \in Positions(s, t) : First(s, t) <= j
  BY <1>2 DEF First
<1> QED
  BY <1>3 DEF Positions

\* Cutting at a delimiter keeps a prefix, and no delimiter.
LEMMA BeforeIsPrefix ==
    ASSUME NEW S, NEW s \in Seq(S), NEW t
    PROVE  /\ Before(s, t) \in Seq(S)
           /\ Len(Before(s, t)) \in 0..Len(s)
           /\ \A i \in 1..Len(Before(s, t)) : Before(s, t)[i] = s[i]
           /\ ~Has(Before(s, t), t)
<1>1. CASE ~Has(s, t)
  BY <1>1 DEF Before
<1>2. CASE Has(s, t)
  <2> DEFINE n == First(s, t) - 1
             b == SubSeq(s, 1, n)
  <2>1. /\ n \in 0..Len(s)
        /\ \A j \in 1..n : s[j] # t
    BY <1>2, FirstIsFirst
  <2>2. Before(s, t) = b
    BY <1>2 DEF Before
  <2> HIDE DEF n
  <2>3. b \in Seq(S) /\ Len(b) = n /\ \A i \in 1..n : b[i] = s[i]
    BY <2>1, SubSeqProperties
  <2> HIDE DEF b
  <2> QED
    BY <2>1, <2>2, <2>3 DEF Has
<1> QED
  BY <1>1, <1>2

\* The authority is a prefix of the rest and the path what follows it, up to a query or
\* a fragment.
LEMMA ParseCuts ==
    ASSUME NEW S, NEW s \in Seq(S)
    PROVE  LET u == Parse(s)
           IN  /\ u.auth \in Seq(S) /\ u.path \in Seq(S)
               /\ Len(u.auth) \in Nat /\ Len(u.path) \in Nat
               /\ Len(u.auth) + Len(u.path) <= Len(s)
               /\ \A i \in 1..Len(u.auth) : u.auth[i] = s[i]
               /\ \A i \in 1..Len(u.path) : u.path[i] = s[Len(u.auth) + i]
               /\ ~Has(u.auth, "?") /\ ~Has(u.auth, "#")
               /\ ~Has(u.path, "?") /\ ~Has(u.path, "#")
<1> DEFINE cut  == Before(s, "#")
           main == Before(cut, "?")
           auth == Before(main, "/")
           path == SubSeq(main, Len(auth) + 1, Len(main))
<1>1. /\ cut \in Seq(S) /\ Len(cut) \in 0..Len(s) /\ ~Has(cut, "#")
      /\ \A i \in 1..Len(cut) : cut[i] = s[i]
  BY BeforeIsPrefix
<1> HIDE DEF cut
<1>2. /\ main \in Seq(S) /\ Len(main) \in 0..Len(cut) /\ ~Has(main, "?")
      /\ \A i \in 1..Len(main) : main[i] = cut[i]
  BY <1>1, BeforeIsPrefix
<1> HIDE DEF main
<1>3. /\ auth \in Seq(S) /\ Len(auth) \in 0..Len(main)
      /\ \A i \in 1..Len(auth) : auth[i] = main[i]
  BY <1>2, BeforeIsPrefix
<1> HIDE DEF auth
<1>4. /\ path \in Seq(S) /\ Len(path) = Len(main) - Len(auth)
      /\ \A i \in 1..Len(path) : path[i] = main[Len(auth) + i]
  <2>1. Len(auth) + 1 \in 1..Len(main) + 1 /\ Len(main) \in 0..Len(main)
    BY <1>2, <1>3
  <2>2. /\ path \in Seq(S)
        /\ Len(path) = IF Len(auth) + 1 <= Len(main) THEN Len(main) - (Len(auth) + 1) + 1 ELSE 0
        /\ \A i \in 1..Len(main) - (Len(auth) + 1) + 1 : path[i] = main[Len(auth) + 1 + i - 1]
    BY <1>2, <2>1, SubSeqProperties
  <2> HIDE DEF path
  <2> QED
    BY <1>2, <1>3, <2>1, <2>2
<1> HIDE DEF path
<1>5. \A t : ~Has(main, t) => ~Has(auth, t) /\ ~Has(path, t)
  BY <1>2, <1>3, <1>4 DEF Has
<1>6. ~Has(main, "#")
  BY <1>1, <1>2 DEF Has
<1>7. Parse(s).auth = auth /\ Parse(s).path = path
  BY DEF Parse, path, auth, main, cut
<1>8. \A i \in 1..Len(auth) : auth[i] = s[i]
  BY <1>1, <1>2, <1>3
<1>9. ASSUME NEW i \in 1..Len(path) PROVE path[i] = s[Len(auth) + i]
  <2>1. Len(auth) + i \in 1..Len(main) /\ Len(auth) + i \in 1..Len(cut)
    BY <1>1, <1>2, <1>3, <1>4
  <2>2. path[i] = main[Len(auth) + i]
    BY <1>4
  <2>3. main[Len(auth) + i] = s[Len(auth) + i]
    BY <1>1, <1>2, <2>1
  <2> QED
    BY <2>2, <2>3
<1>10. Len(auth) \in Nat /\ Len(path) \in Nat /\ Len(auth) + Len(path) <= Len(s)
  BY <1>1, <1>2, <1>3, <1>4
<1> QED
  BY <1>2, <1>3, <1>4, <1>5, <1>6, <1>7, <1>8, <1>9, <1>10

\* Where no "@" delimits anything but the userinfo, the host is the authority after the
\* only "@", or all of it.
LEMMA HostFollowsUserinfo ==
    ASSUME NEW S, NEW s \in Seq(S),
           Cardinality(Positions(s, "@")) <= IF Parse(s).user THEN 1 ELSE 0
    PROVE  \E p \in 0..Len(Parse(s).auth) :
               /\ Positions(s, "@") \subseteq {p}
               /\ Parse(s).host \in Seq(S)
               /\ Len(Parse(s).host) = Len(Parse(s).auth) - p
               /\ \A i \in 1..Len(Parse(s).host) : Parse(s).host[i] = Parse(s).auth[p + i]
<1> DEFINE auth == Parse(s).auth
           host == Parse(s).host
           at == Positions(s, "@")
<1>1. /\ auth \in Seq(S) /\ Len(auth) \in 0..Len(s)
      /\ \A i \in 1..Len(auth) : auth[i] = s[i]
  <2> DEFINE path == Parse(s).path
  <2>1. /\ auth \in Seq(S) /\ Len(auth) \in Nat /\ Len(path) \in Nat
        /\ Len(auth) + Len(path) <= Len(s)
        /\ \A i \in 1..Len(auth) : auth[i] = s[i]
    BY ParseCuts
  <2> HIDE DEF auth, path
  <2> QED
    BY <2>1
<1>2. IsFiniteSet(at) /\ at \subseteq 1..Len(s)
  <2>1. IsFiniteSet(1..Len(s))
    BY FS_Interval
  <2> QED
    BY <2>1, FS_Subset DEF Positions
<1>3. /\ Parse(s).user <=> Has(auth, "@")
      /\ host = IF Has(auth, "@") THEN SubSeq(auth, LastOf(auth, "@") + 1, Len(auth)) ELSE auth
  BY DEF Parse
<1> HIDE DEF auth, host
<1>4. CASE ~Has(auth, "@")
  <2>1. Cardinality(at) <= 0
    BY <1>3, <1>4
  <2>2. at = {}
    BY <1>2, <2>1, FS_CardinalityType, FS_EmptySet
  <2> HIDE DEF at
  <2>3. 0 \in 0..Len(auth) /\ at \subseteq {0} /\ host = auth
    BY <1>1, <1>3, <1>4, <2>2
  <2>4. /\ host \in Seq(S) /\ Len(host) = Len(auth) - 0
        /\ \A i \in 1..Len(host) : host[i] = auth[0 + i]
    BY <1>1, <2>3
  <2> QED
    BY <2>3, <2>4 DEF auth, host, at
<1>5. CASE Has(auth, "@")
  <2>1. Cardinality(at) <= 1
    BY <1>3, <1>5
  <2>2. PICK p \in 1..Len(auth) : auth[p] = "@"
    BY <1>5 DEF Has
  <2>3. p \in at
    BY <1>1, <2>2 DEF Positions
  <2>4. at = {p}
    <3>1. Cardinality(at) = 1
      BY <1>2, <2>1, <2>3, FS_CardinalityType, FS_EmptySet
    <3>2. \E x : at = {x}
      BY <1>2, <3>1, FS_Singleton
    <3> QED
      BY <2>3, <3>2
  <2>5. Positions(auth, "@") = {p}
    <3>1. \A k \in Positions(auth, "@") : k \in at
      BY <1>1 DEF Positions
    <3>2. p \in Positions(auth, "@")
      BY <2>2 DEF Positions
    <3> QED
      BY <2>4, <3>1, <3>2
  <2>6. LastOf(auth, "@") = p
    BY <2>5 DEF LastOf
  <2>7. host = SubSeq(auth, p + 1, Len(auth))
    BY <1>3, <1>5, <2>6
  <2>8. /\ host \in Seq(S)
        /\ Len(host) = IF p + 1 <= Len(auth) THEN Len(auth) - (p + 1) + 1 ELSE 0
        /\ \A i \in 1..Len(auth) - (p + 1) + 1 : host[i] = auth[p + 1 + i - 1]
    <3>1. p + 1 \in 1..Len(auth) + 1 /\ Len(auth) \in 0..Len(auth)
      BY <1>1
    <3> QED
      BY <1>1, <2>7, <3>1, SubSeqProperties
  <2>9. Len(host) = Len(auth) - p
    BY <1>1, <2>8
  <2>10. ASSUME NEW i \in 1..Len(host) PROVE host[i] = auth[p + i]
    <3>1. i \in 1..Len(auth) - (p + 1) + 1 /\ p + 1 + i - 1 = p + i
      BY <1>1, <2>9
    <3> QED
      BY <2>8, <3>1
  <2>11. p \in 0..Len(auth) /\ at \subseteq {p}
    BY <1>1, <2>4
  <2> HIDE DEF at
  <2>12. \E q \in 0..Len(auth) :
            /\ at \subseteq {q} /\ host \in Seq(S) /\ Len(host) = Len(auth) - q
            /\ \A i \in 1..Len(host) : host[i] = auth[q + i]
    BY <2>8, <2>9, <2>10, <2>11
  <2> QED
    BY <2>12 DEF auth, host, at
<1> QED
  BY <1>4, <1>5

\* Escaping a path adds the escapes and nothing else.
LEMMA EscapedTokens ==
    ASSUME NEW S, NEW path \in Seq(S)
    PROVE  /\ EscapedPath(path) \in Seq(S \cup {"%20", "@"})
           /\ \A i \in 1..Len(EscapedPath(path)) :
                LET t == EscapedPath(path)[i]
                IN  t # "space" /\ (t \in {"%20", "@"} \/ \E k \in 1..Len(path) : t = path[k])
<1>1. CASE ~Has(path, "space")
  BY <1>1 DEF EscapedPath, Has
<1>2. CASE Has(path, "space")
  <2> DEFINE F(i) == CASE path[i] = "space" -> "%20" [] path[i] = "%40" -> "@" [] OTHER -> path[i]
             e == [i \in 1..Len(path) |-> F(i)]
  <2>1. EscapedPath(path) = e
    BY <1>2 DEF EscapedPath
  <2>2. ASSUME NEW i \in 1..Len(path)
        PROVE  F(i) # "space" /\ (F(i) \in {"%20", "@"} \/ F(i) = path[i])
    <3>1. CASE path[i] = "space"
      BY <3>1
    <3>2. CASE path[i] = "%40"
      BY <3>2
    <3>3. CASE path[i] # "space" /\ path[i] # "%40"
      BY <3>3
    <3> QED
      BY <3>1, <3>2, <3>3
  <2>3. \A i \in 1..Len(path) : e[i] = F(i)
    OBVIOUS
  <2>4. \A i \in 1..Len(path) : F(i) \in S \cup {"%20", "@"}
    BY <2>2
  <2>5. e \in [1..Len(path) -> S \cup {"%20", "@"}]
    BY <2>4
  <2> HIDE DEF e, F
  <2>6. e \in Seq(S \cup {"%20", "@"}) /\ Len(e) = Len(path)
    BY <2>5
  <2> QED
    BY <2>1, <2>2, <2>3, <2>6
<1> QED
  BY <1>1, <1>2

\* Every token of a rendering is the host's or the path's, behind the userinfo, or was put
\* there by the escaping.
LEMMA KeptTokens ==
    ASSUME NEW raw, NEW S, raw.rest \in Seq(S),
           HasHost(raw),
           Cardinality(Positions(raw.rest, "@")) <= IF Parse(raw.rest).user THEN 1 ELSE 0,
           NEW i \in 1..Len(Kept(raw).rest)
    PROVE  LET t == Kept(raw).rest[i]
           IN  \/ t \in {"%20", "@", "/"}
               \/ /\ t \notin {"?", "#", "space"}
                  /\ \E k \in 1..Len(raw.rest) :
                        t = raw.rest[k] /\ \A j \in Positions(raw.rest, "@") : j < k
<1> DEFINE s == raw.rest
           auth == Parse(s).auth
           host == Parse(s).host
           path == Parse(s).path
           shown == IF path = <<>> THEN <<"/">> ELSE path
           e == EscapedPath(shown)
           T == S \cup {"%20", "@", "/"}
           t == Kept(raw).rest[i]
           at == Positions(s, "@")
<1>1. /\ auth \in Seq(S) /\ path \in Seq(S)
      /\ Len(auth) \in Nat /\ Len(path) \in Nat
      /\ Len(auth) + Len(path) <= Len(s)
      /\ \A k \in 1..Len(auth) : auth[k] = s[k]
      /\ \A k \in 1..Len(path) : path[k] = s[Len(auth) + k]
      /\ ~Has(auth, "?") /\ ~Has(auth, "#")
      /\ ~Has(path, "?") /\ ~Has(path, "#")
  BY ParseCuts
<1>2. ~Has(auth, "space")
  BY DEF HasHost, Parses
<1>3. PICK p \in 0..Len(auth) :
         /\ at \subseteq {p}
         /\ host \in Seq(S) /\ Len(host) = Len(auth) - p
         /\ \A k \in 1..Len(host) : host[k] = auth[p + k]
  BY HostFollowsUserinfo
<1>4. Kept(raw).rest = host \o e
  BY DEF Kept
<1> HIDE DEF auth, host, path, at, e
<1>5. shown \in Seq(S \cup {"/"})
  <2>1. <<"/">> \in Seq(S \cup {"/"}) /\ path \in Seq(S \cup {"/"})
    BY <1>1
  <2> QED
    BY <2>1
<1>6. /\ e \in Seq(T)
      /\ \A k \in 1..Len(e) :
            /\ e[k] # "space"
            /\ e[k] \in {"%20", "@"} \/ \E l \in 1..Len(shown) : e[k] = shown[l]
  <2>1. e \in Seq((S \cup {"/"}) \cup {"%20", "@"})
    BY <1>5, EscapedTokens DEF e
  <2>2. (S \cup {"/"}) \cup {"%20", "@"} = T
    OBVIOUS
  <2>3. \A k \in 1..Len(e) :
            /\ e[k] # "space"
            /\ e[k] \in {"%20", "@"} \/ \E l \in 1..Len(shown) : e[k] = shown[l]
    BY <1>5, EscapedTokens DEF e
  <2> HIDE DEF T
  <2> QED
    BY <2>1, <2>2, <2>3
<1>7. host \in Seq(T)
  BY <1>3
<1> DEFINE n == Len(host)
<1>8. /\ n \in Nat /\ Len(host \o e) = n + Len(e) /\ Len(e) \in Nat
      /\ i \in 1..n => (host \o e)[i] = host[i]
      /\ i \in 1..n + Len(e) /\ i > n => (host \o e)[i] = e[i - n]
  <2> HIDE DEF T
  <2> QED
    BY <1>6, <1>7
<1>9. i \in 1..n + Len(e)
  BY <1>4, <1>8
<1>10. \A j \in at : j = p
  BY <1>3
<1>11. CASE i \in 1..n
  <2>1. p + i \in 1..Len(auth) /\ p + i \in 1..Len(s) /\ p < p + i
    BY <1>1, <1>3, <1>8, <1>11
  <2>2. t = auth[p + i]
    BY <1>3, <1>4, <1>8, <1>11
  <2>3. t = s[p + i]
    BY <1>1, <2>1, <2>2
  <2>4. t # "?" /\ t # "#" /\ t # "space"
    BY <1>1, <1>2, <2>1, <2>2 DEF Has
  <2> QED
    BY <1>10, <2>1, <2>3, <2>4 DEF at
<1>12. CASE i > n
  <2>1. i - n \in 1..Len(e) /\ t = e[i - n]
    BY <1>4, <1>8, <1>9, <1>12
  <2>2. t # "space" /\ (t \in {"%20", "@"} \/ \E l \in 1..Len(shown) : t = shown[l])
    BY <1>6, <2>1
  <2>3. CASE t \notin {"%20", "@"} /\ path # <<>>
    <3>1. PICK l \in 1..Len(path) : t = path[l]
      BY <2>2, <2>3
    <3>2. t # "?" /\ t # "#"
      BY <1>1, <3>1 DEF Has
    <3>3. Len(auth) + l \in 1..Len(s) /\ p < Len(auth) + l
      BY <1>1, <3>1
    <3>4. t = s[Len(auth) + l]
      BY <1>1, <3>1
    <3> QED
      BY <1>10, <2>2, <3>2, <3>3, <3>4 DEF at
  <2>4. CASE t \notin {"%20", "@"} /\ path = <<>>
    <3>1. PICK l \in 1..Len(<<"/">>) : t = <<"/">>[l]
      BY <2>2, <2>4
    <3> QED
      BY <3>1
  <2> QED
    BY <2>3, <2>4
<1> QED
  BY <1>8, <1>9, <1>11, <1>12

\* TargetLabel: whatever the URL, its label holds no credential that was written in
\* userinfo syntax, no "@", no query and no fragment, and is its own label.
THEOREM LabelIsAlwaysSafe ==
    ASSUME NEW raw, IsSeq(raw.rest)
    PROVE  LabelIsSafe(raw)
<1> DEFINE S == {raw.rest[i] : i \in 1..Len(raw.rest)}
<1>0. raw.rest \in Seq(S)
  BY DEF IsSeq
<1> HIDE DEF S
<1>1. ASSUME NEW r, r = Render(raw)
      PROVE  /\ SecretsAreUserinfo(raw) => ~Has(r.rest, "secret")
             /\ \A t \in {"@", "?", "#", "space"} : ~Has(r.rest, t)
  <2>1. CASE r = unparseable
    <3>1. r.rest = <<"<unparseable>">>
      BY <2>1 DEF unparseable
    <3>2. \A k \in 1..Len(r.rest) : r.rest[k] = "<unparseable>"
      BY <3>1
    <3> QED
      BY <3>2 DEF Has
  <2>2. CASE /\ r = Kept(raw) /\ HasHost(raw)
             /\ Cardinality(Positions(raw.rest, "@")) <= IF Parse(raw.rest).user THEN 1 ELSE 0
             /\ ~Has(Kept(raw).rest, "@")
    <3>1. ASSUME NEW i \in 1..Len(r.rest)
          PROVE  /\ r.rest[i] \notin {"@", "?", "#", "space"}
                 /\ SecretsAreUserinfo(raw) => r.rest[i] # "secret"
      <4> DEFINE t == r.rest[i]
      <4>1. \/ t \in {"%20", "@", "/"}
            \/ /\ t \notin {"?", "#", "space"}
               /\ \E k \in 1..Len(raw.rest) :
                     t = raw.rest[k] /\ \A j \in Positions(raw.rest, "@") : j < k
        BY <1>0, <2>2, <3>1, KeptTokens
      <4>2. t # "@"
        BY <2>2, <3>1 DEF Has
      <4> HIDE DEF t
      <4>3. ASSUME SecretsAreUserinfo(raw), t = "secret" PROVE FALSE
        <5>1. PICK k \in 1..Len(raw.rest) :
                 t = raw.rest[k] /\ \A j \in Positions(raw.rest, "@") : j < k
          BY <4>1, <4>3
        <5>2. PICK j \in Positions(raw.rest, "@") : k < j
          BY <4>3, <5>1 DEF SecretsAreUserinfo, Positions
        <5>3. j < k /\ j \in Nat
          BY <5>1, <5>2 DEF Positions
        <5> QED
          BY <5>1, <5>2, <5>3
      <4> QED
        BY <4>1, <4>2, <4>3 DEF t
    <3> QED
      BY <3>1 DEF Has
  <2> QED
    BY <1>1, <2>1, <2>2 DEF Render
<1>2. Label(unparseable) = unparseable
  BY DEF Label, Render, HasHost, unparseable
<1>3. Label(raw) = Render(raw) \/ Label(raw) = unparseable
  BY DEF Label
<1>4. Label(Label(raw)) = Label(raw)
  BY <1>2 DEF Label
<1>5. /\ SecretsAreUserinfo(raw) => ~Has(unparseable.rest, "secret")
      /\ \A t \in {"@", "?", "#", "space"} : ~Has(unparseable.rest, t)
  <2>1. \A k \in 1..Len(unparseable.rest) : unparseable.rest[k] = "<unparseable>"
    BY DEF unparseable
  <2> QED
    BY <2>1 DEF Has
<1> QED
  BY <1>1, <1>3, <1>4, <1>5 DEF LabelIsSafe

\* The labels of the metrics and the subjects of the events of every target of every
\* configuration (label.go, TargetLabel; main.go, eventURL and buildTargets).
THEOREM LabelsStaySafe == Spec => []LabelsAreSafe
<1>1. ASSUME ConfigInv PROVE LabelsAreSafe
  <2> SUFFICES ASSUME pc = "goroutines", NEW i \in 1..Len(targets)
               PROVE  /\ LabelIsSafe(targets[i].url)
                      /\ targets[i].subject.kind # "verbatim" =>
                            targets[i].subject = Label(targets[i].url)
    BY DEF LabelsAreSafe
  <2>1. PICK g \in Givens : ~Refuses(g.doc) /\ cfg = Override(Loaded(g.doc), g.flags)
    BY <1>1 DEF ConfigInv, Configured, Startup
  <2>2. WellFormed(g.doc)
    BY <2>1, DescryMainAssumption DEF Refuses
  <2>3. targets = Built(cfg)
    BY <1>1 DEF ConfigInv
  <2>4. i \in 1..Len(g.doc.targets) /\ targets[i].url = g.doc.targets[i].url
    BY <2>1, <2>2, <2>3, BuildsTheTargets
  <2>5. targets[i].subject.kind # "verbatim" => targets[i].subject = Label(targets[i].url)
    BY <2>1, <2>2, <2>3, <2>4, BuildsTheTargets
  <2>6. IsSeq(targets[i].url.rest)
    BY <2>2, <2>4 DEF WellFormed
  <2> QED
    BY <2>5, <2>6, LabelIsAlwaysSafe
<1> QED
  BY <1>1, ConfigInvariant, PTL

=============================================================================
