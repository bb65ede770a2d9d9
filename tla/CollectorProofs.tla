-------------------------- MODULE CollectorProofs --------------------------
(***************************************************************************)
(* What the exported series say is true, for every set of workers,         *)
(* targets, labels and classes, every number of runs and every             *)
(* configuration, shared URLs and labels included; and no scrape holds a   *)
(* cached lookup up.                                                       *)
(***************************************************************************)
EXTENDS Collector, SumProofs

-----------------------------------------------------------------------------
(***************************************************************************)
(* The inductive invariant.                                                *)
(***************************************************************************)

Opening == {"lookup", "resolve", "lock", "insert"}

Stages == Opening \cup {"idle", "count_error", "observe", "class", "up", "runs",
                        "status", "latency", "last", "tls", "set_tls"}

\* What a run tells the metrics.
Does(r) ==
    {"up", "status", "last", "runs"}
      \cup (IF r.err THEN {} ELSE {"duration", "latency"})
      \cup (IF r.err \/ r.class # "none" THEN {"class"} ELSE {})
      \cup (IF r.tls THEN {"child", "tls"} ELSE {})

\* What a worker has yet to tell of its run.
Ahead(w, u) ==
    \/ pc[w] \in Opening \cup {"count_error", "observe"}
    \/ pc[w] = "class" /\ u # "duration"
    \/ pc[w] = "up" /\ u \notin {"duration", "class"}
    \/ pc[w] = "runs" /\ u = "runs"
    \/ pc[w] = "runs" /\ ~Of(w).err /\ u \in {"status", "latency", "last", "child", "tls"}
    \/ pc[w] = "status" /\ u \in {"status", "latency", "last", "child", "tls"}
    \/ pc[w] = "latency" /\ u \in {"latency", "last", "child", "tls"}
    \/ pc[w] = "last" /\ u \in {"last", "child", "tls"}
    \/ pc[w] \in {"status", "last"} /\ Of(w).err /\ u = "runs"
    \/ pc[w] = "tls" /\ u \in {"child", "tls"}
    \/ pc[w] = "set_tls" /\ u = "tls"

\* The runs that have told u.
Told(u) == {i \in Runs : /\ u \in Does(log[i])
                         /\ \A w \in Workers : run[w] = i => ~Ahead(w, u)}

ClassOf(r) == IF r.err \/ r.class \notin Classes THEN "unknown" ELSE r.class

ToldAs(c) == {i \in Told("class") : ClassOf(log[i]) = c}

ToldOf(u, l) == {i \in Told(u) : label[log[i].url] = l}

Counted(l, s) == {i \in ToldOf("runs", l) : log[i].up <=> s = "up"}

Basics ==
    /\ url \in [Targets -> URLs]
    /\ label \in [URLs -> Labels]
    /\ perTarget \in BOOLEAN
    /\ scraping \in BOOLEAN
    /\ log \in Seq(Outcomes)
    /\ Len(log) <= MaxRuns
    /\ pc \in [Workers -> Stages]
    /\ run \in [Workers -> 0..Len(log)]
    /\ \A w \in Workers : pc[w] # "idle" => run[w] \in Runs
    /\ [url |-> url, label |-> label] \in Configurations
    /\ \A i \in Runs : log[i].url = url[log[i].target]

\* A worker is where its outcome leads.
OnItsWay ==
    \A w \in Workers :
        /\ pc[w] \in Stages \ {"idle", "count_error", "observe", "class"} => perTarget
        /\ pc[w] = "count_error" => Of(w).err
        /\ pc[w] \in {"observe", "class", "latency", "tls", "set_tls"} => ~Of(w).err
        /\ pc[w] = "class" => Of(w).class # "none"
        /\ pc[w] \in {"tls", "set_tls"} => Of(w).tls

\* A target is recorded by one worker at a time, and that is its newest run.
OneEach ==
    \A w \in Workers : pc[w] # "idle" =>
        /\ \A v \in Workers : v # w /\ pc[v] # "idle" => Of(v).target # Of(w).target
        /\ \A i \in Runs : log[i].target = Of(w).target => i <= run[w]

\* The cached series of a URL has its children in the vecs.
Cached ==
    /\ mu \in Workers \cup {NoWorker}
    /\ byURL \subseteq URLs /\ tlsCached \subseteq byURL
    /\ child \subseteq Labels /\ tlsChild \subseteq child
    /\ \A x \in byURL : label[x] \in child
    /\ \A w \in Workers :
        /\ pc[w] = "insert" <=> mu = w
        /\ pc[w] \in {"lock", "insert"} => L(w) \in child
        /\ perTarget /\ pc[w] \in Stages \ ({"idle"} \cup Opening) => Of(w).url \in byURL

Counters ==
    /\ duration = Cardinality(Told("duration"))
    /\ errs \in [Classes -> Nat]
    /\ \A c \in Classes : errs[c] = Cardinality(ToldAs(c))
    /\ runs \in [Labels -> [{"up", "down"} -> Nat]]
    /\ \A l \in Labels, s \in {"up", "down"} :
        runs[l][s] = IF perTarget THEN Cardinality(Counted(l, s)) ELSE 0

GaugesTell ==
    /\ gauge \in [Gauges -> [Labels -> 0..Len(log)]]
    /\ perTarget =>
        /\ \A l \in Labels : Unshared(l) =>
            \A g \in Gauges : gauge[g][l] = Newest(ToldOf(g, l))
        /\ \A l \in Labels : l \in tlsChild <=> ToldOf("child", l) # {}

SeriesInv == Basics /\ OnItsWay /\ OneEach /\ Cached /\ Counters /\ GaugesTell

-----------------------------------------------------------------------------
(***************************************************************************)
(* Outcomes, maxima and counts of runs.                                    *)
(***************************************************************************)

\* The fields of an outcome.
LEMMA OutcomeType ==
    ASSUME NEW r \in Outcomes
    PROVE  /\ r.url \in URLs /\ r.target \in Targets
           /\ r.err \in BOOLEAN /\ r.up \in BOOLEAN /\ r.tls \in BOOLEAN
           /\ r.err => ~r.tls
BY DEF Outcomes

\* The newest of some runs is their greatest index.
LEMMA NewestIs ==
    ASSUME NEW I, I \subseteq Nat, NEW m \in I \cup {0}, \A y \in I : y <= m
    PROVE  Newest(I) = m
<1> DEFINE J == I \cup {0}
<1>1. m \in J /\ (\A y \in J : m >= y) /\ J \subseteq Nat
  OBVIOUS
<1> HIDE DEF J
<1>2. PICK x \in J : x = Max(J) /\ \A y \in J : x >= y
  BY <1>1 DEF Max
<1>3. x = m
  BY <1>1, <1>2
<1> QED
  BY <1>2, <1>3 DEF Newest, J

\* Sets of runs are finite.
LEMMA RunsFinite ==
    ASSUME Len(log) \in Nat, Runs = 1..Len(log), NEW S, S \subseteq Runs
    PROVE  IsFiniteSet(S) /\ Cardinality(S) \in 0..Len(log)
<1>1. IsFiniteSet(Runs) /\ Cardinality(Runs) = Len(log)
  <2>1. 1 \in Int /\ Len(log) \in Int /\ Len(log) >= 0
    OBVIOUS
  <2>2. /\ IsFiniteSet(1..Len(log))
        /\ Cardinality(1..Len(log)) = IF 1 > Len(log) THEN 0 ELSE Len(log) - 1 + 1
    BY <2>1, FS_Interval
  <2> QED
    BY <2>1, <2>2
<1>2. IsFiniteSet(S) /\ Cardinality(S) <= Cardinality(Runs)
  BY <1>1, FS_Subset
<1> QED
  BY <1>1, <1>2, FS_CardinalityType

\* One run more in a set of runs.
LEMMA OneMore ==
    ASSUME Len(log) \in Nat, Runs = 1..Len(log), NEW S, S \subseteq Runs,
           NEW i, i \notin S
    PROVE  Cardinality(S \cup {i}) = Cardinality(S) + 1
  BY RunsFinite, FS_AddElement

\* The runs are the indices of the log.
LEMMA RunsAre == Basics => /\ Len(log) \in Nat /\ Runs = 1..Len(log)
                           /\ \A i \in Runs : log[i] \in Outcomes
  BY DEF Basics, Runs

\* Only runs that were recorded have told anything.
LEMMA ToldRuns == \A u : Told(u) \subseteq Runs
  BY DEF Told

\* The run of a worker that records is nobody else's.
LEMMA OwnRun ==
    ASSUME Basics, OneEach, NEW w \in Workers, pc[w] # "idle",
           NEW v \in Workers, v # w, run[v] = run[w]
    PROVE  pc[v] = "idle"
  BY DEF OneEach, Of

-----------------------------------------------------------------------------
(***************************************************************************)
(* What a step of a worker tells.                                          *)
(***************************************************************************)
Updates == {"duration", "class", "up", "status", "latency", "last", "runs", "child", "tls"}

\* An idle worker has nothing more to tell.
LEMMA IdleTold == \A w, u : pc[w] = "idle" => ~Ahead(w, u)
  BY DEF Ahead, Opening

Moves(w) ==
    /\ pc[w] # "idle"
    /\ UNCHANGED <<log, run, url, label, perTarget>>
    /\ \A v \in Workers : v # w => pc'[v] = pc[v]

\* A step of one worker leaves the others where they are.
LEMMA OthersStay ==
    ASSUME NEW w \in Workers, Moves(w), NEW v \in Workers, v # w, NEW u
    PROVE  Ahead(v, u)' <=> Ahead(v, u)
  BY DEF Moves, Ahead, Of

\* The step leaves u alone.
LEMMA TellsNot ==
    ASSUME Basics, NEW w \in Workers, Moves(w), NEW u,
           u \in Does(Of(w)) => (Ahead(w, u)' <=> Ahead(w, u))
    PROVE  Told(u)' = Told(u)
<1>1. Runs' = Runs /\ log' = log /\ run' = run
  BY DEF Moves, Runs
<1>2. ASSUME NEW i \in Runs, u \in Does(log[i]), NEW v \in Workers, run[v] = i
      PROVE  Ahead(v, u)' <=> Ahead(v, u)
  <2>1. CASE v = w
    BY <1>2, <2>1 DEF Of
  <2>2. CASE v # w
    BY <2>2, OthersStay
  <2> QED
    BY <2>1, <2>2
<1>3. ASSUME NEW i \in Runs PROVE i \in Told(u)' <=> i \in Told(u)
  BY <1>1, <1>2 DEF Told, Does
<1> QED
  BY <1>1, <1>3, ToldRuns DEF Told

\* The step tells u.
LEMMA Tells ==
    ASSUME Basics, OneEach, NEW w \in Workers, Moves(w), NEW u,
           u \in Does(Of(w)), Ahead(w, u), ~Ahead(w, u)'
    PROVE  /\ run[w] \in Runs /\ run[w] \notin Told(u)
           /\ Told(u)' = Told(u) \cup {run[w]}
<1>1. Runs' = Runs /\ log' = log /\ run' = run /\ pc[w] # "idle" /\ run[w] \in Runs
  BY DEF Moves, Runs, Basics
<1>2. ASSUME NEW v \in Workers, v # w, run[v] = run[w] PROVE ~Ahead(v, u)'
  BY <1>1, <1>2, OwnRun, OthersStay, IdleTold
<1>3. run[w] \notin Told(u)
  BY DEF Told
<1>4. run[w] \in Told(u)'
  <2>1. \A v \in Workers : run'[v] = run[w] => ~Ahead(v, u)'
    BY <1>1, <1>2
  <2>2. u \in Does(log'[run[w]]) /\ run[w] \in Runs'
    BY <1>1 DEF Of
  <2> QED
    BY <2>1, <2>2 DEF Told, Does
<1>5. ASSUME NEW i \in Runs, i # run[w] PROVE i \in Told(u)' <=> i \in Told(u)
  <2>1. \A v \in Workers : run[v] = i => (Ahead(v, u)' <=> Ahead(v, u))
    BY <1>5, OthersStay
  <2> QED
    BY <1>1, <2>1 DEF Told, Does
<1> QED
  BY <1>1, <1>3, <1>4, <1>5, ToldRuns DEF Told

TellsNothing == \A u \in Updates : Told(u)' = Told(u)

TellsOnly(w, x) ==
    /\ run[w] \in Runs /\ run[w] \notin Told(x)
    /\ Told(x)' = Told(x) \cup {run[w]}
    /\ \A u \in Updates \ {x} :
        perTarget \/ u \in {"duration", "class"} => Told(u)' = Told(u)

\* A worker that goes to its next stage keeps its run.
LEMMA MovesOn ==
    ASSUME Basics, NEW w \in Workers, pc[w] # "idle", NEW p, pc' = [pc EXCEPT ![w] = p],
           UNCHANGED <<confVars, log, run>>
    PROVE  /\ Moves(w) /\ pc'[w] = p /\ Of(w)' = Of(w)
           /\ Of(w) \in Outcomes /\ Of(w).err \in BOOLEAN /\ Of(w).tls \in BOOLEAN
           /\ Of(w).err => ~Of(w).tls
<1>1. Of(w) \in Outcomes
  BY DEF Basics, Of, Runs
<1> QED
  BY <1>1, OutcomeType DEF Moves, Basics, confVars, Of

\* Looking the series up tells nothing.
LEMMA OpeningTells ==
    ASSUME Basics, OneEach, NEW w \in Workers,
           Lookup(w) \/ Resolve(w) \/ LockSeries(w) \/ Insert(w)
    PROVE  TellsNothing
<1>1. PICK p : /\ pc[w] # "idle" /\ pc' = [pc EXCEPT ![w] = p]
               /\ UNCHANGED <<confVars, log, run>>
               /\ pc[w] \in Opening /\ p \in Opening \cup {"count_error", "observe"}
  BY DEF Lookup, Resolve, LockSeries, Insert, Goes, AfterSeries, Opening
<1>2. Moves(w) /\ pc'[w] = p
  BY <1>1, MovesOn
<1>3. \A u : Ahead(w, u) /\ Ahead(w, u)'
  BY <1>1, <1>2 DEF Ahead
<1> QED
  BY <1>2, <1>3, TellsNot DEF TellsNothing

\* A step from stage to stage tells what lies between them.
LEMMA StageTells ==
    ASSUME Basics, OneEach, NEW w \in Workers, Moves(w), NEW x,
           x \in Does(Of(w)), Ahead(w, x), ~Ahead(w, x)',
           \A u \in Updates \ {x} :
                (perTarget \/ u \in {"duration", "class"}) /\ u \in Does(Of(w))
                    => (Ahead(w, u)' <=> Ahead(w, u))
    PROVE  TellsOnly(w, x)
<1>1. /\ run[w] \in Runs /\ run[w] \notin Told(x)
      /\ Told(x)' = Told(x) \cup {run[w]}
  BY Tells
<1>2. ASSUME NEW u \in Updates \ {x}, perTarget \/ u \in {"duration", "class"}
      PROVE  Told(u)' = Told(u)
  BY <1>2, TellsNot
<1> QED
  BY <1>1, <1>2 DEF TellsOnly

\* A run that failed counts its class, and nothing else yet.
LEMMA CountErrorTells ==
    ASSUME Basics, OnItsWay, OneEach, NEW w \in Workers, CountError(w)
    PROVE  TellsOnly(w, "class")
<1>1. /\ pc[w] = "count_error" /\ pc[w] # "idle"
      /\ pc' = [pc EXCEPT ![w] = IF perTarget THEN "up" ELSE "idle"]
      /\ UNCHANGED <<confVars, log, run>> /\ Of(w).err
  BY DEF CountError, Goes, OrEnd, OnItsWay
<1>2. /\ Moves(w) /\ pc'[w] = IF perTarget THEN "up" ELSE "idle"
      /\ Of(w)' = Of(w)
      /\ Of(w).err \in BOOLEAN /\ Of(w).tls \in BOOLEAN /\ (Of(w).err => ~Of(w).tls)
  BY <1>1, MovesOn
<1>3. "class" \in Does(Of(w)) /\ Ahead(w, "class") /\ ~Ahead(w, "class")'
  BY <1>1, <1>2 DEF Does, Ahead, Opening
<1>4. ASSUME NEW u \in Updates \ {"class"}, perTarget \/ u \in {"duration", "class"},
             u \in Does(Of(w))
      PROVE  Ahead(w, u)' <=> Ahead(w, u)
  BY <1>1, <1>2, <1>4 DEF Updates, Does, Ahead, Opening
<1> QED
  BY <1>2, <1>3, <1>4, StageTells

\* A run that succeeded is in the histogram.
LEMMA ObserveTells ==
    ASSUME Basics, OnItsWay, OneEach, NEW w \in Workers, Observe(w)
    PROVE  TellsOnly(w, "duration")
<1> DEFINE to == IF Of(w).class = "none" THEN IF perTarget THEN "up" ELSE "idle"
                 ELSE "class"
<1>1. /\ pc[w] = "observe" /\ pc[w] # "idle" /\ pc' = [pc EXCEPT ![w] = to]
      /\ UNCHANGED <<confVars, log, run>> /\ ~Of(w).err
  BY DEF Observe, Goes, OrEnd, OnItsWay
<1>2. /\ Moves(w) /\ pc'[w] = to /\ Of(w)' = Of(w)
  BY <1>1, MovesOn
<1>3. "duration" \in Does(Of(w)) /\ Ahead(w, "duration") /\ ~Ahead(w, "duration")'
  BY <1>1, <1>2 DEF Does, Ahead, Opening
<1>4. ASSUME NEW u \in Updates \ {"duration"}, perTarget \/ u \in {"duration", "class"},
             u \in Does(Of(w))
      PROVE  Ahead(w, u)' <=> Ahead(w, u)
  BY <1>1, <1>2, <1>4 DEF Updates, Does, Ahead, Opening
<1> QED
  BY <1>2, <1>3, <1>4, StageTells

\* An observation with an error code counts its class.
LEMMA CountClassTells ==
    ASSUME Basics, OnItsWay, OneEach, NEW w \in Workers, CountClass(w)
    PROVE  TellsOnly(w, "class")
<1>1. /\ pc[w] = "class" /\ pc[w] # "idle"
      /\ pc' = [pc EXCEPT ![w] = IF perTarget THEN "up" ELSE "idle"]
      /\ UNCHANGED <<confVars, log, run>> /\ ~Of(w).err /\ Of(w).class # "none"
  BY DEF CountClass, Goes, OrEnd, OnItsWay
<1>2. /\ Moves(w) /\ pc'[w] = IF perTarget THEN "up" ELSE "idle"
      /\ Of(w)' = Of(w)
  BY <1>1, MovesOn
<1>3. "class" \in Does(Of(w)) /\ Ahead(w, "class") /\ ~Ahead(w, "class")'
  BY <1>1, <1>2 DEF Does, Ahead, Opening
<1>4. ASSUME NEW u \in Updates \ {"class"}, perTarget \/ u \in {"duration", "class"},
             u \in Does(Of(w))
      PROVE  Ahead(w, u)' <=> Ahead(w, u)
  BY <1>1, <1>2, <1>4 DEF Updates, Does, Ahead, Opening
<1> QED
  BY <1>2, <1>3, <1>4, StageTells

\* The way through the series of a target: a stage, the next, what lies between.
Route(w, from, to, x) ==
    \/ from = "up" /\ x = "up" /\ to = IF Of(w).err THEN "status" ELSE "runs"
    \/ from = "runs" /\ x = "runs" /\ to = IF Of(w).err THEN "idle" ELSE "status"
    \/ from = "status" /\ x = "status" /\ to = IF Of(w).err THEN "last" ELSE "latency"
    \/ from = "latency" /\ x = "latency" /\ to = "last"
    \/ from = "last" /\ x = "last" /\ to = IF Of(w).err THEN "runs"
                                          ELSE IF Of(w).tls THEN "tls" ELSE "idle"
    \/ from = "tls" /\ x = "child" /\ to = "set_tls"
    \/ from = "set_tls" /\ x = "tls" /\ to = "idle"

\* Each update of a target's series tells the one thing that its stage is for.
LEMMA RouteTells ==
    ASSUME Basics, OnItsWay, OneEach, NEW w \in Workers,
           NEW from, NEW to, NEW x, Route(w, from, to, x), Goes(w, from, to),
           UNCHANGED <<confVars, log, run>>
    PROVE  perTarget /\ x \in Does(Of(w)) /\ TellsOnly(w, x)
<1>1. /\ pc[w] = from /\ pc[w] # "idle" /\ pc' = [pc EXCEPT ![w] = to]
      /\ from \in {"up", "runs", "status", "latency", "last", "tls", "set_tls"}
  BY DEF Goes, Route
<1>2. /\ perTarget
      /\ from \in {"latency", "tls", "set_tls"} => ~Of(w).err
      /\ from \in {"tls", "set_tls"} => Of(w).tls
  BY <1>1 DEF OnItsWay, Stages, Opening
<1>3. /\ Moves(w) /\ pc'[w] = to /\ Of(w)' = Of(w)
      /\ Of(w).err \in BOOLEAN /\ Of(w).tls \in BOOLEAN /\ (Of(w).err => ~Of(w).tls)
  BY <1>1, MovesOn
<1>4. x \in Does(Of(w)) /\ Ahead(w, x)
  BY <1>1, <1>2, <1>3 DEF Route, Does, Ahead, Opening
<1>5. ~Ahead(w, x)'
  BY <1>1, <1>2, <1>3 DEF Route, Ahead, Opening
<1>6. ASSUME NEW u \in Updates \ {x}, u \in Does(Of(w))
      PROVE  Ahead(w, u)' <=> Ahead(w, u)
  <2>1. CASE from \in {"up", "runs"}
    BY <1>1, <1>2, <1>3, <1>6, <2>1 DEF Route, Updates, Does, Ahead, Opening
  <2>2. CASE from \in {"status", "latency"}
    BY <1>1, <1>2, <1>3, <1>6, <2>2 DEF Route, Updates, Does, Ahead, Opening
  <2>3. CASE from = "last"
    BY <1>1, <1>2, <1>3, <1>6, <2>3 DEF Route, Updates, Does, Ahead, Opening
  <2>4. CASE from \in {"tls", "set_tls"}
    BY <1>1, <1>2, <1>3, <1>6, <2>4 DEF Route, Updates, Does, Ahead, Opening
  <2> QED
    BY <1>1, <2>1, <2>2, <2>3, <2>4
<1>7. TellsOnly(w, x)
  BY <1>3, <1>4, <1>5, <1>6, StageTells
<1> QED
  BY <1>2, <1>4, <1>7

\* A run that begins has told nothing.
LEMMA RecordTells ==
    ASSUME Basics, NEW w \in Workers, NEW r \in Outcomes, Record(w, r)
    PROVE  TellsNothing
<1>1. /\ log' = Append(log, r) /\ pc[w] = "idle" /\ Len(log) \in Nat
      /\ run' = [run EXCEPT ![w] = Len(log) + 1]
      /\ pc' = [pc EXCEPT ![w] = IF perTarget THEN "lookup"
                                 ELSE IF r.err THEN "count_error" ELSE "observe"]
  BY RunsAre DEF Record, Goes
<1>2. /\ Runs = 1..Len(log) /\ Runs' = 1..(Len(log) + 1)
      /\ \A i \in Runs : log'[i] = log[i]
      /\ log'[Len(log) + 1] = r
  BY <1>1 DEF Basics, Runs
<1>3. /\ pc'[w] \in Opening \cup {"count_error", "observe"} /\ run'[w] = Len(log) + 1
      /\ \A v \in Workers : v # w => pc'[v] = pc[v] /\ run'[v] = run[v]
      /\ \A v \in Workers : run[v] \in 0..Len(log)
      /\ \A v \in Workers : pc[v] # "idle" => run[v] \in Runs
  BY <1>1 DEF Basics, Opening
<1>4. \A u : Ahead(w, u)' /\ ~Ahead(w, u)
  BY <1>1, <1>3, IdleTold DEF Ahead
<1>5. ASSUME NEW v \in Workers, v # w, NEW u PROVE Ahead(v, u)' <=> Ahead(v, u)
  <2>1. CASE pc[v] = "idle"
    BY <1>3, <1>5, <2>1 DEF Ahead, Opening
  <2>2. CASE pc[v] # "idle"
    <3>1. Of(v)' = Of(v)
      BY <1>2, <1>3, <1>5, <2>2 DEF Of
    <3> QED
      BY <1>3, <1>5, <3>1 DEF Ahead
  <2> QED
    BY <2>1, <2>2
<1>6. ASSUME NEW u, NEW i \in Runs PROVE i \in Told(u)' <=> i \in Told(u)
  <2>1. run'[w] # i
    BY <1>2, <1>3
  <2>2. \A v \in Workers : (run'[v] = i => ~Ahead(v, u)') <=> (run[v] = i => ~Ahead(v, u))
    BY <1>3, <1>4, <1>5, <2>1
  <2>3. log'[i] = log[i] /\ i \in Runs'
    BY <1>2
  <2> QED
    BY <2>2, <2>3 DEF Told, Does
<1>7. \A u : Len(log) + 1 \notin Told(u)'
  BY <1>3, <1>4 DEF Told
<1>8. ASSUME NEW u PROVE Told(u)' = Told(u)
  <2>1. Told(u)' \subseteq Runs \cup {Len(log) + 1}
    BY <1>2 DEF Told
  <2> QED
    BY <2>1, <1>6, <1>7, ToldRuns
<1> QED
  BY <1>8 DEF TellsNothing

-----------------------------------------------------------------------------
(***************************************************************************)
(* Where the workers are.                                                  *)
(***************************************************************************)

\* A worker's way through record, for its outcome.
Way(w, to) ==
    \/ pc[w] = "lookup" /\ perTarget /\ to = "resolve"
    \/ pc[w] \in {"lookup", "insert"} /\ perTarget /\ to = AfterSeries(w)
    \/ pc[w] = "resolve" /\ perTarget /\ to = "lock"
    \/ pc[w] = "lock" /\ perTarget /\ to = "insert"
    \/ pc[w] \in {"count_error", "class"} /\ to = OrEnd("up")
    \/ pc[w] = "observe" /\ to = IF Of(w).class = "none" THEN OrEnd("up") ELSE "class"
    \/ perTarget /\ \E x \in Updates : Route(w, pc[w], to, x)

\* Every step of a worker follows a way through record.
LEMMA StepWay ==
    ASSUME Basics, OnItsWay, NEW w \in Workers, Step(w)
    PROVE  \E to : Way(w, to) /\ Goes(w, pc[w], to) /\ UNCHANGED <<confVars, log, run, scraping>>
<1>1. CASE Lookup(w)
  <2>1. PICK to : /\ to = IF Of(w).url \in byURL THEN AfterSeries(w) ELSE "resolve"
                  /\ Goes(w, "lookup", to)
    BY <1>1 DEF Lookup
  <2>2. pc[w] = "lookup" /\ perTarget /\ UNCHANGED <<confVars, log, run, scraping>>
    BY <1>1, <2>1 DEF Lookup, Goes, OnItsWay, Stages, Opening
  <2> QED
    BY <2>1, <2>2 DEF Way
<1>2. CASE Resolve(w)
  BY <1>2 DEF Resolve, Goes, OnItsWay, Stages, Opening, Way
<1>3. CASE LockSeries(w)
  BY <1>3 DEF LockSeries, Goes, OnItsWay, Stages, Opening, Way
<1>4. CASE Insert(w)
  BY <1>4 DEF Insert, Goes, OnItsWay, Stages, Opening, Way
<1>5. CASE CountError(w)
  BY <1>5 DEF CountError, Goes, Way
<1>6. CASE Observe(w)
  BY <1>6 DEF Observe, Goes, Way
<1>7. CASE CountClass(w)
  BY <1>7 DEF CountClass, Goes, Way
<1>8. ASSUME NEW x \in Updates, NEW from, NEW to, Route(w, from, to, x), Goes(w, from, to),
             UNCHANGED <<confVars, log, run, scraping>>
      PROVE  \E t : Way(w, t) /\ Goes(w, pc[w], t) /\ UNCHANGED <<confVars, log, run, scraping>>
  <2>1. pc[w] = from /\ from \in {"up", "runs", "status", "latency", "last", "tls", "set_tls"}
    BY <1>8 DEF Goes, Route
  <2>2. perTarget
    BY <2>1 DEF OnItsWay, Stages, Opening
  <2> QED
    BY <1>8, <2>1, <2>2 DEF Way
<1>9. CASE SetUp(w)
  BY <1>8, <1>9 DEF SetUp, Route, Updates
<1>10. CASE CountRun(w)
  BY <1>8, <1>10 DEF CountRun, Route, Updates
<1>11. CASE SetStatus(w)
  BY <1>8, <1>11 DEF SetStatus, Route, Updates
<1>12. CASE SetLatency(w)
  BY <1>8, <1>12 DEF SetLatency, Route, Updates
<1>13. CASE SetLast(w)
  BY <1>8, <1>13 DEF SetLast, Route, Updates
<1>14. CASE ResolveTLS(w)
  BY <1>8, <1>14 DEF ResolveTLS, Route, Updates
<1>15. CASE SetTLS(w)
  BY <1>8, <1>15 DEF SetTLS, Route, Updates
<1> QED
  BY <1>1, <1>2, <1>3, <1>4, <1>5, <1>6, <1>7, <1>9, <1>10, <1>11, <1>12, <1>13,
     <1>14, <1>15 DEF Step

\* A way leads from a stage to a stage, and leaves the run and its outcome alone.
LEMMA WayGoes ==
    ASSUME Basics, OnItsWay, NEW w \in Workers, NEW to, Way(w, to), Goes(w, pc[w], to),
           UNCHANGED <<confVars, log, run>>
    PROVE  /\ pc[w] # "idle" /\ to \in Stages /\ pc'[w] = to
           /\ Moves(w) /\ Of(w)' = Of(w)
<1>1. pc[w] # "idle" /\ to \in Stages
  BY DEF Way, Route, AfterSeries, OrEnd, Stages, Opening
<1>2. pc' = [pc EXCEPT ![w] = to]
  BY DEF Goes
<1> QED
  BY <1>1, <1>2, MovesOn

\* On the way the types hold.
LEMMA WayBasics ==
    ASSUME Basics, OnItsWay, NEW w \in Workers, NEW to, Way(w, to), Goes(w, pc[w], to),
           UNCHANGED <<confVars, log, run, scraping>>
    PROVE  Basics'
  BY WayGoes DEF Basics, Goes, confVars, Runs

\* On the way, a worker is where its outcome leads.
LEMMA WayOnItsWay ==
    ASSUME Basics, OnItsWay, NEW w \in Workers, NEW to, Way(w, to), Goes(w, pc[w], to),
           UNCHANGED <<confVars, log, run>>
    PROVE  OnItsWay'
<1>1. /\ pc[w] # "idle" /\ to \in Stages /\ pc'[w] = to
      /\ Moves(w) /\ Of(w)' = Of(w)
  BY WayGoes
<1>2. perTarget' = perTarget /\ \A v \in Workers : v # w => pc'[v] = pc[v] /\ Of(v)' = Of(v)
  BY <1>1 DEF Moves, Of
<1>3. /\ to \in Stages \ {"idle", "count_error", "observe", "class"} => perTarget
      /\ to = "count_error" => Of(w).err
      /\ to \in {"observe", "class", "latency", "tls", "set_tls"} => ~Of(w).err
      /\ to = "class" => Of(w).class # "none"
      /\ to \in {"tls", "set_tls"} => Of(w).tls
  <2>1. /\ pc[w] = "observe" => ~Of(w).err
        /\ pc[w] \in {"tls", "set_tls"} => Of(w).tls /\ ~Of(w).err
        /\ Of(w).err \in BOOLEAN /\ Of(w).tls \in BOOLEAN
    <3>1. Of(w) \in Outcomes
      BY <1>1 DEF Basics, Of, Runs
    <3> QED
      BY <3>1, OutcomeType DEF OnItsWay
  <2>2. CASE perTarget /\ \E x \in Updates : Route(w, pc[w], to, x)
    BY <2>1, <2>2 DEF Route
  <2>3. CASE pc[w] \in {"lookup", "insert", "resolve", "lock"}
    BY <2>1, <2>3 DEF Way, Route, AfterSeries
  <2>4. CASE pc[w] \in {"count_error", "class", "observe"}
    BY <2>1, <2>4 DEF Way, Route, OrEnd
  <2> QED
    BY <2>2, <2>3, <2>4 DEF Way
<1>4. ASSUME NEW v \in Workers
      PROVE  /\ pc'[v] \in Stages \ {"idle", "count_error", "observe", "class"} => perTarget'
             /\ pc'[v] = "count_error" => Of(v)'.err
             /\ pc'[v] \in {"observe", "class", "latency", "tls", "set_tls"} => ~Of(v)'.err
             /\ pc'[v] = "class" => Of(v)'.class # "none"
             /\ pc'[v] \in {"tls", "set_tls"} => Of(v)'.tls
  BY <1>1, <1>2, <1>3 DEF OnItsWay
<1> QED
  BY <1>4 DEF OnItsWay, Stages, Opening

\* On the way, a target is still recorded by one worker only.
LEMMA WayOneEach ==
    ASSUME Basics, OnItsWay, OneEach, NEW w \in Workers, NEW to, Way(w, to),
           Goes(w, pc[w], to), UNCHANGED <<confVars, log, run>>
    PROVE  OneEach'
<1>1. /\ pc[w] # "idle" /\ Moves(w)
  BY WayGoes
<1>2. /\ \A v \in Workers : (pc'[v] # "idle" => pc[v] # "idle") /\ Of(v)' = Of(v)
      /\ Runs' = Runs /\ log' = log /\ run' = run
  BY <1>1 DEF Moves, Of, Runs
<1> QED
  BY <1>2 DEF OneEach

\* A run begins.
LEMMA RecordPlace ==
    ASSUME Basics, NEW w \in Workers, NEW r \in Outcomes, Record(w, r)
    PROVE  /\ pc[w] = "idle" /\ run'[w] = Len(log) + 1 /\ Of(w)' = r
           /\ pc'[w] = IF perTarget THEN "lookup" ELSE IF r.err THEN "count_error" ELSE "observe"
           /\ Runs = 1..Len(log) /\ Runs' = 1..(Len(log) + 1) /\ Len(log) \in Nat
           /\ \A i \in Runs : log'[i] = log[i]
           /\ log'[Len(log) + 1] = r
           /\ \A v \in Workers : v # w => pc'[v] = pc[v] /\ run'[v] = run[v]
           /\ \A v \in Workers : v # w /\ pc[v] # "idle" => Of(v)' = Of(v) /\ Of(v).target # r.target
           /\ r.url = url[r.target]
<1>1. /\ log' = Append(log, r) /\ pc[w] = "idle" /\ Len(log) \in Nat
      /\ run' = [run EXCEPT ![w] = Len(log) + 1]
      /\ pc' = [pc EXCEPT ![w] = IF perTarget THEN "lookup"
                                 ELSE IF r.err THEN "count_error" ELSE "observe"]
      /\ \A v \in Workers : pc[v] # "idle" => Of(v).target # r.target
      /\ r.url = url[r.target]
  BY RunsAre DEF Record, Goes
<1>2. /\ Runs = 1..Len(log) /\ Runs' = 1..(Len(log) + 1)
      /\ \A i \in Runs : log'[i] = log[i]
      /\ log'[Len(log) + 1] = r
  BY <1>1 DEF Basics, Runs
<1>3. /\ run'[w] = Len(log) + 1
      /\ pc'[w] = IF perTarget THEN "lookup" ELSE IF r.err THEN "count_error" ELSE "observe"
      /\ \A v \in Workers : v # w => pc'[v] = pc[v] /\ run'[v] = run[v]
      /\ \A v \in Workers : pc[v] # "idle" => run[v] \in Runs
  BY <1>1 DEF Basics
<1>4. Of(w)' = r
  BY <1>2, <1>3 DEF Of
<1>5. \A v \in Workers : v # w /\ pc[v] # "idle" => Of(v)' = Of(v)
  BY <1>2, <1>3 DEF Of
<1> QED
  BY <1>1, <1>2, <1>3, <1>4, <1>5

\* A run begins: the types.
LEMMA RecordBasics ==
    ASSUME Basics, NEW w \in Workers, NEW r \in Outcomes, Record(w, r)
    PROVE  Basics'
<1>1. /\ log' = Append(log, r) /\ Len(log) < MaxRuns /\ UNCHANGED <<confVars, scraping>>
      /\ run' = [run EXCEPT ![w] = Len(log) + 1]
      /\ pc' = [pc EXCEPT ![w] = IF perTarget THEN "lookup"
                                 ELSE IF r.err THEN "count_error" ELSE "observe"]
  BY DEF Record, Goes
<1>2. log' \in Seq(Outcomes) /\ Len(log') = Len(log) + 1 /\ Len(log) \in Nat
  BY <1>1 DEF Basics
<1>3. Len(log') <= MaxRuns
  BY <1>1, <1>2, CollectorAssumption
<1>4. pc' \in [Workers -> Stages]
  BY <1>1 DEF Basics, Stages, Opening
<1>5. run' \in [Workers -> 0..Len(log')]
  BY <1>1, <1>2 DEF Basics
<1>6. \A v \in Workers : pc'[v] # "idle" => run'[v] \in Runs'
  BY RecordPlace DEF Basics
<1>7. \A i \in Runs' : log'[i].url = url[log'[i].target]
  <2>1. \A i \in Runs' : i = Len(log) + 1 \/ i \in Runs
    BY RecordPlace
  <2> QED
    BY <2>1, RecordPlace DEF Basics
<1> QED
  BY <1>1, <1>2, <1>3, <1>4, <1>5, <1>6, <1>7 DEF Basics, confVars

\* A run begins: its worker is at the first stage for its outcome.
LEMMA RecordOnItsWay ==
    ASSUME Basics, OnItsWay, NEW w \in Workers, NEW r \in Outcomes, Record(w, r)
    PROVE  OnItsWay'
<1>1. perTarget' = perTarget /\ r.err \in BOOLEAN
  BY OutcomeType DEF Record, confVars
<1>2. ASSUME NEW v \in Workers
      PROVE  /\ pc'[v] \in Stages \ {"idle", "count_error", "observe", "class"} => perTarget'
             /\ pc'[v] = "count_error" => Of(v)'.err
             /\ pc'[v] \in {"observe", "class", "latency", "tls", "set_tls"} => ~Of(v)'.err
             /\ pc'[v] = "class" => Of(v)'.class # "none"
             /\ pc'[v] \in {"tls", "set_tls"} => Of(v)'.tls
  <2>1. CASE v = w
    BY <1>1, <2>1, RecordPlace
  <2>2. CASE v # w
    BY <1>1, <2>2, RecordPlace DEF OnItsWay
  <2> QED
    BY <2>1, <2>2
<1> QED
  BY <1>2 DEF OnItsWay, Stages, Opening

\* A run begins for a target that nobody records, and is its newest.
LEMMA RecordOneEach ==
    ASSUME Basics, OneEach, NEW w \in Workers, NEW r \in Outcomes, Record(w, r)
    PROVE  OneEach'
<1> SUFFICES ASSUME NEW x \in Workers, pc'[x] # "idle"
             PROVE  /\ \A v \in Workers : v # x /\ pc'[v] # "idle" => Of(v)'.target # Of(x)'.target
                    /\ \A i \in Runs' : log'[i].target = Of(x)'.target => i <= run'[x]
  BY DEF OneEach
<1> DEFINE n == Len(log) + 1
<1>0. n \in Nat /\ \A i \in Runs' : i <= n /\ (i = n \/ i \in Runs)
  BY RecordPlace
<1>1. CASE x = w
  BY <1>0, <1>1, RecordPlace
<1>2. CASE x # w
  <2>1. pc[x] # "idle" /\ Of(x)' = Of(x) /\ Of(x).target # r.target /\ run'[x] = run[x]
    BY <1>2, RecordPlace
  <2>2. ASSUME NEW v \in Workers, v # x, pc'[v] # "idle" PROVE Of(v)'.target # Of(x)'.target
    <3>1. CASE v = w
      BY <2>1, <3>1, RecordPlace
    <3>2. CASE v # w
      BY <2>1, <2>2, <3>2, RecordPlace DEF OneEach
    <3> QED
      BY <3>1, <3>2
  <2>3. ASSUME NEW i \in Runs', log'[i].target = Of(x)'.target PROVE i <= run'[x]
    BY <1>0, <2>1, <2>3, RecordPlace DEF OneEach
  <2> QED
    BY <2>2, <2>3
<1> QED
  BY <1>1, <1>2

-----------------------------------------------------------------------------
(***************************************************************************)
(* The cache and the locks.                                                *)
(***************************************************************************)

\* A worker that records has an outcome, with a URL and a label.
LEMMA LabelType ==
    ASSUME Basics, NEW w \in Workers, pc[w] # "idle"
    PROVE  Of(w) \in Outcomes /\ Of(w).url \in URLs /\ L(w) \in Labels
<1>1. Of(w) \in Outcomes
  BY RunsAre DEF Basics, Of
<1> QED
  BY <1>1, OutcomeType DEF Basics, L

\* The steps of the lookup.
LEMMA OpeningCached ==
    ASSUME Basics, OnItsWay, Cached, NEW w \in Workers,
           Lookup(w) \/ Resolve(w) \/ LockSeries(w) \/ Insert(w)
    PROVE  Cached'
<1> DEFINE Kept(v) ==
        /\ pc[v] = "insert" <=> mu = v
        /\ pc[v] \in {"lock", "insert"} => L(v) \in child
        /\ perTarget /\ pc[v] \in Stages \ ({"idle"} \cup Opening) => Of(v).url \in byURL
<1>0. /\ pc[w] # "idle" /\ UNCHANGED <<confVars, log, run, tlsCached, tlsChild>>
      /\ \A v \in Workers : v # w => pc'[v] = pc[v]
  BY DEF Lookup, Resolve, LockSeries, Insert, Goes, Basics, cacheVars
<1>1. /\ label' = label /\ perTarget' = perTarget
      /\ \A v \in Workers : Of(v)' = Of(v) /\ L(v)' = L(v)
  BY <1>0 DEF confVars, Of, L
<1>2. L(w) \in Labels /\ Of(w).url \in URLs /\ NoWorker \notin Workers
  BY <1>0, LabelType, CollectorAssumption
<1>3. ASSUME Kept(w)', NEW m \in Workers \cup {NoWorker}, mu' = m,
             \A v \in Workers : v # w => (mu' = v <=> mu = v),
             byURL \subseteq byURL', byURL' \subseteq URLs, child \subseteq child',
             child' \subseteq Labels, \A x \in byURL' : label[x] \in child'
      PROVE  Cached'
  <2>1. ASSUME NEW v \in Workers, v # w PROVE Kept(v)'
    BY <1>0, <1>1, <1>3, <2>1 DEF Cached
  <2>2. \A v \in Workers : Kept(v)'
    BY <1>3, <2>1
  <2>3. tlsCached' \subseteq byURL' /\ tlsChild' \subseteq child'
    BY <1>0, <1>3 DEF Cached
  <2> QED
    BY <1>1, <1>3, <2>2, <2>3 DEF Cached
<1>4. CASE Lookup(w)
  <2>1. /\ pc[w] = "lookup" /\ mu = NoWorker /\ UNCHANGED <<mu, byURL, child>>
        /\ pc'[w] = IF Of(w).url \in byURL THEN AfterSeries(w) ELSE "resolve"
    BY <1>4 DEF Lookup, Goes, cacheVars, Basics
  <2>2. Kept(w)'
    BY <1>1, <1>2, <2>1 DEF AfterSeries, Opening
  <2> QED
    BY <1>3, <2>1, <2>2 DEF Cached
<1>5. CASE Resolve(w)
  <2>1. /\ pc[w] = "resolve" /\ UNCHANGED <<mu, byURL>> /\ child' = child \cup {L(w)}
        /\ pc'[w] = "lock"
    BY <1>5 DEF Resolve, Goes, Basics
  <2>2. mu # w
    BY <2>1 DEF Cached
  <2>3. Kept(w)'
    BY <1>1, <1>2, <2>1, <2>2 DEF Opening
  <2> QED
    BY <1>2, <1>3, <2>1, <2>3 DEF Cached
<1>6. CASE LockSeries(w)
  <2>1. /\ pc[w] = "lock" /\ mu = NoWorker /\ mu' = w /\ UNCHANGED <<byURL, child>>
        /\ pc'[w] = "insert"
    BY <1>6 DEF LockSeries, Goes, Basics
  <2>2. Kept(w)'
    BY <1>1, <1>2, <2>1 DEF Opening, Cached
  <2> QED
    BY <1>2, <1>3, <2>1, <2>2 DEF Cached
<1>7. CASE Insert(w)
  <2>1. /\ pc[w] = "insert" /\ mu' = NoWorker /\ child' = child
        /\ byURL' = byURL \cup {Of(w).url} /\ pc'[w] = AfterSeries(w)
    BY <1>7 DEF Insert, Goes, Basics
  <2>2. mu = w /\ L(w) \in child
    BY <2>1 DEF Cached
  <2>3. Kept(w)'
    BY <1>1, <1>2, <2>1 DEF Opening, AfterSeries
  <2>4. \A x \in byURL' : label[x] \in child'
    BY <2>1, <2>2 DEF Cached, L
  <2> QED
    BY <1>2, <1>3, <2>1, <2>2, <2>3, <2>4 DEF Cached
<1> QED
  BY <1>4, <1>5, <1>6, <1>7

\* The other steps leave the lookup behind them; ResolveTLS adds to the tls children.
LEMMA LaterCached ==
    ASSUME Basics, OnItsWay, Cached, NEW w \in Workers, NEW to, Way(w, to),
           Goes(w, pc[w], to), UNCHANGED <<confVars, log, run, mu, byURL, child>>,
           pc[w] \notin Opening,
           \/ UNCHANGED <<tlsCached, tlsChild>>
           \/ /\ pc[w] = "tls"
              /\ tlsCached' = tlsCached \cup {Of(w).url}
              /\ tlsChild' = tlsChild \cup {L(w)}
    PROVE  Cached'
<1>1. /\ pc[w] # "idle" /\ to \in Stages /\ pc'[w] = to /\ Moves(w)
      /\ to \notin Opening
  BY WayGoes DEF Way, Route, OrEnd, Opening
<1>2. /\ label' = label /\ perTarget' = perTarget
      /\ \A v \in Workers : Of(v)' = Of(v) /\ L(v)' = L(v)
      /\ \A v \in Workers : v # w => pc'[v] = pc[v]
  BY <1>1 DEF Moves, Of, L
<1>3. perTarget => Of(w).url \in byURL /\ L(w) \in child
  BY <1>1 DEF Cached, Basics, L
<1>4. tlsCached' \subseteq byURL' /\ tlsChild' \subseteq child'
  <2>1. CASE UNCHANGED <<tlsCached, tlsChild>>
    BY <2>1 DEF Cached
  <2>2. CASE pc[w] = "tls"
    <3>1. perTarget
      BY <2>2 DEF OnItsWay, Stages, Opening
    <3> QED
      BY <2>2, <1>3, <3>1 DEF Cached
  <2> QED
    BY <2>1, <2>2
<1>5. ASSUME NEW v \in Workers
      PROVE  /\ pc'[v] = "insert" <=> mu' = v
             /\ pc'[v] \in {"lock", "insert"} => L(v)' \in child'
             /\ perTarget' /\ pc'[v] \in Stages \ ({"idle"} \cup Opening) => Of(v)'.url \in byURL'
  <2>1. CASE v = w
    BY <1>1, <1>2, <1>3, <2>1 DEF Cached, Opening
  <2>2. CASE v # w
    BY <1>2, <2>2 DEF Cached
  <2> QED
    BY <2>1, <2>2
<1> QED
  BY <1>2, <1>4, <1>5 DEF Cached

\* A run begins: the cache is as it was.
LEMMA RecordCached ==
    ASSUME Basics, Cached, NEW w \in Workers, NEW r \in Outcomes, Record(w, r)
    PROVE  Cached'
<1>1. /\ UNCHANGED <<mu, byURL, child, tlsCached, tlsChild>>
      /\ label' = label /\ perTarget' = perTarget
  BY DEF Record, cacheVars, confVars
<1>2. pc'[w] \notin {"lock", "insert"} /\ (perTarget => pc'[w] \in Opening)
  BY RecordPlace DEF Opening
<1>3. ASSUME NEW v \in Workers
      PROVE  /\ pc'[v] = "insert" <=> mu' = v
             /\ pc'[v] \in {"lock", "insert"} => L(v)' \in child'
             /\ perTarget' /\ pc'[v] \in Stages \ ({"idle"} \cup Opening) => Of(v)'.url \in byURL'
  <2>1. CASE v = w
    BY <1>1, <1>2, <2>1, RecordPlace DEF Cached
  <2>2. CASE v # w
    <3>1. pc'[v] = pc[v] /\ (pc[v] # "idle" => Of(v)' = Of(v) /\ L(v)' = L(v))
      BY <1>1, <2>2, RecordPlace DEF L
    <3> QED
      BY <1>1, <3>1 DEF Cached, Opening
  <2> QED
    BY <2>1, <2>2
<1> QED
  BY <1>1, <1>3 DEF Cached

-----------------------------------------------------------------------------
(***************************************************************************)
(* The counters.                                                           *)
(***************************************************************************)
\* The runs that were there stay what they were.
SameRuns ==
    /\ url' = url /\ label' = label /\ perTarget' = perTarget
    /\ \A i \in Runs : log'[i] = log[i]

\* Who has told the same, has told the same of each class and label.
LEMMA SameTold ==
    ASSUME SameRuns, NEW u, Told(u)' = Told(u)
    PROVE  /\ u = "class" => \A c : ToldAs(c)' = ToldAs(c)
           /\ \A l : ToldOf(u, l)' = ToldOf(u, l)
           /\ u = "runs" => \A l, s : Counted(l, s)' = Counted(l, s)
<1>1. \A i \in Told(u) : log'[i] = log[i]
  BY ToldRuns DEF SameRuns
<1>2. u = "class" => \A c : ToldAs(c)' = ToldAs(c)
  BY <1>1 DEF ToldAs, ClassOf
<1>3. \A l : ToldOf(u, l)' = ToldOf(u, l)
  BY <1>1 DEF ToldOf, SameRuns
<1>4. u = "runs" => \A l, s : Counted(l, s)' = Counted(l, s)
  BY <1>1, <1>3 DEF Counted, ToldOf
<1> QED
  BY <1>2, <1>3, <1>4

\* The histogram is right while nobody observes.
LEMMA DurationStill ==
    ASSUME Counters, Told("duration")' = Told("duration"), duration' = duration
    PROVE  duration' = Cardinality(Told("duration"))'
  BY DEF Counters

\* The failures by code are right while nobody counts one.
LEMMA ErrsStill ==
    ASSUME Counters, SameRuns, Told("class")' = Told("class"), errs' = errs
    PROVE  errs' \in [Classes -> Nat] /\ \A c \in Classes : errs'[c] = Cardinality(ToldAs(c))'
  BY SameTold DEF Counters

RunsCount ==
    /\ runs \in [Labels -> [{"up", "down"} -> Nat]]
    /\ \A l \in Labels, s \in {"up", "down"} :
        runs[l][s] = IF perTarget THEN Cardinality(Counted(l, s)) ELSE 0

\* The runs of the targets are right while nobody counts one.
LEMMA RunsStill ==
    ASSUME Counters, SameRuns, perTarget => Told("runs")' = Told("runs"), runs' = runs
    PROVE  RunsCount'
<1>1. perTarget' = perTarget
  BY DEF SameRuns
<1>2. perTarget => \A l, s : Counted(l, s)' = Counted(l, s)
  BY SameTold
<1> QED
  BY <1>1, <1>2 DEF Counters, RunsCount

\* The counters together, where a step tells none of them.
LEMMA CountersStill ==
    ASSUME Counters, SameRuns, UNCHANGED <<duration, errs, runs>>,
           Told("duration")' = Told("duration"), Told("class")' = Told("class"),
           perTarget => Told("runs")' = Told("runs")
    PROVE  Counters'
  BY DurationStill, ErrsStill, RunsStill DEF Counters, RunsCount

\* A class is counted.
LEMMA ClassCounted ==
    ASSUME Basics, OneEach, Counters, NEW w \in Workers, SameRuns, log' = log,
           TellsOnly(w, "class"), UNCHANGED <<duration, runs>>,
           errs' = [errs EXCEPT ![ClassOf(Of(w))] = @ + 1]
    PROVE  Counters'
<1>1. /\ Told("duration")' = Told("duration")
      /\ perTarget => Told("runs")' = Told("runs")
      /\ run[w] \in Runs /\ run[w] \notin Told("class")
      /\ Told("class")' = Told("class") \cup {run[w]}
  BY DEF TellsOnly, Updates
<1>2. ClassOf(Of(w)) \in Classes
  BY CollectorAssumption DEF ClassOf
<1>3. errs' \in [Classes -> Nat]
  BY <1>2 DEF Counters
<1>4. ASSUME NEW c \in Classes PROVE errs'[c] = Cardinality(ToldAs(c)')
  <2>1. run[w] \notin ToldAs(c) /\ ToldAs(c) \subseteq Runs
    BY <1>1, ToldRuns DEF ToldAs
  <2>2. CASE c = ClassOf(Of(w))
    <3>1. ToldAs(c)' = ToldAs(c) \cup {run[w]}
      BY <1>1, <2>2 DEF ToldAs, ClassOf, Of
    <3>2. Cardinality(ToldAs(c)') = Cardinality(ToldAs(c)) + 1
      BY <2>1, <3>1, RunsAre, OneMore
    <3> QED
      BY <2>2, <3>2 DEF Counters
  <2>3. CASE c # ClassOf(Of(w))
    <3>1. ToldAs(c)' = ToldAs(c)
      BY <1>1, <2>3 DEF ToldAs, ClassOf, Of
    <3> QED
      BY <1>2, <2>3, <3>1 DEF Counters
  <2> QED
    BY <2>2, <2>3
<1> QED
  BY <1>1, <1>3, <1>4, DurationStill, RunsStill DEF Counters, RunsCount

\* An observation is counted.
LEMMA DurationCounted ==
    ASSUME Basics, OneEach, Counters, NEW w \in Workers, SameRuns,
           TellsOnly(w, "duration"), UNCHANGED <<errs, runs>>, duration' = duration + 1
    PROVE  Counters'
<1>1. /\ Told("class")' = Told("class")
      /\ perTarget => Told("runs")' = Told("runs")
      /\ run[w] \in Runs /\ run[w] \notin Told("duration")
      /\ Told("duration")' = Told("duration") \cup {run[w]}
  BY DEF TellsOnly, Updates
<1>2. Cardinality(Told("duration")') = Cardinality(Told("duration")) + 1
  BY <1>1, RunsAre, ToldRuns, OneMore
<1>3. duration' = Cardinality(Told("duration"))'
  BY <1>2 DEF Counters
<1> QED
  BY <1>1, <1>3, ErrsStill, RunsStill DEF Counters, RunsCount

\* A run of a target is counted under its label and its outcome.
LEMMA RunCounted ==
    ASSUME Basics, OneEach, Counters, NEW w \in Workers, SameRuns, log' = log,
           perTarget, pc[w] # "idle", TellsOnly(w, "runs"), UNCHANGED <<duration, errs>>,
           runs' = [runs EXCEPT ![L(w)][IF Of(w).up THEN "up" ELSE "down"] = @ + 1]
    PROVE  Counters'
<1> DEFINE k == IF Of(w).up THEN "up" ELSE "down"
<1>1. /\ Told("class")' = Told("class") /\ Told("duration")' = Told("duration")
      /\ run[w] \in Runs /\ run[w] \notin Told("runs")
      /\ Told("runs")' = Told("runs") \cup {run[w]}
      /\ log' = log /\ label' = label /\ perTarget' = perTarget
  BY DEF TellsOnly, Updates, SameRuns
<1>2. L(w) \in Labels /\ k \in {"up", "down"} /\ (k = "up" <=> Of(w).up)
      /\ Of(w) = log[run[w]] /\ L(w) = label[log[run[w]].url]
  BY LabelType DEF L, Of
<1>3. runs' = [runs EXCEPT ![L(w)] = [runs[L(w)] EXCEPT ![k] = runs[L(w)][k] + 1]]
  OBVIOUS
<1> HIDE DEF k
<1> DEFINE row == [runs[L(w)] EXCEPT ![k] = runs[L(w)][k] + 1]
<1>r. /\ row \in [{"up", "down"} -> Nat]
      /\ row[k] = runs[L(w)][k] + 1
      /\ \A s \in {"up", "down"} : s # k => row[s] = runs[L(w)][s]
  <2> DEFINE was == runs[L(w)]
  <2>1. was \in [{"up", "down"} -> Nat] /\ row = [was EXCEPT ![k] = was[k] + 1]
    BY <1>2 DEF Counters
  <2> HIDE DEF was, row
  <2>2. /\ row \in [{"up", "down"} -> Nat]
        /\ row[k] = was[k] + 1
        /\ \A s \in {"up", "down"} : s # k => row[s] = was[s]
    BY <2>1, <1>2
  <2> QED
    BY <2>2 DEF was
<1>s. runs' = [runs EXCEPT ![L(w)] = row]
  BY <1>3
<1> HIDE DEF row
<1>t. runs \in [Labels -> [{"up", "down"} -> Nat]]
  BY DEF Counters
<1>4. /\ runs' \in [Labels -> [{"up", "down"} -> Nat]]
      /\ runs'[L(w)] = row
      /\ \A l \in Labels : l # L(w) => runs'[l] = runs[l]
  BY <1>2, <1>r, <1>s, <1>t
<1>5. ASSUME NEW l \in Labels, NEW s \in {"up", "down"}
      PROVE  runs'[l][s] = Cardinality(Counted(l, s)')
  <2>1. run[w] \notin Counted(l, s) /\ Counted(l, s) \subseteq Runs
    BY <1>1, ToldRuns DEF Counted, ToldOf
  <2>2. ASSUME l = L(w), s = k PROVE runs'[l][s] = Cardinality(Counted(l, s)')
    <3>1. Counted(l, s)' = Counted(l, s) \cup {run[w]}
      BY <1>1, <1>2, <2>2 DEF Counted, ToldOf
    <3>2. Cardinality(Counted(l, s)') = Cardinality(Counted(l, s)) + 1
      BY <2>1, <3>1, RunsAre, OneMore
    <3>3. runs'[l][s] = runs[l][s] + 1
      BY <1>r, <1>4, <2>2
    <3> QED
      BY <3>2, <3>3 DEF Counters
  <2>3. ASSUME ~(l = L(w) /\ s = k) PROVE runs'[l][s] = Cardinality(Counted(l, s)')
    <3>1. ~(label[log[run[w]].url] = l /\ (log[run[w]].up <=> s = "up"))
      BY <1>2, <2>3
    <3>2. Counted(l, s)' = Counted(l, s)
      BY <1>1, <3>1 DEF Counted, ToldOf
    <3>3. runs'[l][s] = runs[l][s]
      BY <1>r, <1>4, <2>3
    <3> QED
      BY <3>2, <3>3 DEF Counters
  <2> QED
    BY <2>2, <2>3
<1>6. RunsCount'
  BY <1>1, <1>4, <1>5 DEF RunsCount
<1> QED
  BY <1>1, <1>6, DurationStill, ErrsStill DEF Counters, RunsCount

-----------------------------------------------------------------------------
(***************************************************************************)
(* The gauges.                                                             *)
(***************************************************************************)

\* Which labels are shared does not change.
LEMMA SameLabels == ASSUME SameRuns PROVE \A l : Unshared(l)' <=> Unshared(l)
  BY DEF SameRuns, Unshared

\* The gauges are right while nobody sets one.
LEMMA GaugesStill ==
    ASSUME Basics, GaugesTell, SameRuns, UNCHANGED <<gauge, tlsChild>>,
           Len(log') \in Nat, Len(log) <= Len(log'),
           perTarget => \A u \in Gauges \cup {"child"} : Told(u)' = Told(u)
    PROVE  GaugesTell'
<1>1. gauge' \in [Gauges -> [Labels -> 0..Len(log')]]
  <2>1. 0..Len(log) \subseteq 0..Len(log')
    BY RunsAre
  <2> QED
    BY <2>1 DEF GaugesTell
<1>2. perTarget' = perTarget
  BY DEF SameRuns
<1>3. perTarget => \A u \in Gauges \cup {"child"} : \A l : ToldOf(u, l)' = ToldOf(u, l)
  BY SameTold
<1>4. ASSUME perTarget, NEW l \in Labels, Unshared(l)', NEW g \in Gauges
      PROVE  gauge'[g][l] = Newest(ToldOf(g, l)')
  BY <1>3, <1>4, SameLabels DEF GaugesTell
<1>5. ASSUME perTarget, NEW l \in Labels PROVE l \in tlsChild' <=> ToldOf("child", l)' # {}
  BY <1>3, <1>5 DEF GaugesTell
<1> QED
  BY <1>1, <1>2, <1>4, <1>5 DEF GaugesTell, Newest

\* A gauge is set to the run of the worker, the newest of its target.
LEMMA GaugeSet ==
    ASSUME Basics, OneEach, GaugesTell, NEW w \in Workers, SameRuns, log' = log,
           perTarget, pc[w] # "idle", NEW x \in Gauges, TellsOnly(w, x), Set(w, x),
           tlsChild' = tlsChild
    PROVE  GaugesTell'
<1>1. /\ \A u \in (Gauges \cup {"child"}) \ {x} : Told(u)' = Told(u)
      /\ run[w] \in Runs
      /\ Told(x)' = Told(x) \cup {run[w]}
      /\ label' = label /\ perTarget' = perTarget
      /\ gauge' = [gauge EXCEPT ![x][L(w)] = run[w]]
  BY DEF TellsOnly, Updates, Gauges, SameRuns, Set
<1>2. L(w) \in Labels /\ L(w) = label[log[run[w]].url] /\ Of(w) = log[run[w]]
      /\ Of(w).url \in URLs /\ run[w] \in 0..Len(log)
  BY LabelType DEF L, Of, Basics
<1>3. /\ gauge' = [gauge EXCEPT ![x] = [gauge[x] EXCEPT ![L(w)] = run[w]]]
      /\ gauge' \in [Gauges -> [Labels -> 0..Len(log)]]
  BY <1>1, <1>2 DEF GaugesTell
<1>4. ASSUME NEW l \in Labels, Unshared(l), NEW g \in Gauges
      PROVE  gauge'[g][l] = Newest(ToldOf(g, l)')
  <2>1. CASE g = x /\ l = L(w)
    <3>1. ToldOf(x, l)' = ToldOf(x, l) \cup {run[w]}
      BY <1>1, <1>2, <2>1 DEF ToldOf
    <3>2. \A i \in ToldOf(x, l) : i \in Runs /\ log[i].target = Of(w).target
      <4>1. \A i \in Runs : log[i].target \in Targets /\ log[i].url = url[log[i].target]
        BY RunsAre, OutcomeType DEF Basics
      <4>2. Of(w).target \in Targets /\ label[url[Of(w).target]] = l
        BY <1>1, <1>2, <2>1, <4>1
      <4>3. ASSUME NEW i \in ToldOf(x, l) PROVE i \in Runs /\ label[url[log[i].target]] = l
        BY <4>1, <4>3, ToldRuns DEF ToldOf
      <4> QED
        BY <1>4, <4>1, <4>2, <4>3 DEF Unshared
    <3>3. ToldOf(x, l)' \subseteq Nat /\ \A i \in ToldOf(x, l)' : i <= run[w]
      BY <1>1, <1>2, <3>1, <3>2, RunsAre DEF OneEach
    <3>4. Newest(ToldOf(x, l)') = run[w]
      BY <3>1, <3>3, NewestIs
    <3>5. gauge'[x][l] = run[w]
      BY <1>2, <1>3, <2>1 DEF GaugesTell
    <3> QED
      BY <2>1, <3>4, <3>5
  <2>2. CASE g = x /\ l # L(w)
    <3>1. ToldOf(x, l)' = ToldOf(x, l)
      BY <1>1, <1>2, <2>2 DEF ToldOf
    <3>2. gauge'[x][l] = gauge[x][l]
      BY <1>2, <1>3, <2>2 DEF GaugesTell
    <3> QED
      BY <1>4, <2>2, <3>1, <3>2 DEF GaugesTell
  <2>3. CASE g # x
    <3>1. ToldOf(g, l)' = ToldOf(g, l)
      BY <1>1, <2>3 DEF ToldOf
    <3>2. gauge'[g] = gauge[g]
      BY <1>3, <2>3 DEF GaugesTell
    <3> QED
      BY <1>4, <3>1, <3>2 DEF GaugesTell
  <2> QED
    BY <2>1, <2>2, <2>3
<1>5. ASSUME NEW l \in Labels PROVE l \in tlsChild' <=> ToldOf("child", l)' # {}
  <2>1. "child" \notin Gauges
    BY DEF Gauges
  <2>2. ToldOf("child", l)' = ToldOf("child", l)
    BY <1>1, <2>1 DEF ToldOf
  <2> QED
    BY <2>2 DEF GaugesTell
<1> QED
  BY <1>1, <1>3, <1>4, <1>5, SameLabels DEF GaugesTell, Newest

\* The tls gauge of a label exists from the first expiry that is seen.
LEMMA ChildMade ==
    ASSUME Basics, OneEach, GaugesTell, NEW w \in Workers, SameRuns, log' = log,
           perTarget, pc[w] # "idle", TellsOnly(w, "child"), gauge' = gauge,
           tlsChild' = tlsChild \cup {L(w)}
    PROVE  GaugesTell'
<1>1. /\ \A u \in Gauges : Told(u)' = Told(u)
      /\ run[w] \in Runs
      /\ Told("child")' = Told("child") \cup {run[w]}
      /\ label' = label /\ perTarget' = perTarget
  BY DEF TellsOnly, Updates, Gauges, SameRuns
<1>2. L(w) \in Labels /\ L(w) = label[log[run[w]].url]
  BY LabelType DEF L, Of
<1>3. ASSUME NEW l \in Labels, Unshared(l), NEW g \in Gauges
      PROVE  gauge'[g][l] = Newest(ToldOf(g, l)')
  <2>1. ToldOf(g, l)' = ToldOf(g, l)
    BY <1>1 DEF ToldOf
  <2> QED
    BY <1>3, <2>1 DEF GaugesTell
<1>4. ASSUME NEW l \in Labels PROVE l \in tlsChild' <=> ToldOf("child", l)' # {}
  <2>1. ToldOf("child", l)' = ToldOf("child", l) \cup (IF l = L(w) THEN {run[w]} ELSE {})
    BY <1>1, <1>2 DEF ToldOf
  <2>2. l \in tlsChild <=> ToldOf("child", l) # {}
    BY DEF GaugesTell
  <2> QED
    BY <2>1, <2>2
<1>5. gauge' \in [Gauges -> [Labels -> 0..Len(log')]]
  BY DEF GaugesTell
<1> QED
  BY <1>1, <1>3, <1>4, <1>5, SameLabels DEF GaugesTell, Newest

-----------------------------------------------------------------------------
(***************************************************************************)
(* The steps.                                                              *)
(***************************************************************************)

\* Nothing is recorded, counted or cached at the start.
LEMMA SeriesInvInit == Init => SeriesInv
<1> SUFFICES ASSUME Init PROVE SeriesInv
  OBVIOUS
<1>1. Len(log) = 0 /\ Runs = {} /\ log \in Seq(Outcomes) /\ 0 <= MaxRuns
  <2>1. <<>> \in Seq(Outcomes) /\ DOMAIN <<>> = {}
    OBVIOUS
  <2> QED
    BY <2>1, CollectorAssumption DEF Init, Runs
<1>2. Basics
  <2>1. PICK c \in Configurations : url = c.url /\ label = c.label
    BY DEF Init
  <2>2. c \in [url : [Targets -> URLs], label : [URLs -> Labels]]
    BY CollectorAssumption
  <2>3. c = [url |-> url, label |-> label] /\ url \in [Targets -> URLs] /\ label \in [URLs -> Labels]
    BY <2>1, <2>2
  <2>4. pc \in [Workers -> Stages] /\ \A w \in Workers : pc[w] = "idle"
    BY DEF Init, Stages
  <2>5. run \in [Workers -> 0..Len(log)]
    BY <1>1 DEF Init
  <2> QED
    BY <1>1, <2>3, <2>4, <2>5 DEF Init, Basics
<1>3. OnItsWay /\ OneEach
  BY DEF Init, OnItsWay, OneEach
<1>4. Cached
  BY CollectorAssumption DEF Init, Cached
<1>5. /\ \A u : Told(u) = {}
      /\ \A c : ToldAs(c) = {}
      /\ \A u, l : ToldOf(u, l) = {}
      /\ \A l, s : Counted(l, s) = {}
  BY <1>1 DEF Told, ToldAs, ToldOf, Counted
<1>6. Counters
  BY <1>5, FS_EmptySet DEF Init, Counters
<1>7. GaugesTell
  <2>1. Newest({}) = 0
    BY NewestIs
  <2>2. gauge \in [Gauges -> [Labels -> 0..Len(log)]]
    BY <1>1 DEF Init
  <2> QED
    BY <1>5, <2>1, <2>2 DEF Init, GaugesTell
<1> QED
  BY <1>2, <1>3, <1>4, <1>6, <1>7 DEF SeriesInv

\* A run begins, and everything else is as it was.
LEMMA RecordStep ==
    ASSUME SeriesInv, NEW w \in Workers, NEW r \in Outcomes, Record(w, r)
    PROVE  SeriesInv'
<1> USE DEF SeriesInv
<1>1. Basics' /\ OnItsWay' /\ OneEach' /\ Cached'
  BY RecordBasics, RecordOnItsWay, RecordOneEach, RecordCached
<1>2. /\ SameRuns /\ UNCHANGED <<duration, errs, runs, gauge, tlsChild>>
      /\ Len(log') \in Nat /\ Len(log) <= Len(log')
  <2>1. Len(log) \in Nat /\ Len(log') = Len(log) + 1
    BY RunsAre DEF Record, Basics
  <2>2. /\ UNCHANGED <<duration, errs, runs, gauge, tlsChild>>
        /\ url' = url /\ label' = label /\ perTarget' = perTarget
    BY DEF Record, seriesVars, cacheVars, confVars
  <2>3. \A i \in Runs : log'[i] = log[i]
    BY RecordPlace
  <2> QED
    BY <2>1, <2>2, <2>3 DEF SameRuns
<1>3. \A u \in Updates : Told(u)' = Told(u)
  BY RecordTells DEF TellsNothing
<1>4. Counters'
  BY <1>2, <1>3, CountersStill DEF Updates
<1>5. GaugesTell'
  BY <1>2, <1>3, GaugesStill DEF Updates, Gauges
<1> QED
  BY <1>1, <1>4, <1>5

\* The steps of record add no run to the log.
LEMMA SameLog ==
    ASSUME Basics, UNCHANGED <<confVars, log>>
    PROVE  SameRuns /\ log' = log /\ Len(log') \in Nat /\ Len(log) <= Len(log')
  BY RunsAre DEF SameRuns, confVars

\* Wherever a step leads: the types, the ways and the targets of the workers.
LEMMA StepPlace ==
    ASSUME SeriesInv, NEW w \in Workers, Step(w)
    PROVE  /\ Basics' /\ OnItsWay' /\ OneEach'
           /\ pc[w] # "idle" /\ SameRuns /\ log' = log
           /\ Len(log') \in Nat /\ Len(log) <= Len(log')
<1> USE DEF SeriesInv
<1>1. PICK to : Way(w, to) /\ Goes(w, pc[w], to) /\ UNCHANGED <<confVars, log, run, scraping>>
  BY StepWay
<1>2. UNCHANGED <<confVars, log, run>>
  BY <1>1
<1> QED
  BY <1>1, <1>2, WayBasics, WayOnItsWay, WayOneEach, WayGoes, SameLog

\* The lookup of the series keeps the invariant.
LEMMA OpeningStep ==
    ASSUME SeriesInv, NEW w \in Workers,
           Lookup(w) \/ Resolve(w) \/ LockSeries(w) \/ Insert(w)
    PROVE  SeriesInv'
<1> USE DEF SeriesInv
<1>1. Step(w)
  BY DEF Step
<1>2. Cached'
  BY OpeningCached
<1>3. UNCHANGED <<duration, errs, runs, gauge, tlsChild>>
  BY DEF Lookup, Resolve, LockSeries, Insert, seriesVars, cacheVars
<1>4. \A u \in Updates : Told(u)' = Told(u)
  BY OpeningTells DEF TellsNothing
<1>5. Counters'
  BY <1>1, <1>3, <1>4, StepPlace, CountersStill DEF Updates
<1>6. GaugesTell'
  BY <1>1, <1>3, <1>4, StepPlace, GaugesStill DEF Updates, Gauges
<1> QED
  BY <1>1, <1>2, <1>5, <1>6, StepPlace

\* Behind the lookup nobody touches the cache.
LEMMA LaterStep ==
    ASSUME SeriesInv, NEW w \in Workers, Step(w), pc[w] \notin Opening,
           UNCHANGED <<mu, byURL, child, tlsCached, tlsChild>>
    PROVE  Cached'
<1> USE DEF SeriesInv
<1>1. PICK to : Way(w, to) /\ Goes(w, pc[w], to) /\ UNCHANGED <<confVars, log, run, scraping>>
  BY StepWay
<1>2. UNCHANGED <<confVars, log, run, mu, byURL, child>>
  BY <1>1
<1> QED
  BY <1>1, <1>2, LaterCached

\* The counts of the fleet.
LEMMA CountStep ==
    ASSUME SeriesInv, NEW w \in Workers, CountError(w) \/ Observe(w) \/ CountClass(w)
    PROVE  SeriesInv'
<1> USE DEF SeriesInv
<1>1. Step(w) /\ pc[w] \notin Opening
  BY DEF Step, CountError, Observe, CountClass, Goes, Opening
<1>2. /\ UNCHANGED <<gauge, tlsChild, runs>>
      /\ UNCHANGED <<mu, byURL, child, tlsCached, tlsChild>>
  BY DEF CountError, Observe, CountClass, cacheVars
<1>3. Cached'
  BY <1>1, <1>2, LaterStep
<1>4. \E x \in {"duration", "class"} : TellsOnly(w, x)
  BY CountErrorTells, ObserveTells, CountClassTells
<1>5. perTarget => \A u \in Gauges \cup {"child"} : Told(u)' = Told(u)
  BY <1>4 DEF TellsOnly, Updates, Gauges
<1>6. GaugesTell'
  BY <1>1, <1>2, <1>5, StepPlace, GaugesStill
<1>7. Counters'
  <2>1. CASE CountError(w)
    <3>1. ClassOf(Of(w)) = "unknown"
      BY <2>1 DEF CountError, Goes, OnItsWay, ClassOf
    <3>2. errs' = [errs EXCEPT ![ClassOf(Of(w))] = @ + 1] /\ duration' = duration
      BY <2>1, <3>1 DEF CountError
    <3> QED
      BY <1>1, <1>2, <2>1, <3>2, CountErrorTells, StepPlace, ClassCounted
  <2>2. CASE Observe(w)
    <3>1. duration' = duration + 1 /\ errs' = errs
      BY <2>2 DEF Observe
    <3> QED
      BY <1>1, <1>2, <2>2, <3>1, ObserveTells, StepPlace, DurationCounted
  <2>3. CASE CountClass(w)
    <3>1. ClassOf(Of(w)) = IF Of(w).class \in Classes THEN Of(w).class ELSE "unknown"
      BY <2>3 DEF CountClass, Goes, OnItsWay, ClassOf
    <3>2. errs' = [errs EXCEPT ![ClassOf(Of(w))] = @ + 1] /\ duration' = duration
      BY <2>3, <3>1 DEF CountClass
    <3> QED
      BY <1>1, <1>2, <2>3, <3>2, CountClassTells, StepPlace, ClassCounted
  <2> QED
    BY <2>1, <2>2, <2>3
<1> QED
  BY <1>1, <1>3, <1>6, <1>7, StepPlace

\* The updates of the series of a target.
LEMMA SeriesStep ==
    ASSUME SeriesInv, NEW w \in Workers,
           SetUp(w) \/ CountRun(w) \/ SetStatus(w) \/ SetLatency(w) \/ SetLast(w)
             \/ ResolveTLS(w) \/ SetTLS(w)
    PROVE  SeriesInv'
<1> USE DEF SeriesInv
<1>1. Step(w) /\ pc[w] \notin Opening
  BY DEF Step, SetUp, CountRun, SetStatus, SetLatency, SetLast, ResolveTLS, SetTLS, Goes,
         Opening
<1>2. ASSUME NEW x \in Gauges, NEW from, NEW to, Route(w, from, to, x), Goes(w, from, to),
             Set(w, x), UNCHANGED <<confVars, log, run, cacheVars, runs, duration, errs>>
      PROVE  SeriesInv'
  <2>1. UNCHANGED <<mu, byURL, child, tlsCached, tlsChild>>
    BY <1>2 DEF cacheVars
  <2>2. perTarget /\ TellsOnly(w, x)
    BY <1>2, RouteTells
  <2>3. Cached'
    BY <1>1, <2>1, LaterStep
  <2>4. GaugesTell'
    BY <1>1, <1>2, <2>1, <2>2, StepPlace, GaugeSet
  <2>5. /\ Told("duration")' = Told("duration") /\ Told("class")' = Told("class")
        /\ Told("runs")' = Told("runs")
    BY <2>2 DEF TellsOnly, Updates, Gauges
  <2>6. Counters'
    BY <1>1, <1>2, <2>5, StepPlace, CountersStill
  <2> QED
    BY <1>1, <2>3, <2>4, <2>6, StepPlace
<1>3. CASE SetUp(w)
  BY <1>2, <1>3 DEF SetUp, Route, Gauges
<1>4. CASE SetStatus(w)
  BY <1>2, <1>4 DEF SetStatus, Route, Gauges
<1>5. CASE SetLatency(w)
  BY <1>2, <1>5 DEF SetLatency, Route, Gauges
<1>6. CASE SetLast(w)
  BY <1>2, <1>6 DEF SetLast, Route, Gauges
<1>7. CASE SetTLS(w)
  BY <1>2, <1>7 DEF SetTLS, Route, Gauges
<1>8. CASE CountRun(w)
  <2>1. /\ UNCHANGED <<confVars, log, run>>
        /\ UNCHANGED <<mu, byURL, child, tlsCached, tlsChild>>
        /\ UNCHANGED <<gauge, duration, errs>>
        /\ runs' = [runs EXCEPT ![L(w)][IF Of(w).up THEN "up" ELSE "down"] = @ + 1]
    BY <1>8 DEF CountRun, cacheVars
  <2>2. PICK to : Route(w, "runs", to, "runs") /\ Goes(w, "runs", to)
    BY <1>8 DEF CountRun, Route
  <2>3. perTarget /\ TellsOnly(w, "runs")
    BY <2>1, <2>2, RouteTells
  <2>4. Cached'
    BY <1>1, <2>1, LaterStep
  <2>5. Counters'
    BY <1>1, <2>1, <2>3, StepPlace, RunCounted
  <2>6. \A u \in Gauges \cup {"child"} : Told(u)' = Told(u)
    BY <2>3 DEF TellsOnly, Updates, Gauges
  <2>7. GaugesTell'
    BY <1>1, <2>1, <2>6, StepPlace, GaugesStill
  <2> QED
    BY <1>1, <2>4, <2>5, <2>7, StepPlace
<1>9. CASE ResolveTLS(w)
  <2>1. /\ UNCHANGED <<confVars, log, run, mu, byURL, child>>
        /\ UNCHANGED <<gauge, runs, duration, errs>>
        /\ pc[w] = "tls"
        /\ tlsCached' = tlsCached \cup {Of(w).url} /\ tlsChild' = tlsChild \cup {L(w)}
    BY <1>9 DEF ResolveTLS, seriesVars, Goes
  <2>2. Route(w, "tls", "set_tls", "child") /\ Goes(w, "tls", "set_tls")
    BY <1>9 DEF ResolveTLS, Route
  <2>3. perTarget /\ TellsOnly(w, "child")
    <3>1. UNCHANGED <<confVars, log, run>>
      BY <2>1
    <3> QED
      BY <2>2, <3>1, RouteTells
  <2>4. Cached'
    <3>1. PICK to : Way(w, to) /\ Goes(w, pc[w], to)
      BY <1>1, StepWay
    <3> QED
      BY <1>1, <2>1, <3>1, LaterCached
  <2>5. /\ Told("duration")' = Told("duration") /\ Told("class")' = Told("class")
        /\ Told("runs")' = Told("runs")
    BY <2>3 DEF TellsOnly, Updates
  <2>6. Counters'
    BY <1>1, <2>1, <2>5, StepPlace, CountersStill
  <2>7. GaugesTell'
    BY <1>1, <2>1, <2>3, StepPlace, ChildMade
  <2> QED
    BY <1>1, <2>4, <2>6, <2>7, StepPlace
<1> QED
  BY <1>3, <1>4, <1>5, <1>6, <1>7, <1>8, <1>9

\* Every step keeps the invariant.
LEMMA SeriesInvStep == SeriesInv /\ [Next]_vars => SeriesInv'
<1> SUFFICES ASSUME SeriesInv, [Next]_vars PROVE SeriesInv'
  OBVIOUS
<1>1. ASSUME NEW w \in Workers, Step(w) PROVE SeriesInv'
  BY <1>1, OpeningStep, CountStep, SeriesStep DEF Step
<1>2. ASSUME NEW w \in Workers, NEW r \in Outcomes, Record(w, r) PROVE SeriesInv'
  BY <1>2, RecordStep
<1>3. CASE ScrapeBegins \/ ScrapeEnds \/ UNCHANGED vars
  <2>1. /\ UNCHANGED <<url, label, perTarget, log, pc, run, mu, byURL, child, tlsCached,
                       tlsChild, gauge, runs, duration, errs>>
        /\ scraping \in BOOLEAN => scraping' \in BOOLEAN
    BY <1>3 DEF ScrapeBegins, ScrapeEnds, vars, confVars, cacheVars, seriesVars
  <2>2. Basics'
    BY <2>1 DEF SeriesInv, Basics, Runs
  <2>3. OnItsWay' /\ OneEach' /\ Cached'
    BY <2>1 DEF SeriesInv, OnItsWay, OneEach, Cached, Of, L, Runs
  <2>4. \A u : Told(u)' = Told(u)
    BY <2>1 DEF Told, Ahead, Of, Runs
  <2>5. SameRuns /\ Len(log') \in Nat /\ Len(log) <= Len(log')
    BY <2>1, RunsAre DEF SameRuns, SeriesInv
  <2>6. Counters'
    BY <2>1, <2>4, <2>5, CountersStill DEF SeriesInv
  <2>7. GaugesTell'
    BY <2>1, <2>4, <2>5, GaugesStill DEF SeriesInv
  <2> QED
    BY <2>2, <2>3, <2>6, <2>7 DEF SeriesInv
<1> QED
  BY <1>1, <1>2, <1>3 DEF Next

\* The invariant, for every run of the collector.
THEOREM SeriesInvariant == Spec => []SeriesInv
<1> QED
  BY SeriesInvInit, SeriesInvStep, PTL DEF Spec

-----------------------------------------------------------------------------
(***************************************************************************)
(* The properties.                                                         *)
(***************************************************************************)

\* Whoever holds c.mu in series has resolved the children before: a scrape that holds
\* the vecs' locks cannot keep a lookup of a cached series waiting behind it.
THEOREM LookupsGoOn == Spec => []CachedLookupNeverStalls
<1>1. SeriesInv => CachedLookupNeverStalls
  BY CollectorAssumption DEF SeriesInv, Cached, CachedLookupNeverStalls
<1> QED
  BY SeriesInvariant, <1>1, PTL

\* The invariant implies the types of Collector.
LEMMA TypesOfSeries == SeriesInv => TypeOK
<1> SUFFICES ASSUME SeriesInv PROVE TypeOK
  OBVIOUS
<1>1. Len(log) \in Nat /\ Runs = 1..Len(log)
  BY RunsAre DEF SeriesInv
<1>2. duration \in 0..Len(log)
  BY <1>1, ToldRuns, RunsFinite DEF SeriesInv, Counters
<1>3. errs \in [Classes -> 0..Len(log)]
  <2>1. \A c \in Classes : ToldAs(c) \subseteq Runs
    BY ToldRuns DEF ToldAs
  <2>2. \A c \in Classes : errs[c] \in 0..Len(log)
    BY <1>1, <2>1, RunsFinite DEF SeriesInv, Counters
  <2> QED
    BY <2>2 DEF SeriesInv, Counters
<1>4. runs \in [Labels -> [{"up", "down"} -> 0..Len(log)]]
  <2>1. \A l \in Labels, s \in {"up", "down"} : Counted(l, s) \subseteq Runs
    BY ToldRuns DEF Counted, ToldOf
  <2>2. \A l \in Labels, s \in {"up", "down"} : Cardinality(Counted(l, s)) \in 0..Len(log)
    BY <1>1, <2>1, RunsFinite
  <2>3. \A l \in Labels, s \in {"up", "down"} : runs[l][s] \in 0..Len(log)
    BY <1>1, <2>2 DEF SeriesInv, Counters
  <2>4. \A l \in Labels : runs[l] \in [{"up", "down"} -> 0..Len(log)]
    BY <2>3 DEF SeriesInv, Counters
  <2> QED
    BY <2>4 DEF SeriesInv, Counters
<1> QED
  BY <1>2, <1>3, <1>4 DEF SeriesInv, Basics, Cached, GaugesTell, TypeOK

\* Of a label whose runs are over, everything has been told.
LEMMA QuietTold ==
    ASSUME SeriesInv, NEW l, Quiet(l), NEW u
    PROVE  ToldOf(u, l) = {i \in RunsOf(l) : u \in Does(log[i])}
<1>1. ASSUME NEW i \in RunsOf(l), NEW w \in Workers, run[w] = i PROVE ~Ahead(w, u)
  <2>1. L(w) = l
    BY <1>1 DEF RunsOf, L, Of
  <2>2. pc[w] = "idle"
    BY <2>1 DEF Quiet
  <2> QED
    BY <2>2, IdleTold
<1> QED
  BY <1>1 DEF ToldOf, Told, RunsOf

\* Where everything has been told, the gauges are those of the last run.
LEMMA QuietGauges == SeriesInv => GaugesAgree
<1> SUFFICES ASSUME SeriesInv, perTarget, NEW l \in Labels, Quiet(l), Unshared(l)
             PROVE  /\ \A g \in {"up", "status", "last"} : gauge[g][l] = Newest(RunsOf(l))
                    /\ gauge["latency"][l] = Newest({i \in RunsOf(l) : ~log[i].err})
                    /\ gauge["tls"][l] = Newest({i \in RunsOf(l) : log[i].tls})
                    /\ l \in tlsChild <=> \E i \in RunsOf(l) : log[i].tls
  BY DEF GaugesAgree
<1>1. \A g \in Gauges : gauge[g][l] = Newest({i \in RunsOf(l) : g \in Does(log[i])})
  BY QuietTold DEF SeriesInv, GaugesTell
<1>2. \A g \in {"up", "status", "last"} : {i \in RunsOf(l) : g \in Does(log[i])} = RunsOf(l)
  BY DEF Does
<1>3. {i \in RunsOf(l) : "latency" \in Does(log[i])} = {i \in RunsOf(l) : ~log[i].err}
  BY DEF Does
<1>4. {i \in RunsOf(l) : "tls" \in Does(log[i])} = {i \in RunsOf(l) : log[i].tls}
  BY DEF Does
<1>5. l \in tlsChild <=> {i \in RunsOf(l) : "child" \in Does(log[i])} # {}
  BY QuietTold DEF SeriesInv, GaugesTell
<1>6. \A i : "child" \in Does(log[i]) <=> log[i].tls
  BY DEF Does
<1> QED
  BY <1>1, <1>2, <1>3, <1>4, <1>5, <1>6 DEF Gauges

\* Where everything has been told, the counters have all runs.
LEMMA QuietRuns == SeriesInv => RunsCounted
<1> SUFFICES ASSUME SeriesInv, perTarget, NEW l \in Labels, Quiet(l)
             PROVE  /\ runs[l]["up"] = Cardinality({i \in RunsOf(l) : log[i].up})
                    /\ runs[l]["down"] = Cardinality({i \in RunsOf(l) : ~log[i].up})
  BY TypesOfSeries DEF RunsCounted
<1>1. ToldOf("runs", l) = RunsOf(l)
  <2>1. \A i : "runs" \in Does(log[i])
    BY DEF Does
  <2> QED
    BY <2>1, QuietTold
<1>2. Counted(l, "up") = {i \in RunsOf(l) : log[i].up}
  BY <1>1 DEF Counted
<1>3. Counted(l, "down") = {i \in RunsOf(l) : ~log[i].up}
  BY <1>1 DEF Counted
<1> QED
  BY <1>2, <1>3 DEF SeriesInv, Counters

\* Whatever the workers, the scrapes and the labelling: once no run of a label is under
\* way its gauges are those of its last run and its counters those of all its runs, so
\* the racing resolvers of series lose nothing and count nothing twice.
THEOREM SeriesAreTrue == Spec => []SeriesTrue
<1>1. SeriesInv => SeriesTrue
  BY QuietGauges, QuietRuns DEF SeriesTrue
<1> QED
  BY SeriesInvariant, <1>1, PTL

\* While nobody records, every run has told all that it does.
LEMMA IdleTells ==
    ASSUME AllIdle, NEW u
    PROVE  Told(u) = {i \in Runs : u \in Does(log[i])}
<1>1. \A i \in Runs, w \in Workers : run[w] = i => ~Ahead(w, u)
  BY IdleTold DEF AllIdle
<1> QED
  BY <1>1 DEF Told

\* The classes are a partition of the runs that were down.
LEMMA FleetErrors ==
    ASSUME SeriesInv, AllIdle
    PROVE  SumFunction(errs) = Cardinality({i \in Runs : ~log[i].up})
<1> DEFINE T == Told("class")
           part == [i \in T |-> ClassOf(log[i])]
<1>1. IsFiniteSet(T)
  BY RunsAre, ToldRuns, RunsFinite DEF SeriesInv
<1>2. part \in [T -> Classes]
  BY CollectorAssumption DEF ClassOf
<1>3. errs \in [Classes -> Nat] /\ \A c \in Classes : errs[c] = Cardinality({i \in T : part[i] = c})
  BY DEF SeriesInv, Counters, ToldAs
<1>4. T = {i \in Runs : ~log[i].up}
  <2>1. \A i \in Runs : "class" \in Does(log[i]) <=> log[i].err \/ log[i].class # "none"
    BY DEF Does
  <2>2. \A r \in Outcomes : r.err \/ r.class # "none" <=> ~r.up
    BY CollectorAssumption DEF Outcomes
  <2>3. \A i \in Runs : log[i] \in Outcomes
    BY RunsAre DEF SeriesInv
  <2> QED
    BY <2>1, <2>2, <2>3, IdleTells
<1> HIDE DEF T, part
<1>5. IsFiniteSet(Classes)
  BY CollectorAssumption
<1> QED
  BY <1>1, <1>2, <1>3, <1>4, <1>5, SumOfParts

\* The labels are a partition of the runs that were down.
LEMMA FleetDown ==
    ASSUME SeriesInv, AllIdle, perTarget
    PROVE  SumFunction([l \in Labels |-> runs[l]["down"]]) = Cardinality({i \in Runs : ~log[i].up})
<1> DEFINE T == {i \in Runs : ~log[i].up}
           part == [i \in T |-> label[log[i].url]]
           f == [l \in Labels |-> runs[l]["down"]]
<1>0. Len(log) \in Nat /\ Runs = 1..Len(log) /\ \A i \in Runs : log[i] \in Outcomes
  BY RunsAre DEF SeriesInv
<1>1. IsFiniteSet(T)
  BY <1>0, RunsFinite
<1>2. part \in [T -> Labels]
  BY <1>0, OutcomeType DEF SeriesInv, Basics
<1>3. f \in [Labels -> Nat]
  BY DEF SeriesInv, Counters
<1>4. \A l \in Labels : f[l] = Cardinality({i \in T : part[i] = l})
  <2> TAKE l \in Labels
  <2>1. f[l] = Cardinality(Counted(l, "down"))
    BY DEF SeriesInv, Counters
  <2>2. Told("runs") = Runs
    <3>1. \A i \in Runs : "runs" \in Does(log[i])
      BY DEF Does
    <3> QED
      BY <3>1, IdleTells
  <2>3. Counted(l, "down") = {i \in T : part[i] = l}
    BY <2>2 DEF Counted, ToldOf
  <2> QED
    BY <2>1, <2>3
<1> HIDE DEF T, part, f
<1>5. SumFunction(f) = Cardinality(T)
  BY <1>1, <1>2, <1>3, <1>4, CollectorAssumption, SumOfParts
<1> QED
  BY <1>5 DEF f, T

\* For any number of targets and classes: once no run is under way the failures that
\* the fleet's errors_total tells are the down runs, which are the sum over the
\* targets' own runs_total, and the histogram has every run but the errors of Run
\* (metrics.go, Check).
THEOREM FleetAgrees == Spec => []FleetAgreesWithTargets
<1>1. SeriesInv => FleetAgreesWithTargets
  <2> SUFFICES ASSUME SeriesInv, AllIdle
               PROVE  /\ SumFunction(errs) = Cardinality({i \in Runs : ~log[i].up})
                      /\ perTarget => SumFunction([l \in Labels |-> runs[l]["down"]])
                                        = SumFunction(errs)
                      /\ duration = Cardinality({i \in Runs : ~log[i].err})
    BY DEF FleetAgreesWithTargets
  <2>1. Told("duration") = {i \in Runs : ~log[i].err}
    <3>1. \A i \in Runs : "duration" \in Does(log[i]) <=> ~log[i].err
      BY DEF Does
    <3> QED
      BY <3>1, IdleTells
  <2> QED
    BY <2>1, FleetErrors, FleetDown DEF SeriesInv, Counters
<1> QED
  BY SeriesInvariant, <1>1, PTL

=============================================================================
