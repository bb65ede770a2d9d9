------------------------------- MODULE Config -------------------------------
(***************************************************************************)
(* From the YAML document to the targets the runner gets: Load of          *)
(* src/config/config.go with its defaults and refusals, the flags that     *)
(* override it, and checkLabelCollisions and buildTargets of               *)
(* src/cmd/descry/main.go.  The duration fields of a document are numbers, *)
(* Absent or Malformed.                                                    *)
(***************************************************************************)
EXTENDS TargetLabel, Integers

CONSTANTS
    Absent, Malformed,
    MinInterval,
    DefaultInterval, DefaultTimeout, DefaultConcurrency

ASSUME ConfigAssumption ==
    /\ {MinInterval, DefaultTimeout, DefaultConcurrency} \subseteq Nat \ {0}
    /\ DefaultInterval \in Nat /\ MinInterval <= DefaultInterval
    /\ Absent \notin Int /\ Malformed \notin Int

emptyURL == [kind |-> "schemeless", rest |-> <<>>]

OrDefault(field, default) ==
    IF field = Absent THEN default ELSE IF field <= 0 THEN default ELSE field

BelowFloor(field) == field # Absent /\ 0 < field /\ field < MinInterval

ValidSink(sink, path) == sink = "stdout" \/ (sink = "file" /\ path # "")

SinkOf(doc) == IF doc.sink = "" THEN "stdout" ELSE doc.sink

BadInterval(field) == field = Malformed \/ (field # Absent /\ field < 0) \/ BelowFloor(field)

\* Variant: the floor is for the top-level interval only.
RefusesTargetLoosely(t) ==
    t.url = emptyURL \/ t.interval = Malformed \/ (t.interval # Absent /\ t.interval < 0)

RefusesTarget(t) == t.url = emptyURL \/ BadInterval(t.interval)

\* What Load refuses.  A negative top-level interval is none of it: it means the default.
Refuses(doc) ==
    \/ ~doc.decodes
    \/ doc.interval = Malformed \/ BelowFloor(doc.interval)
    \/ doc.timeout = Malformed
    \/ doc.source = ""
    \/ ~ValidSink(SinkOf(doc), doc.path)
    \/ doc.targets = <<>>
    \/ \E i \in 1..Len(doc.targets) : RefusesTarget(doc.targets[i])

Loaded(doc) ==
    [source      |-> doc.source,
     sink        |-> SinkOf(doc),
     path        |-> doc.path,
     interval    |-> OrDefault(doc.interval, DefaultInterval),
     timeout     |-> OrDefault(doc.timeout, DefaultTimeout),
     concurrency |-> OrDefault(doc.concurrency, DefaultConcurrency),
     targets     |-> [i \in 1..Len(doc.targets) |->
                        [doc.targets[i] EXCEPT !.interval = OrDefault(@, 0)]]]

Override(cfg, flags) ==
    [cfg EXCEPT !.sink = IF flags.sink = "" THEN @ ELSE flags.sink,
                !.path = IF flags.path = "" THEN @ ELSE flags.path]

\* event.NewEncoder: the source has to be a URI reference, which Load does not ask.
Encodes(source) == source # "unusable"

\* Variant: only copies of one URL are seen.
SharesURL(ts) == \E i, j \in 1..Len(ts) : i < j /\ ts[i].url = ts[j].url

\* checkLabelCollisions finds a label that two targets share.
SharesLabel(ts) == \E i, j \in 1..Len(ts) : i < j /\ Label(ts[i].url) = Label(ts[j].url)

\* buildTargets: the subject of a target's events is its own url label, or derived.
Built(cfg) ==
    [i \in 1..Len(cfg.targets) |->
        LET t == cfg.targets[i]
        IN  [url |-> t.url, interval |-> t.interval,
             subject |-> IF t.label = <<>> THEN Label(t.url)
                         ELSE [kind |-> "verbatim", rest |-> t.label]]]

\* entry.interval of the runner.
Effective(t, cfg) == IF t.interval <= 0 THEN cfg.interval ELSE t.interval

=============================================================================
