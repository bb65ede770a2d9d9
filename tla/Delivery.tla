------------------------------ MODULE Delivery ------------------------------
(***************************************************************************)
(* From an encoded event to its line in the file: the publish loop of     *)
(* runOne (src/runner/runner.go), run by the workers of the pool, over the *)
(* line sink of LineSink.  A record is one run's event; each attempt to    *)
(* publish it is a publish of the sink, with the same bytes.               *)
(*                                                                         *)
(* With Grace the sink may be closed under workers that are still at it:   *)
(* Run gave up waiting for them (ErrShutdownTimeout) and its caller went   *)
(* on.  Without, as descry runs it, Run waits for all of them first.       *)
(***************************************************************************)
EXTENDS LineSink, FiniteSets

CONSTANTS
    Workers,
    MaxAttempts,  \* maxPublishAttempts
    MaxRecords,   \* bound on the runs that come to publish
    Grace         \* WithShutdownGrace is set

ASSUME DeliveryAssumption ==
    /\ MaxAttempts \in Nat \ {0} /\ MaxRecords \in Nat
    /\ MaxPublish = MaxAttempts * MaxRecords
    /\ Grace \in BOOLEAN

VARIABLES
    task,       \* of each worker: "idle", "trying", "writing" or "backoff"
    rec,        \* the record it has, 0 when idle
    of,         \* the record of each publish
    records,    \* records begun
    result,     \* of each record: what its Result says, "none" until then
    cancelled   \* ctx.Done() is closed

loop == <<task, rec, of, records, result, cancelled>>

Attempts(r) == {p \in 1..count : of[p] = r}

DInit ==
    /\ Init
    /\ task = [w \in Workers |-> "idle"]
    /\ rec = [w \in Workers |-> 0]
    /\ of = [p \in 1..MaxPublish |-> 0]
    /\ records = 0
    /\ result = [r \in 1..MaxRecords |-> "none"]
    /\ cancelled = FALSE

\* The worker's run has come to an event to publish.  The run began before the
\* cancellation; the event may come after it.
Encoded(w) ==
    /\ state = "open"
    /\ task[w] = "idle"
    /\ records < MaxRecords
    /\ records' = records + 1
    /\ rec' = [rec EXCEPT ![w] = records + 1]
    /\ task' = [task EXCEPT ![w] = "trying"]
    /\ UNCHANGED <<vars, of, result, cancelled>>

Report(w, res) ==
    /\ result' = [result EXCEPT ![rec[w]] = res]
    /\ task' = [task EXCEPT ![w] = "idle"]
    /\ rec' = [rec EXCEPT ![w] = 0]

\* An attempt returned an error: back off, unless it was the last.
Failed(w) ==
    IF Cardinality({p \in 1..count' : of'[p] = rec[w]}) = MaxAttempts
    THEN Report(w, "error")
    ELSE task' = [task EXCEPT ![w] = "backoff"] /\ UNCHANGED <<rec, result>>

\* The worker gets the sink's mutex.  The first attempt is made even when ctx is
\* done already.
Attempt(w) ==
    /\ task[w] = "trying"
    /\ Publish
    /\ of' = [of EXCEPT ![count + 1] = rec[w]]
    /\ \A p \in Attempts(rec[w]) : size'[count + 1] = size[p]
    /\ IF op' = "publish"
       THEN task' = [task EXCEPT ![w] = "writing"] /\ UNCHANGED <<rec, result>>
       ELSE Failed(w)
    /\ UNCHANGED <<records, cancelled>>

AttemptFails(w) ==
    /\ task[w] = "writing"
    /\ WriteFails
    /\ UNCHANGED of
    /\ Failed(w)
    /\ UNCHANGED <<records, cancelled>>

\* Variant: the loop goes on after a success.
SucceedsAndGoesOn(w) ==
    /\ task[w] = "writing"
    /\ Published
    /\ UNCHANGED of
    /\ Failed(w)
    /\ UNCHANGED <<records, cancelled>>

AttemptSucceeds(w) ==
    /\ task[w] = "writing"
    /\ Published
    /\ Report(w, "nil")
    /\ UNCHANGED <<of, records, cancelled>>

BackoffOver(w) ==
    /\ task[w] = "backoff"
    /\ task' = [task EXCEPT ![w] = "trying"]
    /\ UNCHANGED <<vars, rec, of, records, result, cancelled>>

\* Variant: the error is shadowed in the loop, what is reported is still nil.
BackoffForgets(w) ==
    /\ task[w] = "backoff"
    /\ cancelled
    /\ Report(w, "nil")
    /\ UNCHANGED <<vars, of, records, cancelled>>

\* ctx.Done() wins the select of the back-off (it need not: both may be ready).
BackoffCancelled(w) ==
    /\ task[w] = "backoff"
    /\ cancelled
    /\ Report(w, "error")
    /\ UNCHANGED <<vars, of, records, cancelled>>

Cancel ==
    /\ state = "open"
    /\ ~cancelled
    /\ cancelled' = TRUE
    /\ UNCHANGED <<vars, task, rec, of, records, result>>

\* The sink is closed once Run has returned.
CloseSink ==
    /\ cancelled
    /\ Grace \/ \A w \in Workers : task[w] = "idle"
    /\ Close
    /\ UNCHANGED loop

NoTasks ==
    /\ task' = [w \in Workers |-> "idle"]
    /\ rec' = [w \in Workers |-> 0]

\* A new process; whatever was under way in the old one is gone.
Restart ==
    /\ Open
    /\ NoTasks
    /\ cancelled' = FALSE
    /\ UNCHANGED <<of, records, result>>

\* The steps of the sink that are not the end of an attempt.
SinkStep ==
    /\ WriteAll \/ (op = "close" /\ WriteFails) \/ Closed \/ Foreign
    /\ UNCHANGED loop

ProcessDies ==
    /\ Crash
    /\ NoTasks
    /\ UNCHANGED <<of, records, result, cancelled>>

DNext ==
    \/ \E w \in Workers :
        \/ Encoded(w) \/ Attempt(w)
        \/ AttemptFails(w) \/ AttemptSucceeds(w)
        \/ BackoffOver(w) \/ BackoffCancelled(w)
    \/ Cancel \/ CloseSink \/ SinkStep
    \/ ProcessDies \/ Restart

DSpec == DInit /\ [][DNext]_<<vars, loop>>

-----------------------------------------------------------------------------
\* Where the file holds the record as a line of its own, whole and ended.
Copies(r) ==
    {i \in 1..Len(file) : \E p \in Attempts(r) :
        /\ i + size[p] <= Len(file)
        /\ i = 1 \/ file[i - 1] = NL
        /\ SubSeq(file, i, i + size[p]) = Line(p, size[p])}

\* The Result tells what became of the event: with a nil error it is in the file,
\* with an error it was tried, and no attempt was acknowledged (runner.go, runOne,
\* over sink.go, Publish: flushed before Publish returns).
ResultIsTrue ==
    /\ AnswersTruly
    /\ \A r \in 1..records :
        /\ result[r] = "nil" => Attempts(r) \cap acked # {}
        /\ result[r] = "error" => Attempts(r) # {} /\ Attempts(r) \cap acked = {}

\* A record is in the file twice only when an attempt failed after its bytes had
\* reached the file, and the copy that was acknowledged is the last one (runner.go,
\* runOne, over sink.go, publishLine).
DeliveredOnce ==
    \A r \in 1..records :
        /\ \A p \in Attempts(r) \cap acked : \A q \in Attempts(r) : q <= p
        /\ Cardinality(Copies(r)) <= 1 + Cardinality(Attempts(r) \cap excused)
        /\ Cardinality(Attempts(r)) <= MaxAttempts
        /\ faults = 0 => Cardinality(Copies(r)) <= 1

=============================================================================
