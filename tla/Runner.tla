------------------------------- MODULE Runner -------------------------------
(***************************************************************************)
(* The scheduler goroutine, the worker pool and the channels between them, *)
(* as built by Run in src/runner/runner.go.                                *)
(*                                                                         *)
(* Wall-clock time is abstracted: on every lap any entry may be the one    *)
(* that is due, or none may be (module Cadence is about the clock).  A     *)
(* step is one visible operation on shared state: a channel operation, an  *)
(* atomic load or store, a look at the context.  Slots are counted when    *)
(* the scheduler commits to them: a successful dispatch or a skip.         *)
(*                                                                         *)
(* An operator marked "Variant" is not part of the specification: it is a  *)
(* plausible bug of the operator it precedes, kept to show which property  *)
(* would catch it.                                                         *)
(***************************************************************************)
EXTENDS Naturals, Sequences, FiniteSets, Functions

CONSTANTS
    Entries,    \* the configured targets
    Workers,    \* the goroutines of the pool
    NoEntry,    \* "no entry" in the hands of a goroutine
    Unruly,     \* entries whose Check or Publish may ignore its context for ever
    MaxSlots    \* bound on the slots processed per entry

MaxAttempts == 3

ASSUME RunnerAssumption ==
    /\ IsFiniteSet(Entries)
    /\ Workers # {}
    /\ NoEntry \notin Entries
    /\ Unruly \subseteq Entries
    /\ MaxSlots \in Nat

VARIABLES
    encOK,      \* New accepted the event config (encErr = nil)
    grace,      \* WithShutdownGrace set a positive bound
    stuck,      \* the entries whose Check or Publish does ignore its context
    cancelled,  \* the context handed to Run is done
    refused,    \* a second call of Run was turned away
    spc,        \* where the goroutine of Run (the scheduler) is
    cur,        \* the entry the scheduler is dispatching or skipping
    verdict,    \* what the last skip blamed
    settled,    \* history: acks already delivered when this lap began
    outcome,    \* what Run returned
    work,       \* channel scheduler -> workers
    workClosed,
    done,       \* channel workers -> scheduler
    inflight,   \* entry.inflight, owned by the scheduler
    started,    \* entry.started, atomic
    wpc,        \* where each worker is
    held,       \* the entry each worker has dequeued
    attempts,   \* Publish calls made for that entry
    pubOK,      \* the last of them succeeded
    buffered,   \* Results waiting in the results channel
    closes,     \* times the results channel was closed
    skipped,    \* Runner.skipped
    dropped,    \* Runner.dropped
    slots,      \* slots processed, per entry
    tally       \* what became of them, per entry

schedVars  == <<spc, cur, verdict, settled, outcome>>
chanVars   == <<work, workClosed, done>>
entryVars  == <<inflight, started>>
workerVars == <<wpc, held, attempts, pubOK>>
resultVars == <<buffered, closes, skipped, dropped, slots, tally>>
envVars    == <<encOK, grace, stuck, cancelled, refused>>

vars == <<schedVars, chanVars, entryVars, workerVars, resultVars, envVars>>

N == Cardinality(Entries)

\* make(chan Result, 2*len(targets)+1)
ResultsCap == 2 * N + 1

Verdicts == {"none", "slow", "queued"}

\* Delivered on Results() as a completion, as ErrSkipped, as ErrSkippedQueued;
\* discarded because the channel was full; acked at shutdown without a run.
Fates == {"completed", "slow", "queued", "lost", "unrun"}

SchedStates  == {"new", "drain", "judge", "wait", "send", "report",
                 "stopped", "waiting", "returned"}
WorkerStates == {"none", "idle", "got", "go", "check", "publish", "backoff",
                 "report", "ack", "exit"}
Outcomes     == {"none", "config", "clean", "timeout"}

ElementsOf(s) == {s[i] : i \in 1..Len(s)}

Holding(w) == wpc[w] \notin {"none", "idle", "exit"}

\* The worker is inside runOne, or has left it and not yet acked.
InRun(w) == wpc[w] \in {"check", "publish", "backoff", "report"}

AllGone == \A w \in Workers : wpc[w] \in {"none", "exit"}

-----------------------------------------------------------------------------
Init ==
    /\ encOK \in BOOLEAN
    /\ grace \in BOOLEAN
    /\ stuck \in SUBSET Unruly
    /\ cancelled = FALSE
    /\ refused = FALSE
    /\ spc = "new"
    /\ cur = NoEntry
    /\ verdict = "none"
    /\ settled = {}
    /\ outcome = "none"
    /\ work = <<>>
    /\ workClosed = FALSE
    /\ done = <<>>
    /\ inflight = [e \in Entries |-> FALSE]
    /\ started = [e \in Entries |-> FALSE]
    /\ wpc = [w \in Workers |-> "none"]
    /\ held = [w \in Workers |-> NoEntry]
    /\ attempts = [w \in Workers |-> 0]
    /\ pubOK = [w \in Workers |-> FALSE]
    /\ buffered = 0
    /\ closes = 0
    /\ skipped = 0
    /\ dropped = 0
    /\ slots = [e \in Entries |-> 0]
    /\ tally = [e \in Entries |-> [f \in Fates |-> 0]]

Count(e, fate) == tally' = [tally EXCEPT ![e][fate] = @ + 1]

\* Variant: a full channel loses the Result without a trace.
SilentReportResult(e, fate) ==
    \/ /\ buffered < ResultsCap
       /\ buffered' = buffered + 1
       /\ Count(e, fate)
       /\ UNCHANGED dropped
    \/ buffered >= ResultsCap /\ UNCHANGED <<buffered, tally, dropped>>

\* reportResult: a send that never blocks, else a counted drop.
ReportResult(e, fate) ==
    \/ /\ buffered < ResultsCap
       /\ buffered' = buffered + 1
       /\ Count(e, fate)
       /\ UNCHANGED dropped
    \/ /\ buffered >= ResultsCap
       /\ dropped' = dropped + 1
       /\ Count(e, "lost")
       /\ UNCHANGED buffered

\* Variant: started survives the ack.
FinishKeepsStarted(e) ==
    /\ inflight' = [inflight EXCEPT ![e] = FALSE]
    /\ UNCHANGED started

\* finish: the entry's run, or its cancelled dispatch, is over.
Finish(e) ==
    /\ inflight' = [inflight EXCEPT ![e] = FALSE]
    /\ started' = [started EXCEPT ![e] = FALSE]

-----------------------------------------------------------------------------
(***************************************************************************)
(* The environment: the signal that cancels the context, the consumer of   *)
(* Results(), a caller that calls Run again.                               *)
(***************************************************************************)
Cancel ==
    /\ ~cancelled
    /\ cancelled' = TRUE
    /\ UNCHANGED <<encOK, grace, stuck, refused, schedVars, chanVars, entryVars,
                   workerVars, resultVars>>

Consume ==
    /\ buffered > 0
    /\ buffered' = buffered - 1
    /\ UNCHANGED <<closes, skipped, dropped, slots, tally, schedVars, chanVars,
                   entryVars, workerVars, envVars>>

\* The CAS on running fails: the call touches nothing else.
SecondRun ==
    /\ spc # "new"
    /\ ~refused
    /\ refused' = TRUE
    /\ UNCHANGED <<encOK, grace, stuck, cancelled, schedVars, chanVars, entryVars,
                   workerVars, resultVars>>

-----------------------------------------------------------------------------
(***************************************************************************)
(* The goroutine of Run.                                                   *)
(***************************************************************************)

\* A new lap begins: remember which acks are already on done.
BeginLap ==
    /\ spc' = "drain"
    /\ settled' = ElementsOf(done')

RejectConfig ==
    /\ spc = "new"
    /\ ~encOK
    /\ closes' = closes + 1
    /\ spc' = "returned"
    /\ outcome' = "config"
    /\ UNCHANGED <<cur, verdict, settled, buffered, skipped, dropped, slots,
                   tally, chanVars, entryVars, workerVars, envVars>>

StartPool ==
    /\ spc = "new"
    /\ encOK
    /\ wpc' = [w \in Workers |-> "idle"]
    /\ spc' = IF Entries = {} THEN "wait" ELSE "drain"
    /\ UNCHANGED <<cur, verdict, settled, outcome, held, attempts, pubOK,
                   chanVars, entryVars, resultVars, envVars>>

\* One round of drainDone.
DrainOne ==
    /\ spc = "drain"
    /\ done # <<>>
    /\ Finish(Head(done))
    /\ done' = Tail(done)
    /\ UNCHANGED <<work, workClosed, schedVars, workerVars, resultVars,
                   envVars>>

\* Variant: judge what is due without draining done first.
DrainSkipped ==
    /\ spc = "drain"
    /\ spc' = "judge"
    /\ UNCHANGED <<cur, verdict, settled, outcome, chanVars, entryVars,
                   workerVars, resultVars, envVars>>

DrainEmpty ==
    /\ spc = "drain"
    /\ done = <<>>
    /\ spc' = "judge"
    /\ UNCHANGED <<cur, verdict, settled, outcome, chanVars, entryVars,
                   workerVars, resultVars, envVars>>

NothingDue ==
    /\ spc = "judge"
    /\ spc' = "wait"
    /\ UNCHANGED <<cur, verdict, settled, outcome, chanVars, entryVars,
                   workerVars, resultVars, envVars>>

\* Variants: dispatch whatever is due; forget to mark it in flight.
DispatchAnyway(e) ==
    /\ spc = "judge"
    /\ slots[e] < MaxSlots
    /\ inflight' = [inflight EXCEPT ![e] = TRUE]
    /\ cur' = e
    /\ spc' = "send"
    /\ UNCHANGED <<verdict, settled, outcome, started, chanVars, workerVars,
                   resultVars, envVars>>

DispatchUnmarked(e) ==
    /\ spc = "judge"
    /\ slots[e] < MaxSlots
    /\ ~inflight[e]
    /\ cur' = e
    /\ spc' = "send"
    /\ UNCHANGED <<verdict, settled, outcome, entryVars, chanVars, workerVars,
                   resultVars, envVars>>

\* e is due and not in flight.
DispatchDue(e) ==
    /\ spc = "judge"
    /\ slots[e] < MaxSlots
    /\ ~inflight[e]
    /\ inflight' = [inflight EXCEPT ![e] = TRUE]
    /\ cur' = e
    /\ spc' = "send"
    /\ UNCHANGED <<verdict, settled, outcome, started, chanVars, workerVars,
                   resultVars, envVars>>

\* Variant: the blame is the wrong way round.
SkipMisblamed(e) ==
    /\ spc = "judge"
    /\ slots[e] < MaxSlots
    /\ inflight[e]
    /\ skipped' = skipped + 1
    /\ verdict' = IF started[e] THEN "queued" ELSE "slow"
    /\ slots' = [slots EXCEPT ![e] = @ + 1]
    /\ cur' = e
    /\ spc' = "report"
    /\ UNCHANGED <<settled, outcome, buffered, closes, dropped, tally,
                   chanVars, entryVars, workerVars, envVars>>

\* e is due and its prior run is in flight: count, then read started.
SkipDue(e) ==
    /\ spc = "judge"
    /\ slots[e] < MaxSlots
    /\ inflight[e]
    /\ skipped' = skipped + 1
    /\ verdict' = IF started[e] THEN "slow" ELSE "queued"
    /\ slots' = [slots EXCEPT ![e] = @ + 1]
    /\ cur' = e
    /\ spc' = "report"
    /\ UNCHANGED <<settled, outcome, buffered, closes, dropped, tally,
                   chanVars, entryVars, workerVars, envVars>>

ReportSkip ==
    /\ spc = "report"
    /\ ReportResult(cur, verdict)
    /\ cur' = NoEntry
    /\ UNCHANGED done
    /\ BeginLap
    /\ UNCHANGED <<verdict, outcome, closes, skipped, slots, work, workClosed,
                   entryVars, workerVars, envVars>>

\* The first case of the select that dispatches: work <- e.
Send ==
    /\ spc = "send"
    /\ Len(work) < N
    /\ work' = Append(work, cur)
    /\ slots' = [slots EXCEPT ![cur] = @ + 1]
    /\ cur' = NoEntry
    /\ UNCHANGED done
    /\ BeginLap
    /\ UNCHANGED <<verdict, outcome, workClosed, buffered, closes, skipped,
                   dropped, tally, entryVars, workerVars, envVars>>

\* Its second case: <-ctx.Done().  Both may be ready; either may be taken.
SendCancelled ==
    /\ spc = "send"
    /\ cancelled
    /\ spc' = "stopped"
    /\ cur' = NoEntry
    /\ UNCHANGED <<verdict, settled, outcome, chanVars, entryVars, workerVars,
                   resultVars, envVars>>

WaitTimer ==
    /\ spc = "wait"
    /\ Entries # {}
    /\ UNCHANGED done
    /\ BeginLap
    /\ UNCHANGED <<cur, verdict, outcome, work, workClosed, entryVars,
                   workerVars, resultVars, envVars>>

WaitAck ==
    /\ spc = "wait"
    /\ done # <<>>
    /\ Finish(Head(done))
    /\ done' = Tail(done)
    /\ BeginLap
    /\ UNCHANGED <<cur, verdict, outcome, work, workClosed, workerVars,
                   resultVars, envVars>>

WaitCancelled ==
    /\ spc = "wait"
    /\ cancelled
    /\ spc' = "stopped"
    /\ UNCHANGED <<cur, verdict, settled, outcome, chanVars, entryVars,
                   workerVars, resultVars, envVars>>

CloseWork ==
    /\ spc = "stopped"
    /\ workClosed' = TRUE
    /\ spc' = "waiting"
    /\ UNCHANGED <<cur, verdict, settled, outcome, work, done, entryVars,
                   workerVars, resultVars, envVars>>

\* Variant: no wg.Wait.
ReturnAtOnce ==
    /\ spc = "waiting"
    /\ closes' = closes + 1
    /\ spc' = "returned"
    /\ outcome' = "clean"
    /\ UNCHANGED <<cur, verdict, settled, buffered, skipped, dropped, slots,
                   tally, chanVars, entryVars, workerVars, envVars>>

\* wg.Wait (or <-finished) returned: close the results, then return.
ReturnClean ==
    /\ spc = "waiting"
    /\ AllGone
    /\ closes' = closes + 1
    /\ spc' = "returned"
    /\ outcome' = "clean"
    /\ UNCHANGED <<cur, verdict, settled, buffered, skipped, dropped, slots,
                   tally, chanVars, entryVars, workerVars, envVars>>

\* Variant: the grace waits for the stragglers it is there to give up on.
ReturnTimeoutWhenGone ==
    /\ spc = "waiting"
    /\ grace
    /\ AllGone
    /\ spc' = "returned"
    /\ outcome' = "timeout"
    /\ UNCHANGED <<cur, verdict, settled, chanVars, entryVars, workerVars,
                   resultVars, envVars>>

\* <-gt.C: return with the results channel left open.
ReturnTimeout ==
    /\ spc = "waiting"
    /\ grace
    /\ spc' = "returned"
    /\ outcome' = "timeout"
    /\ UNCHANGED <<cur, verdict, settled, chanVars, entryVars, workerVars,
                   resultVars, envVars>>

-----------------------------------------------------------------------------
(***************************************************************************)
(* A worker of the pool.                                                   *)
(***************************************************************************)
GoTo(w, pc) == wpc' = [wpc EXCEPT ![w] = pc]

Dequeue(w) ==
    /\ wpc[w] = "idle"
    /\ work # <<>>
    /\ held' = [held EXCEPT ![w] = Head(work)]
    /\ work' = Tail(work)
    /\ GoTo(w, "got")
    /\ UNCHANGED <<attempts, pubOK, workClosed, done, schedVars, entryVars,
                   resultVars, envVars>>

Exit(w) ==
    /\ wpc[w] = "idle"
    /\ work = <<>>
    /\ workClosed
    /\ GoTo(w, "exit")
    /\ UNCHANGED <<held, attempts, pubOK, schedVars, chanVars, entryVars,
                   resultVars, envVars>>

\* ctx.Err() == nil
Admit(w) ==
    /\ wpc[w] = "got"
    /\ ~cancelled
    /\ GoTo(w, "go")
    /\ UNCHANGED <<held, attempts, pubOK, schedVars, chanVars, entryVars,
                   resultVars, envVars>>

\* ctx.Err() # nil: the entry is acked, not run.
PassOver(w) ==
    /\ wpc[w] = "got"
    /\ cancelled
    /\ GoTo(w, "ack")
    /\ Count(held[w], "unrun")
    /\ UNCHANGED <<held, attempts, pubOK, buffered, closes, skipped, dropped,
                   slots, schedVars, chanVars, entryVars, envVars>>

StartCheck(w) ==
    /\ wpc[w] = "go"
    /\ started' = [started EXCEPT ![held[w]] = TRUE]
    /\ GoTo(w, "check")
    /\ UNCHANGED <<inflight, held, attempts, pubOK, schedVars, chanVars,
                   resultVars, envVars>>

\* chk.Run returned, and Encode after it: an error of either is the Result.
CheckReturns(w) ==
    /\ wpc[w] = "check"
    /\ \/ GoTo(w, "publish")
       \/ GoTo(w, "report")
    /\ UNCHANGED <<held, attempts, pubOK, schedVars, chanVars, entryVars,
                   resultVars, envVars>>

\* Variant: one attempt too many.
PublishOnceMore(w) ==
    /\ wpc[w] = "publish"
    /\ attempts' = [attempts EXCEPT ![w] = @ + 1]
    /\ \E ok \in BOOLEAN :
        /\ pubOK' = [pubOK EXCEPT ![w] = ok]
        /\ GoTo(w, IF ok \/ attempts[w] = MaxAttempts THEN "report" ELSE "backoff")
    /\ UNCHANGED <<held, schedVars, chanVars, entryVars, resultVars, envVars>>

PublishReturns(w) ==
    /\ wpc[w] = "publish"
    /\ attempts' = [attempts EXCEPT ![w] = @ + 1]
    /\ \E ok \in BOOLEAN :
        /\ pubOK' = [pubOK EXCEPT ![w] = ok]
        /\ GoTo(w, IF ok \/ attempts[w] + 1 = MaxAttempts THEN "report" ELSE "backoff")
    /\ UNCHANGED <<held, schedVars, chanVars, entryVars, resultVars, envVars>>

\* Variant: the break leaves the loop whichever case was ready.
BackedOffForGood(w) ==
    /\ wpc[w] = "backoff"
    /\ GoTo(w, "report")
    /\ UNCHANGED <<held, attempts, pubOK, schedVars, chanVars, entryVars,
                   resultVars, envVars>>

\* The select of the back-off: <-time.After retries, <-ctx.Done() gives up.
BackedOff(w) ==
    /\ wpc[w] = "backoff"
    /\ \/ GoTo(w, "publish")
       \/ cancelled /\ GoTo(w, "report")
    /\ UNCHANGED <<held, attempts, pubOK, schedVars, chanVars, entryVars,
                   resultVars, envVars>>

\* Variant: a failed publish is logged and not reported.
ReportOnlySuccess(w) ==
    /\ wpc[w] = "report"
    /\ IF pubOK[w] THEN ReportResult(held[w], "completed")
       ELSE UNCHANGED <<buffered, dropped, tally>>
    /\ GoTo(w, "ack")
    /\ UNCHANGED <<closes, skipped, slots, held, attempts, pubOK, schedVars,
                   chanVars, entryVars, envVars>>

ReportRun(w) ==
    /\ wpc[w] = "report"
    /\ ReportResult(held[w], "completed")
    /\ GoTo(w, "ack")
    /\ UNCHANGED <<closes, skipped, slots, held, attempts, pubOK, schedVars,
                   chanVars, entryVars, envVars>>

\* Variant: a run that failed returns without its ack.
AckOnlySuccess(w) ==
    /\ wpc[w] = "ack"
    /\ Len(done) < N
    /\ done' = IF pubOK[w] THEN Append(done, held[w]) ELSE done
    /\ held' = [held EXCEPT ![w] = NoEntry]
    /\ attempts' = [attempts EXCEPT ![w] = 0]
    /\ pubOK' = [pubOK EXCEPT ![w] = FALSE]
    /\ GoTo(w, "idle")
    /\ UNCHANGED <<work, workClosed, schedVars, entryVars, resultVars, envVars>>

\* done <- e.  runOne has returned: its locals are gone.
Ack(w) ==
    /\ wpc[w] = "ack"
    /\ Len(done) < N
    /\ done' = Append(done, held[w])
    /\ held' = [held EXCEPT ![w] = NoEntry]
    /\ attempts' = [attempts EXCEPT ![w] = 0]
    /\ pubOK' = [pubOK EXCEPT ![w] = FALSE]
    /\ GoTo(w, "idle")
    /\ UNCHANGED <<work, workClosed, schedVars, entryVars, resultVars, envVars>>

-----------------------------------------------------------------------------
DispatchLap ==
    \/ DrainOne \/ DrainEmpty \/ NothingDue
    \/ \E e \in Entries : DispatchDue(e) \/ SkipDue(e)
    \/ ReportSkip \/ Send

Schedule ==
    \/ DispatchLap
    \/ SendCancelled \/ WaitTimer \/ WaitAck \/ WaitCancelled

Run ==
    \/ RejectConfig \/ StartPool
    \/ Schedule
    \/ CloseWork \/ ReturnClean \/ ReturnTimeout

\* The steps of a worker that the runner's own code takes.
OwnStep(w) ==
    \/ Dequeue(w) \/ Exit(w) \/ Admit(w) \/ PassOver(w) \/ StartCheck(w)
    \/ BackedOff(w) \/ ReportRun(w) \/ Ack(w)

\* The steps that wait for the Check or for the sink.
CalledStep(w) == CheckReturns(w) \/ PublishReturns(w)

Worker(w) == OwnStep(w) \/ CalledStep(w)

Terminated ==
    /\ spc = "returned"
    /\ AllGone
    /\ UNCHANGED vars

Next ==
    \/ Cancel \/ Consume \/ SecondRun
    \/ Run
    \/ \E w \in Workers : Worker(w)
    \/ Terminated

(***************************************************************************)
(* Goroutines that can run do run, the timers fire, and a Check or Publish *)
(* that honours its context returns.  A select with several ready cases    *)
(* picks one at random, so a ready <-ctx.Done() is not passed over for     *)
(* ever: WaitCancelled is strongly fair.  Nobody has to cancel, and nobody *)
(* has to drain the results.                                               *)
(***************************************************************************)
Fairness ==
    /\ WF_vars(Run)
    /\ SF_vars(WaitCancelled)
    /\ \A w \in Workers :
        /\ WF_vars(OwnStep(w))
        /\ WF_vars(held[w] \notin stuck /\ CalledStep(w))

Spec == Init /\ [][Next]_vars

FairSpec == Spec /\ Fairness

-----------------------------------------------------------------------------
(***************************************************************************)
(* Properties.                                                             *)
(***************************************************************************)

SchedTypeOK ==
    /\ spc \in SchedStates
    /\ cur \in Entries \cup {NoEntry}
    /\ spc \in {"send", "report"} => cur \in Entries
    /\ verdict \in Verdicts
    /\ spc = "report" => verdict \in {"slow", "queued"}
    /\ settled \subseteq Entries
    /\ outcome \in Outcomes

ChannelTypeOK ==
    /\ work \in Seq(Entries)
    /\ done \in Seq(Entries)
    /\ workClosed \in BOOLEAN

EntryTypeOK ==
    /\ inflight \in [Entries -> BOOLEAN]
    /\ started \in [Entries -> BOOLEAN]

WorkerTypeOK ==
    /\ wpc \in [Workers -> WorkerStates]
    /\ held \in [Workers -> Entries \cup {NoEntry}]
    /\ \A w \in Workers : Holding(w) => held[w] \in Entries
    /\ attempts \in [Workers -> 0..MaxAttempts]
    /\ \A w \in Workers : wpc[w] \in {"publish", "backoff"} => attempts[w] < MaxAttempts
    /\ \A w \in Workers : wpc[w] \in {"none", "idle", "got", "go", "check"} => attempts[w] = 0
    /\ pubOK \in [Workers -> BOOLEAN]

ResultTypeOK ==
    /\ buffered \in 0..ResultsCap
    /\ closes \in 0..1
    /\ skipped \in Nat
    /\ dropped \in Nat
    /\ slots \in [Entries -> 0..MaxSlots]
    /\ tally \in [Entries -> [Fates -> Nat]]

EnvTypeOK ==
    /\ encOK \in BOOLEAN
    /\ grace \in BOOLEAN
    /\ stuck \subseteq Unruly
    /\ cancelled \in BOOLEAN
    /\ refused \in BOOLEAN

\* Every variable holds a value of its Go type, the bounded counters stay in
\* their bounds, and whoever is about to use an entry has one.
TypeOK ==
    /\ SchedTypeOK /\ ChannelTypeOK /\ EntryTypeOK /\ WorkerTypeOK /\ ResultTypeOK
    /\ EnvTypeOK

\* A target never runs twice at once (runner.go, "an entry is dispatched only
\* while !inflight"): over the two channels and the hands of the workers there
\* is at most one copy of each entry, and the scheduler knows it is out.
NeverConcurrentWithItself ==
    /\ \A i, j \in 1..Len(work) : work[i] = work[j] => i = j
    /\ \A i, j \in 1..Len(done) : done[i] = done[j] => i = j
    /\ \A i \in 1..Len(work), j \in 1..Len(done) : work[i] # done[j]
    /\ \A w \in Workers : Holding(w) =>
        /\ inflight[held[w]]
        /\ \A i \in 1..Len(work) : work[i] # held[w]
        /\ \A i \in 1..Len(done) : done[i] # held[w]
    /\ \A v, w \in Workers : Holding(v) /\ Holding(w) /\ held[v] = held[w] => v = w
    /\ \A i \in 1..Len(work) : inflight[work[i]]
    /\ \A i \in 1..Len(done) : inflight[done[i]]

\* A worker's ack never blocks on done, nor the scheduler's dispatch on work
\* (runner.go, "done is sized so a worker's ack never blocks"): both channels
\* have room whenever somebody is about to send.
ChannelsNeverBlock ==
    /\ \A w \in Workers : Holding(w) => Len(done) < N
    /\ spc = "send" => Len(work) < N

\* started is what a skip blames: it is set from the moment a worker begins the
\* run until the scheduler takes the ack, and never while the entry is queued,
\* so ErrSkipped means "slow check" and ErrSkippedQueued "pool too small".
BlameIsRight ==
    /\ \A w \in Workers : InRun(w) => started[held[w]]
    /\ \A w \in Workers : wpc[w] \in {"got", "go"} => ~started[held[w]]
    /\ \A i \in 1..Len(work) : ~started[work[i]]
    /\ \A e \in Entries : started[e] => inflight[e]

\* A target whose ack was on done before the lap began is never a false skip
\* (runner.go, schedule: "Drain every finished ack before judging anything due").
NoFalseSkip == spc = "report" => cur \notin settled

\* What a skip says is true: the target is still out, and the flag that is read to
\* blame its check or the pool means what the two errors say (runner.go, skip).
SkipsAreTrue == BlameIsRight /\ NoFalseSkip

\* Slots whose fate is still open: a run queued or in a worker's hands, and a
\* skip that is about to be reported.
RunOpen(e) ==
    \/ \E i \in 1..Len(work) : work[i] = e
    \/ \E w \in Workers : held[w] = e /\ Holding(w) /\ wpc[w] # "ack"

Open(e) == (IF RunOpen(e) THEN 1 ELSE 0)
         + (IF spc = "report" /\ cur = e THEN 1 ELSE 0)

\* Each slot the scheduler processed ends in exactly one way: a completion, one
\* of the two skips, a counted drop, or an ack without a run at shutdown; until
\* then it is open (runner.go, "Accounting").
EverySlotAccountedFor ==
    \A e \in Entries :
        slots[e] = tally[e]["completed"] + tally[e]["slow"] + tally[e]["queued"]
                 + tally[e]["lost"] + tally[e]["unrun"] + Open(e)

\* Over all the targets.
Total(f) == SumFunction([e \in Entries |-> tally[e][f]])

\* The fleet-wide sums of runner.go's "Accounting": every slot of every target has
\* one fate, and Skipped() and Dropped() agree with what these add up to, also
\* while results are lost: a skip is delivered as one, is about to be reported, or
\* is among the drops.
FleetAccounting ==
    /\ EverySlotAccountedFor
    /\ dropped = Total("lost")
    /\ LET told == Total("slow") + Total("queued") + (IF spc = "report" THEN 1 ELSE 0)
       IN  told <= skipped /\ skipped <= told + dropped

\* Results() is closed at most once, exactly when Run returns without a timeout,
\* and then nobody is left to send on it or to Publish (runner.go, Shutdown:
\* "no Publish happens after Run returns").
CleanReturn ==
    /\ closes = 1 <=> outcome \in {"config", "clean"}
    /\ closes = 1 => AllGone /\ spc = "returned"

\* A publish that failed is given up before the third attempt only because of
\* the shutdown (runner.go, runOne: bounded retry with a ctx-aware back-off).
GivesUpEarlyOnlyOnCancel ==
    \A w \in Workers :
        wpc[w] = "report" /\ ~pubOK[w] /\ attempts[w] \in 1..(MaxAttempts - 1)
            => cancelled

\* Cancelling the context makes Run return: always, if checks honour their
\* context; within the grace, whatever they do (runner.go, Shutdown).
ShutdownCompletes ==
    cancelled /\ spc # "new" /\ (grace \/ stuck = {}) ~> spc = "returned"

\* No entry is lost by the pool: what was dispatched comes back to the
\* scheduler and may fire again, unless the runner is shutting down or a check
\* that never returns keeps its worker.
DispatchIsAnswered ==
    \A e \in Entries : inflight[e] /\ stuck = {} ~> ~inflight[e] \/ cancelled

-----------------------------------------------------------------------------
\* inflight and started encode where the target is.
PhaseOf(e) ==
    IF ~inflight[e] THEN "idle" ELSE IF started[e] THEN "running" ELSE "queued"

Lifecycle == INSTANCE TargetLifecycle WITH
    Targets <- Entries,
    phase   <- [e \in Entries |-> PhaseOf(e)],
    cause   <- verdict,
    down    <- cancelled

\* The pool implements the documented lifecycle of a target (runner.go, the
\* IDLE - QUEUED - RUNNING diagram): a run begins only from the queue, a target
\* goes back to idle without a run only at shutdown, and a skip blames the phase
\* the target is in.
ImplementsLifecycle == Lifecycle!Spec

=============================================================================
