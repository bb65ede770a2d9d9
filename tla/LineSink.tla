------------------------------ MODULE LineSink ------------------------------
(***************************************************************************)
(* The append-only line sinks: publishLine and writeLine of               *)
(* src/sink/sink.go over a bufio.Writer, and the open, Publish and Close   *)
(* of FileSink in src/sink/file.go, on a file whose writes may be partial, *)
(* in a process that may crash, beside another process that appends.       *)
(*                                                                         *)
(* A publish is a number; the file is the sequence of the numbers whose    *)
(* bytes it holds and of newlines.  A step is one write call on the file:  *)
(* Publish holds the mutex from its first to its last.  An operator marked *)
(* "Variant" is a plausible bug of its neighbour, kept to show which       *)
(* property would catch it.                                                *)
(***************************************************************************)
EXTENDS Naturals, Sequences

CONSTANTS
    BufSize,     \* of the bufio.Writer
    Sizes,       \* lengths of the marshaled events, without their newline
    MaxPublish,  \* bound on the publishes
    MaxFaults,   \* bound on the writes that fail
    MaxCrashes,  \* bound on the crashes
    MaxForeign   \* bound on the lines another process appends

ASSUME LineSinkAssumption ==
    /\ BufSize \in Nat \ {0, 1}
    /\ Sizes \subseteq Nat \ {0}
    /\ MaxPublish \in Nat /\ MaxFaults \in Nat
    /\ MaxCrashes \in Nat /\ MaxForeign \in Nat

NL == 0

VARIABLES
    file,     \* what the file holds
    state,    \* of the sink: "open", "closed", or "down" after a crash
    torn,     \* FileSink.torn
    latched,  \* the bufio.Writer keeps returning its first error
    plan,     \* the write calls that the Publish or Close under way has left
    sent,     \* bytes it has delivered (handed - w.Buffered())
    op,       \* "none", "publish" or "close"
    count,    \* publishes begun; the last of them has this number
    size,     \* history: the length of each
    acked,    \* history: those that returned nil
    excused,  \* history: those that met a closed file, a failed write or a crash
    faults, crashes, foreigns

bounds == <<faults, crashes, foreigns>>

vars == <<file, state, torn, latched, plan, sent, op, count, size, acked, excused, bounds>>

\* p's bytes, without and with its newline.
Body(p, n) == [i \in 1..n |-> p]

Line(p, n) == Append(Body(p, n), NL)

EndsWithoutNewline(f) == f # <<>> /\ f[Len(f)] # NL

\* The write calls for a line of n bytes: through the buffer it is one, with the
\* newline that ends a torn fragment in front.  When both do not fit the buffer
\* is flushed first, and a line larger than the buffer is written directly.
\* Variant: such a line goes out before its newline does.
NewlineLeftBehind(p, n) ==
    IF n + 1 <= BufSize - (IF torn THEN 1 ELSE 0)
    THEN << (IF torn THEN <<NL>> ELSE <<>>) \o Line(p, n) >>
    ELSE (IF torn THEN << <<NL>> >> ELSE <<>>) \o << Body(p, n), <<NL>> >>

WriteCalls(p, n) ==
    IF n + 1 <= BufSize - (IF torn THEN 1 ELSE 0)
    THEN << (IF torn THEN <<NL>> ELSE <<>>) \o Line(p, n) >>
    ELSE (IF torn THEN << <<NL>> >> ELSE <<>>) \o << Line(p, n) >>

-----------------------------------------------------------------------------
Init ==
    /\ file = <<>>
    /\ state = "open"
    /\ torn = FALSE
    /\ latched = FALSE
    /\ plan = <<>>
    /\ sent = 0
    /\ op = "none"
    /\ count = 0
    /\ size = [p \in 1..MaxPublish |-> 0]
    /\ acked = {}
    /\ excused = {}
    /\ faults = 0
    /\ crashes = 0
    /\ foreigns = 0

\* Publish takes the mutex.  A closed file and a latched error fail at once.
Publish ==
    /\ state # "down"
    /\ op = "none"
    /\ count < MaxPublish
    /\ count' = count + 1
    /\ \E n \in Sizes :
        /\ size' = [size EXCEPT ![count + 1] = n]
        /\ IF state = "closed" \/ latched
           THEN UNCHANGED <<op, plan>>
           ELSE op' = "publish" /\ plan' = WriteCalls(count + 1, n)
    /\ excused' = IF state = "closed" THEN excused \cup {count + 1} ELSE excused
    /\ sent' = 0
    /\ UNCHANGED <<file, state, torn, latched, acked, bounds>>

\* A write call that delivers everything.
WriteAll ==
    /\ plan # <<>>
    /\ file' = file \o Head(plan)
    /\ sent' = sent + Len(Head(plan))
    /\ plan' = Tail(plan)
    /\ UNCHANGED <<state, torn, latched, op, count, size, acked, excused, bounds>>

\* Variants of the failure: the last error decides what torn is; the error stays
\* latched in the buffer.
FailForgets ==
    /\ plan # <<>>
    /\ faults < MaxFaults
    /\ faults' = faults + 1
    /\ excused' = IF op = "publish" THEN excused \cup {count} ELSE excused
    /\ \E n \in 0..(Len(Head(plan)) - 1) :
        /\ file' = file \o SubSeq(Head(plan), 1, n)
        /\ torn' = (sent + n > 0)
    /\ plan' = <<>>
    /\ sent' = 0
    /\ state' = IF op = "close" THEN "closed" ELSE state
    /\ op' = "none"
    /\ UNCHANGED <<latched, count, size, acked, crashes, foreigns>>

FailLatches ==
    /\ plan # <<>>
    /\ faults < MaxFaults
    /\ faults' = faults + 1
    /\ excused' = IF op = "publish" THEN excused \cup {count} ELSE excused
    /\ \E n \in 0..(Len(Head(plan)) - 1) :
        /\ file' = file \o SubSeq(Head(plan), 1, n)
        /\ torn' = (torn \/ sent + n > 0)
    /\ latched' = TRUE
    /\ plan' = <<>>
    /\ sent' = 0
    /\ state' = IF op = "close" THEN "closed" ELSE state
    /\ op' = "none"
    /\ UNCHANGED <<count, size, acked, crashes, foreigns>>

\* A write call that delivers n bytes and an error: the publish fails, torn is
\* sticky, and Reset clears the buffer and its error.  (Close sets no flag, but
\* the file is closed after it.)
WriteFails ==
    /\ plan # <<>>
    /\ faults < MaxFaults
    /\ faults' = faults + 1
    /\ excused' = IF op = "publish" THEN excused \cup {count} ELSE excused
    /\ \E n \in 0..(Len(Head(plan)) - 1) :
        /\ file' = file \o SubSeq(Head(plan), 1, n)
        /\ torn' = IF op = "close" THEN torn ELSE (torn \/ sent + n > 0)
    /\ plan' = <<>>
    /\ sent' = 0
    /\ state' = IF op = "close" THEN "closed" ELSE state
    /\ op' = "none"
    /\ UNCHANGED <<latched, count, size, acked, crashes, foreigns>>

\* All writes went through: the publish returns nil and clears torn.
Published ==
    /\ op = "publish"
    /\ plan = <<>>
    /\ acked' = acked \cup {count}
    /\ torn' = FALSE
    /\ op' = "none"
    /\ sent' = 0
    /\ UNCHANGED <<file, state, latched, plan, count, size, excused, bounds>>

\* Close ends a torn fragment, best effort, then closes the file.
Close ==
    /\ state = "open"
    /\ op = "none"
    /\ op' = "close"
    /\ plan' = IF torn THEN << <<NL>> >> ELSE <<>>
    /\ sent' = 0
    /\ UNCHANGED <<file, state, torn, latched, count, size, acked, excused, bounds>>

Closed ==
    /\ op = "close"
    /\ plan = <<>>
    /\ state' = "closed"
    /\ op' = "none"
    /\ sent' = 0
    /\ UNCHANGED <<file, torn, latched, plan, count, size, acked, excused, bounds>>

\* The process dies, perhaps in the middle of a write call.
Crash ==
    /\ state # "down"
    /\ crashes < MaxCrashes
    /\ crashes' = crashes + 1
    /\ excused' = IF op = "publish" THEN excused \cup {count} ELSE excused
    /\ IF plan = <<>> THEN UNCHANGED file
       ELSE \E n \in 0..Len(Head(plan)) : file' = file \o SubSeq(Head(plan), 1, n)
    /\ state' = "down"
    /\ plan' = <<>>
    /\ sent' = 0
    /\ op' = "none"
    /\ UNCHANGED <<torn, latched, count, size, acked, faults, foreigns>>

\* Variant: a new process takes the file as it finds it.
OpenClean ==
    /\ state \in {"down", "closed"}
    /\ op = "none"
    /\ state' = "open"
    /\ torn' = FALSE
    /\ latched' = FALSE
    /\ UNCHANGED <<file, plan, sent, op, count, size, acked, excused, bounds>>

\* NewFileSink: start torn on a file that does not end in a newline.
Open ==
    /\ state \in {"down", "closed"}
    /\ op = "none"
    /\ state' = "open"
    /\ torn' = EndsWithoutNewline(file)
    /\ latched' = FALSE
    /\ UNCHANGED <<file, plan, sent, op, count, size, acked, excused, bounds>>

\* Another process appends a line of its own, in one write call.
Foreign ==
    /\ foreigns < MaxForeign
    /\ foreigns' = foreigns + 1
    /\ file' = file \o <<MaxPublish + 1, NL>>
    /\ UNCHANGED <<state, torn, latched, plan, sent, op, count, size, acked,
                   excused, faults, crashes>>

Next ==
    \/ Publish \/ WriteAll \/ WriteFails \/ Published
    \/ Close \/ Closed
    \/ Crash \/ Open
    \/ Foreign

Spec == Init /\ [][Next]_vars

-----------------------------------------------------------------------------
TypeOK ==
    /\ file \in Seq(0..(MaxPublish + 1))
    /\ state \in {"open", "closed", "down"}
    /\ torn \in BOOLEAN /\ latched \in BOOLEAN
    /\ Len(plan) <= 2
    /\ op \in {"none", "publish", "close"}
    /\ op = "none" => plan = <<>> /\ sent = 0
    /\ count \in 0..MaxPublish
    /\ acked \subseteq 1..count /\ excused \subseteq 1..count

\* No two records share a line: not where this process alone writes the file,
\* whatever writes failed part way and wherever it crashed (sink.go, publishLine:
\* a fragment is terminated as its own line instead of swallowing the record that
\* follows it), and not where writers share it, as long as no write fails (sink.go,
\* writeLine: the line and its newline reach O_APPEND in one write).
NoFusedRecords ==
    foreigns = 0 \/ faults + crashes = 0 =>
        \A i \in 1..(Len(file) - 1) :
            file[i] # NL /\ file[i + 1] # NL => file[i] = file[i + 1]

\* A publish that returned nil is in the file as a line of its own, whole and
\* ended (sink.go, Publish: flushed before Publish returns).
AckedIsThere ==
    \A p \in acked : \E i \in 1..Len(file) :
        /\ i + size[p] <= Len(file)
        /\ i = 1 \/ file[i - 1] = NL
        /\ SubSeq(file, i, i + size[p]) = Line(p, size[p])

\* While nobody holds the mutex of an open sink, a file that does not end in a
\* newline is known to be torn (sink.go, publishLine: the flag is sticky).
TornIsKnown ==
    /\ TypeOK
    /\ state = "open" /\ op = "none" /\ EndsWithoutNewline(file) => torn

\* One failed write does not wedge the sink: a publish fails only when one of its
\* own write calls did, or on a closed file (sink.go, publishLine: the buffer is
\* reset on any error, which it would otherwise return for ever).
FailsForAReason == op = "none" => 1..count \subseteq acked \cup excused

\* What Publish returns is true.
AnswersTruly == AckedIsThere /\ FailsForAReason

=============================================================================
