--------------------------- MODULE DeliveryProofs ---------------------------
(***************************************************************************)
(* What becomes of a run: theorems of LineSink and Delivery about its      *)
(* record, for every buffer, every length of a line, every pool of workers *)
(* and every number of attempts, failed writes, crashes and foreign lines; *)
(* and of DropWarn about the warning where its Result is lost, for every   *)
(* number of reporters and every bound.                                    *)
(***************************************************************************)
EXTENDS Delivery, DropWarn, FiniteSetTheorems, SequenceTheorems, TLAPS

-----------------------------------------------------------------------------
(***************************************************************************)
(* Sequences of bytes.                                                     *)
(***************************************************************************)
Byte == 0..(MaxPublish + 1)

\* Neighbours that are no newlines are of one publish.
Unfused(f) ==
    \A i \in 1..(Len(f) - 1) : f[i] # NL /\ f[i + 1] # NL => f[i] = f[i + 1]

\* What a file is after something was appended to it.
LEMMA Grown ==
    ASSUME NEW S, NEW f \in Seq(S), NEW s \in Seq(S)
    PROVE  /\ f \o s \in Seq(S)
           /\ Len(f) \in Nat /\ Len(s) \in Nat
           /\ Len(f \o s) = Len(f) + Len(s)
           /\ \A i \in 1..Len(f) : (f \o s)[i] = f[i]
           /\ \A i \in 1..Len(s) : (f \o s)[Len(f) + i] = s[i]
           /\ \A i \in (Len(f) + 1)..(Len(f) + Len(s)) : (f \o s)[i] = s[i - Len(f)]
OBVIOUS

\* The part of a write call that is delivered.
LEMMA Prefix ==
    ASSUME NEW S, NEW s \in Seq(S), NEW n \in 0..Len(s)
    PROVE  /\ SubSeq(s, 1, n) \in Seq(S)
           /\ Len(SubSeq(s, 1, n)) = n
           /\ \A i \in 1..n : SubSeq(s, 1, n)[i] = s[i]
  BY SubSeqProperties

\* A plan of one or two write calls.
LEMMA Calls ==
    ASSUME NEW a, NEW b
    PROVE  /\ Head(<<a>>) = a /\ Tail(<<a>>) = <<>> /\ <<a>> # <<>>
           /\ Head(<<a, b>>) = a /\ Tail(<<a, b>>) = <<b>> /\ <<a, b>> # <<>>
OBVIOUS

\* Appending one element to one, or to none.
LEMMA Joined ==
    ASSUME NEW a, NEW b
    PROVE  <<a>> \o <<b>> = <<a, b>> /\ <<>> \o <<b>> = <<b>>
<1>1. <<a>> \in Seq({a, b}) /\ <<b>> \in Seq({a, b})
  OBVIOUS
<1>2. <<>> \o <<b>> = <<b>>
  BY <1>1, ConcatEmptySeq
<1> DEFINE s == <<a>> \o <<b>>
           t == <<a, b>>
<1>3. s \in Seq({a, b}) /\ Len(s) = 2 /\ s[1] = a /\ s[2] = b
  BY <1>1, Grown
<1>4. t \in Seq({a, b}) /\ Len(t) = 2 /\ t[1] = a /\ t[2] = b
  OBVIOUS
<1>5. s = t
  <2> HIDE DEF s, t
  <2>1. \A i \in 1..Len(s) : s[i] = t[i]
    BY <1>3, <1>4
  <2> QED
    BY <1>3, <1>4, <2>1, SeqEqual
<1> QED
  BY <1>2, <1>5

\* A line is its record's bytes and a newline.
LEMMA LineFacts ==
    ASSUME NEW p \in Byte, NEW n \in Nat \ {0}
    PROVE  /\ Line(p, n) \in Seq(Byte)
           /\ Len(Line(p, n)) = n + 1
           /\ \A i \in 1..n : Line(p, n)[i] = p
           /\ Line(p, n)[n + 1] = NL
  BY LineSinkAssumption DEF Line, Body, Byte, NL

\* The same behind a newline of its own.
LEMMA NewlineLine ==
    ASSUME NEW p \in Byte, NEW n \in Nat \ {0}
    PROVE  /\ <<NL>> \o Line(p, n) \in Seq(Byte)
           /\ Len(<<NL>> \o Line(p, n)) = n + 2
           /\ (<<NL>> \o Line(p, n))[1] = NL
           /\ \A i \in 2..(n + 1) : (<<NL>> \o Line(p, n))[i] = p
           /\ (<<NL>> \o Line(p, n))[n + 2] = NL
<1>1. <<NL>> \in Seq(Byte) /\ Len(<<NL>>) = 1 /\ <<NL>>[1] = NL
  BY LineSinkAssumption DEF NL, Byte
<1>2. Line(p, n) \in Seq(Byte) /\ Len(Line(p, n)) = n + 1
  BY LineFacts
<1>3. /\ Len(<<NL>> \o Line(p, n)) = n + 2
      /\ <<NL>> \o Line(p, n) \in Seq(Byte)
      /\ (<<NL>> \o Line(p, n))[1] = NL
  BY <1>1, <1>2, Grown
<1>4. \A i \in 2..(n + 2) : (<<NL>> \o Line(p, n))[i] = Line(p, n)[i - 1]
  BY <1>1, <1>2, Grown
<1> QED
  BY <1>3, <1>4, LineFacts

\* Unfused files stay so when what is appended is unfused and does not begin a
\* line of its own inside another.
LEMMA UnfusedGrown ==
    ASSUME NEW f \in Seq(Byte), NEW s \in Seq(Byte),
           Unfused(f), Unfused(s),
           f # <<>> /\ s # <<>> /\ f[Len(f)] # NL => s[1] = NL
    PROVE  Unfused(f \o s)
<1> SUFFICES ASSUME NEW i \in 1..(Len(f \o s) - 1),
                    (f \o s)[i] # NL, (f \o s)[i + 1] # NL
             PROVE  (f \o s)[i] = (f \o s)[i + 1]
  BY DEF Unfused
<1> USE Grown
<1>1. CASE i + 1 <= Len(f)
  BY <1>1 DEF Unfused
<1>2. CASE i = Len(f)
  <2>1. f # <<>> /\ s # <<>>
    BY <1>2
  <2>2. (f \o s)[i] = f[Len(f)] /\ (f \o s)[i + 1] = s[1]
    BY <1>2, <2>1
  <2> QED
    BY <2>1, <2>2
<1>3. CASE i > Len(f)
  <2>1. i - Len(f) \in 1..(Len(s) - 1)
    BY <1>3
  <2>2. (f \o s)[i] = s[i - Len(f)] /\ (f \o s)[i + 1] = s[(i - Len(f)) + 1]
    BY <1>3, <2>1
  <2> QED
    BY <2>1, <2>2 DEF Unfused
<1> QED
  BY <1>1, <1>2, <1>3

-----------------------------------------------------------------------------
(***************************************************************************)
(* The sink.                                                               *)
(***************************************************************************)
Current == Line(count, size[count])

\* The line of publish p starts at position i of the file; it is there whole.
Starts(p, i) == file[i] = p /\ (i = 1 \/ file[i - 1] = NL)

LineAt(p, i) ==
    /\ i + size[p] <= Len(file)
    /\ i = 1 \/ file[i - 1] = NL
    /\ SubSeq(file, i, i + size[p]) = Line(p, size[p])

There(p) == \E i \in 1..Len(file) : LineAt(p, i)

SinkTypes ==
    /\ TypeOK
    /\ ~latched
    /\ sent \in Nat
    /\ size \in [1..MaxPublish -> Nat]
    /\ \A p \in 1..count : size[p] \in Nat \ {0}
    /\ {faults, crashes, foreigns} \subseteq Nat
    /\ op # "none" => state = "open"

\* What the call under way has left to write.
PlanOK ==
    /\ op = "close" => plan \in {<<>>, << <<NL>> >>}
    /\ op = "publish" =>
        /\ count > 0
        /\ plan \in {<<>>, <<Current>>, << <<NL>> \o Current>>, << <<NL>>, Current>>}

\* A fragment at the end of the file is known to an open sink, and ended by the next
\* write call.
FragmentsEnd ==
    /\ state = "open" /\ EndsWithoutNewline(file) => torn
    /\ plan # <<>> /\ EndsWithoutNewline(file) => Head(plan)[1] = NL
    /\ op = "publish" /\ plan = <<>> => ~EndsWithoutNewline(file)
    /\ faults + crashes = 0 => ~EndsWithoutNewline(file)

\* Each publish has its bytes in the file once, and none before it writes them.
BytesOnce ==
    /\ \A i \in 1..Len(file) : file[i] \in 0..count \cup {MaxPublish + 1}
    /\ op = "publish" /\ plan # <<>> => \A i \in 1..Len(file) : file[i] # count
    /\ \A p \in 1..count : \A i, j \in 1..Len(file) :
            Starts(p, i) /\ Starts(p, j) => i = j

WholeLines ==
    /\ op = "publish" /\ plan = <<>> => There(count)
    /\ \A p \in acked : There(p)

Answered == 1..count \subseteq acked \cup excused \cup (IF op = "publish" THEN {count} ELSE {})

SinkInv ==
    /\ SinkTypes /\ PlanOK /\ FragmentsEnd
    /\ NoFusedRecords /\ BytesOnce /\ WholeLines /\ Answered

-----------------------------------------------------------------------------
(***************************************************************************)
(* The workers.                                                            *)
(***************************************************************************)
LoopTypes ==
    /\ task \in [Workers -> {"idle", "trying", "writing", "backoff"}]
    /\ rec \in [Workers -> 0..records]
    /\ of \in [1..MaxPublish -> 0..MaxRecords]
    /\ \A p \in 1..count : of[p] \in 1..records
    /\ records \in 0..MaxRecords
    /\ result \in [1..MaxRecords -> {"none", "nil", "error"}]
    /\ cancelled \in BOOLEAN

\* A record is in one worker's hands until its Result is out, and in a process that lives.
InHand ==
    /\ \A w \in Workers : task[w] = "idle" <=> rec[w] = 0
    /\ \A w \in Workers : task[w] # "idle" => result[rec[w]] = "none" /\ state # "down"
    /\ \A v, w \in Workers : rec[v] = rec[w] /\ rec[v] # 0 => v = w
    /\ \A w \in Workers : task[w] = "writing" => op = "publish" /\ of[count] = rec[w]
    /\ op = "publish" => \E w \in Workers : task[w] = "writing"

\* No attempt comes after one that was acknowledged, nor more of them than there may be.
Tries ==
    /\ \A w \in Workers : task[w] # "idle" => Attempts(rec[w]) \cap acked = {}
    /\ \A w \in Workers : task[w] = "backoff" => Attempts(rec[w]) # {}
    /\ \A w \in Workers :
            task[w] \in {"trying", "backoff"} => Cardinality(Attempts(rec[w])) < MaxAttempts
    /\ \A r \in 1..records : Cardinality(Attempts(r)) <= MaxAttempts
    /\ \A r \in 1..records :
            \A p \in Attempts(r) \cap acked : \A q \in Attempts(r) : q <= p

Results ==
    /\ \A r \in 1..records :
        /\ result[r] = "nil" => Attempts(r) \cap acked # {}
        /\ result[r] = "error" => Attempts(r) # {} /\ Attempts(r) \cap acked = {}
    /\ \A r \in 1..MaxRecords : r > records => result[r] = "none"

\* Where no write fails, the bytes of a record are those of its last attempt.
InFile(p) == \E i \in 1..Len(file) : file[i] = p

LastHasBytes ==
    faults = 0 =>
        /\ \A r \in 1..records : \A p, q \in Attempts(r) : InFile(p) /\ InFile(q) => p = q
        /\ \A w \in Workers : task[w] # "idle" =>
             \A p \in Attempts(rec[w]) : InFile(p) => task[w] = "writing" /\ p = count

DeliveryInv == SinkInv /\ LoopTypes /\ InHand /\ Tries /\ Results /\ LastHasBytes

-----------------------------------------------------------------------------
\* The publish under way is the last one begun.
LEMMA CurrentFacts ==
    ASSUME SinkInv, op = "publish"
    PROVE  /\ count \in 1..MaxPublish /\ count \in Byte /\ count # NL
           /\ size[count] \in Nat \ {0}
<1> QED
  BY LineSinkAssumption DEF SinkInv, SinkTypes, TypeOK, PlanOK, Byte, NL

\* A write call ends with a newline and holds one line at most, of the publish under way.
OneLine(c) ==
    /\ c \in Seq(Byte) /\ Len(c) \in Nat \ {0}
    /\ c[Len(c)] = NL
    /\ \A i \in 1..Len(c) : c[i] \in {NL, count} /\ (op = "close" => c[i] = NL)
    /\ Unfused(c)
    /\ \A i, j \in 1..Len(c) :
            /\ c[i] # NL /\ (i = 1 \/ c[i - 1] = NL)
            /\ c[j] # NL /\ (j = 1 \/ c[j - 1] = NL)
            => i = j

\* The newline that Close may owe.
LEMMA NewlineIsOneLine == OneLine(<<NL>>)
<1>1. <<NL>> \in Seq(Byte) /\ Len(<<NL>>) = 1 /\ <<NL>>[1] = NL
  BY LineSinkAssumption DEF NL, Byte
<1> QED
  BY <1>1 DEF OneLine, Unfused

\* The line of a publish, alone or behind the newline that ends a fragment.
LEMMA CurrentIsOneLine ==
    ASSUME SinkInv, op = "publish"
    PROVE  OneLine(Current) /\ OneLine(<<NL>> \o Current)
<1> DEFINE n == size[count]
           l == Current
<1>1. count \in Byte /\ count # NL /\ n \in Nat \ {0}
  BY CurrentFacts
<1>2. l \in Seq(Byte) /\ Len(l) = n + 1 /\ (\A i \in 1..n : l[i] = count) /\ l[n + 1] = NL
  BY <1>1, LineFacts DEF Current
<1>3. OneLine(l)
  BY <1>1, <1>2 DEF OneLine, Unfused
<1> DEFINE m == <<NL>> \o l
<1>4. /\ m \in Seq(Byte) /\ Len(m) = n + 2 /\ m[1] = NL
      /\ (\A i \in 2..(n + 1) : m[i] = count) /\ m[n + 2] = NL
  BY <1>1, NewlineLine DEF Current
<1>5. OneLine(m)
  <2> HIDE DEF m, n, l
  <2>1. \A i \in 1..(n + 2) : i = 1 \/ i \in 2..(n + 1) \/ i = n + 2
    BY <1>1
  <2>2. Unfused(m)
    BY <1>1, <1>4, <2>1 DEF Unfused
  <2>3. \A i \in 1..(n + 2) : m[i] # NL /\ (i = 1 \/ m[i - 1] = NL) => i = 2
    BY <1>1, <1>4, <2>1
  <2> QED
    BY <1>1, <1>4, <2>1, <2>2, <2>3 DEF OneLine
<1> QED
  BY <1>3, <1>5

\* What is written next is one line at most.
LEMMA WriteCall ==
    ASSUME SinkInv, plan # <<>>
    PROVE  /\ op \in {"publish", "close"}
           /\ OneLine(Head(plan))
           /\ op = "close" => Tail(plan) = <<>>
           /\ op = "publish" =>
                \/ Tail(plan) = <<>> /\ Head(plan) \in {Current, <<NL>> \o Current}
                \/ Tail(plan) = <<Current>> /\ Head(plan) = <<NL>>
<1>1. op \in {"publish", "close"}
  BY DEF SinkInv, SinkTypes, TypeOK
<1>2. CASE op = "close"
  <2>1. Head(plan) = <<NL>> /\ Tail(plan) = <<>>
    BY <1>2, Calls DEF SinkInv, PlanOK
  <2> QED
    BY <1>2, <2>1, NewlineIsOneLine
<1>3. CASE op = "publish"
  <2>1. OneLine(Current) /\ OneLine(<<NL>> \o Current) /\ OneLine(<<NL>>)
    BY <1>3, CurrentIsOneLine, NewlineIsOneLine
  <2>2. plan \in {<<Current>>, << <<NL>> \o Current>>, << <<NL>>, Current>>}
    BY <1>3 DEF SinkInv, PlanOK
  <2>3. \/ Tail(plan) = <<>> /\ Head(plan) \in {Current, <<NL>> \o Current}
        \/ Tail(plan) = <<Current>> /\ Head(plan) = <<NL>>
    <3> HIDE DEF Current
    <3> DEFINE l == Current
               m == <<NL>> \o Current
    <3>1. plan \in {<<l>>, <<m>>, << <<NL>>, l>>}
      BY <2>2
    <3> HIDE DEF l, m
    <3>2. \/ Tail(plan) = <<>> /\ Head(plan) \in {l, m}
          \/ Tail(plan) = <<l>> /\ Head(plan) = <<NL>>
      <4>1. CASE plan = <<l>>
        BY <4>1, Calls
      <4>2. CASE plan = <<m>>
        BY <4>2, Calls
      <4>3. CASE plan = << <<NL>>, l>>
        BY <4>3, Calls
      <4> QED
        BY <3>1, <4>1, <4>2, <4>3
    <3> QED
      BY <3>2 DEF l, m
  <2> QED
    BY <1>3, <2>1, <2>3
<1> QED
  BY <1>1, <1>2, <1>3

\* What a step appends to the file: nothing, a prefix of a write call, or the line of
\* another process.
ForeignLine == <<MaxPublish + 1, NL>>

Appended(s) ==
    \/ s = <<>>
    \/ s = ForeignLine /\ Foreign
    \/ /\ plan # <<>> /\ (WriteAll \/ WriteFails \/ Crash)
       /\ Len(s) \in 1..Len(Head(plan))
       /\ \A i \in 1..Len(s) : s[i] = Head(plan)[i]

\* The file only grows, by what Appended says.
LEMMA Growth ==
    ASSUME SinkInv, [Next]_vars
    PROVE  \E s \in Seq(Byte) : file' = file \o s /\ Appended(s)
<1>0. file \in Seq(Byte) /\ file \o <<>> = file /\ <<>> \in Seq(Byte)
  BY EmptySeq, ConcatEmptySeq DEF SinkInv, SinkTypes, TypeOK, Byte
<1>1. CASE UNCHANGED file
  BY <1>0, <1>1 DEF Appended
<1>2. ASSUME plan # <<>>, WriteAll \/ WriteFails \/ Crash,
             NEW n \in 0..Len(Head(plan)), file' = file \o SubSeq(Head(plan), 1, n)
      PROVE  \E s \in Seq(Byte) : file' = file \o s /\ Appended(s)
  <2> DEFINE c == Head(plan)
             s == SubSeq(c, 1, n)
  <2>1. c \in Seq(Byte)
    BY <1>2, WriteCall DEF OneLine
  <2>2. s \in Seq(Byte) /\ Len(s) = n /\ \A i \in 1..n : s[i] = c[i]
    BY <1>2, <2>1, Prefix
  <2>3. CASE n = 0
    <3>1. s = <<>>
      BY <2>2, <2>3, EmptySeq
    <3> QED
      BY <1>2, <2>2, <3>1 DEF Appended
  <2>4. CASE n # 0
    <3>1. n \in 1..Len(c)
      BY <1>2, <2>1, <2>4
    <3> QED
      BY <1>2, <2>2, <3>1 DEF Appended
  <2> QED
    BY <2>3, <2>4
<1>3. CASE WriteAll
  <2> DEFINE c == Head(plan)
  <2>1. plan # <<>> /\ file' = file \o c
    BY <1>3 DEF WriteAll
  <2>2. c \in Seq(Byte) /\ Len(c) \in Nat
    BY <2>1, WriteCall DEF OneLine
  <2>3. c = SubSeq(c, 1, Len(c))
    BY <2>2, SubSeqFull
  <2>4. Len(c) \in 0..Len(c) /\ file' = file \o SubSeq(Head(plan), 1, Len(c))
    BY <2>1, <2>2, <2>3
  <2> HIDE DEF c
  <2> QED
    BY <1>2, <1>3, <2>1, <2>4 DEF c
<1>4. CASE WriteFails
  <2>1. plan # <<>> /\ Len(Head(plan)) \in Nat
    BY <1>4, WriteCall DEF WriteFails, OneLine
  <2>2. PICK n \in 0..(Len(Head(plan)) - 1) : file' = file \o SubSeq(Head(plan), 1, n)
    BY <1>4 DEF WriteFails
  <2>3. n \in 0..Len(Head(plan))
    BY <2>1
  <2> QED
    BY <1>2, <1>4, <2>1, <2>2, <2>3
<1>5. CASE Crash
  BY <1>1, <1>2, <1>5 DEF Crash
<1>6. CASE Foreign
  <2>1. ForeignLine \in Seq(Byte)
    BY LineSinkAssumption DEF ForeignLine, Byte, NL
  <2> QED
    BY <1>6, <2>1 DEF Foreign, ForeignLine, Appended
<1>7. CASE Publish \/ Published \/ Close \/ Closed \/ Open \/ UNCHANGED vars
  BY <1>1, <1>7 DEF Publish, Published, Close, Closed, Open, vars
<1> QED
  BY <1>3, <1>4, <1>5, <1>6, <1>7 DEF Next

\* A new file is empty, and the sink on it idle.
LEMMA SinkInitially == Init => SinkInv
<1> SUFFICES ASSUME Init PROVE SinkInv
  OBVIOUS
<1>1. <<>> \in Seq(0..(MaxPublish + 1)) /\ Len(file) = 0 /\ Len(plan) = 0
  BY EmptySeq DEF Init
<1>2. SinkTypes
  <2>1. file \in Seq(0..(MaxPublish + 1)) /\ Len(plan) <= 2
    BY <1>1 DEF Init
  <2>2. count \in 0..MaxPublish /\ acked \subseteq 1..count /\ excused \subseteq 1..count
    BY LineSinkAssumption DEF Init
  <2>3. TypeOK
    BY <2>1, <2>2 DEF Init, TypeOK
  <2> QED
    BY <2>3, LineSinkAssumption DEF Init, SinkTypes
<1>3. PlanOK /\ FragmentsEnd
  BY DEF Init, PlanOK, FragmentsEnd, EndsWithoutNewline
<1>4. NoFusedRecords /\ BytesOnce /\ WholeLines
  BY <1>1 DEF Init, NoFusedRecords, BytesOnce, WholeLines
<1>5. Answered
  BY DEF Init, Answered
<1> QED
  BY <1>2, <1>3, <1>4, <1>5 DEF SinkInv

\* The types of the sink, action by action.
LEMMA SinkTypesStep == SinkInv /\ [Next]_vars => SinkTypes'
<1> SUFFICES ASSUME SinkInv, [Next]_vars PROVE SinkTypes'
  OBVIOUS
<1>0. file' \in Seq(0..(MaxPublish + 1))
  <2>1. PICK s \in Seq(Byte) : file' = file \o s
    BY Growth
  <2> QED
    BY <2>1, Grown DEF Byte, SinkInv, SinkTypes, TypeOK
<1> USE <1>0, LineSinkAssumption DEF SinkInv, SinkTypes, TypeOK, vars, bounds
<1>1. CASE Publish
  <2>1. PICK n \in Sizes :
            /\ size' = [size EXCEPT ![count + 1] = n]
            /\ IF state = "closed" \/ latched THEN UNCHANGED <<op, plan>>
               ELSE op' = "publish" /\ plan' = WriteCalls(count + 1, n)
    BY <1>1 DEF Publish
  <2>2. Len(plan') <= 2
    <3>1. CASE UNCHANGED plan
      BY <3>1
    <3>2. CASE plan' = WriteCalls(count + 1, n)
      BY <3>2 DEF WriteCalls
    <3> QED
      BY <2>1, <3>1, <3>2
  <2>3. n \in Nat \ {0} /\ count + 1 \in 1..MaxPublish
    BY <1>1 DEF Publish
  <2> QED
    BY <1>1, <2>1, <2>2, <2>3 DEF Publish
<1>2. CASE WriteAll
  <2>1. Len(Tail(plan)) <= 2 /\ op # "none"
    BY <1>2, WriteCall, Calls DEF WriteAll
  <2>2. sent' \in Nat
    BY <1>2, WriteCall DEF WriteAll, OneLine
  <2>3. /\ plan' = Tail(plan)
        /\ UNCHANGED <<state, torn, latched, op, count, size, acked, excused, bounds>>
    BY <1>2 DEF WriteAll
  <2> QED
    BY <2>1, <2>2, <2>3
<1>3. CASE WriteFails
  <2>1. torn' \in BOOLEAN
    BY <1>3 DEF WriteFails
  <2>2. op # "none"
    BY <1>3 DEF WriteFails
  <2>3. excused' \subseteq 1..count
    BY <1>3, CurrentFacts DEF WriteFails
  <2>4. op' = "none" /\ plan' = <<>> /\ sent' = 0 /\ faults' \in Nat
    BY <1>3 DEF WriteFails
  <2>5. /\ state' \in {"open", "closed", "down"} /\ Len(plan') <= 2
        /\ UNCHANGED <<latched, count, size, acked, crashes, foreigns>>
    BY <1>3, <2>4 DEF WriteFails
  <2> QED
    BY <2>1, <2>3, <2>4, <2>5
<1>4. CASE Published
  <2>1. count \in 1..count
    BY <1>4, CurrentFacts DEF Published
  <2> QED
    BY <1>4, <2>1 DEF Published
<1>5. CASE Close
  BY <1>5 DEF Close
<1>6. CASE Closed
  BY <1>6 DEF Closed
<1>7. CASE Crash
  <2>1. op = "publish" => count \in 1..count
    BY CurrentFacts
  <2> QED
    BY <1>7, <2>1 DEF Crash
<1>8. CASE Open
  BY <1>8 DEF Open, EndsWithoutNewline
<1>9. CASE Foreign
  <2>1. /\ foreigns' \in Nat
        /\ UNCHANGED <<state, torn, latched, plan, sent, op, count, size, acked,
                       excused, faults, crashes>>
    BY <1>9 DEF Foreign
  <2> QED
    BY <2>1
<1>10. CASE UNCHANGED vars
  BY <1>10
<1> QED
  BY <1>1, <1>2, <1>3, <1>4, <1>5, <1>6, <1>7, <1>8, <1>9, <1>10 DEF Next

\* What a publish hands to the buffer leaves it in one write call or two.
LEMMA CallsOfPublish ==
    ASSUME NEW p \in Byte, NEW n \in Nat \ {0}
    PROVE  /\ WriteCalls(p, n) \in
                {<<Line(p, n)>>, << <<NL>> \o Line(p, n)>>, << <<NL>>, Line(p, n)>>}
           /\ torn => WriteCalls(p, n) # <<Line(p, n)>> /\ Head(WriteCalls(p, n))[1] = NL
           /\ WriteCalls(p, n) # <<>>
<1> DEFINE l == Line(p, n)
           m == <<NL>> \o l
<1>1. /\ l \in Seq(Byte) /\ <<>> \o l = l /\ Len(l) = n + 1
      /\ m \in Seq(Byte) /\ m[1] = NL /\ Len(m) = n + 2
  BY LineFacts, NewlineLine, ConcatEmptySeq
<1>2. << <<NL>> >> \o <<l>> = << <<NL>>, l>> /\ <<>> \o <<l>> = <<l>>
  BY Joined
<1>3. WriteCalls(p, n) = IF torn THEN IF n + 1 <= BufSize - 1 THEN <<m>> ELSE << <<NL>>, l>>
                                 ELSE <<l>>
  <2>1. CASE torn
    BY <1>2, <2>1 DEF WriteCalls
  <2>2. CASE ~torn
    BY <1>1, <1>2, <2>2 DEF WriteCalls
  <2> QED
    BY <2>1, <2>2
<1>4. <<NL>>[1] = NL
  OBVIOUS
<1>5. <<m>> # <<l>> /\ << <<NL>>, l>> # <<l>>
  <2>1. m # l
    BY <1>1
  <2> HIDE DEF l, m
  <2> QED
    BY <2>1
<1> HIDE DEF l, m
<1>6. WriteCalls(p, n) \in {<<l>>, <<m>>, << <<NL>>, l>>} /\ WriteCalls(p, n) # <<>>
  BY <1>3
<1>7. torn => WriteCalls(p, n) # <<l>> /\ Head(WriteCalls(p, n))[1] = NL
  BY <1>1, <1>3, <1>4, <1>5, Calls
<1> QED
  BY <1>6, <1>7 DEF l, m

\* A publish begins when none is under way.
LEMMA Publishing ==
    ASSUME SinkInv, Publish
    PROVE  /\ count + 1 \in 1..MaxPublish /\ count' = count + 1 /\ count' \in Byte
           /\ op = "none" /\ plan = <<>> /\ UNCHANGED <<file, torn, acked>>
           /\ size'[count'] \in Nat \ {0}
           /\ \A p \in 1..count : size'[p] = size[p]
           /\ state = "open" =>
                op' = "publish" /\ plan' = WriteCalls(count', size'[count'])
           /\ state = "closed" =>
                op' = op /\ plan' = plan /\ excused' = excused \cup {count'}
           /\ state \in {"open", "closed"} /\ UNCHANGED <<state, bounds>>
           /\ state = "open" => excused' = excused
<1> QED
  BY LineSinkAssumption DEF Publish, SinkInv, SinkTypes, TypeOK, Byte

\* The write calls that are left belong to the publish or the Close under way.
LEMMA PlanStep == SinkInv /\ [Next]_vars => PlanOK'
<1> SUFFICES ASSUME SinkInv, [Next]_vars PROVE PlanOK'
  OBVIOUS
<1>1. CASE Publish
  <2>1. CASE state = "open"
    <3>1. op' = "publish" /\ plan' = WriteCalls(count', size'[count'])
      BY <1>1, <2>1, Publishing
    <3>2. count' \in Byte /\ count' > 0 /\ size'[count'] \in Nat \ {0}
      BY <1>1, Publishing
    <3>3. plan' \in {<<Current'>>, << <<NL>> \o Current'>>, << <<NL>>, Current'>>}
      BY <3>1, <3>2, CallsOfPublish DEF Current
    <3> QED
      BY <3>1, <3>2, <3>3 DEF PlanOK
  <2>2. CASE state = "closed"
    BY <1>1, <2>2, Publishing DEF PlanOK
  <2> QED
    BY <1>1, <2>1, <2>2, Publishing
<1>2. CASE WriteAll
  <2>1. /\ op' = op /\ count' = count /\ Current' = Current
        /\ plan' = Tail(plan) /\ plan # <<>>
    BY <1>2 DEF WriteAll, Current
  <2>2. plan' \in {<<>>, <<Current>>} /\ (op = "close" => plan' = <<>>)
    BY <2>1, WriteCall
  <2> QED
    BY <2>1, <2>2 DEF SinkInv, PlanOK
<1>3. CASE Close
  BY <1>3 DEF Close, PlanOK
<1>4. CASE WriteFails \/ Published \/ Closed \/ Crash
  BY <1>4 DEF WriteFails, Published, Closed, Crash, PlanOK
<1>5. CASE Open \/ Foreign \/ UNCHANGED vars
  BY <1>5 DEF Open, Foreign, vars, SinkInv, PlanOK, Current
<1> QED
  BY <1>1, <1>2, <1>3, <1>4, <1>5 DEF Next

\* How the file ends after a step.
LEMMA EndOfFile ==
    ASSUME NEW f \in Seq(Byte), NEW s \in Seq(Byte), s # <<>>
    PROVE  EndsWithoutNewline(f \o s) <=> s[Len(s)] # NL
<1>1. Len(s) \in 1..Len(s) /\ f \o s # <<>> /\ Len(f \o s) = Len(f) + Len(s)
  BY Grown, EmptySeq
<1> QED
  BY <1>1, Grown DEF EndsWithoutNewline

\* A fragment at the end of the file stays known until a newline ends it.
LEMMA FragmentsStep == SinkInv /\ [Next]_vars => FragmentsEnd'
<1> SUFFICES ASSUME SinkInv, [Next]_vars PROVE FragmentsEnd'
  OBVIOUS
<1>0. file \in Seq(Byte) /\ file \o <<>> = file
  BY ConcatEmptySeq DEF SinkInv, SinkTypes, TypeOK, Byte
<1>1. CASE Publish
  <2>1. CASE state = "open"
    <3>1. plan' = WriteCalls(count', size'[count']) /\ plan' # <<>>
          /\ (torn => Head(plan')[1] = NL)
      BY <1>1, <2>1, Publishing, CallsOfPublish
    <3>2. UNCHANGED <<file, torn, state, bounds>>
      BY <1>1, Publishing
    <3> QED
      BY <2>1, <3>1, <3>2 DEF SinkInv, FragmentsEnd, EndsWithoutNewline, bounds
  <2>2. CASE state = "closed"
    BY <1>1, <2>2, Publishing DEF SinkInv, FragmentsEnd, EndsWithoutNewline, bounds
  <2> QED
    BY <1>1, <2>1, <2>2, Publishing
<1>2. CASE WriteAll
  <2>1. plan # <<>> /\ file' = file \o Head(plan) /\ OneLine(Head(plan))
    BY <1>2, WriteCall DEF WriteAll
  <2>2. ~EndsWithoutNewline(file)'
    BY <1>0, <2>1, EndOfFile, EmptySeq DEF OneLine, EndsWithoutNewline
  <2> QED
    BY <2>2 DEF FragmentsEnd
<1>3. CASE WriteFails
  <2>1. PICK n \in 0..(Len(Head(plan)) - 1) :
            /\ file' = file \o SubSeq(Head(plan), 1, n)
            /\ torn' = IF op = "close" THEN torn ELSE (torn \/ sent + n > 0)
    BY <1>3 DEF WriteFails
  <2> DEFINE s == SubSeq(Head(plan), 1, n)
  <2>2. plan # <<>> /\ plan' = <<>> /\ op' = "none" /\ faults' + crashes' # 0
        /\ state' = IF op = "close" THEN "closed" ELSE state
    BY <1>3 DEF WriteFails, SinkInv, SinkTypes
  <2>3. s \in Seq(Byte) /\ Len(s) = n
    BY <2>2, WriteCall, Prefix DEF OneLine
  <2>4. CASE n = 0
    <3>1. s = <<>>
      BY <2>3, <2>4, EmptySeq
    <3>2. file' = file /\ (op # "close" => (torn => torn'))
      BY <1>0, <2>1, <3>1
    <3> QED
      BY <2>2, <3>2 DEF SinkInv, FragmentsEnd, EndsWithoutNewline
  <2>5. CASE n # 0
    <3>1. sent + n > 0
      <4>1. sent \in Nat /\ n \in Nat
        BY <2>1, <2>2, WriteCall DEF OneLine, SinkInv, SinkTypes
      <4> QED
        BY <4>1, <2>5
    <3>2. op # "close" => torn'
      BY <2>1, <3>1
    <3> QED
      BY <2>2, <3>2 DEF FragmentsEnd
  <2> QED
    BY <2>4, <2>5
<1>4. CASE Published
  BY <1>4 DEF Published, SinkInv, FragmentsEnd, EndsWithoutNewline, bounds
<1>5. CASE Close
  BY <1>5 DEF Close, SinkInv, FragmentsEnd, EndsWithoutNewline, bounds
<1>6. CASE Closed
  BY <1>6 DEF Closed, SinkInv, FragmentsEnd, EndsWithoutNewline, bounds
<1>7. CASE Crash
  BY <1>7 DEF Crash, SinkInv, SinkTypes, FragmentsEnd
<1>8. CASE Open
  BY <1>8 DEF Open, SinkInv, FragmentsEnd, EndsWithoutNewline, bounds
<1>9. CASE Foreign
  <2>1. ForeignLine \in Seq(Byte) /\ ForeignLine # <<>> /\ ForeignLine[Len(ForeignLine)] = NL
    BY LineSinkAssumption DEF ForeignLine, Byte, NL
  <2>2. ~EndsWithoutNewline(file)'
    BY <1>0, <1>9, <2>1, EndOfFile DEF Foreign, ForeignLine, EndsWithoutNewline
  <2> QED
    BY <2>2 DEF FragmentsEnd
<1>10. CASE UNCHANGED vars
  BY <1>10 DEF vars, bounds, SinkInv, FragmentsEnd, EndsWithoutNewline
<1> QED
  BY <1>1, <1>2, <1>3, <1>4, <1>5, <1>6, <1>7, <1>8, <1>9, <1>10 DEF Next

\* Nothing is written into a line that another began.
LEMMA FusedStep == SinkInv /\ [Next]_vars => NoFusedRecords'
<1> SUFFICES ASSUME SinkInv, [Next]_vars, (foreigns = 0 \/ faults + crashes = 0)'
             PROVE  Unfused(file')
  BY DEF NoFusedRecords, Unfused
<1>0. file \in Seq(Byte)
  BY DEF SinkInv, SinkTypes, TypeOK, Byte
<1>1. foreigns = 0 \/ faults + crashes = 0
  BY DEF SinkInv, SinkTypes, Next, Publish, WriteAll, WriteFails, Published, Close, Closed,
         Crash, Open, Foreign, vars, bounds
<1>2. Unfused(file)
  BY <1>1 DEF SinkInv, NoFusedRecords, Unfused
<1>3. PICK s \in Seq(Byte) : file' = file \o s /\ Appended(s)
  BY Growth
<1>4. CASE s = <<>>
  BY <1>0, <1>2, <1>3, <1>4, ConcatEmptySeq
<1>5. CASE s = ForeignLine /\ Foreign
  <2>1. Unfused(s)
    BY <1>5 DEF ForeignLine, Unfused, NL
  <2>2. ~EndsWithoutNewline(file)
    BY <1>5 DEF Foreign, SinkInv, SinkTypes, FragmentsEnd
  <2> QED
    BY <1>0, <1>2, <1>3, <2>1, <2>2, UnfusedGrown DEF EndsWithoutNewline
<1>6. CASE /\ plan # <<>>
           /\ Len(s) \in 1..Len(Head(plan))
           /\ \A i \in 1..Len(s) : s[i] = Head(plan)[i]
  <2>1. Unfused(s)
    BY <1>6, WriteCall DEF OneLine, Unfused
  <2>2. EndsWithoutNewline(file) => s[1] = NL
    BY <1>6, WriteCall DEF OneLine, SinkInv, FragmentsEnd
  <2> QED
    BY <1>0, <1>2, <1>3, <2>1, <2>2, UnfusedGrown DEF EndsWithoutNewline
<1> QED
  BY <1>3, <1>4, <1>5, <1>6 DEF Appended

\* Where a line that starts in a longer file starts.
LEMMA StartsGrown ==
    ASSUME NEW p \in Byte \ {NL}, NEW s \in Seq(Byte), file \in Seq(Byte), file' = file \o s
    PROVE  \A i \in 1..Len(file') : Starts(p, i)' =>
                \/ i \in 1..Len(file) /\ Starts(p, i)
                \/ i - Len(file) \in 1..Len(s) /\ s[i - Len(file)] = p
                     /\ (i - Len(file) = 1 \/ s[i - Len(file) - 1] = NL)
<1> SUFFICES ASSUME NEW i \in 1..Len(file'), file'[i] = p, i = 1 \/ file'[i - 1] = NL
             PROVE  \/ i \in 1..Len(file) /\ Starts(p, i)
                    \/ i - Len(file) \in 1..Len(s) /\ s[i - Len(file)] = p
                        /\ (i - Len(file) = 1 \/ s[i - Len(file) - 1] = NL)
  BY DEF Starts
<1> USE Grown
<1>1. CASE i <= Len(file)
  BY <1>1 DEF Starts
<1>2. CASE i > Len(file)
  <2>1. i - Len(file) \in 1..Len(s) /\ file'[i] = s[i - Len(file)]
    BY <1>2
  <2>2. i - Len(file) # 1 => i - 1 \in (Len(file) + 1)..(Len(file) + Len(s))
    BY <1>2, <2>1
  <2>3. i - Len(file) # 1 => file'[i - 1] = s[(i - 1) - Len(file)] /\ i # 1
    BY <1>2, <2>2
  <2> QED
    BY <2>1, <2>3
<1> QED
  BY <1>1, <1>2

\* Each publish writes its bytes once.
LEMMA BytesStep == SinkInv /\ [Next]_vars => BytesOnce'
<1> SUFFICES ASSUME SinkInv, [Next]_vars PROVE BytesOnce'
  OBVIOUS
<1>0. file \in Seq(Byte) /\ count \in 0..MaxPublish /\ MaxPublish \in Nat /\ Len(file) \in Nat
  BY LineSinkAssumption DEF SinkInv, SinkTypes, TypeOK, Byte
<1>1. CASE Publish
  <2>1. count' = count + 1 /\ file' = file /\ count' \in Nat \ {MaxPublish + 1}
    BY <1>0, <1>1, Publishing
  <2>2. \A i \in 1..Len(file) : file[i] \in 0..count \cup {MaxPublish + 1}
    BY DEF SinkInv, BytesOnce
  <2>3. \A i \in 1..Len(file') : file'[i] # count' /\ file'[i] \in 0..count' \cup {MaxPublish + 1}
    BY <1>0, <2>1, <2>2
  <2>4. \A p \in 1..count' : \A i, j \in 1..Len(file') :
            Starts(p, i)' /\ Starts(p, j)' => i = j
    <3>1. \A p \in 1..count' : p \in 1..count \/ p = count'
      BY <1>0, <2>1
    <3> QED
      BY <2>1, <2>3, <3>1 DEF SinkInv, BytesOnce, Starts
  <2> QED
    BY <2>3, <2>4 DEF BytesOnce
<1>2. CASE UNCHANGED <<file, count>> /\ ~Publish
  <2>1. plan # <<>> \/ plan' = <<>> \/ op' # "publish"
    BY <1>2 DEF Next, Published, WriteAll, WriteFails, Close, Closed, Crash, Open, Foreign, vars
  <2>2. op' = "publish" => op = "publish"
    BY <1>2 DEF Next, Published, WriteAll, WriteFails, Close, Closed, Crash, Open, Foreign, vars
  <2> QED
    BY <1>2, <2>1, <2>2 DEF SinkInv, BytesOnce, Starts
<1>3. CASE UNCHANGED count /\ file' # file
  <2>1. PICK s \in Seq(Byte) : file' = file \o s /\ Appended(s)
    BY Growth
  <2>2. s # <<>>
    BY <1>0, <1>3, <2>1, ConcatEmptySeq
  <2>3. /\ \A i \in 1..Len(file) : file[i] \in 0..count \cup {MaxPublish + 1}
        /\ op = "publish" /\ plan # <<>> => \A i \in 1..Len(file) : file[i] # count
        /\ \A p \in 1..count : \A i, j \in 1..Len(file) :
              Starts(p, i) /\ Starts(p, j) => i = j
    BY DEF SinkInv, BytesOnce
  <2>4. \A i \in 1..Len(file') :
            \/ i \in 1..Len(file) /\ file'[i] = file[i]
            \/ i - Len(file) \in 1..Len(s) /\ file'[i] = s[i - Len(file)]
    BY <1>0, <2>1, Grown
  <2>5. \A p \in 1..count : \A i \in 1..Len(file') : Starts(p, i)' =>
            \/ i \in 1..Len(file) /\ Starts(p, i)
            \/ /\ i - Len(file) \in 1..Len(s)
               /\ s[i - Len(file)] = p
               /\ i - Len(file) = 1 \/ s[i - Len(file) - 1] = NL
    <3>1. \A p \in 1..count : p \in Byte \ {NL}
      BY <1>0 DEF Byte, NL
    <3> QED
      BY <1>0, <2>1, <3>1, StartsGrown
  <2>6. CASE s = ForeignLine /\ Foreign
    <3>1. \A i \in 1..Len(s) : s[i] = MaxPublish + 1 \/ s[i] = NL
      BY <2>6 DEF ForeignLine
    <3>2. op' = "publish" /\ plan' # <<>> => op = "publish" /\ plan # <<>> /\ count # NL
      BY <2>6, CurrentFacts DEF Foreign
    <3>3. \A p \in 1..count : p # NL /\ p # MaxPublish + 1
      BY <1>0 DEF NL
    <3>4. \A p \in 1..count : \A i, j \in 1..Len(file') :
              Starts(p, i)' /\ Starts(p, j)' => i = j
      BY <2>3, <2>5, <3>1, <3>3
    <3>5. op' = "publish" /\ plan' # <<>> => \A i \in 1..Len(file') : file'[i] # count
      BY <1>0, <2>3, <2>4, <3>1, <3>2
    <3>6. \A i \in 1..Len(file') : file'[i] \in 0..count \cup {MaxPublish + 1}
      <4>1. NL \in 0..count
        BY <1>0 DEF NL
      <4> QED
        BY <2>3, <2>4, <3>1, <4>1
    <3> QED
      BY <1>3, <3>4, <3>5, <3>6 DEF BytesOnce
  <2>7. CASE /\ plan # <<>>
             /\ WriteAll \/ WriteFails \/ Crash
             /\ Len(s) \in 1..Len(Head(plan))
             /\ \A i \in 1..Len(s) : s[i] = Head(plan)[i]
    <3> DEFINE c == Head(plan)
    <3>1. OneLine(c) /\ op \in {"publish", "close"}
      BY <2>7, WriteCall
    <3>2. \A i \in 1..Len(s) : /\ i \in 1..Len(c) /\ s[i] = c[i]
                               /\ s[i] \in {NL, count} /\ (op = "close" => s[i] = NL)
                               /\ (i # 1 => i - 1 \in 1..Len(s) /\ s[i - 1] = c[i - 1])
      BY <2>7, <3>1 DEF OneLine
    <3>3. \A i \in 1..Len(file') : file'[i] \in 0..count \cup {MaxPublish + 1}
      BY <1>0, <2>3, <2>4, <3>2 DEF NL
    <3>4. op' = "publish" /\ plan' # <<>> => op = "publish" /\ \A i \in 1..Len(s) : s[i] # count
      <4>1. SUFFICES ASSUME op' = "publish", plan' # <<>>
                     PROVE  op = "publish" /\ c = <<NL>>
        BY <3>2, CurrentFacts
      <4>2. WriteAll
        BY <2>7, <4>1 DEF WriteFails, Crash
      <4> QED
        BY <2>7, <4>1, <4>2, WriteCall DEF WriteAll
    <3>5. op' = "publish" /\ plan' # <<>> => \A i \in 1..Len(file') : file'[i] # count
      BY <2>3, <2>4, <2>7, <3>4
    <3>6. ASSUME NEW p \in 1..count, NEW i \in 1..Len(file'), NEW j \in 1..Len(file'),
                 Starts(p, i)', Starts(p, j)'
          PROVE  i = j
      <4>1. p # NL
        BY <1>0 DEF NL
      <4>2. CASE i \in 1..Len(file) /\ Starts(p, i) /\ j \in 1..Len(file) /\ Starts(p, j)
        BY <2>3, <4>2
      <4>3. ASSUME NEW k \in 1..Len(s), s[k] = p
            PROVE  op = "publish" /\ p = count /\ \A n \in 1..Len(file) : file[n] # p
        BY <2>3, <2>7, <3>1, <3>2, <4>1, <4>3
      <4>4. CASE i \in 1..Len(file) /\ Starts(p, i)
        BY <2>5, <3>6, <4>2, <4>3, <4>4 DEF Starts
      <4>5. CASE j \in 1..Len(file) /\ Starts(p, j)
        BY <2>5, <3>6, <4>2, <4>3, <4>5 DEF Starts
      <4>6. CASE /\ i - Len(file) \in 1..Len(s) /\ s[i - Len(file)] = p
                 /\ i - Len(file) = 1 \/ s[i - Len(file) - 1] = NL
                 /\ j - Len(file) \in 1..Len(s) /\ s[j - Len(file)] = p
                 /\ j - Len(file) = 1 \/ s[j - Len(file) - 1] = NL
        <5> DEFINE m == i - Len(file)
                   n == j - Len(file)
        <5>1. /\ m \in 1..Len(c) /\ c[m] # NL /\ (m = 1 \/ c[m - 1] = NL)
              /\ n \in 1..Len(c) /\ c[n] # NL /\ (n = 1 \/ c[n - 1] = NL)
          BY <3>2, <4>1, <4>6
        <5>2. m = n
          BY <3>1, <5>1 DEF OneLine
        <5> QED
          BY <1>0, <4>6, <5>2
      <4> QED
        BY <2>5, <3>6, <4>4, <4>5, <4>6
    <3> QED
      BY <1>3, <3>3, <3>5, <3>6 DEF BytesOnce
  <2> QED
    BY <2>1, <2>2, <2>6, <2>7 DEF Appended
<1>4. UNCHANGED count \/ Publish
  BY DEF Next, Published, WriteAll, WriteFails, Close, Closed, Crash, Open, Foreign, vars
<1>5. Publish => UNCHANGED file
  BY DEF Publish
<1> QED
  BY <1>1, <1>2, <1>3, <1>4, <1>5

\* A part of a file is what its bytes say.
LEMMA SubSeqIs ==
    ASSUME NEW f \in Seq(Byte), NEW l \in Seq(Byte), NEW i \in Nat \ {0}, NEW n \in Nat,
           i + n <= Len(f), Len(l) = n + 1, \A j \in 1..(n + 1) : f[i + j - 1] = l[j]
    PROVE  SubSeq(f, i, i + n) = l
<1> DEFINE g == SubSeq(f, i, i + n)
<1>1. /\ g \in Seq(Byte) /\ Len(g) = n + 1
      /\ \A j \in 1..(n + 1) : g[j] = f[i + j - 1]
  BY SubSeqProperties
<1> HIDE DEF g
<1>2. g = l
  BY <1>1, SeqEqual
<1> QED
  BY <1>2 DEF g

\* The bytes of a part of the file.
LEMMA BytesOfSubSeq ==
    ASSUME NEW f \in Seq(Byte), NEW i \in Nat \ {0}, NEW n \in Nat, i + n <= Len(f)
    PROVE  \A j \in 1..(n + 1) : SubSeq(f, i, i + n)[j] = f[i + j - 1]
  BY SubSeqProperties

\* A line in the file stays where it is.
LEMMA ThereGrown ==
    ASSUME file \in Seq(Byte), NEW s \in Seq(Byte), file' = file \o s,
           NEW p \in Byte, size[p] \in Nat \ {0}, size'[p] = size[p], There(p)
    PROVE  There(p)'
<1> DEFINE n == size[p]
           l == Line(p, n)
<1>1. PICK i \in 1..Len(file) : LineAt(p, i)
  BY DEF There
<1>2. /\ l \in Seq(Byte) /\ Len(l) = n + 1 /\ n \in Nat /\ i + n <= Len(file)
      /\ SubSeq(file, i, i + n) = l /\ (i = 1 \/ file[i - 1] = NL)
  BY <1>1, LineFacts DEF LineAt
<1> HIDE DEF n, l
<1>3. \A j \in 1..(n + 1) : i + j - 1 \in 1..Len(file) /\ file[i + j - 1] = l[j]
  <2>1. i \in Nat \ {0} /\ Len(file) \in Nat
    OBVIOUS
  <2>2. \A j \in 1..(n + 1) : SubSeq(file, i, i + n)[j] = file[i + j - 1]
    BY <1>2, <2>1, BytesOfSubSeq
  <2>3. \A j \in 1..(n + 1) : i + j - 1 \in 1..Len(file)
    BY <1>2, <2>1
  <2> QED
    BY <1>2, <2>2, <2>3
<1>4. /\ file' \in Seq(Byte) /\ Len(file) \in Nat /\ Len(file) <= Len(file')
      /\ \A j \in 1..Len(file) : file'[j] = file[j]
  BY Grown
<1>5. i \in 1..Len(file') /\ i + n <= Len(file') /\ (i = 1 \/ file'[i - 1] = NL)
  BY <1>2, <1>4
<1>6. SubSeq(file', i, i + n) = l
  BY <1>2, <1>3, <1>4, <1>5, SubSeqIs
<1> QED
  BY <1>5, <1>6 DEF There, LineAt, n, l

\* What is appended is found behind what was there.
LEMMA LandsBehind ==
    ASSUME NEW f \in Seq(Byte), NEW l \in Seq(Byte)
    PROVE  /\ f \o l \in Seq(Byte) /\ Len(f \o l) = Len(f) + Len(l)
           /\ \A j \in 1..Len(f) : (f \o l)[j] = f[j]
           /\ \A j \in 1..Len(l) : (f \o l)[Len(f) + j] = l[j]
  BY Grown

\* A line that has just been written, behind a newline or with one in front.
LEMMA ThereWritten ==
    ASSUME file \in Seq(Byte), NEW p \in Byte, size'[p] \in Nat \ {0},
           \/ file' = file \o Line(p, size'[p]) /\ ~EndsWithoutNewline(file)
           \/ file' = file \o (<<NL>> \o Line(p, size'[p]))
    PROVE  There(p)'
<1> DEFINE n == size'[p]
           l == Line(p, n)
           m == <<NL>> \o l
<1>1. /\ l \in Seq(Byte) /\ Len(l) = n + 1 /\ n \in Nat \ {0} /\ Len(file) \in Nat
      /\ m \in Seq(Byte) /\ Len(m) = n + 2 /\ m[1] = NL
  <2>1. l \in Seq(Byte) /\ Len(l) = n + 1 /\ n \in Nat \ {0}
    BY LineFacts
  <2>3. Len(file) \in Nat
    OBVIOUS
  <2>2. m \in Seq(Byte) /\ Len(m) = n + 2 /\ m[1] = NL
    BY NewlineLine
  <2> QED
    BY <2>1, <2>2, <2>3
<1>2. \A j \in 1..(n + 1) : m[j + 1] = l[j]
  <2>1. <<NL>> \in Seq(Byte) /\ Len(<<NL>>) = 1
    BY LineSinkAssumption DEF NL, Byte
  <2> HIDE DEF l, n
  <2> QED
    BY <1>1, <2>1, Grown
<1>3. ASSUME NEW i \in 1..Len(file'), file' \in Seq(Byte), i + n <= Len(file'),
             i = 1 \/ file'[i - 1] = NL, \A j \in 1..(n + 1) : file'[i + j - 1] = l[j]
      PROVE  There(p)'
  <2> HIDE DEF l, n
  <2>1. SubSeq(file', i, i + n) = l
    BY <1>1, <1>3, SubSeqIs
  <2> QED
    BY <1>3, <2>1 DEF There, LineAt, n, l
<1>4. CASE file' = file \o l /\ ~EndsWithoutNewline(file)
  <2> DEFINE i == Len(file) + 1
  <2> HIDE DEF i, l, m, n
  <2>1. /\ file' \in Seq(Byte) /\ Len(file') = Len(file) + Len(l)
        /\ \A j \in 1..Len(l) : file'[Len(file) + j] = l[j]
        /\ \A j \in 1..Len(file) : file'[j] = file[j]
    <3>1. l \in Seq(Byte) /\ file' = file \o l
      BY <1>1, <1>4
    <3> QED
      BY <3>1, LandsBehind
  <2>2. i \in 1..Len(file') /\ i + n <= Len(file')
        /\ \A j \in 1..(n + 1) : i + j - 1 = Len(file) + j
    BY <1>1, <2>1 DEF i
  <2>3. \A j \in 1..(n + 1) : j \in 1..Len(l)
    BY <1>1
  <2>4. \A j \in 1..(n + 1) : file'[i + j - 1] = l[j]
    BY <2>1, <2>2, <2>3
  <2>5. i = 1 \/ file'[i - 1] = NL
    <3>1. CASE Len(file) = 0
      BY <3>1 DEF i
    <3>2. CASE Len(file) # 0
      BY <1>1, <1>4, <2>1, <3>2, EmptySeq DEF i, EndsWithoutNewline
    <3> QED
      BY <3>1, <3>2
  <2> QED
    BY <1>3, <2>1, <2>2, <2>5, <2>4
<1>5. CASE file' = file \o m
  <2> DEFINE i == Len(file) + 2
  <2> HIDE DEF i, l, n, m
  <2>1. /\ file' \in Seq(Byte) /\ Len(file') = Len(file) + Len(m)
        /\ \A j \in 1..Len(m) : file'[Len(file) + j] = m[j]
    BY <1>1, <1>5, LandsBehind
  <2>2. i \in 1..Len(file') /\ i + n <= Len(file')
        /\ \A j \in 1..(n + 1) : i + j - 1 = Len(file) + (j + 1) /\ j + 1 \in 1..Len(m)
    BY <1>1, <2>1 DEF i
  <2>3. \A j \in 1..(n + 1) : file'[i + j - 1] = l[j]
    BY <1>2, <2>1, <2>2
  <2>4. i - 1 = Len(file) + 1 /\ 1 \in 1..Len(m)
    BY <1>1 DEF i
  <2>5. file'[i - 1] = NL
    BY <1>1, <2>1, <2>4
  <2> QED
    BY <1>3, <2>1, <2>2, <2>3, <2>5
<1> QED
  BY <1>4, <1>5

\* A line that was acknowledged stays in the file.
LEMMA WholeStep == SinkInv /\ [Next]_vars => WholeLines'
<1> SUFFICES ASSUME SinkInv, [Next]_vars PROVE WholeLines'
  OBVIOUS
<1>0. file \in Seq(Byte) /\ count \in 0..MaxPublish /\ MaxPublish \in Nat
  BY LineSinkAssumption DEF SinkInv, SinkTypes, TypeOK, Byte
<1>1. ASSUME NEW p \in 1..count, There(p)
      PROVE  There(p)'
  <2>1. size'[p] = size[p] /\ size[p] \in Nat \ {0}
    BY Publishing DEF SinkInv, SinkTypes, Next, Published, WriteAll, WriteFails, Close, Closed,
       Crash, Open, Foreign, vars
  <2>2. p \in Byte
    BY <1>0 DEF Byte
  <2>3. PICK s \in Seq(Byte) : file' = file \o s
    BY Growth
  <2> QED
    BY <1>0, <1>1, <2>1, <2>2, <2>3, ThereGrown
<1>2. acked \subseteq 1..count /\ \A p \in acked : There(p)
  BY DEF SinkInv, SinkTypes, TypeOK, WholeLines
<1>3. CASE Published
  <2>1. acked' = acked \cup {count} /\ op' = "none" /\ count \in 1..count /\ There(count)
    BY <1>3, CurrentFacts DEF Published, SinkInv, WholeLines
  <2> QED
    BY <1>1, <1>2, <2>1 DEF WholeLines
<1>4. CASE WriteAll
  <2>1. /\ plan # <<>> /\ file' = file \o Head(plan) /\ plan' = Tail(plan)
        /\ UNCHANGED <<op, acked, count, size>>
    BY <1>4 DEF WriteAll
  <2>2. op = "publish" /\ plan' = <<>> => There(count)'
    <3>1. SUFFICES ASSUME op = "publish", Tail(plan) = <<>> PROVE There(count)'
      BY <2>1
    <3>2. Head(plan) \in {Current, <<NL>> \o Current}
      BY <2>1, <3>1, WriteCall, Calls
    <3>3. count \in Byte /\ count # NL /\ size[count] \in Nat \ {0}
      BY <3>1, CurrentFacts
    <3>4. Head(plan) = Current => Head(plan)[1] = count
      <4>1. \A n \in Nat \ {0} : 1 \in 1..n
        OBVIOUS
      <4>2. \A i \in 1..size[count] : Line(count, size[count])[i] = count
        BY <3>3, LineFacts
      <4>3. Line(count, size[count])[1] = count
        BY <3>3, <4>1, <4>2
      <4> QED
        BY <4>3 DEF Current
    <3>5. Head(plan) = Current => ~EndsWithoutNewline(file)
      BY <2>1, <3>3, <3>4 DEF SinkInv, FragmentsEnd
    <3>6. \/ file' = file \o Line(count, size'[count]) /\ ~EndsWithoutNewline(file)
          \/ file' = file \o (<<NL>> \o Line(count, size'[count]))
      BY <2>1, <3>2, <3>5 DEF Current
    <3> QED
      BY <1>0, <2>1, <3>3, <3>6, ThereWritten DEF There, LineAt
  <2> QED
    BY <1>1, <1>2, <2>1, <2>2 DEF WholeLines
<1>5. CASE Publish
  <2>1. acked' = acked
    BY <1>5 DEF Publish
  <2>2. ~(op' = "publish" /\ plan' = <<>>)
    <3>1. count' \in Byte /\ size'[count'] \in Nat \ {0}
      BY <1>5, Publishing
    <3> QED
      BY <1>5, <3>1, Publishing, CallsOfPublish
  <2> QED
    BY <1>1, <1>2, <2>1, <2>2 DEF WholeLines
<1>6. CASE WriteFails \/ Close \/ Closed \/ Crash \/ Open
  <2>1. acked' = acked /\ op' # "publish"
    BY <1>6 DEF WriteFails, Close, Closed, Crash, Open
  <2> QED
    BY <1>1, <1>2, <2>1 DEF WholeLines
<1>7. CASE Foreign \/ UNCHANGED vars
  <2>1. UNCHANGED <<acked, op, plan, count, size>>
    BY <1>7 DEF Foreign, vars
  <2>2. op = "publish" => count \in 1..count
    BY CurrentFacts
  <2> QED
    BY <1>1, <1>2, <2>1, <2>2 DEF WholeLines, SinkInv, There, LineAt
<1> QED
  BY <1>3, <1>4, <1>5, <1>6, <1>7 DEF Next

\* Every publish is acknowledged, excused or under way.
LEMMA AnsweredStep == SinkInv /\ [Next]_vars => Answered'
<1> SUFFICES ASSUME SinkInv, [Next]_vars PROVE Answered'
  OBVIOUS
<1> USE DEF SinkInv, SinkTypes, TypeOK, Answered
<1>1. CASE Publish
  BY <1>1, Publishing
<1>2. CASE WriteAll \/ Open \/ Foreign \/ UNCHANGED vars
  BY <1>2 DEF WriteAll, Open, Foreign, vars
<1>3. CASE WriteFails
  BY <1>3 DEF WriteFails
<1>4. CASE Published
  BY <1>4 DEF Published
<1>5. CASE Close \/ Closed
  BY <1>5 DEF Close, Closed
<1>6. CASE Crash
  BY <1>6 DEF Crash
<1> QED
  BY <1>1, <1>2, <1>3, <1>4, <1>5, <1>6 DEF Next

\* Every step of the sink keeps its invariant.
LEMMA SinkInvStep == SinkInv /\ [Next]_vars => SinkInv'
  BY SinkTypesStep, PlanStep, FragmentsStep, FusedStep, BytesStep, WholeStep, AnsweredStep
     DEF SinkInv


-----------------------------------------------------------------------------
(***************************************************************************)
(* The steps of the workers.                                               *)
(***************************************************************************)

\* Each step of the workers and the sink together is one of the sink, or none.
LEMMA SinkSteps == [DNext]_<<vars, loop>> => [Next]_vars
<1> SUFFICES ASSUME [DNext]_<<vars, loop>> PROVE [Next]_vars
  OBVIOUS
<1> USE DEF Next, vars
<1>1. ASSUME NEW w \in Workers,
             \/ Encoded(w) \/ Attempt(w) \/ AttemptFails(w) \/ AttemptSucceeds(w)
             \/ BackoffOver(w) \/ BackoffCancelled(w)
      PROVE  [Next]_vars
  BY <1>1 DEF Encoded, Attempt, AttemptFails, AttemptSucceeds, BackoffOver, BackoffCancelled
<1>2. CASE Cancel \/ CloseSink \/ SinkStep \/ ProcessDies \/ Restart
  BY <1>2 DEF Cancel, CloseSink, SinkStep, ProcessDies, Restart
<1> QED
  BY <1>1, <1>2 DEF DNext

\* The attempts of a record are finitely many publishes.
LEMMA AttemptsFinite ==
    ASSUME LoopTypes, count \in Nat, NEW r
    PROVE  /\ Attempts(r) \subseteq 1..count
           /\ IsFiniteSet(Attempts(r)) /\ Cardinality(Attempts(r)) \in Nat
<1>1. Attempts(r) \subseteq 1..count
  BY DEF Attempts
<1>2. IsFiniteSet(1..count)
  BY FS_Interval
<1> QED
  BY <1>1, <1>2, FS_Subset, FS_CardinalityType

\* An attempt adds one publish to those of its record.
LEMMA AttemptAdds ==
    ASSUME DeliveryInv, NEW w \in Workers, Attempt(w)
    PROVE  /\ rec[w] \in 1..records /\ records' = records /\ acked' = acked
           /\ count' = count + 1 /\ count \in Nat /\ acked \subseteq 1..count
           /\ of' \in [1..MaxPublish -> 0..MaxRecords]
           /\ \A p \in 1..count : of'[p] = of[p]
           /\ of'[count'] = rec[w]
           /\ {p \in 1..count' : of'[p] = rec[w]} = Attempts(rec[w]) \cup {count'}
           /\ \A r : r # rec[w] => {p \in 1..count' : of'[p] = r} = Attempts(r)
<1>1. /\ Publish /\ task[w] = "trying" /\ of' = [of EXCEPT ![count + 1] = rec[w]]
      /\ records' = records
  BY DEF Attempt
<1>2. /\ count + 1 \in 1..MaxPublish /\ count' = count + 1 /\ acked' = acked
      /\ count \in Nat /\ acked \subseteq 1..count
  BY <1>1, Publishing DEF DeliveryInv, SinkInv, SinkTypes, TypeOK
<1>3. rec[w] \in 1..records /\ records \in 0..MaxRecords
  BY <1>1, DeliveryAssumption DEF DeliveryInv, LoopTypes, InHand
<1>4. /\ of' \in [1..MaxPublish -> 0..MaxRecords] /\ of'[count'] = rec[w]
      /\ \A p \in 1..count : of'[p] = of[p] /\ p # count'
  BY <1>1, <1>2, <1>3, DeliveryAssumption DEF DeliveryInv, LoopTypes
<1>5. 1..count' = (1..count) \cup {count'} /\ count' \notin 1..count
  BY <1>2
<1>6. \A r : {p \in 1..count' : of'[p] = r} =
               IF r = rec[w] THEN Attempts(r) \cup {count'} ELSE Attempts(r)
  BY <1>4, <1>5 DEF Attempts
<1> QED
  BY <1>1, <1>2, <1>3, <1>4, <1>6

\* What the other steps do to the attempts of a record: nothing.
LEMMA AttemptsKept ==
    ASSUME UNCHANGED <<count, of>>, NEW r
    PROVE  Attempts(r)' = Attempts(r) /\ {p \in 1..count' : of'[p] = r} = Attempts(r)
  BY DEF Attempts

\* The worker that writes is the one whose record the sink has in hand.
LEMMA Writer ==
    ASSUME DeliveryInv, NEW w \in Workers, task[w] = "writing"
    PROVE  /\ op = "publish" /\ rec[w] \in 1..records /\ of[count] = rec[w]
           /\ count \in 1..count /\ count \in Attempts(rec[w])
           /\ \A v \in Workers : task[v] = "writing" \/ rec[v] = rec[w] => v = w
<1>1. op = "publish" /\ of[count] = rec[w]
  BY DEF DeliveryInv, InHand
<1>2. count \in 1..count
  BY <1>1, CurrentFacts DEF DeliveryInv
<1>3. rec[w] \in 1..records
  BY DeliveryAssumption DEF DeliveryInv, LoopTypes, InHand
<1>4. \A v \in Workers : task[v] = "writing" => rec[v] = rec[w]
  BY <1>1 DEF DeliveryInv, InHand
<1>5. \A v \in Workers : rec[v] = rec[w] => v = w
  BY <1>3 DEF DeliveryInv, InHand
<1> QED
  BY <1>1, <1>2, <1>3, <1>4, <1>5 DEF Attempts

\* A try that comes to an end leaves the worker backing off, or idle with its
\* Result out.
BacksOff(w) == task' = [task EXCEPT ![w] = "backoff"] /\ UNCHANGED <<rec, result>>

\* An attempt goes to the sink or fails before it, and adds one publish to its record.
LEMMA Endings ==
    ASSUME DeliveryInv, NEW w \in Workers, Attempt(w) \/ AttemptFails(w)
    PROVE  /\ task[w] \in {"trying", "writing"}
           /\ rec[w] \in 1..records /\ records' = records /\ acked' = acked
           /\ Attempts(rec[w]) \subseteq 1..count
           /\ {p \in 1..count' : of'[p] = rec[w]} = Attempts(rec[w]) \cup {count'}
           /\ cancelled' = cancelled
           /\ \/ /\ Attempt(w) /\ op' = "publish"
                 /\ task' = [task EXCEPT ![w] = "writing"] /\ UNCHANGED <<rec, result>>
              \/ /\ op' # "publish"
                 /\ \/ /\ BacksOff(w)
                       /\ Cardinality(Attempts(rec[w]) \cup {count'}) # MaxAttempts
                    \/ Report(w, "error")
<1>0. Attempts(rec[w]) \subseteq 1..count
  BY DEF Attempts
<1>1. CASE Attempt(w)
  <2>1. {p \in 1..count' : of'[p] = rec[w]} = Attempts(rec[w]) \cup {count'}
    BY <1>1, AttemptAdds
  <2>2. /\ rec[w] \in 1..records /\ records' = records /\ acked' = acked
    BY <1>1, AttemptAdds
  <2>3. /\ task[w] = "trying" /\ cancelled' = cancelled
        /\ IF op' = "publish"
           THEN task' = [task EXCEPT ![w] = "writing"] /\ UNCHANGED <<rec, result>>
           ELSE Failed(w)
    BY <1>1 DEF Attempt
  <2> QED
    BY <1>0, <1>1, <2>1, <2>2, <2>3 DEF Failed, BacksOff
<1>2. CASE AttemptFails(w)
  <2>1. /\ task[w] = "writing" /\ UNCHANGED <<count, of, acked, records, cancelled>>
        /\ op' = "none" /\ Failed(w)
    BY <1>2 DEF AttemptFails, WriteFails
  <2>2. rec[w] \in 1..records /\ count \in Attempts(rec[w])
    BY <2>1, Writer
  <2>3. {p \in 1..count' : of'[p] = rec[w]} = Attempts(rec[w])
    BY <2>1 DEF Attempts
  <2>4. Attempts(rec[w]) = Attempts(rec[w]) \cup {count'}
    BY <2>1, <2>2
  <2> QED
    BY <1>0, <2>1, <2>2, <2>3, <2>4 DEF Failed, BacksOff
<1> QED
  BY <1>1, <1>2

\* The types of the workers, action by action.
LEMMA LoopTypesStep == DeliveryInv /\ [DNext]_<<vars, loop>> => LoopTypes'
<1> SUFFICES ASSUME DeliveryInv, [DNext]_<<vars, loop>> PROVE LoopTypes'
  OBVIOUS
<1>0. LoopTypes /\ MaxRecords \in Nat
  BY DeliveryAssumption DEF DeliveryInv
<1> USE DEF LoopTypes
<1>1. ASSUME NEW w \in Workers, Encoded(w) PROVE LoopTypes'
  BY <1>0, <1>1 DEF Encoded, vars
<1>2. ASSUME NEW w \in Workers, Attempt(w) \/ AttemptFails(w) PROVE LoopTypes'
  <2>1. /\ rec[w] \in 1..records /\ records' = records /\ cancelled' = cancelled
        /\ \/ task' = [task EXCEPT ![w] = "writing"] /\ UNCHANGED <<rec, result>>
           \/ BacksOff(w)
           \/ Report(w, "error")
    BY <1>2, Endings
  <2>2. task' \in [Workers -> {"idle", "trying", "writing", "backoff"}]
    BY <1>0, <2>1 DEF BacksOff, Report
  <2>3. rec' \in [Workers -> 0..records]
    BY <1>0, <2>1 DEF BacksOff, Report
  <2>4. result' \in [1..MaxRecords -> {"none", "nil", "error"}]
    BY <1>0, <2>1 DEF BacksOff, Report
  <2>5. of' \in [1..MaxPublish -> 0..MaxRecords] /\ \A p \in 1..count' : of'[p] \in 1..records
    <3>1. CASE Attempt(w)
      <4>1. \A p \in 1..count' : p \in 1..count \/ p = count'
        BY <3>1, AttemptAdds
      <4> QED
        BY <1>0, <3>1, <4>1, AttemptAdds
    <3>2. CASE AttemptFails(w)
      BY <1>0, <3>2 DEF AttemptFails, WriteFails
    <3> QED
      BY <1>2, <3>1, <3>2
  <2> QED
    BY <1>0, <2>1, <2>2, <2>3, <2>4, <2>5
<1>3. ASSUME NEW w \in Workers, AttemptSucceeds(w) \/ BackoffOver(w) \/ BackoffCancelled(w)
      PROVE  LoopTypes'
  <2>1. UNCHANGED <<count, of, records, cancelled>>
    BY <1>3 DEF AttemptSucceeds, Published, BackoffOver, BackoffCancelled, vars
  <2>2. \/ task' = [task EXCEPT ![w] = "trying"] /\ UNCHANGED <<rec, result>>
        \/ Report(w, "nil") \/ Report(w, "error")
    BY <1>3 DEF AttemptSucceeds, BackoffOver, BackoffCancelled
  <2>3. task' \in [Workers -> {"idle", "trying", "writing", "backoff"}]
    BY <1>0, <2>2 DEF Report
  <2>4. rec' \in [Workers -> 0..records]
    BY <1>0, <2>2 DEF Report
  <2>5. result' \in [1..MaxRecords -> {"none", "nil", "error"}]
    BY <1>0, <2>2 DEF Report
  <2> QED
    BY <1>0, <2>1, <2>3, <2>4, <2>5
<1>4. CASE Cancel
  BY <1>0, <1>4 DEF Cancel, vars
<1>5. CASE CloseSink \/ SinkStep \/ UNCHANGED <<vars, loop>>
  BY <1>0, <1>5 DEF CloseSink, Close, SinkStep, WriteAll, WriteFails, Closed, Foreign, vars, loop
<1>6. CASE ProcessDies \/ Restart
  <2>1. UNCHANGED <<count, of, records, result>> /\ cancelled' \in BOOLEAN
    BY <1>0, <1>6 DEF ProcessDies, Crash, Restart, Open
  <2>2. /\ task' \in [Workers -> {"idle", "trying", "writing", "backoff"}]
        /\ rec' \in [Workers -> 0..records]
    BY <1>0, <1>6 DEF ProcessDies, Restart, NoTasks
  <2> QED
    BY <1>0, <2>1, <2>2
<1> QED
  BY <1>1, <1>2, <1>3, <1>4, <1>5, <1>6 DEF DNext

\* A record stays in one worker's hands.
LEMMA InHandStep == DeliveryInv /\ [DNext]_<<vars, loop>> => InHand'
<1> SUFFICES ASSUME DeliveryInv, [DNext]_<<vars, loop>> PROVE InHand'
  OBVIOUS
<1>0. /\ LoopTypes /\ InHand /\ MaxRecords \in Nat
      /\ \A w \in Workers : task[w] # "idle" => rec[w] \in 1..records
      /\ \A r \in 1..MaxRecords : r > records => result[r] = "none"
  BY DeliveryAssumption DEF DeliveryInv, LoopTypes, InHand, Results
<1>1. ASSUME NEW w \in Workers, Encoded(w) PROVE InHand'
  <2>1. /\ task[w] = "idle" /\ task' = [task EXCEPT ![w] = "trying"]
        /\ rec' = [rec EXCEPT ![w] = records + 1]
        /\ records + 1 \in 1..MaxRecords /\ records + 1 > records
        /\ state = "open" /\ UNCHANGED <<result, state, op, count, of>>
    BY <1>0, <1>1 DEF Encoded, vars, LoopTypes
  <2>2. \A v \in Workers : /\ task'[v] = IF v = w THEN "trying" ELSE task[v]
                           /\ rec'[v] = IF v = w THEN records + 1 ELSE rec[v]
                           /\ rec[v] # records + 1
    BY <1>0, <2>1 DEF LoopTypes
  <2>3. result[records + 1] = "none"
    BY <1>0, <2>1
  <2>4. \A v \in Workers : task'[v] = "idle" <=> rec'[v] = 0
    BY <1>0, <2>1, <2>2 DEF InHand
  <2>5. \A v \in Workers : task'[v] # "idle" => result'[rec'[v]] = "none" /\ state' # "down"
    BY <1>0, <2>1, <2>2, <2>3 DEF InHand
  <2>6. \A u, v \in Workers : rec'[u] = rec'[v] /\ rec'[u] # 0 => u = v
    BY <1>0, <2>2 DEF InHand
  <2>7. \A v \in Workers : task'[v] = "writing" => op' = "publish" /\ of'[count'] = rec'[v]
    BY <1>0, <2>1, <2>2 DEF InHand
  <2>8. op' = "publish" => \E v \in Workers : task'[v] = "writing"
    BY <1>0, <2>1, <2>2 DEF InHand
  <2> QED
    BY <2>4, <2>5, <2>6, <2>7, <2>8 DEF InHand
<1>2. ASSUME NEW w \in Workers, task[w] # "idle", state' # "down",
             \/ /\ task' = [task EXCEPT ![w] = "writing"] /\ UNCHANGED <<rec, result>>
                /\ op' = "publish" /\ of'[count'] = rec[w]
             \/ /\ op' # "publish"
                /\ BacksOff(w) \/ Report(w, "error") \/ Report(w, "nil"),
             \A v \in Workers : task[v] = "writing" => v = w
      PROVE  InHand'
  <2>1. rec[w] \in 1..records /\ rec[w] \in 1..MaxRecords
    BY <1>0, <1>2 DEF LoopTypes
  <2>2. \A v \in Workers : v # w =>
            task'[v] = task[v] /\ rec'[v] = rec[v] /\ rec[v] # rec[w] /\ task[v] # "writing"
    BY <1>0, <1>2, <2>1 DEF LoopTypes, InHand, BacksOff, Report
  <2>3. \/ task'[w] = "writing" /\ rec'[w] = rec[w] /\ result' = result
        \/ task'[w] = "backoff" /\ rec'[w] = rec[w] /\ result' = result
        \/ task'[w] = "idle" /\ rec'[w] = 0
    BY <1>0, <1>2 DEF LoopTypes, BacksOff, Report
  <2>4. \A r \in 1..MaxRecords : r # rec[w] => result'[r] = result[r]
    BY <1>0, <1>2, <2>1 DEF LoopTypes, BacksOff, Report
  <2>5. \A v \in Workers : task'[v] = "idle" <=> rec'[v] = 0
    BY <1>0, <2>1, <2>2, <2>3 DEF InHand
  <2>6. \A v \in Workers : task'[v] # "idle" => result'[rec'[v]] = "none" /\ state' # "down"
    <3>1. ASSUME NEW v \in Workers, v # w, task[v] # "idle"
          PROVE  result'[rec[v]] = "none"
      <4>1. rec[v] \in 1..MaxRecords
        BY <1>0, <3>1 DEF LoopTypes
      <4> QED
        BY <1>0, <2>2, <2>4, <3>1, <4>1 DEF InHand
    <3> QED
      BY <1>0, <1>2, <2>2, <2>3, <3>1 DEF InHand
  <2>7. \A u, v \in Workers : rec'[u] = rec'[v] /\ rec'[u] # 0 => u = v
    BY <1>0, <2>1, <2>2, <2>3 DEF InHand
  <2>8. \A v \in Workers : task'[v] = "writing" => op' = "publish" /\ of'[count'] = rec'[v]
    BY <1>0, <1>2, <2>2, <2>3 DEF LoopTypes, BacksOff, Report
  <2>9. op' = "publish" => \E v \in Workers : task'[v] = "writing"
    BY <1>0, <1>2 DEF LoopTypes
  <2> QED
    BY <2>5, <2>6, <2>7, <2>8, <2>9 DEF InHand
<1>3. ASSUME NEW w \in Workers, Attempt(w) PROVE InHand'
  <2>1. /\ Publish /\ task[w] = "trying" /\ state' = state /\ op = "none"
    BY <1>3 DEF Attempt, Publish
  <2>2. \A v \in Workers : task[v] # "writing"
    BY <1>0, <2>1 DEF InHand
  <2>3. state' # "down"
    BY <1>0, <2>1 DEF InHand
  <2>4. of'[count'] = rec[w]
    BY <1>3, AttemptAdds
  <2> QED
    BY <1>2, <1>3, <2>1, <2>2, <2>3, <2>4, Endings
<1>4. ASSUME NEW w \in Workers, AttemptFails(w) \/ AttemptSucceeds(w) PROVE InHand'
  <2>1. /\ task[w] = "writing" /\ op' = "none"
        /\ state' \in {"closed", state}
        /\ BacksOff(w) \/ Report(w, "error") \/ Report(w, "nil")
    BY <1>4 DEF AttemptFails, AttemptSucceeds, WriteFails, Published, Failed, BacksOff
  <2>2. \A v \in Workers : task[v] = "writing" => v = w
    BY <2>1, Writer
  <2>3. state' # "down"
    BY <1>0, <2>1 DEF InHand
  <2> QED
    BY <1>2, <2>1, <2>2, <2>3
<1>5. ASSUME NEW w \in Workers, BackoffOver(w) PROVE InHand'
  <2>1. /\ task[w] = "backoff" /\ task' = [task EXCEPT ![w] = "trying"]
        /\ UNCHANGED <<rec, result, of, state, op, count>>
    BY <1>5 DEF BackoffOver, vars
  <2>2. \A v \in Workers : task'[v] = IF v = w THEN "trying" ELSE task[v]
    BY <1>0, <2>1 DEF LoopTypes
  <2> QED
    BY <1>0, <2>1, <2>2 DEF InHand
<1>6. ASSUME NEW w \in Workers, BackoffCancelled(w) PROVE InHand'
  <2>1. /\ task[w] = "backoff" /\ Report(w, "error")
        /\ UNCHANGED <<of, state, op, count>>
    BY <1>6 DEF BackoffCancelled, vars
  <2>2. rec[w] \in 1..records /\ rec[w] \in 1..MaxRecords
    BY <1>0, <2>1 DEF LoopTypes
  <2>3. \A v \in Workers : /\ v # w => task'[v] = task[v] /\ rec'[v] = rec[v] /\ rec[v] # rec[w]
                           /\ v = w => task'[v] = "idle" /\ rec'[v] = 0
    BY <1>0, <2>1, <2>2 DEF LoopTypes, InHand, Report
  <2>4. \A r \in 1..MaxRecords : r # rec[w] => result'[r] = result[r]
    BY <1>0, <2>1, <2>2 DEF LoopTypes, Report
  <2>5. \A v \in Workers : task'[v] # "idle" => result'[rec'[v]] = "none" /\ state' # "down"
    <3>1. ASSUME NEW v \in Workers, v # w, task[v] # "idle"
          PROVE  result'[rec[v]] = "none" /\ state # "down"
      <4>1. rec[v] \in 1..MaxRecords
        BY <1>0, <3>1 DEF LoopTypes
      <4> QED
        BY <1>0, <2>3, <2>4, <3>1, <4>1 DEF InHand
    <3> QED
      BY <2>1, <2>3, <3>1
  <2>6. \A v \in Workers : task'[v] = "idle" <=> rec'[v] = 0
    BY <1>0, <2>3 DEF InHand
  <2>7. \A u, v \in Workers : rec'[u] = rec'[v] /\ rec'[u] # 0 => u = v
    BY <1>0, <2>3 DEF InHand
  <2>8. \A v \in Workers : task'[v] = "writing" => op' = "publish" /\ of'[count'] = rec'[v]
    BY <1>0, <2>1, <2>3 DEF InHand
  <2>9. op' = "publish" => \E v \in Workers : task'[v] = "writing"
    BY <1>0, <2>1, <2>3 DEF InHand
  <2> QED
    BY <2>5, <2>6, <2>7, <2>8, <2>9 DEF InHand
<1>7. CASE Cancel \/ CloseSink \/ SinkStep \/ UNCHANGED <<vars, loop>>
  <2>1. UNCHANGED <<task, rec, result, of, count>> /\ (state # "down" => state' # "down")
    BY <1>7 DEF Cancel, CloseSink, Close, SinkStep, WriteAll, WriteFails, Closed, Foreign, vars, loop
  <2>2. op = "publish" <=> op' = "publish"
    BY <1>7 DEF Cancel, CloseSink, Close, SinkStep, WriteAll, WriteFails, Closed, Foreign, vars
  <2> QED
    BY <1>0, <2>1, <2>2 DEF InHand
<1>8. CASE ProcessDies \/ Restart
  <2>1. /\ \A v \in Workers : task'[v] = "idle" /\ rec'[v] = 0
        /\ op' = "none"
    BY <1>8 DEF ProcessDies, Crash, Restart, Open, NoTasks
  <2> QED
    BY <2>1 DEF InHand
<1> QED
  BY <1>1, <1>3, <1>4, <1>5, <1>6, <1>7, <1>8 DEF DNext

\* Nobody tries again what was acknowledged, nor too often.
LEMMA TriesStep == DeliveryInv /\ [DNext]_<<vars, loop>> => Tries'
<1> SUFFICES ASSUME DeliveryInv, [DNext]_<<vars, loop>> PROVE Tries'
  OBVIOUS
<1>0. /\ LoopTypes /\ InHand /\ Tries /\ MaxRecords \in Nat /\ MaxAttempts \in Nat \ {0}
      /\ \A w \in Workers : task[w] # "idle" => rec[w] \in 1..records
      /\ count \in Nat /\ acked \subseteq 1..count
      /\ \A r : Attempts(r) \subseteq 1..count /\ IsFiniteSet(Attempts(r))
                /\ Cardinality(Attempts(r)) \in Nat
  <2>1. count \in Nat /\ acked \subseteq 1..count
    BY LineSinkAssumption DEF DeliveryInv, SinkInv, SinkTypes, TypeOK
  <2> QED
    BY <2>1, AttemptsFinite, DeliveryAssumption DEF DeliveryInv, LoopTypes, InHand
<1>1. ASSUME NEW w \in Workers, Encoded(w) PROVE Tries'
  <2>1. /\ task' = [task EXCEPT ![w] = "trying"]
        /\ rec' = [rec EXCEPT ![w] = records + 1] /\ records' = records + 1
        /\ UNCHANGED <<acked, count, of>>
    BY <1>1 DEF Encoded, vars
  <2>2. \A v \in Workers : /\ task'[v] = IF v = w THEN "trying" ELSE task[v]
                           /\ rec'[v] = IF v = w THEN records + 1 ELSE rec[v]
    BY <1>0, <2>1 DEF LoopTypes
  <2>3. Attempts(records + 1) = {} /\ Cardinality(Attempts(records + 1)) = 0
    <3>1. \A p \in 1..count : of[p] # records + 1
      BY <1>0 DEF LoopTypes
    <3> QED
      BY <3>1, FS_EmptySet DEF Attempts
  <2>4. \A r : Attempts(r)' = Attempts(r)
    BY <2>1 DEF Attempts
  <2>5. \A r \in 1..records' : r \in 1..records \/ r = records + 1
    BY <1>0, <2>1 DEF LoopTypes
  <2>6. \A v \in Workers :
            /\ task'[v] # "idle" => Attempts(rec'[v]) \cap acked = {}
            /\ task'[v] = "backoff" => Attempts(rec'[v]) # {}
            /\ task'[v] \in {"trying", "backoff"} =>
                    Cardinality(Attempts(rec'[v])) < MaxAttempts
    BY <1>0, <2>2, <2>3 DEF Tries
  <2>7. \A v \in Workers : Attempts(rec'[v]) = Attempts(rec[v])'
    BY <2>1 DEF Attempts
  <2> QED
    BY <1>0, <2>1, <2>3, <2>4, <2>5, <2>6, <2>7 DEF Tries
<1>2. ASSUME NEW w \in Workers, Attempt(w) \/ AttemptFails(w) PROVE Tries'
  <2> DEFINE r0 == rec[w]
             A == Attempts(r0) \cup {count'}
             Now(r) == {p \in 1..count' : of'[p] = r}
  <2>1. /\ r0 \in 1..records /\ records' = records /\ acked' = acked /\ Now(r0) = A
        /\ task[w] \in {"trying", "writing"}
        /\ \/ task' = [task EXCEPT ![w] = "writing"] /\ UNCHANGED <<rec, result>>
           \/ BacksOff(w) /\ Cardinality(A) # MaxAttempts
           \/ Report(w, "error")
    BY <1>2, Endings
  <2>2. \A r : r # r0 => Now(r) = Attempts(r)
    <3>1. CASE Attempt(w)
      BY <3>1, AttemptAdds
    <3>2. CASE AttemptFails(w)
      BY <3>2 DEF AttemptFails, WriteFails, Attempts
    <3> QED
      BY <1>2, <3>1, <3>2
  <2>3. count' \notin acked \/ count' \in Attempts(r0)
    <3>1. CASE Attempt(w)
      BY <1>0, <3>1, AttemptAdds
    <3>2. CASE AttemptFails(w)
      BY <3>2, Writer DEF AttemptFails, WriteFails
    <3> QED
      BY <1>2, <3>1, <3>2
  <2>4. A \cap acked = {}
    BY <1>0, <2>1, <2>3 DEF Tries
  <2>5. Cardinality(A) <= MaxAttempts /\ Cardinality(A) \in Nat
    <3>1. CASE Attempt(w)
      <4>1. task[w] = "trying"
        BY <3>1 DEF Attempt
      <4>2. Cardinality(Attempts(r0)) < MaxAttempts /\ Cardinality(Attempts(r0)) \in Nat
            /\ IsFiniteSet(Attempts(r0))
        BY <1>0, <4>1 DEF Tries
      <4>3. Cardinality(A) \in {Cardinality(Attempts(r0)), Cardinality(Attempts(r0)) + 1}
        BY <4>2, FS_AddElement
      <4> QED
        BY <1>0, <4>2, <4>3
    <3>2. CASE AttemptFails(w)
      <4>1. A = Attempts(r0)
        BY <3>2, Writer DEF AttemptFails, WriteFails
      <4> QED
        BY <1>0, <2>1, <4>1 DEF Tries
    <3> QED
      BY <1>2, <3>1, <3>2
  <2> HIDE DEF A
  <2>6. \A v \in Workers : v # w =>
            task'[v] = task[v] /\ rec'[v] = rec[v] /\ rec[v] # r0
    BY <1>0, <2>1 DEF LoopTypes, InHand, BacksOff, Report
  <2>7. \/ task'[w] = "writing" /\ rec'[w] = r0
        \/ task'[w] = "backoff" /\ rec'[w] = r0 /\ Cardinality(A) < MaxAttempts
        \/ task'[w] = "idle"
    BY <1>0, <2>1, <2>5 DEF LoopTypes, BacksOff, Report
  <2>8. \A v \in Workers :
            /\ task'[v] # "idle" => Now(rec'[v]) \cap acked' = {}
            /\ task'[v] = "backoff" => Now(rec'[v]) # {}
            /\ task'[v] \in {"trying", "backoff"} => Cardinality(Now(rec'[v])) < MaxAttempts
    <3>1. A # {}
      BY DEF A
    <3>2. \A v \in Workers : v # w => Now(rec[v]) = Attempts(rec[v])
      BY <2>2, <2>6
    <3> HIDE DEF Now
    <3> QED
      BY <1>0, <2>1, <2>4, <2>6, <2>7, <3>1, <3>2 DEF Tries
  <2>9. \A r \in 1..records' :
            /\ Cardinality(Now(r)) <= MaxAttempts
            /\ \A p \in Now(r) \cap acked' : \A q \in Now(r) : q <= p
    <3> HIDE DEF Now
    <3> QED
      BY <1>0, <2>1, <2>2, <2>4, <2>5 DEF Tries
  <2> QED
    BY <2>8, <2>9 DEF Tries, Attempts
<1>3. ASSUME NEW w \in Workers, AttemptSucceeds(w) PROVE Tries'
  <2>1. /\ task[w] = "writing" /\ acked' = acked \cup {count} /\ Report(w, "nil")
        /\ UNCHANGED <<count, of, records>>
    BY <1>3 DEF AttemptSucceeds, Published
  <2>2. rec[w] \in 1..records /\ count \in Attempts(rec[w]) /\ of[count] = rec[w]
    BY <2>1, Writer
  <2>3. \A v \in Workers : /\ v # w => task'[v] = task[v] /\ rec'[v] = rec[v] /\ rec[v] # rec[w]
                           /\ v = w => task'[v] = "idle"
    BY <1>0, <2>1, <2>2 DEF LoopTypes, InHand, Report
  <2>4. \A r : r # rec[w] => count \notin Attempts(r)
    BY <2>2 DEF Attempts
  <2>5. \A v \in Workers :
            /\ task'[v] # "idle" => Attempts(rec'[v]) \cap acked' = {}
            /\ task'[v] = "backoff" => Attempts(rec'[v]) # {}
            /\ task'[v] \in {"trying", "backoff"} =>
                    Cardinality(Attempts(rec'[v])) < MaxAttempts
    BY <1>0, <2>1, <2>3, <2>4 DEF Tries
  <2>6. \A r \in 1..records :
            \A p \in Attempts(r) \cap acked' : \A q \in Attempts(r) : q <= p
    <3>1. ASSUME NEW r \in 1..records, NEW p \in Attempts(r), p \in acked', NEW q \in Attempts(r)
          PROVE  q <= p
      <4>1. CASE r # rec[w]
        BY <1>0, <2>1, <2>4, <3>1, <4>1 DEF Tries
      <4>2. CASE r = rec[w]
        <5>1. p = count
          BY <1>0, <2>1, <3>1, <4>2 DEF Tries
        <5> QED
          BY <1>0, <3>1, <5>1
      <4> QED
        BY <4>1, <4>2
    <3> QED
      BY <3>1
  <2>7. \A r : Attempts(r)' = Attempts(r)
    BY <2>1 DEF Attempts
  <2>8. \A v \in Workers : Attempts(rec'[v]) = Attempts(rec[v])'
    BY <2>1 DEF Attempts
  <2> QED
    BY <1>0, <2>1, <2>5, <2>6, <2>7, <2>8 DEF Tries
<1>4. ASSUME NEW w \in Workers, BackoffOver(w) \/ BackoffCancelled(w) PROVE Tries'
  <2>1. /\ task[w] = "backoff"
        /\ \/ task' = [task EXCEPT ![w] = "trying"] /\ UNCHANGED <<rec, result>>
           \/ Report(w, "error")
        /\ UNCHANGED <<count, of, records, acked>>
    BY <1>4 DEF BackoffOver, BackoffCancelled, vars
  <2>2. \A v \in Workers : /\ v # w => task'[v] = task[v] /\ rec'[v] = rec[v]
                           /\ v = w => \/ task'[v] = "idle"
                                       \/ task'[v] = "trying" /\ rec'[v] = rec[v]
    BY <1>0, <2>1 DEF LoopTypes, Report
  <2>3. \A v \in Workers : Attempts(rec'[v]) = Attempts(rec[v])'
    BY <2>1 DEF Attempts
  <2>4. \A r : Attempts(r)' = Attempts(r)
    BY <2>1 DEF Attempts
  <2>5. \A v \in Workers :
            /\ task'[v] # "idle" => Attempts(rec'[v]) \cap acked' = {}
            /\ task'[v] = "backoff" => Attempts(rec'[v]) # {}
            /\ task'[v] \in {"trying", "backoff"} =>
                    Cardinality(Attempts(rec'[v])) < MaxAttempts
    BY <1>0, <2>1, <2>2 DEF Tries
  <2> QED
    BY <1>0, <2>1, <2>3, <2>4, <2>5 DEF Tries
<1>5. CASE Cancel \/ CloseSink \/ SinkStep \/ UNCHANGED <<vars, loop>>
  <2>1. UNCHANGED <<task, rec, of, records, count, acked>>
    BY <1>5 DEF Cancel, CloseSink, Close, SinkStep, WriteAll, WriteFails, Closed, Foreign, vars, loop
  <2> QED
    BY <1>0, <2>1 DEF Tries, Attempts
<1>6. CASE ProcessDies \/ Restart
  <2>1. /\ \A v \in Workers : task'[v] = "idle"
        /\ UNCHANGED <<of, records, count, acked>>
    BY <1>6 DEF ProcessDies, Crash, Restart, Open, NoTasks
  <2> QED
    BY <1>0, <2>1 DEF Tries, Attempts
<1> QED
  BY <1>1, <1>2, <1>3, <1>4, <1>5, <1>6 DEF DNext

\* A Result agrees with the attempts of its record, and goes on doing so.
LEMMA ResultsStep == DeliveryInv /\ [DNext]_<<vars, loop>> => Results'
<1> SUFFICES ASSUME DeliveryInv, [DNext]_<<vars, loop>> PROVE Results'
  OBVIOUS
<1>0. /\ LoopTypes /\ InHand /\ Tries /\ Results /\ MaxRecords \in Nat
      /\ \A w \in Workers : task[w] # "idle" => rec[w] \in 1..records /\ rec[w] \in 1..MaxRecords
      /\ count \in Nat /\ acked \subseteq 1..count
      /\ \A r : Attempts(r) \subseteq 1..count
  <2>1. count \in Nat /\ acked \subseteq 1..count
    BY LineSinkAssumption DEF DeliveryInv, SinkInv, SinkTypes, TypeOK
  <2> QED
    BY <2>1, AttemptsFinite, DeliveryAssumption DEF DeliveryInv, LoopTypes, InHand
\* What a step may say of one record, when it leaves the others alone.
<1>1. ASSUME NEW w \in Workers, task[w] # "idle", records' = records,
             \A r : r # rec[w] => {p \in 1..count' : of'[p] = r} = Attempts(r),
             \A r : r # rec[w] => Attempts(r) \cap acked' = Attempts(r) \cap acked,
             \/ result' = result
             \/ /\ Report(w, "nil")
                /\ {p \in 1..count' : of'[p] = rec[w]} \cap acked' # {}
             \/ /\ Report(w, "error")
                /\ {p \in 1..count' : of'[p] = rec[w]} # {}
                /\ {p \in 1..count' : of'[p] = rec[w]} \cap acked' = {}
      PROVE  Results'
  <2> DEFINE Now(r) == {p \in 1..count' : of'[p] = r}
  <2>1. rec[w] \in 1..records /\ rec[w] \in 1..MaxRecords /\ result[rec[w]] = "none"
    BY <1>0, <1>1 DEF InHand
  <2>2. \A r \in 1..MaxRecords : r # rec[w] => result'[r] = result[r]
    BY <1>0, <1>1 DEF LoopTypes, Report
  <2>3. \/ result'[rec[w]] = "none"
        \/ result'[rec[w]] = "nil" /\ Now(rec[w]) \cap acked' # {}
        \/ result'[rec[w]] = "error" /\ Now(rec[w]) # {} /\ Now(rec[w]) \cap acked' = {}
    BY <1>0, <1>1, <2>1 DEF LoopTypes, Report
  <2>4. \A r : r # rec[w] =>
            Now(r) = Attempts(r) /\ Now(r) \cap acked' = Attempts(r) \cap acked
    BY <1>1
  <2>5. \A r \in 1..records : r \in 1..MaxRecords
    BY <1>0 DEF LoopTypes
  <2> HIDE DEF Now
  <2>6. \A r \in 1..records :
            /\ result'[r] = "nil" => Now(r) \cap acked' # {}
            /\ result'[r] = "error" => Now(r) # {} /\ Now(r) \cap acked' = {}
    BY <1>0, <2>2, <2>3, <2>4, <2>5 DEF Results
  <2>7. \A r \in 1..MaxRecords : r > records => result'[r] = "none"
    <3>1. \A r \in 1..MaxRecords : r > records => r # rec[w]
      BY <1>0, <2>1 DEF LoopTypes
    <3> QED
      BY <1>0, <2>2, <3>1 DEF Results
  <2> QED
    BY <1>1, <2>6, <2>7 DEF Results, Attempts, Now
<1>2. ASSUME NEW w \in Workers, Encoded(w) PROVE Results'
  <2>1. /\ records' = records + 1 /\ records + 1 \in 1..MaxRecords
        /\ UNCHANGED <<acked, count, of, result>>
    BY <1>0, <1>2 DEF Encoded, vars, LoopTypes
  <2>2. result[records + 1] = "none"
    <3>1. records + 1 > records
      BY <1>0 DEF LoopTypes
    <3> QED
      BY <1>0, <2>1, <3>1 DEF Results
  <2>3. \A r \in 1..records' : r \in 1..records \/ r = records + 1
    BY <1>0, <2>1 DEF LoopTypes
  <2>4. \A r : Attempts(r)' = Attempts(r)
    BY <2>1 DEF Attempts
  <2>5. \A r \in 1..MaxRecords : r > records + 1 => r > records
    BY <1>0 DEF LoopTypes
  <2> QED
    BY <1>0, <2>1, <2>2, <2>3, <2>4, <2>5 DEF Results
<1>3. ASSUME NEW w \in Workers, Attempt(w) \/ AttemptFails(w) PROVE Results'
  <2> DEFINE Now(r) == {p \in 1..count' : of'[p] = r}
  <2>1. /\ task[w] \in {"trying", "writing"} /\ records' = records /\ acked' = acked
        /\ Now(rec[w]) = Attempts(rec[w]) \cup {count'}
        /\ result' = result \/ Report(w, "error")
    BY <1>3, Endings DEF BacksOff
  <2>2. Attempts(rec[w]) \cap acked = {}
    BY <1>0, <2>1 DEF Tries
  <2>3. /\ count' \notin acked \/ count' \in Attempts(rec[w])
        /\ \A r : r # rec[w] => Now(r) = Attempts(r)
    <3>1. CASE Attempt(w)
      BY <1>0, <3>1, AttemptAdds
    <3>2. CASE AttemptFails(w)
      BY <3>2, Writer DEF AttemptFails, WriteFails, Attempts
    <3> QED
      BY <1>3, <3>1, <3>2
  <2>4. Now(rec[w]) # {} /\ Now(rec[w]) \cap acked' = {}
    BY <2>1, <2>2, <2>3
  <2> QED
    BY <1>1, <2>1, <2>3, <2>4
<1>4. ASSUME NEW w \in Workers, AttemptSucceeds(w) PROVE Results'
  <2>1. /\ task[w] = "writing" /\ acked' = acked \cup {count} /\ Report(w, "nil")
        /\ UNCHANGED <<count, of, records>>
    BY <1>4 DEF AttemptSucceeds, Published
  <2>2. rec[w] \in 1..records /\ count \in Attempts(rec[w]) /\ of[count] = rec[w]
    BY <2>1, Writer
  <2>3. \A r : {p \in 1..count' : of'[p] = r} = Attempts(r)
    BY <2>1 DEF Attempts
  <2>4. \A r : r # rec[w] => count \notin Attempts(r)
    BY <2>2 DEF Attempts
  <2>5. Attempts(rec[w]) \cap acked' # {}
    BY <2>1, <2>2
  <2>6. \A r : r # rec[w] => Attempts(r) \cap acked' = Attempts(r) \cap acked
    BY <2>1, <2>4
  <2> QED
    BY <1>1, <2>1, <2>3, <2>5, <2>6
<1>5. ASSUME NEW w \in Workers, BackoffOver(w) \/ BackoffCancelled(w) PROVE Results'
  <2>1. /\ task[w] = "backoff" /\ (result' = result \/ Report(w, "error"))
        /\ UNCHANGED <<count, of, records, acked>>
    BY <1>5 DEF BackoffOver, BackoffCancelled, vars
  <2>2. \A r : {p \in 1..count' : of'[p] = r} = Attempts(r)
    BY <2>1 DEF Attempts
  <2>3. Attempts(rec[w]) # {} /\ Attempts(rec[w]) \cap acked = {}
    <3>1. /\ \A v \in Workers : task[v] # "idle" => Attempts(rec[v]) \cap acked = {}
          /\ \A v \in Workers : task[v] = "backoff" => Attempts(rec[v]) # {}
      BY <1>0 DEF Tries
    <3> QED
      BY <2>1, <3>1
  <2>4. task[w] # "idle" /\ acked' = acked /\ records' = records
    BY <2>1
  <2> QED
    BY <1>1, <2>1, <2>2, <2>3, <2>4
<1>6. CASE \/ Cancel \/ CloseSink \/ SinkStep \/ UNCHANGED <<vars, loop>>
           \/ ProcessDies \/ Restart
  <2>1. UNCHANGED <<of, records, count, acked, result>>
    BY <1>6 DEF Cancel, CloseSink, Close, SinkStep, WriteAll, WriteFails, Closed, Foreign,
                ProcessDies, Crash, Restart, Open, vars, loop
  <2> QED
    BY <1>0, <2>1 DEF Results, Attempts
<1> QED
  BY <1>2, <1>3, <1>4, <1>5, <1>6 DEF DNext

\* The only bytes that a step adds to those of the publishes begun are of the one under way.
LEMMA InFileGrown ==
    ASSUME SinkInv, [Next]_vars, NEW p \in 1..count', InFile(p)'
    PROVE  p \in 1..count /\ (InFile(p) \/ (op = "publish" /\ p = count))
<1>0. file \in Seq(Byte) /\ count \in 0..MaxPublish /\ MaxPublish \in Nat /\ Len(file) \in Nat
  BY LineSinkAssumption DEF SinkInv, SinkTypes, TypeOK, Byte
<1>1. PICK s \in Seq(Byte) : file' = file \o s /\ Appended(s)
  BY Growth
<1>2. PICK i \in 1..Len(file') : file'[i] = p
  BY DEF InFile
<1>3. /\ \/ i \in 1..Len(file) /\ file'[i] = file[i]
         \/ i - Len(file) \in 1..Len(s) /\ file'[i] = s[i - Len(file)]
  BY <1>0, <1>1, Grown
<1>4. count' \in 0..MaxPublish /\ p \in 1..MaxPublish
  BY <1>0, SinkTypesStep DEF SinkTypes, TypeOK
<1>5. CASE i \in 1..Len(file) /\ file[i] = p
  BY <1>0, <1>4, <1>5 DEF InFile, SinkInv, BytesOnce
<1>6. ASSUME NEW k \in 1..Len(s), s[k] = p
      PROVE  op = "publish" /\ p = count
  <2>1. CASE s = ForeignLine
    <3>1. s[k] \in {MaxPublish + 1, NL}
      BY <1>6, <2>1 DEF ForeignLine
    <3> QED
      BY <1>0, <1>4, <1>6, <3>1 DEF NL
  <2>2. CASE /\ plan # <<>>
             /\ Len(s) \in 1..Len(Head(plan))
             /\ \A j \in 1..Len(s) : s[j] = Head(plan)[j]
    <3>1. k \in 1..Len(Head(plan)) /\ Head(plan)[k] = p /\ p # NL
      BY <1>4, <1>6, <2>2, WriteCall DEF OneLine, NL
    <3> QED
      BY <2>2, <3>1, WriteCall DEF OneLine
  <2>3. s # <<>>
    BY <1>6
  <2> QED
    BY <1>1, <2>1, <2>2, <2>3 DEF Appended
<1>7. op = "publish" => count \in 1..count
  BY CurrentFacts
<1> QED
  BY <1>2, <1>3, <1>5, <1>6, <1>7

\* Where no write fails, only the last attempt of a record has bytes in the file.
LEMMA LastStep == DeliveryInv /\ [DNext]_<<vars, loop>> => LastHasBytes'
<1> SUFFICES ASSUME DeliveryInv, [DNext]_<<vars, loop>>, faults' = 0 PROVE LastHasBytes'
  BY DEF LastHasBytes
<1>0. /\ LoopTypes /\ InHand /\ MaxRecords \in Nat
      /\ \A w \in Workers : task[w] # "idle" => rec[w] \in 1..records
      /\ \A r : Attempts(r) \subseteq 1..count
  BY DeliveryAssumption DEF DeliveryInv, LoopTypes, InHand, Attempts
<1>1. [Next]_vars /\ SinkInv
  BY SinkSteps DEF DeliveryInv
<1>2. faults = 0
  BY <1>1 DEF SinkInv, SinkTypes, Next, Publish, WriteAll, WriteFails, Published, Close, Closed,
              Crash, Open, Foreign, vars, bounds
<1>3. /\ \A r \in 1..records : \A p, q \in Attempts(r) : InFile(p) /\ InFile(q) => p = q
      /\ \A w \in Workers : task[w] # "idle" =>
           \A p \in Attempts(rec[w]) : InFile(p) => task[w] = "writing" /\ p = count
  BY <1>2 DEF DeliveryInv, LastHasBytes
<1>4. ASSUME NEW p \in 1..count', InFile(p)'
      PROVE  p \in 1..count /\ (InFile(p) \/ (op = "publish" /\ p = count))
  BY <1>1, <1>4, InFileGrown
<1>5. op = "publish" => \E w \in Workers : task[w] = "writing" /\ of[count] = rec[w]
  BY <1>0 DEF InHand
\* No attempt of a record but the last has bytes in the file after the step.
<1>6. ASSUME NEW r, NEW p \in Attempts(r), InFile(p)', ~InFile(p)
      PROVE  /\ op = "publish" /\ p = count
             /\ \E w \in Workers : task[w] = "writing" /\ rec[w] = r
  <2>1. p \in 1..count' /\ of[p] = r
    <3>1. count \in Nat
      BY <1>1, LineSinkAssumption DEF SinkInv, SinkTypes, TypeOK
    <3>2. count' = count \/ count' = count + 1
      BY <1>1 DEF Next, Publish, WriteAll, WriteFails, Published, Close, Closed, Crash, Open,
         Foreign, vars
    <3> QED
      BY <1>6, <3>1, <3>2 DEF Attempts
  <2> QED
    BY <1>4, <1>5, <1>6, <2>1
<1>7. ASSUME NEW r \in 1..records, NEW p \in Attempts(r), NEW q \in Attempts(r),
             InFile(p)', InFile(q)'
      PROVE  p = q
  <2>1. CASE InFile(p) /\ InFile(q)
    BY <1>3, <2>1
  <2>2. CASE ~InFile(p)
    BY <1>3, <1>6, <1>7, <2>2
  <2>3. CASE ~InFile(q)
    BY <1>3, <1>6, <1>7, <2>3
  <2> QED
    BY <2>1, <2>2, <2>3
<1>8. ASSUME NEW w \in Workers, task[w] # "idle", NEW p \in Attempts(rec[w]), InFile(p)'
      PROVE  task[w] = "writing" /\ p = count
  <2>1. CASE InFile(p)
    BY <1>3, <1>8, <2>1
  <2>2. CASE ~InFile(p)
    <3>1. p = count /\ \E v \in Workers : task[v] = "writing" /\ rec[v] = rec[w]
      BY <1>6, <1>8, <2>2
    <3> QED
      BY <3>1, Writer
  <2> QED
    BY <2>1, <2>2
<1>9. ASSUME NEW w \in Workers, Encoded(w) PROVE LastHasBytes'
  <2>1. /\ task' = [task EXCEPT ![w] = "trying"]
        /\ rec' = [rec EXCEPT ![w] = records + 1] /\ records' = records + 1
        /\ UNCHANGED <<file, count, of>>
    BY <1>9 DEF Encoded, vars
  <2>2. Attempts(records + 1) = {}
    BY <1>0 DEF LoopTypes, Attempts
  <2>3. \A r \in 1..records' : r \in 1..records \/ r = records + 1
    BY <1>0, <2>1 DEF LoopTypes
  <2>4. \A v \in Workers : /\ task'[v] = IF v = w THEN "trying" ELSE task[v]
                           /\ rec'[v] = IF v = w THEN records + 1 ELSE rec[v]
    BY <1>0, <2>1 DEF LoopTypes
  <2>5. \A p : InFile(p)' = InFile(p)
    BY <2>1 DEF InFile
  <2>6. \A r : {p \in 1..count' : of'[p] = r} = Attempts(r)
    BY <2>1 DEF Attempts
  <2>7. \A r \in 1..records' : \A p, q \in Attempts(r) : InFile(p) /\ InFile(q) => p = q
    BY <1>3, <2>2, <2>3
  <2>8. \A v \in Workers : task'[v] # "idle" =>
            \A p \in Attempts(rec'[v]) : InFile(p) => task'[v] = "writing" /\ p = count
    BY <1>3, <2>2, <2>4
  <2> QED
    BY <2>1, <2>5, <2>6, <2>7, <2>8 DEF LastHasBytes, Attempts
<1>10. ASSUME NEW w \in Workers, Attempt(w) PROVE LastHasBytes'
  <2> DEFINE Now(r) == {p \in 1..count' : of'[p] = r}
  <2>1. /\ Now(rec[w]) = Attempts(rec[w]) \cup {count'} /\ records' = records
        /\ \A r : r # rec[w] => Now(r) = Attempts(r)
        /\ count' = count + 1 /\ count \in Nat /\ rec[w] \in 1..records
    BY <1>10, AttemptAdds
  <2>2. /\ task[w] = "trying" /\ file' = file
        /\ \/ task' = [task EXCEPT ![w] = "writing"] /\ UNCHANGED <<rec, result>>
           \/ BacksOff(w) \/ Report(w, "error")
    BY <1>10, Endings DEF Attempt, Publish
  <2>3. ASSUME NEW p, p = count' PROVE ~InFile(p)'
    BY <1>4, <2>1, <2>3
  <2>4. \A p \in Attempts(rec[w]) : ~InFile(p)'
    BY <1>8, <2>2
  <2>5. \A v \in Workers : v # w => task'[v] = task[v] /\ rec'[v] = rec[v] /\ rec[v] # rec[w]
    BY <1>0, <2>1, <2>2 DEF LoopTypes, InHand, BacksOff, Report
  <2>6. task'[w] = "idle" \/ rec'[w] = rec[w]
    BY <1>0, <2>2 DEF LoopTypes, BacksOff, Report
  <2>7. op # "publish"
    BY <1>10 DEF Attempt, Publish
  <2> HIDE DEF Now
  <2>8. \A r \in 1..records' : \A p, q \in Now(r) : InFile(p)' /\ InFile(q)' => p = q
    BY <1>7, <2>1, <2>3, <2>4
  <2>9. \A v \in Workers : task'[v] # "idle" => \A p \in Now(rec'[v]) : ~InFile(p)'
    <3>1. ASSUME NEW v \in Workers, v # w, task[v] # "idle", NEW p \in Attempts(rec[v])
          PROVE  ~InFile(p)'
      BY <1>0, <1>8, <2>7, <3>1 DEF InHand
    <3> QED
      BY <2>1, <2>3, <2>4, <2>5, <2>6, <3>1
  <2> QED
    BY <2>8, <2>9 DEF LastHasBytes, Attempts, Now
\* The steps that leave the publishes alone, and give no idle worker anything to do.
<1>11. ASSUME UNCHANGED <<count, of, records>>,
              \A v \in Workers : task'[v] # "idle" =>
                  /\ task[v] # "idle" /\ rec'[v] = rec[v]
                  /\ task[v] = "writing" => task'[v] = "writing"
       PROVE  LastHasBytes'
  <2>1. \A r : Attempts(r)' = Attempts(r)
    BY <1>11 DEF Attempts
  <2>2. \A v \in Workers : Attempts(rec'[v]) = Attempts(rec[v])'
    BY <1>11 DEF Attempts
  <2>3. \A r \in 1..records : \A p, q \in Attempts(r) : InFile(p)' /\ InFile(q)' => p = q
    BY <1>7
  <2>4. \A v \in Workers : task'[v] # "idle" =>
            \A p \in Attempts(rec'[v]) : InFile(p)' => task'[v] = "writing" /\ p = count
    BY <1>8, <1>11
  <2> QED
    BY <1>11, <2>1, <2>2, <2>3, <2>4 DEF LastHasBytes
<1>12. ASSUME NEW w \in Workers, AttemptFails(w) PROVE LastHasBytes'
  BY <1>2, <1>12 DEF AttemptFails, WriteFails
<1>13. ASSUME NEW w \in Workers, AttemptSucceeds(w) \/ BackoffOver(w) \/ BackoffCancelled(w)
       PROVE  LastHasBytes'
  <2>1. UNCHANGED <<count, of, records>>
    BY <1>13 DEF AttemptSucceeds, Published, BackoffOver, BackoffCancelled, vars
  <2>2. \/ /\ task' = [task EXCEPT ![w] = "trying"] /\ UNCHANGED <<rec, result>>
           /\ task[w] = "backoff"
        \/ Report(w, "nil") \/ Report(w, "error")
    BY <1>13 DEF AttemptSucceeds, BackoffOver, BackoffCancelled
  <2>3. \A v \in Workers : task'[v] # "idle" =>
            /\ task[v] # "idle" /\ rec'[v] = rec[v]
            /\ task[v] = "writing" => task'[v] = "writing"
    BY <1>0, <2>2 DEF LoopTypes, Report
  <2> QED
    BY <1>11, <2>1, <2>3
<1>14. CASE \/ Cancel \/ CloseSink \/ SinkStep \/ UNCHANGED <<vars, loop>>
            \/ ProcessDies \/ Restart
  <2>1. /\ UNCHANGED <<count, of, records>>
        /\ UNCHANGED <<task, rec>> \/ \A v \in Workers : task'[v] = "idle"
    BY <1>14 DEF Cancel, CloseSink, Close, SinkStep, WriteAll, WriteFails, Closed, Foreign,
                 ProcessDies, Crash, Restart, Open, NoTasks, vars, loop
  <2> QED
    BY <1>11, <2>1
<1> QED
  BY <1>9, <1>10, <1>12, <1>13, <1>14 DEF DNext

\* No worker has a record at the start.
LEMMA DeliveryInitially == DInit => DeliveryInv
<1> SUFFICES ASSUME DInit PROVE DeliveryInv
  OBVIOUS
<1> USE LineSinkAssumption, DeliveryAssumption DEF DInit
<1>1. SinkInv
  BY SinkInitially
<1>2. count = 0 /\ op = "none" /\ records = 0
  BY DEF Init
<1>3. LoopTypes
  <2>1. \A p \in 1..count : of[p] \in 1..records
    BY <1>2
  <2>2. records \in 0..MaxRecords /\ 0 \in 0..MaxRecords /\ 0 \in 0..records
    BY <1>2
  <2> QED
    BY <2>1, <2>2 DEF LoopTypes
<1>4. InHand
  BY <1>2 DEF InHand
<1>5. Tries /\ Results /\ LastHasBytes
  BY <1>2 DEF Tries, Results, LastHasBytes
<1> QED
  BY <1>1, <1>3, <1>4, <1>5 DEF DeliveryInv

\* The invariant behind the theorems about the file and the Results.
LEMMA DeliveryInvariant == DSpec => []DeliveryInv
<1>1. DInit => DeliveryInv
  BY DeliveryInitially
<1>2. DeliveryInv /\ [DNext]_<<vars, loop>> => DeliveryInv'
  <2>1. DeliveryInv /\ [DNext]_<<vars, loop>> => SinkInv'
    BY SinkSteps, SinkInvStep DEF DeliveryInv
  <2> QED
    BY <2>1, LoopTypesStep, InHandStep, TriesStep, ResultsStep, LastStep DEF DeliveryInv
<1> QED
  BY <1>1, <1>2, PTL DEF DSpec

-----------------------------------------------------------------------------
(***************************************************************************)
(* What follows from the invariant.                                        *)
(***************************************************************************)
\* No two records share a line of the file: where this process alone writes it,
\* whatever failed part way and wherever it crashed, and where others append to it
\* too, as long as no write fails (sink.go, publishLine and writeLine).
THEOREM NeverFused == DSpec => []NoFusedRecords
<1>1. DeliveryInv => NoFusedRecords
  BY DEF DeliveryInv, SinkInv
<1> QED
  BY <1>1, DeliveryInvariant, PTL

\* An open sink that nobody writes to knows whether its file ends in a fragment
\* (sink.go, publishLine: the flag is sticky; file.go, NewFileSink).
THEOREM FragmentIsKnown == DSpec => []TornIsKnown
<1>1. DeliveryInv => TornIsKnown
  BY DEF DeliveryInv, SinkInv, SinkTypes, FragmentsEnd, TornIsKnown
<1> QED
  BY <1>1, DeliveryInvariant, PTL

\* The Result of a run tells what became of its event, and so does what Publish
\* returned (runner.go, runOne; sink.go, publishLine).
THEOREM ResultsAreTrue == DSpec => []ResultIsTrue
<1>1. DeliveryInv => ResultIsTrue
  <2> SUFFICES ASSUME DeliveryInv PROVE ResultIsTrue
    OBVIOUS
  <2>1. AckedIsThere
    BY DEF DeliveryInv, SinkInv, WholeLines, There, LineAt, AckedIsThere
  <2>2. FailsForAReason
    BY DEF DeliveryInv, SinkInv, Answered, FailsForAReason
  <2>3. Results
    BY DEF DeliveryInv
  <2> QED
    BY <2>1, <2>2, <2>3 DEF ResultIsTrue, AnswersTruly, Results
<1> QED
  BY <1>1, DeliveryInvariant, PTL

\* The whole lines of a record, each told by the publish that wrote it.
Whole(r) == {p \in Attempts(r) : There(p)}

\* A whole line of a publish has a start.
LEMMA LineStarts ==
    ASSUME SinkInv, NEW p \in 1..count, NEW i \in 1..Len(file), LineAt(p, i)
    PROVE  Starts(p, i) /\ There(p) /\ InFile(p)
<1>1. /\ file \in Seq(Byte) /\ size[p] \in Nat \ {0} /\ p \in Byte
      /\ i \in Nat \ {0} /\ i + size[p] <= Len(file)
  BY LineSinkAssumption DEF SinkInv, SinkTypes, TypeOK, Byte, LineAt
<1>2. \A n \in Nat \ {0} : 1 \in 1..n /\ 1 \in 1..(n + 1)
  OBVIOUS
<1>3. SubSeq(file, i, i + size[p])[1] = file[i + 1 - 1]
  BY <1>1, <1>2, BytesOfSubSeq
<1>4. Line(p, size[p])[1] = p
  BY <1>1, <1>2, LineFacts
<1>5. i + 1 - 1 = i
  BY <1>1
<1>6. file[i] = p
  BY <1>3, <1>4, <1>5 DEF LineAt
<1> QED
  BY <1>6 DEF LineAt, Starts, There, InFile

\* There are no more copies of a record than attempts whose line is whole.
LEMMA CopiesAreWhole ==
    ASSUME DeliveryInv, NEW r
    PROVE  /\ IsFiniteSet(Whole(r)) /\ Whole(r) \subseteq Attempts(r)
           /\ Cardinality(Copies(r)) <= Cardinality(Whole(r))
           /\ Cardinality(Copies(r)) \in Nat
           /\ \A p \in Whole(r) : InFile(p)
<1>0. SinkInv /\ Attempts(r) \subseteq 1..count
  BY DEF DeliveryInv, Attempts
<1>1. IsFiniteSet(Whole(r)) /\ Whole(r) \subseteq Attempts(r)
  <2>1. IsFiniteSet(Attempts(r))
    BY LineSinkAssumption, AttemptsFinite DEF DeliveryInv, SinkInv, SinkTypes, TypeOK
  <2> QED
    BY <2>1, FS_Subset DEF Whole
<1>2. ASSUME NEW i \in Copies(r)
      PROVE  i \in 1..Len(file) /\ file[i] \in Whole(r) /\ Starts(file[i], i)
  <2>1. PICK p \in Attempts(r) : LineAt(p, i)
    BY <1>2 DEF Copies, LineAt
  <2>2. i \in 1..Len(file)
    BY <1>2 DEF Copies
  <2>3. Starts(p, i) /\ There(p)
    BY <1>0, <2>1, <2>2, LineStarts
  <2> QED
    BY <2>1, <2>2, <2>3 DEF Whole, Starts
<1> DEFINE told == [i \in Copies(r) |-> file[i]]
<1>3. told \in Injection(Copies(r), Whole(r))
  <2>1. told \in [Copies(r) -> Whole(r)]
    BY <1>2
  <2>2. \A i, j \in Copies(r) : file[i] = file[j] => i = j
    <3> SUFFICES ASSUME NEW i \in Copies(r), NEW j \in Copies(r), file[i] = file[j]
                 PROVE  i = j
      OBVIOUS
    <3>1. file[i] \in 1..count /\ Starts(file[i], i) /\ Starts(file[i], j)
          /\ i \in 1..Len(file) /\ j \in 1..Len(file)
      BY <1>0, <1>1, <1>2
    <3> QED
      BY <1>0, <3>1 DEF SinkInv, BytesOnce
  <2> QED
    BY <2>1, <2>2 DEF Injection, IsInjective
<1>4. IsFiniteSet(Copies(r)) /\ Cardinality(Copies(r)) <= Cardinality(Whole(r))
  BY <1>1, <1>3, FS_Injection
<1>5. \A p \in Whole(r) : InFile(p)
  BY <1>0, LineStarts DEF Whole, There
<1> QED
  BY <1>1, <1>4, <1>5, FS_CardinalityType

\* A set without two different elements.
LEMMA OneAtMost ==
    ASSUME NEW S, IsFiniteSet(S), \A p, q \in S : p = q
    PROVE  Cardinality(S) <= 1 /\ Cardinality(S) \in Nat
<1>1. CASE S = {}
  BY <1>1, FS_EmptySet
<1>2. CASE S # {}
  <2>1. PICK x : S = {x}
    BY <1>2
  <2> QED
    BY <2>1, FS_Singleton
<1> QED
  BY <1>1, <1>2

\* A record is in the file once, and once more only for each attempt that failed
\* after its line had reached the file; the acknowledged copy is the last (runner.go,
\* runOne, over sink.go, publishLine).
THEOREM DeliversOnce == DSpec => []DeliveredOnce
<1>1. DeliveryInv => DeliveredOnce
  <2> SUFFICES ASSUME DeliveryInv, NEW r \in 1..records
               PROVE  /\ \A p \in Attempts(r) \cap acked : \A q \in Attempts(r) : q <= p
                      /\ Cardinality(Copies(r)) <= 1 + Cardinality(Attempts(r) \cap excused)
                      /\ Cardinality(Attempts(r)) <= MaxAttempts
                      /\ faults = 0 => Cardinality(Copies(r)) <= 1
    BY DEF DeliveredOnce
  <2> DEFINE E == Attempts(r) \cap excused
             X == Whole(r) \ E
  <2>1. /\ \A p \in Attempts(r) \cap acked : \A q \in Attempts(r) : q <= p
        /\ Cardinality(Attempts(r)) <= MaxAttempts
    BY DEF DeliveryInv, Tries
  <2>2. /\ IsFiniteSet(Whole(r)) /\ Whole(r) \subseteq Attempts(r)
        /\ Cardinality(Copies(r)) <= Cardinality(Whole(r)) /\ Cardinality(Copies(r)) \in Nat
        /\ \A p \in Whole(r) : InFile(p)
    BY CopiesAreWhole
  <2>3. /\ IsFiniteSet(Attempts(r)) /\ Attempts(r) \subseteq 1..count /\ count \in Nat
    BY LineSinkAssumption, AttemptsFinite DEF DeliveryInv, SinkInv, SinkTypes, TypeOK
  <2>4. IsFiniteSet(E) /\ IsFiniteSet(X) /\ Cardinality(E) \in Nat /\ Cardinality(X) \in Nat
    BY <2>2, <2>3, FS_Subset, FS_CardinalityType
  \* An attempt that nothing excuses is acknowledged, or still under way; there is one.
  <2>5. \A p, q \in X : p = q
    <3>1. X \subseteq acked \cup (IF op = "publish" THEN {count} ELSE {})
      BY <2>2, <2>3 DEF DeliveryInv, SinkInv, Answered
    <3>2. \A p, q \in Attempts(r) \cap acked : p = q
      BY <2>1, <2>3
    <3>3. op = "publish" /\ count \in Attempts(r) => Attempts(r) \cap acked = {}
      <4> SUFFICES ASSUME op = "publish", count \in Attempts(r)
                   PROVE  Attempts(r) \cap acked = {}
        OBVIOUS
      <4>1. PICK w \in Workers : task[w] = "writing"
        BY DEF DeliveryInv, InHand
      <4>2. rec[w] = r
        BY <4>1, Writer DEF Attempts
      <4> QED
        BY <4>1, <4>2 DEF DeliveryInv, Tries
    <3> QED
      BY <2>2, <3>1, <3>2, <3>3
  <2>6. Cardinality(X) <= 1
    BY <2>4, <2>5, OneAtMost
  <2>7. Cardinality(Whole(r)) <= Cardinality(E) + Cardinality(X)
    <3>1. Whole(r) \subseteq E \cup X
      OBVIOUS
    <3> HIDE DEF X
    <3>2. /\ IsFiniteSet(E \cup X)
          /\ Cardinality(E \cup X) = Cardinality(E) + Cardinality(X) - Cardinality(E \cap X)
      BY <2>4, FS_Union
    <3>3. IsFiniteSet(E \cap X)
      BY <2>4, FS_Subset
    <3>4. Cardinality(E \cap X) \in Nat /\ Cardinality(E \cup X) \in Nat
          /\ Cardinality(Whole(r)) \in Nat
      BY <2>2, <3>2, <3>3, FS_CardinalityType
    <3>5. Cardinality(Whole(r)) <= Cardinality(E \cup X)
      BY <3>1, <3>2, FS_Subset
    <3> QED
      BY <2>4, <3>2, <3>4, <3>5
  <2>8. Cardinality(Copies(r)) <= 1 + Cardinality(E)
    <3>1. Cardinality(Whole(r)) \in Nat
      BY <2>2, FS_CardinalityType
    <3> HIDE DEF E, X
    <3> QED
      BY <2>2, <2>4, <2>6, <2>7, <3>1
  <2>9. faults = 0 => Cardinality(Copies(r)) <= 1
    <3>1. faults = 0 => \A p, q \in Whole(r) : p = q
      BY <2>2 DEF DeliveryInv, LastHasBytes
    <3>2. faults = 0 => Cardinality(Whole(r)) <= 1 /\ Cardinality(Whole(r)) \in Nat
      BY <2>2, <3>1, OneAtMost
    <3> QED
      BY <2>2, <3>2
  <2> QED
    BY <2>1, <2>8, <2>9
<1> QED
  BY <1>1, DeliveryInvariant, PTL

-----------------------------------------------------------------------------
(***************************************************************************)
(* Module DropWarn: the warning, where the Result of a run is lost.        *)
(***************************************************************************)
\* What a reporter read is a clock reading; the stamp it read was a warning's; and where
\* the stamp is another one by now, there was a warning meanwhile.
Reported ==
    /\ lastWarn # 0 => lastWarn \in stamps
    /\ \A r \in Reporters :
        /\ pc[r] # "idle" => now[r] # 0
        /\ pc[r] = "loaded" =>
            /\ last[r] # 0 => last[r] \in stamps
            /\ lastWarn # last[r] => warned[r]

WarnInv == NoSilentDrop /\ Reported

-----------------------------------------------------------------------------
\* Nobody has read the clock or the stamp.
LEMMA WarnInitially == WarnInit => WarnInv
<1> SUFFICES ASSUME WarnInit PROVE WarnInv
  OBVIOUS
<1>1. /\ wall \in 1..MaxTime /\ backs \in 0..MaxBack
      /\ lastWarn \in 0..MaxTime /\ dropped \in 0..MaxDrops
  BY DropWarnAssumption DEF WarnInit
<1>2. pc \in [Reporters -> PCs] /\ \A r \in Reporters : pc[r] = "idle"
  BY DEF WarnInit, PCs
<1>3. now \in [Reporters -> 0..MaxTime] /\ last \in [Reporters -> 0..MaxTime]
  BY DropWarnAssumption DEF WarnInit
<1>4. stamps \subseteq 1..MaxTime /\ warned \in [Reporters -> BOOLEAN] /\ lastWarn = 0
  BY DEF WarnInit
<1> QED
  BY <1>1, <1>2, <1>3, <1>4 DEF WarnInv, Reported, NoSilentDrop, WarnTypeOK

\* The clock moves on or back: no reporter has read it yet.
LEMMA ClockMoves == WarnInv /\ (Tick \/ StepBack) => WarnInv'
<1> SUFFICES ASSUME WarnInv, Tick \/ StepBack PROVE WarnInv'
  OBVIOUS
<1>1. UNCHANGED <<lastWarn, dropped, pc, now, last, stamps, warned>>
  BY DEF Tick, StepBack
<1>2. (wall \in 1..MaxTime)' /\ (backs \in 0..MaxBack)'
  BY DropWarnAssumption DEF WarnInv, NoSilentDrop, WarnTypeOK, Tick, StepBack
<1> QED
  BY <1>1, <1>2 DEF WarnInv, Reported, NoSilentDrop, WarnTypeOK

\* A loss is counted, and the clock read.
LEMMA DropStep ==
    ASSUME WarnInv, NEW r \in Reporters, Drop(r)
    PROVE  WarnInv'
<1>0. WarnTypeOK /\ Reported
  BY DEF WarnInv, NoSilentDrop
<1>1. WarnTypeOK'
  <2>1. (dropped \in 0..MaxDrops)' /\ UNCHANGED <<wall, backs, lastWarn, last, stamps>>
    BY <1>0, DropWarnAssumption DEF Drop, WarnTypeOK
  <2>2. (now \in [Reporters -> 0..MaxTime])'
    BY <1>0, DropWarnAssumption DEF Drop, WarnTypeOK
  <2>3. (pc \in [Reporters -> PCs])'
    BY <1>0 DEF Drop, WarnTypeOK, PCs
  <2>4. (warned \in [Reporters -> BOOLEAN])'
    BY <1>0 DEF Drop, WarnTypeOK
  <2> QED
    BY <1>0, <2>1, <2>2, <2>3, <2>4 DEF WarnTypeOK
<1>2. /\ pc'[r] = "stamped" /\ now'[r] = wall /\ wall # 0
      /\ UNCHANGED <<lastWarn, last, stamps>>
      /\ \A q \in Reporters : q # r =>
            pc'[q] = pc[q] /\ now'[q] = now[q] /\ warned'[q] = warned[q]
  BY <1>0, DropWarnAssumption DEF Drop, WarnTypeOK
<1>3. Reported'
  BY <1>0, <1>2 DEF Reported
<1> QED
  BY <1>1, <1>2, <1>3 DEF WarnInv, NoSilentDrop

\* A reporter reads the stamp, which is some warning's.
LEMMA LoadStep ==
    ASSUME WarnInv, NEW r \in Reporters, LoadLast(r)
    PROVE  WarnInv'
<1>0. WarnTypeOK /\ Reported
  BY DEF WarnInv, NoSilentDrop
<1>1. WarnTypeOK'
  BY <1>0 DEF LoadLast, WarnTypeOK, PCs
<1>2. /\ pc[r] = "stamped" /\ pc'[r] = "loaded" /\ last'[r] = lastWarn
      /\ UNCHANGED <<lastWarn, now, stamps, warned>>
      /\ \A q \in Reporters : q # r => pc'[q] = pc[q] /\ last'[q] = last[q]
  BY <1>0 DEF LoadLast, WarnTypeOK
<1>3. Reported'
  BY <1>0, <1>2 DEF Reported
<1> QED
  BY <1>1, <1>2, <1>3 DEF WarnInv, NoSilentDrop

\* The swap is for the stamp that was read, so every reporter that read it finds another.
LEMMA WarnStep ==
    ASSUME WarnInv, NEW r \in Reporters, Warn(r)
    PROVE  WarnInv'
<1>0. WarnTypeOK /\ Reported
  BY DEF WarnInv, NoSilentDrop
<1>1. now[r] \in 1..MaxTime
  BY <1>0, DropWarnAssumption DEF Warn, WarnTypeOK, Reported
<1>2. WarnTypeOK'
  BY <1>0, <1>1, DropWarnAssumption DEF Warn, WarnTypeOK, PCs
<1>3. /\ lastWarn' = now[r] /\ stamps' = stamps \cup {now[r]}
      /\ pc'[r] = "idle" /\ UNCHANGED <<now, last>>
      /\ \A q \in Reporters : warned'[q] /\ (q # r => pc'[q] = pc[q])
  BY <1>0 DEF Warn, WarnTypeOK
<1>4. Reported'
  BY <1>0, <1>3 DEF Reported
<1> QED
  BY <1>2, <1>3, <1>4 DEF WarnInv, NoSilentDrop

\* The reporter stays silent for the stamp that it read, or for a warning given since.
LEMMA SilentStep ==
    ASSUME WarnInv, NEW r \in Reporters, StaySilent(r)
    PROVE  WarnInv'
<1>0. WarnTypeOK /\ Reported /\ NoSilentDrop
  BY DEF WarnInv, NoSilentDrop
<1>1. WarnTypeOK'
  BY <1>0 DEF StaySilent, WarnTypeOK, PCs
<1>2. /\ pc[r] = "loaded" /\ pc'[r] = "silent"
      /\ UNCHANGED <<lastWarn, now, last, stamps, warned>>
      /\ \A q \in Reporters : q # r => pc'[q] = pc[q]
  BY <1>0 DEF StaySilent, WarnTypeOK
<1>3. warned[r] \/ \E s \in stamps : s <= now[r] /\ now[r] < s + Interval
  <2>1. CASE lastWarn # last[r]
    BY <1>0, <1>2, <2>1 DEF Reported
  <2>2. CASE ~MayWarn(r)
    <3>1. last[r] \in stamps
      BY <1>0, <1>2, <2>2 DEF Reported, MayWarn
    <3>2. last[r] <= now[r] /\ now[r] < last[r] + Interval
      BY <1>0, <2>2, DropWarnAssumption DEF MayWarn, WarnTypeOK
    <3> QED
      BY <3>1, <3>2
  <2> QED
    BY <2>1, <2>2 DEF StaySilent
<1>4. Reported'
  BY <1>0, <1>2 DEF Reported
<1> QED
  BY <1>0, <1>1, <1>2, <1>3, <1>4 DEF WarnInv, NoSilentDrop

\* A reporter that stays silent returns.
LEMMA ReturnStep ==
    ASSUME WarnInv, NEW r \in Reporters, Return(r)
    PROVE  WarnInv'
<1>0. WarnTypeOK /\ Reported /\ NoSilentDrop
  BY DEF WarnInv, NoSilentDrop
<1>1. WarnTypeOK'
  BY <1>0 DEF Return, WarnTypeOK, PCs
<1>2. /\ pc'[r] = "idle"
      /\ UNCHANGED <<lastWarn, now, last, stamps, warned>>
      /\ \A q \in Reporters : q # r => pc'[q] = pc[q]
  BY <1>0 DEF Return, WarnTypeOK
<1>3. Reported'
  BY <1>0, <1>2 DEF Reported
<1> QED
  BY <1>0, <1>1, <1>2, <1>3 DEF WarnInv, NoSilentDrop

\* The invariant behind LossesAreNoticed.
LEMMA WarnInvariant == WarnSpec => []WarnInv
<1>1. WarnInv /\ [WarnNext]_warnVars => WarnInv'
  <2> SUFFICES ASSUME WarnInv, [WarnNext]_warnVars PROVE WarnInv'
    OBVIOUS
  <2>1. CASE UNCHANGED warnVars
    BY <2>1 DEF warnVars, WarnInv, Reported, NoSilentDrop, WarnTypeOK
  <2> QED
    BY <2>1, ClockMoves, DropStep, LoadStep, WarnStep, SilentStep, ReturnStep DEF WarnNext
<1> QED
  BY <1>1, WarnInitially, PTL DEF WarnSpec

-----------------------------------------------------------------------------
\* However the reporters interleave and wherever the clock steps between their readings:
\* a loss that does not warn is covered by a warning less than an interval old, or by one
\* given while it was being reported (runner.go, reportResult).
THEOREM LossesAreNoticed == WarnSpec => []NoSilentDrop
<1>1. WarnInv => NoSilentDrop
  BY DEF WarnInv
<1> QED
  BY <1>1, WarnInvariant, PTL

\* Of the reporters that pass the interval test together, the compare-and-swap lets one
\* warn (runner.go, reportResult).
THEOREM ForwardWarnsStaySpaced == WarnSpec => ForwardWarnsSpaced
<1>1. WarnTypeOK /\ [WarnNext]_warnVars =>
        [lastWarn # 0 /\ lastWarn' > lastWarn => lastWarn' >= lastWarn + Interval]_warnVars
  <2> SUFFICES ASSUME WarnTypeOK, [WarnNext]_warnVars, lastWarn # 0, lastWarn' > lastWarn
               PROVE  lastWarn' >= lastWarn + Interval
    OBVIOUS
  <2>1. lastWarn \in Nat
    BY DropWarnAssumption DEF WarnTypeOK
  <2>2. PICK r \in Reporters : Warn(r)
    BY <2>1 DEF WarnNext, Tick, StepBack, Drop, LoadLast, StaySilent, Return, warnVars
  <2>3. lastWarn' = now[r] /\ last[r] = lastWarn /\ MayWarn(r) /\ now[r] \in Nat
    BY <2>2, DropWarnAssumption DEF Warn, WarnTypeOK
  <2> QED
    BY <2>1, <2>3, DropWarnAssumption DEF MayWarn
<1>2. WarnInv => WarnTypeOK
  BY DEF WarnInv, NoSilentDrop
<1> QED
  BY <1>1, <1>2, WarnInvariant, PTL DEF WarnSpec, ForwardWarnsSpaced

=============================================================================
