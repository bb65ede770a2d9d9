-------------------------- MODULE HttpCheckProofs --------------------------
(***************************************************************************)
(* Theorems of HttpCheck, for every set of URLs, addresses and codes, and  *)
(* every timeout, limit and cap.                                           *)
(***************************************************************************)
EXTENDS HttpCheck, TLAPS

Types ==
    /\ TypeOK
    /\ pool \in [Servers -> Addresses \cup {None}]
    /\ dialErr \in {None, "blocked", "refused", "stalled"}

\* The first layer has looked at the URL of the request under way, and the second at the
\* address at the other end of every connection.
Guarded ==
    /\ pc \in Waiting => assertSafeURL(url)
    /\ ~isBlockedIP(peer)
    /\ \A s \in Servers : ~isBlockedIP(pool[s])
    /\ \A r \in trail : assertSafeURL(r.url) /\ ~isBlockedIP(r.peer)
    /\ requests <= MaxRedirects

\* Time stops at the deadline, which is where it was when the run began.
Clock ==
    /\ deadline = Timeout
    /\ elapsed <= Timeout
    /\ ctx = "deadline" => elapsed = Timeout

\* Nothing has failed while the run goes on.
Verdict ==
    /\ pc \in Waiting => cause = None
    /\ VerdictTellsCause

HttpInv == Types /\ Guarded /\ Clock /\ Verdict


-----------------------------------------------------------------------------
(***************************************************************************)
(* The classification.                                                     *)
(***************************************************************************)
Causes ==
    {"blocked", "deadline", "stalled", "refused", "dns", "certificate",
     "tls", "EOF", "too many redirects", "bad Location", "canceled"}

\* Each way for a request to end has its code: ssrf_blocked is the guard's alone, and
\* timeout the deadline's, where no URL the error names holds a word that is searched for.
LEMMA Classified ==
    ASSUME NEW c \in Causes, NEW W
    PROVE  /\ classifyError(c, W) # None
           /\ classifyError(c, W) = "ssrf_blocked" <=> c = "blocked"
           /\ classifyError(c, W) = "timeout" /\ "timeout" \notin W => c \in {"deadline", "stalled"}
           /\ c = "deadline" => classifyError(c, W) = "timeout"
           /\ c = "canceled" /\ W = {} => classifyError(c, W) = "unknown"
<1> DEFINE typed == [blocked |-> "ssrf_blocked", deadline |-> "timeout",
                     stalled |-> "timeout", refused |-> "connection_refused",
                     dns |-> "dns_failure", certificate |-> "tls_error"]
           text == {c} \cup W
<1>1. DOMAIN typed = {"blocked", "deadline", "stalled", "refused", "dns", "certificate"}
  OBVIOUS
<1>2. CASE c \in DOMAIN typed
  <2>1. classifyError(c, W) = typed[c]
    BY <1>2 DEF classifyError
  <2> QED
    BY <1>1, <1>2, <2>1 DEF None
<1>3. CASE c \notin DOMAIN typed
  <2>1. c \in {"tls", "EOF", "too many redirects", "bad Location", "canceled"}
    BY <1>1, <1>3 DEF Causes
  <2>2. classifyError(c, W) =
            IF      "timeout" \in text              THEN "timeout"
            ELSE IF "too many redirects" \in text   THEN "http_error"
            ELSE IF "connection refused" \in text   THEN "connection_refused"
            ELSE IF "no such host" \in text         THEN "dns_failure"
            ELSE IF "tls" \in text                  THEN "tls_error"
            ELSE "unknown"
    BY <1>3 DEF classifyError
  <2> HIDE DEF typed
  <2>3. classifyError(c, W) \in {"timeout", "http_error", "connection_refused", "dns_failure",
                                 "tls_error", "unknown"}
    BY <2>2
  <2>4. "timeout" \notin W => "timeout" \notin text
    BY <2>1
  <2>5. "timeout" \notin W /\ classifyError(c, W) = "timeout" => FALSE
    BY <2>2, <2>4
  <2>6. c = "canceled" /\ W = {} => classifyError(c, W) = "unknown"
    BY <2>2 DEF None
  <2> QED
    BY <2>1, <2>3, <2>5, <2>6 DEF None
<1> QED
  BY <1>2, <1>3

\* Do fails with c, and its error names some URLs.
LEMMA FailTells ==
    ASSUME HttpInv, NEW c \in Causes, NEW named, FailNaming(c, named), UNCHANGED elapsed,
           c = "deadline" => elapsed = Timeout
    PROVE  Verdict'
<1>1. /\ cause' = c /\ pc' = "done" /\ c # None
      /\ obs'.status = "down" /\ obs'.class = classifyError(c, words')
      /\ obs'.code = 0 /\ obs'.final = {}
  BY DEF FailNaming, Down, Causes, None
<1>2. pc' \notin Waiting
  BY <1>1 DEF Waiting
<1>3. VerdictTellsCause'
  BY <1>1, Classified DEF VerdictTellsCause
<1> QED
  BY <1>2, <1>3 DEF Verdict

-----------------------------------------------------------------------------
\* No run has begun and no connection is kept.
LEMMA HttpInitially == Init => HttpInv
<1> SUFFICES ASSUME Init PROVE HttpInv
  OBVIOUS
<1> USE HttpCheckAssumption DEF Init
<1>1. Types
  BY DEF Types, TypeOK, Waiting
<1>2. Guarded
  <2>1. ~isBlockedIP(None)
    BY DEF None, isBlockedIP, extraBlocked
  <2> QED
    BY <2>1 DEF Guarded, Waiting
<1>3. Clock
  BY DEF Clock, None
<1>4. Verdict
  BY DEF Verdict, VerdictTellsCause, Waiting
<1> QED
  BY <1>1, <1>2, <1>3, <1>4 DEF HttpInv

\* Time passes up to the deadline, which nothing moves.
LEMMA ClockStep == HttpInv /\ [Next]_vars => Clock'
<1> SUFFICES ASSUME HttpInv, [Next]_vars PROVE Clock'
  OBVIOUS
<1>0. Clock /\ elapsed \in Nat /\ Timeout \in Nat \ {0}
  BY HttpCheckAssumption DEF HttpInv, Types, TypeOK
<1> USE DEF Clock
<1>1. CASE Start
  BY <1>0, <1>1 DEF Start, None
<1>2. CASE UNCHANGED <<elapsed, deadline, ctx>>
  BY <1>0, <1>2
<1>3. CASE Tick
  <2>1. ctx = None /\ elapsed < deadline
    BY <1>3 DEF Tick, Interrupted
  <2> QED
    BY <1>0, <1>3, <2>1 DEF Tick, None
<1>4. CASE Deadline
  BY <1>0, <1>4 DEF Deadline
<1>5. CASE Cancel
  BY <1>0, <1>5 DEF Cancel
<1>6. UNCHANGED <<elapsed, deadline, ctx>> \/ Start \/ Tick \/ Deadline \/ Cancel
  BY DEF Next, Client, Remote, BodyRead, Drained, CtxEnds, Return, Reuse, Resolve, Dial, Break,
         Follow, Answer, ReadPiece, IdleClosed, vars
<1> QED
  BY <1>1, <1>2, <1>3, <1>4, <1>5, <1>6

\* The verdict is given once, for what has just happened.
LEMMA VerdictStep == HttpInv /\ [Next]_vars => Verdict'
<1> SUFFICES ASSUME HttpInv, [Next]_vars PROVE Verdict'
  OBVIOUS
<1>0. Verdict /\ Clock
  BY DEF HttpInv
<1>1. CASE Start
  <2>1. CASE assertSafeURL(url')
    BY <1>1, <2>1 DEF Start, Verdict, VerdictTellsCause
  <2>2. CASE ~assertSafeURL(url')
    <3>1. pc' = "done" /\ cause' = "blocked" /\ obs' = Down("ssrf_blocked")
      BY <1>1, <2>2 DEF Start
    <3>2. pc' \notin Waiting
      BY <3>1 DEF Waiting
    <3>3. VerdictTellsCause'
      BY <3>1 DEF VerdictTellsCause, Down, None
    <3> QED
      BY <3>2, <3>3 DEF Verdict
  <2> QED
    BY <2>1, <2>2
\* The steps that leave the verdict alone, on the way to it and after it.
<1>2. ASSUME pc' \in {"idle", "resolve", "dial", "await"}, pc' # "idle" => pc \in Waiting /\ cause' = cause
      PROVE  Verdict'
  BY <1>0, <1>2 DEF Verdict, VerdictTellsCause, Waiting
<1>3. ASSUME UNCHANGED verdict, pc \in {"body", "drain"}, pc' \in {"body", "drain", "done"}
      PROVE  Verdict'
  <2>1. cause = None
    BY <1>0, <1>3 DEF Verdict, Waiting
  <2> QED
    BY <1>0, <1>3, <2>1 DEF Verdict, VerdictTellsCause, verdict, None
<1>4. CASE Reuse
  BY <1>2, <1>4 DEF Reuse, Connected, Waiting, verdict
<1>5. CASE Resolve
  <2>1. pc = "resolve" /\ UNCHANGED elapsed
    BY <1>5 DEF Resolve
  <2>2. CASE pc' = "dial" /\ cause' = cause
    BY <1>2, <2>1, <2>2 DEF Waiting
  <2>3. ASSUME NEW c \in {"dns", "stalled"}, Fail(c) PROVE Verdict'
    BY <2>1, <2>3, FailTells DEF Fail, Causes
  <2> QED
    BY <1>5, <2>2, <2>3 DEF Resolve, verdict
<1>6. CASE Dial
  <2>1. pc = "dial" /\ UNCHANGED elapsed
    BY <1>6 DEF Dial
  <2>2. CASE pc' \in {"dial", "await"} /\ cause' = cause
    BY <1>2, <2>1, <2>2 DEF Waiting
  <2>3. ASSUME NEW c \in {"blocked", "refused", "stalled"}, Fail(c) PROVE Verdict'
    BY <2>1, <2>3, FailTells DEF Fail, Causes
  <2>4. \/ pc' \in {"dial", "await"} /\ cause' = cause
        \/ \E c \in {"blocked", "refused", "stalled"} : Fail(c)
    <3>1. dialErr \in {None, "blocked", "refused", "stalled"}
      BY DEF HttpInv, Types
    <3>2. CASE \E a \in untried : Connected(a) /\ UNCHANGED verdict
      BY <3>2 DEF Connected, verdict
    <3>3. ASSUME NEW a \in untried, NEW e \in {"blocked", "refused", "stalled"},
                 LET first == IF dialErr = None THEN e ELSE dialErr
                 IN  IF untried = {a} THEN Fail(first) ELSE UNCHANGED <<pc, verdict>>
          PROVE  \/ pc' \in {"dial", "await"} /\ cause' = cause
                 \/ \E c \in {"blocked", "refused", "stalled"} : Fail(c)
      BY <2>1, <3>1, <3>3 DEF verdict
    <3> QED
      BY <1>6, <3>2, <3>3 DEF Dial
  <2> QED
    BY <2>2, <2>3, <2>4
<1>7. CASE Break
  <2>1. UNCHANGED elapsed
    BY <1>7 DEF Break
  <2>2. \E c \in {"refused", "stalled", "EOF", "certificate", "tls"} : Fail(c)
    BY <1>7 DEF Break
  <2> QED
    BY <2>1, <2>2, FailTells DEF Fail, Causes
<1>8. CASE Follow
  <2>1. pc = "await" /\ elapsed' = elapsed
    BY <1>8 DEF Follow
  <2>2. \/ pc' = "resolve" /\ cause' = cause
        \/ \E c \in {"too many redirects", "blocked", "bad Location"}, named \in SUBSET URLs :
                FailNaming(c, named)
    <3>1. PICK l \in URLs : RedirectTo(l) \/ FailNaming("bad Location", {url, l})
      BY <1>8 DEF Follow
    <3>2. {l} \in SUBSET URLs /\ {url, l} \in SUBSET URLs
      BY DEF HttpInv, Types, TypeOK
    <3> QED
      BY <3>1, <3>2 DEF RedirectTo, verdict
  <2>3. CASE pc' = "resolve" /\ cause' = cause
    BY <1>2, <2>1, <2>3 DEF Waiting
  <2> QED
    BY <2>1, <2>2, <2>3, FailTells DEF Causes
<1>9. CASE Answer
  <2>1. PICK c \in Codes :
            /\ obs' = [status |-> IF Success(c) THEN "up" ELSE "down",
                       class |-> IF Success(c) THEN None ELSE "http_error",
                       code |-> c, final |-> {url}]
            /\ pc' = IF Success(c) THEN "drain" ELSE "body"
    BY <1>9 DEF Answer
  <2>2. cause' = None /\ cause = None /\ c # 0
    BY <1>0, <1>9, HttpCheckAssumption DEF Answer, Verdict, Waiting
  <2>3. VerdictTellsCause'
    BY <2>1, <2>2 DEF VerdictTellsCause, None
  <2> QED
    BY <2>2, <2>3 DEF Verdict
<1>10. CASE ReadPiece \/ BodyRead \/ Drained
  BY <1>3, <1>10 DEF ReadPiece, BodyRead, Drained, progress
<1>11. CASE CtxEnds
  <2>1. Fail(ctx) /\ UNCHANGED elapsed /\ ctx \in {"deadline", "canceled"}
    BY <1>11 DEF CtxEnds, Interrupted, HttpInv, Types, TypeOK
  <2> QED
    BY <1>0, <2>1, FailTells DEF Fail, Causes, Clock
<1>12. CASE Return
  BY <1>2, <1>12 DEF Return
<1>13. CASE Tick \/ Deadline \/ Cancel
  <2>1. pc \in Waiting /\ pc' = pc /\ UNCHANGED verdict
    BY <1>13 DEF Tick, Deadline, Cancel
  <2> QED
    BY <1>2, <1>3, <2>1 DEF Waiting, verdict
<1>14. CASE IdleClosed \/ UNCHANGED vars
  <2>1. UNCHANGED <<pc, obs, cause, words, elapsed>>
    BY <1>14 DEF IdleClosed, vars, verdict
  <2> QED
    BY <1>0, <2>1 DEF Verdict, VerdictTellsCause
<1> QED
  BY <1>1, <1>4, <1>5, <1>6, <1>7, <1>8, <1>9, <1>10, <1>11, <1>12, <1>13, <1>14
     DEF Next, Client, Remote

\* No step puts a blocked address at the other end of a connection.
LEMMA GuardedStep == HttpInv /\ [Next]_vars => Guarded'
<1> SUFFICES ASSUME HttpInv, [Next]_vars PROVE Guarded'
  OBVIOUS
<1>0. /\ Types /\ Guarded /\ pool \in [Servers -> Addresses \cup {None}]
      /\ url \in URLs /\ Server(url) \in Servers
      /\ requests \in Nat /\ MaxRedirects \in Nat \ {0}
  BY HttpCheckAssumption DEF HttpInv, Types, TypeOK, Servers
<1>1. ~isBlockedIP(None)
  BY DEF None, isBlockedIP, extraBlocked
<1>2. CASE Start
  <2>1. /\ requests' = 1 /\ peer' = None /\ trail' = {} /\ pool' = pool
        /\ pc' \in Waiting => assertSafeURL(url')
    BY <1>2 DEF Start, Waiting
  <2> QED
    BY <1>0, <1>1, <2>1 DEF Guarded
\* The steps that open no connection: the URL is the one they found.
<1>3. ASSUME UNCHANGED <<url, requests, trail>>, pc' \in Waiting => pc \in Waiting,
             peer' = peer \/ peer' = None,
             pool' \in {pool, [pool EXCEPT ![Server(url)] = peer]}
      PROVE  Guarded'
  <2>1. \A s \in Servers : pool'[s] \in {pool[s], peer}
    BY <1>0, <1>3
  <2> QED
    BY <1>0, <1>1, <1>3, <2>1 DEF Guarded
<1>4. ASSUME NEW a, Connected(a), ~isBlockedIP(a), pc \in Waiting, UNCHANGED <<url, requests>>,
             pool' \in {pool, [pool EXCEPT ![Server(url)] = None]}
      PROVE  Guarded'
  <2>1. \A s \in Servers : pool'[s] \in {pool[s], None}
    BY <1>0, <1>4
  <2>2. peer' = a /\ trail' = trail \cup {[url |-> url, peer |-> a]} /\ pc' = "await"
    BY <1>4 DEF Connected
  <2> QED
    BY <1>0, <1>1, <1>4, <2>1, <2>2 DEF Guarded
<1>5. CASE Reuse
  <2>1. /\ Connected(pool[Server(url)]) /\ pc \in Waiting /\ UNCHANGED <<url, requests>>
        /\ pool' = [pool EXCEPT ![Server(url)] = None]
    BY <1>5 DEF Reuse, Waiting
  <2>2. ~isBlockedIP(pool[Server(url)])
    BY <1>0 DEF Guarded
  <2> QED
    BY <1>4, <2>1, <2>2
<1>6. CASE Dial
  <2>1. pc \in Waiting /\ UNCHANGED <<url, requests, pool>>
    BY <1>6 DEF Dial, Waiting
  <2>2. CASE \E a \in untried : ~isBlockedIP(a) /\ Connected(a)
    BY <1>4, <2>1, <2>2
  <2>3. CASE UNCHANGED <<peer, trail>>
    BY <1>3, <2>1, <2>3
  <2> QED
    BY <1>6, <2>2, <2>3 DEF Dial
<1>7. CASE Follow
  <2>1. /\ peer' = None /\ trail' = trail
        /\ pool' \in {pool, [pool EXCEPT ![Server(url)] = peer]} /\ pc \in Waiting
    BY <1>7 DEF Follow, MayKeep, Waiting
  <2>2. \/ UNCHANGED <<url, requests>>
        \/ assertSafeURL(url') /\ requests' = requests + 1 /\ ~(requests >= MaxRedirects)
    BY <1>7 DEF Follow, RedirectTo
  <2>3. \A s \in Servers : pool'[s] \in {pool[s], peer}
    BY <1>0, <2>1
  <2>4. requests' <= MaxRedirects
    BY <1>0, <2>2 DEF Guarded
  <2> QED
    BY <1>0, <1>1, <2>1, <2>2, <2>3, <2>4 DEF Guarded
<1>8. CASE Resolve \/ Break \/ Answer \/ ReadPiece \/ BodyRead \/ CtxEnds \/ Return
           \/ Tick \/ Deadline \/ Cancel
  <2>1. /\ UNCHANGED <<url, requests, trail, peer, pool>>
        /\ pc' \in Waiting => pc \in Waiting
    BY <1>8 DEF Resolve, Break, Fail, FailNaming, Answer, ReadPiece, BodyRead, CtxEnds, Return, Tick, Deadline,
                Cancel, progress, Waiting
  <2> QED
    BY <1>3, <2>1
<1>9. CASE Drained
  <2>1. /\ UNCHANGED <<url, requests, trail, peer>> /\ pc' \notin Waiting
        /\ pool' \in {pool, [pool EXCEPT ![Server(url)] = peer]}
    BY <1>9 DEF Drained, MayKeep, progress, Waiting
  <2> QED
    BY <1>3, <2>1
<1>10. CASE IdleClosed
  <2>1. PICK t \in Servers : pool' = [pool EXCEPT ![t] = None]
    BY <1>10 DEF IdleClosed
  <2>2. \A s \in Servers : pool'[s] \in {pool[s], None}
    BY <1>0, <2>1
  <2>3. UNCHANGED <<pc, url, requests, trail, peer>>
    BY <1>10 DEF IdleClosed, progress
  <2> QED
    BY <1>0, <1>1, <2>2, <2>3 DEF Guarded
<1>11. CASE UNCHANGED vars
  BY <1>3, <1>11 DEF vars, progress
<1> QED
  BY <1>2, <1>5, <1>6, <1>7, <1>8, <1>9, <1>10, <1>11 DEF Next, Client, Remote

\* The types, action by action.
LEMMA TypesStep == HttpInv /\ [Next]_vars => Types'
<1> SUFFICES ASSUME HttpInv, [Next]_vars PROVE Types'
  OBVIOUS
<1>0. /\ Types /\ TypeOK /\ pool \in [Servers -> Addresses \cup {None}]
      /\ url \in URLs /\ Server(url) \in Servers
      /\ {Timeout, MaxRedirects, BodyCap, DrainCap} \subseteq Nat \ {0} /\ MaxBody \in Nat
  BY HttpCheckAssumption DEF HttpInv, Types, TypeOK, Servers
<1>1. pc' \in {"idle", "done"} \cup Waiting
  BY <1>0 DEF TypeOK, Next, Client, Remote, Start, BodyRead, Drained, CtxEnds, Return, Reuse,
         Connected, Resolve, Dial, Break, Fail, FailNaming, Follow, RedirectTo, Answer, ReadPiece, Tick,
         Deadline, Cancel, IdleClosed, vars, Waiting
<1>2. url' \in URLs /\ requests' \in Nat
  <2>1. requests \in Nat
    BY <1>0 DEF TypeOK
  <2>2. \/ UNCHANGED <<url, requests>>
        \/ url' \in URLs /\ requests' \in {1, requests + 1}
        \/ url' \in URLs /\ UNCHANGED requests
    BY <1>0 DEF Next, Client, Remote, Start, BodyRead, Drained, CtxEnds, Return, Reuse,
         Resolve, Dial, Break, Fail, FailNaming, Follow, RedirectTo, Answer, ReadPiece, Tick,
         Deadline, Cancel, IdleClosed, vars, progress
  <2> QED
    BY <1>0, <2>1, <2>2
<1>3. elapsed' \in Nat /\ deadline' \in Nat /\ ctx' \in {None, "deadline", "canceled"}
  <2>1. elapsed \in Nat /\ deadline \in Nat /\ ctx \in {None, "deadline", "canceled"}
        /\ Timeout \in Nat
    BY <1>0 DEF TypeOK
  <2>2. /\ elapsed' \in {elapsed, elapsed + 1, 0} /\ deadline' \in {deadline, Timeout}
        /\ ctx' \in {ctx, None, "deadline", "canceled"}
    BY DEF Next, Client, Remote, Start, BodyRead, Drained, CtxEnds, Return, Reuse,
         Resolve, Dial, Break, Follow, Answer, ReadPiece, Tick,
         Deadline, Cancel, IdleClosed, vars
  <2> QED
    BY <2>1, <2>2
<1>4. /\ untried' \subseteq Addresses /\ peer' \in Addresses \cup {None}
      /\ dialErr' \in {None, "blocked", "refused", "stalled"}
  <2>0. /\ untried \subseteq Addresses /\ peer \in Addresses \cup {None}
        /\ dialErr \in {None, "blocked", "refused", "stalled"}
    BY <1>0 DEF Types, TypeOK
  <2>1. CASE Start
    BY <2>1 DEF Start
  <2>2. CASE Reuse
    <3>1. peer' = pool[Server(url)] /\ UNCHANGED <<untried, dialErr>>
      BY <2>2 DEF Reuse, Connected
    <3> QED
      BY <1>0, <2>0, <3>1
  <2>3. CASE Resolve
    <3>1. UNCHANGED peer
      BY <2>3 DEF Resolve
    <3>2. untried' \subseteq Addresses /\ dialErr' \in {dialErr, None}
      BY <2>0, <2>3 DEF Resolve
    <3> QED
      BY <2>0, <3>1, <3>2
  <2>4. CASE Dial
    <3>1. PICK a \in untried :
            \/ ~isBlockedIP(a) /\ Connected(a) /\ untried' = {} /\ UNCHANGED dialErr
            \/ /\ \E e \in IF isBlockedIP(a) THEN {"blocked"} ELSE {"refused", "stalled"} :
                    dialErr' = IF dialErr = None THEN e ELSE dialErr
               /\ untried' = untried \ {a}
               /\ UNCHANGED peer
      BY <2>4 DEF Dial
    <3>2. untried' \subseteq Addresses /\ peer' \in Addresses \cup {None}
      BY <2>0, <3>1 DEF Connected
    <3>3. dialErr' \in {None, "blocked", "refused", "stalled"}
      BY <2>0, <3>1
    <3> QED
      BY <3>2, <3>3
  <2>5. CASE UNCHANGED <<untried, dialErr>> /\ peer' \in {peer, None}
    BY <2>0, <2>5
  <2>6. \/ Start \/ Reuse \/ Resolve \/ Dial
        \/ UNCHANGED <<untried, dialErr>> /\ peer' \in {peer, None}
    BY DEF Next, Client, Remote, BodyRead, Drained, CtxEnds, Return, Break, Follow, Answer,
         ReadPiece, Tick, Deadline, Cancel, IdleClosed, vars, progress
  <2> QED
    BY <2>1, <2>2, <2>3, <2>4, <2>5, <2>6
<1>5. body' \in 0..MaxBody
  <2>1. body \in 0..MaxBody
    BY <1>0 DEF TypeOK
  <2>2. body' \in 0..MaxBody \/ body' = body \/ (body > 0 /\ body' = body - 1) \/ body' = 0
    BY DEF Next, Client, Remote, Start, BodyRead, Drained, CtxEnds, Return, Reuse,
         Resolve, Dial, Break, Follow, Answer, ReadPiece, Tick,
         Deadline, Cancel, IdleClosed, vars
  <2> QED
    BY <1>0, <2>1, <2>2
<1>6. pool' \in [Servers -> Addresses \cup {None}]
  <2>1. peer \in Addresses \cup {None}
    BY <1>0 DEF TypeOK
  <2>2. \/ pool' = pool
        \/ pool' = [pool EXCEPT ![Server(url)] = peer]
        \/ \E s \in Servers : pool' = [pool EXCEPT ![s] = None]
    BY <1>0 DEF Next, Client, Remote, Start, BodyRead, Drained, CtxEnds, Return, Reuse,
         Resolve, Dial, Break, Follow, Answer, ReadPiece, Tick, MayKeep,
         Deadline, Cancel, IdleClosed, vars
  <2> QED
    BY <1>0, <2>1, <2>2
<1>7. \A s \in Servers : pool'[s] \in Addresses \cup {None}
  BY <1>6
<1>8. words' \subseteq {u.word : u \in URLs} \ {None}
  <2>1. words \subseteq {u.word : u \in URLs} \ {None}
    BY <1>0 DEF TypeOK
  <2>2. ASSUME NEW c, NEW named \in SUBSET URLs, FailNaming(c, named)
        PROVE  words' \subseteq {u.word : u \in URLs} \ {None}
    BY <2>2 DEF FailNaming
  <2>3. ASSUME NEW c, Fail(c)
        PROVE  words' \subseteq {u.word : u \in URLs} \ {None}
    BY <1>0, <2>2, <2>3 DEF Fail
  <2>4. CASE Follow
    <3>1. PICK l \in URLs : RedirectTo(l) \/ FailNaming("bad Location", {url, l})
      BY <2>4 DEF Follow
    <3>2. {l} \in SUBSET URLs /\ {url, l} \in SUBSET URLs
      BY <1>0
    <3> QED
      BY <2>1, <2>2, <3>1, <3>2 DEF RedirectTo, verdict
  <2>5. CASE Resolve \/ Dial \/ Break \/ CtxEnds
    <3>1. words' = words \/ \E c : Fail(c)
      BY <2>5 DEF Resolve, Dial, Break, CtxEnds, verdict
    <3> QED
      BY <2>1, <2>3, <3>1
  <2>6. CASE words' = words \/ words' = {}
    BY <2>1, <2>6
  <2> QED
    BY <2>4, <2>5, <2>6 DEF Next, Client, Remote, Start, BodyRead, Drained, Return, Reuse,
         Answer, ReadPiece, Tick, Deadline, Cancel, IdleClosed, vars, verdict
<1> QED
  BY <1>1, <1>2, <1>3, <1>4, <1>5, <1>6, <1>7, <1>8 DEF Types, TypeOK

\* The invariant behind the three theorems.
LEMMA HttpInvariant == Spec => []HttpInv
<1>1. HttpInv /\ [Next]_vars => HttpInv'
  BY TypesStep, GuardedStep, ClockStep, VerdictStep DEF HttpInv
<1> QED
  BY <1>1, HttpInitially, PTL DEF Spec

-----------------------------------------------------------------------------
\* Whatever the servers redirect to and whatever the names resolve to by then, each
\* request of a run goes to a URL that the first layer accepts, over a connection to an
\* address that the second one does, the connections that are kept included, and there
\* are no more than maxRedirects of them (ssrf.go, controlContext; http.go, CheckRedirect).
THEOREM HopsAreGuarded == Spec => []EveryHopGuarded
<1>1. HttpInv => EveryHopGuarded
  BY DEF HttpInv, Types, Guarded, EveryHopGuarded
<1> QED
  BY <1>1, HttpInvariant, PTL

\* The Observation says what happened to the request, whatever befell the body and
\* wherever the servers redirect: timeout the deadline or a wait of the network's, unless
\* a URL that the error names - of a redirect not followed, the Location - holds the word
\* (http.go, Run and classifyError).
THEOREM VerdictsTell == Spec => []VerdictTellsCause
<1>1. HttpInv => VerdictTellsCause
  BY DEF HttpInv, Verdict
<1> QED
  BY <1>1, HttpInvariant, PTL

\* One timeout bounds every hop of the run, the body and the deferred drain (http.go, Run).
THEOREM RunsWithinTimeout == Spec => []WithinTheTimeout
<1>1. HttpInv => WithinTheTimeout
  BY DEF HttpInv, Clock, WithinTheTimeout
<1> QED
  BY <1>1, HttpInvariant, PTL
=============================================================================
