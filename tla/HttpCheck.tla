----------------------------- MODULE HttpCheck -----------------------------
(***************************************************************************)
(* The HTTP check: Check.Run of src/checks/http/http.go with both layers   *)
(* of the address guard of src/checks/http/ssrf.go, over a net/http client *)
(* that follows redirects and keeps connections, against servers that      *)
(* answer anything, late or never, under one timeout for the whole run and *)
(* a context its caller may cancel.                                        *)
(*                                                                         *)
(* Time passes only while the run waits on the network.  A URL is a record *)
(* of what the check looks at; "word" is the one of classifyError's        *)
(* substrings that its text contains.  A Location is given in full.  An    *)
(* operator marked "Variant" is a plausible bug of its neighbour, kept to  *)
(* show which property would catch it.                                     *)
(***************************************************************************)
EXTENDS Naturals, FiniteSets

CONSTANTS
    URLs,         \* [scheme, host, port, word], as targets and as Locations
    Addresses,    \* what a name may resolve to
    Codes,        \* of the responses
    Timeout,      \* c.timeout
    MaxRedirects, \* maxRedirects
    BodyCap,      \* maxBodyBytes, in pieces of a body
    DrainCap,     \* drainLimit
    MaxBody,      \* bound on the pieces of a body
    MaxRuns       \* bound on the runs

ASSUME HttpCheckAssumption ==
    /\ \A u \in URLs : DOMAIN u = {"scheme", "host", "port", "word"}
    /\ Codes \subseteq 100..599
    /\ {Timeout, MaxRedirects, BodyCap, DrainCap} \subseteq Nat \ {0}
    /\ {MaxBody, MaxRuns} \subseteq Nat

None == "none"

VARIABLES
    pc,       \* "idle", "resolve", "dial", "await", "body", "drain" or "done"
    url,      \* of the request under way
    requests, \* sent or about to be: len(via) when its response redirects
    elapsed,  \* since the run's start
    deadline, \* of ctx
    ctx,      \* ctx.Err(): None, "deadline" or "canceled"
    untried,  \* addresses the dialer has left
    dialErr,  \* the first error it met
    peer,     \* the address of the connection
    body,     \* pieces of the response's body that are not read
    read,     \* pieces read by the current reader
    obs,      \* the Observation
    cause,    \* history: why Do failed, None if it did not
    words,    \* history: the words of the URLs that its error names
    trail,    \* history: the requests of this run, with the addresses they went to
    pool,     \* the idle connection to each server, None if there is none
    runs

progress == <<url, requests, untried, dialErr, peer, trail>>
verdict == <<obs, cause, words>>
vars == <<pc, progress, elapsed, deadline, ctx, body, read, verdict, pool, runs>>

Waiting == {"resolve", "dial", "await", "body", "drain"}

\* What the transport keeps connections by: scheme, host and the port it dials.
Server(u) == <<u.scheme, u.host,
               IF u.port # "" THEN u.port ELSE IF u.scheme = "https" THEN "443" ELSE "80">>

Servers == {Server(u) : u \in URLs}

-----------------------------------------------------------------------------
(***************************************************************************)
(* The guard and the classification.                                       *)
(***************************************************************************)
extraBlocked == {"this network", "CGNAT", "IETF", "TEST-NET", "benchmarking", "reserved"}

isBlockedIP(a) ==
    a \in {"loopback", "private", "link-local", "multicast", "unspecified"} \cup extraBlocked

\* Layer 1, on the text of a URL.  (One that does not parse has scheme "".)
assertSafeURL(u) ==
    /\ u.scheme \in {"http", "https"}
    /\ u.port \in {"", "80", "443"}
    /\ u.host \notin {"localhost", "0.0.0.0"}
    /\ ~isBlockedIP(u.host)

IsRedirect(code) == code \in {301, 302, 303, 307, 308}

Success(code) == code \in 200..399

\* By type where the error has one, else by its text: net/http puts the URLs of the
\* error before the text of the cause.
classifyError(c, named) ==
    LET typed == [blocked |-> "ssrf_blocked", deadline |-> "timeout",
                  stalled |-> "timeout", refused |-> "connection_refused",
                  dns |-> "dns_failure", certificate |-> "tls_error"]
        text  == {c} \cup named
    IN  IF      c \in DOMAIN typed              THEN typed[c]
        ELSE IF "timeout" \in text              THEN "timeout"
        ELSE IF "too many redirects" \in text   THEN "http_error"
        ELSE IF "connection refused" \in text   THEN "connection_refused"
        ELSE IF "no such host" \in text         THEN "dns_failure"
        ELSE IF "tls" \in text                  THEN "tls_error"
        ELSE "unknown"

NoObs == [status |-> None, class |-> None, code |-> 0, final |-> {}]

Down(class) == [status |-> "down", class |-> class, code |-> 0, final |-> {}]

-----------------------------------------------------------------------------
Init ==
    /\ pc = "idle"
    /\ url \in URLs
    /\ requests = 0 /\ elapsed = 0 /\ deadline = Timeout
    /\ ctx = None
    /\ untried = {} /\ dialErr = None /\ peer = None
    /\ body = 0 /\ read = 0
    /\ obs = NoObs /\ cause = None /\ words = {}
    /\ trail = {}
    /\ pool = [s \in Servers |-> None]
    /\ runs = 0

\* Run is called for a target; its URL is looked at before anything is sent.
Start ==
    /\ pc = "idle"
    /\ runs < MaxRuns
    /\ runs' = runs + 1
    /\ url' \in URLs
    /\ IF assertSafeURL(url')
       THEN pc' = "resolve" /\ cause' = None /\ obs' = NoObs
       ELSE pc' = "done" /\ cause' = "blocked" /\ obs' = Down("ssrf_blocked")
    /\ words' = {}
    /\ requests' = 1
    /\ elapsed' = 0 /\ deadline' = Timeout /\ ctx' = None
    /\ untried' = {} /\ dialErr' = None /\ peer' = None
    /\ body' = 0 /\ read' = 0
    /\ trail' = {}
    /\ UNCHANGED pool

\* Variant: the drain has a context of its own.
InterruptedInDo == ctx # None /\ pc # "drain"

\* A wait that the context ends: every wait of the run, the request is under it.
Interrupted == ctx # None /\ pc \in Waiting

\* client.Do returns an error, in whose text the URLs of named stand.
FailNaming(c, named) ==
    LET found == {u.word : u \in named} \ {None}
    IN  /\ cause' = c
        /\ words' = found
        /\ obs' = Down(classifyError(c, found))
        /\ pc' = "done"

\* As a rule it names the request under way.
Fail(c) == FailNaming(c, {url})

\* The request goes out on a connection to a.
Connected(a) ==
    /\ peer' = a
    /\ trail' = trail \cup {[url |-> url, peer |-> a]}
    /\ pc' = "await"

\* An idle connection to the server is taken, without dialing.
Reuse ==
    /\ pc = "resolve"
    /\ pool[Server(url)] # None
    /\ Connected(pool[Server(url)])
    /\ pool' = [pool EXCEPT ![Server(url)] = None]
    /\ UNCHANGED <<url, requests, untried, dialErr, elapsed, deadline, ctx, body, read,
                   verdict, runs>>

\* A literal address is its own resolution; a name has one or two, or none, or the
\* resolver does not answer in its own time.
Resolve ==
    /\ pc = "resolve"
    /\ \/ /\ untried' \in IF url.host \in Addresses THEN {{url.host}}
                          ELSE {A \in SUBSET Addresses : Cardinality(A) \in {1, 2}}
          /\ dialErr' = None
          /\ pc' = "dial"
          /\ UNCHANGED verdict
       \/ /\ url.host \notin Addresses
          /\ \E c \in {"dns", "stalled"} : Fail(c)
          /\ UNCHANGED <<untried, dialErr>>
    /\ UNCHANGED <<url, requests, peer, trail, elapsed, deadline, ctx, body, read, pool,
                   runs>>

\* Layer 2 refuses a blocked address before the connect (controlContext); the
\* dialer goes on with the next one, and reports its first error when all failed.
Dial ==
    /\ pc = "dial"
    /\ \E a \in untried :
        \/ /\ ~isBlockedIP(a)
           /\ Connected(a)
           /\ untried' = {}
           /\ UNCHANGED <<dialErr, verdict>>
        \/ /\ \E e \in IF isBlockedIP(a) THEN {"blocked"} ELSE {"refused", "stalled"} :
                LET first == IF dialErr = None THEN e ELSE dialErr
                IN  /\ dialErr' = first
                    /\ IF untried = {a} THEN Fail(first)
                       ELSE UNCHANGED <<pc, verdict>>
           /\ untried' = untried \ {a}
           /\ UNCHANGED <<peer, trail>>
    /\ UNCHANGED <<url, requests, elapsed, deadline, ctx, body, read, pool, runs>>

\* The handshake or the exchange fails.
Break ==
    /\ pc = "await"
    /\ \E c \in {"refused", "stalled", "EOF"}
                \cup (IF url.scheme = "https" THEN {"certificate", "tls"} ELSE {}) : Fail(c)
    /\ UNCHANGED <<progress, elapsed, deadline, ctx, body, read, pool, runs>>

\* Keep-alive, if the server agrees.
MayKeep ==
    pool' \in {pool, [pool EXCEPT ![Server(url)] = peer]}

\* Variant: the limit alone.
RedirectAnywhere(l) ==
    IF requests >= MaxRedirects
    THEN FailNaming("too many redirects", {l}) /\ UNCHANGED <<url, requests>>
    ELSE /\ url' = l
         /\ requests' = requests + 1
         /\ pc' = "resolve"
         /\ UNCHANGED verdict

\* A redirect to l: the limit, then layer 1 again (CheckRedirect).  The error of a hop
\* that is refused names the Location, not the request that was answered with it.
RedirectTo(l) ==
    IF requests >= MaxRedirects
    THEN FailNaming("too many redirects", {l}) /\ UNCHANGED <<url, requests>>
    ELSE IF ~assertSafeURL(l) THEN FailNaming("blocked", {l}) /\ UNCHANGED <<url, requests>>
    ELSE /\ url' = l
         /\ requests' = requests + 1
         /\ pc' = "resolve"
         /\ UNCHANGED verdict

\* Variant: each hop has the timeout to itself.
FollowAfresh ==
    /\ pc = "await"
    /\ \E l \in URLs : RedirectTo(l)
    /\ deadline' = elapsed + Timeout
    /\ peer' = None
    /\ MayKeep
    /\ UNCHANGED <<untried, dialErr, trail, elapsed, ctx, body, read, runs>>

\* The error of a Location that does not parse names both; it may have any word that a
\* URL has.
Follow ==
    /\ pc = "await"
    /\ \E c \in Codes : IsRedirect(c)
    /\ \E l \in URLs :
        \/ RedirectTo(l)
        \/ FailNaming("bad Location", {url, l}) /\ UNCHANGED <<url, requests>>
    /\ peer' = None
    /\ MayKeep
    /\ UNCHANGED <<untried, dialErr, trail, elapsed, deadline, ctx, body, read, runs>>

\* Do returns a response: any code, a redirect's only without a Location.  The body
\* is read where the target is down.
Answer ==
    /\ pc = "await"
    /\ \E c \in Codes :
        /\ obs' = [status |-> IF Success(c) THEN "up" ELSE "down",
                   class |-> IF Success(c) THEN None ELSE "http_error",
                   code |-> c, final |-> {url}]
        /\ pc' = IF Success(c) THEN "drain" ELSE "body"
    /\ body' \in 0..MaxBody
    /\ read' = 0
    /\ UNCHANGED <<progress, elapsed, deadline, ctx, cause, words, pool, runs>>

ReadPiece ==
    /\ pc \in {"body", "drain"}
    /\ body > 0
    /\ read < IF pc = "body" THEN BodyCap ELSE DrainCap
    /\ body' = body - 1
    /\ read' = read + 1
    /\ UNCHANGED <<pc, progress, elapsed, deadline, ctx, verdict, pool, runs>>

\* Variant: a body cut off is a failed run.
BodyCutOff ==
    /\ pc = "body"
    /\ body = 0 \/ read = BodyCap \/ Interrupted
    /\ pc' = "drain"
    /\ read' = 0
    /\ obs' = IF body # 0 /\ ctx # None THEN [obs EXCEPT !.class = "timeout"] ELSE obs
    /\ UNCHANGED <<progress, elapsed, deadline, ctx, body, cause, words, pool, runs>>

\* The body is read: to its end, to the cap, or to an error, which is ignored.
BodyRead ==
    /\ pc = "body"
    /\ body = 0 \/ read = BodyCap \/ Interrupted
    /\ pc' = "drain"
    /\ read' = 0
    /\ UNCHANGED <<progress, elapsed, deadline, ctx, body, verdict, pool, runs>>

\* The deferred drain: a body read to its end leaves the connection to the pool.
Drained ==
    /\ pc = "drain"
    /\ body = 0 \/ read = DrainCap \/ Interrupted
    /\ IF body = 0 /\ ctx = None THEN MayKeep ELSE UNCHANGED pool
    /\ pc' = "done"
    /\ UNCHANGED <<progress, elapsed, deadline, ctx, body, read, verdict, runs>>

\* A wait of Do ends with the context.
CtxEnds ==
    /\ pc \in {"resolve", "dial", "await"}
    /\ Interrupted
    /\ Fail(ctx)
    /\ UNCHANGED <<progress, elapsed, deadline, ctx, body, read, pool, runs>>

Return ==
    /\ pc = "done"
    /\ pc' = "idle"
    /\ UNCHANGED <<progress, elapsed, deadline, ctx, body, read, verdict, pool, runs>>

-----------------------------------------------------------------------------
(***************************************************************************)
(* The environment: time, the caller, the servers' end of idle             *)
(* connections.                                                            *)
(***************************************************************************)
\* Time passes while the run waits, up to the deadline, and past it where nothing
\* ends the wait then.
Tick ==
    /\ pc \in Waiting
    /\ IF ctx = None THEN elapsed < deadline ELSE ~Interrupted /\ elapsed <= Timeout
    /\ elapsed' = elapsed + 1
    /\ UNCHANGED <<pc, progress, deadline, ctx, body, read, verdict, pool, runs>>

Deadline ==
    /\ pc \in Waiting
    /\ ctx = None
    /\ elapsed = deadline
    /\ ctx' = "deadline"
    /\ UNCHANGED <<pc, progress, elapsed, deadline, body, read, verdict, pool, runs>>

Cancel ==
    /\ pc \in Waiting
    /\ ctx = None
    /\ ctx' = "canceled"
    /\ UNCHANGED <<pc, progress, elapsed, deadline, body, read, verdict, pool, runs>>

IdleClosed ==
    /\ \E s \in Servers : pool[s] # None /\ pool' = [pool EXCEPT ![s] = None]
    /\ UNCHANGED <<pc, progress, elapsed, deadline, ctx, body, read, verdict, runs>>

Client == Start \/ BodyRead \/ Drained \/ CtxEnds \/ Return

Remote == Reuse \/ Resolve \/ Dial \/ Break \/ Follow \/ Answer \/ ReadPiece

Next == Client \/ Remote \/ Tick \/ Deadline \/ Cancel \/ IdleClosed

\* The client's own steps happen and the clock runs; no server has to answer.
Fairness == WF_vars(BodyRead \/ Drained \/ CtxEnds \/ Return) /\ WF_vars(Tick) /\ WF_vars(Deadline)

Spec == Init /\ [][Next]_vars

FairSpec == Spec /\ Fairness

-----------------------------------------------------------------------------
TypeOK ==
    /\ pc \in {"idle", "done"} \cup Waiting
    /\ url \in URLs
    /\ requests \in Nat /\ elapsed \in Nat /\ deadline \in Nat
    /\ ctx \in {None, "deadline", "canceled"}
    /\ untried \subseteq Addresses
    /\ peer \in Addresses \cup {None}
    /\ body \in 0..MaxBody
    /\ words \subseteq {u.word : u \in URLs} \ {None}
    /\ \A s \in Servers : pool[s] \in Addresses \cup {None}

\* Whatever redirects to whatever, and whatever a name resolves to by then: each
\* request of a run is to a URL the first layer accepts, over a connection to an
\* address the second one does, a kept one included, and there are no more than
\* MaxRedirects of them (ssrf.go, controlContext: "on every dial attempt (incl.
\* Happy-Eyeballs + each redirect hop)"; http.go, CheckRedirect).
EveryHopGuarded ==
    /\ TypeOK
    /\ \A r \in trail : assertSafeURL(r.url) /\ ~isBlockedIP(r.peer)
    /\ \A s \in Servers : ~isBlockedIP(pool[s])
    /\ requests <= MaxRedirects

\* The Observation says what happened to the request: up without a class, or down
\* with one; a status code and a final URL when it was answered, neither when it
\* failed, a refused redirect included (docs/OPERATIONS.md); the class of the cause,
\* where no URL in the error's text has a word of classifyError: the target's own, or
\* for a redirect that is not followed the Location, which the server chooses.  What
\* befalls the body changes none of it.
VerdictTellsCause ==
    pc \in {"body", "drain", "done"} =>
        /\ (obs.status = "up") <=> (obs.class = None)
        /\ (cause = None) <=> (obs.code # 0)
        /\ (cause = None) <=> (obs.final # {})
        /\ cause = None => obs.class = IF Success(obs.code) THEN None ELSE "http_error"
        /\ obs.class = "ssrf_blocked" <=> cause = "blocked"
        /\ obs.class = "timeout" /\ "timeout" \notin words => cause \in {"deadline", "stalled"}
        /\ cause = "deadline" => obs.class = "timeout" /\ elapsed = Timeout
        /\ cause = "canceled" /\ words = {} => obs.class = "unknown"

\* One timeout bounds the whole run: every hop, the body and the deferred drain
\* (http.go, Run).
WithinTheTimeout == pc # "idle" => elapsed <= Timeout

\* A run ends although the server it waits for never answers, or never ends a body
\* (http.go, Run; the drain is under the run's context).
RunReturns == pc # "idle" ~> pc = "idle"

=============================================================================
