------------------------------- MODULE Admin -------------------------------
(***************************************************************************)
(* The admin HTTP server of src/cmd/descry/admin.go: the listener that     *)
(* caps the open connections (limitListener), the cap on the /metrics      *)
(* bodies held in memory (limitInFlight), the goroutine that runs Serve,   *)
(* and shutdown.                                                           *)
(*                                                                         *)
(* net/http is modelled as admin.go uses it: Serve calls Accept in a loop, *)
(* retries a temporary error and returns any other; a goroutine per        *)
(* connection reads one request (keep-alives are off), runs the handler    *)
(* and closes the connection; Shutdown closes the listener, waits for      *)
(* Serve to let go of it - whatever its context says - then for the        *)
(* connections, until the timeout.                                         *)
(*                                                                         *)
(* An operator marked "Variant" is a plausible bug of its neighbour.       *)
(***************************************************************************)
EXTENDS Naturals, Sequences, SequencesExt, FiniteSets

CONSTANTS
    Clients,
    MaxConns,    \* adminMaxConns
    MaxBodies,   \* metricsMaxInFlight
    MayHang,     \* clients whose connection may stay busy for ever
    MaxFailures  \* bound on the errors of the inner Accept

ASSUME AdminAssumption ==
    /\ IsFiniteSet(Clients)
    /\ MaxConns \in Nat \ {0}
    /\ MaxBodies \in Nat \ {0}
    /\ MayHang \subseteq Clients
    /\ MaxFailures \in Nat

VARIABLES
    hung,        \* the clients whose connection does
    backlog,     \* clients the kernel has completed a handshake with
    acceptor,    \* the Serve goroutine
    slots,       \* len(limitListener.sem)
    innerClosed, \* the inner listener is closed
    doneClosed,  \* limitListener.done is closed
    conn,        \* the goroutine of each client's connection
    open,        \* clients whose connection has not been closed
    bodies,      \* len(sem) of limitInFlight
    serveErr,    \* adminServer.err is set
    stop,        \* where shutdown is
    errors       \* inner Accept errors so far

acceptVars == <<hung, backlog, acceptor, serveErr, errors>>
stopVars   == <<innerClosed, doneClosed, stop>>
connVars   == <<conn, open, bodies>>

vars == <<acceptVars, slots, stopVars, connVars>>

Accepting == "inner Accept"  \* the acceptor has a slot and waits for a client

\* A connection whose handler holds a /metrics body.
Holding(c) == conn[c] \in {"gathering", "writing"}

-----------------------------------------------------------------------------
Init ==
    /\ hung \in SUBSET MayHang
    /\ backlog = <<>>
    /\ acceptor = "slot"
    /\ slots = 0
    /\ innerClosed = FALSE
    /\ doneClosed = FALSE
    /\ conn = [c \in Clients |-> "none"]
    /\ open = {}
    /\ bodies = 0
    /\ serveErr = FALSE
    /\ stop = "no"
    /\ errors = 0

Connect(c) ==
    /\ ~innerClosed
    /\ conn[c] = "none"
    /\ c \notin ToSet(backlog)
    /\ backlog' = Append(backlog, c)
    /\ UNCHANGED <<hung, acceptor, serveErr, errors, slots, stopVars, connVars>>

-----------------------------------------------------------------------------
(***************************************************************************)
(* limitListener.Accept, called by Serve.                                  *)
(***************************************************************************)
TakeSlot ==
    /\ acceptor = "slot"
    /\ slots < MaxConns
    /\ slots' = slots + 1
    /\ acceptor' = Accepting
    /\ UNCHANGED <<hung, backlog, serveErr, errors, stopVars, connVars>>

\* Variant: Accept waits for a slot and for nothing else.
SeesNothing ==
    /\ FALSE
    /\ UNCHANGED vars

SeesDone ==
    /\ acceptor = "slot"
    /\ doneClosed
    /\ acceptor' = "leaving"
    /\ UNCHANGED <<hung, backlog, serveErr, errors, slots, stopVars, connVars>>

AcceptConn ==
    /\ acceptor = Accepting
    /\ ~innerClosed
    /\ backlog # <<>>
    /\ backlog' = Tail(backlog)
    /\ conn' = [conn EXCEPT ![Head(backlog)] = "reading"]
    /\ open' = open \cup {Head(backlog)}
    /\ acceptor' = "slot"
    /\ UNCHANGED <<hung, serveErr, errors, slots, stopVars, bodies>>

\* Variant: an error keeps the slot.
RetryKeepsSlot ==
    /\ acceptor = Accepting
    /\ ~innerClosed
    /\ errors < MaxFailures
    /\ errors' = errors + 1
    /\ acceptor' = "slot"
    /\ UNCHANGED <<hung, slots, backlog, serveErr, stopVars, connVars>>

\* A temporary error of the inner Accept (no descriptor left): Serve tries again.
AcceptRetries ==
    /\ acceptor = Accepting
    /\ ~innerClosed
    /\ errors < MaxFailures
    /\ errors' = errors + 1
    /\ slots' = slots - 1
    /\ acceptor' = "slot"
    /\ UNCHANGED <<hung, backlog, serveErr, stopVars, connVars>>

\* Any other error: Serve leaves, with ErrServerClosed once shutdown has begun.
AcceptFails ==
    /\ acceptor = Accepting
    /\ innerClosed \/ errors < MaxFailures
    /\ errors' = IF innerClosed THEN errors ELSE errors + 1
    /\ slots' = slots - 1
    /\ serveErr' = (stop = "no")
    /\ acceptor' = "leaving"
    /\ UNCHANGED <<hung, backlog, stopVars, connVars>>

\* Serve's deferred calls: it closes the listener and lets go of it.
ServeReturns ==
    /\ acceptor = "leaving"
    /\ innerClosed' = TRUE
    /\ doneClosed' = TRUE
    /\ backlog' = <<>>
    /\ acceptor' = "returned"
    /\ UNCHANGED <<hung, serveErr, errors, slots, stop, connVars>>

\* fail(err) if there is one, then a.done is closed.
ServeGoroutineEnds ==
    /\ acceptor = "returned"
    /\ acceptor' = "done"
    /\ UNCHANGED <<hung, backlog, serveErr, errors, slots, stopVars, connVars>>

-----------------------------------------------------------------------------
(***************************************************************************)
(* The goroutine of a connection.                                          *)
(***************************************************************************)
Goes(c, from, to) ==
    /\ conn[c] = from
    /\ conn' = [conn EXCEPT ![c] = to]

\* GET /metrics below the limit.
Scrape(c) ==
    /\ Goes(c, "reading", "gathering")
    /\ c \in open
    /\ bodies < MaxBodies
    /\ bodies' = bodies + 1
    /\ UNCHANGED <<acceptVars, slots, stopVars, open>>

\* Another path, or the 503 beyond the limit, or no request within the timeout.
Answer(c) ==
    /\ \/ Goes(c, "reading", "answering") /\ c \in open
       \/ Goes(c, "reading", "closing")
       \/ Goes(c, "answering", "closing")
    /\ UNCHANGED <<acceptVars, slots, stopVars, open, bodies>>

\* Variant: promhttp's own limit, over before the body is written.
GatherFreesBody(c) ==
    /\ Goes(c, "gathering", "writing")
    /\ bodies' = bodies - 1
    /\ UNCHANGED <<acceptVars, slots, stopVars, open>>

GatherEnds(c) ==
    /\ Goes(c, "gathering", "writing")
    /\ UNCHANGED <<acceptVars, slots, stopVars, open, bodies>>

\* The body is out, or WriteTimeout passed: the slot of limitInFlight is freed.
WriteEnds(c) ==
    /\ Goes(c, "writing", "closing")
    /\ bodies' = bodies - 1
    /\ UNCHANGED <<acceptVars, slots, stopVars, open>>

\* Variant: every Close takes a slot out of sem, if one is there, in place of the once.
CloseAgain(c) ==
    /\ Goes(c, "closing", "none")
    /\ open' = open \ {c}
    /\ slots' = IF slots > 0 THEN slots - 1 ELSE 0
    /\ UNCHANGED <<acceptVars, stopVars, bodies>>

\* limitConn.Close: only the first gives the slot back.
CloseConn(c) ==
    /\ Goes(c, "closing", "none")
    /\ open' = open \ {c}
    /\ slots' = IF c \in open THEN slots - 1 ELSE slots
    /\ UNCHANGED <<acceptVars, stopVars, bodies>>

-----------------------------------------------------------------------------
(***************************************************************************)
(* adminServer.shutdown.                                                   *)
(***************************************************************************)
ShutdownBegins ==
    /\ stop = "no"
    /\ stop' = "close inner"
    /\ UNCHANGED <<innerClosed, doneClosed, acceptVars, slots, connVars>>

\* limitListener.Close, first half: the kernel resets who is in the backlog.
CloseInner ==
    /\ stop = "close inner"
    /\ innerClosed' = TRUE
    /\ backlog' = <<>>
    /\ stop' = "close done"
    /\ UNCHANGED <<hung, doneClosed, acceptor, serveErr, errors, slots, connVars>>

CloseDone ==
    /\ stop = "close done"
    /\ doneClosed' = TRUE
    /\ stop' = "listener"
    /\ UNCHANGED <<innerClosed, acceptVars, slots, connVars>>

ListenerGone ==
    /\ stop = "listener"
    /\ acceptor \in {"returned", "done"}
    /\ stop' = "connections"
    /\ UNCHANGED <<innerClosed, doneClosed, acceptVars, slots, connVars>>

\* Shutdown closes a connection that sent nothing for five seconds.
CloseIdle(c) ==
    /\ stop = "connections"
    /\ conn[c] = "reading" /\ c \in open
    /\ open' = open \ {c}
    /\ slots' = slots - 1
    /\ UNCHANGED <<acceptVars, stopVars, conn, bodies>>

Quiet ==
    /\ stop = "connections"
    /\ open = {}
    /\ stop' = "done"
    /\ UNCHANGED <<innerClosed, doneClosed, acceptVars, slots, connVars>>

\* Variant: no Close after the timeout.
TimeoutKeeps ==
    /\ stop = "connections"
    /\ stop' = "done"
    /\ UNCHANGED <<innerClosed, doneClosed, acceptVars, slots, connVars>>

\* The timeout: srv.Close closes every connection under its handler.
TimesOut ==
    /\ stop = "connections"
    /\ open' = {}
    /\ slots' = slots - Cardinality(open)
    /\ stop' = "done"
    /\ UNCHANGED <<innerClosed, doneClosed, acceptVars, conn, bodies>>

ShutdownReturns ==
    /\ stop = "done"
    /\ acceptor = "done"
    /\ stop' = "returned"
    /\ UNCHANGED <<innerClosed, doneClosed, acceptVars, slots, connVars>>

-----------------------------------------------------------------------------
Accept == TakeSlot \/ SeesDone \/ AcceptConn \/ AcceptRetries \/ AcceptFails

Serve == Accept \/ ServeReturns \/ ServeGoroutineEnds

ConnStep(c) ==
    Scrape(c) \/ Answer(c) \/ GatherEnds(c) \/ WriteEnds(c) \/ CloseConn(c)

Shutdown ==
    \/ CloseInner \/ CloseDone \/ ListenerGone
    \/ (\E c \in Clients : CloseIdle(c))
    \/ Quiet \/ TimesOut \/ ShutdownReturns

Terminated ==
    /\ stop = "returned"
    /\ \A c \in Clients : conn[c] = "none"
    /\ UNCHANGED vars

Next ==
    \/ \E c \in Clients : Connect(c) \/ ConnStep(c)
    \/ Serve
    \/ ShutdownBegins \/ Shutdown
    \/ Terminated

Spec == Init /\ [][Next]_vars

(***************************************************************************)
(* The goroutine of Serve and the caller of shutdown run when they can,    *)
(* and the server's read, scrape and write timeouts end every request but  *)
(* those of the clients that hang.                                         *)
(***************************************************************************)
Fairness ==
    /\ WF_vars(Serve)
    /\ WF_vars(Shutdown)
    /\ \A c \in Clients : WF_vars(c \notin hung /\ ConnStep(c))

FairSpec == Spec /\ Fairness

-----------------------------------------------------------------------------
TypeOK ==
    /\ hung \subseteq MayHang
    /\ backlog \in Seq(Clients) /\ IsInjective(backlog)
    /\ acceptor \in {"slot", Accepting, "leaving", "returned", "done"}
    /\ slots \in 0..MaxConns
    /\ {innerClosed, doneClosed, serveErr} \subseteq BOOLEAN
    /\ conn \in [Clients -> {"none", "reading", "answering", "gathering", "writing",
                             "closing"}]
    /\ open \subseteq {c \in Clients : conn[c] # "none"}
    /\ bodies \in 0..MaxBodies
    /\ stop \in {"no", "close inner", "close done", "listener", "connections", "done",
                 "returned"}
    /\ errors \in 0..MaxFailures

\* Every slot belongs to an open connection or to the Accept that waits for one: none
\* leaks through an Accept error, none is given back twice by the two Closes of a
\* connection cut off by shutdown (admin.go, limitListener and limitConn).
SlotsAccountedFor ==
    /\ TypeOK
    /\ slots = Cardinality(open) + (IF acceptor = Accepting THEN 1 ELSE 0)

\* At most metricsMaxInFlight bodies are held, those still being written to a slow
\* client included (admin.go, newAdminMux: "this outer slot is what bounds held
\* bodies").
HeldBodiesBounded == Cardinality({c \in Clients : Holding(c)}) <= MaxBodies

\* Both limits of the server hold, and give back what they took.
LimitsHold == SlotsAccountedFor /\ HeldBodiesBounded

\* When shutdown returns nothing of the server is left: Serve has returned and no
\* connection is open, handlers that are still running included (admin.go, shutdown).
NothingLeftOpen == stop = "returned" => open = {} /\ slots = 0 /\ acceptor = "done"

\* Shutdown returns, also when every slot is taken by a client that never lets go, and
\* whatever the accept loop is waiting for (admin.go, "so Shutdown is not held up by a
\* full server").
ShutdownReturnsAlways == stop = "close inner" ~> stop = "returned"

\* A client in the backlog of a full server gets its turn while the server lasts,
\* accept errors or not, unless clients that hang have taken every slot.
BacklogServed ==
    \A c \in Clients :
        c \in ToSet(backlog) /\ Cardinality(hung) < MaxConns ~> c \in open \/ innerClosed

=============================================================================
