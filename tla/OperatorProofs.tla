--------------------------- MODULE OperatorProofs ---------------------------
(***************************************************************************)
(* Theorems about what an operator of descry sees.  First the admin server *)
(* (Admin), for every set of clients, both limits and every number of      *)
(* failures of the inner Accept.  Then the counters and warnings it serves *)
(* (Telemetry: the results drain behind the runner's channel), for every   *)
(* pool, capacity of the channel and pace of the clock.                    *)
(***************************************************************************)
EXTENDS Admin, Telemetry, SumProofs, FiniteSetTheorems, SequenceTheorems, TLAPS

-----------------------------------------------------------------------------
(***************************************************************************)
(* The admin server: its limits, its backlog, its shutdown.                *)
(***************************************************************************)
\* A client waits in the backlog once, and has no connection yet.
BacklogWaits ==
    /\ \A i, j \in 1..Len(backlog) : backlog[i] = backlog[j] => i = j
    /\ \A i \in 1..Len(backlog) : conn[backlog[i]] = "none"

\* The clients whose connection holds a /metrics body.
Holders == {c \in Clients : Holding(c)}

\* Both semaphores are as long as those who hold one of their places are many.
Counted ==
    /\ slots = Cardinality(open) + (IF acceptor = Accepting THEN 1 ELSE 0)
    /\ bodies = Cardinality(Holders)

\* How far shutdown is says what the goroutine of Serve may still do.
ShutdownInOrder ==
    /\ stop \in {"connections", "done", "returned"} => acceptor \in {"returned", "done"}
    /\ stop \in {"done", "returned"} => open = {}
    /\ stop = "returned" => acceptor = "done"

AdminInv == TypeOK /\ BacklogWaits /\ Counted /\ ShutdownInOrder


-----------------------------------------------------------------------------
\* The connections are finitely many.
LEMMA Finite ==
    ASSUME TypeOK
    PROVE  /\ IsFiniteSet(open) /\ Cardinality(open) \in Nat
           /\ IsFiniteSet(Holders) /\ Cardinality(Holders) \in Nat
<1>1. open \subseteq Clients /\ Holders \subseteq Clients
  BY DEF TypeOK, Holders
<1> QED
  BY <1>1, AdminAssumption, FS_Subset, FS_CardinalityType

\* A set without one of its elements.
LEMMA OneOut ==
    ASSUME NEW S, IsFiniteSet(S), NEW x \in S
    PROVE  /\ Cardinality(S \ {x}) = Cardinality(S) - 1
           /\ Cardinality(S) \in Nat /\ Cardinality(S) >= 1
<1>1. IsFiniteSet(S \ {x}) /\ Cardinality(S \ {x}) = Cardinality(S) - 1
  BY FS_RemoveElement
<1>2. Cardinality(S) \in Nat /\ Cardinality(S \ {x}) \in Nat
  BY <1>1, FS_CardinalityType
<1> QED
  BY <1>1, <1>2

\* A set with one element more.
LEMMA OneIn ==
    ASSUME NEW S, IsFiniteSet(S), NEW x, x \notin S
    PROVE  Cardinality(S \cup {x}) = Cardinality(S) + 1
  BY FS_AddElement

\* The client at the head of the backlog has no connection; the others stay.
LEMMA Headed ==
    ASSUME AdminInv, backlog # <<>>
    PROVE  /\ Head(backlog) \in Clients /\ conn[Head(backlog)] = "none"
           /\ Head(backlog) \notin open
           /\ Tail(backlog) \in Seq(Clients)
           /\ \A i, j \in 1..Len(Tail(backlog)) :
                Tail(backlog)[i] = Tail(backlog)[j] => i = j
           /\ \A i \in 1..Len(Tail(backlog)) :
                /\ Tail(backlog)[i] \in Clients \ {Head(backlog)}
                /\ conn[Tail(backlog)[i]] = "none"
<1>1. /\ backlog \in Seq(Clients) /\ Len(backlog) \in Nat \ {0}
      /\ Head(backlog) = backlog[1] /\ backlog[1] \in Clients
  <2>1. backlog \in Seq(Clients)
    BY DEF AdminInv, TypeOK
  <2>2. Len(backlog) \in Nat \ {0}
    BY <2>1, EmptySeq
  <2> QED
    BY <2>1, <2>2
<1>2. /\ Tail(backlog) \in Seq(Clients)
      /\ Len(Tail(backlog)) = Len(backlog) - 1
      /\ \A i \in 1..Len(Tail(backlog)) : Tail(backlog)[i] = backlog[i + 1]
  BY <1>1, HeadTailProperties
<1>3. \A i \in 1..Len(Tail(backlog)) : i + 1 \in 1..Len(backlog) /\ i + 1 # 1
  BY <1>1, <1>2
<1>4. 1 \in 1..Len(backlog) /\ \A i \in 1..Len(backlog) : backlog[i] \in Clients
  BY <1>1
<1>5. \A i, j \in 1..Len(Tail(backlog)) : Tail(backlog)[i] = Tail(backlog)[j] => i = j
  BY <1>2, <1>3 DEF AdminInv, BacklogWaits
<1>6. \A i \in 1..Len(Tail(backlog)) :
          /\ Tail(backlog)[i] \in Clients \ {Head(backlog)}
          /\ conn[Tail(backlog)[i]] = "none"
  BY <1>1, <1>2, <1>3, <1>4 DEF AdminInv, BacklogWaits
<1>7. conn[Head(backlog)] = "none" /\ Head(backlog) \notin open
  BY <1>1, <1>4 DEF AdminInv, BacklogWaits, TypeOK
<1> QED
  BY <1>1, <1>2, <1>5, <1>6, <1>7

\* The server begins with nobody connected.
LEMMA AdminInitially == Init => AdminInv
<1> SUFFICES ASSUME Init PROVE AdminInv
  OBVIOUS
<1>1. <<>> \in Seq(Clients) /\ Len(backlog) = 0 /\ IsInjective(backlog)
  BY EmptySeq DEF Init, IsInjective
<1>2. TypeOK
  <2>1. backlog \in Seq(Clients) /\ IsInjective(backlog)
    BY <1>1 DEF Init
  <2>2. {innerClosed, doneClosed, serveErr} \subseteq BOOLEAN
    BY DEF Init
  <2>3. slots \in 0..MaxConns /\ bodies \in 0..MaxBodies /\ errors \in 0..MaxFailures
    BY AdminAssumption DEF Init
  <2> QED
    BY <2>1, <2>2, <2>3 DEF Init, TypeOK
<1>3. BacklogWaits
  BY <1>1 DEF BacklogWaits
<1>4. Holders = {} /\ open = {}
  BY DEF Init, Holders, Holding
<1>5. Counted
  BY <1>4, FS_EmptySet DEF Init, Counted, Accepting
<1> QED
  BY <1>2, <1>3, <1>5 DEF Init, AdminInv, ShutdownInOrder

\* A client queues once, and is connected only out of the queue.
LEMMA BacklogStep ==
    AdminInv /\ [Next]_vars => BacklogWaits' /\ backlog' \in Seq(Clients) /\ IsInjective(backlog')
<1> SUFFICES ASSUME AdminInv, [Next]_vars
             PROVE  BacklogWaits' /\ backlog' \in Seq(Clients)
  <2>1. \A s \in Seq(Clients) :
            (\A i, j \in 1..Len(s) : s[i] = s[j] => i = j) => IsInjective(s)
    BY DEF IsInjective
  <2> QED
    BY <2>1 DEF BacklogWaits
<1>0. /\ TypeOK /\ BacklogWaits /\ backlog \in Seq(Clients)
      /\ Len(backlog) \in Nat /\ \A i \in 1..Len(backlog) : backlog[i] \in Clients
  <2>1. TypeOK /\ BacklogWaits /\ backlog \in Seq(Clients)
    BY DEF AdminInv, TypeOK
  <2> QED
    BY <2>1
<1>1. CASE backlog' = <<>>
  BY <1>1, EmptySeq DEF BacklogWaits
<1>2. ASSUME backlog' = backlog,
             \A c \in Clients : conn[c] = "none" => conn'[c] = "none"
      PROVE  BacklogWaits' /\ backlog' \in Seq(Clients)
  BY <1>0, <1>2 DEF BacklogWaits
<1>3. ASSUME NEW c \in Clients, Connect(c)
      PROVE  BacklogWaits' /\ backlog' \in Seq(Clients)
  <2>1. /\ backlog' = Append(backlog, c) /\ conn[c] = "none" /\ conn' = conn
        /\ \A i \in 1..Len(backlog) : backlog[i] # c
    BY <1>0, <1>3 DEF Connect, connVars, ToSet
  <2>2. /\ backlog' \in Seq(Clients) /\ Len(backlog') = Len(backlog) + 1
        /\ \A i \in 1..Len(backlog) : backlog'[i] = backlog[i]
        /\ backlog'[Len(backlog) + 1] = c
    BY <1>0, <2>1, AppendProperties
  <2>3. \A i \in 1..Len(backlog') : i \in 1..Len(backlog) \/ i = Len(backlog) + 1
    BY <1>0, <2>2
  <2>4. \A i, j \in 1..Len(backlog') : backlog'[i] = backlog'[j] => i = j
    BY <1>0, <2>1, <2>2, <2>3 DEF BacklogWaits
  <2>5. \A i \in 1..Len(backlog') : conn'[backlog'[i]] = "none"
    BY <1>0, <2>1, <2>2, <2>3 DEF BacklogWaits
  <2> QED
    BY <2>2, <2>4, <2>5 DEF BacklogWaits
<1>4. CASE AcceptConn
  <2>1. /\ backlog # <<>> /\ backlog' = Tail(backlog)
        /\ conn' = [conn EXCEPT ![Head(backlog)] = "reading"]
    BY <1>4 DEF AcceptConn
  <2>2. \A c \in Clients \ {Head(backlog)} : conn'[c] = conn[c]
    BY <1>0, <2>1 DEF TypeOK
  <2> QED
    BY <2>1, <2>2, Headed DEF BacklogWaits
<1>5. ASSUME NEW c \in Clients, ConnStep(c)
      PROVE  BacklogWaits' /\ backlog' \in Seq(Clients)
  <2>1. backlog' = backlog /\ conn[c] # "none" /\ \E t : conn' = [conn EXCEPT ![c] = t]
    BY <1>5 DEF ConnStep, Scrape, Answer, GatherEnds, WriteEnds, CloseConn, Goes, acceptVars
  <2>2. \A d \in Clients : d # c => conn'[d] = conn[d]
    BY <1>0, <2>1 DEF TypeOK
  <2> QED
    BY <1>2, <2>1, <2>2
<1>6. CASE TakeSlot \/ SeesDone \/ AcceptRetries \/ AcceptFails \/ ServeGoroutineEnds
  BY <1>2, <1>6 DEF TakeSlot, SeesDone, AcceptRetries, AcceptFails, ServeGoroutineEnds, connVars
<1>7. CASE ServeReturns \/ CloseInner
  BY <1>1, <1>7 DEF ServeReturns, CloseInner
<1>8. CASE \/ ShutdownBegins \/ CloseDone \/ ListenerGone \/ (\E c \in Clients : CloseIdle(c))
           \/ Quiet \/ TimesOut \/ ShutdownReturns \/ Terminated \/ UNCHANGED vars
  <2>1. backlog' = backlog /\ conn' = conn
    BY <1>8 DEF ShutdownBegins, CloseDone, ListenerGone, CloseIdle, Quiet, TimesOut,
                ShutdownReturns, Terminated, vars, acceptVars, connVars
  <2> QED
    BY <1>2, <2>1
<1> QED
  BY <1>3, <1>4, <1>5, <1>6, <1>7, <1>8 DEF Next, Serve, Accept, Shutdown

\* Each stage of shutdown waits for what it says it waits for.
LEMMA OrderStep == AdminInv /\ [Next]_vars => ShutdownInOrder'
<1> SUFFICES ASSUME AdminInv, [Next]_vars PROVE ShutdownInOrder'
  OBVIOUS
<1> USE DEF AdminInv, ShutdownInOrder
<1>1. ASSUME NEW c \in Clients, Connect(c) \/ ConnStep(c) PROVE ShutdownInOrder'
  BY <1>1 DEF Connect, ConnStep, Scrape, Answer, GatherEnds, WriteEnds, CloseConn,
              acceptVars, stopVars, connVars
<1>2. CASE Serve
  BY <1>2 DEF Serve, Accept, TakeSlot, SeesDone, AcceptConn, AcceptRetries, AcceptFails,
              ServeReturns, ServeGoroutineEnds, stopVars, connVars, Accepting
<1>3. CASE ShutdownBegins \/ CloseInner \/ CloseDone \/ ListenerGone
  BY <1>3 DEF ShutdownBegins, CloseInner, CloseDone, ListenerGone, acceptVars, connVars
<1>4. CASE Quiet \/ TimesOut \/ ShutdownReturns
  <2>1. CASE Quiet
    BY <2>1 DEF Quiet, acceptVars, connVars
  <2>2. CASE TimesOut
    BY <2>2 DEF TimesOut, acceptVars
  <2>3. CASE ShutdownReturns
    BY <2>3 DEF ShutdownReturns, acceptVars, connVars
  <2> QED
    BY <1>4, <2>1, <2>2, <2>3
<1>5. ASSUME NEW c \in Clients, CloseIdle(c) PROVE ShutdownInOrder'
  BY <1>5 DEF CloseIdle, acceptVars, stopVars
<1>6. CASE Terminated \/ UNCHANGED vars
  BY <1>6 DEF Terminated, vars, acceptVars, stopVars, connVars
<1> QED
  BY <1>1, <1>2, <1>3, <1>4, <1>5, <1>6 DEF Next, Shutdown


\* A slot is taken before the Accept and given back once, by the Accept that fails or
\* the connection that closes.
LEMMA SlotsStep ==
    AdminInv /\ [Next]_vars =>
        /\ slots' = Cardinality(open') + (IF acceptor' = Accepting THEN 1 ELSE 0)
        /\ slots' \in 0..MaxConns
<1> SUFFICES ASSUME AdminInv, [Next]_vars
             PROVE  /\ slots' = Cardinality(open') + (IF acceptor' = Accepting THEN 1 ELSE 0)
                    /\ slots' \in 0..MaxConns
  OBVIOUS
<1>0. /\ slots = Cardinality(open) + (IF acceptor = Accepting THEN 1 ELSE 0)
      /\ slots \in 0..MaxConns /\ MaxConns \in Nat
      /\ IsFiniteSet(open) /\ Cardinality(open) \in Nat
  BY AdminAssumption, Finite DEF AdminInv, Counted, TypeOK
<1>1. CASE TakeSlot
  <2>1. /\ acceptor # Accepting /\ acceptor' = Accepting
        /\ slots < MaxConns /\ slots' = slots + 1 /\ open' = open
    BY <1>1 DEF TakeSlot, connVars, Accepting
  <2>2. slots = Cardinality(open)
    BY <1>0, <2>1
  <2> QED
    BY <1>0, <2>1, <2>2
<1>2. CASE AcceptConn
  <2>1. /\ open' = open \cup {Head(backlog)} /\ Head(backlog) \notin open
        /\ acceptor = Accepting /\ acceptor' # Accepting /\ slots' = slots
    BY <1>2, Headed DEF AcceptConn, Accepting
  <2>2. Cardinality(open') = Cardinality(open) + 1
    BY <1>0, <2>1, OneIn
  <2> QED
    BY <1>0, <2>1, <2>2
<1>3. CASE AcceptRetries \/ AcceptFails
  <2>1. /\ acceptor = Accepting /\ acceptor' # Accepting
        /\ slots' = slots - 1 /\ open' = open
    BY <1>3 DEF AcceptRetries, AcceptFails, connVars, Accepting
  <2>2. slots = Cardinality(open) + 1
    BY <1>0, <2>1
  <2> QED
    BY <1>0, <2>1, <2>2
<1>4. ASSUME NEW c \in open, open' = open \ {c}, slots' = slots - 1, acceptor' = acceptor
      PROVE  /\ slots' = Cardinality(open') + (IF acceptor' = Accepting THEN 1 ELSE 0)
             /\ slots' \in 0..MaxConns
  <2>1. Cardinality(open') = Cardinality(open) - 1 /\ Cardinality(open) >= 1
    BY <1>0, <1>4, OneOut
  <2> QED
    BY <1>0, <1>4, <2>1
<1>5. ASSUME UNCHANGED <<open, slots>>, acceptor' = Accepting <=> acceptor = Accepting
      PROVE  /\ slots' = Cardinality(open') + (IF acceptor' = Accepting THEN 1 ELSE 0)
             /\ slots' \in 0..MaxConns
  BY <1>0, <1>5
<1>6. ASSUME NEW c \in Clients, CloseConn(c)
      PROVE  /\ slots' = Cardinality(open') + (IF acceptor' = Accepting THEN 1 ELSE 0)
             /\ slots' \in 0..MaxConns
  <2>1. acceptor' = acceptor /\ open' = open \ {c} /\ slots' = IF c \in open THEN slots - 1 ELSE slots
    BY <1>6 DEF CloseConn, acceptVars
  <2>2. CASE c \in open
    BY <1>4, <2>1, <2>2
  <2>3. CASE c \notin open
    BY <1>5, <2>1, <2>3
  <2> QED
    BY <2>2, <2>3
<1>7. ASSUME NEW c \in Clients, CloseIdle(c)
      PROVE  /\ slots' = Cardinality(open') + (IF acceptor' = Accepting THEN 1 ELSE 0)
             /\ slots' \in 0..MaxConns
  BY <1>4, <1>7 DEF CloseIdle, acceptVars
<1>8. CASE TimesOut
  <2>1. Cardinality(open') = 0 /\ acceptor' = acceptor /\ slots' = slots - Cardinality(open)
    BY <1>8, FS_EmptySet DEF TimesOut, acceptVars
  <2>2. CASE acceptor = Accepting
    <3>1. slots = Cardinality(open) + 1
      BY <1>0, <2>2
    <3> QED
      BY <1>0, <2>1, <2>2, <3>1
  <2>3. CASE acceptor # Accepting
    <3>1. slots = Cardinality(open)
      BY <1>0, <2>3
    <3> QED
      BY <1>0, <2>1, <2>3, <3>1
  <2> QED
    BY <2>2, <2>3
<1>9. CASE \/ SeesDone \/ ServeReturns \/ ServeGoroutineEnds
           \/ ShutdownBegins \/ CloseInner \/ CloseDone \/ ListenerGone \/ Quiet \/ ShutdownReturns
           \/ Terminated \/ UNCHANGED vars
  BY <1>5, <1>9 DEF SeesDone, ServeReturns, ServeGoroutineEnds, ShutdownBegins, CloseInner, CloseDone,
         ListenerGone, Quiet, ShutdownReturns, Terminated, vars, acceptVars, connVars, Accepting
<1>10. ASSUME NEW c \in Clients,
              Connect(c) \/ Scrape(c) \/ Answer(c) \/ GatherEnds(c) \/ WriteEnds(c)
       PROVE  /\ slots' = Cardinality(open') + (IF acceptor' = Accepting THEN 1 ELSE 0)
              /\ slots' \in 0..MaxConns
  BY <1>5, <1>10 DEF Connect, Scrape, Answer, GatherEnds, WriteEnds, acceptVars, connVars
<1> QED
  BY <1>1, <1>2, <1>3, <1>6, <1>7, <1>8, <1>9, <1>10 DEF Next, Serve, Accept, Shutdown, ConnStep

\* A /metrics body is held by one request, from its slot to its end.
LEMMA BodiesStep ==
    AdminInv /\ [Next]_vars => bodies' = Cardinality(Holders') /\ bodies' \in 0..MaxBodies
<1> SUFFICES ASSUME AdminInv, [Next]_vars
             PROVE  bodies' = Cardinality(Holders') /\ bodies' \in 0..MaxBodies
  OBVIOUS
<1>0. /\ bodies = Cardinality(Holders) /\ bodies \in 0..MaxBodies /\ MaxBodies \in Nat
      /\ IsFiniteSet(Holders) /\ Cardinality(Holders) \in Nat
      /\ DOMAIN conn = Clients /\ conn = [c \in Clients |-> conn[c]]
  BY AdminAssumption, Finite DEF AdminInv, Counted, TypeOK
\* A connection that goes from one state to another.
<1>1. ASSUME NEW c \in Clients, NEW t, conn' = [conn EXCEPT ![c] = t]
      PROVE  Holders' = (Holders \ {c}) \cup (IF t \in {"gathering", "writing"} THEN {c} ELSE {})
  <2>1. \A d \in Clients : conn'[d] = IF d = c THEN t ELSE conn[d]
    BY <1>0, <1>1
  <2> QED
    BY <2>1 DEF Holders, Holding
<1>2. ASSUME bodies' = bodies, Holders' = Holders
      PROVE  bodies' = Cardinality(Holders') /\ bodies' \in 0..MaxBodies
  BY <1>0, <1>2
<1>3. ASSUME NEW c \in Clients, Scrape(c)
      PROVE  bodies' = Cardinality(Holders') /\ bodies' \in 0..MaxBodies
  <2>1. /\ conn[c] = "reading" /\ conn' = [conn EXCEPT ![c] = "gathering"]
        /\ bodies' = bodies + 1 /\ bodies < MaxBodies
    BY <1>3 DEF Scrape, Goes
  <2>2. Holders' = Holders \cup {c} /\ c \notin Holders
    BY <1>1, <2>1 DEF Holders, Holding
  <2>3. Cardinality(Holders') = Cardinality(Holders) + 1
    BY <1>0, <2>2, OneIn
  <2> QED
    BY <1>0, <2>1, <2>3
<1>4. ASSUME NEW c \in Clients, WriteEnds(c)
      PROVE  bodies' = Cardinality(Holders') /\ bodies' \in 0..MaxBodies
  <2>1. /\ conn[c] = "writing" /\ conn' = [conn EXCEPT ![c] = "closing"]
        /\ bodies' = bodies - 1
    BY <1>4 DEF WriteEnds, Goes
  <2>2. Holders' = Holders \ {c} /\ c \in Holders
    BY <1>1, <2>1 DEF Holders, Holding
  <2>3. Cardinality(Holders') = Cardinality(Holders) - 1 /\ Cardinality(Holders) >= 1
    BY <1>0, <2>2, OneOut
  <2> QED
    BY <1>0, <2>1, <2>3
<1>5. ASSUME NEW c \in Clients, Answer(c) \/ CloseConn(c) \/ GatherEnds(c)
      PROVE  bodies' = Cardinality(Holders') /\ bodies' \in 0..MaxBodies
  <2>1. /\ bodies' = bodies
        /\ \/ /\ conn[c] \in {"reading", "answering", "closing"}
              /\ \E t \in {"answering", "closing", "none"} : conn' = [conn EXCEPT ![c] = t]
           \/ /\ conn[c] = "gathering" /\ conn' = [conn EXCEPT ![c] = "writing"]
    BY <1>5 DEF Answer, CloseConn, GatherEnds, Goes
  <2>2. Holders' = Holders
    BY <1>1, <2>1 DEF Holders, Holding
  <2> QED
    BY <1>2, <2>1, <2>2
<1>6. CASE AcceptConn
  <2>1. /\ Head(backlog) \in Clients /\ conn[Head(backlog)] = "none"
        /\ conn' = [conn EXCEPT ![Head(backlog)] = "reading"] /\ bodies' = bodies
    BY <1>6, Headed DEF AcceptConn
  <2>2. Holders' = Holders
    BY <1>1, <2>1 DEF Holders, Holding
  <2> QED
    BY <1>2, <2>1, <2>2
<1>7. CASE UNCHANGED <<conn, bodies>>
  BY <1>2, <1>7 DEF Holders, Holding
<1>8. \/ UNCHANGED <<conn, bodies>> \/ AcceptConn
      \/ \E c \in Clients : Scrape(c) \/ WriteEnds(c) \/ Answer(c) \/ CloseConn(c) \/ GatherEnds(c)
  BY DEF Next, Connect, ConnStep, Serve, Accept, TakeSlot, SeesDone, AcceptRetries, AcceptFails,
         ServeReturns, ServeGoroutineEnds, ShutdownBegins, Shutdown, CloseInner, CloseDone,
         ListenerGone, CloseIdle, Quiet, TimesOut, ShutdownReturns, Terminated, vars, connVars
<1> QED
  BY <1>3, <1>4, <1>5, <1>6, <1>7, <1>8

\* The types, action by action.
LEMMA AdminTypeStep == AdminInv /\ [Next]_vars => TypeOK'
<1> SUFFICES ASSUME AdminInv, [Next]_vars PROVE TypeOK'
  OBVIOUS
<1>1. /\ backlog' \in Seq(Clients) /\ IsInjective(backlog')
      /\ slots' \in 0..MaxConns /\ bodies' \in 0..MaxBodies
  BY BacklogStep, SlotsStep, BodiesStep
<1>2. TypeOK
  BY DEF AdminInv
<1>3. hung' \subseteq MayHang
  BY <1>2 DEF TypeOK, Next, Connect, ConnStep, Scrape, Answer, GatherEnds, WriteEnds, CloseConn,
         Serve, Accept, TakeSlot, SeesDone, AcceptConn, AcceptRetries, AcceptFails,
         ServeReturns, ServeGoroutineEnds, ShutdownBegins, Shutdown, CloseInner, CloseDone,
         ListenerGone, CloseIdle, Quiet, TimesOut, ShutdownReturns, Terminated, vars, acceptVars
<1>4. /\ acceptor' \in {"slot", Accepting, "leaving", "returned", "done"}
      /\ stop' \in {"no", "close inner", "close done", "listener", "connections", "done",
                    "returned"}
  BY <1>2 DEF TypeOK, Next, Connect, ConnStep, Scrape, Answer, GatherEnds, WriteEnds, CloseConn,
         Serve, Accept, TakeSlot, SeesDone, AcceptConn, AcceptRetries, AcceptFails,
         ServeReturns, ServeGoroutineEnds, ShutdownBegins, Shutdown, CloseInner, CloseDone,
         ListenerGone, CloseIdle, Quiet, TimesOut, ShutdownReturns, Terminated, vars, acceptVars,
         stopVars
<1>5. {innerClosed', doneClosed', serveErr'} \subseteq BOOLEAN
  <2>1. innerClosed \in BOOLEAN /\ doneClosed \in BOOLEAN /\ serveErr \in BOOLEAN
    BY <1>2 DEF TypeOK
  <2>2. innerClosed' \in BOOLEAN /\ doneClosed' \in BOOLEAN
    BY <2>1 DEF Next, Connect, ConnStep, Scrape, Answer, GatherEnds, WriteEnds, CloseConn,
         Serve, Accept, TakeSlot, SeesDone, AcceptConn, AcceptRetries, AcceptFails,
         ServeReturns, ServeGoroutineEnds, ShutdownBegins, Shutdown, CloseInner, CloseDone,
         ListenerGone, CloseIdle, Quiet, TimesOut, ShutdownReturns, Terminated, vars, stopVars
  <2>3. serveErr' \in BOOLEAN
    BY <2>1 DEF Next, Connect, ConnStep, Scrape, Answer, GatherEnds, WriteEnds, CloseConn,
         Serve, Accept, TakeSlot, SeesDone, AcceptConn, AcceptRetries, AcceptFails,
         ServeReturns, ServeGoroutineEnds, ShutdownBegins, Shutdown, CloseInner, CloseDone,
         ListenerGone, CloseIdle, Quiet, TimesOut, ShutdownReturns, Terminated, vars, acceptVars
  <2> QED
    BY <2>2, <2>3
<1>6. errors' \in 0..MaxFailures
  <2>1. errors \in 0..MaxFailures /\ MaxFailures \in Nat
    BY <1>2, AdminAssumption DEF TypeOK
  <2>2. errors' = errors \/ (errors < MaxFailures /\ errors' = errors + 1)
    BY DEF Next, Connect, ConnStep, Scrape, Answer, GatherEnds, WriteEnds, CloseConn,
         Serve, Accept, TakeSlot, SeesDone, AcceptConn, AcceptRetries, AcceptFails,
         ServeReturns, ServeGoroutineEnds, ShutdownBegins, Shutdown, CloseInner, CloseDone,
         ListenerGone, CloseIdle, Quiet, TimesOut, ShutdownReturns, Terminated, vars, acceptVars
  <2> QED
    BY <2>1, <2>2
\* The connections: each step moves one of them, or closes some.
<1> DEFINE States == {"none", "reading", "answering", "gathering", "writing", "closing"}
<1>7. conn' \in [Clients -> States] /\ open' \subseteq {c \in Clients : conn'[c] # "none"}
  <2>1. /\ conn \in [Clients -> States] /\ open \subseteq Clients
        /\ \A c \in open : conn[c] # "none"
    BY <1>2 DEF TypeOK
  <2>2. CASE conn' = conn /\ open' \subseteq open
    BY <2>1, <2>2
  <2>3. ASSUME NEW c \in Clients, NEW t \in States, conn' = [conn EXCEPT ![c] = t],
               open' \subseteq (open \ {c}) \cup (IF t = "none" THEN {} ELSE {c})
        PROVE  conn' \in [Clients -> States] /\ open' \subseteq {d \in Clients : conn'[d] # "none"}
    <3>1. conn' \in [Clients -> States] /\ \A d \in Clients : conn'[d] = IF d = c THEN t ELSE conn[d]
      BY <2>1, <2>3
    <3> QED
      BY <2>1, <2>3, <3>1
  <2>4. CASE AcceptConn
    <3>1. /\ Head(backlog) \in Clients /\ open' = open \cup {Head(backlog)}
          /\ conn' = [conn EXCEPT ![Head(backlog)] = "reading"]
      BY <2>4, Headed DEF AcceptConn
    <3> QED
      BY <2>3, <3>1
  <2>5. ASSUME NEW c \in Clients, ConnStep(c)
        PROVE  conn' \in [Clients -> States] /\ open' \subseteq {d \in Clients : conn'[d] # "none"}
    <3>1. \E t \in States : /\ conn' = [conn EXCEPT ![c] = t]
                            /\ open' \subseteq (open \ {c}) \cup (IF t = "none" THEN {} ELSE {c})
      BY <2>5 DEF ConnStep, Scrape, Answer, GatherEnds, WriteEnds, CloseConn, Goes
    <3> QED
      BY <2>3, <3>1
  <2>6. (conn' = conn /\ open' \subseteq open) \/ AcceptConn \/ \E c \in Clients : ConnStep(c)
    BY DEF Next, Connect, Serve, Accept, TakeSlot, SeesDone, AcceptRetries, AcceptFails,
         ServeReturns, ServeGoroutineEnds, ShutdownBegins, Shutdown, CloseInner, CloseDone,
         ListenerGone, CloseIdle, Quiet, TimesOut, ShutdownReturns, Terminated, vars, connVars
  <2> QED
    BY <2>2, <2>4, <2>5, <2>6
<1> QED
  BY <1>1, <1>3, <1>4, <1>5, <1>6, <1>7 DEF TypeOK

\* The invariant behind the two theorems about the server.
LEMMA AdminInvariant == Spec => []AdminInv
<1>1. AdminInv /\ [Next]_vars => AdminInv'
  BY AdminTypeStep, BacklogStep, SlotsStep, BodiesStep, OrderStep DEF AdminInv, Counted
<1> QED
  BY <1>1, AdminInitially, PTL DEF Spec

-----------------------------------------------------------------------------
\* Whatever the number of clients and of Accept errors, every slot of limitListener is
\* an open connection's or the Accept's that waits, none leaks and none is given back
\* twice, and no more /metrics bodies are held than metricsMaxInFlight (admin.go,
\* limitListener, limitConn and newAdminMux).
THEOREM LimitsAlwaysHold == Spec => []LimitsHold
<1>1. AdminInv => LimitsHold
  <2> SUFFICES ASSUME AdminInv PROVE LimitsHold
    OBVIOUS
  <2>1. SlotsAccountedFor
    BY DEF AdminInv, Counted, SlotsAccountedFor
  <2>2. Cardinality(Holders) <= MaxBodies
    <3>1. bodies \in 0..MaxBodies
      BY DEF AdminInv, TypeOK
    <3>2. bodies = Cardinality(Holders)
      BY DEF AdminInv, Counted
    <3> QED
      BY <3>1, <3>2, AdminAssumption
  <2> QED
    BY <2>1, <2>2 DEF LimitsHold, HeldBodiesBounded, Holders
<1> QED
  BY <1>1, AdminInvariant, PTL

\* When shutdown returns, Serve has returned and nothing is open (admin.go, shutdown).
THEOREM NothingIsLeftOpen == Spec => []NothingLeftOpen
<1>1. AdminInv => NothingLeftOpen
  <2> SUFFICES ASSUME AdminInv, stop = "returned"
               PROVE  open = {} /\ slots = 0 /\ acceptor = "done"
    BY DEF NothingLeftOpen
  <2>1. open = {} /\ acceptor = "done"
    BY DEF AdminInv, ShutdownInOrder
  <2> QED
    BY <2>1, FS_EmptySet DEF AdminInv, Counted, Accepting
<1> QED
  BY <1>1, AdminInvariant, PTL

-----------------------------------------------------------------------------
(***************************************************************************)
(* The results drain.  A Result is in the channel, with a goroutine that   *)
(* reports it, in the drain's hands, counted as handled or dropped.        *)
(***************************************************************************)

(***************************************************************************)
(* What the Results are.                                                   *)
(***************************************************************************)
Results == Skips \cup Ends

\* Whether a Result is of a kind in K.
One(r, K) == IF r.kind \in K THEN 1 ELSE 0

\* Where a Result can be: in the channel, with a reporter, in the drain's hand.
QueueShape ==
    /\ queue \in Seq(Results) /\ Len(queue) <= Capacity
    /\ reporting \in [Reporters -> Results \cup {Nothing}]
    /\ full \subseteq Busy
    /\ inHand \in Results \cup {Nothing}
    /\ \A w \in Workers : reporting[w].kind \notin SkipKinds

\* A Result is a skip of a target or the end of a run.
LEMMA ResultKinds ==
    /\ \A r \in Results : r.kind \in Kinds /\ r # Nothing
    /\ Nothing.kind = "none" /\ "none" \notin Kinds
    /\ \A r \in Skips : r.kind \in SkipKinds /\ r.target \in Targets
    /\ \A r \in Ends : r.kind \notin SkipKinds
    /\ Skips \subseteq Results /\ Ends \subseteq Results
<1>1. \A r \in Skips : r.kind \in SkipKinds /\ r.target \in Targets
  BY DEF Skips
<1>2. \A r \in Ends : r.kind \in Kinds /\ r.kind \notin SkipKinds
  BY DEF Ends
<1>3. Nothing.kind = "none" /\ "none" \notin Kinds /\ SkipKinds \subseteq Kinds
  BY DEF Nothing, Kinds, SkipKinds
<1> QED
  BY <1>1, <1>2, <1>3 DEF Results

-----------------------------------------------------------------------------
(***************************************************************************)
(* Counting the Results on their way, by kind.                             *)
(***************************************************************************)
\* The places of the channel where one of these kinds is.
InQueueOf(q, K) == {i \in 1..Len(q) : q[i].kind \in K}

\* The reporters that have one of these kinds.
BusyWith(K) == {p \in Busy : reporting[p].kind \in K}

\* Counting the places of a queue.
LEMMA OneTo ==
    ASSUME NEW n \in Nat
    PROVE  IsFiniteSet(1..n) /\ Cardinality(1..n) = n
<1>1. /\ IsFiniteSet(1..n)
      /\ Cardinality(1..n) = IF 1 > n THEN 0 ELSE n - 1 + 1
  BY FS_Interval
<1> DEFINE c == Cardinality(1..n)
<1> HIDE DEF c
<1>2. c = IF 1 > n THEN 0 ELSE n - 1 + 1
  BY <1>1 DEF c
<1>3. c = n
  BY <1>2
<1> QED
  BY <1>1, <1>3 DEF c

\* What is under way is finite, whatever kinds one looks at.
LEMMA ParcelsCounted ==
    ASSUME QueueShape, NEW K
    PROVE  /\ IsFiniteSet(InQueueOf(queue, K)) /\ InQueue(K) = Cardinality(InQueueOf(queue, K))
           /\ IsFiniteSet(BusyWith(K)) /\ IsFiniteSet(Busy)
           /\ InQueue(K) \in 0..Len(queue) /\ Len(queue) \in Nat
           /\ Cardinality(BusyWith(K)) \in Nat /\ Cardinality(Busy) \in Nat
           /\ Underway(K) = InQueue(K) + Cardinality(BusyWith(K)) + One(inHand, K)
           /\ Underway(K) \in Nat /\ One(inHand, K) \in 0..1
<1>1. Len(queue) \in Nat /\ IsFiniteSet(1..Len(queue)) /\ Cardinality(1..Len(queue)) = Len(queue)
  <2>1. Len(queue) \in Nat
    BY DEF QueueShape
  <2> QED
    BY <2>1, OneTo
<1>2. InQueueOf(queue, K) \subseteq 1..Len(queue)
  BY DEF InQueueOf
<1>3. IsFiniteSet(InQueueOf(queue, K)) /\ Cardinality(InQueueOf(queue, K)) \in 0..Len(queue)
  BY <1>1, <1>2, FS_Subset, FS_CardinalityType
<1>4. IsFiniteSet(Reporters)
  BY TelemetryAssumption, FS_AddElement DEF Reporters
<1>5. IsFiniteSet(Busy) /\ IsFiniteSet(BusyWith(K))
  <2>1. Busy \subseteq Reporters /\ BusyWith(K) \subseteq Reporters
    BY DEF Busy, BusyWith
  <2> QED
    BY <1>4, <2>1, FS_Subset
<1>6. Cardinality(BusyWith(K)) \in Nat /\ Cardinality(Busy) \in Nat
  BY <1>5, FS_CardinalityType
<1>7. InQueue(K) = Cardinality(InQueueOf(queue, K))
  BY DEF InQueue, InQueueOf
<1>8. Underway(K) = InQueue(K) + Cardinality(BusyWith(K)) + One(inHand, K)
  BY DEF Underway, BusyWith, One
<1>9. One(inHand, K) \in 0..1
  BY DEF One
<1> QED
  BY <1>1, <1>3, <1>5, <1>6, <1>7, <1>8, <1>9

\* A Result joins the queue.
LEMMA QueuePlus ==
    ASSUME NEW S, NEW q \in Seq(S), NEW r \in S, NEW K
    PROVE  Cardinality(InQueueOf(Append(q, r), K)) = Cardinality(InQueueOf(q, K)) + One(r, K)
<1> DEFINE n == Len(q) + 1
           t == Append(q, r)
<1>1. Len(q) \in Nat /\ Len(t) = n /\ t[n] = r /\ \A i \in 1..Len(q) : t[i] = q[i]
  OBVIOUS
<1>2. IsFiniteSet(InQueueOf(q, K)) /\ n \notin InQueueOf(q, K)
  <2>1. InQueueOf(q, K) \subseteq 1..Len(q) /\ n \notin 1..Len(q) /\ IsFiniteSet(1..Len(q))
    BY <1>1, FS_Interval DEF InQueueOf
  <2> QED
    BY <2>1, FS_Subset
<1>3. Cardinality(InQueueOf(q, K)) \in Nat
  BY <1>2, FS_CardinalityType
<1>4. InQueueOf(t, K) = InQueueOf(q, K) \cup (IF r.kind \in K THEN {n} ELSE {})
  <2>1. 1..n = 1..Len(q) \cup {n}
    BY <1>1
  <2> HIDE DEF n, t
  <2> QED
    BY <1>1, <2>1 DEF InQueueOf
<1> HIDE DEF n, t
<1>5. CASE r.kind \in K
  BY <1>2, <1>4, <1>5, FS_AddElement DEF One, t
<1>6. CASE r.kind \notin K
  BY <1>3, <1>4, <1>6 DEF One, t
<1> QED
  BY <1>5, <1>6

\* A Result leaves the queue.
LEMMA QueueMinus ==
    ASSUME NEW S, NEW q \in Seq(S), q # <<>>, NEW K
    PROVE  Cardinality(InQueueOf(q, K)) = Cardinality(InQueueOf(Tail(q), K)) + One(Head(q), K)
<1> DEFINE n == Len(q)
           t == Tail(q)
           A == InQueueOf(q, K)
           B == InQueueOf(t, K)
           C == A \ {1}
           f == [i \in B |-> i + 1]
<1>1. /\ n \in Nat \ {0} /\ Len(t) = n - 1 /\ Head(q) = q[1]
      /\ \A i \in 1..(n - 1) : t[i] = q[i + 1]
  OBVIOUS
<1>2. B \subseteq 1..(n - 1) /\ A \subseteq 1..n /\ IsFiniteSet(A) /\ IsFiniteSet(B)
  <2>1. B \subseteq 1..(n - 1) /\ A \subseteq 1..n
    BY <1>1 DEF InQueueOf
  <2>2. IsFiniteSet(1..(n - 1)) /\ IsFiniteSet(1..n)
    BY <1>1, FS_Interval
  <2> QED
    BY <2>1, <2>2, FS_Subset
<1>3. \A i \in 1..(n - 1) : i \in B <=> i + 1 \in C
  BY <1>1 DEF InQueueOf
<1>4. f \in Bijection(B, C)
  <2> HIDE DEF A, B, C, n
  <2>1. \A i \in B : i \in 1..(n - 1)
    BY <1>2
  <2>2. f \in [B -> C]
    BY <1>3, <2>1
  <2>3. \A i, j \in B : f[i] = f[j] => i = j
    BY <1>1, <2>1
  <2>4. \A c \in C : \E i \in B : f[i] = c
    <3> TAKE c \in C
    <3>1. c \in 2..n
      BY <1>1, <1>2 DEF C
    <3>2. c - 1 \in 1..(n - 1) /\ (c - 1) + 1 = c
      BY <1>1, <3>1
    <3>3. c - 1 \in B
      BY <1>3, <3>2
    <3> QED
      BY <3>2, <3>3
  <2> QED
    BY <2>2, <2>3, <2>4 DEF Bijection, Injection, Surjection, IsInjective
<1>5. Cardinality(C) = Cardinality(B)
  <2>1. ExistsBijection(B, C)
    BY <1>4 DEF ExistsBijection
  <2> QED
    BY <1>2, <2>1, FS_Bijection
<1>6. Cardinality(A) \in Nat /\ Cardinality(C) = IF 1 \in A THEN Cardinality(A) - 1 ELSE Cardinality(A)
  BY <1>2, FS_CardinalityType, FS_RemoveElement
<1>7. 1 \in A <=> Head(q).kind \in K
  BY <1>1 DEF InQueueOf
<1> HIDE DEF A, B, C
<1>8. Cardinality(A) = Cardinality(B) + One(Head(q), K)
  <2>1. CASE 1 \in A
    BY <1>5, <1>6, <1>7, <2>1 DEF One
  <2>2. CASE 1 \notin A
    BY <1>5, <1>6, <1>7, <2>2 DEF One
  <2> QED
    BY <2>1, <2>2
<1> QED
  BY <1>8 DEF A, B

\* What is under way after a step, spelt out.
LEMMA UnderwayNext ==
    ASSUME NEW K
    PROVE  Underway(K)' = Cardinality(InQueueOf(queue', K)) + Cardinality(BusyWith(K)')
                            + One(inHand', K)
  BY DEF Underway, InQueue, InQueueOf, BusyWith, One

\* A goroutine of the runner takes a Result to reportResult.
LEMMA Begun ==
    ASSUME QueueShape, NEW K, K \subseteq Kinds, NEW p \in Reporters, NEW r \in Results,
           reporting[p] = Nothing, reporting' = [reporting EXCEPT ![p] = r],
           UNCHANGED <<queue, inHand>>
    PROVE  Underway(K)' = Underway(K) + One(r, K)
<1>1. r.kind \in Kinds /\ r # Nothing /\ Nothing.kind \notin K
  BY ResultKinds
<1>2. reporting'[p] = r /\ \A q \in Reporters : q # p => reporting'[q] = reporting[q]
  BY DEF QueueShape
<1>3. BusyWith(K)' = BusyWith(K) \cup (IF r.kind \in K THEN {p} ELSE {}) /\ p \notin BusyWith(K)
  BY <1>1, <1>2 DEF BusyWith, Busy
<1>4. Cardinality(BusyWith(K)') = Cardinality(BusyWith(K)) + One(r, K)
  <2>1. IsFiniteSet(BusyWith(K)) /\ Cardinality(BusyWith(K)) \in Nat
    BY ParcelsCounted
  <2>2. CASE r.kind \in K
    BY <1>3, <2>1, <2>2, FS_AddElement DEF One
  <2>3. CASE r.kind \notin K
    BY <1>3, <2>1, <2>3 DEF One
  <2> QED
    BY <2>2, <2>3
<1>5. One(r, K) \in 0..1
  BY DEF One
<1> QED
  BY <1>4, <1>5, ParcelsCounted, UnderwayNext

\* The goroutine is through with it.
LEMMA Ended ==
    ASSUME QueueShape, NEW K, K \subseteq Kinds, NEW p \in Busy,
           reporting' = [reporting EXCEPT ![p] = Nothing]
    PROVE  /\ Cardinality(BusyWith(K)') + One(reporting[p], K) = Cardinality(BusyWith(K))
           /\ Cardinality(BusyWith(K)') \in Nat /\ One(reporting[p], K) \in 0..1
           /\ reporting[p] \in Results /\ Busy' = Busy \ {p}
<1> DEFINE r == reporting[p]
<1>1. p \in Reporters /\ r \in Results /\ Nothing.kind \notin K
  BY ResultKinds DEF Busy, QueueShape
<1>2. reporting'[p] = Nothing /\ \A q \in Reporters : q # p => reporting'[q] = reporting[q]
  BY <1>1 DEF QueueShape
<1>3. BusyWith(K)' = BusyWith(K) \ {p} /\ (p \in BusyWith(K) <=> r.kind \in K) /\ Busy' = Busy \ {p}
  BY <1>1, <1>2 DEF BusyWith, Busy
<1>4. IsFiniteSet(BusyWith(K)) /\ Cardinality(BusyWith(K)) \in Nat
  BY ParcelsCounted
<1>5. /\ Cardinality(BusyWith(K) \ {p}) + One(r, K) = Cardinality(BusyWith(K))
      /\ Cardinality(BusyWith(K) \ {p}) \in Nat /\ One(r, K) \in 0..1
  <2> DEFINE A == BusyWith(K)
  <2>1. /\ Cardinality(A \ {p}) = IF p \in A THEN Cardinality(A) - 1 ELSE Cardinality(A)
        /\ Cardinality(A \ {p}) \in Nat
    BY <1>4, FS_RemoveElement, FS_CardinalityType
  <2>2. p \in A => One(r, K) = 1
    BY <1>3 DEF One
  <2>3. p \notin A => One(r, K) = 0
    BY <1>3 DEF One
  <2> HIDE DEF A, r
  <2>4. CASE p \in A
    BY <1>4, <2>1, <2>2, <2>4 DEF A
  <2>5. CASE p \notin A
    BY <1>4, <2>1, <2>3, <2>5 DEF A
  <2> QED
    BY <2>4, <2>5 DEF A
<1> QED
  BY <1>1, <1>3, <1>5

\* A send moves a Result from its reporter into the channel.
LEMMA SendMoves ==
    ASSUME QueueShape, NEW K, K \subseteq Kinds, NEW p \in Reporters, Send(p)
    PROVE  Underway(K)' = Underway(K)
<1>1. CASE Len(queue) < Capacity
  <2>1. /\ p \in Busy /\ queue' = Append(queue, reporting[p]) /\ inHand' = inHand
        /\ reporting' = [reporting EXCEPT ![p] = Nothing]
    BY <1>1 DEF Send
  <2>2. /\ Cardinality(BusyWith(K)') + One(reporting[p], K) = Cardinality(BusyWith(K))
        /\ Cardinality(BusyWith(K)') \in Nat /\ One(reporting[p], K) \in 0..1
        /\ reporting[p] \in Results
    BY <2>1, Ended
  <2>3. Cardinality(InQueueOf(queue', K)) = InQueue(K) + One(reporting[p], K)
    BY <2>1, <2>2, QueuePlus, ParcelsCounted DEF QueueShape
  <2> QED
    BY <2>1, <2>2, <2>3, ParcelsCounted, UnderwayNext
<1>2. CASE ~ (Len(queue) < Capacity)
  BY <1>2 DEF Send, Underway, InQueue, Busy
<1> QED
  BY <1>1, <1>2

\* A drop takes a Result away from its reporter.
LEMMA DropTakesAway ==
    ASSUME QueueShape, NEW K, K \subseteq Kinds, NEW p \in Reporters, Drop(p)
    PROVE  /\ Underway(K)' + One(reporting[p], K) = Underway(K)
           /\ One(reporting[p], K) \in 0..1 /\ reporting[p] \in Results
<1>1. p \in Busy /\ reporting' = [reporting EXCEPT ![p] = Nothing] /\ UNCHANGED <<queue, inHand>>
  BY DEF Drop, QueueShape
<1>2. /\ Cardinality(BusyWith(K)') + One(reporting[p], K) = Cardinality(BusyWith(K))
      /\ Cardinality(BusyWith(K)') \in Nat /\ One(reporting[p], K) \in 0..1
      /\ reporting[p] \in Results
  BY <1>1, Ended
<1>3. Cardinality(InQueueOf(queue', K)) = InQueue(K) /\ One(inHand', K) = One(inHand, K)
  BY <1>1, ParcelsCounted
<1> QED
  BY <1>2, <1>3, ParcelsCounted, UnderwayNext

\* The drain takes a Result from the channel into its hand.
LEMMA TakeMoves ==
    ASSUME QueueShape, NEW K, K \subseteq Kinds, Take
    PROVE  Underway(K)' = Underway(K)
<1>1. /\ queue # <<>> /\ queue \in Seq(Results) /\ queue' = Tail(queue) /\ inHand' = Head(queue)
      /\ inHand = Nothing /\ Busy' = Busy /\ reporting' = reporting
  BY DEF Take, QueueShape, runnerVars, Busy
<1>2. InQueue(K) = Cardinality(InQueueOf(queue', K)) + One(inHand', K)
  BY <1>1, QueueMinus, ParcelsCounted
<1>3. BusyWith(K)' = BusyWith(K)
  BY <1>1 DEF BusyWith
<1>4. One(inHand, K) = 0
  BY <1>1, ResultKinds DEF One
<1>5. One(inHand', K) \in 0..1 /\ Cardinality(InQueueOf(queue', K)) \in Nat
  <2>1. Len(queue') \in Nat
    BY <1>1
  <2>2. IsFiniteSet(1..Len(queue')) /\ InQueueOf(queue', K) \subseteq 1..Len(queue')
    BY <2>1, FS_Interval DEF InQueueOf
  <2> QED
    BY <2>2, FS_Subset, FS_CardinalityType DEF One
<1> QED
  BY <1>2, <1>3, <1>4, <1>5, ParcelsCounted, UnderwayNext

\* Handling a Result takes it out of the drain's hand.
LEMMA HandleTakesAway ==
    ASSUME QueueShape, NEW K, K \subseteq Kinds, inHand' = Nothing,
           UNCHANGED <<queue, reporting>>
    PROVE  Underway(K)' + One(inHand, K) = Underway(K) /\ One(inHand, K) \in 0..1
<1>1. BusyWith(K)' = BusyWith(K) /\ One(inHand', K) = 0
  BY ResultKinds DEF BusyWith, Busy, One
<1>2. Cardinality(InQueueOf(queue', K)) = InQueue(K)
  BY ParcelsCounted
<1> QED
  BY <1>1, <1>2, ParcelsCounted, UnderwayNext

-----------------------------------------------------------------------------
(***************************************************************************)
(* The inductive invariant.                                                *)
(***************************************************************************)
\* What has become of the Results so far.
Total == SumFunction(sent) + dropped + Underway(Kinds)

\* The runner's counters: what was reported is somewhere.
Counts ==
    /\ sent \in [Kinds -> Nat] /\ dropped \in Nat /\ skipped \in Nat
    /\ Total <= MaxResults
    /\ skipped <= Total

\* Of the skips, between the two of them.
Lag ==
    /\ Observed + Underway(SkipKinds) <= skipped
    /\ skipped <= Observed + dropped + Underway(SkipKinds)

\* The types of the drain.
LoopShape ==
    /\ now \in Nat \ {0} /\ Start <= now /\ now <= Start + MaxElapsed
    /\ failures \in Nat /\ observed \in [SkipKinds -> Nat]
    /\ last \in [URLs -> Nat] /\ lines \in [URLs -> Nat]
    /\ suppressed \in [URLs -> Nat] /\ skips \in [URLs -> Nat] /\ shown \in [URLs -> Nat]

\* What the drain's counts have to do with each other.
LoopCounts ==
    /\ KindsCounted
    /\ \A u \in URLs : /\ skips[u] = shown[u] + suppressed[u]
                       /\ lines[u] <= shown[u]
                       /\ skips[u] <= SumFunction(sent)

\* The lines there were fit before the last one's stamp, which is not ahead of the clock.
Stamps ==
    \A u \in URLs :
        /\ last[u] = 0 => lines[u] = 0
        /\ last[u] # 0 => /\ Start <= last[u] /\ last[u] <= now
                          /\ lines[u] * Shortest(u) <= last[u] - Start + Shortest(u)

\* The invariant: the bounds of ResultsTold, and why the clock allows no more lines.
TelemetryInv == QueueShape /\ Counts /\ Lag /\ LoopShape /\ LoopCounts /\ Stamps

\* There are four kinds of Results, and two of skips.
LEMMA KindsFinite == IsFiniteSet(Kinds) /\ SkipKinds \subseteq Kinds
<1>1. IsFiniteSet({"queued"} \cup {"in_flight"}) /\ IsFiniteSet({"failure"} \cup {"ok"})
  BY FS_Singleton, FS_Union
<1>2. Kinds = ({"queued"} \cup {"in_flight"}) \cup ({"failure"} \cup {"ok"})
  BY DEF Kinds, SkipKinds
<1> QED
  BY <1>1, <1>2, FS_Union DEF Kinds

\* The number of Results that the drain has handled.
LEMMA SumSent == sent \in [Kinds -> Nat] => SumFunction(sent) \in Nat
  BY KindsFinite, SumType

\* The bound on the Results is a bound on what they have become.
LEMMA ReportedIsTotal == QueueShape /\ Counts => Reported = Total
<1> SUFFICES ASSUME QueueShape, Counts PROVE Reported = Total
  OBVIOUS
<1>1. InQueueOf(queue, Kinds) = 1..Len(queue)
  <2>1. \A i \in 1..Len(queue) : queue[i] \in Results
    BY DEF QueueShape
  <2> QED
    BY <2>1, ResultKinds DEF InQueueOf
<1>2. InQueue(Kinds) = Len(queue)
  <2>0. Len(queue) \in Nat
    BY DEF QueueShape
  <2>1. Cardinality(1..Len(queue)) = Len(queue)
    BY <2>0, OneTo
  <2> QED
    BY <1>1, <2>1, ParcelsCounted
<1>3. BusyWith(Kinds) = Busy
  BY ResultKinds DEF QueueShape, BusyWith, Busy
<1>4. One(inHand, Kinds) = IF inHand = Nothing THEN 0 ELSE 1
  BY ResultKinds DEF QueueShape, One
<1>5. Underway(Kinds) = Len(queue) + Cardinality(Busy) + (IF inHand = Nothing THEN 0 ELSE 1)
  BY <1>2, <1>3, <1>4, ParcelsCounted
<1> DEFINE h == IF inHand = Nothing THEN 0 ELSE 1
           s == SumFunction(sent)
           b == Cardinality(Busy)
           n == Len(queue)
<1>6. Reported = s + dropped + n + b + h /\ Total = s + dropped + (n + b + h)
  BY <1>5 DEF Reported, Total
<1>7. s \in Nat /\ n \in Nat /\ b \in Nat /\ h \in Nat /\ dropped \in Nat
  BY ParcelsCounted, SumSent DEF Counts
<1> HIDE DEF s, n, b, h
<1> QED
  BY <1>6, <1>7

\* What the runner does leaves the drain alone.
LEMMA LoopUntouched ==
    ASSUME LoopShape, LoopCounts, Stamps, UNCHANGED loopVars
    PROVE  LoopShape' /\ LoopCounts' /\ Stamps' /\ Observed' = Observed /\ sent' = sent
<1>1. UNCHANGED <<now, last, suppressed, failures, observed, sent, skips, shown, lines>>
  BY DEF loopVars, drainVars, histVars
<1>2. LoopShape'
  BY <1>1 DEF LoopShape
<1>3. LoopCounts'
  BY <1>1 DEF LoopCounts, KindsCounted
<1>4. Stamps'
  BY <1>1 DEF Stamps
<1> QED
  BY <1>1, <1>2, <1>3, <1>4 DEF Observed, Exported

\* Nothing is reported, counted or shown at the start.
LEMMA Initially == TInit => TelemetryInv
<1> SUFFICES ASSUME TInit PROVE TelemetryInv
  OBVIOUS
<1>1. Busy = {}
  BY DEF TInit, Busy
<1>2. QueueShape
  <2>1. queue \in Seq(Results) /\ Len(queue) <= Capacity
    BY TelemetryAssumption DEF TInit
  <2>2. \A w \in Workers : reporting[w].kind \notin SkipKinds
    BY ResultKinds, KindsFinite DEF TInit, Reporters
  <2> QED
    BY <2>1, <2>2 DEF QueueShape, TInit
<1>3. ASSUME NEW K, K \subseteq Kinds PROVE Underway(K) = 0
  <2>1. InQueueOf(queue, K) = {} /\ BusyWith(K) = {} /\ One(inHand, K) = 0
    <3>1. Len(queue) = 0 /\ 1..0 = {}
      BY DEF TInit
    <3>2. One(inHand, K) = 0
      BY <1>3, ResultKinds DEF TInit, One
    <3> QED
      BY <1>1, <3>1, <3>2 DEF InQueueOf, BusyWith
  <2> QED
    BY <1>2, <2>1, ParcelsCounted, FS_EmptySet
<1>4. DrainInit /\ skipped = 0 /\ dropped = 0
  BY DEF TInit
<1>5. sent \in [Kinds -> Nat] /\ SumFunction(sent) = 0 /\ \A k \in Kinds : sent[k] = 0
  <2>1. sent \in [Kinds -> Nat] /\ \A k \in Kinds : sent[k] = 0
    BY <1>4 DEF DrainInit
  <2> QED
    BY <2>1, KindsFinite, SumZero
<1>6. Underway(Kinds) = 0 /\ Underway(SkipKinds) = 0
  BY <1>3, KindsFinite
<1>7. observed \in [SkipKinds -> Nat] /\ \A k \in SkipKinds : observed[k] = 0
  BY <1>4 DEF DrainInit
<1>8. Counts /\ Lag
  <2>1. Observed = 0
    BY <1>7 DEF Observed, Exported, SkipKinds
  <2> QED
    BY <1>4, <1>5, <1>6, <2>1, DrainAssumption DEF Counts, Lag, Total
<1>9. LoopShape
  <2>1. now = Start /\ failures = 0
    BY <1>4 DEF DrainInit
  <2>2. /\ last \in [URLs -> Nat] /\ lines \in [URLs -> Nat] /\ suppressed \in [URLs -> Nat]
        /\ skips \in [URLs -> Nat] /\ shown \in [URLs -> Nat]
    BY <1>4 DEF DrainInit
  <2> QED
    BY <1>7, <2>1, <2>2, DrainAssumption DEF LoopShape
<1>10. LoopCounts
  BY <1>4, <1>5, <1>7, KindsFinite DEF LoopCounts, KindsCounted, DrainInit, Kinds
<1>11. Stamps
  BY <1>4, DrainAssumption DEF Stamps, DrainInit
<1> QED
  BY <1>2, <1>8, <1>9, <1>10, <1>11 DEF TelemetryInv

-----------------------------------------------------------------------------
(***************************************************************************)
(* The steps before the drain.                                             *)
(***************************************************************************)

\* The terms of the sums are naturals.
LEMMA Naturals ==
    ASSUME QueueShape, Counts, LoopShape
    PROVE  /\ SumFunction(sent) \in Nat /\ dropped \in Nat /\ skipped \in Nat
           /\ Underway(Kinds) \in Nat /\ Underway(SkipKinds) \in Nat /\ Observed \in Nat
           /\ Total = SumFunction(sent) + dropped + Underway(Kinds)
           /\ MaxResults \in Nat
<1>1. Observed \in Nat
  BY DEF LoopShape, Observed, Exported, SkipKinds
<1> QED
  BY <1>1, SumSent, ParcelsCounted, DrainAssumption DEF Counts, Total

\* A Result begins its way: a skip is counted as it does.
LEMMA BeginStep ==
    ASSUME TelemetryInv, NEW p \in Reporters, NEW r \in Results, Begin(p, r),
           p = "scheduler" \/ r.kind \notin SkipKinds,
           skipped' = skipped + One(r, SkipKinds),
           UNCHANGED <<loopVars, dropped, full, queue, inHand>>
    PROVE  TelemetryInv'
<1>0. QueueShape /\ Counts /\ Lag /\ LoopShape
  BY DEF TelemetryInv
<1>1. LoopShape' /\ LoopCounts' /\ Stamps' /\ Observed' = Observed /\ sent' = sent
  BY LoopUntouched DEF TelemetryInv
<1>2. reporting[p] = Nothing /\ reporting' = [reporting EXCEPT ![p] = r] /\ Total < MaxResults
  BY <1>0, ReportedIsTotal DEF Begin
<1>3. QueueShape'
  <2>1. reporting' \in [Reporters -> Results \cup {Nothing}]
    BY <1>0, <1>2 DEF QueueShape
  <2>2. reporting'[p] = r /\ \A q \in Reporters : q # p => reporting'[q] = reporting[q]
    BY <1>0, <1>2 DEF QueueShape
  <2>3. Busy' = Busy \cup {p}
    BY <1>2, <2>2, ResultKinds DEF Busy
  <2>4. \A w \in Workers : reporting'[w].kind \notin SkipKinds
    BY <1>0, <2>2, TelemetryAssumption DEF QueueShape, Reporters
  <2> QED
    BY <1>0, <2>1, <2>3, <2>4 DEF QueueShape
<1>4. /\ Underway(Kinds)' = Underway(Kinds) + 1
      /\ Underway(SkipKinds)' = Underway(SkipKinds) + One(r, SkipKinds)
      /\ One(r, SkipKinds) \in 0..1
  <2>1. One(r, Kinds) = 1 /\ One(r, SkipKinds) \in 0..1
    BY ResultKinds DEF One
  <2> QED
    BY <1>0, <1>2, <2>1, Begun, KindsFinite
<1>5. Total' = Total + 1
  BY <1>0, <1>1, <1>4, Naturals DEF Total
<1>6. Counts' /\ Lag'
  <2> DEFINE o == Observed
             u == Underway(SkipKinds)
             d == One(r, SkipKinds)
             s == skipped
             t == Total
  <2>1. o \in Nat /\ u \in Nat /\ d \in 0..1 /\ s \in Nat /\ t \in Nat /\ dropped \in Nat
    BY <1>0, <1>4, Naturals
  <2>2. o + u <= s /\ s <= o + dropped + u /\ s <= t /\ t < MaxResults /\ MaxResults \in Nat
    BY <1>0, <1>2, DrainAssumption DEF Lag, Counts
  <2>3. Observed' = o /\ Underway(SkipKinds)' = u + d /\ skipped' = s + d /\ Total' = t + 1
        /\ dropped' = dropped
    BY <1>1, <1>4, <1>5
  <2> HIDE DEF o, u, d, s, t
  <2>4. /\ o + (u + d) <= s + d /\ s + d <= o + dropped + (u + d)
        /\ s + d <= t + 1 /\ t + 1 <= MaxResults /\ s + d \in Nat
    BY <2>1, <2>2
  <2>5. Counts'
    BY <1>0, <1>1, <2>1, <2>3, <2>4 DEF Counts
  <2> QED
    BY <2>3, <2>4, <2>5 DEF Lag
<1> QED
  BY <1>1, <1>3, <1>6 DEF TelemetryInv

\* The scheduler counts a skip and reports it.
LEMMA SkipStep == TelemetryInv /\ Skip => TelemetryInv'
<1> SUFFICES ASSUME TelemetryInv, Skip PROVE TelemetryInv'
  OBVIOUS
<1>1. PICK r \in Skips : Begin("scheduler", r)
  BY DEF Skip
<1>2. r \in Results /\ One(r, SkipKinds) = 1 /\ "scheduler" \in Reporters
  BY ResultKinds DEF One, Reporters
<1> QED
  BY <1>1, <1>2, BeginStep DEF Skip

\* A worker reports the end of a run.
LEMMA RunEndsStep ==
    ASSUME TelemetryInv, NEW w \in Workers, RunEnds(w)
    PROVE  TelemetryInv'
<1>1. PICK r \in Ends : Begin(w, r)
  BY DEF RunEnds
<1>2. /\ r \in Results /\ r.kind \notin SkipKinds /\ One(r, SkipKinds) = 0
      /\ w \in Reporters /\ skipped' = skipped /\ skipped \in Nat
  BY ResultKinds DEF One, Reporters, RunEnds, TelemetryInv, Counts
<1>3. skipped' = skipped + One(r, SkipKinds)
  BY <1>2
<1> QED
  BY <1>1, <1>2, <1>3, BeginStep DEF RunEnds

\* A Result moves on: from a goroutine into the channel, from there to the drain.
LEMMA MoveStep ==
    ASSUME TelemetryInv, QueueShape', UNCHANGED <<loopVars, skipped, dropped>>,
           \A K \in SUBSET Kinds : Underway(K)' = Underway(K)
    PROVE  TelemetryInv'
<1>1. LoopShape' /\ LoopCounts' /\ Stamps' /\ Observed' = Observed /\ sent' = sent
  BY LoopUntouched DEF TelemetryInv
<1>2. Underway(Kinds)' = Underway(Kinds) /\ Underway(SkipKinds)' = Underway(SkipKinds)
  BY KindsFinite
<1>3. Counts' /\ Lag'
  BY <1>1, <1>2 DEF TelemetryInv, Counts, Lag, Total
<1> QED
  BY <1>1, <1>3 DEF TelemetryInv

\* A Result that goes into the channel is still under way.
LEMMA SendStep ==
    ASSUME TelemetryInv, NEW p \in Reporters, Send(p)
    PROVE  TelemetryInv'
<1>0. QueueShape
  BY DEF TelemetryInv
<1>1. QueueShape'
  <2>1. CASE Len(queue) < Capacity
    <3>1. /\ p \in Busy \ full /\ queue' = Append(queue, reporting[p])
          /\ reporting' = [reporting EXCEPT ![p] = Nothing] /\ UNCHANGED <<full, inHand>>
      BY <2>1 DEF Send
    <3>2. reporting[p] \in Results /\ Busy' = Busy \ {p}
      BY <1>0, <3>1, Ended, KindsFinite
    <3>3. queue' \in Seq(Results) /\ Len(queue') <= Capacity
      <4>1. queue \in Seq(Results) /\ Len(queue) \in Nat /\ Capacity \in Nat
        BY <1>0, TelemetryAssumption DEF QueueShape
      <4> QED
        BY <2>1, <3>1, <3>2, <4>1
    <3>4. /\ reporting' \in [Reporters -> Results \cup {Nothing}]
          /\ \A w \in Workers : reporting'[w] = Nothing \/ reporting'[w] = reporting[w]
      BY <1>0, <3>1 DEF QueueShape, Reporters
    <3>5. \A w \in Workers : reporting'[w].kind \notin SkipKinds
      BY <1>0, <3>4, ResultKinds, KindsFinite DEF QueueShape
    <3> QED
      BY <1>0, <3>1, <3>2, <3>3, <3>4, <3>5 DEF QueueShape
  <2>2. CASE ~ (Len(queue) < Capacity)
    <3>1. p \in Busy /\ full' = full \cup {p} /\ UNCHANGED <<queue, reporting, inHand>>
      BY <2>2 DEF Send
    <3> QED
      BY <1>0, <3>1 DEF QueueShape, Busy
  <2> QED
    BY <2>1, <2>2
<1>2. \A K \in SUBSET Kinds : Underway(K)' = Underway(K)
  BY <1>0, SendMoves
<1>3. UNCHANGED <<loopVars, skipped, dropped>>
  BY DEF Send
<1> QED
  BY <1>1, <1>2, <1>3, MoveStep

\* A Result in the drain's hand is still under way.
LEMMA TakeStep == TelemetryInv /\ Take => TelemetryInv'
<1> SUFFICES ASSUME TelemetryInv, Take PROVE TelemetryInv'
  OBVIOUS
<1>0. QueueShape
  BY DEF TelemetryInv
<1>1. QueueShape'
  <2>1. /\ queue # <<>> /\ queue' = Tail(queue) /\ inHand' = Head(queue)
        /\ UNCHANGED <<reporting, full>>
    BY DEF Take, runnerVars
  <2>2. queue \in Seq(Results) /\ Len(queue) <= Capacity /\ Capacity \in Nat
    BY <1>0, TelemetryAssumption DEF QueueShape
  <2>3. queue' \in Seq(Results) /\ Len(queue') <= Capacity /\ inHand' \in Results
    BY <2>1, <2>2
  <2> QED
    BY <1>0, <2>1, <2>3 DEF QueueShape, Busy
<1>2. \A K \in SUBSET Kinds : Underway(K)' = Underway(K)
  BY <1>0, TakeMoves
<1>3. UNCHANGED <<loopVars, skipped, dropped>>
  BY DEF Take, runnerVars
<1> QED
  BY <1>1, <1>2, <1>3, MoveStep

\* A Result is lost: the counter that says so is what the drain may lag by.
LEMMA DropStep ==
    ASSUME TelemetryInv, NEW p \in Reporters, Drop(p)
    PROVE  TelemetryInv'
<1>0. QueueShape /\ Counts /\ Lag /\ LoopShape
  BY DEF TelemetryInv
<1>1. LoopShape' /\ LoopCounts' /\ Stamps' /\ Observed' = Observed /\ sent' = sent
  BY LoopUntouched DEF TelemetryInv, Drop
<1>2. /\ p \in full /\ p \in Busy /\ full' = full \ {p}
      /\ reporting' = [reporting EXCEPT ![p] = Nothing]
      /\ dropped' = dropped + 1 /\ UNCHANGED <<skipped, queue, inHand>>
  BY <1>0 DEF Drop, QueueShape
<1>3. QueueShape'
  <2>1. Busy' = Busy \ {p}
    BY <1>0, <1>2, Ended, KindsFinite
  <2>2. /\ reporting' \in [Reporters -> Results \cup {Nothing}]
        /\ \A w \in Workers : reporting'[w] = Nothing \/ reporting'[w] = reporting[w]
    BY <1>0, <1>2 DEF QueueShape, Reporters
  <2>3. \A w \in Workers : reporting'[w].kind \notin SkipKinds
    BY <1>0, <2>2, ResultKinds, KindsFinite DEF QueueShape
  <2> QED
    BY <1>0, <1>2, <2>1, <2>2, <2>3 DEF QueueShape
<1>4. /\ Underway(Kinds)' + 1 = Underway(Kinds)
      /\ Underway(SkipKinds)' + One(reporting[p], SkipKinds) = Underway(SkipKinds)
      /\ One(reporting[p], SkipKinds) \in 0..1
  <2>1. reporting[p] \in Results /\ Underway(Kinds)' + One(reporting[p], Kinds) = Underway(Kinds)
    BY <1>0, DropTakesAway
  <2>2. One(reporting[p], Kinds) = 1
    BY <2>1, ResultKinds DEF One
  <2> QED
    BY <1>0, <2>1, <2>2, DropTakesAway, KindsFinite
<1>n. Underway(Kinds)' \in Nat /\ Underway(SkipKinds)' \in Nat
  <2>1. ASSUME NEW K PROVE Underway(K)' \in Nat
    <3>1. IsFiniteSet(1..Len(queue')) /\ InQueueOf(queue', K) \subseteq 1..Len(queue')
      BY <1>0, <1>2, ParcelsCounted, FS_Interval DEF InQueueOf
    <3>2. Busy' \subseteq Busy /\ BusyWith(K)' \subseteq Busy'
      BY <1>0, <1>2, Ended, KindsFinite DEF BusyWith
    <3>3. IsFiniteSet(BusyWith(K)') /\ IsFiniteSet(InQueueOf(queue', K))
      BY <1>0, <3>1, <3>2, ParcelsCounted, FS_Subset
    <3>4. One(inHand', K) \in Nat
      BY DEF One
    <3> QED
      BY <3>3, <3>4, FS_CardinalityType, UnderwayNext
  <2> QED
    BY <2>1
<1>5. Total' = Total
  <2> DEFINE s == SumFunction(sent)
             a == Underway(Kinds)
             b == Underway(Kinds)'
  <2>1. s \in Nat /\ a \in Nat /\ b \in Nat /\ dropped \in Nat /\ b + 1 = a
    BY <1>0, <1>4, <1>n, Naturals
  <2>2. Total = s + dropped + a /\ Total' = s + (dropped + 1) + b
    BY <1>1, <1>2 DEF Total
  <2> HIDE DEF s, a, b
  <2> QED
    BY <2>1, <2>2
<1>6. Counts'
  BY <1>0, <1>1, <1>2, <1>5 DEF Counts
<1>7. Lag'
  <2> DEFINE o == Observed
             a == Underway(SkipKinds)
             b == Underway(SkipKinds)'
             d == One(reporting[p], SkipKinds)
  <2>1. /\ o \in Nat /\ a \in Nat /\ b \in Nat /\ dropped \in Nat /\ skipped \in Nat
        /\ b + d = a /\ d \in 0..1 /\ o + a <= skipped /\ skipped <= o + dropped + a
    BY <1>0, <1>4, <1>n, Naturals DEF Lag
  <2>2. Observed' = o /\ Underway(SkipKinds)' = b /\ skipped' = skipped /\ dropped' = dropped + 1
    BY <1>1, <1>2
  <2> HIDE DEF o, a, b, d
  <2>3. o + b <= skipped /\ skipped <= o + (dropped + 1) + b
    BY <2>1
  <2> QED
    BY <2>2, <2>3 DEF Lag
<1> QED
  BY <1>1, <1>3, <1>6, <1>7 DEF TelemetryInv

-----------------------------------------------------------------------------
(***************************************************************************)
(* The clock, and the lines it allows.                                     *)
(***************************************************************************)

\* The shortest window among the targets that share a URL.
LEMMA ShortestIs ==
    ASSUME NEW u \in URLs
    PROVE  /\ Shortest(u) \in Nat \ {0}
           /\ \A t \in Targets : URL[t] = u => Shortest(u) <= Cadence(t) /\ Cadence(t) = Window(t)
<1> DEFINE C == {Cadence(t) : t \in {x \in Targets : URL[x] = u}}
<1>1. \A t \in Targets : Cadence(t) \in Nat \ {0} /\ Cadence(t) = Window(t)
  <2> TAKE t \in Targets
  <2>1. Interval[t] \in Nat /\ Default \in Nat \ {0}
    BY DrainAssumption
  <2> QED
    BY <2>1 DEF Cadence, Window
<1>2. C \subseteq Nat \ {0} /\ C # {}
  BY <1>1 DEF URLs
<1>3. \E x \in C : \A y \in C : x <= y
  BY <1>2, LeastElement
<1>4. Min(C) \in C /\ \A y \in C : Min(C) <= y
  BY <1>3 DEF Min
<1>5. Shortest(u) = Min(C)
  BY DEF Shortest
<1>6. \A t \in Targets : URL[t] = u => Cadence(t) \in C
  OBVIOUS
<1> QED
  BY <1>1, <1>2, <1>4, <1>5, <1>6

\* Products, for the solver.
LEMMA OnceMore == \A a, b \in Nat : a * (b + 1) = a * b + a /\ (b + 1) * a = b * a + a /\ a * b \in Nat
  OBVIOUS

\* Time passes.
LEMMA ClockStep == TelemetryInv /\ Clock => TelemetryInv'
<1> SUFFICES ASSUME TelemetryInv, Clock PROVE TelemetryInv'
  OBVIOUS
<1>0. QueueShape /\ Counts /\ Lag /\ LoopShape /\ LoopCounts /\ Stamps
  BY DEF TelemetryInv
<1>1. /\ UNCHANGED <<last, suppressed, failures, observed, sent, skips, shown, lines,
                     skipped, dropped, reporting, full, queue, inHand>>
      /\ now < Start + MaxElapsed /\ now' = now + 1
  BY DEF Clock, TimePasses, drainVars, histVars, runnerVars
<1>2. QueueShape'
  BY <1>0, <1>1 DEF QueueShape, Busy
<1>3. Underway(Kinds)' = Underway(Kinds) /\ Underway(SkipKinds)' = Underway(SkipKinds)
  BY <1>1 DEF Underway, InQueue, Busy
<1>4. Counts' /\ Lag'
  BY <1>0, <1>1, <1>3 DEF Counts, Lag, Total, Observed, Exported
<1>5. LoopCounts'
  BY <1>0, <1>1 DEF LoopCounts, KindsCounted
<1>6. now' \in Nat \ {0} /\ Start <= now' /\ now' <= Start + MaxElapsed
  BY <1>0, <1>1, DrainAssumption DEF LoopShape
<1>7. LoopShape'
  BY <1>0, <1>1, <1>6 DEF LoopShape
<1>8. Stamps'
  <2>1. \A u \in URLs : last[u] # 0 => last[u] <= now'
    <3> TAKE u \in URLs
    <3>1. last[u] \in Nat /\ now \in Nat /\ (last[u] # 0 => last[u] <= now)
      BY <1>0 DEF LoopShape, Stamps
    <3> QED
      BY <1>1, <3>1
  <2>2. \A u \in URLs : Shortest(u)' = Shortest(u)
    BY DEF Shortest, Cadence
  <2> QED
    BY <1>0, <1>1, <2>1, <2>2 DEF Stamps
<1> QED
  BY <1>2, <1>4, <1>5, <1>7, <1>8 DEF TelemetryInv

-----------------------------------------------------------------------------
(***************************************************************************)
(* An iteration of the drain.                                              *)
(***************************************************************************)

\* The drain tells the two skips apart.
LEMMA KindIs == \A k \in SkipKinds : Kind(k) = k
  BY DEF Kind, Chain, SkipKinds

\* A Result is counted as it leaves the channel.
LEMMA Received ==
    ASSUME sent \in [Kinds -> Nat], NEW k \in Kinds, Receive(k)
    PROVE  /\ sent' \in [Kinds -> Nat] /\ SumFunction(sent) \in Nat
           /\ SumFunction(sent') = SumFunction(sent) + 1
           /\ sent'[k] = sent[k] + 1 /\ \A j \in Kinds : j # k => sent'[j] = sent[j]
<1>1. /\ sent' \in [Kinds -> Nat] /\ sent'[k] = sent[k] + 1
      /\ \A j \in Kinds : j # k => sent'[j] = sent[j]
  BY DEF Receive, Plus
<1>2. SumFunction(sent) \in Nat /\ SumFunction(sent') \in Nat
  BY <1>1, KindsFinite, SumType
<1>3. SumFunction(sent') + sent[k] = SumFunction(sent) + sent'[k]
  BY <1>1, KindsFinite, SumPlus
<1>4. sent[k] \in Nat
  OBVIOUS
<1> QED
  BY <1>1, <1>2, <1>3, <1>4

\* What the drain counts a Result as.
LEMMA Iterates ==
    ASSUME LoopShape, LoopCounts, sent \in [Kinds -> Nat], NEW t, NEW k \in Kinds, Iteration(t, k)
    PROVE  /\ Receive(k) /\ KindsCounted'
           /\ observed' \in [SkipKinds -> Nat] /\ failures' \in Nat
           /\ Observed' = Observed + (IF k \in SkipKinds THEN 1 ELSE 0)
           /\ UNCHANGED now
<1>1. Receive(k) /\ UNCHANGED now
  BY DEF Iteration, NotASkip, Suppress, PrintLine
<1>2. sent'[k] = sent[k] + 1 /\ \A j \in Kinds : j # k => sent'[j] = sent[j]
  BY <1>1, Received
<1>3. CASE k \notin SkipKinds
  <2>1. observed' = observed /\ failures' = failures + (IF k = "failure" THEN 1 ELSE 0)
    BY <1>3 DEF Iteration, NotASkip, Suppress, PrintLine
  <2>2. failures' \in Nat /\ failures' = sent'["failure"]
    <3>1. failures \in Nat /\ failures = sent["failure"] /\ "failure" \in Kinds
      BY DEF LoopShape, LoopCounts, KindsCounted, Kinds
    <3>2. CASE k = "failure"
      BY <1>2, <2>1, <3>1, <3>2
    <3>3. CASE k # "failure"
      BY <1>2, <2>1, <3>1, <3>3
    <3> QED
      BY <3>2, <3>3
  <2>3. \A j \in SkipKinds : observed'[j] = sent'[j]
    BY <1>2, <1>3, <2>1, KindsFinite DEF LoopCounts, KindsCounted
  <2>4. Observed' = Observed /\ Observed \in Nat
    BY <2>1 DEF Observed, Exported, LoopShape, SkipKinds
  <2> QED
    BY <1>1, <1>3, <2>1, <2>2, <2>3, <2>4 DEF KindsCounted, LoopShape
<1>4. CASE k \in SkipKinds
  <2>1. observed' = [observed EXCEPT ![k] = observed[k] + 1] /\ failures' = failures
    BY <1>4, KindIs DEF Iteration, NotASkip, Suppress, PrintLine, Observe, Plus
  <2>2. observed \in [SkipKinds -> Nat] /\ failures \in Nat
    BY DEF LoopShape
  <2>3. /\ observed' \in [SkipKinds -> Nat] /\ observed'[k] = observed[k] + 1
        /\ \A j \in SkipKinds : j # k => observed'[j] = observed[j]
    BY <1>4, <2>1, <2>2
  <2>4. KindsCounted'
    <3>1. k # "failure" /\ "failure" \in Kinds
      BY <1>4 DEF SkipKinds, Kinds
    <3>2. failures' = sent'["failure"]
      BY <1>2, <2>1, <3>1 DEF LoopCounts, KindsCounted
    <3>3. \A j \in SkipKinds : observed'[j] = sent'[j]
      BY <1>2, <1>4, <2>3, KindsFinite DEF LoopCounts, KindsCounted
    <3> QED
      BY <3>2, <3>3 DEF KindsCounted
  <2>5. Observed' = Observed + 1
    <3>1. Observed = observed["queued"] + observed["in_flight"]
          /\ Observed' = observed'["queued"] + observed'["in_flight"]
      BY DEF Observed, Exported
    <3>2. k \in {"queued", "in_flight"} /\ observed["queued"] \in Nat /\ observed["in_flight"] \in Nat
      BY <1>4, <2>2 DEF SkipKinds
    <3>3. CASE k = "queued"
      BY <2>3, <3>1, <3>2, <3>3 DEF SkipKinds
    <3>4. CASE k = "in_flight"
      BY <2>3, <3>1, <3>2, <3>4 DEF SkipKinds
    <3> QED
      BY <3>2, <3>3, <3>4
  <2> QED
    BY <1>1, <1>4, <2>1, <2>2, <2>3, <2>4, <2>5
<1> QED
  BY <1>3, <1>4

\* Whatever the drain makes of a Result, it counts it once.
LEMMA HandleCounts ==
    ASSUME TelemetryInv, Handle
    PROVE  /\ QueueShape' /\ Counts' /\ Lag'
           /\ inHand.kind \in Kinds /\ Iteration(inHand.target, inHand.kind)
           /\ inHand.kind \in SkipKinds => inHand.target \in Targets
<1> DEFINE k == inHand.kind
<1>0. QueueShape /\ Counts /\ Lag /\ LoopShape /\ LoopCounts
  BY DEF TelemetryInv
<1>1. /\ inHand \in Results /\ Iteration(inHand.target, k) /\ inHand' = Nothing
      /\ UNCHANGED <<skipped, dropped, reporting, full, queue>>
  BY <1>0 DEF Handle, QueueShape, runnerVars
<1>2. k \in Kinds /\ (k \in SkipKinds => inHand.target \in Targets)
  BY <1>1, ResultKinds DEF Results
<1>3. QueueShape'
  BY <1>0, <1>1 DEF QueueShape, Busy
<1>4. /\ sent \in [Kinds -> Nat] /\ Receive(k)
      /\ Observed' = Observed + (IF k \in SkipKinds THEN 1 ELSE 0)
  BY <1>0, <1>1, <1>2, Iterates DEF Counts
<1>5. /\ sent' \in [Kinds -> Nat] /\ SumFunction(sent) \in Nat
      /\ SumFunction(sent') = SumFunction(sent) + 1
  BY <1>2, <1>4, Received
<1>6. /\ Underway(Kinds)' + 1 = Underway(Kinds)
      /\ Underway(SkipKinds)' + One(inHand, SkipKinds) = Underway(SkipKinds)
      /\ One(inHand, SkipKinds) \in 0..1
      /\ One(inHand, SkipKinds) = IF k \in SkipKinds THEN 1 ELSE 0
  <2>1. One(inHand, Kinds) = 1
    BY <1>2 DEF One
  <2> QED
    BY <1>0, <1>1, <2>1, HandleTakesAway, KindsFinite DEF One
<1>7. Underway(Kinds)' \in Nat /\ Underway(SkipKinds)' \in Nat
  <2>1. ASSUME NEW K PROVE Underway(K)' \in Nat
    <3>1. BusyWith(K)' = BusyWith(K) /\ InQueueOf(queue', K) = InQueueOf(queue, K)
      BY <1>1 DEF BusyWith, Busy
    <3>2. One(inHand', K) \in Nat
      BY DEF One
    <3> QED
      BY <1>0, <3>1, <3>2, ParcelsCounted, FS_CardinalityType, UnderwayNext
  <2> QED
    BY <2>1
<1>8. Total' = Total
  <2> DEFINE s == SumFunction(sent)
             a == Underway(Kinds)
             b == Underway(Kinds)'
  <2>1. s \in Nat /\ a \in Nat /\ b \in Nat /\ dropped \in Nat /\ b + 1 = a
    BY <1>0, <1>6, <1>7, Naturals
  <2>2. Total = s + dropped + a /\ Total' = (s + 1) + dropped + b
    BY <1>1, <1>5 DEF Total
  <2> HIDE DEF s, a, b
  <2> QED
    BY <2>1, <2>2
<1>9. Counts'
  BY <1>0, <1>1, <1>5, <1>8 DEF Counts
<1>10. Lag'
  <2> DEFINE o == Observed
             a == Underway(SkipKinds)
             b == Underway(SkipKinds)'
             d == One(inHand, SkipKinds)
  <2>1. /\ o \in Nat /\ a \in Nat /\ b \in Nat /\ dropped \in Nat /\ skipped \in Nat
        /\ b + d = a /\ d \in 0..1 /\ o + a <= skipped /\ skipped <= o + dropped + a
    BY <1>0, <1>6, <1>7, Naturals DEF Lag
  <2>2. Observed' = o + d /\ Underway(SkipKinds)' = b /\ skipped' = skipped /\ dropped' = dropped
    BY <1>1, <1>4, <1>6
  <2> HIDE DEF o, a, b, d
  <2>3. (o + d) + b <= skipped /\ skipped <= (o + d) + dropped + b
    BY <2>1
  <2> QED
    BY <2>2, <2>3 DEF Lag
<1> QED
  BY <1>1, <1>2, <1>3, <1>9, <1>10

\* A counter that is kept per target or URL goes up.
LEMMA OneUp ==
    ASSUME NEW D, NEW f \in [D -> Nat], NEW x \in D, NEW n \in Nat
    PROVE  /\ Plus(f, x, n) \in [D -> Nat] /\ Plus(f, x, n)[x] = f[x] + n
           /\ \A y \in D : y # x => Plus(f, x, n)[y] = f[y]
  BY DEF Plus

\* A failure or a success: counted, no line of a skip.
LEMMA NoSkipStep ==
    ASSUME TelemetryInv, Handle, NotASkip(inHand.kind)
    PROVE  TelemetryInv'
<1>0. LoopShape /\ LoopCounts /\ Stamps /\ Counts
  BY DEF TelemetryInv
<1>1. /\ QueueShape' /\ Counts' /\ Lag'
      /\ inHand.kind \in Kinds /\ Iteration(inHand.target, inHand.kind)
  BY HandleCounts
<1>2. /\ Receive(inHand.kind) /\ KindsCounted' /\ observed' \in [SkipKinds -> Nat]
      /\ failures' \in Nat
  BY <1>0, <1>1, Iterates DEF Counts
<1>3. UNCHANGED <<now, last, suppressed, skips, shown, lines>>
  BY DEF NotASkip
<1>4. LoopShape'
  BY <1>0, <1>2, <1>3 DEF LoopShape
<1>5. SumFunction(sent) \in Nat /\ SumFunction(sent') = SumFunction(sent) + 1
  BY <1>0, <1>1, <1>2, Received DEF Counts
<1>6. LoopCounts'
  <2>1. \A u \in URLs : skips[u] <= SumFunction(sent')
    BY <1>0, <1>5 DEF LoopCounts, LoopShape
  <2> QED
    BY <1>0, <1>2, <1>3, <2>1 DEF LoopCounts
<1>7. Stamps'
  BY <1>0, <1>3 DEF Stamps
<1> QED
  BY <1>1, <1>4, <1>6, <1>7 DEF TelemetryInv

\* A skip that is not printed.
LEMMA SuppressStep ==
    ASSUME TelemetryInv, Handle, Suppress(inHand.target, inHand.kind)
    PROVE  TelemetryInv'
<1> DEFINE t == inHand.target
           v == URL[t]
<1>0. LoopShape /\ LoopCounts /\ Stamps /\ Counts
  BY DEF TelemetryInv
<1>1. /\ QueueShape' /\ Counts' /\ Lag'
      /\ inHand.kind \in Kinds /\ Iteration(t, inHand.kind) /\ t \in Targets /\ v \in URLs
  BY HandleCounts DEF Suppress, URLs
<1>2. /\ Receive(inHand.kind) /\ KindsCounted' /\ observed' \in [SkipKinds -> Nat]
      /\ failures' \in Nat
  BY <1>0, <1>1, Iterates DEF Counts
<1>3. UNCHANGED <<now, last, shown, lines>>
  BY DEF Suppress
<1>4. suppressed' = Plus(suppressed, v, 1) /\ skips' = Plus(skips, v, 1)
  BY DEF Suppress
<1>5. /\ suppressed \in [URLs -> Nat] /\ skips \in [URLs -> Nat] /\ shown \in [URLs -> Nat]
  BY <1>0 DEF LoopShape
<1> HIDE DEF v, t
<1>6. /\ suppressed' \in [URLs -> Nat] /\ suppressed'[v] = suppressed[v] + 1
      /\ \A u \in URLs : u # v => suppressed'[u] = suppressed[u]
  <2>1. v \in URLs /\ suppressed \in [URLs -> Nat] /\ suppressed' = Plus(suppressed, v, 1) /\ 1 \in Nat
    BY <1>1, <1>4, <1>5
  <2> QED
    BY <2>1, OneUp
<1>7. /\ skips' \in [URLs -> Nat] /\ skips'[v] = skips[v] + 1
      /\ \A u \in URLs : u # v => skips'[u] = skips[u]
  <2>1. v \in URLs /\ skips \in [URLs -> Nat] /\ skips' = Plus(skips, v, 1) /\ 1 \in Nat
    BY <1>1, <1>4, <1>5
  <2> QED
    BY <2>1, OneUp
<1>8. LoopShape'
  BY <1>0, <1>2, <1>3, <1>6, <1>7 DEF LoopShape
<1>9. SumFunction(sent) \in Nat /\ SumFunction(sent') = SumFunction(sent) + 1
  BY <1>0, <1>1, <1>2, Received DEF Counts
<1>10. LoopCounts'
  <2>1. ASSUME NEW u \in URLs
        PROVE  /\ skips'[u] = shown[u] + suppressed'[u] /\ lines[u] <= shown[u]
               /\ skips'[u] <= SumFunction(sent')
    <3>1. /\ skips[u] = shown[u] + suppressed[u] /\ lines[u] <= shown[u]
          /\ skips[u] <= SumFunction(sent)
          /\ skips[u] \in Nat /\ shown[u] \in Nat /\ suppressed[u] \in Nat
      BY <1>0, <1>5 DEF LoopCounts
    <3>2. CASE u = v
      <4>1. skips'[u] = skips[u] + 1 /\ suppressed'[u] = suppressed[u] + 1
        BY <1>6, <1>7, <3>2
      <4> QED
        BY <1>9, <3>1, <4>1
    <3>3. CASE u # v
      <4>1. skips'[u] = skips[u] /\ suppressed'[u] = suppressed[u]
        BY <1>6, <1>7, <3>3
      <4> QED
        BY <1>9, <3>1, <4>1
    <3> QED
      BY <3>2, <3>3
  <2> QED
    BY <1>2, <1>3, <2>1 DEF LoopCounts
<1>11. Stamps'
  BY <1>0, <1>3 DEF Stamps
<1> QED
  BY <1>1, <1>8, <1>10, <1>11 DEF TelemetryInv

\* The line that is due: a window passed since the last one.
LEMMA LineAllowed ==
    ASSUME LoopShape, Stamps, NEW t \in Targets, ~Silent(t)
    PROVE  (lines[URL[t]] + 1) * Shortest(URL[t]) <= now - Start + Shortest(URL[t])
<1> DEFINE v == URL[t]
           S == Shortest(v)
           a == lines[v] * S
<1>1. v \in URLs
  BY DEF URLs
<1>2. /\ S \in Nat \ {0} /\ S <= Window(t) /\ Window(t) \in Nat /\ lines[v] \in Nat
      /\ last[v] \in Nat /\ now \in Nat /\ Start \in Nat /\ Start <= now
  <2>1. Interval[t] \in Nat /\ Default \in Nat
    BY DrainAssumption
  <2> QED
    BY <1>1, <2>1, ShortestIs, DrainAssumption DEF LoopShape, Window
<1>3. (lines[v] + 1) * S = a + S /\ a \in Nat
  <2> HIDE DEF S, v
  <2> QED
    BY <1>2, OnceMore
<1>4. CASE last[v] = 0
  <2>1. lines[v] = 0
    BY <1>1, <1>4 DEF Stamps
  <2>2. a = 0
    BY <1>2, <2>1
  <2> HIDE DEF S, a, v
  <2> QED
    BY <1>2, <1>3, <2>2 DEF v, S
<1>5. CASE last[v] # 0
  <2>1. last[v] <= now /\ Start <= last[v] /\ a <= last[v] - Start + S
    BY <1>1, <1>5 DEF Stamps
  <2>2. now - last[v] >= Window(t)
    BY <1>2, <1>5, <2>1 DEF Silent
  <2> HIDE DEF S, a, v
  <2>3. a + S <= now - Start + S
    BY <1>2, <1>3, <2>1, <2>2
  <2> QED
    BY <1>3, <2>3 DEF v, S
<1> QED
  BY <1>4, <1>5

\* A line is printed, for the skip at hand and those suppressed before it.
LEMMA PrintStep ==
    ASSUME TelemetryInv, Handle, PrintLine(inHand.target, inHand.kind)
    PROVE  TelemetryInv'
<1> DEFINE t == inHand.target
           v == URL[t]
<1>0. LoopShape /\ LoopCounts /\ Stamps /\ Counts
  BY DEF TelemetryInv
<1>1. /\ QueueShape' /\ Counts' /\ Lag'
      /\ inHand.kind \in Kinds /\ Iteration(t, inHand.kind) /\ t \in Targets /\ v \in URLs
  BY HandleCounts DEF PrintLine, URLs
<1>2. /\ Receive(inHand.kind) /\ KindsCounted' /\ observed' \in [SkipKinds -> Nat]
      /\ failures' \in Nat
  BY <1>0, <1>1, Iterates DEF Counts
<1>3. UNCHANGED now /\ ~Silent(t)
  BY DEF PrintLine
<1>4. /\ last' = [last EXCEPT ![v] = now] /\ suppressed' = [suppressed EXCEPT ![v] = 0]
      /\ skips' = Plus(skips, v, 1) /\ lines' = Plus(lines, v, 1)
      /\ shown' = Plus(shown, v, 1 + suppressed[v])
  BY DEF PrintLine
<1>5. /\ suppressed \in [URLs -> Nat] /\ skips \in [URLs -> Nat] /\ shown \in [URLs -> Nat]
      /\ lines \in [URLs -> Nat] /\ last \in [URLs -> Nat]
      /\ now \in Nat \ {0} /\ Start \in Nat /\ Start <= now
  BY <1>0, DrainAssumption DEF LoopShape
<1> HIDE DEF v, t
<1>6. /\ skips' \in [URLs -> Nat] /\ skips'[v] = skips[v] + 1
      /\ \A u \in URLs : u # v => skips'[u] = skips[u]
  <2>1. v \in URLs /\ skips \in [URLs -> Nat] /\ skips' = Plus(skips, v, 1) /\ 1 \in Nat
    BY <1>1, <1>4, <1>5
  <2> QED
    BY <2>1, OneUp
<1>7. /\ lines' \in [URLs -> Nat] /\ lines'[v] = lines[v] + 1
      /\ \A u \in URLs : u # v => lines'[u] = lines[u]
  <2>1. v \in URLs /\ lines \in [URLs -> Nat] /\ lines' = Plus(lines, v, 1) /\ 1 \in Nat
    BY <1>1, <1>4, <1>5
  <2> QED
    BY <2>1, OneUp
<1>8. /\ shown' \in [URLs -> Nat] /\ shown'[v] = shown[v] + (1 + suppressed[v])
      /\ \A u \in URLs : u # v => shown'[u] = shown[u]
  <2>1. /\ v \in URLs /\ shown \in [URLs -> Nat] /\ 1 + suppressed[v] \in Nat
        /\ shown' = Plus(shown, v, 1 + suppressed[v])
    BY <1>1, <1>4, <1>5
  <2> QED
    BY <2>1, OneUp
<1>9. /\ last' \in [URLs -> Nat] /\ last'[v] = now /\ \A u \in URLs : u # v => last'[u] = last[u]
      /\ suppressed' \in [URLs -> Nat] /\ suppressed'[v] = 0
      /\ \A u \in URLs : u # v => suppressed'[u] = suppressed[u]
  BY <1>1, <1>4, <1>5
<1>10. LoopShape'
  BY <1>0, <1>2, <1>3, <1>6, <1>7, <1>8, <1>9 DEF LoopShape
<1>11. SumFunction(sent) \in Nat /\ SumFunction(sent') = SumFunction(sent) + 1
  BY <1>0, <1>1, <1>2, Received DEF Counts
<1>12. LoopCounts'
  <2>1. ASSUME NEW u \in URLs
        PROVE  /\ skips'[u] = shown'[u] + suppressed'[u] /\ lines'[u] <= shown'[u]
               /\ skips'[u] <= SumFunction(sent')
    <3>1. /\ skips[u] = shown[u] + suppressed[u] /\ lines[u] <= shown[u]
          /\ skips[u] <= SumFunction(sent)
          /\ skips[u] \in Nat /\ shown[u] \in Nat /\ suppressed[u] \in Nat /\ lines[u] \in Nat
      BY <1>0, <1>5 DEF LoopCounts
    <3>2. CASE u = v
      <4>1. /\ skips'[u] = skips[u] + 1 /\ suppressed'[u] = 0 /\ lines'[u] = lines[u] + 1
            /\ shown'[u] = shown[u] + (1 + suppressed[u])
        BY <1>6, <1>7, <1>8, <1>9, <3>2
      <4> QED
        BY <1>11, <3>1, <4>1
    <3>3. CASE u # v
      <4>1. /\ skips'[u] = skips[u] /\ suppressed'[u] = suppressed[u] /\ lines'[u] = lines[u]
            /\ shown'[u] = shown[u]
        BY <1>6, <1>7, <1>8, <1>9, <3>3
      <4> QED
        BY <1>11, <3>1, <4>1
    <3> QED
      BY <3>2, <3>3
  <2> QED
    BY <1>2, <1>3, <2>1 DEF LoopCounts
<1>13. Stamps'
  <2>1. (lines[v] + 1) * Shortest(v) <= now - Start + Shortest(v)
    BY <1>0, <1>1, <1>3, LineAllowed DEF v
  <2>2. ASSUME NEW u \in URLs
        PROVE  /\ last'[u] = 0 => lines'[u] = 0
               /\ last'[u] # 0 => /\ Start <= last'[u] /\ last'[u] <= now
                                  /\ lines'[u] * Shortest(u) <= last'[u] - Start + Shortest(u)
    <3>1. CASE u = v
      <4>1. last'[u] = now /\ lines'[u] = lines[v] + 1
        BY <1>7, <1>9, <3>1
      <4> QED
        BY <1>5, <2>1, <3>1, <4>1
    <3>2. CASE u # v
      <4>1. last'[u] = last[u] /\ lines'[u] = lines[u]
        BY <1>7, <1>9, <3>2
      <4> QED
        BY <1>0, <4>1 DEF Stamps
    <3> QED
      BY <3>1, <3>2
  <2>3. \A u \in URLs : Shortest(u)' = Shortest(u)
    BY DEF Shortest, Cadence
  <2> QED
    BY <1>3, <2>2, <2>3 DEF Stamps
<1> QED
  BY <1>1, <1>10, <1>12, <1>13 DEF TelemetryInv

\* The invariant behind ResultsAreTold.
LEMMA TelemetryInvariant == TSpec => []TelemetryInv
<1>1. TelemetryInv /\ [TNext]_allVars => TelemetryInv'
  <2> SUFFICES ASSUME TelemetryInv, [TNext]_allVars PROVE TelemetryInv'
    OBVIOUS
  <2>1. CASE Handle
    <3>1. inHand.kind \in Kinds /\ Iteration(inHand.target, inHand.kind)
      BY <2>1, HandleCounts
    <3> QED
      BY <2>1, <3>1, NoSkipStep, SuppressStep, PrintStep DEF Iteration
  <2>2. CASE UNCHANGED allVars
    <3>1. UNCHANGED <<loopVars, skipped, dropped, reporting, full, queue, inHand>>
      BY <2>2 DEF allVars, runnerVars
    <3>2. QueueShape'
      BY <3>1 DEF TelemetryInv, QueueShape, Busy
    <3>3. \A K \in SUBSET Kinds : Underway(K)' = Underway(K)
      BY <3>1 DEF Underway, InQueue, Busy
    <3> QED
      BY <3>1, <3>2, <3>3, MoveStep
  <2> QED
    BY <2>1, <2>2, SkipStep, RunEndsStep, SendStep, DropStep, TakeStep, ClockStep DEF TNext
<1> QED
  BY <1>1, Initially, PTL DEF TSpec

-----------------------------------------------------------------------------
\* Whatever the runner drops and the drain has not come to: each kind of Result is in
\* its counter, the skips the drain has seen lag the runner's by no more than what is
\* dropped or under way, the lines tell of every skip and are few (main.go,
\* drainResults; metrics/doc.go, Skips).
THEOREM ResultsAreTold == TSpec => []ResultsTold
<1>1. TelemetryInv => ResultsTold
  <2> SUFFICES ASSUME TelemetryInv PROVE ResultsTold
    OBVIOUS
  <2>0. QueueShape /\ Counts /\ Lag /\ LoopShape /\ LoopCounts /\ Stamps
    BY DEF TelemetryInv
  <2>1. /\ SumFunction(sent) \in Nat /\ \A k \in Kinds : sent[k] <= SumFunction(sent)
        /\ SumFunction(sent) <= MaxResults /\ skipped <= MaxResults /\ dropped <= MaxResults
    <3>1. SumFunction(sent) \in Nat /\ \A k \in Kinds : sent[k] <= SumFunction(sent)
      BY <2>0, KindsFinite, SumType DEF Counts
    <3> DEFINE s == SumFunction(sent)
               a == Underway(Kinds)
    <3>2. /\ s \in Nat /\ a \in Nat /\ dropped \in Nat /\ skipped \in Nat /\ MaxResults \in Nat
          /\ s + dropped + a <= MaxResults /\ skipped <= s + dropped + a
      BY <2>0, Naturals DEF Counts
    <3> HIDE DEF s, a
    <3>3. s <= MaxResults /\ skipped <= MaxResults /\ dropped <= MaxResults
      BY <3>2
    <3> QED
      BY <3>1, <3>3 DEF s
  <2>2. \A u \in URLs : /\ skips[u] <= MaxResults /\ shown[u] <= MaxResults
                        /\ lines[u] <= MaxResults /\ suppressed[u] <= MaxResults
    <3> TAKE u \in URLs
    <3>1. /\ skips[u] = shown[u] + suppressed[u] /\ lines[u] <= shown[u]
          /\ skips[u] <= SumFunction(sent)
          /\ skips[u] \in Nat /\ shown[u] \in Nat /\ suppressed[u] \in Nat /\ lines[u] \in Nat
      BY <2>0 DEF LoopCounts, LoopShape
    <3> QED
      BY <2>1, <3>1, DrainAssumption
  <2>3. \A k \in Kinds : sent[k] \in 0..MaxResults
    <3> TAKE k \in Kinds
    <3>1. sent[k] \in Nat /\ sent[k] <= SumFunction(sent)
      BY <2>0, <2>1 DEF Counts
    <3> QED
      BY <2>1, <3>1, DrainAssumption
  <2>4. /\ sent \in [Kinds -> 0..MaxResults] /\ observed \in [SkipKinds -> 0..MaxResults]
        /\ failures \in 0..MaxResults
    <3>1. "failure" \in Kinds
      BY DEF Kinds
    <3>2. sent \in [Kinds -> 0..MaxResults]
      BY <2>0, <2>3 DEF Counts
    <3>3. observed \in [SkipKinds -> 0..MaxResults]
      BY <2>0, <2>3, KindsFinite DEF LoopCounts, KindsCounted, LoopShape
    <3> QED
      BY <2>0, <2>3, <3>1, <3>2, <3>3 DEF LoopCounts, KindsCounted
  <2>5. \A u \in URLs : last[u] \in 0..(Start + MaxElapsed)
    <3> TAKE u \in URLs
    <3>1. /\ last[u] \in Nat /\ now \in Nat /\ now <= Start + MaxElapsed
          /\ (last[u] # 0 => last[u] <= now)
      BY <2>0 DEF LoopShape, Stamps
    <3> QED
      BY <3>1, DrainAssumption
  <2>6. DrainTypeOK
    <3>1. now \in Start..(Start + MaxElapsed)
      BY <2>0, DrainAssumption DEF LoopShape
    <3>2. last \in [URLs -> 0..(Start + MaxElapsed)]
      BY <2>0, <2>5 DEF LoopShape
    <3>3. /\ skips \in [URLs -> 0..MaxResults] /\ shown \in [URLs -> 0..MaxResults]
          /\ lines \in [URLs -> 0..MaxResults] /\ suppressed \in [URLs -> 0..MaxResults]
      BY <2>0, <2>2, DrainAssumption DEF LoopShape
    <3> QED
      BY <2>4, <3>1, <3>2, <3>3 DEF DrainTypeOK
  <2>7. TTypeOK
    <3>1. {skipped, dropped} \subseteq 0..MaxResults
      BY <2>0, <2>1, DrainAssumption DEF Counts
    <3> QED
      BY <2>0, <2>6, <3>1 DEF TTypeOK, QueueShape, Results
  <2>8. LinesTellAll
    <3>1. LinesBounded
      <4> SUFFICES ASSUME NEW u \in URLs
                   PROVE  lines[u] * Shortest(u) <= now - Start + Shortest(u)
        BY DEF LinesBounded
      <4> DEFINE S == Shortest(u)
                 a == lines[u] * S
      <4>1. /\ S \in Nat \ {0} /\ lines[u] \in Nat /\ now \in Nat /\ Start \in Nat
            /\ Start <= now /\ last[u] \in Nat
        BY <2>0, ShortestIs, DrainAssumption DEF LoopShape
      <4>2. CASE last[u] = 0
        <5>1. a = 0
          BY <2>0, <4>1, <4>2 DEF Stamps
        <5> HIDE DEF a, S
        <5> QED
          BY <4>1, <5>1 DEF a, S
      <4>3. CASE last[u] # 0
        <5>1. last[u] <= now /\ a <= last[u] - Start + S /\ a \in Nat
          <6>1. a \in Nat
            <7> HIDE DEF S
            <7> QED
              BY <4>1, OnceMore
          <6> QED
            BY <2>0, <4>3, <6>1 DEF Stamps
        <5> HIDE DEF S, a
        <5>2. a <= now - Start + S
          BY <4>1, <5>1
        <5> QED
          BY <5>2 DEF S, a
      <4> QED
        BY <4>2, <4>3
    <3> QED
      BY <2>0, <2>6, <3>1 DEF LinesTellAll, SkipsAccountedFor, LoopCounts
  <2>9. SkipsLag
    <3> DEFINE o == Observed
               a == Underway(SkipKinds)
    <3>1. /\ o \in Nat /\ a \in Nat /\ dropped \in Nat /\ skipped \in Nat
          /\ o + a <= skipped /\ skipped <= o + dropped + a
      BY <2>0, Naturals DEF Lag
    <3>2. a <= Capacity + 2
      <4>1. Cardinality(BusyWith(SkipKinds)) <= 1
        <5>1. BusyWith(SkipKinds) \subseteq {"scheduler"}
          BY <2>0 DEF BusyWith, Busy, QueueShape, Reporters
        <5>2. IsFiniteSet({"scheduler"}) /\ Cardinality({"scheduler"}) = 1
          BY FS_Singleton
        <5>3. Cardinality(BusyWith(SkipKinds)) <= Cardinality({"scheduler"})
          BY <5>1, <5>2, FS_Subset
        <5> QED
          BY <5>2, <5>3
      <4>2. /\ InQueue(SkipKinds) \in 0..Len(queue) /\ Len(queue) \in Nat /\ Len(queue) <= Capacity
            /\ Cardinality(BusyWith(SkipKinds)) \in Nat /\ One(inHand, SkipKinds) \in 0..1
            /\ a = InQueue(SkipKinds) + Cardinality(BusyWith(SkipKinds)) + One(inHand, SkipKinds)
        BY <2>0, ParcelsCounted DEF QueueShape
      <4> HIDE DEF a
      <4> QED
        BY <4>1, <4>2, TelemetryAssumption
    <3>3. CaughtUp => a = 0
      <4> SUFFICES ASSUME CaughtUp PROVE a = 0
        OBVIOUS
      <4>1. Len(queue) = 0 /\ BusyWith(SkipKinds) = {} /\ One(inHand, SkipKinds) = 0
        BY ResultKinds, KindsFinite DEF CaughtUp, BusyWith, One
      <4> QED
        BY <2>0, <4>1, ParcelsCounted, FS_EmptySet
    <3>4. Exported.skipped_slots = skipped /\ Exported.dropped_results = dropped
      BY DEF Exported
    <3> HIDE DEF o, a
    <3>5. o <= skipped /\ skipped - o <= dropped + a /\ (CaughtUp => skipped - o <= dropped)
      BY <3>1, <3>3
    <3> QED
      BY <3>2, <3>4, <3>5 DEF SkipsLag, o, a
  <2> QED
    BY <2>7, <2>8, <2>9 DEF ResultsTold
<1> QED
  BY <1>1, TelemetryInvariant, PTL

=============================================================================
