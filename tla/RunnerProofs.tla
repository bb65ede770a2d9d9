---------------------------- MODULE RunnerProofs ----------------------------
(***************************************************************************)
(* Theorems of Runner, for every set of targets, every pool and every      *)
(* bound on the slots.                                                     *)
(***************************************************************************)
EXTENDS Runner, SumProofs, FiniteSetTheorems, SequenceTheorems, TLAPS

-----------------------------------------------------------------------------
(***************************************************************************)
(* Sequences and counting.                                                 *)
(***************************************************************************)

\* Taking the first element of a channel.
LEMMA TakeFirst ==
    ASSUME NEW S, NEW s \in Seq(S), s # <<>>
    PROVE  /\ Head(s) \in S
           /\ Head(s) = s[1]
           /\ Len(s) \in Nat /\ Len(s) >= 1
           /\ Tail(s) \in Seq(S)
           /\ Len(Tail(s)) = Len(s) - 1
           /\ \A i \in 1..Len(Tail(s)) : i + 1 \in 1..Len(s) /\ Tail(s)[i] = s[i + 1]
OBVIOUS

\* Putting an element at the end of a channel.
LEMMA PutLast ==
    ASSUME NEW S, NEW s \in Seq(S), NEW x \in S
    PROVE  /\ Append(s, x) \in Seq(S)
           /\ Len(s) \in Nat
           /\ Len(Append(s, x)) = Len(s) + 1
           /\ \A i \in 1..Len(s) : Append(s, x)[i] = s[i]
           /\ Append(s, x)[Len(s) + 1] = x
OBVIOUS

\* The number of targets.
LEMMA NType == N \in Nat
  BY FS_CardinalityType, RunnerAssumption DEF N

-----------------------------------------------------------------------------
(***************************************************************************)
(* Type correctness, and that a target never runs twice at once.           *)
(***************************************************************************)

\* The entry that the scheduler is about to send is marked in flight, is
\* nowhere else, and has a slot left.
SendIsOut ==
    spc = "send" =>
        /\ inflight[cur]
        /\ slots[cur] < MaxSlots
        /\ \A i \in 1..Len(work) : work[i] # cur
        /\ \A i \in 1..Len(done) : done[i] # cur
        /\ \A w \in Workers : Holding(w) => held[w] # cur

ClosedOnReturn == spc # "returned" => closes = 0

\* Before Run is called there are no workers.
NoPoolYet == spc = "new" => \A w \in Workers : wpc[w] = "none"

PoolInv ==
    TypeOK /\ NeverConcurrentWithItself /\ SendIsOut /\ ClosedOnReturn /\ NoPoolYet

\* Before Run is called there is no pool.
LEMMA PoolInvInit == Init => PoolInv
<1> SUFFICES ASSUME Init PROVE PoolInv
  OBVIOUS
<1> USE NType, RunnerAssumption DEF Init
<1>1. SchedTypeOK /\ EnvTypeOK
  BY DEF SchedTypeOK, EnvTypeOK, SchedStates, Verdicts, Outcomes
<1>2. ChannelTypeOK /\ EntryTypeOK
  <2>1. <<>> \in Seq(Entries)
    BY EmptySeq
  <2> QED
    BY <2>1 DEF ChannelTypeOK, EntryTypeOK
<1>3. WorkerTypeOK
  BY DEF WorkerTypeOK, WorkerStates, Holding, MaxAttempts
<1>4. ResultTypeOK
  BY DEF ResultTypeOK, ResultsCap, Fates
<1>5. NeverConcurrentWithItself
  <2>1. Len(work) = 0 /\ Len(done) = 0
    OBVIOUS
  <2>2. \A w \in Workers : ~Holding(w)
    BY DEF Holding
  <2> QED
    BY <2>1, <2>2 DEF NeverConcurrentWithItself
<1>6. SendIsOut /\ ClosedOnReturn /\ NoPoolYet
  BY DEF SendIsOut, ClosedOnReturn, NoPoolYet
<1> QED
  BY <1>1, <1>2, <1>3, <1>4, <1>5, <1>6 DEF PoolInv, TypeOK

\* The scheduler's own variables, action by action.
LEMMA SchedTypeStep == PoolInv /\ [Next]_vars => SchedTypeOK'
<1> SUFFICES ASSUME PoolInv, [Next]_vars PROVE SchedTypeOK'
  OBVIOUS
<1> USE RunnerAssumption DEF SchedStates, Verdicts, Outcomes
<1> USE DEF PoolInv, TypeOK, SchedTypeOK, vars, schedVars, chanVars, entryVars, workerVars, resultVars, envVars
<1>1. CASE Cancel
  BY <1>1 DEF Cancel
<1>2. CASE Consume
  BY <1>2 DEF Consume
<1>3. CASE SecondRun
  BY <1>3 DEF SecondRun
<1>4. CASE RejectConfig
  BY <1>4 DEF RejectConfig
<1>5. CASE StartPool
  BY <1>5 DEF StartPool
<1>6. CASE DrainOne
  BY <1>6 DEF DrainOne
<1>7. CASE DrainEmpty
  BY <1>7 DEF DrainEmpty
<1>8. CASE NothingDue
  BY <1>8 DEF NothingDue
<1>9. ASSUME NEW e \in Entries, DispatchDue(e) PROVE SchedTypeOK'
  BY <1>9 DEF DispatchDue
<1>10. ASSUME NEW e \in Entries, SkipDue(e) PROVE SchedTypeOK'
  BY <1>10 DEF SkipDue
<1>11. CASE ReportSkip
  BY <1>11 DEF ReportSkip, BeginLap, ElementsOf, ChannelTypeOK
<1>12. CASE Send
  BY <1>12 DEF Send, BeginLap, ElementsOf, ChannelTypeOK
<1>13. CASE SendCancelled
  BY <1>13 DEF SendCancelled
<1>14. CASE WaitTimer
  BY <1>14 DEF WaitTimer, BeginLap, ElementsOf, ChannelTypeOK
<1>15. CASE WaitAck
  BY <1>15, TakeFirst DEF WaitAck, BeginLap, ElementsOf, ChannelTypeOK
<1>16. CASE WaitCancelled
  BY <1>16 DEF WaitCancelled
<1>17. CASE CloseWork
  BY <1>17 DEF CloseWork
<1>18. CASE ReturnClean
  BY <1>18 DEF ReturnClean
<1>19. CASE ReturnTimeout
  BY <1>19 DEF ReturnTimeout
<1>20. ASSUME NEW w \in Workers, Dequeue(w) PROVE SchedTypeOK'
  BY <1>20 DEF Dequeue
<1>21. ASSUME NEW w \in Workers, Exit(w) PROVE SchedTypeOK'
  BY <1>21 DEF Exit
<1>22. ASSUME NEW w \in Workers, Admit(w) PROVE SchedTypeOK'
  BY <1>22 DEF Admit
<1>23. ASSUME NEW w \in Workers, PassOver(w) PROVE SchedTypeOK'
  BY <1>23 DEF PassOver
<1>24. ASSUME NEW w \in Workers, StartCheck(w) PROVE SchedTypeOK'
  BY <1>24 DEF StartCheck
<1>25. ASSUME NEW w \in Workers, CheckReturns(w) PROVE SchedTypeOK'
  BY <1>25 DEF CheckReturns
<1>26. ASSUME NEW w \in Workers, PublishReturns(w) PROVE SchedTypeOK'
  BY <1>26 DEF PublishReturns
<1>27. ASSUME NEW w \in Workers, BackedOff(w) PROVE SchedTypeOK'
  BY <1>27 DEF BackedOff
<1>28. ASSUME NEW w \in Workers, ReportRun(w) PROVE SchedTypeOK'
  BY <1>28 DEF ReportRun
<1>29. ASSUME NEW w \in Workers, Ack(w) PROVE SchedTypeOK'
  BY <1>29 DEF Ack
<1>30. CASE UNCHANGED vars
  BY <1>30
<1> QED
  BY <1>1, <1>2, <1>3, <1>4, <1>5, <1>6, <1>7, <1>8, <1>9, <1>10, <1>11, <1>12, <1>13, <1>14, <1>15, <1>16, <1>17, <1>18, <1>19, <1>20, <1>21, <1>22, <1>23, <1>24, <1>25, <1>26, <1>27, <1>28, <1>29, <1>30 DEF Next, Run, Schedule, DispatchLap, Worker, OwnStep, CalledStep, Terminated

\* The channels between the scheduler and the workers.
LEMMA ChannelTypeStep == PoolInv /\ [Next]_vars => ChannelTypeOK'
<1> SUFFICES ASSUME PoolInv, [Next]_vars PROVE ChannelTypeOK'
  OBVIOUS
<1> USE RunnerAssumption
<1> USE DEF PoolInv, TypeOK, ChannelTypeOK, vars, schedVars, chanVars, entryVars, workerVars, resultVars, envVars
<1>1. CASE Cancel
  BY <1>1 DEF Cancel
<1>2. CASE Consume
  BY <1>2 DEF Consume
<1>3. CASE SecondRun
  BY <1>3 DEF SecondRun
<1>4. CASE RejectConfig
  BY <1>4 DEF RejectConfig
<1>5. CASE StartPool
  BY <1>5 DEF StartPool
<1>6. CASE DrainOne
  BY <1>6, TakeFirst DEF DrainOne
<1>7. CASE DrainEmpty
  BY <1>7 DEF DrainEmpty
<1>8. CASE NothingDue
  BY <1>8 DEF NothingDue
<1>9. ASSUME NEW e \in Entries, DispatchDue(e) PROVE ChannelTypeOK'
  BY <1>9 DEF DispatchDue
<1>10. ASSUME NEW e \in Entries, SkipDue(e) PROVE ChannelTypeOK'
  BY <1>10 DEF SkipDue
<1>11. CASE ReportSkip
  BY <1>11 DEF ReportSkip
<1>12. CASE Send
  BY <1>12, PutLast DEF Send, SchedTypeOK
<1>13. CASE SendCancelled
  BY <1>13 DEF SendCancelled
<1>14. CASE WaitTimer
  BY <1>14 DEF WaitTimer
<1>15. CASE WaitAck
  BY <1>15, TakeFirst DEF WaitAck
<1>16. CASE WaitCancelled
  BY <1>16 DEF WaitCancelled
<1>17. CASE CloseWork
  BY <1>17 DEF CloseWork
<1>18. CASE ReturnClean
  BY <1>18 DEF ReturnClean
<1>19. CASE ReturnTimeout
  BY <1>19 DEF ReturnTimeout
<1>20. ASSUME NEW w \in Workers, Dequeue(w) PROVE ChannelTypeOK'
  BY <1>20, TakeFirst DEF Dequeue
<1>21. ASSUME NEW w \in Workers, Exit(w) PROVE ChannelTypeOK'
  BY <1>21 DEF Exit
<1>22. ASSUME NEW w \in Workers, Admit(w) PROVE ChannelTypeOK'
  BY <1>22 DEF Admit
<1>23. ASSUME NEW w \in Workers, PassOver(w) PROVE ChannelTypeOK'
  BY <1>23 DEF PassOver
<1>24. ASSUME NEW w \in Workers, StartCheck(w) PROVE ChannelTypeOK'
  BY <1>24 DEF StartCheck
<1>25. ASSUME NEW w \in Workers, CheckReturns(w) PROVE ChannelTypeOK'
  BY <1>25 DEF CheckReturns
<1>26. ASSUME NEW w \in Workers, PublishReturns(w) PROVE ChannelTypeOK'
  BY <1>26 DEF PublishReturns
<1>27. ASSUME NEW w \in Workers, BackedOff(w) PROVE ChannelTypeOK'
  BY <1>27 DEF BackedOff
<1>28. ASSUME NEW w \in Workers, ReportRun(w) PROVE ChannelTypeOK'
  BY <1>28 DEF ReportRun
<1>29. ASSUME NEW w \in Workers, Ack(w) PROVE ChannelTypeOK'
  BY <1>29, PutLast DEF Ack, WorkerTypeOK, Holding
<1>30. CASE UNCHANGED vars
  BY <1>30
<1> QED
  BY <1>1, <1>2, <1>3, <1>4, <1>5, <1>6, <1>7, <1>8, <1>9, <1>10, <1>11, <1>12, <1>13, <1>14, <1>15, <1>16, <1>17, <1>18, <1>19, <1>20, <1>21, <1>22, <1>23, <1>24, <1>25, <1>26, <1>27, <1>28, <1>29, <1>30 DEF Next, Run, Schedule, DispatchLap, Worker, OwnStep, CalledStep, Terminated

\* The two flags of an entry.
LEMMA EntryTypeStep == PoolInv /\ [Next]_vars => EntryTypeOK'
<1> SUFFICES ASSUME PoolInv, [Next]_vars PROVE EntryTypeOK'
  OBVIOUS
<1> USE RunnerAssumption
<1> USE DEF PoolInv, TypeOK, EntryTypeOK, vars, schedVars, chanVars, entryVars, workerVars, resultVars, envVars
<1>1. CASE Cancel
  BY <1>1 DEF Cancel
<1>2. CASE Consume
  BY <1>2 DEF Consume
<1>3. CASE SecondRun
  BY <1>3 DEF SecondRun
<1>4. CASE RejectConfig
  BY <1>4 DEF RejectConfig
<1>5. CASE StartPool
  BY <1>5 DEF StartPool
<1>6. CASE DrainOne
  BY <1>6 DEF DrainOne, Finish
<1>7. CASE DrainEmpty
  BY <1>7 DEF DrainEmpty
<1>8. CASE NothingDue
  BY <1>8 DEF NothingDue
<1>9. ASSUME NEW e \in Entries, DispatchDue(e) PROVE EntryTypeOK'
  BY <1>9 DEF DispatchDue
<1>10. ASSUME NEW e \in Entries, SkipDue(e) PROVE EntryTypeOK'
  BY <1>10 DEF SkipDue
<1>11. CASE ReportSkip
  BY <1>11 DEF ReportSkip
<1>12. CASE Send
  BY <1>12 DEF Send
<1>13. CASE SendCancelled
  BY <1>13 DEF SendCancelled
<1>14. CASE WaitTimer
  BY <1>14 DEF WaitTimer
<1>15. CASE WaitAck
  BY <1>15 DEF WaitAck, Finish
<1>16. CASE WaitCancelled
  BY <1>16 DEF WaitCancelled
<1>17. CASE CloseWork
  BY <1>17 DEF CloseWork
<1>18. CASE ReturnClean
  BY <1>18 DEF ReturnClean
<1>19. CASE ReturnTimeout
  BY <1>19 DEF ReturnTimeout
<1>20. ASSUME NEW w \in Workers, Dequeue(w) PROVE EntryTypeOK'
  BY <1>20 DEF Dequeue
<1>21. ASSUME NEW w \in Workers, Exit(w) PROVE EntryTypeOK'
  BY <1>21 DEF Exit
<1>22. ASSUME NEW w \in Workers, Admit(w) PROVE EntryTypeOK'
  BY <1>22 DEF Admit
<1>23. ASSUME NEW w \in Workers, PassOver(w) PROVE EntryTypeOK'
  BY <1>23 DEF PassOver
<1>24. ASSUME NEW w \in Workers, StartCheck(w) PROVE EntryTypeOK'
  BY <1>24 DEF StartCheck
<1>25. ASSUME NEW w \in Workers, CheckReturns(w) PROVE EntryTypeOK'
  BY <1>25 DEF CheckReturns
<1>26. ASSUME NEW w \in Workers, PublishReturns(w) PROVE EntryTypeOK'
  BY <1>26 DEF PublishReturns
<1>27. ASSUME NEW w \in Workers, BackedOff(w) PROVE EntryTypeOK'
  BY <1>27 DEF BackedOff
<1>28. ASSUME NEW w \in Workers, ReportRun(w) PROVE EntryTypeOK'
  BY <1>28 DEF ReportRun
<1>29. ASSUME NEW w \in Workers, Ack(w) PROVE EntryTypeOK'
  BY <1>29 DEF Ack
<1>30. CASE UNCHANGED vars
  BY <1>30
<1> QED
  BY <1>1, <1>2, <1>3, <1>4, <1>5, <1>6, <1>7, <1>8, <1>9, <1>10, <1>11, <1>12, <1>13, <1>14, <1>15, <1>16, <1>17, <1>18, <1>19, <1>20, <1>21, <1>22, <1>23, <1>24, <1>25, <1>26, <1>27, <1>28, <1>29, <1>30 DEF Next, Run, Schedule, DispatchLap, Worker, OwnStep, CalledStep, Terminated

\* Where the workers are and what they hold; the attempts stay within the bound.
LEMMA WorkerTypeStep == PoolInv /\ [Next]_vars => WorkerTypeOK'
<1> SUFFICES ASSUME PoolInv, [Next]_vars PROVE WorkerTypeOK'
  OBVIOUS
<1> USE RunnerAssumption
<1> USE DEF PoolInv, TypeOK, WorkerTypeOK, vars, schedVars, chanVars, entryVars, workerVars, resultVars, envVars
<1>1. CASE Cancel
  BY <1>1 DEF Cancel, Holding
<1>2. CASE Consume
  BY <1>2 DEF Consume, Holding
<1>3. CASE SecondRun
  BY <1>3 DEF SecondRun, Holding
<1>4. CASE RejectConfig
  BY <1>4 DEF RejectConfig, Holding
<1>5. CASE StartPool
  BY <1>5 DEF StartPool, WorkerStates, Holding, NoPoolYet
<1>6. CASE DrainOne
  BY <1>6 DEF DrainOne, Holding
<1>7. CASE DrainEmpty
  BY <1>7 DEF DrainEmpty, Holding
<1>8. CASE NothingDue
  BY <1>8 DEF NothingDue, Holding
<1>9. ASSUME NEW e \in Entries, DispatchDue(e) PROVE WorkerTypeOK'
  BY <1>9 DEF DispatchDue, Holding
<1>10. ASSUME NEW e \in Entries, SkipDue(e) PROVE WorkerTypeOK'
  BY <1>10 DEF SkipDue, Holding
<1>11. CASE ReportSkip
  BY <1>11 DEF ReportSkip, Holding
<1>12. CASE Send
  BY <1>12 DEF Send, Holding
<1>13. CASE SendCancelled
  BY <1>13 DEF SendCancelled, Holding
<1>14. CASE WaitTimer
  BY <1>14 DEF WaitTimer, Holding
<1>15. CASE WaitAck
  BY <1>15 DEF WaitAck, Holding
<1>16. CASE WaitCancelled
  BY <1>16 DEF WaitCancelled, Holding
<1>17. CASE CloseWork
  BY <1>17 DEF CloseWork, Holding
<1>18. CASE ReturnClean
  BY <1>18 DEF ReturnClean, Holding
<1>19. CASE ReturnTimeout
  BY <1>19 DEF ReturnTimeout, Holding
<1>20. ASSUME NEW w \in Workers, Dequeue(w) PROVE WorkerTypeOK'
  BY <1>20, TakeFirst DEF Dequeue, GoTo, WorkerStates, Holding, MaxAttempts, ChannelTypeOK
<1>21. ASSUME NEW w \in Workers, Exit(w) PROVE WorkerTypeOK'
  BY <1>21 DEF Exit, GoTo, WorkerStates, Holding, MaxAttempts
<1>22. ASSUME NEW w \in Workers, Admit(w) PROVE WorkerTypeOK'
  BY <1>22 DEF Admit, GoTo, WorkerStates, Holding, MaxAttempts
<1>23. ASSUME NEW w \in Workers, PassOver(w) PROVE WorkerTypeOK'
  BY <1>23 DEF PassOver, GoTo, WorkerStates, Holding, MaxAttempts
<1>24. ASSUME NEW w \in Workers, StartCheck(w) PROVE WorkerTypeOK'
  BY <1>24 DEF StartCheck, GoTo, WorkerStates, Holding, MaxAttempts
<1>25. ASSUME NEW w \in Workers, CheckReturns(w) PROVE WorkerTypeOK'
  BY <1>25 DEF CheckReturns, GoTo, WorkerStates, Holding, MaxAttempts
<1>26. ASSUME NEW w \in Workers, PublishReturns(w) PROVE WorkerTypeOK'
  BY <1>26 DEF PublishReturns, GoTo, WorkerStates, Holding, MaxAttempts
<1>27. ASSUME NEW w \in Workers, BackedOff(w) PROVE WorkerTypeOK'
  BY <1>27 DEF BackedOff, GoTo, WorkerStates, Holding, MaxAttempts
<1>28. ASSUME NEW w \in Workers, ReportRun(w) PROVE WorkerTypeOK'
  BY <1>28 DEF ReportRun, GoTo, WorkerStates, Holding, MaxAttempts
<1>29. ASSUME NEW w \in Workers, Ack(w) PROVE WorkerTypeOK'
  BY <1>29 DEF Ack, GoTo, WorkerStates, Holding, MaxAttempts
<1>30. CASE UNCHANGED vars
  BY <1>30 DEF Holding
<1> QED
  BY <1>1, <1>2, <1>3, <1>4, <1>5, <1>6, <1>7, <1>8, <1>9, <1>10, <1>11, <1>12, <1>13, <1>14, <1>15, <1>16, <1>17, <1>18, <1>19, <1>20, <1>21, <1>22, <1>23, <1>24, <1>25, <1>26, <1>27, <1>28, <1>29, <1>30 DEF Next, Run, Schedule, DispatchLap, Worker, OwnStep, CalledStep, Terminated

\* The results channel, the counters and the fates; the close is the only one.
LEMMA ResultTypeStep == PoolInv /\ [Next]_vars => ResultTypeOK'
<1> SUFFICES ASSUME PoolInv, [Next]_vars PROVE ResultTypeOK'
  OBVIOUS
<1> USE RunnerAssumption, NType DEF ResultsCap, Fates
<1> USE DEF PoolInv, TypeOK, ResultTypeOK, vars, schedVars, chanVars, entryVars, workerVars, resultVars, envVars
<1>1. CASE Cancel
  BY <1>1 DEF Cancel
<1>2. CASE Consume
  BY <1>2 DEF Consume
<1>3. CASE SecondRun
  BY <1>3 DEF SecondRun
<1>4. CASE RejectConfig
  BY <1>4 DEF RejectConfig, ClosedOnReturn
<1>5. CASE StartPool
  BY <1>5 DEF StartPool
<1>6. CASE DrainOne
  BY <1>6 DEF DrainOne
<1>7. CASE DrainEmpty
  BY <1>7 DEF DrainEmpty
<1>8. CASE NothingDue
  BY <1>8 DEF NothingDue
<1>9. ASSUME NEW e \in Entries, DispatchDue(e) PROVE ResultTypeOK'
  BY <1>9 DEF DispatchDue
<1>10. ASSUME NEW e \in Entries, SkipDue(e) PROVE ResultTypeOK'
  BY <1>10 DEF SkipDue
<1>11. CASE ReportSkip
  BY <1>11 DEF ReportSkip, ReportResult, Count, SchedTypeOK
<1>12. CASE Send
  <2>1. cur \in Entries /\ slots[cur] + 1 \in 0..MaxSlots
    BY <1>12 DEF Send, SchedTypeOK, SendIsOut
  <2>2. slots' \in [Entries -> 0..MaxSlots]
    BY <1>12, <2>1 DEF Send
  <2> QED
    BY <1>12, <2>2 DEF Send
<1>13. CASE SendCancelled
  BY <1>13 DEF SendCancelled
<1>14. CASE WaitTimer
  BY <1>14 DEF WaitTimer
<1>15. CASE WaitAck
  BY <1>15 DEF WaitAck
<1>16. CASE WaitCancelled
  BY <1>16 DEF WaitCancelled
<1>17. CASE CloseWork
  BY <1>17 DEF CloseWork
<1>18. CASE ReturnClean
  BY <1>18 DEF ReturnClean, ClosedOnReturn
<1>19. CASE ReturnTimeout
  BY <1>19 DEF ReturnTimeout
<1>20. ASSUME NEW w \in Workers, Dequeue(w) PROVE ResultTypeOK'
  BY <1>20 DEF Dequeue
<1>21. ASSUME NEW w \in Workers, Exit(w) PROVE ResultTypeOK'
  BY <1>21 DEF Exit
<1>22. ASSUME NEW w \in Workers, Admit(w) PROVE ResultTypeOK'
  BY <1>22 DEF Admit
<1>23. ASSUME NEW w \in Workers, PassOver(w) PROVE ResultTypeOK'
  BY <1>23 DEF PassOver, Count, WorkerTypeOK, Holding
<1>24. ASSUME NEW w \in Workers, StartCheck(w) PROVE ResultTypeOK'
  BY <1>24 DEF StartCheck
<1>25. ASSUME NEW w \in Workers, CheckReturns(w) PROVE ResultTypeOK'
  BY <1>25 DEF CheckReturns
<1>26. ASSUME NEW w \in Workers, PublishReturns(w) PROVE ResultTypeOK'
  BY <1>26 DEF PublishReturns
<1>27. ASSUME NEW w \in Workers, BackedOff(w) PROVE ResultTypeOK'
  BY <1>27 DEF BackedOff
<1>28. ASSUME NEW w \in Workers, ReportRun(w) PROVE ResultTypeOK'
  BY <1>28 DEF ReportRun, ReportResult, Count, WorkerTypeOK, Holding
<1>29. ASSUME NEW w \in Workers, Ack(w) PROVE ResultTypeOK'
  BY <1>29 DEF Ack
<1>30. CASE UNCHANGED vars
  BY <1>30
<1> QED
  BY <1>1, <1>2, <1>3, <1>4, <1>5, <1>6, <1>7, <1>8, <1>9, <1>10, <1>11, <1>12, <1>13, <1>14, <1>15, <1>16, <1>17, <1>18, <1>19, <1>20, <1>21, <1>22, <1>23, <1>24, <1>25, <1>26, <1>27, <1>28, <1>29, <1>30 DEF Next, Run, Schedule, DispatchLap, Worker, OwnStep, CalledStep, Terminated

\* What the environment chose.
LEMMA EnvTypeStep == PoolInv /\ [Next]_vars => EnvTypeOK'
<1> SUFFICES ASSUME PoolInv, [Next]_vars PROVE EnvTypeOK'
  OBVIOUS
<1>1. EnvTypeOK
  BY DEF PoolInv, TypeOK
<1>2. CASE Cancel \/ SecondRun
  BY <1>1, <1>2 DEF EnvTypeOK, Cancel, SecondRun
<1>3. CASE UNCHANGED envVars
  BY <1>1, <1>3 DEF EnvTypeOK, envVars
<1> QED
  BY <1>2, <1>3 DEF vars, Next, Run, Schedule, DispatchLap, Worker, OwnStep, CalledStep,
     Terminated, Consume, RejectConfig, StartPool, DrainOne, DrainEmpty, NothingDue,
     DispatchDue, SkipDue, ReportSkip, Send, SendCancelled, WaitTimer, WaitAck,
     WaitCancelled, CloseWork, ReturnClean, ReturnTimeout, Dequeue, Exit, Admit, PassOver,
     StartCheck, CheckReturns, PublishReturns, BackedOff, ReportRun, Ack

\* The parts of the type invariant together.
LEMMA TypeStep == PoolInv /\ [Next]_vars => TypeOK'
  BY SchedTypeStep, ChannelTypeStep, EntryTypeStep, WorkerTypeStep, ResultTypeStep,
     EnvTypeStep DEF TypeOK

-----------------------------------------------------------------------------
(***************************************************************************)
(* The steps that move an entry, and the steps that leave all entries      *)
(* where they are.                                                         *)
(***************************************************************************)

\* No entry moves: the channels and the marks stay, and nobody takes an entry.
Still ==
    /\ UNCHANGED <<work, done, inflight, held>>
    /\ \A w \in Workers : Holding(w)' => Holding(w)

\* A step that moves no entry keeps every entry where it is.
LEMMA StillStep ==
    ASSUME PoolInv, Next, ~DrainOne, ~WaitAck, ~Send,
           \A e \in Entries : ~DispatchDue(e),
           \A w \in Workers : ~Dequeue(w) /\ ~Ack(w)
    PROVE  Still
<1> USE DEF PoolInv, TypeOK, WorkerTypeOK, Still, Holding, vars, schedVars, chanVars, entryVars, workerVars, resultVars, envVars
<1>1. CASE Cancel \/ Consume \/ SecondRun \/ RejectConfig \/ Terminated
  BY <1>1 DEF Cancel, Consume, SecondRun, RejectConfig, Terminated
<1>2. CASE StartPool
  BY <1>2 DEF StartPool
<1>3. CASE DrainEmpty \/ NothingDue \/ ReportSkip \/ \E e \in Entries : SkipDue(e)
  BY <1>3 DEF DrainEmpty, NothingDue, ReportSkip, SkipDue
<1>4. CASE SendCancelled \/ WaitTimer \/ WaitCancelled
  BY <1>4 DEF SendCancelled, WaitTimer, WaitCancelled
<1>5. CASE CloseWork \/ ReturnClean \/ ReturnTimeout
  BY <1>5 DEF CloseWork, ReturnClean, ReturnTimeout
<1>6. ASSUME NEW w \in Workers, Exit(w) PROVE Still
  BY <1>6 DEF Exit, GoTo
<1>7. ASSUME NEW w \in Workers, Admit(w) \/ PassOver(w) \/ StartCheck(w) PROVE Still
  BY <1>7 DEF Admit, PassOver, StartCheck, GoTo
<1>8. ASSUME NEW w \in Workers, CheckReturns(w) \/ PublishReturns(w) PROVE Still
  BY <1>8 DEF CheckReturns, PublishReturns, GoTo
<1>9. ASSUME NEW w \in Workers, BackedOff(w) \/ ReportRun(w) PROVE Still
  BY <1>9 DEF BackedOff, ReportRun, GoTo
<1> QED
  BY <1>1, <1>2, <1>3, <1>4, <1>5, <1>6, <1>7, <1>8, <1>9
     DEF Next, Run, Schedule, DispatchLap, Worker, OwnStep, CalledStep

\* The scheduler takes an ack: the entry is nowhere any more.
LEMMA TakeAckStep ==
    ASSUME PoolInv, done # <<>>, Finish(Head(done)), done' = Tail(done),
           UNCHANGED <<work, held, wpc>>
    PROVE  NeverConcurrentWithItself'
<1> USE DEF PoolInv, TypeOK, ChannelTypeOK, EntryTypeOK, WorkerTypeOK
<1>1. /\ Head(done) = done[1] /\ Head(done) \in Entries
      /\ Len(done) \in Nat /\ 1 \in 1..Len(done)
      /\ \A i \in 1..Len(done') : i + 1 \in 1..Len(done) /\ done'[i] = done[i + 1]
  BY TakeFirst
<1>2. /\ \A i \in 1..Len(done') : done'[i] # Head(done)
      /\ \A i \in 1..Len(work) : work[i] # Head(done)
      /\ \A w \in Workers : Holding(w) => held[w] # Head(done)
  BY <1>1 DEF NeverConcurrentWithItself
<1>3. \A e \in Entries : e # Head(done) => inflight'[e] = inflight[e]
  BY DEF Finish
<1>4. \A i, j \in 1..Len(done') : done'[i] = done'[j] => i = j
  BY <1>1 DEF NeverConcurrentWithItself
<1>5. \A i \in 1..Len(done') : done'[i] \in Entries /\ inflight'[done'[i]]
  BY <1>1, <1>2, <1>3 DEF NeverConcurrentWithItself
<1>6. \A i \in 1..Len(work) : work[i] \in Entries /\ inflight'[work[i]]
  BY <1>2, <1>3 DEF NeverConcurrentWithItself
<1> QED
  BY <1>1, <1>2, <1>3, <1>4, <1>5, <1>6 DEF NeverConcurrentWithItself, Holding

\* Each move of an entry takes it out of where it was.
LEMMA NeverConcurrentStep == PoolInv /\ [Next]_vars => NeverConcurrentWithItself'
<1> SUFFICES ASSUME PoolInv, [Next]_vars PROVE NeverConcurrentWithItself'
  OBVIOUS
<1> USE DEF PoolInv, TypeOK, SchedTypeOK, ChannelTypeOK, EntryTypeOK, WorkerTypeOK
<1>1. CASE Still
  BY <1>1 DEF Still, NeverConcurrentWithItself, Holding
<1>2. CASE DrainOne
  BY <1>2, TakeAckStep DEF DrainOne, workerVars
<1>3. CASE WaitAck
  BY <1>3, TakeAckStep DEF WaitAck, workerVars
<1>4. ASSUME NEW e \in Entries, DispatchDue(e) PROVE NeverConcurrentWithItself'
  BY <1>4 DEF DispatchDue, NeverConcurrentWithItself, Holding, chanVars, workerVars
<1>5. CASE Send
  <2>1. /\ cur \in Entries
        /\ Len(work) \in Nat /\ Len(work') = Len(work) + 1
        /\ \A i \in 1..Len(work) : work'[i] = work[i]
        /\ work'[Len(work) + 1] = cur
    BY <1>5, PutLast DEF Send
  <2>2. \A i, j \in 1..Len(work') : work'[i] = work'[j] => i = j
    BY <1>5, <2>1 DEF Send, SendIsOut, NeverConcurrentWithItself
  <2>3. \A i \in 1..Len(work'), j \in 1..Len(done) : work'[i] # done[j]
    BY <1>5, <2>1 DEF Send, SendIsOut, NeverConcurrentWithItself
  <2>4. \A i \in 1..Len(work'), w \in Workers : Holding(w) => work'[i] # held[w]
    BY <1>5, <2>1 DEF Send, SendIsOut, NeverConcurrentWithItself
  <2>5. \A i \in 1..Len(work') : inflight[work'[i]]
    BY <1>5, <2>1 DEF Send, SendIsOut, NeverConcurrentWithItself
  <2> QED
    BY <1>5, <2>2, <2>3, <2>4, <2>5
       DEF Send, NeverConcurrentWithItself, Holding, entryVars, workerVars
<1>6. ASSUME NEW w \in Workers, Dequeue(w) PROVE NeverConcurrentWithItself'
  <2>1. /\ Head(work) = work[1] /\ Head(work) \in Entries
        /\ Len(work) \in Nat /\ 1 \in 1..Len(work)
        /\ \A i \in 1..Len(work') : i + 1 \in 1..Len(work) /\ work'[i] = work[i + 1]
    BY <1>6, TakeFirst DEF Dequeue
  <2>2. \A v \in Workers : Holding(v)' <=> Holding(v) \/ v = w
    BY <1>6 DEF Dequeue, GoTo, Holding
  <2>3. held'[w] = work[1] /\ \A v \in Workers : v # w => held'[v] = held[v]
    BY <1>6, <2>1 DEF Dequeue
  <2>4. \A i, j \in 1..Len(work') : work'[i] = work'[j] => i = j
    BY <2>1 DEF NeverConcurrentWithItself
  <2>5. \A i \in 1..Len(work'), j \in 1..Len(done) : work'[i] # done[j]
    BY <2>1 DEF NeverConcurrentWithItself
  <2>6. ASSUME NEW v \in Workers, Holding(v)'
        PROVE  /\ inflight[held'[v]]
               /\ \A i \in 1..Len(work') : work'[i] # held'[v]
               /\ \A i \in 1..Len(done) : done[i] # held'[v]
    <3>1. CASE v = w
      BY <2>1, <2>3, <3>1 DEF NeverConcurrentWithItself
    <3>2. CASE v # w
      <4>1. Holding(v) /\ held'[v] = held[v]
        BY <2>2, <2>3, <2>6, <3>2
      <4>2. \A i \in 1..Len(work) : work[i] # held[v]
        BY <4>1 DEF NeverConcurrentWithItself
      <4>3. \A i \in 1..Len(work') : work'[i] # held'[v]
        BY <2>1, <4>1, <4>2
      <4> QED
        BY <4>1, <4>3 DEF NeverConcurrentWithItself
    <3> QED
      BY <3>1, <3>2
  <2>7. ASSUME NEW u \in Workers, NEW v \in Workers, Holding(u)', Holding(v)', held'[u] = held'[v]
        PROVE  u = v
    BY <2>1, <2>2, <2>3, <2>7 DEF NeverConcurrentWithItself
  <2>8. ASSUME NEW i \in 1..Len(work') PROVE inflight[work'[i]]
    <3>1. inflight[work[i + 1]]
      BY <2>1 DEF NeverConcurrentWithItself
    <3> QED
      BY <2>1, <3>1
  <2> QED
    BY <1>6, <2>4, <2>5, <2>6, <2>7, <2>8
       DEF Dequeue, NeverConcurrentWithItself, entryVars
<1>7. ASSUME NEW w \in Workers, Ack(w) PROVE NeverConcurrentWithItself'
  <2>1. /\ held[w] \in Entries /\ Holding(w)
        /\ Len(done) \in Nat /\ Len(done') = Len(done) + 1
        /\ \A i \in 1..Len(done) : done'[i] = done[i]
        /\ done'[Len(done) + 1] = held[w]
        /\ \A i \in 1..Len(done') : i \in 1..Len(done) \/ i = Len(done) + 1
    <3>1. held[w] \in Entries /\ Holding(w) /\ done' = Append(done, held[w])
      BY <1>7 DEF Ack, Holding
    <3>2. done \in Seq(Entries)
      OBVIOUS
    <3> HIDE DEF PoolInv, TypeOK, ChannelTypeOK, WorkerTypeOK
    <3>3. /\ Len(done) \in Nat /\ Len(done') = Len(done) + 1
          /\ \A i \in 1..Len(done) : done'[i] = done[i]
          /\ done'[Len(done) + 1] = held[w]
      BY <3>1, <3>2, PutLast
    <3>4. \A i \in 1..Len(done') : i \in 1..Len(done) \/ i = Len(done) + 1
      BY <3>3
    <3> QED
      BY <3>1, <3>3, <3>4
  <2>2. \A v \in Workers : Holding(v)' <=> Holding(v) /\ v # w
    BY <1>7 DEF Ack, GoTo, Holding
  <2>3. \A v \in Workers : v # w => held'[v] = held[v]
    BY <1>7 DEF Ack
  <2>4. ASSUME NEW i \in 1..Len(done'), NEW j \in 1..Len(done'), done'[i] = done'[j]
        PROVE  i = j
    <3>1. \A k \in 1..Len(done) : done[k] # held[w]
      BY <2>1 DEF NeverConcurrentWithItself
    <3>2. CASE i = Len(done) + 1 \/ j = Len(done) + 1
      BY <2>1, <2>4, <3>1, <3>2
    <3>3. CASE i \in 1..Len(done) /\ j \in 1..Len(done)
      BY <2>1, <2>4, <3>3 DEF NeverConcurrentWithItself
    <3> QED
      BY <2>1, <3>2, <3>3
  <2>5. ASSUME NEW i \in 1..Len(work), NEW j \in 1..Len(done') PROVE work[i] # done'[j]
    <3>1. CASE j \in 1..Len(done)
      <4>1. work[i] # done[j] /\ done'[j] = done[j]
        BY <2>1, <3>1 DEF NeverConcurrentWithItself
      <4> QED
        BY <4>1
    <3>2. CASE j = Len(done) + 1
      <4>1. work[i] # held[w] /\ done'[j] = held[w]
        BY <2>1, <3>2 DEF NeverConcurrentWithItself
      <4> QED
        BY <4>1
    <3> QED
      BY <2>1, <3>1, <3>2
  <2>6. ASSUME NEW v \in Workers, Holding(v)'
        PROVE  /\ inflight[held'[v]]
               /\ \A i \in 1..Len(work) : work[i] # held'[v]
               /\ \A i \in 1..Len(done') : done'[i] # held'[v]
    <3>1. Holding(v) /\ v # w /\ held'[v] = held[v] /\ held[v] # held[w]
      BY <2>1, <2>2, <2>3, <2>6 DEF NeverConcurrentWithItself
    <3>2. \A i \in 1..Len(done) : done[i] # held[v]
      BY <3>1 DEF NeverConcurrentWithItself
    <3>3. \A i \in 1..Len(done') : done'[i] # held'[v]
      BY <2>1, <3>1, <3>2
    <3> QED
      BY <3>1, <3>3 DEF NeverConcurrentWithItself
  <2>7. \A u, v \in Workers : Holding(u)' /\ Holding(v)' /\ held'[u] = held'[v] => u = v
    BY <2>2, <2>3 DEF NeverConcurrentWithItself
  <2>8. ASSUME NEW i \in 1..Len(done') PROVE inflight[done'[i]]
    <3>1. CASE i \in 1..Len(done)
      BY <2>1, <3>1 DEF NeverConcurrentWithItself
    <3>2. CASE i = Len(done) + 1
      BY <2>1, <3>2 DEF NeverConcurrentWithItself
    <3> QED
      BY <2>1, <3>1, <3>2
  <2> QED
    BY <1>7, <2>4, <2>5, <2>6, <2>7, <2>8
       DEF Ack, NeverConcurrentWithItself, entryVars
<1>8. CASE UNCHANGED vars
  BY <1>8 DEF vars, chanVars, entryVars, workerVars, Still, Holding, NeverConcurrentWithItself
<1> QED
  BY <1>1, <1>2, <1>3, <1>4, <1>5, <1>6, <1>7, <1>8, StillStep


\* The entry that is about to be sent is nowhere in the pool.
LEMMA SendIsOutStep == PoolInv /\ [Next]_vars => SendIsOut'
<1> SUFFICES ASSUME PoolInv, [Next]_vars, spc' = "send" PROVE SendIsOut'
  BY DEF SendIsOut
<1> USE DEF PoolInv, TypeOK, SchedTypeOK, ChannelTypeOK, EntryTypeOK, WorkerTypeOK
<1>1. ASSUME NEW e \in Entries, DispatchDue(e) PROVE SendIsOut'
  BY <1>1 DEF DispatchDue, SendIsOut, NeverConcurrentWithItself, Holding, chanVars,
     workerVars, resultVars
<1>2. CASE spc = "send" /\ cur' = cur /\ slots' = slots /\ Still
  BY <1>2 DEF SendIsOut, Still, Holding
<1>3. ASSUME NEW w \in Workers, Dequeue(w), spc = "send" PROVE SendIsOut'
  <2>1. /\ Head(work) = work[1] /\ 1 \in 1..Len(work)
        /\ \A i \in 1..Len(work') : i + 1 \in 1..Len(work) /\ work'[i] = work[i + 1]
    BY <1>3, TakeFirst DEF Dequeue
  <2>2. ASSUME NEW i \in 1..Len(work') PROVE work'[i] # cur
    <3>1. \A k \in 1..Len(work) : work[k] # cur
      BY <1>3 DEF SendIsOut
    <3> QED
      BY <2>1, <3>1
  <2>3. \A v \in Workers : Holding(v)' => held'[v] # cur
    BY <1>3, <2>1 DEF Dequeue, GoTo, Holding, SendIsOut
  <2> QED
    BY <1>3, <2>2, <2>3 DEF Dequeue, SendIsOut, schedVars, entryVars, resultVars
<1>4. ASSUME NEW w \in Workers, Ack(w), spc = "send" PROVE SendIsOut'
  <2>1. held[w] \in Entries /\ held[w] # cur /\ done' = Append(done, held[w])
    BY <1>4 DEF Ack, Holding, SendIsOut
  <2>2. ASSUME NEW i \in 1..Len(done') PROVE done'[i] # cur
    <3>1. /\ Len(done) \in Nat /\ Len(done') = Len(done) + 1
          /\ \A k \in 1..Len(done) : done'[k] = done[k]
          /\ done'[Len(done) + 1] = held[w]
      BY <2>1, PutLast
    <3>2. CASE i \in 1..Len(done)
      BY <1>4, <3>1, <3>2 DEF SendIsOut
    <3>3. CASE i = Len(done) + 1
      BY <2>1, <3>1, <3>3
    <3> QED
      BY <3>1, <3>2, <3>3
  <2>3. \A v \in Workers : Holding(v)' => held'[v] # cur
    BY <1>4, <2>1 DEF Ack, GoTo, Holding, SendIsOut
  <2> QED
    BY <1>4, <2>2, <2>3 DEF Ack, SendIsOut, schedVars, entryVars, resultVars
<1>5. CASE UNCHANGED vars
  BY <1>5 DEF vars, schedVars, chanVars, entryVars, workerVars, resultVars, Still, Holding,
     SendIsOut
<1>6. ASSUME Next, \A e \in Entries : ~DispatchDue(e)
      PROVE  spc = "send" /\ cur' = cur /\ slots' = slots
  BY <1>6 DEF Next, Run, Schedule, DispatchLap, Worker, OwnStep, CalledStep, Terminated,
     Cancel, Consume, SecondRun, RejectConfig, StartPool, DrainOne, DrainEmpty, NothingDue,
     SkipDue, ReportSkip, Send, SendCancelled, WaitTimer, WaitAck, WaitCancelled, CloseWork,
     ReturnClean, ReturnTimeout, BeginLap, Dequeue, Exit, Admit, PassOver, StartCheck,
     CheckReturns, PublishReturns, BackedOff, ReportRun, Ack, vars, schedVars, resultVars
<1>7. ~DrainOne /\ ~WaitAck /\ ~Send
  BY DEF DrainOne, WaitAck, Send, BeginLap, schedVars
<1> QED
  BY <1>1, <1>2, <1>3, <1>4, <1>5, <1>6, <1>7, StillStep

\* Run closes the results once, on its return.
LEMMA ReturnStep == PoolInv /\ [Next]_vars => ClosedOnReturn' /\ NoPoolYet'
<1> SUFFICES ASSUME PoolInv, [Next]_vars PROVE ClosedOnReturn' /\ NoPoolYet'
  OBVIOUS
<1> USE DEF PoolInv, ClosedOnReturn, NoPoolYet, vars, schedVars, workerVars, resultVars
<1>1. CASE Cancel \/ Consume \/ SecondRun \/ Terminated \/ UNCHANGED vars
  BY <1>1 DEF Cancel, Consume, SecondRun, Terminated
<1>2. CASE RejectConfig \/ StartPool
  BY <1>2 DEF RejectConfig, StartPool
<1>3. CASE Schedule
  BY <1>3 DEF Schedule, DispatchLap, DrainOne, DrainEmpty, NothingDue, DispatchDue, SkipDue,
     ReportSkip, Send, SendCancelled, WaitTimer, WaitAck, WaitCancelled, BeginLap
<1>4. CASE CloseWork \/ ReturnClean \/ ReturnTimeout
  BY <1>4 DEF CloseWork, ReturnClean, ReturnTimeout
<1>5. ASSUME NEW w \in Workers, OwnStep(w) \/ CalledStep(w)
      PROVE  ClosedOnReturn' /\ NoPoolYet'
  BY <1>5 DEF OwnStep, CalledStep, Dequeue, Exit, Admit, PassOver, StartCheck, CheckReturns,
     PublishReturns, BackedOff, ReportRun, Ack
<1> QED
  BY <1>1, <1>2, <1>3, <1>4, <1>5 DEF Next, Run, Worker

-----------------------------------------------------------------------------
\* The invariant that the other proofs rest on.
LEMMA PoolInvariant == Spec => []PoolInv
<1>1. PoolInv /\ [Next]_vars => PoolInv'
  BY TypeStep, NeverConcurrentStep, SendIsOutStep, ReturnStep DEF PoolInv
<1> QED
  BY PoolInvInit, <1>1, PTL DEF Spec

\* The variables of the runner keep their types; in particular no worker makes a
\* fourth Publish attempt and the results channel is closed at most once.
THEOREM TypeCorrect == Spec => []TypeOK
<1>1. PoolInv => TypeOK
  BY DEF PoolInv
<1> QED
  BY PoolInvariant, <1>1, PTL

\* A target never runs twice at once, whatever the pool, the load and the
\* moment of the shutdown (runner.go, schedule and worker).
THEOREM NeverConcurrent == Spec => []NeverConcurrentWithItself
<1>1. PoolInv => NeverConcurrentWithItself
  BY DEF PoolInv
<1> QED
  BY PoolInvariant, <1>1, PTL

-----------------------------------------------------------------------------
(***************************************************************************)
(* The channels have one place per target.  Their elements are distinct    *)
(* and the entry about to be sent is none of them, so there is room.       *)
(***************************************************************************)

\* A sequence without repetitions that misses an element of a finite set is
\* shorter than the set.
LEMMA RoomForOne ==
    ASSUME NEW S, IsFiniteSet(S), NEW s \in Seq(S), NEW x \in S,
           \A i, j \in 1..Len(s) : s[i] = s[j] => i = j,
           \A i \in 1..Len(s) : s[i] # x
    PROVE  Len(s) < Cardinality(S)
<1> DEFINE T == S \ {x}
           k == Len(s)
<1>1. k \in Nat
  OBVIOUS
<1>2. IsFiniteSet(1..k) /\ Cardinality(1..k) = k
  <2> HIDE DEF k
  <2>1. IsFiniteSet(1..k) /\ Cardinality(1..k) = IF 1 > k THEN 0 ELSE k - 1 + 1
    BY <1>1, FS_Interval
  <2> QED
    BY <1>1, <2>1
<1>3. IsFiniteSet(T) /\ Cardinality(T) = Cardinality(S) - 1 /\ Cardinality(S) \in Nat
  BY FS_RemoveElement, FS_CardinalityType
<1>4. [i \in 1..k |-> s[i]] \in Injection(1..k, T)
  BY <1>1 DEF Injection, IsInjective
<1>5. Cardinality(1..k) <= Cardinality(T)
  BY <1>2, <1>3, <1>4, FS_Injection DEF ExistsInjection
<1> QED
  BY <1>1, <1>2, <1>3, <1>5

\* Neither a worker's ack nor the scheduler's dispatch ever waits for room
\* (runner.go, the comment on the capacity of done).
THEOREM NeverBlocks == Spec => []ChannelsNeverBlock
<1>1. PoolInv => ChannelsNeverBlock
  <2> SUFFICES ASSUME PoolInv PROVE ChannelsNeverBlock
    OBVIOUS
  <2> USE RunnerAssumption
          DEF PoolInv, TypeOK, SchedTypeOK, ChannelTypeOK, WorkerTypeOK, N
  <2>1. ASSUME NEW w \in Workers, Holding(w) PROVE Len(done) < N
    BY <2>1, RoomForOne DEF NeverConcurrentWithItself
  <2>2. ASSUME spc = "send" PROVE Len(work) < N
    BY <2>2, RoomForOne DEF NeverConcurrentWithItself, SendIsOut
  <2> QED
    BY <2>1, <2>2 DEF ChannelsNeverBlock
<1> QED
  BY PoolInvariant, <1>1, PTL

-----------------------------------------------------------------------------
(***************************************************************************)
(* What the runner says of a target is right, for every pool: the blame of *)
(* a skip, the lifecycle of a target, the way Run returns.  Everything     *)
(* rests on PoolInv.  First the blame.                                     *)
(***************************************************************************)

\* The entry that is about to be queued has not started.
FreshOnSend == spc = "send" => ~started[cur]

\* A dispatch comes back without a run only after the cancellation.
UnrunOnlyAtShutdown ==
    /\ \A w \in Workers : wpc[w] = "ack" /\ ~started[held[w]] => cancelled
    /\ \A i \in 1..Len(done) : ~started[done[i]] => cancelled

BlameInv == BlameIsRight /\ FreshOnSend /\ UnrunOnlyAtShutdown

\* Nothing has started.
LEMMA BlameInvInit == Init => BlameInv
<1> SUFFICES ASSUME Init PROVE BlameInv
  OBVIOUS
<1>1. Len(work) = 0 /\ Len(done) = 0
  BY DEF Init
<1> QED
  BY <1>1 DEF Init, BlameInv, BlameIsRight, FreshOnSend, UnrunOnlyAtShutdown, InRun

\* The steps that leave the channels and the flags of the entries alone, and
\* move no worker into or out of a run.
Quiet ==
    /\ UNCHANGED <<work, done, inflight, started, held>>
    /\ spc' = "send" => spc = "send" /\ UNCHANGED cur
    /\ cancelled => cancelled'
    /\ \A w \in Workers :
        /\ InRun(w)' => InRun(w)
        /\ wpc'[w] \in {"got", "go"} => wpc[w] \in {"got", "go"}
        /\ wpc'[w] = "ack" => wpc[w] = "ack" \/ InRun(w) \/ cancelled'

\* A step that neither starts a run nor moves an entry leaves the blame alone.
LEMMA QuietStep ==
    ASSUME PoolInv, Next, ~DrainOne, ~WaitAck, ~Send,
           \A e \in Entries : ~DispatchDue(e),
           \A w \in Workers : ~Dequeue(w) /\ ~Ack(w) /\ ~StartCheck(w)
    PROVE  Quiet
<1> USE DEF PoolInv, TypeOK, WorkerTypeOK, WorkerStates, Quiet, InRun,
            schedVars, chanVars, entryVars, workerVars, resultVars, envVars
<1>1. CASE Cancel \/ Consume \/ SecondRun \/ RejectConfig
  BY <1>1 DEF Cancel, Consume, SecondRun, RejectConfig
<1>2. CASE StartPool
  BY <1>2 DEF StartPool
<1>3. CASE DrainEmpty \/ NothingDue \/ ReportSkip \/ \E e \in Entries : SkipDue(e)
  BY <1>3 DEF DrainEmpty, NothingDue, ReportSkip, SkipDue, BeginLap
<1>4. CASE SendCancelled \/ WaitTimer \/ WaitCancelled
  BY <1>4 DEF SendCancelled, WaitTimer, WaitCancelled, BeginLap
<1>5. CASE CloseWork \/ ReturnClean \/ ReturnTimeout
  BY <1>5 DEF CloseWork, ReturnClean, ReturnTimeout
<1>6. ASSUME NEW w \in Workers, Exit(w) \/ Admit(w) \/ PassOver(w) PROVE Quiet
  BY <1>6 DEF Exit, Admit, PassOver, GoTo
<1>7. ASSUME NEW w \in Workers, CheckReturns(w) \/ PublishReturns(w) PROVE Quiet
  BY <1>7 DEF CheckReturns, PublishReturns, GoTo
<1>8. ASSUME NEW w \in Workers, BackedOff(w) \/ ReportRun(w) PROVE Quiet
  BY <1>8 DEF BackedOff, ReportRun, GoTo
<1>9. CASE Terminated
  BY <1>9 DEF Terminated, vars
<1> QED
  BY <1>1, <1>2, <1>3, <1>4, <1>5, <1>6, <1>7, <1>8, <1>9
     DEF Next, Run, Schedule, DispatchLap, Worker, OwnStep, CalledStep

\* The scheduler takes an ack: the entry's flags are reset, and it is nowhere.
LEMMA TakeAckBlame ==
    ASSUME PoolInv, BlameInv, done # <<>>, Finish(Head(done)), done' = Tail(done),
           UNCHANGED <<work, held, wpc, cancelled>>, spc' # "send"
    PROVE  BlameInv'
<1> USE DEF PoolInv, TypeOK, ChannelTypeOK, EntryTypeOK, WorkerTypeOK
<1>1. /\ Head(done) = done[1] /\ Head(done) \in Entries
      /\ Len(done) \in Nat /\ 1 \in 1..Len(done)
      /\ \A i \in 1..Len(done') : i + 1 \in 1..Len(done) /\ done'[i] = done[i + 1]
  BY TakeFirst
<1>2. /\ \A i \in 1..Len(done') : done'[i] # Head(done)
      /\ \A i \in 1..Len(work) : work[i] # Head(done)
      /\ \A w \in Workers : Holding(w) => held[w] # Head(done)
  BY <1>1 DEF NeverConcurrentWithItself
<1>3. /\ \A e \in Entries : e # Head(done) =>
                inflight'[e] = inflight[e] /\ started'[e] = started[e]
      /\ ~started'[Head(done)]
  BY <1>1 DEF Finish
<1>4. \A w \in Workers : Holding(w) => started'[held[w]] = started[held[w]]
  BY <1>2, <1>3
<1>5. BlameIsRight'
  <2>1. \A w \in Workers : InRun(w)' => started'[held'[w]]
    BY <1>4 DEF BlameInv, BlameIsRight, InRun, Holding
  <2>2. \A w \in Workers : wpc'[w] \in {"got", "go"} => ~started'[held'[w]]
    BY <1>4 DEF BlameInv, BlameIsRight, Holding
  <2>3. \A i \in 1..Len(work') : ~started'[work'[i]]
    <3>1. ASSUME NEW i \in 1..Len(work) PROVE ~started'[work[i]]
      <4>1. work[i] \in Entries /\ work[i] # Head(done) /\ ~started[work[i]]
        BY <1>2 DEF BlameInv, BlameIsRight
      <4> QED
        BY <1>3, <4>1
    <3> QED
      BY <3>1
  <2>4. \A e \in Entries : started'[e] => inflight'[e]
    BY <1>3 DEF BlameInv, BlameIsRight
  <2> QED
    BY <2>1, <2>2, <2>3, <2>4 DEF BlameIsRight
<1>6. UnrunOnlyAtShutdown'
  <2>1. \A w \in Workers : wpc'[w] = "ack" /\ ~started'[held'[w]] => cancelled'
    BY <1>4 DEF BlameInv, UnrunOnlyAtShutdown, Holding
  <2>2. \A i \in 1..Len(done') : done'[i] \in Entries /\ started'[done'[i]] = started[done'[i]]
    BY <1>1, <1>2, <1>3
  <2>3. \A i \in 1..Len(done') : ~started'[done'[i]] => cancelled'
    BY <1>1, <2>2 DEF BlameInv, UnrunOnlyAtShutdown
  <2> QED
    BY <2>1, <2>3 DEF UnrunOnlyAtShutdown
<1> QED
  BY <1>5, <1>6 DEF BlameInv, FreshOnSend

\* Each action keeps started in agreement with where the entry is.
LEMMA BlameStep == PoolInv /\ BlameInv /\ [Next]_vars => BlameInv'
<1> SUFFICES ASSUME PoolInv, BlameInv, [Next]_vars PROVE BlameInv'
  OBVIOUS
<1> USE DEF PoolInv, TypeOK, SchedTypeOK, ChannelTypeOK, EntryTypeOK, WorkerTypeOK
<1>1. CASE Quiet
  <2>1. BlameIsRight'
    BY <1>1 DEF Quiet, BlameInv, BlameIsRight
  <2>2. FreshOnSend'
    BY <1>1 DEF Quiet, BlameInv, FreshOnSend
  <2>3. UnrunOnlyAtShutdown'
    BY <1>1 DEF Quiet, BlameInv, BlameIsRight, UnrunOnlyAtShutdown
  <2> QED
    BY <2>1, <2>2, <2>3 DEF BlameInv
<1>2. CASE DrainOne
  BY <1>2, TakeAckBlame DEF DrainOne, schedVars, workerVars, envVars
<1>3. CASE WaitAck
  BY <1>3, TakeAckBlame DEF WaitAck, BeginLap, workerVars, envVars
<1>4. ASSUME NEW e \in Entries, DispatchDue(e) PROVE BlameInv'
  BY <1>4 DEF DispatchDue, BlameInv, BlameIsRight, FreshOnSend, UnrunOnlyAtShutdown,
              InRun, chanVars, workerVars, envVars
<1>5. CASE Send
  <2>1. /\ Len(work) \in Nat /\ Len(work') = Len(work) + 1
        /\ \A i \in 1..Len(work) : work'[i] = work[i]
        /\ work'[Len(work) + 1] = cur
    BY <1>5, PutLast DEF Send
  <2>2. \A i \in 1..Len(work') : ~started[work'[i]]
    BY <1>5, <2>1 DEF Send, BlameInv, BlameIsRight, FreshOnSend
  <2> QED
    BY <1>5, <2>2 DEF Send, BeginLap, BlameInv, BlameIsRight, FreshOnSend,
                      UnrunOnlyAtShutdown, InRun, entryVars, workerVars, envVars
<1>6. ASSUME NEW w \in Workers, Dequeue(w) PROVE BlameInv'
  <2>1. /\ Head(work) = work[1] /\ Head(work) \in Entries
        /\ Len(work) \in Nat /\ 1 \in 1..Len(work)
        /\ \A i \in 1..Len(work') : i + 1 \in 1..Len(work) /\ work'[i] = work[i + 1]
    BY <1>6, TakeFirst DEF Dequeue
  <2>2. /\ wpc' = [wpc EXCEPT ![w] = "got"]
        /\ held' = [held EXCEPT ![w] = work[1]]
        /\ ~started[work[1]]
    BY <1>6, <2>1 DEF Dequeue, GoTo, BlameInv, BlameIsRight
  <2>3. BlameIsRight'
    <3>1. \A i \in 1..Len(work') : ~started[work'[i]]
      BY <2>1 DEF BlameInv, BlameIsRight
    <3> QED
      BY <1>6, <2>2, <3>1 DEF Dequeue, BlameInv, BlameIsRight, InRun, entryVars
  <2> QED
    BY <1>6, <2>2, <2>3 DEF Dequeue, BlameInv, FreshOnSend, UnrunOnlyAtShutdown,
                            schedVars, entryVars, envVars
<1>7. ASSUME NEW w \in Workers, Ack(w) PROVE BlameInv'
  <2>1. /\ held[w] \in Entries /\ wpc[w] = "ack" /\ wpc' = [wpc EXCEPT ![w] = "idle"]
        /\ held' = [held EXCEPT ![w] = NoEntry] /\ done' = Append(done, held[w])
    BY <1>7 DEF Ack, GoTo, Holding
  <2>2. /\ Len(done) \in Nat /\ Len(done') = Len(done) + 1
        /\ \A i \in 1..Len(done) : done'[i] = done[i]
        /\ done'[Len(done) + 1] = held[w]
    BY <2>1, PutLast
  <2>3. BlameIsRight'
    BY <1>7, <2>1 DEF Ack, BlameInv, BlameIsRight, InRun, entryVars
  <2>4. ASSUME NEW i \in 1..Len(done'), ~started[done'[i]] PROVE cancelled
    <3>1. CASE i \in 1..Len(done)
      BY <2>2, <2>4, <3>1 DEF BlameInv, UnrunOnlyAtShutdown
    <3>2. CASE i = Len(done) + 1
      BY <2>1, <2>2, <2>4, <3>2 DEF BlameInv, UnrunOnlyAtShutdown
    <3> QED
      BY <2>2, <3>1, <3>2
  <2> QED
    BY <1>7, <2>1, <2>3, <2>4 DEF Ack, BlameInv, FreshOnSend, UnrunOnlyAtShutdown,
                                  schedVars, entryVars, envVars
<1>8. ASSUME NEW w \in Workers, StartCheck(w) PROVE BlameInv'
  <2>1. /\ Holding(w) /\ held[w] \in Entries /\ wpc[w] = "go"
        /\ wpc' = [wpc EXCEPT ![w] = "check"]
        /\ started' = [started EXCEPT ![held[w]] = TRUE]
    BY <1>8 DEF StartCheck, GoTo, Holding
  <2>2. BlameIsRight'
    <3>1. \A v \in Workers : v # w /\ Holding(v) => held[v] # held[w]
      BY <2>1 DEF NeverConcurrentWithItself
    <3>2. inflight[held[w]] /\ \A i \in 1..Len(work) : work[i] # held[w]
      BY <2>1 DEF NeverConcurrentWithItself
    <3>3. \A v \in Workers : InRun(v)' => started'[held[v]]
      BY <2>1, <3>1 DEF BlameInv, BlameIsRight, InRun, Holding
    <3>4. \A v \in Workers : wpc'[v] \in {"got", "go"} => ~started'[held[v]]
      BY <2>1, <3>1 DEF BlameInv, BlameIsRight, Holding
    <3>5. \A i \in 1..Len(work) : ~started'[work[i]]
      BY <2>1, <3>2 DEF BlameInv, BlameIsRight
    <3> QED
      BY <1>8, <2>1, <3>2, <3>3, <3>4, <3>5 DEF StartCheck, BlameInv, BlameIsRight, chanVars
  <2>3. FreshOnSend'
    BY <1>8, <2>1 DEF StartCheck, BlameInv, FreshOnSend, SendIsOut, schedVars
  <2>4. UnrunOnlyAtShutdown'
    BY <1>8, <2>1 DEF StartCheck, BlameInv, UnrunOnlyAtShutdown, chanVars, envVars, Holding
  <2> QED
    BY <2>2, <2>3, <2>4 DEF BlameInv
<1>9. CASE UNCHANGED vars
  BY <1>9 DEF vars, schedVars, chanVars, entryVars, workerVars, envVars, BlameInv,
              BlameIsRight, FreshOnSend, UnrunOnlyAtShutdown, InRun
<1> QED
  BY <1>1, <1>2, <1>3, <1>4, <1>5, <1>6, <1>7, <1>8, <1>9, QuietStep

\* The invariant behind Blame and Lifecycles.
LEMMA BlameInvariant == Spec => [](PoolInv /\ BlameInv)
<1>1. Init => BlameInv
  BY BlameInvInit
<1>2. PoolInv /\ BlameInv /\ [Next]_vars => BlameInv'
  BY BlameStep
<1> QED
  BY <1>1, <1>2, PoolInvariant, PTL DEF Spec

\* ErrSkipped means that the check is slow and ErrSkippedQueued that the pool is
\* too small: the flag that decides between them is set exactly while the target
\* is in a worker's hands and has begun, or its ack is on the way.
THEOREM Blame == Spec => []BlameIsRight
<1>1. BlameInv => BlameIsRight
  BY DEF BlameInv
<1> QED
  BY <1>1, BlameInvariant, PTL

-----------------------------------------------------------------------------
(***************************************************************************)
(* The runner implements TargetLifecycle.                                  *)
(***************************************************************************)

\* A step that changes no mark, no blame and no stop signal is a stutter.
LEMMA StutterStep ==
    UNCHANGED <<inflight, started, verdict, cancelled>> => UNCHANGED Lifecycle!vars
BY DEF Lifecycle!vars, PhaseOf

\* The scheduler takes an ack: the target goes back to idle, from its run or,
\* once cancelled, from the queue.
LEMMA TakeAckLifecycle ==
    ASSUME PoolInv, BlameInv, done # <<>>, Finish(Head(done)),
           UNCHANGED <<verdict, cancelled>>
    PROVE  Lifecycle!Next
<1> USE DEF PoolInv, TypeOK, ChannelTypeOK, EntryTypeOK
<1> DEFINE e == Head(done)
<1>1. e \in Entries /\ e = done[1] /\ 1 \in 1..Len(done)
  BY TakeFirst
<1>2. inflight[e] /\ (~started[e] => cancelled)
  BY <1>1 DEF NeverConcurrentWithItself, BlameInv, UnrunOnlyAtShutdown
<1>3. [x \in Entries |-> PhaseOf(x)]' = [[x \in Entries |-> PhaseOf(x)] EXCEPT ![e] = "idle"]
  BY <1>1 DEF Finish, PhaseOf
<1>4. CASE started[e]
  <2>1. Lifecycle!Finish(e)
    BY <1>1, <1>2, <1>3, <1>4 DEF Lifecycle!Finish, Lifecycle!Move, PhaseOf
  <2> QED
    BY <1>1, <2>1 DEF Lifecycle!Next
<1>5. CASE ~started[e]
  <2>1. Lifecycle!PassOver(e)
    BY <1>1, <1>2, <1>3, <1>5 DEF Lifecycle!PassOver, Lifecycle!Move, PhaseOf
  <2> QED
    BY <1>1, <2>1 DEF Lifecycle!Next
<1> QED
  BY <1>4, <1>5

\* The steps of the runner that the lifecycle does not show.
Unseen ==
    UNCHANGED <<inflight, started, verdict, cancelled>>

\* A step that touches neither flag is a stutter of the lifecycle.
LEMMA UnseenStep ==
    ASSUME Next, ~Cancel, ~DrainOne, ~WaitAck,
           \A e \in Entries : ~DispatchDue(e) /\ ~SkipDue(e),
           \A w \in Workers : ~StartCheck(w)
    PROVE  Unseen
<1> USE DEF Unseen, schedVars, entryVars, envVars
<1>1. CASE Consume \/ SecondRun \/ Terminated \/ RejectConfig \/ StartPool
  BY <1>1 DEF Consume, SecondRun, Terminated, RejectConfig, StartPool, vars
<1>2. CASE DrainEmpty \/ NothingDue \/ ReportSkip \/ Send
  BY <1>2 DEF DrainEmpty, NothingDue, ReportSkip, Send
<1>3. CASE SendCancelled \/ WaitTimer \/ WaitCancelled
  BY <1>3 DEF SendCancelled, WaitTimer, WaitCancelled
<1>4. CASE CloseWork \/ ReturnClean \/ ReturnTimeout
  BY <1>4 DEF CloseWork, ReturnClean, ReturnTimeout
<1>5. ASSUME NEW w \in Workers, Dequeue(w) \/ Exit(w) \/ Admit(w) \/ PassOver(w) PROVE Unseen
  BY <1>5 DEF Dequeue, Exit, Admit, PassOver
<1>6. ASSUME NEW w \in Workers, CheckReturns(w) \/ PublishReturns(w) PROVE Unseen
  BY <1>6 DEF CheckReturns, PublishReturns
<1>7. ASSUME NEW w \in Workers, BackedOff(w) \/ ReportRun(w) \/ Ack(w) PROVE Unseen
  BY <1>7 DEF BackedOff, ReportRun, Ack
<1> QED
  BY <1>1, <1>2, <1>3, <1>4, <1>5, <1>6, <1>7
     DEF Next, Run, Schedule, DispatchLap, Worker, OwnStep, CalledStep

\* Every step of the pool is one of the lifecycle's, or a stutter.
LEMMA LifecycleStep ==
    PoolInv /\ BlameInv /\ [Next]_vars => [Lifecycle!Next]_Lifecycle!vars
<1> SUFFICES ASSUME PoolInv, BlameInv, [Next]_vars
             PROVE  [Lifecycle!Next]_Lifecycle!vars
  OBVIOUS
<1> USE DEF PoolInv, TypeOK, EntryTypeOK, WorkerTypeOK, schedVars, entryVars, envVars
<1>1. CASE Unseen
  BY <1>1, StutterStep DEF Unseen
<1>2. CASE Cancel
  <2>1. [e \in Entries |-> PhaseOf(e)]' = [e \in Entries |-> PhaseOf(e)]
    BY <1>2 DEF Cancel, PhaseOf
  <2>2. Lifecycle!ShutDown
    BY <1>2, <2>1 DEF Cancel, Lifecycle!ShutDown
  <2> QED
    BY <2>2 DEF Lifecycle!Next
<1>3. CASE DrainOne
  BY <1>3, TakeAckLifecycle DEF DrainOne
<1>4. CASE WaitAck
  BY <1>4, TakeAckLifecycle DEF WaitAck
<1>5. ASSUME NEW e \in Entries, DispatchDue(e) PROVE Lifecycle!Next
  <2>1. ~inflight[e] /\ ~started[e]
    BY <1>5 DEF DispatchDue, BlameInv, BlameIsRight
  <2>2. [x \in Entries |-> PhaseOf(x)]' = [[x \in Entries |-> PhaseOf(x)] EXCEPT ![e] = "queued"]
    BY <1>5, <2>1 DEF DispatchDue, PhaseOf
  <2>3. Lifecycle!Dispatch(e)
    BY <1>5, <2>1, <2>2 DEF DispatchDue, Lifecycle!Dispatch, Lifecycle!Move, PhaseOf
  <2> QED
    BY <2>3 DEF Lifecycle!Next
<1>6. ASSUME NEW e \in Entries, SkipDue(e) PROVE Lifecycle!Next
  <2>1. [x \in Entries |-> PhaseOf(x)]' = [x \in Entries |-> PhaseOf(x)]
    BY <1>6 DEF SkipDue, PhaseOf
  <2>2. Lifecycle!Skip(e)
    BY <1>6, <2>1 DEF SkipDue, Lifecycle!Skip, PhaseOf
  <2> QED
    BY <2>2 DEF Lifecycle!Next
<1>7. ASSUME NEW w \in Workers, StartCheck(w) PROVE Lifecycle!Next
  <2> DEFINE e == held[w]
  <2>1. e \in Entries /\ Holding(w) /\ wpc[w] = "go"
    BY <1>7 DEF StartCheck, Holding
  <2>2. inflight[e] /\ ~started[e]
    BY <2>1 DEF NeverConcurrentWithItself, BlameInv, BlameIsRight
  <2>3. [x \in Entries |-> PhaseOf(x)]' = [[x \in Entries |-> PhaseOf(x)] EXCEPT ![e] = "running"]
    BY <1>7, <2>1, <2>2 DEF StartCheck, PhaseOf
  <2>4. Lifecycle!Start(e)
    BY <1>7, <2>1, <2>2, <2>3 DEF StartCheck, Lifecycle!Start, Lifecycle!Move, PhaseOf
  <2> QED
    BY <2>1, <2>4 DEF Lifecycle!Next
<1>8. CASE UNCHANGED vars
  BY <1>8, StutterStep DEF vars
<1> QED
  BY <1>1, <1>2, <1>3, <1>4, <1>5, <1>6, <1>7, <1>8, UnseenStep

\* All targets are idle at the start.
LEMMA LifecycleInit == Init => Lifecycle!Init
BY DEF Init, Lifecycle!Init, PhaseOf

\* The pool implements the lifecycle of the package documentation: idle, queued,
\* running, back to idle, past the run only at shutdown, the blame of a skip
\* being the phase the target is in.
THEOREM Lifecycles == Spec => ImplementsLifecycle
<1>1. Init => Lifecycle!Init
  BY LifecycleInit
<1>2. PoolInv /\ BlameInv /\ [Next]_vars => [Lifecycle!Next]_Lifecycle!vars
  BY LifecycleStep
<1> QED
  BY <1>1, <1>2, BlameInvariant, PTL DEF Spec, ImplementsLifecycle, Lifecycle!Spec

-----------------------------------------------------------------------------
(***************************************************************************)
(* The end of Run, the retries, the drain that precedes a skip.            *)
(***************************************************************************)

\* Results() is closed by the two returns that leave nobody behind.
LEMMA CleanReturnStep == PoolInv /\ CleanReturn /\ [Next]_vars => CleanReturn'
<1> SUFFICES ASSUME PoolInv, CleanReturn, [Next]_vars PROVE CleanReturn'
  OBVIOUS
<1> USE DEF PoolInv, TypeOK, ResultTypeOK, ClosedOnReturn, CleanReturn,
            schedVars, resultVars, workerVars
<1>1. CASE UNCHANGED <<closes, outcome, spc, wpc>>
  BY <1>1 DEF AllGone
<1>2. CASE Cancel \/ Consume \/ SecondRun \/ Terminated \/ UNCHANGED vars
  BY <1>1, <1>2 DEF Cancel, Consume, SecondRun, Terminated, vars
<1>3. CASE RejectConfig
  BY <1>3 DEF RejectConfig, AllGone, NoPoolYet
<1>4. CASE StartPool
  BY <1>4 DEF StartPool
<1>5. CASE Schedule
  <2>1. spc # "returned" /\ UNCHANGED <<closes, outcome>>
    BY <1>5 DEF Schedule, DispatchLap, DrainOne, DrainEmpty, NothingDue, DispatchDue, SkipDue,
                ReportSkip, Send, SendCancelled, WaitTimer, WaitAck, WaitCancelled, BeginLap
  <2> QED
    BY <2>1
<1>6. CASE CloseWork \/ ReturnTimeout
  BY <1>6 DEF CloseWork, ReturnTimeout
<1>7. CASE ReturnClean
  BY <1>7 DEF ReturnClean, AllGone
<1>8. ASSUME NEW w \in Workers, Worker(w) PROVE CleanReturn'
  <2>1. wpc[w] \notin {"none", "exit"}
    BY <1>8 DEF Worker, OwnStep, CalledStep, Dequeue, Exit, Admit, PassOver, StartCheck,
                BackedOff, ReportRun, Ack, CheckReturns, PublishReturns
  <2>2. UNCHANGED <<closes, outcome, spc>>
    BY <1>8 DEF Worker, OwnStep, CalledStep, Dequeue, Exit, Admit, PassOver, StartCheck,
                BackedOff, ReportRun, Ack, CheckReturns, PublishReturns
  <2>3. closes # 1
    BY <2>1 DEF AllGone
  <2> QED
    BY <2>2, <2>3
<1> QED
  BY <1>2, <1>3, <1>4, <1>5, <1>6, <1>7, <1>8 DEF Next, Run

\* Run closes Results() exactly when it returns without a timeout, and then no
\* worker is left that could Publish or report.
THEOREM ReturnsClean == Spec => []CleanReturn
<1>1. Init => CleanReturn
  BY DEF Init, CleanReturn
<1>2. PoolInv /\ CleanReturn /\ [Next]_vars => CleanReturn'
  BY CleanReturnStep
<1> QED
  BY <1>1, <1>2, PoolInvariant, PTL DEF Spec

\* A back-off ends early only if the context is cancelled.
LEMMA GivesUpStep ==
    TypeOK /\ GivesUpEarlyOnlyOnCancel /\ [Next]_vars => GivesUpEarlyOnlyOnCancel'
<1> SUFFICES ASSUME TypeOK, GivesUpEarlyOnlyOnCancel, [Next]_vars
             PROVE  GivesUpEarlyOnlyOnCancel'
  OBVIOUS
<1> USE DEF TypeOK, WorkerTypeOK, GivesUpEarlyOnlyOnCancel, workerVars, envVars
<1>1. CASE Cancel \/ Consume \/ SecondRun \/ Terminated \/ UNCHANGED vars
  BY <1>1 DEF Cancel, Consume, SecondRun, Terminated, vars
<1>2. CASE Run /\ ~StartPool
  BY <1>2 DEF Run, RejectConfig, Schedule, DispatchLap, DrainOne, DrainEmpty, NothingDue,
              DispatchDue, SkipDue, ReportSkip, Send, SendCancelled, WaitTimer, WaitAck,
              WaitCancelled, CloseWork, ReturnClean, ReturnTimeout
<1>3. CASE StartPool
  BY <1>3 DEF StartPool
<1>4. ASSUME NEW w \in Workers, BackedOff(w) \/ CheckReturns(w)
      PROVE  GivesUpEarlyOnlyOnCancel'
  BY <1>4 DEF BackedOff, CheckReturns, GoTo
<1>5. ASSUME NEW w \in Workers, PublishReturns(w) PROVE GivesUpEarlyOnlyOnCancel'
  <2>1. PICK ok \in BOOLEAN :
            /\ pubOK' = [pubOK EXCEPT ![w] = ok]
            /\ wpc' = [wpc EXCEPT ![w] = IF ok \/ attempts[w] + 1 = MaxAttempts
                                         THEN "report" ELSE "backoff"]
    BY <1>5 DEF PublishReturns, GoTo
  <2>2. attempts' = [attempts EXCEPT ![w] = @ + 1] /\ UNCHANGED cancelled
    BY <1>5 DEF PublishReturns
  <2> QED
    BY <2>1, <2>2 DEF MaxAttempts
<1>6. ASSUME NEW w \in Workers, Dequeue(w) \/ Exit(w) \/ Admit(w) \/ PassOver(w)
      PROVE  GivesUpEarlyOnlyOnCancel'
  BY <1>6 DEF Dequeue, Exit, Admit, PassOver, GoTo
<1>7. ASSUME NEW w \in Workers, StartCheck(w) \/ ReportRun(w) \/ Ack(w)
      PROVE  GivesUpEarlyOnlyOnCancel'
  BY <1>7 DEF StartCheck, ReportRun, Ack, GoTo
<1> QED
  BY <1>1, <1>2, <1>3, <1>4, <1>5, <1>6, <1>7 DEF Next, Worker, OwnStep, CalledStep

\* A failed publish is retried up to the bound; only the shutdown cuts it short.
THEOREM GivesUp == Spec => []GivesUpEarlyOnlyOnCancel
<1>1. Init => GivesUpEarlyOnlyOnCancel
  BY DEF Init, GivesUpEarlyOnlyOnCancel
<1>2. TypeOK /\ GivesUpEarlyOnlyOnCancel /\ [Next]_vars => GivesUpEarlyOnlyOnCancel'
  BY GivesUpStep
<1> QED
  BY <1>1, <1>2, TypeCorrect, PTL DEF Spec

\* What was acked when the lap began is acked still or taken; once the drain is
\* over it is taken.
DrainInv ==
    /\ spc = "new" => settled = {}
    /\ spc = "drain" => \A e \in settled :
            ~inflight[e] \/ \E i \in 1..Len(done) : done[i] = e
    /\ spc = "judge" => \A e \in settled : ~inflight[e]
    /\ NoFalseSkip

\* The acks of the lap are drained before anything is judged.
LEMMA DrainInvStep == PoolInv /\ DrainInv /\ [Next]_vars => DrainInv'
<1> SUFFICES ASSUME PoolInv, DrainInv, [Next]_vars PROVE DrainInv'
  OBVIOUS
<1> USE DEF PoolInv, TypeOK, SchedTypeOK, ChannelTypeOK, EntryTypeOK, DrainInv, NoFalseSkip,
            schedVars, entryVars, chanVars
<1>1. CASE UNCHANGED <<schedVars, inflight, done>>
  BY <1>1
<1>2. CASE Cancel \/ Consume \/ SecondRun \/ Terminated \/ UNCHANGED vars
  BY <1>1, <1>2 DEF Cancel, Consume, SecondRun, Terminated, vars
<1>3. CASE RejectConfig \/ StartPool
  BY <1>3 DEF RejectConfig, StartPool
<1>4. CASE DrainOne
  <2>1. /\ Head(done) = done[1] /\ Head(done) \in Entries
        /\ \A i \in 1..Len(done) : i = 1 \/ (i - 1 \in 1..Len(done') /\ done'[i - 1] = done[i])
    BY <1>4 DEF DrainOne
  <2>2. spc = "drain" /\ UNCHANGED <<spc, settled>> /\ inflight' = [inflight EXCEPT ![Head(done)] = FALSE]
    BY <1>4 DEF DrainOne, Finish
  <2>3. ASSUME NEW e \in settled, inflight'[e] PROVE \E i \in 1..Len(done') : done'[i] = e
    BY <2>1, <2>2, <2>3
  <2> QED
    BY <2>2, <2>3
<1>5. CASE DrainEmpty
  <2>1. Len(done) = 0
    BY <1>5 DEF DrainEmpty
  <2> QED
    BY <1>5, <2>1 DEF DrainEmpty
<1>6. CASE NothingDue
  BY <1>6 DEF NothingDue
<1>7. ASSUME NEW e \in Entries, DispatchDue(e) \/ SkipDue(e) PROVE DrainInv'
  BY <1>7 DEF DispatchDue, SkipDue
<1>8. CASE ReportSkip \/ Send \/ WaitTimer \/ WaitAck
  <2>1. spc' = "drain" /\ settled' = ElementsOf(done')
    BY <1>8 DEF ReportSkip, Send, WaitTimer, WaitAck, BeginLap
  <2> QED
    BY <2>1 DEF ElementsOf
<1>9. CASE SendCancelled \/ WaitCancelled \/ CloseWork \/ ReturnClean \/ ReturnTimeout
  BY <1>9 DEF SendCancelled, WaitCancelled, CloseWork, ReturnClean, ReturnTimeout
<1>10. ASSUME NEW w \in Workers, Ack(w) PROVE DrainInv'
  <2>1. held[w] \in Entries /\ done' = Append(done, held[w]) /\ UNCHANGED <<schedVars, inflight>>
    BY <1>10 DEF Ack, Holding, WorkerTypeOK
  <2>2. \A i \in 1..Len(done) : i \in 1..Len(done') /\ done'[i] = done[i]
    BY <2>1, PutLast
  <2> QED
    BY <2>1, <2>2
<1>11. ASSUME NEW w \in Workers, Worker(w), ~Ack(w) PROVE DrainInv'
  <2>1. UNCHANGED <<schedVars, inflight, done>>
    BY <1>11 DEF Worker, OwnStep, CalledStep, Dequeue, Exit, Admit, PassOver, StartCheck,
                 BackedOff, ReportRun, CheckReturns, PublishReturns
  <2> QED
    BY <1>1, <2>1
<1> QED
  BY <1>2, <1>3, <1>4, <1>5, <1>6, <1>7, <1>8, <1>9, <1>10, <1>11
     DEF Next, Run, Schedule, DispatchLap

\* Whoever had acked before the lap began is not skipped in it.
THEOREM SkipsAreReal == Spec => []NoFalseSkip
<1>1. Init => DrainInv
  BY DEF Init, DrainInv, NoFalseSkip
<1>2. PoolInv /\ DrainInv /\ [Next]_vars => DrainInv'
  BY DrainInvStep
<1>3. DrainInv => NoFalseSkip
  BY DEF DrainInv
<1> QED
  BY <1>1, <1>2, <1>3, PoolInvariant, PTL DEF Spec

\* Every skip is real and blames the right side: the two facts above together.
THEOREM SkipsTrue == Spec => []SkipsAreTrue
<1>1. BlameIsRight /\ NoFalseSkip => SkipsAreTrue
  BY DEF SkipsAreTrue
<1> QED
  BY <1>1, Blame, SkipsAreReal, PTL

-----------------------------------------------------------------------------
(***************************************************************************)
(* The accounting of slots.                                                *)
(***************************************************************************)

\* The slots of e whose fate is known.
Settled(e) ==
    tally[e]["completed"] + tally[e]["slow"] + tally[e]["queued"]
        + tally[e]["lost"] + tally[e]["unrun"]

\* A skip of e that is about to be reported.
SkipOpen(e) == spc = "report" /\ cur = e

\* EverySlotAccountedFor, said once more with the names above.
Accounted(e) ==
    slots[e] = Settled(e) + (IF RunOpen(e) THEN 1 ELSE 0) + (IF SkipOpen(e) THEN 1 ELSE 0)

\* The fates of an entry are counts.
LEMMA SettledType ==
    ASSUME ResultTypeOK, NEW e \in Entries
    PROVE  Settled(e) \in Nat /\ slots[e] \in Nat
BY RunnerAssumption DEF ResultTypeOK, Settled, Fates

\* The two ways to write the account are the same.
LEMMA AccountedFor ==
    TypeOK => (EverySlotAccountedFor <=> \A e \in Entries : Accounted(e))
<1> SUFFICES ASSUME TypeOK PROVE EverySlotAccountedFor <=> \A e \in Entries : Accounted(e)
  OBVIOUS
<1> USE DEF TypeOK, ResultTypeOK
<1>1. ASSUME NEW e \in Entries
      PROVE  tally[e]["completed"] + tally[e]["slow"] + tally[e]["queued"]
                 + tally[e]["lost"] + tally[e]["unrun"] + Open(e)
             = Settled(e) + (IF RunOpen(e) THEN 1 ELSE 0) + (IF SkipOpen(e) THEN 1 ELSE 0)
  <2> DEFINE run == IF RunOpen(e) THEN 1 ELSE 0
             skip == IF SkipOpen(e) THEN 1 ELSE 0
  <2>1. Open(e) = run + skip
    BY DEF Open, SkipOpen
  <2>2. Settled(e) \in Nat /\ run \in Nat /\ skip \in Nat
    BY SettledType
  <2>3. Settled(e) + (run + skip) = Settled(e) + run + skip
    <3> HIDE DEF run, skip
    <3> QED
      BY <2>2
  <2> QED
    BY <2>1, <2>3 DEF Settled
<1> QED
  BY <1>1 DEF EverySlotAccountedFor, Accounted

\* One more fate for e is one more slot of e that is settled.
LEMMA CountStep ==
    ASSUME ResultTypeOK, NEW e \in Entries, NEW f \in Fates, Count(e, f)
    PROVE  /\ Settled(e)' = Settled(e) + 1
           /\ \A x \in Entries : x # e => Settled(x)' = Settled(x)
<1>1. /\ \A x \in Entries, g \in Fates : tally[x][g] \in Nat
      /\ \A x \in Entries : x # e => tally'[x] = tally[x]
      /\ \A g \in Fates : tally'[e][g] = IF g = f THEN tally[e][g] + 1 ELSE tally[e][g]
  BY DEF ResultTypeOK, Count
<1> QED
  BY <1>1 DEF Settled, Fates

\* Whatever becomes of a Result, it settles one slot.
LEMMA ReportStep ==
    ASSUME ResultTypeOK, NEW e \in Entries, NEW f \in Fates, ReportResult(e, f)
    PROVE  /\ Settled(e)' = Settled(e) + 1
           /\ \A x \in Entries : x # e => Settled(x)' = Settled(x)
<1>1. Count(e, f) \/ Count(e, "lost")
  BY DEF ReportResult
<1>2. "lost" \in Fates
  BY DEF Fates
<1> QED
  BY <1>1, <1>2, CountStep

\* A step that touches neither a count nor what is open.
Even ==
    /\ UNCHANGED <<slots, tally>>
    /\ \A e \in Entries : (RunOpen(e)' <=> RunOpen(e)) /\ (SkipOpen(e)' <=> SkipOpen(e))

\* Where nothing is counted, opened or closed, the account holds.
LEMMA EvenStep ==
    Even /\ (\A e \in Entries : Accounted(e)) => (\A e \in Entries : Accounted(e)')
BY DEF Even, Accounted, Settled

\* No run is opened or closed unless an entry is queued or a worker settles it.
LEMMA RunOpenStays ==
    ASSUME UNCHANGED <<work, held>>,
           \A w \in Workers :
               Holding(w)' /\ wpc'[w] # "ack" <=> Holding(w) /\ wpc[w] # "ack"
    PROVE  \A e \in Entries : RunOpen(e)' <=> RunOpen(e)
BY DEF RunOpen

\* Each action opens a slot, settles one, or leaves the account alone.
LEMMA AccountedStep ==
    PoolInv /\ (\A e \in Entries : Accounted(e)) /\ [Next]_vars
        => \A e \in Entries : Accounted(e)'
<1> SUFFICES ASSUME PoolInv, \A e \in Entries : Accounted(e), [Next]_vars
             PROVE  \A e \in Entries : Accounted(e)'
  OBVIOUS
<1> USE DEF PoolInv, TypeOK
<1>1. CASE Even
  BY <1>1, EvenStep
<1>2. CASE Cancel \/ Consume \/ SecondRun \/ RejectConfig \/ Terminated \/ UNCHANGED vars
  <2>1. UNCHANGED <<slots, tally, work, held, wpc>> /\ UNCHANGED cur
        /\ (spc' = "report" <=> spc = "report")
    BY <1>2 DEF Cancel, Consume, SecondRun, RejectConfig, Terminated, vars, schedVars,
                chanVars, workerVars, resultVars
  <2> QED
    BY <1>1, <2>1, RunOpenStays DEF Even, SkipOpen, Holding
<1>3. CASE StartPool
  <2>1. /\ UNCHANGED <<slots, tally, work, held>> /\ spc = "new" /\ spc' # "report"
        /\ wpc' = [w \in Workers |-> "idle"]
    BY <1>3 DEF StartPool, resultVars, chanVars
  <2>2. \A w \in Workers : ~Holding(w) /\ ~Holding(w)'
    BY <2>1 DEF NoPoolYet, Holding
  <2> QED
    BY <1>1, <2>1, <2>2, RunOpenStays DEF Even, SkipOpen
<1>4. CASE DrainOne \/ DrainEmpty \/ NothingDue \/ SendCancelled \/ WaitTimer \/ WaitAck
             \/ WaitCancelled \/ CloseWork \/ ReturnClean \/ ReturnTimeout
  <2>1. UNCHANGED <<slots, tally, work, held, wpc>> /\ spc # "report" /\ spc' # "report"
    BY <1>4 DEF DrainOne, DrainEmpty, NothingDue, SendCancelled, WaitTimer, WaitAck,
                WaitCancelled, CloseWork, ReturnClean, ReturnTimeout, BeginLap,
                schedVars, chanVars, workerVars, resultVars
  <2> QED
    BY <1>1, <2>1, RunOpenStays DEF Even, SkipOpen, Holding
<1>5. ASSUME NEW d \in Entries, DispatchDue(d) PROVE \A e \in Entries : Accounted(e)'
  <2>1. UNCHANGED <<slots, tally, work, held, wpc>> /\ spc # "report" /\ spc' # "report"
    BY <1>5 DEF DispatchDue, chanVars, workerVars, resultVars
  <2> QED
    BY <1>1, <2>1, RunOpenStays DEF Even, SkipOpen, Holding
<1>6. ASSUME NEW d \in Entries, SkipDue(d), NEW e \in Entries PROVE Accounted(e)'
  <2>1. /\ UNCHANGED <<tally, work, held, wpc>> /\ spc = "judge" /\ spc' = "report" /\ cur' = d
        /\ slots' = [slots EXCEPT ![d] = @ + 1]
    BY <1>6 DEF SkipDue, chanVars, workerVars
  <2>2. RunOpen(e)' <=> RunOpen(e)
    BY <2>1, RunOpenStays DEF Holding
  <2>3. ~SkipOpen(e) /\ (SkipOpen(e)' <=> e = d)
    BY <2>1 DEF SkipOpen
  <2>4. slots'[e] = slots[e] + (IF e = d THEN 1 ELSE 0) /\ Settled(e)' = Settled(e)
    BY <2>1, SettledType DEF ResultTypeOK, Settled
  <2> QED
    BY <2>2, <2>3, <2>4, SettledType DEF Accounted
<1>7. ASSUME ReportSkip, NEW e \in Entries PROVE Accounted(e)'
  <2>1. /\ UNCHANGED <<slots, work, held, wpc>> /\ spc = "report" /\ spc' = "drain"
        /\ ReportResult(cur, verdict) /\ cur \in Entries /\ verdict \in Fates
    BY <1>7 DEF ReportSkip, BeginLap, workerVars, SchedTypeOK, Fates
  <2>2. RunOpen(e)' <=> RunOpen(e)
    BY <2>1, RunOpenStays DEF Holding
  <2>3. ~SkipOpen(e)' /\ (SkipOpen(e) <=> e = cur)
    BY <2>1 DEF SkipOpen
  <2>4. Settled(e)' = Settled(e) + (IF e = cur THEN 1 ELSE 0)
    BY <2>1, ReportStep, SettledType
  <2> QED
    BY <2>1, <2>2, <2>3, <2>4, SettledType DEF Accounted
<1>8. ASSUME Send, NEW e \in Entries PROVE Accounted(e)'
  <2>1. /\ UNCHANGED <<tally, held, wpc>> /\ spc = "send" /\ spc' = "drain" /\ cur \in Entries
        /\ work' = Append(work, cur) /\ slots' = [slots EXCEPT ![cur] = @ + 1]
    BY <1>8 DEF Send, BeginLap, workerVars, SchedTypeOK
  <2>2. /\ Len(work) \in Nat /\ Len(work') = Len(work) + 1
        /\ \A i \in 1..Len(work) : work'[i] = work[i]
        /\ work'[Len(work) + 1] = cur
    BY <2>1, PutLast DEF ChannelTypeOK
  <2>3. ~RunOpen(cur)
    BY <2>1 DEF SendIsOut, RunOpen, Holding
  <2>4. RunOpen(e)' <=> RunOpen(e) \/ e = cur
    <3>1. (\E i \in 1..Len(work') : work'[i] = e)
            <=> e = cur \/ \E i \in 1..Len(work) : work[i] = e
      BY <2>2
    <3> QED
      BY <2>1, <3>1 DEF RunOpen, Holding
  <2>5. ~SkipOpen(e) /\ ~SkipOpen(e)'
    BY <2>1 DEF SkipOpen
  <2>6. slots'[e] = slots[e] + (IF e = cur THEN 1 ELSE 0) /\ Settled(e)' = Settled(e)
    BY <2>1, SettledType DEF ResultTypeOK, Settled
  <2> QED
    BY <2>3, <2>4, <2>5, <2>6, SettledType DEF Accounted
<1>9. ASSUME NEW w \in Workers, Dequeue(w) PROVE \A e \in Entries : Accounted(e)'
  <2>1. /\ UNCHANGED <<slots, tally, spc, cur>> /\ wpc[w] = "idle" /\ work # <<>>
        /\ wpc' = [wpc EXCEPT ![w] = "got"] /\ held' = [held EXCEPT ![w] = Head(work)]
        /\ work' = Tail(work)
    BY <1>9 DEF Dequeue, GoTo, schedVars, resultVars
  <2>2. ASSUME NEW e \in Entries PROVE RunOpen(e)' <=> RunOpen(e)
    <3>1. (\E i \in 1..Len(work) : work[i] = e)
            <=> e = Head(work) \/ \E i \in 1..Len(work') : work'[i] = e
      <4>1. /\ Head(work) = work[1] /\ 1 \in 1..Len(work) /\ Len(work) \in Nat
            /\ \A i \in 1..Len(work') : i + 1 \in 1..Len(work) /\ work'[i] = work[i + 1]
        BY <2>1, TakeFirst DEF ChannelTypeOK
      <4>2. \A i \in 1..Len(work) : i = 1 \/ (i - 1 \in 1..Len(work') /\ work'[i - 1] = work[i])
        BY <2>1 DEF ChannelTypeOK
      <4> QED
        BY <4>1, <4>2
    <3>2. /\ ~Holding(w) /\ Holding(w)' /\ held'[w] = Head(work) /\ wpc'[w] # "ack"
          /\ \A v \in Workers : v # w => held'[v] = held[v] /\ wpc'[v] = wpc[v]
      BY <2>1 DEF Holding, WorkerTypeOK
    <3> QED
      BY <3>1, <3>2 DEF RunOpen, Holding
  <2> QED
    BY <1>1, <2>1, <2>2 DEF Even, SkipOpen
<1>10. ASSUME NEW w \in Workers, PassOver(w) \/ ReportRun(w), NEW e \in Entries
       PROVE  Accounted(e)'
  <2>1. /\ UNCHANGED <<slots, spc, cur, work, held>> /\ wpc[w] \in {"got", "report"}
        /\ wpc' = [wpc EXCEPT ![w] = "ack"]
    BY <1>10 DEF PassOver, ReportRun, GoTo, schedVars, chanVars
  <2>2. Holding(w) /\ held[w] \in Entries
    BY <2>1 DEF Holding, WorkerTypeOK
  <2>3. /\ Settled(held[w])' = Settled(held[w]) + 1
        /\ \A x \in Entries : x # held[w] => Settled(x)' = Settled(x)
    <3>1. CASE PassOver(w)
      BY <2>2, <3>1, CountStep DEF PassOver, Fates
    <3>2. CASE ReportRun(w)
      BY <2>2, <3>2, ReportStep DEF ReportRun, Fates
    <3> QED
      BY <1>10, <3>1, <3>2
  <2>4. RunOpen(held[w]) /\ ~RunOpen(held[w])'
    <3>1. RunOpen(held[w])
      BY <2>1, <2>2 DEF RunOpen
    <3>2. \A i \in 1..Len(work) : work[i] # held[w]
      BY <2>2 DEF NeverConcurrentWithItself
    <3>3. \A v \in Workers : v # w /\ Holding(v) => held[v] # held[w]
      BY <2>2 DEF NeverConcurrentWithItself
    <3> QED
      BY <2>1, <3>1, <3>2, <3>3 DEF RunOpen, Holding, WorkerTypeOK
  <2>5. e # held[w] => (RunOpen(e)' <=> RunOpen(e))
    BY <2>1 DEF RunOpen, Holding, WorkerTypeOK
  <2>6. SkipOpen(e)' <=> SkipOpen(e)
    BY <2>1 DEF SkipOpen
  <2> QED
    BY <2>1, <2>3, <2>4, <2>5, <2>6, SettledType DEF Accounted
<1>11. ASSUME NEW w \in Workers, Exit(w) \/ Admit(w) \/ StartCheck(w) \/ CheckReturns(w)
                                  \/ PublishReturns(w) \/ BackedOff(w)
       PROVE  \A e \in Entries : Accounted(e)'
  <2>1. /\ UNCHANGED <<slots, tally, spc, cur, work, held>>
        /\ \A v \in Workers : v # w => wpc'[v] = wpc[v]
        /\ Holding(w)' /\ wpc'[w] # "ack" <=> Holding(w) /\ wpc[w] # "ack"
    BY <1>11 DEF Exit, Admit, StartCheck, CheckReturns, PublishReturns, BackedOff, GoTo,
                 Holding, WorkerTypeOK, schedVars, chanVars, resultVars
  <2>2. \A v \in Workers :
            Holding(v)' /\ wpc'[v] # "ack" <=> Holding(v) /\ wpc[v] # "ack"
    BY <2>1 DEF Holding
  <2> QED
    BY <1>1, <2>1, <2>2, RunOpenStays DEF Even, SkipOpen
<1>12. ASSUME NEW w \in Workers, Ack(w) PROVE \A e \in Entries : Accounted(e)'
  <2>1. /\ UNCHANGED <<slots, tally, spc, cur, work>> /\ wpc[w] = "ack" /\ wpc'[w] = "idle"
        /\ \A v \in Workers : v # w => wpc'[v] = wpc[v] /\ held'[v] = held[v]
    BY <1>12 DEF Ack, GoTo, WorkerTypeOK, schedVars, resultVars
  <2>2. \A e \in Entries : RunOpen(e)' <=> RunOpen(e)
    BY <2>1 DEF RunOpen, Holding
  <2> QED
    BY <1>1, <2>1, <2>2 DEF Even, SkipOpen
<1> QED
  BY <1>2, <1>3, <1>4, <1>5, <1>6, <1>7, <1>8, <1>9, <1>10, <1>11, <1>12
     DEF Next, Run, Schedule, DispatchLap, Worker, OwnStep, CalledStep

\* Each slot has exactly one fate, or is still open: a run that is queued or in
\* hand, a skip that is about to be reported.
THEOREM SlotsAddUp == Spec => []EverySlotAccountedFor
<1>1. Init => \A e \in Entries : Accounted(e)
  <2> SUFFICES ASSUME Init, NEW e \in Entries PROVE Accounted(e)
    OBVIOUS
  <2>1. ~RunOpen(e) /\ ~SkipOpen(e)
    BY DEF Init, RunOpen, SkipOpen, Holding
  <2> QED
    BY <2>1 DEF Init, Accounted, Settled, Fates
<1>2. PoolInv /\ (\A e \in Entries : Accounted(e)) /\ [Next]_vars
          => (\A e \in Entries : Accounted(e))'
  BY AccountedStep
<1>3. PoolInv /\ (\A e \in Entries : Accounted(e)) => EverySlotAccountedFor
  BY AccountedFor DEF PoolInv
<1> QED
  BY <1>1, <1>2, <1>3, PoolInvariant, PTL DEF Spec

-----------------------------------------------------------------------------
(***************************************************************************)
(* The fleet-wide sums: what Skipped() and Dropped() say of all targets.   *)
(***************************************************************************)

\* The skips that were told as such, or are about to be.
Pending == IF spc = "report" THEN 1 ELSE 0

FleetSums ==
    /\ dropped = Total("lost")
    /\ Total("slow") + Total("queued") + Pending <= skipped
    /\ skipped <= Total("slow") + Total("queued") + Pending + dropped

\* A sum over the targets is a natural.
LEMMA TotalType ==
    ASSUME ResultTypeOK, NEW f \in Fates
    PROVE  Total(f) \in Nat
<1> DEFINE t == [e \in Entries |-> tally[e][f]]
<1>1. IsFiniteSet(Entries) /\ t \in [Entries -> Nat]
  BY RunnerAssumption DEF ResultTypeOK
<1>2. SumFunction(t) \in Nat
  <2> HIDE DEF t
  <2> QED
    BY <1>1, SumType
<1> QED
  BY <1>2 DEF Total

\* One more fate of one entry is one more in that fate's sum, and in no other.
LEMMA TotalStep ==
    ASSUME ResultTypeOK, ResultTypeOK', NEW e \in Entries, NEW f \in Fates, Count(e, f)
    PROVE  /\ Total(f)' = Total(f) + 1
           /\ \A g \in Fates : g # f => Total(g)' = Total(g)
<1>1. IsFiniteSet(Entries)
  BY RunnerAssumption
<1>2. ASSUME NEW g \in Fates
      PROVE  Total(g)' = Total(g) + (IF g = f THEN 1 ELSE 0)
  <2> DEFINE t == [x \in Entries |-> tally[x][g]]
             u == [x \in Entries |-> tally'[x][g]]
  <2>1. t \in [Entries -> Nat] /\ u \in [Entries -> Nat]
    BY DEF ResultTypeOK
  <2>2. \A x \in Entries : x # e => u[x] = t[x]
    BY DEF ResultTypeOK, Count
  <2>3. u[e] = t[e] + (IF g = f THEN 1 ELSE 0)
    BY DEF ResultTypeOK, Count
  <2>4. Total(g) = SumFunction(t) /\ Total(g)' = SumFunction(u)
    BY DEF Total
  <2>5. t[e] \in Nat
    BY <2>1
  <2> HIDE DEF t, u
  <2>6. SumFunction(u) + t[e] = SumFunction(t) + u[e]
    BY <1>1, <2>1, <2>2, SumPlus
  <2>7. SumFunction(t) \in Nat /\ SumFunction(u) \in Nat
    BY <1>1, <2>1, SumType
  <2> QED
    BY <2>3, <2>4, <2>5, <2>6, <2>7
<1>3. \A g \in Fates : Total(g) \in Nat
  BY TotalType
<1> QED
  BY <1>2, <1>3

\* What becomes of a reported Result, in the sums.
LEMMA ReportTotals ==
    ASSUME ResultTypeOK, ResultTypeOK', NEW e \in Entries, NEW f \in Fates,
           f # "lost", ReportResult(e, f)
    PROVE  \/ /\ dropped' = dropped /\ Total("lost")' = Total("lost")
              /\ Total(f)' = Total(f) + 1
              /\ \A g \in Fates : g # f => Total(g)' = Total(g)
           \/ /\ dropped' = dropped + 1 /\ Total("lost")' = Total("lost") + 1
              /\ \A g \in Fates : g # "lost" => Total(g)' = Total(g)
<1>1. "lost" \in Fates
  BY DEF Fates
<1>2. CASE Count(e, f) /\ dropped' = dropped
  BY <1>1, <1>2, TotalStep
<1>3. CASE Count(e, "lost") /\ dropped' = dropped + 1
  BY <1>1, <1>3, TotalStep
<1> QED
  BY <1>2, <1>3 DEF ReportResult

\* All sums begin at zero.
LEMMA FleetSumsInit == Init => FleetSums
<1> SUFFICES ASSUME Init PROVE FleetSums
  OBVIOUS
<1>1. IsFiniteSet(Entries)
  BY RunnerAssumption
<1>2. ASSUME NEW f \in Fates PROVE Total(f) = 0
  <2> DEFINE t == [e \in Entries |-> tally[e][f]]
  <2>1. t \in [Entries -> Nat] /\ \A e \in Entries : t[e] = 0
    BY DEF Init
  <2>2. SumFunction(t) = 0
    <3> HIDE DEF t
    <3> QED
      BY <1>1, <2>1, SumZero
  <2> QED
    BY <2>2 DEF Total
<1>3. Total("lost") = 0 /\ Total("slow") = 0 /\ Total("queued") = 0
  BY <1>2 DEF Fates
<1> QED
  BY <1>3 DEF Init, FleetSums, Pending

\* The sums move with the counters that claim to know them.
LEMMA FleetSumsStep == PoolInv /\ TypeOK' /\ FleetSums /\ [Next]_vars => FleetSums'
<1> SUFFICES ASSUME PoolInv, TypeOK', FleetSums, [Next]_vars PROVE FleetSums'
  OBVIOUS
<1> USE DEF PoolInv, TypeOK
<1>t. /\ "lost" \in Fates /\ "slow" \in Fates /\ "queued" \in Fates
      /\ "completed" \in Fates /\ "unrun" \in Fates
  BY DEF Fates
<1>n. /\ Total("lost") \in Nat /\ Total("slow") \in Nat /\ Total("queued") \in Nat
      /\ dropped \in Nat /\ skipped \in Nat
  BY <1>t, TotalType DEF ResultTypeOK
<1>s. ASSUME UNCHANGED <<dropped, skipped>>, spc' = "report" <=> spc = "report",
             Total("lost")' = Total("lost"), Total("slow")' = Total("slow"),
             Total("queued")' = Total("queued")
      PROVE  FleetSums'
  BY <1>s DEF FleetSums, Pending
<1>0. CASE UNCHANGED <<tally, dropped, skipped>> /\ (spc' = "report" <=> spc = "report")
  <2>1. Total("lost")' = Total("lost") /\ Total("slow")' = Total("slow")
        /\ Total("queued")' = Total("queued")
    BY <1>0 DEF Total
  <2> QED
    BY <1>0, <1>s, <2>1
<1>1. CASE Cancel \/ Consume \/ SecondRun \/ Terminated \/ UNCHANGED vars
  BY <1>0, <1>1 DEF Cancel, Consume, SecondRun, Terminated, vars, schedVars, resultVars
<1>2. CASE RejectConfig \/ StartPool \/ DrainOne \/ DrainEmpty \/ NothingDue \/ Send
             \/ SendCancelled \/ WaitTimer \/ WaitAck \/ WaitCancelled \/ CloseWork
             \/ ReturnClean \/ ReturnTimeout \/ \E e \in Entries : DispatchDue(e)
  <2>1. spc # "report" /\ spc' # "report" /\ UNCHANGED <<tally, dropped, skipped>>
    BY <1>2 DEF RejectConfig, StartPool, DrainOne, DrainEmpty, NothingDue, Send,
                SendCancelled, WaitTimer, WaitAck, WaitCancelled, CloseWork, ReturnClean,
                ReturnTimeout, DispatchDue, BeginLap, schedVars, resultVars
  <2> QED
    BY <1>0, <2>1
<1>3. ASSUME NEW e \in Entries, SkipDue(e) PROVE FleetSums'
  <2>1. /\ UNCHANGED <<tally, dropped>> /\ skipped' = skipped + 1
        /\ spc = "judge" /\ spc' = "report"
    BY <1>3 DEF SkipDue
  <2>2. Total("lost")' = Total("lost") /\ Total("slow")' = Total("slow")
        /\ Total("queued")' = Total("queued")
    BY <2>1 DEF Total
  <2>3. Pending = 0 /\ Pending' = 1
    BY <2>1 DEF Pending
  <2> QED
    BY <1>n, <2>1, <2>2, <2>3 DEF FleetSums
<1>4. CASE ReportSkip
  <2>1. /\ spc = "report" /\ spc' = "drain" /\ skipped' = skipped
        /\ ReportResult(cur, verdict) /\ cur \in Entries
        /\ verdict = "slow" \/ verdict = "queued"
    BY <1>4 DEF ReportSkip, BeginLap, SchedTypeOK
  <2>2. Pending = 1 /\ Pending' = 0
    BY <2>1 DEF Pending
  <2>3. PICK e \in Entries, f \in {"slow", "queued"} : ReportResult(e, f)
    BY <2>1
  <2>5. \/ /\ dropped' = dropped /\ Total("lost")' = Total("lost")
           /\ Total("slow")' + Total("queued")' = Total("slow") + Total("queued") + 1
        \/ /\ dropped' = dropped + 1 /\ Total("lost")' = Total("lost") + 1
           /\ Total("slow")' = Total("slow") /\ Total("queued")' = Total("queued")
    <3>1. CASE f = "slow"
      <4>1. ReportResult(e, "slow")
        BY <2>3, <3>1
      <4> QED
        BY <1>t, <1>n, <4>1, ReportTotals
    <3>2. CASE f = "queued"
      <4>1. ReportResult(e, "queued")
        BY <2>3, <3>2
      <4> QED
        BY <1>t, <1>n, <4>1, ReportTotals
    <3> QED
      BY <3>1, <3>2
  <2> QED
    BY <1>n, <2>1, <2>2, <2>5 DEF FleetSums
<1>5. ASSUME NEW w \in Workers, ReportRun(w) PROVE FleetSums'
  <2>1. /\ ReportResult(held[w], "completed") /\ skipped' = skipped /\ spc' = spc
        /\ held[w] \in Entries
    BY <1>5 DEF ReportRun, schedVars, Holding, WorkerTypeOK
  <2>2. \/ dropped' = dropped /\ Total("lost")' = Total("lost")
        \/ dropped' = dropped + 1 /\ Total("lost")' = Total("lost") + 1
    BY <1>t, <2>1, ReportTotals
  <2>3. Total("slow")' = Total("slow") /\ Total("queued")' = Total("queued")
    BY <1>t, <2>1, ReportTotals
  <2>4. Pending' = Pending /\ Pending \in Nat
    BY <2>1 DEF Pending
  <2> QED
    BY <1>n, <2>1, <2>2, <2>3, <2>4 DEF FleetSums
<1>6. ASSUME NEW w \in Workers, PassOver(w) PROVE FleetSums'
  <2>1. /\ Count(held[w], "unrun") /\ UNCHANGED <<skipped, dropped, spc>>
        /\ held[w] \in Entries
    BY <1>6 DEF PassOver, schedVars, Holding, WorkerTypeOK
  <2>2. /\ Total("slow")' = Total("slow") /\ Total("queued")' = Total("queued")
        /\ Total("lost")' = Total("lost")
    BY <1>t, <2>1, TotalStep
  <2> QED
    BY <1>s, <2>1, <2>2
<1>7. ASSUME NEW w \in Workers, Dequeue(w) \/ Exit(w) \/ Admit(w) \/ StartCheck(w)
                                 \/ CheckReturns(w) \/ PublishReturns(w) \/ BackedOff(w)
                                 \/ Ack(w)
      PROVE  FleetSums'
  <2>1. UNCHANGED <<tally, dropped, skipped, spc>>
    BY <1>7 DEF Dequeue, Exit, Admit, StartCheck, CheckReturns, PublishReturns, BackedOff,
                Ack, schedVars, resultVars
  <2> QED
    BY <1>0, <2>1
<1> QED
  BY <1>1, <1>2, <1>3, <1>4, <1>5, <1>6, <1>7
     DEF Next, Run, Schedule, DispatchLap, Worker, OwnStep, CalledStep

\* Skipped() and Dropped() agree with the fates of all slots of all targets, also
\* while the results channel is full (runner.go, "Accounting").
THEOREM FleetAddsUp == Spec => []FleetAccounting
<1>1. PoolInv /\ FleetSums /\ [Next]_vars => FleetSums'
  BY FleetSumsStep, TypeStep
<1>2. PoolInv /\ FleetSums /\ EverySlotAccountedFor => FleetAccounting
  <2> SUFFICES ASSUME PoolInv, FleetSums, EverySlotAccountedFor PROVE FleetAccounting
    OBVIOUS
  <2>1. Total("slow") + Total("queued") + Pending \in Nat
    <3>1. Total("slow") \in Nat /\ Total("queued") \in Nat
      BY TotalType DEF PoolInv, TypeOK, Fates
    <3> QED
      BY <3>1 DEF Pending
  <2> QED
    BY <2>1 DEF FleetAccounting, FleetSums, Pending
<1> QED
  BY <1>1, <1>2, FleetSumsInit, SlotsAddUp, PoolInvariant, PTL DEF Spec

=============================================================================
