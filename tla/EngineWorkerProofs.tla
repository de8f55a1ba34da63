-------------------------- MODULE EngineWorkerProofs --------------------------
(* What is proved of the engine worker for every set of jobs, every         *)
(* assignment of operations to them and every number of breaks.             *)
EXTENDS EngineWorker, TLAPS

-----------------------------------------------------------------------------
(* The inductive invariant.  Each part ties one shared fact to where the    *)
(* two threads are.                                                         *)

OnTheEngine == {"start", "work", "pump", "unpump", "steps", "always", "unbatch",
                "ending", "release"}
InABatch == {"steps", "always", "unbatch"}
Ending == {"abandon", "tell", "stop", "stopbreak", "queue"}
EofEnding == {"eofstop", "eofbreak", "eofabandon", "eoftell", "eofqueue"}

(* What the reader is handling while it is between two lines.               *)
ReaderHolds ==
    /\ rpc = "break" => rjob # Eof
    /\ rpc \in Ending => rjob \in Jobs
    /\ rpc \in EofEnding => rjob = Eof
    /\ rpc \in {"stopbreak", "eofbreak"} => tearing_down

(* The claim is held exactly while a job is executed.                       *)
ClaimHeld ==
    /\ epc \in OnTheEngine => cur \in Jobs /\ job = cur
    /\ epc \notin OnTheEngine => job = NoJob
    /\ epc \in {"drain", "watch"} => cur \in Jobs
    /\ epc = "recv" => cur = NoJob
    /\ epc = "ending" => Op[cur] = "end"
    /\ epc \in {"work", "pump", "unpump"} \cup InABatch => Op[cur] # "end"

(* A recorded interrupt is the running job's, and so is the pending break,  *)
(* except in the window between the release and the drain.                  *)
BreakOwned ==
    /\ interrupted # NoJob => interrupted = job
    /\ ctrlBreak # NoJob => epc = "drain" \/ (ctrlBreak = job /\ interrupted = job)
    /\ epc \in {"start", "pump"} /\ interrupted # NoJob => ctrlBreak = job

(* A sealed job is the running one, in a phase no break may reach.          *)
SealOwned ==
    uninterruptible # NoJob =>
        /\ uninterruptible = job /\ ctrlBreak = NoJob
        /\ epc \in {"start", "always", "unbatch", "ending", "release"}
        /\ epc = "start" => Op[cur] = "end"

(* pumping names the run whose target is going.                             *)
PumpOwned ==
    /\ pumping # NoJob => pumping = job /\ epc \in {"pump", "unpump"}
    /\ epc = "pump" => pumping = cur
    /\ rpc \in {"stopbreak", "eofbreak"} /\ epc = "pump" => rpump = cur

(* finish_by is published exactly while a batch is on the engine, and what  *)
(* a teardown was told agrees with it.                                      *)
BatchPublished ==
    /\ finish_by <=> epc \in InABatch
    /\ rpc \in {"tell", "eoftell"} \/ promised # "unasked" \/ told_by # NoJob => abandon
    /\ promised = "nothing" => ~finish_by
    /\ promised = "time" => finish_by /\ told_by # NoJob

ThreadInv ==
    /\ ReaderHolds /\ ClaimHeld /\ BreakOwned /\ SealOwned /\ PumpOwned
    /\ BatchPublished /\ NoRunOutlivesTeardown

(* A request is in one place at a time - in the pipe, with the reader, in   *)
(* the queue or on the engine - and is answered in no other.                *)
Queued(j) == \E i \in DOMAIN queue : queue[i] = j
WithReader(j) == rjob = j /\ rpc \in Ending
Waiting(j) == j \in unread \/ WithReader(j) \/ Queued(j)

InOnePlace ==
    /\ \A j \in unread : ~WithReader(j) /\ ~Queued(j)
    /\ \A j \in Jobs : WithReader(j) => ~Queued(j)
    /\ \A i, k \in DOMAIN queue : queue[i] = queue[k] /\ queue[i] # Eof => i = k
    /\ \A j \in Jobs : Waiting(j) => j # cur

(* A run that a break missed is barred until the engine thread refuses it.  *)
MissedBarred ==
    \A j \in missed : /\ Waiting(j) \/ (j = cur /\ epc = "start") => j \in barred
                      /\ pumping # j

(* A raised break is still recorded for its job, or its job said so.        *)
RaisedKept ==
    \A j \in raised : /\ ~Waiting(j)
                      /\ \/ j = job /\ interrupted = job
                         \/ j # job /\ reply[j] = "cut"

(* A swap is noticed before the next job is dequeued.                       *)
SwapNoticed ==
    /\ swapped => \/ replaced \/ "reading" \in failures
                  \/ /\ Op[cur] # "end"
                     /\ \/ epc \in {"unpump", "always", "unbatch", "release", "drain", "watch"}
                        \/ epc = "steps" /\ left = 0
    /\ BoundCallKeepsItsTarget

JobInv == InOnePlace /\ MissedBarred /\ RaisedKept /\ SwapNoticed

IInv == TypeOK /\ ThreadInv /\ JobInv

-----------------------------------------------------------------------------
(* A break, whatever it does, leaves the tracker and the engine well typed. *)
LEMMA InterruptType ==
  ASSUME TypeOK, NEW named \in AJob, InterruptRunning(named)
  PROVE  /\ interrupted' \in AJob /\ barred' \subseteq Jobs /\ ctrlBreak' \in AJob
         /\ raised' \subseteq Jobs /\ missed' \subseteq Jobs
         /\ failures' \subseteq {"interrupt", "reading"}
<1> USE WorkerAssumption DEF TypeOK, AJob
<1>1. CASE named # NoJob /\ named # job
  BY <1>1 DEF InterruptRunning, Bar, Sealed
<1>2. CASE named = NoJob \/ named = job
  BY <1>2 DEF InterruptRunning, Sealed
<1> QED BY <1>1, <1>2

(* Every step keeps the types, given what the two threads are holding.      *)
LEMMA TypeStep == TypeOK /\ ThreadInv /\ [Next]_vars => TypeOK'
<1> SUFFICES ASSUME TypeOK /\ ThreadInv, [Next]_vars PROVE TypeOK'
  OBVIOUS
<1> USE WorkerAssumption DEF TypeOK, ThreadInv, ReaderHolds, ClaimHeld,
     OnTheEngine, Ending, EofEnding, AJob, Ops, Alive, reader, engine, running,
     signal, target, history
<1>1. ASSUME NEW j \in Jobs, ReadJob(j) PROVE TypeOK'
  BY <1>1 DEF ReadJob
<1>2. ASSUME NEW named \in AJob, NEW handleBound \in BOOLEAN, ReadInterrupt(named, handleBound) PROVE TypeOK'
  BY <1>2 DEF ReadInterrupt
<1>3. ASSUME Interrupt PROVE TypeOK'
  <2>1. rjob \in AJob
    BY <1>3 DEF Interrupt
  <2>2. InterruptRunning(rjob)
    BY <1>3 DEF Interrupt
  <2> QED BY <1>3, <2>1, <2>2, InterruptType DEF Interrupt
<1>4. ASSUME NEW j \in Jobs, ReadEndSession(j) PROVE TypeOK'
  BY <1>4 DEF ReadEndSession
<1>5. ASSUME ReadEof PROVE TypeOK'
  BY <1>5 DEF ReadEof
<1>6. ASSUME Abandon PROVE TypeOK'
  BY <1>6 DEF Abandon
<1>7. ASSUME Tell PROVE TypeOK'
  BY <1>7 DEF Tell
<1>8. ASSUME BeginTeardown PROVE TypeOK'
  BY <1>8 DEF BeginTeardown
<1>9. ASSUME BreakThePump PROVE TypeOK'
  <2>1. rpump \in AJob /\ InterruptRunning(rpump)
    BY <1>9 DEF BreakThePump
  <2> QED BY <1>9, <2>1, InterruptType DEF BreakThePump
<1>10. ASSUME QueueTeardown PROVE TypeOK'
  BY <1>10 DEF QueueTeardown
<1>11. ASSUME ReleaseTimeout PROVE TypeOK'
  BY <1>11 DEF ReleaseTimeout
<1>12. ASSUME Claim PROVE TypeOK'
  BY <1>12 DEF Claim
<1>13. ASSUME RefuseReplaced PROVE TypeOK'
  BY <1>13 DEF RefuseReplaced, Answer
<1>14. ASSUME StartQuery PROVE TypeOK'
  BY <1>14 DEF StartQuery, Admitted
<1>15. ASSUME RefusePump PROVE TypeOK'
  BY <1>15 DEF RefusePump, Admitted, Answer, RunMayStart
<1>16. ASSUME ClaimPump PROVE TypeOK'
  BY <1>16 DEF ClaimPump, Admitted, RunMayStart
<1>17. ASSUME RefuseBatch PROVE TypeOK'
  BY <1>17 DEF RefuseBatch, Admitted, Answer, BatchMayEnter
<1>18. ASSUME EnterBatch PROVE TypeOK'
  BY <1>18 DEF EnterBatch, Admitted, BatchMayEnter
<1>19. ASSUME StartEnd PROVE TypeOK'
  BY <1>19 DEF StartEnd
<1>20. ASSUME Poll PROVE TypeOK'
  BY <1>20 DEF Poll
<1>21. ASSUME Finish PROVE TypeOK'
  <2>1. swapped' \in BOOLEAN
    BY <1>21, Zenon DEF Finish
  <2>2. epc' \in {"release", "unpump"}
    BY <1>21 DEF Finish
  <2> QED BY <1>21, <2>1, <2>2 DEF Finish
<1>22. ASSUME Unpump PROVE TypeOK'
  BY <1>22 DEF Unpump
<1>23. ASSUME BatchStep PROVE TypeOK'
  <2>1. swapped' \in BOOLEAN
    BY <1>23, Zenon DEF BatchStep
  <2>2. left' \in 0..Steps
    BY <1>23 DEF BatchStep, StepsLeft
  <2> QED BY <1>23, <2>1, <2>2 DEF BatchStep
<1>24. ASSUME SealRollback PROVE TypeOK'
  BY <1>24 DEF SealRollback
<1>25. ASSUME Rollback PROVE TypeOK'
  <2>1. swapped' \in BOOLEAN
    BY <1>25, Zenon DEF Rollback
  <2> QED BY <1>25, <2>1 DEF Rollback
<1>26. ASSUME FinishBatch PROVE TypeOK'
  <2>1. promised' \in {"unasked", "nothing", "time", "retracted"}
    BY <1>26 DEF FinishBatch
  <2>2. told_by' = NoJob /\ finish_by' \in BOOLEAN /\ epc' = "release"
    BY <1>26, Zenon DEF FinishBatch
  <2>3. UNCHANGED <<reader, queue, cur, left, running, abandon, ctrlBreak, target, reply,
                    raised, missed, failures>>
    BY <1>26 DEF FinishBatch
  <2> QED BY <2>1, <2>2, <2>3
<1>27. ASSUME FinishEnd PROVE TypeOK'
  BY <1>27 DEF FinishEnd
<1>28. ASSUME Release PROVE TypeOK'
  BY <1>28 DEF Release, Answer, CutShort
<1>29. ASSUME Drain PROVE TypeOK'
  BY <1>29 DEF Drain
<1>30. ASSUME WatchTheTarget PROVE TypeOK'
  <2>1. replaced' \in BOOLEAN
    BY <1>30, Zenon DEF WatchTheTarget
  <2>2. failures' \subseteq {"interrupt", "reading"}
    BY <1>30 DEF WatchTheTarget
  <2> QED BY <1>30, <2>1, <2>2 DEF WatchTheTarget
<1>31. ASSUME ReleaseOnEof PROVE TypeOK'
  BY <1>31 DEF ReleaseOnEof
<1>32. ASSUME UNCHANGED vars PROVE TypeOK'
  BY <1>32 DEF vars
<1> QED
  BY <1>1, <1>2, <1>3, <1>4, <1>5, <1>6, <1>7, <1>8, <1>9, <1>10, <1>11,
     <1>12, <1>13, <1>14, <1>15, <1>16, <1>17, <1>18, <1>19, <1>20, <1>21,
     <1>22, <1>23, <1>24, <1>25, <1>26, <1>27, <1>28, <1>29, <1>30, <1>31,
     <1>32, SMTT(30) DEF Next, ReaderNext, EngineStep, RunEnds, Terminated

(* Every step keeps the two threads in step with each other.               *)
LEMMA ThreadStep == TypeOK /\ ThreadInv /\ [Next]_vars => ThreadInv'
<1> SUFFICES ASSUME TypeOK /\ ThreadInv, [Next]_vars PROVE ThreadInv'
  OBVIOUS
<1> USE WorkerAssumption DEF TypeOK, ThreadInv, ReaderHolds, ClaimHeld,
     BreakOwned, SealOwned, PumpOwned, BatchPublished, NoRunOutlivesTeardown,
     OnTheEngine, InABatch, Ending, EofEnding, AJob, Alive, reader, engine,
     running, signal, target, history
<1>1. ASSUME NEW j \in Jobs, ReadJob(j) PROVE ThreadInv'
  BY <1>1 DEF ReadJob
<1>2. ASSUME NEW named \in AJob, NEW handleBound \in BOOLEAN, ReadInterrupt(named, handleBound) PROVE ThreadInv'
  BY <1>2 DEF ReadInterrupt
<1>3. ASSUME Interrupt PROVE ThreadInv'
  BY <1>3 DEF Interrupt, InterruptRunning, Bar, Sealed
<1>4. ASSUME NEW j \in Jobs, ReadEndSession(j) PROVE ThreadInv'
  BY <1>4 DEF ReadEndSession
<1>5. ASSUME ReadEof PROVE ThreadInv'
  BY <1>5 DEF ReadEof
<1>6. ASSUME Abandon PROVE ThreadInv'
  BY <1>6 DEF Abandon
<1>7. ASSUME Tell PROVE ThreadInv'
  BY <1>7 DEF Tell
<1>8. ASSUME BeginTeardown PROVE ThreadInv'
  BY <1>8 DEF BeginTeardown
<1>9. ASSUME BreakThePump PROVE ThreadInv'
  BY <1>9 DEF BreakThePump, InterruptRunning, Bar, Sealed
<1>10. ASSUME QueueTeardown PROVE ThreadInv'
  BY <1>10 DEF QueueTeardown
<1>11. ASSUME ReleaseTimeout PROVE ThreadInv'
  BY <1>11 DEF ReleaseTimeout
<1>12. ASSUME Claim PROVE ThreadInv'
  BY <1>12 DEF Claim
<1>13. ASSUME RefuseReplaced PROVE ThreadInv'
  BY <1>13 DEF RefuseReplaced, Answer
<1>14. ASSUME StartQuery PROVE ThreadInv'
  BY <1>14 DEF StartQuery, Admitted
<1>15. ASSUME RefusePump PROVE ThreadInv'
  BY <1>15 DEF RefusePump, Admitted, Answer, RunMayStart
<1>16. ASSUME ClaimPump PROVE ThreadInv'
  BY <1>16 DEF ClaimPump, Admitted, RunMayStart
<1>17. ASSUME RefuseBatch PROVE ThreadInv'
  BY <1>17 DEF RefuseBatch, Admitted, Answer, BatchMayEnter
<1>18. ASSUME EnterBatch PROVE ThreadInv'
  BY <1>18 DEF EnterBatch, Admitted, BatchMayEnter
<1>19. ASSUME StartEnd PROVE ThreadInv'
  BY <1>19 DEF StartEnd
<1>20. ASSUME Poll PROVE ThreadInv'
  BY <1>20 DEF Poll
<1>21. ASSUME Finish PROVE ThreadInv'
  BY <1>21 DEF Finish
<1>22. ASSUME Unpump PROVE ThreadInv'
  BY <1>22 DEF Unpump
<1>23. ASSUME BatchStep PROVE ThreadInv'
  BY <1>23 DEF BatchStep, StepsLeft
<1>24. ASSUME SealRollback PROVE ThreadInv'
  BY <1>24 DEF SealRollback
<1>25. ASSUME Rollback PROVE ThreadInv'
  BY <1>25 DEF Rollback
<1>26. ASSUME FinishBatch PROVE ThreadInv'
  BY <1>26 DEF FinishBatch
<1>27. ASSUME FinishEnd PROVE ThreadInv'
  BY <1>27 DEF FinishEnd
<1>28. ASSUME Release PROVE ThreadInv'
  BY <1>28 DEF Release, Answer, CutShort
<1>29. ASSUME Drain PROVE ThreadInv'
  BY <1>29 DEF Drain
<1>30. ASSUME WatchTheTarget PROVE ThreadInv'
  BY <1>30 DEF WatchTheTarget, Watched
<1>31. ASSUME ReleaseOnEof PROVE ThreadInv'
  BY <1>31 DEF ReleaseOnEof
<1>32. ASSUME UNCHANGED vars PROVE ThreadInv'
  BY <1>32 DEF vars
<1> QED
  BY <1>1, <1>2, <1>3, <1>4, <1>5, <1>6, <1>7, <1>8, <1>9, <1>10, <1>11,
     <1>12, <1>13, <1>14, <1>15, <1>16, <1>17, <1>18, <1>19, <1>20, <1>21,
     <1>22, <1>23, <1>24, <1>25, <1>26, <1>27, <1>28, <1>29, <1>30, <1>31,
     <1>32, SMTT(30) DEF Next, ReaderNext, EngineStep, RunEnds, Terminated

(* Every step keeps each request in one place and what was said of it true. *)
LEMMA JobStep == TypeOK /\ ThreadInv /\ JobInv /\ [Next]_vars => JobInv'
<1> SUFFICES ASSUME TypeOK /\ ThreadInv /\ JobInv, [Next]_vars PROVE JobInv'
  OBVIOUS
<1> USE WorkerAssumption DEF TypeOK, ThreadInv, ReaderHolds, ClaimHeld,
     BreakOwned, SealOwned, PumpOwned, JobInv, InOnePlace, MissedBarred,
     RaisedKept, SwapNoticed, BoundCallKeepsItsTarget, Queued, WithReader,
     Waiting, OnTheEngine, Ending, EofEnding, AJob, Alive, reader, engine,
     running, signal, target, history
<1>1. ASSUME NEW j \in Jobs, ReadJob(j) PROVE JobInv'
  BY <1>1 DEF ReadJob
<1>2. ASSUME NEW named \in AJob, NEW handleBound \in BOOLEAN, ReadInterrupt(named, handleBound) PROVE JobInv'
  BY <1>2 DEF ReadInterrupt
<1>3. ASSUME Interrupt PROVE JobInv'
  BY <1>3 DEF Interrupt, InterruptRunning, Bar, Sealed
<1>4. ASSUME NEW j \in Jobs, ReadEndSession(j) PROVE JobInv'
  BY <1>4 DEF ReadEndSession
<1>5. ASSUME ReadEof PROVE JobInv'
  BY <1>5 DEF ReadEof
<1>6. ASSUME Abandon PROVE JobInv'
  BY <1>6 DEF Abandon
<1>7. ASSUME Tell PROVE JobInv'
  BY <1>7 DEF Tell
<1>8. ASSUME BeginTeardown PROVE JobInv'
  BY <1>8 DEF BeginTeardown
<1>9. ASSUME BreakThePump PROVE JobInv'
  BY <1>9 DEF BreakThePump, InterruptRunning, Bar, Sealed
<1>10. ASSUME QueueTeardown PROVE JobInv'
  BY <1>10 DEF QueueTeardown
<1>11. ASSUME ReleaseTimeout PROVE JobInv'
  BY <1>11 DEF ReleaseTimeout
<1>12. ASSUME Claim PROVE JobInv'
  BY <1>12 DEF Claim
<1>13. ASSUME RefuseReplaced PROVE JobInv'
  BY <1>13 DEF RefuseReplaced, Answer
<1>14. ASSUME StartQuery PROVE JobInv'
  BY <1>14 DEF StartQuery, Admitted
<1>15. ASSUME RefusePump PROVE JobInv'
  BY <1>15 DEF RefusePump, Admitted, Answer, RunMayStart
<1>16. ASSUME ClaimPump PROVE JobInv'
  BY <1>16 DEF ClaimPump, Admitted, RunMayStart
<1>17. ASSUME RefuseBatch PROVE JobInv'
  BY <1>17 DEF RefuseBatch, Admitted, Answer, BatchMayEnter
<1>18. ASSUME EnterBatch PROVE JobInv'
  BY <1>18 DEF EnterBatch, Admitted, BatchMayEnter
<1>19. ASSUME StartEnd PROVE JobInv'
  BY <1>19 DEF StartEnd
<1>20. ASSUME Poll PROVE JobInv'
  BY <1>20 DEF Poll
<1>21. ASSUME Finish PROVE JobInv'
  <2>1. InOnePlace' /\ MissedBarred' /\ RaisedKept'
    BY <1>21 DEF Finish
  <2>2. epc' \in {"release", "unpump"} /\ cur' = cur /\ Op[cur] # "end"
    BY <1>21 DEF Finish, Admitted
  <2>3. SwapNoticed'
    BY <2>2
  <2> QED BY <2>1, <2>3
<1>22. ASSUME Unpump PROVE JobInv'
  BY <1>22 DEF Unpump
<1>23. ASSUME BatchStep PROVE JobInv'
  <2>1. InOnePlace' /\ MissedBarred' /\ RaisedKept'
    BY <1>23 DEF BatchStep
  <2>2. /\ epc = "steps" /\ epc' = "steps" /\ cur' = cur /\ Op[cur] # "end"
        /\ replaced' = replaced /\ failures' = failures
    BY <1>23 DEF BatchStep, InABatch
  <2>3. ASSUME left' = 0 PROVE SwapNoticed'
    BY <2>2, <2>3
  <2>4. ASSUME left' # 0, swapped' = swapped PROVE SwapNoticed'
    <3>1. left > 0
      BY <1>23 DEF BatchStep, StepsLeft
    <3> QED BY <2>2, <2>4, <3>1
  <2>5. left' = 0 \/ (left' # 0 /\ swapped' = swapped)
    BY <1>23, Zenon DEF BatchStep
  <2>6. SwapNoticed'
    BY <2>3, <2>4, <2>5
  <2> QED BY <2>1, <2>6
<1>24. ASSUME SealRollback PROVE JobInv'
  BY <1>24 DEF SealRollback
<1>25. ASSUME Rollback PROVE JobInv'
  <2>1. InOnePlace' /\ MissedBarred' /\ RaisedKept'
    BY <1>25 DEF Rollback
  <2>2. epc' = "unbatch" /\ cur' = cur /\ Op[cur] # "end"
    BY <1>25 DEF Rollback, InABatch
  <2>3. SwapNoticed'
    BY <2>2
  <2> QED BY <2>1, <2>3
<1>26. ASSUME FinishBatch PROVE JobInv'
  BY <1>26 DEF FinishBatch
<1>27. ASSUME FinishEnd PROVE JobInv'
  BY <1>27 DEF FinishEnd
<1>28. ASSUME Release PROVE JobInv'
  <2>1. InOnePlace' /\ MissedBarred'
    BY <1>28 DEF Release, Answer, CutShort
  <2>2. RaisedKept'
    BY <1>28 DEF Release, Answer, CutShort
  <2>3. SwapNoticed'
    BY <1>28 DEF Release, Answer, CutShort
  <2> QED BY <2>1, <2>2, <2>3
<1>29. ASSUME Drain PROVE JobInv'
  BY <1>29 DEF Drain
<1>30. ASSUME WatchTheTarget PROVE JobInv'
  BY <1>30 DEF WatchTheTarget, Watched
<1>31. ASSUME ReleaseOnEof PROVE JobInv'
  BY <1>31 DEF ReleaseOnEof
<1>32. ASSUME UNCHANGED vars PROVE JobInv'
  BY <1>32 DEF vars
<1> QED
  BY <1>1, <1>2, <1>3, <1>4, <1>5, <1>6, <1>7, <1>8, <1>9, <1>10, <1>11,
     <1>12, <1>13, <1>14, <1>15, <1>16, <1>17, <1>18, <1>19, <1>20, <1>21,
     <1>22, <1>23, <1>24, <1>25, <1>26, <1>27, <1>28, <1>29, <1>30, <1>31,
     <1>32, SMTT(30) DEF Next, ReaderNext, EngineStep, RunEnds, Terminated

LEMMA InitIInv == Init => IInv
<1> USE WorkerAssumption DEF Init, AJob, OnTheEngine, InABatch, Ending, EofEnding
<1> SUFFICES ASSUME Init PROVE IInv
  OBVIOUS
<1>1. TypeOK
  <2>1. breaks \in 0..MaxBreaks /\ left \in 0..Steps /\ queue \in Seq(Jobs \cup {Eof})
    OBVIOUS
  <2>2. /\ tearing_down \in BOOLEAN /\ abandon \in BOOLEAN /\ finish_by \in BOOLEAN
        /\ swapped \in BOOLEAN /\ replaced \in BOOLEAN
    BY Zenon
  <2> QED BY <2>1, <2>2 DEF TypeOK
<1>2. ThreadInv
  BY DEF ThreadInv, ReaderHolds, ClaimHeld, BreakOwned, SealOwned, PumpOwned,
       BatchPublished, NoRunOutlivesTeardown
<1>3. JobInv
  BY DEF JobInv, InOnePlace, MissedBarred, RaisedKept, SwapNoticed,
       BoundCallKeepsItsTarget, Queued, WithReader, Waiting
<1> QED BY <1>1, <1>2, <1>3 DEF IInv

(* The inductive invariant holds in every reachable state.                  *)
THEOREM Inductive == Spec => []IInv
<1>1. IInv /\ [Next]_vars => IInv'
  BY TypeStep, ThreadStep, JobStep DEF IInv
<1> QED BY InitIInv, <1>1, PTL DEF Spec

(* The variables of the worker keep their types.                            *)
THEOREM TypeCorrect == Spec => []TypeOK
<1>1. IInv => TypeOK
  BY DEF IInv
<1> QED BY Inductive, <1>1, PTL

(* An interrupt reaches the job that was running when it was raised, or     *)
(* nothing: no later job meets it (Running, worker.rs).                     *)
THEOREM BreakNeverStrays == Spec => []BreakStaysWithItsJob
<1>1. IInv => BreakStaysWithItsJob
  BY DEF IInv, ThreadInv, ClaimHeld, BreakOwned, BreakStaysWithItsJob, OnTheEngine
<1> QED BY Inductive, <1>1, PTL

(* A rollback and an EndSession never have a break pending on the engine    *)
(* (seal_locked, worker.rs).                                                *)
THEOREM SealHolds == Spec => []CleanupUninterrupted
<1>1. IInv => CleanupUninterrupted
  BY DEF IInv, ThreadInv, SealOwned, CleanupUninterrupted
<1> QED BY Inductive, <1>1, PTL

(* A run is broken in by a teardown or never started, so none is left for   *)
(* the teardown to wait out (stop_resuming and claim_pump, worker.rs).      *)
THEOREM NoThirdOutcome == Spec => []NoRunOutlivesTeardown
<1>1. IInv => NoRunOutlivesTeardown
  BY DEF IInv, ThreadInv
<1> QED BY Inductive, <1>1, PTL

(* A run named by a break before it reached the engine never starts,        *)
(* however many other breaks arrive (Running::barred, worker.rs).           *)
THEOREM BarHolds == Spec => []MissedRunNeverStarts
<1>1. IInv => MissedRunNeverStarts
  BY WorkerAssumption DEF IInv, JobInv, MissedBarred, MissedRunNeverStarts
<1> QED BY Inductive, <1>1, PTL

(* No batch works on while a teardown was told there is nothing to wait     *)
(* for (announce_teardown and BatchSignal, worker.rs).                      *)
THEOREM BatchTold == Spec => []NoSilentBatch
<1>1. IInv => NoSilentBatch
  BY DEF IInv, ThreadInv, BatchPublished, NoSilentBatch, InABatch
<1> QED BY Inductive, <1>1, PTL

(* A teardown that was promised time finds the promise only while its batch *)
(* is at work: the batch's end takes it back (BatchSignal, worker.rs).      *)
THEOREM PromiseKept == Spec => []PromiseRetracted
<1>1. IInv => PromiseRetracted
  BY DEF IInv, ThreadInv, BatchPublished, PromiseRetracted, InABatch
<1> QED BY Inductive, <1>1, PTL

(* Whoever was told a break was raised for a job can rely on that job's     *)
(* reply saying so (Running::release and cut_short, worker.rs).             *)
THEOREM RaiseReported == Spec => []RaisedIsReported
<1>1. IInv => RaisedIsReported
  BY DEF IInv, JobInv, RaisedKept, RaisedIsReported
<1> QED BY Inductive, <1>1, PTL

(* A call bound to a session never runs on a replacement the worker could   *)
(* have noticed (watch_the_target, worker.rs).                              *)
THEOREM BoundCallSafe == Spec => []BoundCallKeepsItsTarget
<1>1. IInv => BoundCallKeepsItsTarget
  BY DEF IInv, JobInv, SwapNoticed
<1> QED BY Inductive, <1>1, PTL
=============================================================================
