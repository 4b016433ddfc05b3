------------------------- MODULE Operations_proofs --------------------------
(***************************************************************************)
(* Operations, proved for any number of operations, workers, targets and   *)
(* stripes, any queue and history size, and any number of restarts.        *)
(*                                                                         *)
(* OperationsInvariant explains the invariant; OperationsRequests_proofs,  *)
(* OperationsWaiting_proofs and OperationsExecution_proofs show that the   *)
(* steps of requests and workers keep it.  This module adds the process    *)
(* (Shutdown, ProcessExit, Restart) and draws the conclusions.             *)
(***************************************************************************)
EXTENDS OperationsRequests_proofs, OperationsWaiting_proofs, OperationsExecution_proofs

\* No worker exists while the process is down.
Down == ~up => \A w \in Workers : wpc[w] = "idle"

\* The steps of a running process leave it running.
LEMMA DownStep ==
    ASSUME Down, [Next]_vars
    PROVE  Down'
  <1>1. ASSUME NEW o \in Ops, Submit(o) \/ CancelOperation(o)
        PROVE  up'
    <2>1. CASE CreateOperation(o)
      BY <2>1 DEF CreateOperation, processVars
    <2>2. CASE AuditSubmitted(o) \/ FailUnaudited(o)
      BY <2>2 DEF AuditSubmitted, FailUnaudited, processVars
    <2>3. CASE Enqueue(o) \/ FailQueueFull(o) \/ AuditQueueFull(o)
      BY <2>3 DEF Enqueue, FailQueueFull, AuditQueueFull, processVars
    <2>4. CASE CancelRead(o) \/ SignalOperationCancellation(o)
      BY <2>4 DEF CancelRead, SignalOperationCancellation, processVars
    <2>5. CASE CancelTransition(o)
      BY <2>5 DEF CancelTransition, processVars
    <2> QED BY <1>1, <2>1, <2>2, <2>3, <2>4, <2>5 DEF Submit, CancelOperation
  <1>2. ASSUME NEW w \in Workers, Worker(w)
        PROVE  up'
    <2>1. CASE TakeJob(w) \/ WorkerExit(w)
      BY <2>1 DEF TakeJob, WorkerExit, Step, processVars
    <2>2. CASE GetOperation(w)
      BY <2>2 DEF GetOperation, Step, processVars
    <2>3. CASE AcquireTargetLock(w) \/ AcquireGovernor(w) \/ AbandonWait(w)
      BY <2>3 DEF AcquireTargetLock, AcquireGovernor, AbandonWait, Step, processVars
    <2>4. CASE PrepareFails(w) \/ CallUpstream(w) \/ UpstreamReturns(w) \/ Finish(w)
      BY <2>4 DEF PrepareFails, CallUpstream, UpstreamReturns, Finish, Step, processVars
    <2>5. CASE TransitionRunning(w)
      BY <2>5 DEF TransitionRunning, Step, processVars
    <2>6. CASE AuditResult(w)
      BY <2>6 DEF AuditResult, Step, processVars
    <2>7. CASE UpdateOperation(w)
      BY <2>7 DEF UpdateOperation, Step, processVars
    <2> QED BY <1>2, <2>1, <2>2, <2>3, <2>4, <2>5, <2>6, <2>7 DEF Worker
  <1>3. ASSUME NEW s \in Stripes, TryAcquireTargetLock(s) \/ ReleaseTargetLock(s)
        PROVE  up'
    BY <1>3 DEF TryAcquireTargetLock, ReleaseTargetLock, processVars
  <1>4. CASE Shutdown \/ CancelAllOperationControls
    BY <1>4 DEF Down, Shutdown, CancelAllOperationControls
  <1>5. CASE ProcessExit
    BY <1>5 DEF Down, ProcessExit
  <1>6. CASE Restart
    BY <1>6 DEF Down, Restart, workerVars
  <1>7. CASE UNCHANGED vars
    BY <1>7 DEF Down, vars, workerVars, processVars
  <1> QED BY <1>1, <1>2, <1>3, <1>4, <1>5, <1>6, <1>7 DEF Next, Down

\* Canceling the root context and the controls changes no record and no job.
LEMMA ShutdownStep ==
    ASSUME IInv, Shutdown \/ CancelAllOperationControls
    PROVE  IInv'
  <1>1. ctl' \in [Ops -> ControlStates]
    BY DEF IInv, TypeOK, ControlStates, Shutdown, CancelAllOperationControls, requestVars
  <1>2. TypeOK'
    BY <1>1 DEF IInv, TypeOK, StoreTypeOK, Shutdown, CancelAllOperationControls, storeVars,
         requestVars, workerVars, historyVars
  <1>3. UNCHANGED <<mem, disk, sub, request, queue, wpc, wop, wres, lock, runs>>
    BY DEF Shutdown, CancelAllOperationControls, storeVars, requestVars, workerVars, historyVars
  <1>4. Jobs' /\ Unrun'
    BY <1>3 DEF IInv, Jobs, Unrun, AtMostOnce
  <1>5. Executing' /\ HasResult' /\ Asked' /\ Holding' /\ NotExecutedIsTrue'
    BY <1>3 DEF IInv, Executing, HasResult, Asked, Holding, Stripe, NotExecutedIsTrue
  <1> QED BY <1>2, <1>4, <1>5 DEF IInv

\* An exit leaves no job behind, only the records and what has been executed.
LEMMA ProcessExitStep ==
    ASSUME IInv, ProcessExit
    PROVE  IInv'
  <1>1. TypeOK'
    <2>1. queue' \in Seq(Ops) /\ Len(queue') <= QueueSize
      BY QueueSizeAssumption DEF ProcessExit
    <2>2. crashes' \in 0..MaxCrashes
      BY MaxCrashesAssumption DEF IInv, TypeOK, ProcessExit
    <2>3. sub' \in [Ops -> SubmitStates]
      BY DEF IInv, TypeOK, ProcessExit, SubmitStates
    <2> QED BY <2>1, <2>2, <2>3 DEF IInv, TypeOK, StoreTypeOK, ControlStates, WorkerStates,
         Results, ProcessExit, storeVars, historyVars
  <1>2. /\ \A i \in 1..Len(queue') : FALSE
        /\ \A w \in Workers : wpc'[w] = "idle" /\ wop'[w] = NoOp
    BY DEF ProcessExit
  <1>3. Jobs'
    BY <1>2 DEF Jobs, Busy
  <1>4. Unrun'
    BY <1>2 DEF IInv, TypeOK, Unrun, AtMostOnce, BeforeUpstream, ProcessExit, historyVars
  <1>5. Executing' /\ HasResult' /\ Holding'
    BY <1>2 DEF Executing, HasResult, Holding, Locked, Claimed
  <1>6. Asked' /\ NotExecutedIsTrue'
    BY DEF IInv, TypeOK, Asked, NotExecutedIsTrue, ProcessExit, storeVars, historyVars
  <1> QED BY <1>1, <1>3, <1>4, <1>5, <1>6 DEF IInv

\* A restart turns what was in flight unknown, and no worker is there to notice.
LEMMA RestartStep ==
    ASSUME IInv, Down, Restart
    PROVE  IInv'
  <1> DEFINE kept == trimOperationHistory(disk)
             next == reconcileInterruptedOperations(kept)
  <1>1. disk \in Images /\ mem \in Images /\ storeFailed \in BOOLEAN
    BY DEF IInv, TypeOK, StoreTypeOK
  <1>2. mem' \in {mem, next} /\ disk' \in {disk, kept, next} /\ storeFailed' \in BOOLEAN
    BY <1>1 DEF Restart, Open, OpenFails
  <1>3. kept \in Images /\ \A o \in Ops : kept.ops[o] \in {disk.ops[o], Absent}
    BY <1>1, TrimLemma
  <1> HIDE DEF kept
  <1>4. /\ next \in Images
        /\ \A o \in Ops : next.ops[o] = IF kept.ops[o] \in InFlight THEN "unknown" ELSE kept.ops[o]
    BY <1>3, ReconcileLemma
  <1> HIDE DEF next
  <1>5. TypeOK'
    BY <1>1, <1>2, <1>3, <1>4 DEF IInv, TypeOK, StoreTypeOK, Restart, requestVars,
         workerVars, historyVars
  <1>6. \A w \in Workers : wpc[w] = "idle" /\ wpc'[w] = "idle"
    BY DEF Down, Restart, workerVars
  <1>7. Jobs' /\ Unrun' /\ HasResult' /\ Asked' /\ Holding'
    BY DEF IInv, Jobs, Unrun, AtMostOnce, HasResult, Asked, Holding, Stripe, Restart,
         requestVars, workerVars, historyVars
  <1>8. Executing'
    BY <1>6 DEF Executing, Claimed
  <1>9. NotExecutedIsTrue'
    <2>1. \A o \in Ops : /\ kept.ops[o] \in NotExecuted => runs[o] = 0
                         /\ next.ops[o] \in NotExecuted => runs[o] = 0
      BY <1>3, <1>4 DEF IInv, NotExecutedIsTrue, NotExecuted, Absent
    <2>2. \A o \in Ops : /\ mem'.ops[o] \in NotExecuted => runs[o] = 0
                         /\ disk'.ops[o] \in NotExecuted => runs[o] = 0
      BY <1>2, <2>1 DEF IInv, NotExecutedIsTrue, NotExecuted
    <2> QED BY <2>2 DEF NotExecutedIsTrue, NotExecuted, Restart, historyVars
  <1> QED BY <1>5, <1>7, <1>8, <1>9 DEF IInv

-----------------------------------------------------------------------------
\* The invariant.

\* New and Open on an empty file start inside the invariant.
LEMMA InitLemma ==
    ASSUME Init
    PROVE  IInv /\ Down
  <1>1. TypeOK
    <2>1. queue \in Seq(Ops) /\ Len(queue) <= QueueSize
      BY QueueSizeAssumption DEF Init
    <2>2. crashes \in 0..MaxCrashes
      BY MaxCrashesAssumption DEF Init
    <2>3. StoreTypeOK
      BY DEF Init, StoreInit, StoreTypeOK, EmptyImage, Images
    <2> QED BY <2>1, <2>2, <2>3 DEF Init, TypeOK, SubmitStates, ControlStates, WorkerStates, Results
  <1>2. \A i \in 1..Len(queue) : FALSE
    BY DEF Init
  <1>3. Jobs /\ Unrun /\ Executing /\ HasResult /\ Asked /\ Holding /\ Down
    <2>1. Jobs
      BY <1>2 DEF Init, Jobs, Busy
    <2>2. Unrun
      BY <1>2 DEF Init, Unrun, AtMostOnce, BeforeUpstream
    <2>3. Executing /\ HasResult /\ Asked /\ Holding /\ Down
      BY DEF Init, Executing, HasResult, Asked, Holding, Locked, Claimed, Down
    <2> QED BY <2>1, <2>2, <2>3
  <1>4. NotExecutedIsTrue
    BY DEF Init, NotExecutedIsTrue
  <1> QED BY <1>1, <1>3, <1>4 DEF IInv

\* No step of a request, a worker or the process leaves the invariant.
LEMMA NextLemma ==
    ASSUME IInv, Down, [Next]_vars
    PROVE  IInv'
  <1>1. ASSUME NEW o \in Ops, Submit(o) \/ CancelOperation(o)
        PROVE  IInv'
    BY <1>1, CreateOperationStep, AuditSubmittedStep, FailUnauditedStep, EnqueueStep,
       FailQueueFullStep, AuditQueueFullStep, CancelReadStep, CancelTransitionStep,
       SignalOperationCancellationStep DEF Submit, CancelOperation
  <1>2. ASSUME NEW w \in Workers, Worker(w)
        PROVE  IInv'
    BY <1>2, TakeJobStep, WorkerExitStep, GetOperationStep, AcquireTargetLockStep,
       AcquireGovernorStep, AbandonWaitStep, TransitionRunningStep, PrepareFailsStep,
       CallUpstreamStep, UpstreamReturnsStep, AuditResultStep, UpdateOperationStep,
       FinishStep DEF Worker
  <1>3. ASSUME NEW s \in Stripes, TryAcquireTargetLock(s) \/ ReleaseTargetLock(s)
        PROVE  IInv'
    BY <1>3, TryAcquireTargetLockStep, ReleaseTargetLockStep
  <1>4. CASE Shutdown \/ CancelAllOperationControls \/ ProcessExit \/ Restart
    BY <1>4, ShutdownStep, ProcessExitStep, RestartStep
  <1>5. CASE UNCHANGED vars
    <2>1. TypeOK'
      BY <1>5 DEF IInv, TypeOK, StoreTypeOK, vars, storeVars, requestVars, workerVars,
           processVars, historyVars
    <2>2. Jobs' /\ Unrun' /\ Executing' /\ HasResult' /\ Asked' /\ Holding' /\ NotExecutedIsTrue'
      BY <1>5 DEF IInv, Jobs, Unrun, AtMostOnce, Executing, HasResult, Asked, Holding, Stripe,
           NotExecutedIsTrue, vars, storeVars, requestVars, workerVars, historyVars
    <2> QED BY <2>1, <2>2 DEF IInv
  <1> QED BY <1>1, <1>2, <1>3, <1>4, <1>5 DEF Next

\* The inductive invariant holds throughout every behaviour of the pipeline.
THEOREM Invariance == Spec => [](IInv /\ Down)
  BY InitLemma, NextLemma, DownStep, PTL DEF Spec

\* Every variable keeps its type; in particular Service.queue never exceeds its
\* capacity and every index the code uses is in range.
THEOREM TypeCorrect == Spec => []TypeOK
  <1>1. IInv => TypeOK
    BY DEF IInv
  <1> QED BY <1>1, Invariance, PTL

\* No operation reaches its cluster twice, however submissions, cancellations,
\* workers, store errors and restarts interleave.
THEOREM ExecutedAtMostOnce == Spec => []AtMostOnce
  <1>1. IInv => AtMostOnce
    BY DEF IInv, Unrun
  <1> QED BY <1>1, Invariance, PTL

\* A record, in memory or in the file, that says an operation was not executed
\* is true.
THEOREM NotExecutedIsHonest == Spec => []NotExecutedIsTrue
  <1>1. IInv => NotExecutedIsTrue
    BY DEF IInv
  <1> QED BY <1>1, Invariance, PTL

\* Operations on one target are executed one at a time, and never while a
\* rotation or scan holds the target's lock.
THEOREM Serialization == Spec => []TargetsAreSerialized
  <1>1. IInv => TargetsAreSerialized
    <2> SUFFICES ASSUME IInv, NEW v \in Workers, wpc[v] \in {"prepare", "upstream"}
                 PROVE  /\ lock[Stripe(wop[v])] # Api
                        /\ \A w \in Workers : wpc[w] \in {"prepare", "upstream"} /\ v # w =>
                               request[wop[v]].target # request[wop[w]].target
      BY DEF TargetsAreSerialized
    <2>1. \A w \in Workers : wpc[w] \in {"prepare", "upstream"} => lock[Stripe(wop[w])] = w
      BY DEF IInv, Holding, Locked, Claimed
    <2> QED BY <2>1, HoldersAssumption DEF Stripe
  <1> QED BY <1>1, Invariance, PTL

\* While a worker is at its cluster the file says the operation is running, so
\* a crash at that moment is reported as unknown.
THEOREM ExecutionIsDurable == Spec => []ExecutingIsDurable
  <1>1. IInv => ExecutingIsDurable
    BY DEF IInv, Executing, ExecutingIsDurable, Claimed
  <1> QED BY <1>1, Invariance, PTL
=============================================================================
