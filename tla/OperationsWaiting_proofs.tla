---------------------- MODULE OperationsWaiting_proofs ----------------------
(***************************************************************************)
(* The steps of a worker up to its claim, and those of the other holders   *)
(* of target locks, keep the inductive invariant: the job changes hands,   *)
(* the locks and slots move, and the records stay.                         *)
(***************************************************************************)
EXTENDS OperationsInvariant

\* A worker takes the job at the head of the queue.
LEMMA TakeJobStep ==
    ASSUME IInv, NEW w \in Workers, TakeJob(w)
    PROVE  IInv'
  <1>1. /\ Head(queue) \in Ops /\ Head(queue) = queue[1] /\ 1 \in 1..Len(queue)
        /\ Tail(queue) \in Seq(Ops) /\ Len(Tail(queue)) = Len(queue) - 1
        /\ Len(queue) \in Nat /\ \A i \in 1..Len(Tail(queue)) : Tail(queue)[i] = queue[i + 1]
    BY DEF IInv, TypeOK, TakeJob
  <1>2. /\ queue' = Tail(queue) /\ wpc[w] = "idle"
        /\ wpc'[w] = "get" /\ \A v \in Workers : v # w => wpc'[v] = wpc[v]
        /\ wop'[w] = Head(queue) /\ \A v \in Workers : v # w => wop'[v] = wop[v]
        /\ UNCHANGED <<mem, disk, sub, request, wres, lock, runs>>
    BY DEF IInv, TypeOK, TakeJob, Step, storeVars, requestVars, historyVars
  <1>3. TypeOK'
    <2>1. wpc' \in [Workers -> WorkerStates] /\ wop' \in [Workers -> Ops \cup {NoOp}]
      BY <1>1 DEF IInv, TypeOK, WorkerStates, TakeJob, Step
    <2>2. queue' \in Seq(Ops) /\ Len(queue') <= QueueSize
      BY <1>1, <1>2, QueueSizeAssumption DEF IInv, TypeOK
    <2> QED BY <2>1, <2>2 DEF IInv, TypeOK, TakeJob, storeVars, StoreTypeOK, requestVars,
            processVars, historyVars
  <1>4. \A i \in 1..Len(queue') : i + 1 \in 1..Len(queue) /\ queue'[i] = queue[i + 1]
    BY <1>1, <1>2
  <1>5. Jobs'
    <2>1. \A i, j \in 1..Len(queue') : queue'[i] = queue'[j] => i = j
      BY <1>4 DEF IInv, Jobs
    <2>2. \A v \in Workers, i \in 1..Len(queue') : wop'[v] # queue'[i]
      <3>1. \A i \in 1..Len(queue') : queue[i + 1] # queue[1]
        BY <1>1, <1>4 DEF IInv, Jobs
      <3> QED BY <1>1, <1>2, <1>4, <3>1 DEF IInv, Jobs
    <2>3. \A u, v \in Workers : u # v /\ wop'[u] = wop'[v] => wop'[u] = NoOp
      BY <1>1, <1>2 DEF IInv, Jobs
    <2>4. \A v \in Workers : wop'[v] # NoOp <=> wpc'[v] \in Busy
      BY <1>1, <1>2, HoldersAssumption DEF IInv, Jobs, Busy, WorkerStates
    <2>5. \A i \in 1..Len(queue') : sub'[queue'[i]] = "done"
      BY <1>2, <1>4 DEF IInv, Jobs
    <2>6. \A v \in Workers : wop'[v] # NoOp => sub'[wop'[v]] = "done"
      BY <1>1, <1>2 DEF IInv, Jobs
    <2> QED BY <2>1, <2>2, <2>3, <2>4, <2>5, <2>6 DEF Jobs
  <1>6. Unrun'
    <2>1. \A i \in 1..Len(queue') : runs'[queue'[i]] = 0
      BY <1>2, <1>4 DEF IInv, Unrun
    <2>2. \A v \in Workers : wpc'[v] \in BeforeUpstream => runs'[wop'[v]] = 0
      BY <1>1, <1>2 DEF IInv, Unrun
    <2> QED BY <1>2, <2>1, <2>2 DEF IInv, Unrun, AtMostOnce
  <1>7. Executing' /\ HasResult'
    BY <1>2 DEF IInv, Executing, Claimed, HasResult
  <1>8. Asked' /\ NotExecutedIsTrue'
    BY <1>2 DEF IInv, Asked, NotExecutedIsTrue
  <1>9. Holding'
    BY <1>2 DEF IInv, Holding, Stripe, Locked, Claimed
  <1> QED BY <1>3, <1>5, <1>6, <1>7, <1>8, <1>9 DEF IInv

\* A worker without a job returns.
LEMMA WorkerExitStep ==
    ASSUME IInv, NEW w \in Workers, WorkerExit(w)
    PROVE  IInv'
  <1>1. TypeOK'
    BY DEF IInv, TypeOK, WorkerStates, WorkerExit, Step, storeVars, StoreTypeOK, requestVars,
         processVars, historyVars
  <1>2. /\ wpc[w] = "idle" /\ wpc'[w] = "exited" /\ \A v \in Workers : v # w => wpc'[v] = wpc[v]
        /\ UNCHANGED <<mem, disk, sub, request, queue, wop, wres, lock, runs>>
    BY DEF IInv, TypeOK, WorkerExit, Step, storeVars, requestVars, historyVars
  <1>3. Jobs'
    BY <1>2 DEF IInv, Jobs, Busy
  <1>4. Unrun'
    BY <1>2 DEF IInv, Unrun, AtMostOnce, BeforeUpstream
  <1>5. Executing' /\ HasResult'
    BY <1>2 DEF IInv, Executing, Claimed, HasResult
  <1>6. Asked' /\ NotExecutedIsTrue'
    BY <1>2 DEF IInv, Asked, NotExecutedIsTrue
  <1>7. Holding'
    BY <1>2 DEF IInv, Holding, Stripe, Locked, Claimed
  <1> QED BY <1>1, <1>3, <1>4, <1>5, <1>6, <1>7 DEF IInv

\* Waiting for a lock or a slot, or giving up, moves the worker and nothing else
\* that the invariant is about.
LEMMA WaitStep ==
    ASSUME IInv, NEW w \in Workers, NEW to, Advance(w, to),
           to \in Locked => wpc[w] \in Locked,
           to \notin Claimed,
           slots' \subseteq Workers,
           UNCHANGED <<storeVars, requestVars, wres, lock, processVars, historyVars>>
    PROVE  IInv'
  <1> USE AdvanceStep
  <1>1. UNCHANGED <<mem, disk, storeFailed, sub, can, ctl, request, queue, wop, wres, lock>>
    BY DEF Advance, storeVars, requestVars
  <1>2. TypeOK'
    BY <1>1 DEF IInv, TypeOK, StoreTypeOK, processVars, historyVars
  <1>3. Holding'
    BY <1>1, HoldingStep
  <1>4. HasResult'
    BY <1>1, HasResultStep DEF Claimed
  <1>5. Executing' /\ NotExecutedIsTrue'
    BY <1>1, RecordsStep DEF historyVars
  <1> QED BY <1>2, <1>3, <1>4, <1>5 DEF IInv

\* A worker looks its operation up.
LEMMA GetOperationStep ==
    ASSUME IInv, NEW w \in Workers, GetOperation(w)
    PROVE  IInv'
  <1>1. PICK to \in {"lock", "finish"} : wpc[w] = "get" /\ wpc' = [wpc EXCEPT ![w] = to]
    BY DEF GetOperation, Step
  <1>2. UNCHANGED <<storeVars, requestVars, queue, wop, wres, lock, slots, processVars, historyVars>>
    BY DEF GetOperation
  <1>3. Advance(w, to) /\ to \notin Locked /\ to \notin Claimed
    BY <1>1, <1>2 DEF Advance, Busy, WorkerStates, BeforeUpstream, Locked, Claimed, requestVars,
         historyVars
  <1>4. slots' \subseteq Workers
    BY <1>2 DEF IInv, TypeOK
  <1> QED BY <1>2, <1>3, <1>4, WaitStep

\* A worker takes a governor slot.
LEMMA AcquireGovernorStep ==
    ASSUME IInv, NEW w \in Workers, AcquireGovernor(w)
    PROVE  IInv'
  <1>1. wpc[w] = "govern" /\ wpc' = [wpc EXCEPT ![w] = "claim"] /\ slots' = slots \cup {w}
    BY DEF AcquireGovernor, Step
  <1>2. UNCHANGED <<storeVars, requestVars, queue, wop, wres, lock, processVars, historyVars>>
    BY DEF AcquireGovernor
  <1>3. Advance(w, "claim") /\ wpc[w] \in Locked /\ "claim" \notin Claimed
    BY <1>1, <1>2 DEF Advance, Busy, WorkerStates, BeforeUpstream, Locked, Claimed, requestVars,
         historyVars
  <1>4. slots' \subseteq Workers
    BY <1>1 DEF IInv, TypeOK
  <1> QED BY <1>2, <1>3, <1>4, WaitStep

\* A worker gives up waiting.
LEMMA AbandonWaitStep ==
    ASSUME IInv, NEW w \in Workers, AbandonWait(w)
    PROVE  IInv'
  <1>1. wpc[w] \in {"lock", "govern"} /\ wpc' = [wpc EXCEPT ![w] = "finish"]
    BY DEF AbandonWait, Step
  <1>2. UNCHANGED <<storeVars, requestVars, queue, wop, wres, lock, slots, processVars, historyVars>>
    BY DEF AbandonWait
  <1>3. Advance(w, "finish") /\ "finish" \notin Locked /\ "finish" \notin Claimed
    BY <1>1, <1>2 DEF Advance, Busy, WorkerStates, BeforeUpstream, Locked, Claimed, requestVars,
         historyVars
  <1>4. slots' \subseteq Workers
    BY <1>2 DEF IInv, TypeOK
  <1> QED BY <1>2, <1>3, <1>4, WaitStep

\* A worker takes the free stripe of its target.
LEMMA AcquireTargetLockStep ==
    ASSUME IInv, NEW w \in Workers, AcquireTargetLock(w)
    PROVE  IInv'
  <1>1. Advance(w, "govern") /\ wpc[w] = "lock"
    BY DEF AcquireTargetLock, Step, Advance, Busy, WorkerStates, BeforeUpstream, requestVars,
         historyVars
  <1>2. /\ wpc' \in [Workers -> WorkerStates] /\ wpc'[w] = "govern"
        /\ \A v \in Workers : v # w => wpc'[v] = wpc[v]
        /\ Jobs' /\ Unrun' /\ Asked'
    BY <1>1, AdvanceStep
  <1>3. Stripe(wop[w]) \in Stripes
    BY <1>1, BusyLemma DEF Advance
  <1>4. UNCHANGED <<storeVars, requestVars, queue, wop, wres, slots, processVars, historyVars>>
    BY DEF AcquireTargetLock
  <1>5. TypeOK'
    <2>1. lock' \in [Stripes -> Workers \cup {Api, NoWorker}]
      BY DEF IInv, TypeOK, AcquireTargetLock
    <2> QED BY <1>2, <1>4, <2>1 DEF IInv, TypeOK, storeVars, StoreTypeOK, requestVars,
            processVars, historyVars
  <1>6. Holding'
    <2>1. \A v \in Workers : v # w /\ wpc[v] \in Locked => Stripe(wop[v]) # Stripe(wop[w])
      BY HoldersAssumption DEF IInv, Holding, AcquireTargetLock
    <2>2. \A v \in Workers : v # w /\ wpc[v] \in Locked => lock'[Stripe(wop[v])] = v
      BY <1>3, <2>1 DEF IInv, TypeOK, Holding, AcquireTargetLock
    <2>3. lock'[Stripe(wop[w])] = w
      BY <1>3 DEF IInv, TypeOK, AcquireTargetLock
    <2>4. \A v \in Workers : wpc'[v] \in Locked => lock'[Stripe(wop[v])] = v
      BY <1>2, <2>2, <2>3
    <2> QED BY <1>1, <2>4 DEF Holding, Stripe, Advance
  <1>7. HasResult'
    BY <1>2, <1>4, HasResultStep
  <1>8. Executing' /\ NotExecutedIsTrue'
    BY <1>2, <1>4, RecordsStep DEF Claimed, storeVars, historyVars
  <1> QED BY <1>2, <1>5, <1>6, <1>7, <1>8 DEF IInv

-----------------------------------------------------------------------------
\* A rotation or scan takes a free stripe.
LEMMA TryAcquireTargetLockStep ==
    ASSUME IInv, NEW s \in Stripes, TryAcquireTargetLock(s)
    PROVE  IInv'
  <1>1. lock' \in [Stripes -> Workers \cup {Api, NoWorker}]
    BY DEF IInv, TypeOK, TryAcquireTargetLock
  <1>2. TypeOK'
    BY <1>1 DEF IInv, TypeOK, TryAcquireTargetLock, storeVars, StoreTypeOK, requestVars,
         processVars, historyVars
  <1>3. UNCHANGED <<mem, disk, sub, request, queue, wpc, wop, wres, runs>>
    BY DEF TryAcquireTargetLock, storeVars, requestVars, historyVars
  <1>4. Holding'
    <2>1. \A v \in Workers : wpc[v] \in Locked => Stripe(wop[v]) # s
      BY HoldersAssumption DEF IInv, Holding, TryAcquireTargetLock
    <2>2. \A v \in Workers : wpc[v] \in Locked => lock'[Stripe(wop[v])] = v
      BY <2>1 DEF IInv, TypeOK, Holding, TryAcquireTargetLock
    <2> QED BY <1>3, <2>2 DEF Holding, Stripe
  <1> QED BY <1>2, <1>3, <1>4, StillStep DEF IInv

\* A rotation or scan releases its stripe.
LEMMA ReleaseTargetLockStep ==
    ASSUME IInv, NEW s \in Stripes, ReleaseTargetLock(s)
    PROVE  IInv'
  <1>1. lock' \in [Stripes -> Workers \cup {Api, NoWorker}]
    BY DEF IInv, TypeOK, ReleaseTargetLock
  <1>2. TypeOK'
    BY <1>1 DEF IInv, TypeOK, ReleaseTargetLock, storeVars, StoreTypeOK, requestVars,
         processVars, historyVars
  <1>3. UNCHANGED <<mem, disk, sub, request, queue, wpc, wop, wres, runs>>
    BY DEF ReleaseTargetLock, storeVars, requestVars, historyVars
  <1>4. Holding'
    <2>1. \A v \in Workers : wpc[v] \in Locked => Stripe(wop[v]) # s
      BY HoldersAssumption DEF IInv, Holding, ReleaseTargetLock
    <2>2. \A v \in Workers : wpc[v] \in Locked => lock'[Stripe(wop[v])] = v
      BY <2>1 DEF IInv, TypeOK, Holding, ReleaseTargetLock
    <2> QED BY <1>3, <2>2 DEF Holding, Stripe
  <1> QED BY <1>2, <1>3, <1>4, StillStep DEF IInv
=============================================================================
