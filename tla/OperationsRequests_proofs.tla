--------------------- MODULE OperationsRequests_proofs ----------------------
(***************************************************************************)
(* The steps of submissions and cancellations keep the inductive           *)
(* invariant, whether a store call commits, fails before or after the      *)
(* rename, or is refused by the compare-and-set.                           *)
(***************************************************************************)
EXTENDS OperationsInvariant

\* A request being submitted is nobody's job yet.
LEMMA SubmittingLemma ==
    ASSUME IInv, NEW o \in Ops, sub[o] # "done"
    PROVE  /\ runs[o] = 0
           /\ \A w \in Workers : wop[w] # o
           /\ \A i \in 1..Len(queue) : queue[i] # o
  BY HoldersAssumption DEF IInv, Unrun, Jobs

\* What a submission's store call does besides calling the store.
Submits(o) ==
    /\ sub[o] # "done"
    /\ \E s \in Submitting \cup {"done"} : sub' = [sub EXCEPT ![o] = s]
    /\ \E c \in ControlStates : ctl' = [ctl EXCEPT ![o] = c]
    /\ \/ UNCHANGED request /\ sub[o] # "none"
       \/ \E r \in Requests : request' = [request EXCEPT ![o] = r]
    /\ UNCHANGED <<can, queue, workerVars, processVars, historyVars>>

\* The steps of createAndEnqueueOperation that call the store for o preserve the
\* inductive invariant, whatever the outcome of the call.
LEMMA SubmitStoreStep ==
    ASSUME IInv, NEW o \in Ops, StoreFrame(o), Submits(o)
    PROVE  IInv'
  <1>1. runs[o] = 0 /\ \A w \in Workers : wop[w] # o
    BY SubmittingLemma DEF Submits
  <1>2. /\ sub' \in [Ops -> SubmitStates] /\ ctl' \in [Ops -> ControlStates]
        /\ request' \in [Ops -> Requests \cup {NoRequest}]
        /\ \A p \in Ops : p # o => sub'[p] = sub[p] /\ request'[p] = request[p]
    <2>1. /\ sub' \in [Ops -> SubmitStates]
          /\ \A p \in Ops : p # o => sub'[p] = sub[p]
      BY DEF IInv, TypeOK, Submits, SubmitStates
    <2>2. ctl' \in [Ops -> ControlStates]
      BY DEF IInv, TypeOK, Submits
    <2>3. /\ request' \in [Ops -> Requests \cup {NoRequest}]
          /\ \A p \in Ops : p # o => request'[p] = request[p]
      <3>1. request \in [Ops -> Requests \cup {NoRequest}]
        BY DEF IInv, TypeOK
      <3>2. CASE UNCHANGED request
        BY <3>1, <3>2
      <3>3. CASE \E r \in Requests : request' = [request EXCEPT ![o] = r]
        BY <3>1, <3>3
      <3> QED BY <3>2, <3>3 DEF Submits
    <2> QED BY <2>1, <2>2, <2>3
  <1>3. TypeOK'
    BY <1>2 DEF IInv, TypeOK, StoreTypeOK, StoreFrame, Submits, workerVars,
         processVars, historyVars
  <1>4. Jobs' /\ Unrun' /\ HasResult'
    <2>1. /\ UNCHANGED <<queue, wpc, wop, wres, runs>>
          /\ sub[o] # "done"
      BY DEF Submits, workerVars, historyVars
    <2>2. queue \in Seq(Ops) /\ wop \in [Workers -> Ops \cup {NoOp}]
      BY DEF IInv, TypeOK
    <2>3. Jobs'
      <3>1. \A i \in 1..Len(queue) : queue[i] \in Ops /\ sub[queue[i]] = "done"
        BY <2>2 DEF IInv, Jobs
      <3>2. \A i \in 1..Len(queue) : sub'[queue[i]] = "done"
        BY <1>2, <2>1, <3>1
      <3>3. \A v \in Workers : wop[v] # NoOp => sub'[wop[v]] = "done"
        BY <1>1, <1>2, <2>2 DEF IInv, Jobs
      <3> QED BY <2>1, <3>2, <3>3 DEF IInv, Jobs
    <2>4. Unrun'
      BY <1>1, <1>2, <2>1 DEF IInv, Unrun, AtMostOnce
    <2>5. HasResult'
      BY <2>1 DEF IInv, HasResult
    <2> QED BY <2>3, <2>4, <2>5
  <1>5. Asked'
    BY DEF IInv, TypeOK, Asked, Submits
  <1>6. Holding'
    <2>1. \A w \in Workers : wpc[w] \in Locked => wop[w] \in Ops
      BY BusyLemma DEF Locked, Claimed, Busy, WorkerStates
    <2>2. \A w \in Workers : wpc[w] \in Locked => request'[wop[w]] = request[wop[w]]
      BY <1>1, <1>2, <2>1
    <2> QED BY <2>2 DEF IInv, Holding, Stripe, Submits, workerVars
  <1>7. Executing' /\ NotExecutedIsTrue'
    BY <1>1, StoreStep DEF Submits, workerVars, historyVars
  <1> QED BY <1>3, <1>4, <1>5, <1>6, <1>7 DEF IInv

\* The operation is entered into the store, or its submission ends here.
LEMMA CreateOperationStep ==
    ASSUME IInv, NEW o \in Ops, CreateOperation(o)
    PROVE  IInv'
  <1>1. StoreCall(Created(mem, o))
    BY DEF CreateOperation, StoreCall
  <1>2. StoreFrame(o)
    BY <1>1, CreateFrame DEF IInv, TypeOK
  <1>3. Submits(o)
    BY DEF CreateOperation, NextOp, Submits, Submitting, ControlStates
  <1> QED BY <1>2, <1>3, SubmitStoreStep

\* The submission's audit event is written, or not.
LEMMA AuditSubmittedStep ==
    ASSUME IInv, NEW o \in Ops, AuditSubmitted(o)
    PROVE  IInv'
  <1>1. StoreCall(Log(mem, o, "submitted")) /\ "submitted" \in AuditResults
    BY DEF AuditSubmitted, StoreCall, AuditResults
  <1>2. StoreFrame(o)
    BY <1>1, LogFrame DEF IInv, TypeOK
  <1>3. ctl' = [ctl EXCEPT ![o] = ctl[o]] /\ ctl[o] \in ControlStates
    BY DEF IInv, TypeOK, AuditSubmitted
  <1>4. Submits(o)
    BY <1>3 DEF AuditSubmitted, Submits, Submitting
  <1> QED BY <1>2, <1>4, SubmitStoreStep

\* An operation whose submission could not be audited is failed.
LEMMA FailUnauditedStep ==
    ASSUME IInv, NEW o \in Ops, FailUnaudited(o)
    PROVE  IInv'
  <1>1. StoreCall(Put(mem, o, "rejected")) /\ "rejected" \in OperationStates
    BY DEF FailUnaudited, StoreCall, Transition, TransitionFails, OperationStates, Terminal
  <1>2. StoreFrame(o)
    BY <1>1, PutFrame DEF IInv, TypeOK
  <1>3. Submits(o)
    BY DEF FailUnaudited, Submits, Submitting, ControlStates
  <1> QED BY <1>2, <1>3, SubmitStoreStep

\* The non-blocking send hands the only job of o to the queue.
LEMMA EnqueueStep ==
    ASSUME IInv, NEW o \in Ops, Enqueue(o)
    PROVE  IInv'
  <1>1. CASE ~(Len(queue) < QueueSize)
    <2>1. /\ queue' = queue /\ sub' = [sub EXCEPT ![o] = "full"]
          /\ ctl' = [ctl EXCEPT ![o] = "canceled"] /\ sub[o] = "audited"
      BY <1>1 DEF Enqueue
    <2>2. TypeOK'
      BY <2>1 DEF IInv, TypeOK, SubmitStates, Submitting, ControlStates, Enqueue,
           storeVars, StoreTypeOK, workerVars, processVars, historyVars
    <2>3. Jobs' /\ Unrun'
      BY <2>1 DEF IInv, TypeOK, Jobs, Unrun, AtMostOnce, Enqueue, workerVars, historyVars
    <2>4. Executing' /\ HasResult' /\ Asked' /\ Holding' /\ NotExecutedIsTrue'
      BY <2>1 DEF IInv, TypeOK, Executing, HasResult, Asked, Holding, Stripe,
           NotExecutedIsTrue, Enqueue, storeVars, workerVars, historyVars
    <2> QED BY <2>2, <2>3, <2>4 DEF IInv
  <1>2. CASE Len(queue) < QueueSize
    <2>1. /\ queue' = Append(queue, o) /\ sub' = [sub EXCEPT ![o] = "done"]
          /\ ctl' = ctl /\ wop' = wop /\ wpc' = wpc /\ runs' = runs
          /\ sub[o] = "audited" /\ queue \in Seq(Ops)
      BY <1>2 DEF IInv, TypeOK, Enqueue, workerVars, historyVars
    <2>2. queue' \in Seq(Ops) /\ Len(queue') <= QueueSize
      BY <1>2, <2>1, QueueSizeAssumption
    <2>3. TypeOK'
      BY <2>1, <2>2 DEF IInv, TypeOK, SubmitStates, Enqueue, storeVars, StoreTypeOK,
           workerVars, processVars, historyVars
    <2>4. \A i \in 1..Len(queue') : \/ i \in 1..Len(queue) /\ queue'[i] = queue[i]
                                    \/ i = Len(queue) + 1 /\ queue'[i] = o
      BY <2>1, AppendLemma
    <2>5. Jobs'
      <3>1. \A i \in 1..Len(queue) : queue[i] # o
        BY <2>1 DEF IInv, Jobs
      <3>2. \A w \in Workers : wop[w] # o
        BY <2>1, HoldersAssumption DEF IInv, Jobs
      <3>3. \A i, j \in 1..Len(queue') : queue'[i] = queue'[j] => i = j
        BY <2>4, <3>1 DEF IInv, Jobs
      <3>4. \A w \in Workers, i \in 1..Len(queue') : wop'[w] # queue'[i]
        BY <2>1, <2>4, <3>2 DEF IInv, Jobs
      <3>5. \A i \in 1..Len(queue') : sub'[queue'[i]] = "done"
        BY <2>1, <2>4 DEF IInv, TypeOK, Jobs
      <3> QED BY <2>1, <3>2, <3>3, <3>4, <3>5 DEF IInv, TypeOK, Jobs
    <2>6. Unrun'
      BY <2>1, <2>4 DEF IInv, TypeOK, Unrun, AtMostOnce
    <2>7. Executing' /\ HasResult' /\ Asked' /\ Holding' /\ NotExecutedIsTrue'
      BY <2>1 DEF IInv, TypeOK, Executing, HasResult, Asked, Holding, Stripe,
           NotExecutedIsTrue, Enqueue, storeVars, workerVars
    <2> QED BY <2>3, <2>5, <2>6, <2>7 DEF IInv
  <1> QED BY <1>1, <1>2

\* An operation that found the queue full is failed, unless canceled meanwhile.
LEMMA FailQueueFullStep ==
    ASSUME IInv, NEW o \in Ops, FailQueueFull(o)
    PROVE  IInv'
  <1>1. StoreCall(Put(mem, o, "rejected")) /\ "rejected" \in OperationStates
    BY DEF FailQueueFull, StoreCall, Transition, TransitionFails, OperationStates, Terminal
  <1>2. StoreFrame(o)
    BY <1>1, PutFrame DEF IInv, TypeOK
  <1>3. ctl' = [ctl EXCEPT ![o] = ctl[o]] /\ ctl[o] \in ControlStates
    BY DEF IInv, TypeOK, FailQueueFull
  <1>4. Submits(o)
    BY <1>3 DEF FailQueueFull, Submits, Submitting
  <1> QED BY <1>2, <1>4, SubmitStoreStep

\* The rejection is audited, or not.
LEMMA AuditQueueFullStep ==
    ASSUME IInv, NEW o \in Ops, AuditQueueFull(o)
    PROVE  IInv'
  <1>1. StoreCall(Log(mem, o, "failed")) /\ "failed" \in AuditResults
    BY DEF AuditQueueFull, StoreCall, AuditResults
  <1>2. StoreFrame(o)
    BY <1>1, LogFrame DEF IInv, TypeOK
  <1>3. ctl' = [ctl EXCEPT ![o] = ctl[o]] /\ ctl[o] \in ControlStates
    BY DEF IInv, TypeOK, AuditQueueFull
  <1>4. Submits(o)
    BY <1>3 DEF AuditQueueFull, Submits, Submitting
  <1> QED BY <1>2, <1>4, SubmitStoreStep

-----------------------------------------------------------------------------
\* Reading a record to cancel it changes nothing but the request.
LEMMA CancelReadStep ==
    ASSUME IInv, NEW o \in Ops, CancelRead(o)
    PROVE  IInv'
  <1>1. TypeOK'
    BY DEF IInv, TypeOK, StoreTypeOK, CancelRead, storeVars, workerVars, processVars, historyVars
  <1>2. UNCHANGED <<mem, disk, sub, request, queue, wpc, wop, wres, lock, runs>>
    BY DEF CancelRead, storeVars, workerVars, historyVars
  <1>3. Holding'
    BY <1>2, HoldingStep
  <1> QED BY <1>1, <1>2, <1>3, StillStep DEF IInv

\* Signalling a control changes no record and no job.
LEMMA SignalOperationCancellationStep ==
    ASSUME IInv, NEW o \in Ops, SignalOperationCancellation(o)
    PROVE  IInv'
  <1>1. can' \in [Ops -> {"none", "read", "signal"}] /\ ctl' \in [Ops -> ControlStates]
    BY DEF IInv, TypeOK, ControlStates, SignalOperationCancellation
  <1>2. TypeOK'
    BY <1>1 DEF IInv, TypeOK, StoreTypeOK, SignalOperationCancellation, storeVars, workerVars,
         processVars, historyVars
  <1>3. UNCHANGED <<mem, disk, sub, request, queue, wpc, wop, wres, lock, runs>>
    BY DEF SignalOperationCancellation, storeVars, workerVars, historyVars
  <1>4. Holding'
    BY <1>3, HoldingStep
  <1> QED BY <1>2, <1>3, <1>4, StillStep DEF IInv

\* The compare-and-set of a cancellation only meets operations that have not
\* been executed and that no worker has claimed.
LEMMA CancelTransitionStep ==
    ASSUME IInv, NEW o \in Ops, CancelTransition(o)
    PROVE  IInv'
  <1> DEFINE image == Put(mem, o, "canceled")
             next == Log(image, o, "cancel")
  <1>1. /\ image \in Images /\ image.ops[o] = "canceled"
        /\ \A p \in Ops : p # o => image.ops[p] = mem.ops[p]
    <2>1. mem \in Images /\ "canceled" \in OperationStates
      BY DEF IInv, TypeOK, StoreTypeOK, OperationStates, Terminal
    <2> QED BY <2>1, PutLemma
  <1>2. \/ UNCHANGED storeVars
        \/ mem.ops[o] = "queued" /\ (Commit(next) \/ CommitFails(next))
    BY DEF CancelTransition, Transition, TransitionFails
  <1> HIDE DEF image
  <1>3. next \in Images /\ next.ops = image.ops
    BY <1>1, LogLemma DEF AuditResults
  <1> HIDE DEF next
  <1>4. StoreFrame(o)
    BY <1>1, <1>2, <1>3, FrameLemma DEF IInv, TypeOK, StoreCall
  <1>5. TypeOK'
    BY <1>4 DEF IInv, TypeOK, StoreTypeOK, StoreFrame, CancelTransition, workerVars,
         processVars, historyVars
  <1>6. Jobs' /\ Unrun' /\ HasResult' /\ Asked' /\ Holding'
    <2>1. UNCHANGED <<sub, request, queue, wpc, wop, wres, lock, runs>>
      BY DEF CancelTransition, workerVars, historyVars
    <2>2. Jobs' /\ Unrun'
      BY <2>1 DEF IInv, Jobs, Unrun, AtMostOnce
    <2>3. HasResult' /\ Asked'
      BY <2>1 DEF IInv, HasResult, Asked
    <2>4. Holding'
      BY <2>1 DEF IInv, Holding, Stripe
    <2> QED BY <2>2, <2>3, <2>4
  <1>7. Executing' /\ NotExecutedIsTrue'
    <2>1. CASE UNCHANGED storeVars
      <3>1. UNCHANGED <<mem, disk, wpc, wop, runs>>
        BY <2>1 DEF CancelTransition, storeVars, workerVars, historyVars
      <3> QED BY <3>1 DEF IInv, Executing, NotExecutedIsTrue
    <2>2. CASE mem.ops[o] = "queued"
      <3>1. runs[o] = 0
        BY <2>2 DEF IInv, NotExecutedIsTrue
      <3>2. \A w \in Workers : wpc[w] \in Claimed => wop[w] # o
        BY <2>2 DEF IInv, Executing
      <3> QED BY <1>4, <3>1, <3>2, StoreStep DEF CancelTransition, workerVars, historyVars
    <2> QED BY <1>2, <2>1, <2>2
  <1> QED BY <1>5, <1>6, <1>7 DEF IInv
=============================================================================
