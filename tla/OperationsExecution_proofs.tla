--------------------- MODULE OperationsExecution_proofs ---------------------
(***************************************************************************)
(* The steps of a worker from its claim to its last one keep the inductive *)
(* invariant: the claim is a compare-and-set that must have reached the    *)
(* file, the upstream call comes once after it, and the result is recorded *)
(* while the job is still the worker's.                                    *)
(***************************************************************************)
EXTENDS OperationsInvariant

\* The claim: a worker goes on only if the record was queued and is now running
\* in memory and on disk.
LEMMA TransitionRunningStep ==
    ASSUME IInv, NEW w \in Workers, TransitionRunning(w)
    PROVE  IInv'
  <1> DEFINE o == wop[w]
             next == Put(mem, o, "running")
  <1>1. PICK to \in {"prepare", "finish"} :
            /\ wpc[w] = "claim" /\ wpc' = [wpc EXCEPT ![w] = to]
            /\ to = "prepare" => Commit(next)
            /\ StoreCall(next)
    <2>1. CASE Step(w, "claim", "prepare") /\ Transition(o, "queued", next)
      BY <2>1 DEF Step, Transition, StoreCall
    <2>2. CASE /\ Step(w, "claim", "finish")
               /\ TransitionFails(o, "queued", next) \/ UNCHANGED storeVars
      BY <2>2 DEF Step, TransitionFails, StoreCall
    <2> QED BY <2>1, <2>2 DEF TransitionRunning
  <1>2. UNCHANGED <<requestVars, queue, wop, wres, lock, slots, processVars, historyVars>>
    BY DEF TransitionRunning
  <1>3. Advance(w, to)
    BY <1>1, <1>2 DEF Advance, Busy, WorkerStates, BeforeUpstream, requestVars, historyVars
  <1>4. /\ wpc' \in [Workers -> WorkerStates] /\ wpc'[w] = to
        /\ \A v \in Workers : v # w => wpc'[v] = wpc[v]
        /\ Jobs' /\ Unrun' /\ Asked'
    BY <1>3, AdvanceStep
  <1>5. o \in Ops /\ mem \in Images /\ StoreTypeOK /\ "running" \in OperationStates
    BY <1>3, BusyLemma DEF Advance, IInv, TypeOK, StoreTypeOK, OperationStates, InFlight
  <1>6. /\ StoreFrame(o)
        /\ mem'.ops[o] \in {mem.ops[o], "running"}
        /\ disk'.ops[o] \in {disk.ops[o], "running"}
    BY <1>1, <1>5, PutFrame
  <1>7. to = "prepare" => mem'.ops[o] = "running" /\ disk'.ops[o] = "running"
    <2>1. next.ops[o] = "running"
      BY <1>5, PutLemma
    <2> QED BY <1>1, <2>1 DEF Commit
  <1>8. TypeOK'
    BY <1>2, <1>4, <1>6 DEF IInv, TypeOK, StoreTypeOK, StoreFrame, requestVars, processVars,
         historyVars
  <1>9. Holding'
    BY <1>1, <1>2, <1>4, HoldingStep DEF Locked, requestVars
  <1>10. HasResult'
    BY <1>2, <1>4, HasResultStep
  <1>11. Executing' /\ NotExecutedIsTrue'
    <2>1. \A v \in Workers : v # w => wop[v] # o
      BY <1>5, HoldersAssumption DEF IInv, Jobs
    <2>2. \A v \in Workers : wpc'[v] \in Claimed /\ wop[v] # o => wpc[v] \in Claimed
      BY <1>4
    <2>3. \A v \in Workers : wpc'[v] \in Claimed /\ wop[v] = o =>
                mem'.ops[o] = "running" /\ disk'.ops[o] = "running"
      BY <1>4, <1>7, <2>1 DEF Claimed
    <2>4. runs[o] = 0
      BY <1>1 DEF IInv, Unrun, BeforeUpstream
    <2> QED BY <1>2, <1>5, <1>6, <2>2, <2>3, <2>4, StoreStep DEF historyVars
  <1> QED BY <1>4, <1>8, <1>9, <1>10, <1>11 DEF IInv

\* Preparing the call fails, or the call returns: either yields a result and
\* leaves the records alone.
LEMMA ResultStep ==
    ASSUME IInv, NEW w \in Workers, wpc[w] \in {"prepare", "upstream"},
           wpc' = [wpc EXCEPT ![w] = "audit"],
           NEW result \in Results \ {"none"}, wres' = [wres EXCEPT ![w] = result],
           interrupted' \subseteq Ops,
           UNCHANGED <<storeVars, requestVars, queue, wop, lock, slots, processVars, runs>>
    PROVE  IInv'
  <1>1. Advance(w, "audit")
    BY DEF Advance, Busy, WorkerStates, BeforeUpstream, requestVars
  <1>2. /\ wpc' \in [Workers -> WorkerStates] /\ wpc'[w] = "audit"
        /\ \A v \in Workers : v # w => wpc'[v] = wpc[v]
        /\ Jobs' /\ Unrun' /\ Asked'
    BY <1>1, AdvanceStep
  <1>3. /\ wres' \in [Workers -> Results] /\ wres'[w] # "none"
        /\ \A v \in Workers : v # w => wres'[v] = wres[v]
    BY DEF IInv, TypeOK
  <1>4. TypeOK'
    BY <1>2, <1>3 DEF IInv, TypeOK, storeVars, StoreTypeOK, requestVars, processVars
  <1>5. HasResult'
    BY <1>2, <1>3 DEF IInv, HasResult
  <1>6. Holding'
    BY <1>2, HoldingStep DEF Locked, Claimed, requestVars
  <1>7. Executing' /\ NotExecutedIsTrue'
    BY <1>2, RecordsStep DEF Claimed, storeVars
  <1> QED BY <1>2, <1>4, <1>5, <1>6, <1>7 DEF IInv

\* Preparing the call fails and yields a result.
LEMMA PrepareFailsStep ==
    ASSUME IInv, NEW w \in Workers, PrepareFails(w)
    PROVE  IInv'
  <1>1. /\ wpc[w] = "prepare" /\ wpc' = [wpc EXCEPT ![w] = "audit"]
        /\ UNCHANGED <<storeVars, requestVars, queue, wop, lock, slots, processVars, historyVars>>
    BY DEF PrepareFails, Step
  <1>2. PICK result \in Results \ {"none"} : wres' = [wres EXCEPT ![w] = result]
    BY DEF PrepareFails, Results
  <1>3. interrupted' \subseteq Ops /\ runs' = runs
    BY <1>1 DEF IInv, TypeOK, historyVars
  <1> QED BY <1>1, <1>2, <1>3, ResultStep

\* The upstream call yields a result.
LEMMA UpstreamReturnsStep ==
    ASSUME IInv, NEW w \in Workers, UpstreamReturns(w)
    PROVE  IInv'
  <1>1. /\ wpc[w] = "upstream" /\ wpc' = [wpc EXCEPT ![w] = "audit"]
        /\ UNCHANGED <<storeVars, requestVars, queue, wop, lock, slots, processVars, runs>>
    BY DEF UpstreamReturns, Step
  <1>2. PICK result \in Results \ {"none"} : wres' = [wres EXCEPT ![w] = result]
    BY DEF UpstreamReturns, Results
  <1>3. wop[w] \in Ops
    BY <1>1, BusyLemma DEF Busy, WorkerStates
  <1>4. interrupted' \subseteq Ops
    BY <1>3 DEF IInv, TypeOK, UpstreamReturns
  <1> QED BY <1>1, <1>2, <1>4, ResultStep

\* The one upstream call of an operation that had none.
LEMMA CallUpstreamStep ==
    ASSUME IInv, NEW w \in Workers, CallUpstream(w)
    PROVE  IInv'
  <1>1. /\ wpc[w] = "prepare" /\ wpc'[w] = "upstream"
        /\ \A v \in Workers : v # w => wpc'[v] = wpc[v]
        /\ UNCHANGED <<mem, disk, sub, request, queue, wop, wres, lock>>
    BY DEF IInv, TypeOK, CallUpstream, Step, storeVars, requestVars
  <1>2. wop[w] \in Ops /\ runs[wop[w]] = 0 /\ sub[wop[w]] = "done"
    <2>1. wop[w] \in Ops
      BY <1>1, BusyLemma DEF Busy, WorkerStates
    <2>2. wop[w] # NoOp
      BY <1>1 DEF IInv, Jobs, Busy, WorkerStates
    <2> QED BY <1>1, <2>1, <2>2 DEF IInv, Jobs, Unrun, BeforeUpstream
  <1>3. /\ runs' \in [Ops -> Nat] /\ runs'[wop[w]] = 1
        /\ \A p \in Ops : p # wop[w] => runs'[p] = runs[p]
    BY <1>2 DEF IInv, TypeOK, CallUpstream
  <1>4. TypeOK'
    <2>1. wpc' \in [Workers -> WorkerStates]
      BY DEF IInv, TypeOK, WorkerStates, CallUpstream, Step
    <2> QED BY <1>3, <2>1 DEF IInv, TypeOK, CallUpstream, storeVars, StoreTypeOK, requestVars,
            processVars
  <1>5. Unrun'
    <2>1. \A p \in Ops : sub'[p] # "done" => runs'[p] = 0
      BY <1>1, <1>2, <1>3 DEF IInv, Unrun
    <2>2. \A i \in 1..Len(queue') : runs'[queue'[i]] = 0
      <3>1. \A i \in 1..Len(queue) : queue[i] \in Ops /\ queue[i] # wop[w]
        BY DEF IInv, TypeOK, Jobs
      <3> QED BY <1>1, <1>3, <3>1 DEF IInv, Unrun
    <2>3. \A v \in Workers : wpc'[v] \in BeforeUpstream => runs'[wop'[v]] = 0
      <3>1. \A v \in Workers : wpc'[v] \in BeforeUpstream => v # w /\ wpc[v] \in BeforeUpstream
        BY <1>1 DEF BeforeUpstream
      <3>2. \A v \in Workers : wpc[v] \in BeforeUpstream => wop[v] \in Ops
        BY BusyLemma DEF BeforeUpstream, Busy, WorkerStates
      <3>3. \A v \in Workers : v # w => wop[v] # wop[w]
        BY <1>1 DEF IInv, Jobs, Busy, WorkerStates
      <3> QED BY <1>1, <1>3, <3>1, <3>2, <3>3 DEF IInv, Unrun
    <2>4. AtMostOnce'
      BY <1>3 DEF IInv, Unrun, AtMostOnce
    <2> QED BY <2>1, <2>2, <2>3, <2>4 DEF Unrun
  <1>6. NotExecutedIsTrue'
    <2>1. mem.ops[wop[w]] = "running" /\ disk.ops[wop[w]] = "running"
      BY <1>1 DEF IInv, Executing, Claimed
    <2> QED BY <1>1, <1>3, <2>1 DEF IInv, NotExecutedIsTrue
  <1>7. Jobs'
    <2>1. \A v \in Workers : wpc'[v] \in Busy <=> wpc[v] \in Busy
      BY <1>1 DEF Busy, WorkerStates
    <2> QED BY <1>1, <2>1 DEF IInv, Jobs
  <1>8. Executing' /\ HasResult' /\ Asked'
    <2>1. \A v \in Workers : wpc'[v] \in Claimed => wpc[v] \in Claimed
      BY <1>1 DEF Claimed
    <2>2. Executing'
      BY <1>1, <2>1 DEF IInv, Executing
    <2>3. HasResult'
      BY <1>1 DEF IInv, HasResult
    <2>4. Asked'
      BY <1>1 DEF IInv, Asked
    <2> QED BY <2>2, <2>3, <2>4
  <1>9. Holding'
    <2>1. \A v \in Workers : wpc'[v] \in Locked => wpc[v] \in Locked
      BY <1>1 DEF Locked, Claimed
    <2> QED BY <1>1, <2>1 DEF IInv, Holding, Stripe
  <1> QED BY <1>4, <1>5, <1>6, <1>7, <1>8, <1>9 DEF IInv

\* Auditing the result leaves the operation running, and a result stays one.
LEMMA AuditResultStep ==
    ASSUME IInv, NEW w \in Workers, AuditResult(w)
    PROVE  IInv'
  <1> DEFINE o == wop[w]
  <1>1. /\ wpc[w] = "audit" /\ wpc' = [wpc EXCEPT ![w] = "update"]
        /\ UNCHANGED <<requestVars, queue, wop, lock, slots, processVars, historyVars>>
    BY DEF AuditResult, Step
  <1>2. Advance(w, "update")
    BY <1>1 DEF Advance, Busy, WorkerStates, BeforeUpstream, requestVars, historyVars
  <1>3. /\ wpc' \in [Workers -> WorkerStates] /\ wpc'[w] = "update"
        /\ \A v \in Workers : v # w => wpc'[v] = wpc[v]
        /\ Jobs' /\ Unrun' /\ Asked'
    BY <1>2, AdvanceStep
  <1>4. o \in Ops /\ StoreTypeOK
    BY <1>2, BusyLemma DEF Advance, IInv, TypeOK
  <1>5. wres[w] \in AuditResults /\ wres[w] # "none"
    BY <1>1 DEF IInv, TypeOK, HasResult, Results, AuditResults
  <1>6. StoreCall(Log(mem, o, wres[w]))
    BY DEF AuditResult, StoreCall
  <1>7. StoreFrame(o) /\ mem'.ops = mem.ops /\ disk'.ops \in {mem.ops, disk.ops}
    BY <1>4, <1>5, <1>6, LogFrame
  <1>8. /\ wres' \in [Workers -> Results]
        /\ \A v \in Workers : wres'[v] = wres[v] \/ wres'[v] = "failed"
    BY DEF IInv, TypeOK, AuditResult, Results
  <1>9. TypeOK'
    BY <1>1, <1>3, <1>7, <1>8 DEF IInv, TypeOK, StoreTypeOK, StoreFrame, requestVars,
         processVars, historyVars
  <1>10. Holding'
    BY <1>1, <1>3, HoldingStep DEF Locked, Claimed, requestVars
  <1>11. HasResult'
    BY <1>3, <1>5, <1>8 DEF IInv, HasResult
  <1>12. \A v \in Workers : wpc'[v] \in Claimed => wpc[v] \in Claimed
    BY <1>1, <1>3 DEF Claimed
  <1>13. Executing'
    BY <1>1, <1>7, <1>12 DEF IInv, Executing
  <1>14. NotExecutedIsTrue'
    BY <1>1, <1>7 DEF IInv, NotExecutedIsTrue, historyVars
  <1> QED BY <1>3, <1>9, <1>10, <1>11, <1>13, <1>14 DEF IInv

\* The final record is a result, and the worker no longer claims the operation.
LEMMA UpdateOperationStep ==
    ASSUME IInv, NEW w \in Workers, UpdateOperation(w)
    PROVE  IInv'
  <1> DEFINE o == wop[w]
  <1>1. /\ wpc[w] = "update" /\ wpc' = [wpc EXCEPT ![w] = "finish"]
        /\ UNCHANGED <<requestVars, queue, wop, wres, lock, slots, processVars, historyVars>>
    BY DEF UpdateOperation, Step
  <1>2. Advance(w, "finish")
    BY <1>1 DEF Advance, Busy, WorkerStates, BeforeUpstream, requestVars, historyVars
  <1>3. /\ wpc' \in [Workers -> WorkerStates] /\ wpc'[w] = "finish"
        /\ \A v \in Workers : v # w => wpc'[v] = wpc[v]
        /\ Jobs' /\ Unrun' /\ Asked'
    BY <1>2, AdvanceStep
  <1>4. o \in Ops /\ StoreTypeOK
    BY <1>2, BusyLemma DEF Advance, IInv, TypeOK
  <1>5. wres[w] \in OperationStates /\ wres[w] \notin NotExecuted
    BY <1>1 DEF IInv, TypeOK, HasResult, Results, OperationStates, Terminal, NotExecuted
  <1>6. StoreCall(Put(mem, o, wres[w]))
    BY DEF UpdateOperation, Update, UpdateFails, StoreCall
  <1>7. /\ StoreFrame(o)
        /\ mem'.ops[o] \in {mem.ops[o], wres[w]}
        /\ disk'.ops[o] \in {disk.ops[o], wres[w]}
    BY <1>4, <1>5, <1>6, PutFrame
  <1>8. TypeOK'
    BY <1>1, <1>3, <1>7 DEF IInv, TypeOK, StoreTypeOK, StoreFrame, requestVars, processVars,
         historyVars
  <1>9. Holding' /\ HasResult'
    BY <1>1, <1>3, HoldingStep, HasResultStep DEF Locked, Claimed, requestVars
  <1>10. Executing' /\ NotExecutedIsTrue'
    <2>1. \A v \in Workers : wpc'[v] \in Claimed => v # w /\ wpc[v] \in Claimed
      BY <1>3 DEF Claimed
    <2>2. \A v \in Workers : v # w => wop[v] # o
      BY <1>4, HoldersAssumption DEF IInv, Jobs
    <2>3. mem.ops[o] = "running" /\ disk.ops[o] = "running"
      BY <1>1 DEF IInv, Executing, Claimed
    <2>4. mem'.ops[o] \notin NotExecuted /\ disk'.ops[o] \notin NotExecuted
      BY <1>5, <1>7, <2>3 DEF NotExecuted
    <2> QED BY <1>1, <1>4, <1>7, <2>1, <2>2, <2>4, StoreStep DEF historyVars
  <1> QED BY <1>3, <1>8, <1>9, <1>10 DEF IInv

\* A worker releases what it holds.
LEMMA FinishStep ==
    ASSUME IInv, NEW w \in Workers, Finish(w)
    PROVE  IInv'
  <1>1. /\ wpc[w] = "finish" /\ wpc'[w] = "idle" /\ wop'[w] = NoOp
        /\ \A v \in Workers : v # w => wpc'[v] = wpc[v] /\ wop'[v] = wop[v] /\ wres'[v] = wres[v]
        /\ UNCHANGED <<mem, disk, sub, request, queue, runs>>
    BY DEF IInv, TypeOK, Finish, Step, storeVars, historyVars
  <1>2. TypeOK'
    <2>1. wpc' \in [Workers -> WorkerStates] /\ wop' \in [Workers -> Ops \cup {NoOp}]
      BY DEF IInv, TypeOK, WorkerStates, Finish, Step
    <2>2. wres' \in [Workers -> Results] /\ ctl' \in [Ops -> ControlStates]
      BY DEF IInv, TypeOK, Results, ControlStates, Finish
    <2>3. lock' \in [Stripes -> Workers \cup {Api, NoWorker}] /\ slots' \subseteq Workers
      BY DEF IInv, TypeOK, Finish
    <2> QED BY <2>1, <2>2, <2>3 DEF IInv, TypeOK, Finish, storeVars, StoreTypeOK, processVars,
            historyVars
  <1>3. Jobs'
    <2>1. \A v \in Workers, i \in 1..Len(queue') : wop'[v] # queue'[i]
      <3>1. \A i \in 1..Len(queue) : queue[i] # NoOp
        <4>1. queue \in Seq(Ops)
          BY DEF IInv, TypeOK
        <4>2. \A i \in 1..Len(queue) : queue[i] \in Ops
          BY <4>1
        <4> QED BY <4>2, HoldersAssumption
      <3>2. \A v \in Workers, i \in 1..Len(queue) : wop[v] # queue[i]
        BY DEF IInv, Jobs
      <3>3. \A v \in Workers : wop'[v] = NoOp \/ wop'[v] = wop[v]
        BY <1>1
      <3>4. queue' = queue
        BY <1>1
      <3> QED BY <3>1, <3>2, <3>3, <3>4
    <2>2. \A u, v \in Workers : u # v /\ wop'[u] = wop'[v] => wop'[u] = NoOp
      BY <1>1 DEF IInv, Jobs
    <2>3. \A v \in Workers : wop'[v] # NoOp <=> wpc'[v] \in Busy
      BY <1>1 DEF IInv, Jobs, Busy
    <2>4. /\ \A i, j \in 1..Len(queue') : queue'[i] = queue'[j] => i = j
          /\ \A i \in 1..Len(queue') : sub'[queue'[i]] = "done"
      BY <1>1 DEF IInv, Jobs
    <2>5. \A v \in Workers : wop'[v] # NoOp => sub'[wop'[v]] = "done"
      BY <1>1 DEF IInv, Jobs
    <2> QED BY <2>1, <2>2, <2>3, <2>4, <2>5 DEF Jobs
  <1>4. Unrun'
    BY <1>1 DEF IInv, Unrun, AtMostOnce, BeforeUpstream
  <1>5. Executing' /\ HasResult'
    <2>1. \A v \in Workers : wpc'[v] \in Claimed => v # w
      BY <1>1 DEF Claimed
    <2>2. Executing'
      BY <1>1, <2>1 DEF IInv, Executing
    <2>3. HasResult'
      BY <1>1 DEF IInv, HasResult
    <2> QED BY <2>2, <2>3
  <1>6. Asked' /\ NotExecutedIsTrue'
    <2>1. Asked'
      BY <1>1 DEF IInv, Asked
    <2>2. NotExecutedIsTrue'
      BY <1>1 DEF IInv, NotExecutedIsTrue
    <2> QED BY <2>1, <2>2
  <1>7. Holding'
    <2>1. \A v \in Workers : wpc'[v] \in Locked => v # w /\ wpc[v] \in Locked /\ wop'[v] = wop[v]
      BY <1>1 DEF Locked, Claimed
    <2>2. \A v \in Workers : wpc[v] \in Locked => Stripe(wop[v]) \in Stripes
      <3>1. Locked \subseteq Busy
        BY DEF Locked, Claimed, Busy, WorkerStates
      <3> QED BY <3>1, BusyLemma
    <2>3. \A v \in Workers : v # w /\ wpc[v] \in Locked => lock'[Stripe(wop[v])] = v
      BY <2>2 DEF IInv, Holding, Finish
    <2> QED BY <1>1, <2>1, <2>3 DEF Holding, Stripe
  <1> QED BY <1>2, <1>3, <1>4, <1>5, <1>6, <1>7 DEF IInv
=============================================================================
