----------------------------- MODULE Operations -----------------------------
(***************************************************************************)
(* The asynchronous operation pipeline of internal/platform/operations.go: *)
(* requests submit Helm and workload operations into a bounded queue,      *)
(* other requests cancel the ones still queued, a pool of workers executes *)
(* them one target at a time under an adaptive concurrency limit, and the  *)
(* whole process may be asked to stop, may exit at any point, and restarts *)
(* from the file store of OperationStore.                                  *)
(*                                                                         *)
(* Each operation is submitted by one request (sub) and has at most one    *)
(* cancel request in progress (can); workers are goroutines with a program *)
(* counter (wpc).  A step is what the code does between two points where   *)
(* another goroutine can act: one store method, one channel operation, one *)
(* critical section, one upstream call.                                    *)
(***************************************************************************)
EXTENDS OperationStore, Sequences

CONSTANTS
    Workers,            \* the worker goroutines started by Run
    QueueSize,          \* capacity of Service.queue
    MaxConcurrent,      \* the operation governor's configured maximum
    Targets,            \* (cluster, namespace, name) triples
    Stripes,            \* indexes of Service.targetLocks
    StripeOf,           \* the stripe a target hashes to
    Requests,           \* the requests clients may submit
    Api,                \* a rotation or capability scan holding a target lock
    NoWorker, NoOp, NoRequest,  \* "nobody", "nothing" and "not asked yet"
    MaxCrashes,         \* bound: how often the process exits and restarts
    MayStop             \* whether the process may be asked to shut down

Kinds == {"helm", "workload"}

ASSUME QueueSizeAssumption == QueueSize \in Nat \ {0}
ASSUME MaxConcurrentAssumption == MaxConcurrent \in Nat \ {0}
ASSUME StripeOfAssumption == StripeOf \in [Targets -> Stripes]
ASSUME RequestsAssumption == Requests \subseteq [target : Targets, kind : Kinds]
ASSUME HoldersAssumption == /\ Api \notin Workers
                            /\ NoWorker \notin Workers
                            /\ Api # NoWorker
                            /\ NoOp \notin Ops
ASSUME MaxCrashesAssumption == MaxCrashes \in Nat
ASSUME MayStopAssumption == MayStop \in BOOLEAN

VARIABLES
    sub,            \* sub[o]: where createAndEnqueueOperation is
    can,            \* can[o]: where CancelOperation is
    ctl,            \* ctl[o]: the operation's cancellation control
    request,        \* request[o]: what was asked for
    queue,          \* Service.queue
    wpc, wop, wres, \* worker program counter, its operation, its result
    lock,           \* lock[s]: who holds stripe s
    slots,          \* the workers holding a governor slot
    up, stopping,   \* process running; root context canceled
    swept,          \* Run has canceled all controls
    crashes,        \* number of exits so far
    runs,           \* history: upstream calls made for each operation
    interrupted     \* history: operations whose upstream call was cut short

requestVars == <<sub, can, ctl, request>>
workerVars == <<wpc, wop, wres, lock, slots>>
processVars == <<up, stopping, swept, crashes>>
historyVars == <<runs, interrupted>>
vars == <<storeVars, requestVars, queue, workerVars, processVars, historyVars>>

Submitting == {"created", "audited", "auditFailed", "full", "rejected"}
SubmitStates == Submitting \cup {"none", "done"}
\* "registered" is a control in Service.operationControls; every path that
\* removes one also cancels it.
ControlStates == {"none", "registered", "canceled"}
WorkerStates == {"idle", "get", "lock", "govern", "claim", "prepare",
                 "upstream", "audit", "update", "finish", "exited"}
Results == {"none", "succeeded", "failed", "unknown"}

\* The store, the controls, the locks and the workers have their types, and the queue is
\* never longer than the channel.
TypeOK ==
    /\ StoreTypeOK
    /\ sub \in [Ops -> SubmitStates]
    /\ can \in [Ops -> {"none", "read", "signal"}]
    /\ ctl \in [Ops -> ControlStates]
    /\ request \in [Ops -> Requests \cup {NoRequest}]
    /\ queue \in Seq(Ops)
    /\ Len(queue) <= QueueSize
    /\ wpc \in [Workers -> WorkerStates]
    /\ wop \in [Workers -> Ops \cup {NoOp}]
    /\ wres \in [Workers -> Results]
    /\ lock \in [Stripes -> Workers \cup {Api, NoWorker}]
    /\ slots \subseteq Workers
    /\ up \in BOOLEAN /\ stopping \in BOOLEAN /\ swept \in BOOLEAN
    /\ crashes \in 0..MaxCrashes
    /\ runs \in [Ops -> Nat]
    /\ interrupted \subseteq Ops

Init ==
    /\ StoreInit
    /\ sub = [o \in Ops |-> "none"]
    /\ can = [o \in Ops |-> "none"]
    /\ ctl = [o \in Ops |-> "none"]
    /\ request = [o \in Ops |-> NoRequest]
    /\ queue = <<>>
    /\ wpc = [w \in Workers |-> "idle"]
    /\ wop = [w \in Workers |-> NoOp]
    /\ wres = [w \in Workers |-> "none"]
    /\ lock = [s \in Stripes |-> NoWorker]
    /\ slots = {}
    /\ up = TRUE /\ stopping = FALSE /\ swept = FALSE
    /\ crashes = 0
    /\ runs = [o \in Ops |-> 0]
    /\ interrupted = {}

-----------------------------------------------------------------------------
\* Submission.  The checks on the cluster and the repository only decide
\* whether a request gets this far.  registerOperationControl is folded into
\* the store call that follows it: nobody can name the operation in between.
\* The request's own context may be done before any of its store calls, which
\* then fail without touching the store.

NextOp(o) == sub[o] = "none" /\ \A p \in Ops : p < o => sub[p] # "none"

CreateOperation(o) ==
    LET next == Created(mem, o)
    IN  /\ up
        /\ NextOp(o)
        /\ \E r \in Requests : request' = [request EXCEPT ![o] = r]
        /\ \/ /\ Commit(next)
              /\ sub' = [sub EXCEPT ![o] = "created"]
              /\ ctl' = [ctl EXCEPT ![o] = "registered"]
           \/ /\ CommitFails(next) \/ UNCHANGED storeVars
              /\ sub' = [sub EXCEPT ![o] = "done"]
              /\ ctl' = [ctl EXCEPT ![o] = "canceled"]
        /\ UNCHANGED <<can, queue, workerVars, processVars, historyVars>>

AuditSubmitted(o) ==
    LET next == Log(mem, o, "submitted")
    IN  /\ up
        /\ sub[o] = "created"
        /\ \/ /\ Commit(next)
              /\ sub' = [sub EXCEPT ![o] = "audited"]
           \/ /\ CommitFails(next) \/ UNCHANGED storeVars
              /\ sub' = [sub EXCEPT ![o] = "auditFailed"]
        /\ UNCHANGED <<can, ctl, request, queue, workerVars, processVars, historyVars>>

\* The audit failed: the operation is failed if it is still queued (the error
\* of that transition is ignored) and its control is released.
FailUnaudited(o) ==
    LET next == Put(mem, o, "rejected")
    IN  /\ up
        /\ sub[o] = "auditFailed"
        /\ Transition(o, "queued", next) \/ TransitionFails(o, "queued", next)
        /\ sub' = [sub EXCEPT ![o] = "done"]
        /\ ctl' = [ctl EXCEPT ![o] = "canceled"]
        /\ UNCHANGED <<can, request, queue, workerVars, processVars, historyVars>>

EnqueueIgnoringCapacity(o) ==
    /\ up
    /\ sub[o] = "audited"
    /\ queue' = Append(queue, o)
    /\ sub' = [sub EXCEPT ![o] = IF Len(queue) < QueueSize THEN "done" ELSE "full"]
    /\ UNCHANGED <<storeVars, can, ctl, request, workerVars, processVars, historyVars>>

EnqueueDropsWhenFull(o) ==
    /\ up
    /\ sub[o] = "audited"
    /\ sub' = [sub EXCEPT ![o] = "done"]
    /\ queue' = IF Len(queue) < QueueSize THEN Append(queue, o) ELSE queue
    /\ UNCHANGED <<storeVars, can, ctl, request, workerVars, processVars, historyVars>>

\* The non-blocking send on the queue; when it is full the control is released
\* and the operation goes on to be failed with queue_full.
Enqueue(o) ==
    /\ up
    /\ sub[o] = "audited"
    /\ IF Len(queue) < QueueSize
       THEN /\ queue' = Append(queue, o)
            /\ sub' = [sub EXCEPT ![o] = "done"]
            /\ UNCHANGED ctl
       ELSE /\ sub' = [sub EXCEPT ![o] = "full"]
            /\ ctl' = [ctl EXCEPT ![o] = "canceled"]
            /\ UNCHANGED queue
    /\ UNCHANGED <<storeVars, can, request, workerVars, processVars, historyVars>>

\* queue_full: if the transition fails (the operation was canceled meanwhile,
\* or the store failed) the handler returns that error and writes no audit.
FailQueueFull(o) ==
    LET next == Put(mem, o, "rejected")
    IN  /\ up
        /\ sub[o] = "full"
        /\ \/ /\ Transition(o, "queued", next)
              /\ sub' = [sub EXCEPT ![o] = "rejected"]
           \/ /\ TransitionFails(o, "queued", next)
              /\ sub' = [sub EXCEPT ![o] = "done"]
        /\ UNCHANGED <<can, ctl, request, queue, workerVars, processVars, historyVars>>

AuditQueueFull(o) ==
    LET next == Log(mem, o, "failed")
    IN  /\ up
        /\ sub[o] = "rejected"
        /\ Commit(next) \/ CommitFails(next)
        /\ sub' = [sub EXCEPT ![o] = "done"]
        /\ UNCHANGED <<can, ctl, request, queue, workerVars, processVars, historyVars>>

-----------------------------------------------------------------------------
\* Cancellation.  CancelOperation reads the record, and only goes on when it
\* is queued; the transition checks the state again, atomically with its audit
\* event; the control is signalled after that.

CancelRead(o) ==
    /\ up
    /\ can[o] = "none"
    /\ mem.ops[o] = "queued"
    /\ can' = [can EXCEPT ![o] = "read"]
    /\ UNCHANGED <<storeVars, sub, ctl, request, queue, workerVars, processVars, historyVars>>

CancelTransition(o) ==
    LET next == Log(Put(mem, o, "canceled"), o, "cancel")
    IN  /\ up
        /\ can[o] = "read"
        /\ \/ /\ Transition(o, "queued", next)
              /\ can' = [can EXCEPT ![o] = "signal"]
           \/ /\ TransitionFails(o, "queued", next) \/ UNCHANGED storeVars
              /\ can' = [can EXCEPT ![o] = "none"]
        /\ UNCHANGED <<sub, ctl, request, queue, workerVars, processVars, historyVars>>

SignalDropped(o) ==
    /\ up
    /\ can[o] = "signal"
    /\ can' = [can EXCEPT ![o] = "none"]
    /\ UNCHANGED <<storeVars, sub, ctl, request, queue, workerVars, processVars, historyVars>>

SignalOperationCancellation(o) ==
    /\ up
    /\ can[o] = "signal"
    /\ can' = [can EXCEPT ![o] = "none"]
    /\ ctl' = [ctl EXCEPT ![o] = IF @ = "registered" THEN "canceled" ELSE @]
    /\ UNCHANGED <<storeVars, sub, request, queue, workerVars, processVars, historyVars>>

-----------------------------------------------------------------------------
\* Workers.

\* The execution context is a child of the root context and is canceled by the
\* control too; that second cancellation is delivered by another goroutine
\* (context.AfterFunc), so a worker may or may not have seen it yet.
ContextDone(w) == stopping \/ ctl[wop[w]] = "canceled"

Step(w, from, to) == /\ up
                     /\ wpc[w] = from
                     /\ wpc' = [wpc EXCEPT ![w] = to]

\* The worker's select: with the root context canceled and a job waiting, Go
\* picks either case.
TakeJob(w) ==
    /\ Step(w, "idle", "get")
    /\ queue # <<>>
    /\ wop' = [wop EXCEPT ![w] = Head(queue)]
    /\ queue' = Tail(queue)
    /\ UNCHANGED <<storeVars, requestVars, wres, lock, slots, processVars, historyVars>>

WorkerExit(w) ==
    /\ Step(w, "idle", "exited")
    /\ stopping
    /\ UNCHANGED <<storeVars, requestVars, queue, wop, wres, lock, slots, processVars, historyVars>>

GetOperation(w) ==
    /\ \/ /\ Step(w, "get", "lock")
          /\ ~stopping
          /\ mem.ops[wop[w]] = "queued"
       \/ /\ Step(w, "get", "finish")
          /\ ContextDone(w) \/ mem.ops[wop[w]] # "queued"
    /\ UNCHANGED <<storeVars, requestVars, queue, wop, wres, lock, slots, processVars, historyVars>>

Stripe(o) == StripeOf[request[o].target]

AcquireTargetLockUnchecked(w) ==
    /\ Step(w, "lock", "govern")
    /\ lock' = [lock EXCEPT ![Stripe(wop[w])] = w]
    /\ UNCHANGED <<storeVars, requestVars, queue, wop, wres, slots, processVars, historyVars>>

AcquireTargetLock(w) ==
    /\ Step(w, "lock", "govern")
    /\ lock[Stripe(wop[w])] = NoWorker
    /\ lock' = [lock EXCEPT ![Stripe(wop[w])] = w]
    /\ UNCHANGED <<storeVars, requestVars, queue, wop, wres, slots, processVars, historyVars>>

\* The governor's limit under each pressure its sample may show; the retry
\* timer of Acquire is the possibility to try again.
Pressures == {"normal", "constrained", "critical", "unknown"}

OperationLimit(pressure) ==
    CASE pressure = "critical" -> 0
      [] pressure = "constrained" ->
            IF (MaxConcurrent + 1) \div 2 > 1 THEN (MaxConcurrent + 1) \div 2 ELSE 1
      [] OTHER -> MaxConcurrent

AcquireGovernor(w) ==
    /\ Step(w, "govern", "claim")
    /\ \E pressure \in Pressures : Cardinality(slots) < OperationLimit(pressure)
    /\ slots' = slots \cup {w}
    /\ UNCHANGED <<storeVars, requestVars, queue, wop, wres, lock, processVars, historyVars>>

\* Either wait ends without its resource when the context is done.
AbandonWait(w) ==
    /\ Step(w, "lock", "finish") \/ Step(w, "govern", "finish")
    /\ ContextDone(w)
    /\ UNCHANGED <<storeVars, requestVars, queue, wop, wres, lock, slots, processVars, historyVars>>

TransitionRunningIgnored(w) ==
    LET o == wop[w]
        next == Put(mem, o, "running")
    IN  /\ Step(w, "claim", "prepare")
        /\ Transition(o, "queued", next) \/ TransitionFails(o, "queued", next)
        /\ UNCHANGED <<requestVars, queue, wop, wres, lock, slots, processVars, historyVars>>

TransitionRunning(w) ==
    LET o == wop[w]
        next == Put(mem, o, "running")
    IN  /\ \/ /\ Step(w, "claim", "prepare")
              /\ ~stopping
              /\ Transition(o, "queued", next)
           \/ /\ Step(w, "claim", "finish")
              /\ \/ ~stopping /\ TransitionFails(o, "queued", next)
                 \/ ContextDone(w) /\ UNCHANGED storeVars
        /\ UNCHANGED <<requestVars, queue, wop, wres, lock, slots, processVars, historyVars>>

\* executeOperationJob first reads the cluster (and the repository) again and
\* builds the connection; an error here never reaches the upstream.  A done
\* context makes those store reads fail with context.Canceled.
PrepareFails(w) ==
    /\ Step(w, "prepare", "audit")
    /\ \/ wres' = [wres EXCEPT ![w] = "failed"]
       \/ stopping /\ wres' = [wres EXCEPT ![w] = "unknown"]
    /\ UNCHANGED <<storeVars, requestVars, queue, wop, lock, slots, processVars, historyVars>>

CallUpstream(w) ==
    /\ Step(w, "prepare", "upstream")
    /\ runs' = [runs EXCEPT ![wop[w]] = @ + 1]
    /\ UNCHANGED <<storeVars, requestVars, queue, wop, wres, lock, slots, processVars, interrupted>>

UpstreamReturnsOrRetries(w) ==
    /\ \/ /\ Step(w, "upstream", "audit")
          /\ \E result \in {"succeeded", "failed"} : wres' = [wres EXCEPT ![w] = result]
       \/ Step(w, "upstream", "prepare") /\ UNCHANGED wres
    /\ UNCHANGED <<storeVars, requestVars, queue, wop, lock, slots, processVars, historyVars>>

\* The call returns: success, an upstream error, or its context's cancellation.
\* The Kubernetes client passes context.Canceled on, the Helm adapter turns it
\* into ErrTimeout, so only the former is recorded as unknown.
UpstreamReturns(w) ==
    /\ Step(w, "upstream", "audit")
    /\ \/ /\ \E result \in {"succeeded", "failed"} : wres' = [wres EXCEPT ![w] = result]
          /\ UNCHANGED interrupted
       \/ /\ stopping
          /\ wres' = [wres EXCEPT ![w] =
                IF request[wop[w]].kind = "helm" THEN "failed" ELSE "unknown"]
          /\ interrupted' = interrupted \cup {wop[w]}
    /\ UNCHANGED <<storeVars, requestVars, queue, wop, lock, slots, processVars, runs>>


\* The result's audit comes before the result; without it the operation is
\* recorded as failed (audit_failed).
AuditResult(w) ==
    LET next == Log(mem, wop[w], wres[w])
    IN  /\ Step(w, "audit", "update")
        /\ \/ Commit(next) /\ UNCHANGED wres
           \/ CommitFails(next) /\ wres' = [wres EXCEPT ![w] = "failed"]
        /\ UNCHANGED <<requestVars, queue, wop, lock, slots, processVars, historyVars>>

\* The final record is written unconditionally and its error is dropped.
UpdateOperation(w) ==
    LET next == Put(mem, wop[w], wres[w])
    IN  /\ Step(w, "update", "finish")
        /\ Update(wop[w], next) \/ UpdateFails(wop[w], next)
        /\ UNCHANGED <<requestVars, queue, wop, wres, lock, slots, processVars, historyVars>>

\* The deferred calls: governor slot, target lock, operation control.
Finish(w) ==
    /\ Step(w, "finish", "idle")
    /\ slots' = slots \ {w}
    /\ lock' = [s \in Stripes |-> IF lock[s] = w THEN NoWorker ELSE lock[s]]
    /\ ctl' = [ctl EXCEPT ![wop[w]] = "canceled"]
    /\ wop' = [wop EXCEPT ![w] = NoOp]
    /\ wres' = [wres EXCEPT ![w] = "none"]
    /\ UNCHANGED <<storeVars, sub, can, request, queue, processVars, historyVars>>

-----------------------------------------------------------------------------
\* Credential rotations and capability scans take target locks too, without
\* waiting for them.
TryAcquireTargetLock(s) ==
    /\ up
    /\ lock[s] = NoWorker
    /\ lock' = [lock EXCEPT ![s] = Api]
    /\ UNCHANGED <<storeVars, requestVars, queue, wpc, wop, wres, slots, processVars, historyVars>>

ReleaseTargetLock(s) ==
    /\ up
    /\ lock[s] = Api
    /\ lock' = [lock EXCEPT ![s] = NoWorker]
    /\ UNCHANGED <<storeVars, requestVars, queue, wpc, wop, wres, slots, processVars, historyVars>>

-----------------------------------------------------------------------------
\* The process.

\* SIGINT or SIGTERM cancels the root context.
Shutdown ==
    /\ MayStop
    /\ up
    /\ ~stopping
    /\ stopping' = TRUE
    /\ UNCHANGED <<storeVars, requestVars, queue, workerVars, up, swept, crashes, historyVars>>

CancelAllOperationControls ==
    /\ up
    /\ stopping
    /\ ~swept
    /\ swept' = TRUE
    /\ ctl' = [o \in Ops |-> IF ctl[o] = "registered" THEN "canceled" ELSE ctl[o]]
    /\ UNCHANGED <<storeVars, sub, can, request, queue, workerVars, up, stopping, crashes, historyVars>>

\* The process ends: killed, or because main returned, which waits for the HTTP
\* server but not for the workers.  Only the file and the history remain; mem
\* is kept to say what clients had been told.
ProcessExit ==
    /\ up
    /\ crashes < MaxCrashes
    /\ crashes' = crashes + 1
    /\ up' = FALSE
    /\ stopping' = FALSE /\ swept' = FALSE
    /\ sub' = [o \in Ops |-> IF sub[o] = "none" THEN "none" ELSE "done"]
    /\ can' = [o \in Ops |-> "none"]
    /\ ctl' = [o \in Ops |-> "none"]
    /\ queue' = <<>>
    /\ wpc' = [w \in Workers |-> "idle"]
    /\ wop' = [w \in Workers |-> NoOp]
    /\ wres' = [w \in Workers |-> "none"]
    /\ lock' = [s \in Stripes |-> NoWorker]
    /\ slots' = {}
    /\ UNCHANGED <<storeVars, request, historyVars>>

Restart ==
    /\ ~up
    /\ \/ Open /\ up' = TRUE
       \/ OpenFails /\ up' = FALSE
    /\ UNCHANGED <<requestVars, queue, workerVars, stopping, swept, crashes, historyVars>>

-----------------------------------------------------------------------------
Submit(o) == \/ CreateOperation(o) \/ AuditSubmitted(o) \/ FailUnaudited(o)
             \/ Enqueue(o) \/ FailQueueFull(o) \/ AuditQueueFull(o)

CancelOperation(o) ==
    CancelRead(o) \/ CancelTransition(o) \/ SignalOperationCancellation(o)

Worker(w) == \/ TakeJob(w) \/ WorkerExit(w) \/ GetOperation(w)
             \/ AcquireTargetLock(w) \/ AcquireGovernor(w) \/ AbandonWait(w)
             \/ TransitionRunning(w) \/ PrepareFails(w) \/ CallUpstream(w)
             \/ UpstreamReturns(w) \/ AuditResult(w) \/ UpdateOperation(w)
             \/ Finish(w)

Next == \/ \E o \in Ops : Submit(o) \/ CancelOperation(o)
        \/ \E w \in Workers : Worker(w)
        \/ \E s \in Stripes : TryAcquireTargetLock(s) \/ ReleaseTargetLock(s)
        \/ Shutdown \/ CancelAllOperationControls \/ ProcessExit \/ Restart

Spec == Init /\ [][Next]_vars

-----------------------------------------------------------------------------
\* Safety.

InQueue(o) == \E i \in 1..Len(queue) : queue[i] = o
AtWorker(o) == \E w \in Workers : wop[w] = o
Owned(o) == \/ sub[o] \in {"created", "audited", "auditFailed", "full"}
            \/ InQueue(o)
            \/ AtWorker(o)

\* An operation reaches its cluster at most once, whatever cancellations, full
\* queues, store errors and restarts happen around executeOperation: nothing
\* re-enqueues a job, and a restart marks operations instead of resuming them.
AtMostOnce == \A o \in Ops : runs[o] <= 1

\* A record that says "not executed" is true, both for what readers are served
\* and for what a restart would load: queued, canceled, and failed with
\* queue_full or a submission's audit_failed all mean no upstream call was
\* made.  This is what lets a user resubmit after a cancellation.
NotExecutedIsTrue ==
    \A image \in {mem, disk}, o \in Ops :
        image.ops[o] \in {"queued", "canceled", "rejected"} => runs[o] = 0


\* Two operations on one target are never executed at the same time, and
\* neither runs while a rotation or scan holds that target's lock.
TargetsAreSerialized ==
    \A v \in Workers : wpc[v] \in {"prepare", "upstream"} =>
        /\ lock[Stripe(wop[v])] # Api
        /\ \A w \in Workers : wpc[w] \in {"prepare", "upstream"} /\ v # w =>
                request[wop[v]].target # request[wop[w]].target

\* A worker at its cluster works for an operation that the file says is
\* running, so that a crash at that moment is reported as "unknown".
ExecutingIsDurable ==
    \A w \in Workers :
        wpc[w] \in {"prepare", "upstream", "audit"} => disk.ops[wop[w]] = "running"

\* Outside a shutdown and without a store error, an operation that is queued or
\* running has somebody who will move it on: no interleaving of submission,
\* cancellation and worker loses the job of a live record.  And operationControls
\* does not leak: a control is registered only while there is somebody like that.
InFlightIsOwned ==
    \A o \in Ops :
        /\ up /\ ~stopping /\ ~storeFailed /\ mem.ops[o] \in InFlight => Owned(o)
        /\ ctl[o] = "registered" => Owned(o)

\* What clients were told is final stays so, across restarts too: a terminal
\* record never changes again; it can only fall out of the history.
OutcomesAreFinal ==
    [][\A o \in Ops : mem.ops[o] \in Terminal => mem'.ops[o] \in {mem.ops[o], Absent}]_vars

\* The message stored with "unknown" says an execution interrupted by shutdown
\* must be confirmed by hand: an interrupted upstream call does not end as a
\* definite outcome (an audit failure aside, which is recorded as failed).
InterruptedIsUnknown ==
    \A o \in interrupted : mem.ops[o] \in {"running", "unknown", Absent} \/ storeFailed

-----------------------------------------------------------------------------
\* Liveness.

\* Handlers and workers keep running.  A blocked send on a Go channel is served
\* in order, so a waiting worker gets the lock if it is released again and
\* again; the governor is polled, and pressure is assumed to drop in the end.
RequestFairness ==
    \A o \in Ops :
        /\ WF_vars(AuditSubmitted(o) \/ FailUnaudited(o) \/ Enqueue(o)
                     \/ FailQueueFull(o) \/ AuditQueueFull(o))
        /\ WF_vars(CancelTransition(o) \/ SignalOperationCancellation(o))

WorkerFairness ==
    \A w \in Workers :
        /\ WF_vars(TakeJob(w) \/ GetOperation(w) \/ TransitionRunning(w)
                     \/ PrepareFails(w) \/ CallUpstream(w) \/ AuditResult(w)
                     \/ UpdateOperation(w) \/ Finish(w))
        /\ WF_vars(AbandonWait(w))
        /\ WF_vars(AcquireGovernor(w))
        /\ SF_vars(AcquireTargetLock(w))

\* Upstream calls, rotations and scans end: all of them carry a timeout.
UpstreamFairness ==
    /\ \A w \in Workers : WF_vars(UpstreamReturns(w))
    /\ \A s \in Stripes : WF_vars(ReleaseTargetLock(s))

LiveSpec == Spec /\ RequestFairness /\ WorkerFairness

\* Every accepted operation reaches a final state (or is canceled), if upstream
\* calls end.
OperationsSettle ==
    UpstreamFairness =>
        \A o \in Ops : mem.ops[o] = "queued" ~> mem.ops[o] \in Terminal \cup {Absent}

\* Canceling an operation frees the worker that waits on its behalf, even when
\* the lock holder or the upstream never returns.
CancelFreesWorker ==
    \A w \in Workers, o \in Ops :
        (wop[w] = o /\ mem.ops[o] = "canceled") ~> (wop[w] # o)
=============================================================================
