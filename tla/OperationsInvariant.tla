------------------------ MODULE OperationsInvariant -------------------------
(***************************************************************************)
(* The inductive invariant of Operations and the facts that the proofs     *)
(* about its actions share.                                                *)
(*                                                                         *)
(* The argument is about the job as a token.  createAndEnqueueOperation    *)
(* creates at most one job per operation, the queue and the workers only   *)
(* pass it on, and a worker gives it up before it becomes idle, so an      *)
(* operation has at most one job (Jobs), and while the job has not reached *)
(* its upstream call the operation has not been executed (Unrun).  The     *)
(* compare-and-set of TransitionOperation then ties the records to that    *)
(* history (Executing, NotExecutedIsTrue), and the stripe a worker holds   *)
(* from its lock step to its last one separates the targets (Holding).     *)
(***************************************************************************)
EXTENDS Operations, TLAPS

Busy == WorkerStates \ {"idle", "exited"}
BeforeUpstream == {"get", "lock", "govern", "claim", "prepare"}
Claimed == {"prepare", "upstream", "audit", "update"}
Locked == {"govern", "claim"} \cup Claimed

\* Every job exists once: in the queue or with one worker, and only after the
\* submission that created it has finished.
Jobs ==
    /\ \A i, j \in 1..Len(queue) : queue[i] = queue[j] => i = j
    /\ \A w \in Workers, i \in 1..Len(queue) : wop[w] # queue[i]
    /\ \A v, w \in Workers : v # w /\ wop[v] = wop[w] => wop[v] = NoOp
    /\ \A w \in Workers : wop[w] # NoOp <=> wpc[w] \in Busy
    /\ \A i \in 1..Len(queue) : sub[queue[i]] = "done"
    /\ \A w \in Workers : wop[w] # NoOp => sub[wop[w]] = "done"

\* Until a job reaches its upstream call its operation has not been executed.
Unrun ==
    /\ \A o \in Ops : sub[o] # "done" => runs[o] = 0
    /\ \A i \in 1..Len(queue) : runs[queue[i]] = 0
    /\ \A w \in Workers : wpc[w] \in BeforeUpstream => runs[wop[w]] = 0
    /\ AtMostOnce

\* From its claim to its final update an operation is running in both images.
Executing ==
    \A w \in Workers : wpc[w] \in Claimed =>
        mem.ops[wop[w]] = "running" /\ disk.ops[wop[w]] = "running"

HasResult == \A w \in Workers : wpc[w] \in {"audit", "update"} => wres[w] # "none"

Asked == \A o \in Ops : sub[o] # "none" => request[o] \in Requests

\* A worker past its lock step holds the stripe of its operation's target.
Holding == \A w \in Workers : wpc[w] \in Locked => lock[Stripe(wop[w])] = w

IInv == /\ TypeOK /\ Jobs /\ Unrun /\ Executing /\ HasResult
        /\ Asked /\ Holding /\ NotExecutedIsTrue

-----------------------------------------------------------------------------
\* What the store's pure operations do to an image.

\* Replacing one record (UpdateOperation, TransitionOperation) gives an image
\* that differs from the old one in that record only.
LEMMA PutLemma ==
    ASSUME NEW image \in Images, NEW o \in Ops, NEW state \in OperationStates
    PROVE  /\ Put(image, o, state) \in Images
           /\ Put(image, o, state).ops[o] = state
           /\ \A p \in Ops : p # o => Put(image, o, state).ops[p] = image.ops[p]
           /\ Put(image, o, state).audits = image.audits
  BY DEF Images, Put

\* Appending an audit event (CreateAuditEvent) leaves the operations alone.
LEMMA LogLemma ==
    ASSUME NEW image \in Images, NEW o \in Ops, NEW result \in AuditResults
    PROVE  /\ Log(image, o, result) \in Images
           /\ Log(image, o, result).ops = image.ops
           /\ <<o, result>> \in Log(image, o, result).audits
           /\ image.audits \subseteq Log(image, o, result).audits
  BY DEF Images, Log

\* Retention (trimOperationHistory) only ever removes finished operations and
\* keeps every other record as it is, whatever the limit.
LEMMA TrimLemma ==
    ASSUME NEW image \in Images
    PROVE  /\ trimOperationHistory(image) \in Images
           /\ \A o \in Ops : trimOperationHistory(image).ops[o] \in {image.ops[o], Absent}
           /\ \A o \in Ops : image.ops[o] \notin Terminal =>
                    trimOperationHistory(image).ops[o] = image.ops[o]
           /\ trimOperationHistory(image).audits = image.audits
  <1> DEFINE dropped == Trimmed(image)
  <1>1. \A o \in dropped : image.ops[o] \in Terminal
    BY DEF Trimmed, Finished
  <1>2. trimOperationHistory(image) =
            [ops |-> [o \in Ops |-> IF o \in dropped THEN Absent ELSE image.ops[o]],
             audits |-> image.audits]
    BY DEF trimOperationHistory
  <1> HIDE DEF dropped
  <1> QED BY <1>1, <1>2 DEF Images

\* reconcileInterruptedOperations turns exactly the in-flight records unknown.
LEMMA ReconcileLemma ==
    ASSUME NEW image \in Images
    PROVE  /\ reconcileInterruptedOperations(image) \in Images
           /\ \A o \in Ops : reconcileInterruptedOperations(image).ops[o] =
                    IF image.ops[o] \in InFlight THEN "unknown" ELSE image.ops[o]
           /\ reconcileInterruptedOperations(image).audits = image.audits
  BY DEF Images, reconcileInterruptedOperations, OperationStates, InFlight, Terminal

-----------------------------------------------------------------------------
\* What a store call about operation o leaves alone: any other operation keeps
\* its record, or loses it to retention once it is finished; the file holds for
\* it what it held before or what memory holds.
Quiet(p) ==
    /\ mem'.ops[p] \in {mem.ops[p], Absent}
    /\ disk'.ops[p] \in {mem.ops[p], disk.ops[p], Absent}
    /\ mem.ops[p] \notin Terminal =>
            /\ mem'.ops[p] = mem.ops[p]
            /\ disk'.ops[p] \in {mem.ops[p], disk.ops[p]}

StoreFrame(o) ==
    /\ mem' \in Images /\ disk' \in Images /\ storeFailed' \in BOOLEAN
    /\ \A p \in Ops : p # o => Quiet(p)

StoreCall(next) == Commit(next) \/ CommitFails(next) \/ UNCHANGED storeVars

\* commit, whether it succeeds, fails on either side of the rename or is never
\* reached, touches only the operation the next image differs in.
LEMMA FrameLemma ==
    ASSUME StoreTypeOK, NEW o, NEW next \in Images, StoreCall(next),
           \A p \in Ops : p # o =>
                /\ next.ops[p] \in {mem.ops[p], Absent}
                /\ mem.ops[p] \notin Terminal => next.ops[p] = mem.ops[p]
    PROVE  StoreFrame(o)
  BY DEF StoreTypeOK, StoreCall, Commit, CommitFails, storeVars, StoreFrame, Quiet

\* Replacing the record of o by TransitionOperation or UpdateOperation.
LEMMA PutFrame ==
    ASSUME StoreTypeOK, NEW o \in Ops, NEW state \in OperationStates,
           StoreCall(Put(mem, o, state))
    PROVE  /\ StoreFrame(o)
           /\ mem'.ops[o] \in {mem.ops[o], state}
           /\ disk'.ops[o] \in {disk.ops[o], state}
  <1>1. mem \in Images
    BY DEF StoreTypeOK
  <1>2. StoreFrame(o)
    BY <1>1, PutLemma, FrameLemma
  <1>3. /\ mem'.ops[o] \in {mem.ops[o], state}
        /\ disk'.ops[o] \in {disk.ops[o], state}
    BY <1>1, PutLemma DEF StoreCall, Commit, CommitFails, storeVars
  <1> QED BY <1>2, <1>3

\* Writing an audit event changes no operation; at most the file catches up.
LEMMA LogFrame ==
    ASSUME StoreTypeOK, NEW o \in Ops, NEW result \in AuditResults,
           StoreCall(Log(mem, o, result))
    PROVE  /\ StoreFrame(o)
           /\ mem'.ops = mem.ops
           /\ disk'.ops \in {mem.ops, disk.ops}
  <1>1. mem \in Images /\ Log(mem, o, result) \in Images /\ Log(mem, o, result).ops = mem.ops
    BY LogLemma DEF StoreTypeOK
  <1>2. StoreFrame(o)
    <2> DEFINE next == Log(mem, o, result)
    <2>1. \A p \in Ops : p # o => /\ next.ops[p] \in {mem.ops[p], Absent}
                                  /\ mem.ops[p] \notin Terminal => next.ops[p] = mem.ops[p]
      BY <1>1
    <2> QED BY <1>1, <2>1, FrameLemma
  <1>3. mem'.ops = mem.ops /\ disk'.ops \in {mem.ops, disk.ops}
    BY <1>1 DEF StoreCall, Commit, CommitFails, storeVars
  <1> QED BY <1>2, <1>3

\* Creating o: other operations may only fall to retention.
LEMMA CreateFrame ==
    ASSUME StoreTypeOK, NEW o \in Ops,
           StoreCall(Created(mem, o))
    PROVE  StoreFrame(o)
  <1> DEFINE image == Put(mem, o, "queued")
             next == trimOperationHistory(image)
  <1>1. /\ image \in Images
        /\ \A p \in Ops : p # o => image.ops[p] = mem.ops[p]
    BY PutLemma DEF StoreTypeOK, OperationStates, InFlight
  <1> HIDE DEF image
  <1>2. /\ next \in Images
        /\ \A p \in Ops : next.ops[p] \in {image.ops[p], Absent}
        /\ \A p \in Ops : image.ops[p] \notin Terminal => next.ops[p] = image.ops[p]
    BY <1>1, TrimLemma
  <1>3. StoreCall(next)
    BY DEF image, Created
  <1> HIDE DEF next
  <1> QED BY <1>1, <1>2, <1>3, FrameLemma

-----------------------------------------------------------------------------
\* The places of a queue after a send: the old ones, and the new last one.
LEMMA AppendLemma ==
    ASSUME NEW q \in Seq(Ops), NEW e \in Ops, NEW r, r = Append(q, e)
    PROVE  \A i \in 1..Len(r) : (i \in 1..Len(q) /\ r[i] = q[i]) \/ (i = Len(q) + 1 /\ r[i] = e)
  <1>1. Len(q) \in Nat /\ Len(r) = Len(q) + 1
    OBVIOUS
  <1>2. r[Len(q) + 1] = e /\ \A i \in 1..Len(q) : r[i] = q[i]
    OBVIOUS
  <1> TAKE i \in 1..Len(r)
  <1>3. CASE i = Len(q) + 1
    BY <1>2, <1>3
  <1>4. CASE i # Len(q) + 1
    <2>1. i \in 1..Len(q)
      BY <1>1, <1>4
    <2>2. r[i] = q[i]
      BY <1>2, <2>1
    <2> QED BY <2>1, <2>2
  <1> QED BY <1>3, <1>4

\* A busy worker has an operation, and that operation's target has a stripe.
LEMMA BusyLemma ==
    ASSUME IInv, NEW w \in Workers, wpc[w] \in Busy
    PROVE  wop[w] \in Ops /\ Stripe(wop[w]) \in Stripes
  <1>1. wop[w] \in Ops /\ sub[wop[w]] = "done"
    BY DEF IInv, TypeOK, Jobs
  <1>2. request[wop[w]] \in Requests
    BY <1>1 DEF IInv, Asked
  <1>3. request[wop[w]].target \in Targets
    BY <1>2, RequestsAssumption
  <1> QED BY <1>1, <1>3, StripeOfAssumption DEF Stripe

-----------------------------------------------------------------------------
\* What several kinds of step have in common.

\* A step of the locks, the contexts or the process touches no job, no record
\* and no history.
LEMMA StillStep ==
    ASSUME IInv, UNCHANGED <<mem, disk, sub, request, queue, wpc, wop, wres, runs>>
    PROVE  Jobs' /\ Unrun' /\ Executing' /\ HasResult' /\ Asked' /\ NotExecutedIsTrue'
  <1>1. Jobs' /\ Asked'
    BY DEF IInv, Jobs, Asked
  <1>2. Unrun'
    BY DEF IInv, Unrun, AtMostOnce
  <1>3. Executing' /\ HasResult' /\ NotExecutedIsTrue'
    BY DEF IInv, Executing, HasResult, NotExecutedIsTrue
  <1> QED BY <1>1, <1>2, <1>3

\* A worker with a job advances to another state with the same job, and not
\* from its upstream call back before it.
Advance(w, to) ==
    /\ wpc[w] \in Busy /\ to \in Busy
    /\ wpc' = [wpc EXCEPT ![w] = to]
    /\ to \in BeforeUpstream => wpc[w] \in BeforeUpstream
    /\ UNCHANGED <<sub, request, queue, wop, runs>>

\* Such a step keeps every job with its holder and its history.
LEMMA AdvanceStep ==
    ASSUME IInv, NEW w \in Workers, NEW to, Advance(w, to)
    PROVE  /\ wpc' \in [Workers -> WorkerStates]
           /\ wpc'[w] = to /\ \A v \in Workers : v # w => wpc'[v] = wpc[v]
           /\ Jobs' /\ Unrun' /\ Asked'
  <1> USE DEF Advance
  <1>1. wpc'[w] = to /\ \A v \in Workers : v # w => wpc'[v] = wpc[v]
    BY DEF IInv, TypeOK
  <1>2. wpc' \in [Workers -> WorkerStates]
    BY DEF IInv, TypeOK, Busy
  <1>3. \A v \in Workers : wpc'[v] \in Busy <=> wpc[v] \in Busy
    BY <1>1
  <1>4. Jobs' /\ Asked'
    BY <1>3 DEF IInv, Jobs, Asked
  <1>5. \A v \in Workers : wpc'[v] \in BeforeUpstream => wpc[v] \in BeforeUpstream
    BY <1>1
  <1>6. Unrun'
    BY <1>5 DEF IInv, Unrun, AtMostOnce
  <1> QED BY <1>1, <1>2, <1>4, <1>6

\* The stripes held stay held if they are not touched and no worker passes its
\* lock step.
LEMMA HoldingStep ==
    ASSUME IInv, UNCHANGED <<request, wop, lock>>,
           \A v \in Workers : wpc'[v] \in Locked => wpc[v] \in Locked
    PROVE  Holding'
  BY DEF IInv, Holding, Stripe

\* A worker that has a result keeps it until it is recorded.
LEMMA HasResultStep ==
    ASSUME IInv, wres' = wres,
           \A v \in Workers : wpc'[v] \in {"audit", "update"} => wpc[v] \in {"audit", "update"}
    PROVE  HasResult'
  BY DEF IInv, HasResult

\* Without a store call, an upstream call or a new claim the records stay in
\* step with the workers and with the history.
LEMMA RecordsStep ==
    ASSUME IInv, UNCHANGED <<mem, disk, wop, runs>>,
           \A v \in Workers : wpc'[v] \in Claimed => wpc[v] \in Claimed
    PROVE  Executing' /\ NotExecutedIsTrue'
  BY DEF IInv, Executing, NotExecutedIsTrue

NotExecuted == {"queued", "canceled", "rejected"}

\* A store call about o keeps the records in step with the workers and with the
\* history if it does so for o itself.
LEMMA StoreStep ==
    ASSUME IInv, NEW o \in Ops, StoreFrame(o), runs' = runs, wop' = wop,
           \A w \in Workers : wpc'[w] \in Claimed /\ wop[w] # o => wpc[w] \in Claimed,
           \A w \in Workers : wpc'[w] \in Claimed /\ wop[w] = o =>
                mem'.ops[o] = "running" /\ disk'.ops[o] = "running",
           mem'.ops[o] \in NotExecuted => runs[o] = 0,
           disk'.ops[o] \in NotExecuted => runs[o] = 0
    PROVE  Executing' /\ NotExecutedIsTrue'
  <1>1. ASSUME NEW w \in Workers, wpc'[w] \in Claimed
        PROVE  mem'.ops[wop[w]] = "running" /\ disk'.ops[wop[w]] = "running"
    <2>1. CASE wop[w] = o
      BY <1>1, <2>1
    <2>2. CASE wop[w] # o
      <3>1. /\ wpc[w] \in Claimed
            /\ mem.ops[wop[w]] = "running" /\ disk.ops[wop[w]] = "running"
        BY <1>1, <2>2 DEF IInv, Executing
      <3>2. wop[w] \in Ops
        BY <3>1, BusyLemma DEF Claimed, Busy, WorkerStates
      <3> QED BY <2>2, <3>1, <3>2 DEF StoreFrame, Quiet, Terminal
    <2> QED BY <2>1, <2>2
  <1>2. ASSUME NEW p \in Ops
        PROVE  /\ mem'.ops[p] \in NotExecuted => runs[p] = 0
               /\ disk'.ops[p] \in NotExecuted => runs[p] = 0
    <2>1. CASE p = o
      BY <2>1
    <2>2. CASE p # o
      BY <2>2 DEF IInv, NotExecutedIsTrue, StoreFrame, Quiet, NotExecuted, Absent
    <2> QED BY <2>1, <2>2
  <1> QED BY <1>1, <1>2 DEF Executing, NotExecutedIsTrue, NotExecuted
=============================================================================
