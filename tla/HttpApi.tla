------------------------------ MODULE HttpApi -------------------------------
(***************************************************************************)
(* A request of the HTTP API on its way through ServeHTTP, protected, its  *)
(* handler and the service, and back: internal/httpapi/server.go and       *)
(* handlers.go, and the reads of internal/platform/service.go.             *)
(*                                                                         *)
(* Requests run concurrently.  They meet in the request slots of the       *)
(* server, in the read slots of the governor and in the target lock of a   *)
(* capability scan; none of the three is waited for.  The governor is the  *)
(* SlotPool that it implements: a slot may be refused even if one is free, *)
(* because of the pressure on the machine.  Whether the cookie belongs to  *)
(* a session is part of the request here; Sessions is about the sessions   *)
(* themselves.  Calls of the service that are not reads are the subject of *)
(* Clusters, Repositories and Operations and may return anything here.     *)
(***************************************************************************)
EXTENDS Integers, FiniteSets, Routes

CONSTANTS
    Requests,
    Demand,                 \* Demand[r]: the handlers request r may be for, and from whom
    MaxConcurrentRequests,
    ReadSlots,
    NoRequest

VARIABLES
    at,         \* at[r]: the next step of request r
    job,        \* job[r]: what the handler and the service do for it
    slots,      \* the requests that hold a request slot
    readers,    \* the requests that hold a read slot
    scanner,    \* who holds the target lock of the scan
    result,     \* result[r]: "none", "ok", or the error
    recorded,   \* recorded[r]: the result in the audit event, or "none"
    reply       \* reply[r]: the status it was answered with, or 0

httpVars == <<at, job, slots, readers, scanner, result, recorded, reply>>

Pool == INSTANCE SlotPool WITH Callers <- Requests, Slots <- ReadSlots, holders <- readers

\* The errors of calls to a cluster.
CallErrors == {"unauthorized", "forbidden", "notFound", "conflict", "canceled", "timeout", "upstream"}
LookupErrors == {"notFound", "invalidState", "internal"}
Errors == CallErrors \cup LookupErrors \cup {"validation", "json", "busy"}

\* The whole of writeError, with writeInvalidJSON.  An error that is none of the
\* sentinels, such as a canceled context, is internal.
statusOf(error) ==
    CASE error = "validation" -> 422
      [] error = "unauthorized" -> 401
      [] error = "forbidden" -> 403
      [] error = "notFound" -> 404
      [] error \in {"conflict", "invalidState"} -> 409
      [] error = "busy" -> 503
      [] error = "timeout" -> 504
      [] error = "upstream" -> 502
      [] error = "json" -> 400
      [] OTHER -> 500

\* What is left of the handler called name, for a request from who in which the
\* input bad is not valid.
Job(name, who, bad) ==
    LET handler == Handlers[name]
        isRead == handler.call \in DOMAIN Reads
        read == IF isRead THEN Reads[handler.call] ELSE Read({})
    IN  [ stranger |-> CASE who = "anonymous" -> "unauthorized"
                         [] who = "foreign" /\ name \in Mutations -> "forbidden"
                         [] OTHER -> "none",
          malformed |-> bad = "body",
          unparsed |-> bad \in handler.parsed,
          refused |-> bad \in read.checked,
          invalid |-> bad \in handler.passed,
          isRead |-> isRead, lock |-> read.lock, audit |-> read.audit,
          lookup |-> read.lookup, via |-> read.via,
          status |-> handler.status ]

NoJob == [status |-> 0]

Bad(name) ==
    {"none"} \cup Handlers[name].parsed \cup Handlers[name].passed
        \cup (IF Handlers[name].body THEN {"body"} ELSE {})

HttpInit ==
    /\ at = [r \in Requests |-> "none"]
    /\ job = [r \in Requests |-> NoJob]
    /\ slots = {}
    /\ readers = {}
    /\ scanner = NoRequest
    /\ result = [r \in Requests |-> "none"]
    /\ recorded = [r \in Requests |-> "none"]
    /\ reply = [r \in Requests |-> 0]

-----------------------------------------------------------------------------
GoTo(r, step) == at' = [at EXCEPT ![r] = step]

\* The service or the handler returns.
Result(r, what) == result' = [result EXCEPT ![r] = what]

Arrive(r, name, who, bad) ==
    /\ at[r] = "none"
    /\ job' = [job EXCEPT ![r] = Job(name, who, bad)]
    /\ GoTo(r, "slot")
    /\ UNCHANGED <<slots, readers, scanner, result, recorded, reply>>

\* ServeHTTP takes a request slot, or refuses at once.
TakeSlot(r) ==
    /\ at[r] = "slot"
    /\ IF Cardinality(slots) < MaxConcurrentRequests
       THEN slots' = slots \cup {r} /\ GoTo(r, "protected") /\ UNCHANGED result
       ELSE Result(r, "busy") /\ GoTo(r, "reply") /\ UNCHANGED slots
    /\ UNCHANGED <<job, readers, scanner, recorded, reply>>

\* No session, or a change asked for by a page of another origin.
Protected(r) ==
    /\ at[r] = "protected"
    /\ IF job[r].stranger # "none"
       THEN Result(r, job[r].stranger) /\ GoTo(r, "reply")
       ELSE GoTo(r, "handler") /\ UNCHANGED result
    /\ UNCHANGED <<job, slots, readers, scanner, recorded, reply>>

\* The handler up to its call of the service: decodeJSON and the parsers.
Handle(r) ==
    /\ at[r] = "handler"
    /\ CASE job[r].malformed -> Result(r, "json") /\ GoTo(r, "reply")
         [] ~job[r].malformed /\ job[r].unparsed -> Result(r, "validation") /\ GoTo(r, "reply")
         [] OTHER -> GoTo(r, IF job[r].isRead THEN "validate" ELSE "service") /\ UNCHANGED result
    /\ UNCHANGED <<job, slots, readers, scanner, recorded, reply>>

OtherService(r) ==
    /\ at[r] = "service"
    /\ \E what \in (Errors \ {"json"}) \cup {"ok"} : Result(r, what)
    /\ GoTo(r, "reply")
    /\ UNCHANGED <<job, slots, readers, scanner, recorded, reply>>

-----------------------------------------------------------------------------
\* The reads of the service.

Validate(r) ==
    /\ at[r] = "validate"
    /\ IF job[r].refused
       THEN Result(r, "validation") /\ GoTo(r, "return")
       ELSE /\ GoTo(r, IF job[r].lock THEN "lock"
                       ELSE IF job[r].lookup = "before" THEN "lookup" ELSE "acquire")
            /\ UNCHANGED result
    /\ UNCHANGED <<job, slots, readers, scanner, recorded, reply>>

\* tryAcquireTargetLock.  Other operations may hold the stripe as well.
TryLock(r) ==
    /\ at[r] = "lock"
    /\ \/ scanner = NoRequest /\ scanner' = r /\ GoTo(r, "acquire") /\ UNCHANGED result
       \/ \E what \in {"busy", "canceled"} : Result(r, what) /\ GoTo(r, "return") /\ UNCHANGED scanner
    /\ UNCHANGED <<job, slots, readers, recorded, reply>>

AcquireRead(r) ==
    /\ at[r] = "acquire"
    /\ \/ /\ Pool!Acquire(r)
          /\ GoTo(r, IF job[r].lookup = "before" THEN "client" ELSE "lookup")
          /\ UNCHANGED result
       \/ \E what \in {"busy", "canceled"} : Result(r, what) /\ GoTo(r, "return") /\ UNCHANGED readers
    /\ UNCHANGED <<job, slots, scanner, recorded, reply>>

\* A read is done with the cluster.  ReviewServiceAccountAccess gives its slot back
\* before it audits.
Done(r, what, audits) ==
    /\ Result(r, what)
    /\ GoTo(r, IF job[r].audit \in audits THEN "audit" ELSE "return")
    /\ readers' = IF job[r].audit = "released" THEN readers \ {r} ELSE readers

\* GetCluster, and the status of the record.
Lookup(r) ==
    /\ at[r] = "lookup"
    /\ \/ /\ GoTo(r, IF job[r].lookup = "before" THEN "acquire" ELSE "client")
          /\ UNCHANGED <<result, readers>>
       \/ \E what \in LookupErrors : Done(r, what, {"always", "released"})
    /\ UNCHANGED <<job, slots, scanner, recorded, reply>>

\* The client, from the cache or new.
Client(r) ==
    /\ at[r] = "client"
    /\ \/ GoTo(r, "call") /\ UNCHANGED <<result, readers>>
       \/ \E what \in {"internal", "upstream"} : Done(r, what, {"always", "released"})
    /\ UNCHANGED <<job, slots, scanner, recorded, reply>>

Call(r) ==
    /\ at[r] = "call"
    /\ \E what \in {"ok"} \cup CallErrors : Done(r, what, {"always", "released", "called"})
    /\ UNCHANGED <<job, slots, scanner, recorded, reply>>

AuditOnce(r) ==
    /\ at[r] = "audit"
    /\ \/ recorded' = [recorded EXCEPT ![r] = IF result[r] = "ok" THEN "succeeded" ELSE "failed"]
       \/ UNCHANGED recorded
    /\ GoTo(r, "return")
    /\ UNCHANGED <<job, slots, readers, scanner, result, reply>>

\* The audit event; if it cannot be written the read fails.
Audit(r) ==
    /\ at[r] = "audit"
    /\ \/ /\ recorded' = [recorded EXCEPT ![r] = IF result[r] = "ok" THEN "succeeded" ELSE "failed"]
          /\ UNCHANGED result
       \/ Result(r, "internal") /\ UNCHANGED recorded
    /\ GoTo(r, "return")
    /\ UNCHANGED <<job, slots, readers, scanner, reply>>


\* The service returns: its deferred calls give back the read slot and the lock.
Return(r) ==
    /\ at[r] = "return"
    /\ readers' = readers \ {r}
    /\ scanner' = IF scanner = r THEN NoRequest ELSE scanner
    /\ GoTo(r, "reply")
    /\ UNCHANGED <<job, slots, result, recorded, reply>>

\* The handler writes its answer and ServeHTTP gives the request slot back.
Reply(r) ==
    /\ at[r] = "reply"
    /\ reply' = [reply EXCEPT ![r] = IF result[r] = "ok" THEN job[r].status ELSE statusOf(result[r])]
    /\ slots' = slots \ {r}
    /\ GoTo(r, "done")
    /\ UNCHANGED <<job, readers, scanner, result, recorded>>

Step(r) ==
    \/ TakeSlot(r) \/ Protected(r) \/ Handle(r) \/ OtherService(r) \/ Validate(r) \/ TryLock(r)
    \/ AcquireRead(r) \/ Lookup(r) \/ Client(r) \/ Call(r) \/ Audit(r) \/ Return(r) \/ Reply(r)

HttpNext ==
    \E r \in Requests :
        \/ \E name \in Demand[r].names : \E who \in Demand[r].from, bad \in Bad(name) :
              Arrive(r, name, who, bad)
        \/ Step(r)

HttpSpec == HttpInit /\ [][HttpNext]_httpVars

-----------------------------------------------------------------------------
\* Properties.


\* A read that is audited answers with data only if its audit event says that it
\* succeeded, and no event says so of a read that failed.
AuditedReadsAreRecorded ==
    \A r \in Requests :
        /\ reply[r] \in 200..299 /\ job[r].audit # "never" => recorded[r] = "succeeded"
        /\ recorded[r] = "succeeded" => result[r] = "ok"

\* No input that its validator refuses reaches a cluster through the panel's own
\* client, for every handler and every read of the tables.  Requests without a session
\* reach no part of the service, nor do changes that a page of another origin asks
\* for; both are told so unless the server is busy.
RequestsAreChecked ==
    \A r \in Requests :
        /\ at[r] = "call" /\ job[r].via = "gateway" => ~job[r].invalid
        /\ job[r] # NoJob /\ job[r].stranger # "none" =>
            /\ at[r] \in {"slot", "protected", "reply", "done"}
            /\ reply[r] \in {0, 503, statusOf(job[r].stranger)}

=============================================================================
