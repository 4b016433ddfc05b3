------------------------------ MODULE Clusters ------------------------------
(***************************************************************************)
(* The lifecycle of cluster records in internal/platform/service.go over   *)
(* the records of internal/store/file.go and the client cache: requests    *)
(* that read from a cluster, test its connection, rotate its credentials,  *)
(* enable, disable, delete or create it, running concurrently.             *)
(*                                                                         *)
(* A request makes at most one call of gatewayCache.Get, so requests are   *)
(* the Gets of GatewayCache.  The credentials a request submits are named  *)
(* after it.  A record is its credentials, its status and who wrote it;    *)
(* the writer stands for UpdatedAt and the other fields a write refreshes: *)
(* no two writes produce the same record.  Store calls are atomic; one     *)
(* that fails (context done, persist error, name conflict) changes nothing *)
(* in memory.                                                              *)
(***************************************************************************)
EXTENDS GatewayCache

CONSTANT Demand     \* the kinds of requests that are made

VARIABLES
    record,     \* record[k]: the stored record of cluster k
    created,    \* the cluster IDs that have been used
    lock,       \* lock[k]: the request that holds the rotation lock of k
    stage,      \* stage[h]: the next step of request h
    kind,       \* kind[h]: what request h is to do
    on,         \* on[h]: the cluster it is to do it to
    read,       \* read[h]: the record as request h read it, then as it will write it
    logged,     \* the requests whose own change is in the audit log
    fresh       \* history: the rotations whose read is still what is stored

requestVars == <<stage, kind, on, read>>
storeVars == <<record, created, logged, fresh>>
lifecycleVars == <<requestVars, storeVars, lock>>
allVars == <<vars, lifecycleVars>>

ASSUME FingerprintsAssumption == Gets \subseteq Fingerprints /\ NoGet \notin Fingerprints

NoRecord == [cred |-> NoGet, status |-> "absent", by |-> NoGet]
Kinds == {"read", "test", "rotate", "enable", "disable", "delete", "create"}

ASSUME DemandAssumption == Demand \subseteq Kinds

\* The service starts over a store with some clusters, connected earlier.
ClustersInit ==
    /\ Init
    /\ created \in SUBSET Clusters
    /\ \E cred \in Fingerprints \ Gets :
          record = [k \in Clusters |->
              IF k \in created THEN [cred |-> cred, status |-> "connected", by |-> NoGet]
                               ELSE NoRecord]
    /\ lock = [k \in Clusters |-> NoGet]
    /\ stage = [h \in Gets |-> "none"]
    /\ kind = [h \in Gets |-> "none"]
    /\ on \in [Gets -> Clusters]
    /\ read = [h \in Gets |-> NoRecord]
    /\ logged = {}
    /\ fresh = {}

-----------------------------------------------------------------------------
GoTo(h, s) == stage' = [stage EXCEPT ![h] = s]

\* The request is answered and its variables are gone; deferred calls release the
\* rotation lock.
Return(h) ==
    /\ GoTo(h, "done")
    /\ read' = [read EXCEPT ![h] = NoRecord]
    /\ lock' = [k \in Clusters |-> IF lock[k] = h THEN NoGet ELSE lock[k]]

\* A commit that changes the record of k.
Store(k, r) ==
    /\ record' = [record EXCEPT ![k] = r]
    /\ fresh' = {h \in fresh : on[h] # k}

Begin(h, what) ==
    /\ stage[h] = "none"
    /\ what # "create" => on[h] \in created
    /\ kind' = [kind EXCEPT ![h] = what]
    /\ GoTo(h, CASE what = "rotate" -> "lock"
                 [] what \in {"read", "test"} -> "slot"
                 [] what = "create" -> "store"
                 [] OTHER -> "read")
    /\ UNCHANGED <<vars, on, read, storeVars, lock>>

\* A call of the request fails without an effect: the store or the audit log
\* reports an error, the context is done, the confirmation does not match.
CallFails(h) ==
    /\ stage[h] \in {"read", "write", "log", "swap", "remove", "store"}
    /\ Return(h)
    /\ UNCHANGED <<vars, kind, on, storeVars>>

\* tryAcquireTargetLock for the credential rotation of the cluster.
TryLock(h) ==
    /\ stage[h] = "lock"
    /\ IF lock[on[h]] = NoGet
       THEN lock' = [lock EXCEPT ![on[h]] = h] /\ GoTo(h, "slot") /\ UNCHANGED read
       ELSE Return(h)
    /\ UNCHANGED <<vars, kind, on, storeVars>>

\* acquireKubernetesRead: the cache follows the pressure, the slot may be denied.
AcquireRead(h) ==
    /\ stage[h] = "slot"
    /\ \E pressure \in Pressures : Reconcile(pressure)
    /\ \/ GoTo(h, IF kind[h] = "test" THEN "flush" ELSE "read") /\ UNCHANGED <<read, lock>>
       \/ Return(h)
    /\ UNCHANGED <<kind, on, storeVars>>

\* An explicit connection test starts from an empty cache.
Flush(h) ==
    /\ stage[h] = "flush"
    /\ Invalidate(on[h])
    /\ GoTo(h, "read")
    /\ UNCHANGED <<kind, on, read, storeVars, lock>>

\* GetCluster.  Reads and tests go on to the cache with the material they read.
ReadRecord(h) ==
    LET r == record[on[h]]
        material == [cluster |-> on[h], fingerprint |-> r.cred]
    IN  /\ stage[h] = "read"
        /\ IF \/ r = NoRecord
              \/ r.status = "disabled" /\ kind[h] \in {"read", "test", "rotate"}
           THEN Return(h) /\ UNCHANGED <<vars, fresh>>
           ELSE /\ read' = [read EXCEPT ![h] = r]
                /\ fresh' = IF kind[h] = "rotate" THEN fresh \cup {h} ELSE fresh
                /\ GoTo(h, CASE kind[h] \in {"read", "test"} -> "get"
                             [] kind[h] = "rotate" -> "candidate"
                             [] kind[h] = "delete" -> "log"
                             [] OTHER -> "write")
                /\ IF kind[h] \in {"read", "test"} THEN StartGet(h, material)
                                                   ELSE UNCHANGED vars
                /\ UNCHANGED lock
        /\ UNCHANGED <<kind, on, record, created, logged>>

\* gatewayForCluster has returned.  Without a client even a test ends here and
\* leaves the status alone.
GotGateway(h) ==
    /\ stage[h] = "get"
    /\ pc[h] = "done"
    /\ IF got[h] # NoGet /\ kind[h] = "test"
       THEN GoTo(h, "probe") /\ UNCHANGED <<read, lock>>
       ELSE Return(h)
    /\ UNCHANGED <<vars, kind, on, storeVars>>

\* Probe of a connection test; "failing" is the degraded or unreachable that
\* clusterFailure makes of its error.
Probe(h) ==
    /\ stage[h] = "probe"
    /\ \E status \in {"connected", "failing"} :
          /\ read' = [read EXCEPT ![h] = [cred |-> @.cred, status |-> status, by |-> h]]
          /\ IF status = "connected" THEN UNCHANGED vars ELSE Invalidate(on[h])
    /\ GoTo(h, "write")
    /\ UNCHANGED <<kind, on, storeVars, lock>>

\* The record an update writes: a test has it ready, SetClusterEnabled sets the
\* status of what it read.
Updated(h) ==
    CASE kind[h] = "enable" -> [cred |-> read[h].cred, status |-> "pending", by |-> h]
      [] kind[h] = "disable" -> [cred |-> read[h].cred, status |-> "disabled", by |-> h]
      [] OTHER -> read[h]

WriteOrInsert(h) ==
    /\ stage[h] = "write"
    /\ Store(on[h], Updated(h))
    /\ GoTo(h, IF kind[h] = "disable" THEN "drop" ELSE "log")
    /\ UNCHANGED <<vars, kind, on, read, created, logged, lock>>

\* UpdateCluster replaces the whole record of a cluster that is still there.
Write(h) ==
    /\ stage[h] = "write"
    /\ IF record[on[h]] = NoRecord
       THEN Return(h) /\ UNCHANGED <<record, fresh>>
       ELSE /\ Store(on[h], Updated(h))
            /\ GoTo(h, IF kind[h] = "disable" THEN "drop" ELSE "log")
            /\ UNCHANGED <<read, lock>>
    /\ UNCHANGED <<vars, kind, on, created, logged>>

\* CreateCluster, under an ID and a name that are not in use.
Create(h) ==
    /\ stage[h] = "store"
    /\ on[h] \notin created
    /\ created' = created \cup {on[h]}
    /\ Store(on[h], [cred |-> h, status |-> "pending", by |-> h])
    /\ GoTo(h, "log")
    /\ UNCHANGED <<vars, kind, on, read, logged, lock>>


\* A rotation probes the candidate with a client of its own, outside the cache.
Candidate(h) ==
    /\ stage[h] = "candidate"
    /\ \/ GoTo(h, "swap") /\ UNCHANGED <<read, lock>>
       \/ Return(h)
    /\ UNCHANGED <<vars, kind, on, storeVars>>

SwapIfSameCredentials(h) ==
    LET r == record[on[h]]
        same == r.cred = read[h].cred
    IN  /\ stage[h] = "swap"
        /\ IF same /\ r # NoRecord
           THEN /\ Store(on[h], [cred |-> h, status |-> "connected", by |-> h])
                /\ logged' = logged \cup {h}
                /\ GoTo(h, "drop") /\ UNCHANGED <<read, lock>>
           ELSE Return(h) /\ UNCHANGED <<record, fresh, logged>>
        /\ UNCHANGED <<vars, kind, on, created>>

SwapKeepsLock(h) ==
    /\ stage[h] = "swap"
    /\ IF record[on[h]] = read[h]
       THEN /\ Store(on[h], [cred |-> h, status |-> "connected", by |-> h])
            /\ logged' = logged \cup {h}
            /\ GoTo(h, "drop")
       ELSE GoTo(h, "done") /\ UNCHANGED <<record, fresh, logged>>
    /\ UNCHANGED <<vars, kind, on, read, created, lock>>

\* RotateClusterCredentials of the store: the record must be the one that was
\* read; record and audit event change in one commit.
Swap(h) ==
    /\ stage[h] = "swap"
    /\ IF record[on[h]] = read[h]
       THEN /\ Store(on[h], [cred |-> h, status |-> "connected", by |-> h])
            /\ logged' = logged \cup {h}
            /\ GoTo(h, "drop") /\ UNCHANGED <<read, lock>>
       ELSE Return(h) /\ UNCHANGED <<record, fresh, logged>>
    /\ UNCHANGED <<vars, kind, on, created>>

\* DeleteCluster of the store.
Remove(h) ==
    /\ stage[h] = "remove"
    /\ IF record[on[h]] = NoRecord
       THEN Return(h) /\ UNCHANGED <<record, fresh>>
       ELSE Store(on[h], NoRecord) /\ GoTo(h, "drop") /\ UNCHANGED <<read, lock>>
    /\ UNCHANGED <<vars, kind, on, created, logged>>

\* Invalidate after a disable, a rotation or a removal.
Drop(h) ==
    /\ stage[h] = "drop"
    /\ Invalidate(on[h])
    /\ IF kind[h] = "disable" THEN GoTo(h, "log") /\ UNCHANGED <<read, lock>> ELSE Return(h)
    /\ UNCHANGED <<kind, on, storeVars>>

\* What follows the audit event of a request: a removal is carried out, a new or
\* enabled cluster is tested, anything else is answered.
AfterLog(h) ==
    CASE kind[h] = "delete" ->
             GoTo(h, "remove") /\ UNCHANGED <<kind, read, lock>>
      [] kind[h] \in {"enable", "create"} ->
             GoTo(h, "read") /\ kind' = [kind EXCEPT ![h] = "test"] /\ UNCHANGED <<read, lock>>
      [] OTHER -> Return(h) /\ UNCHANGED kind

Log(h) ==
    /\ stage[h] = "log"
    /\ logged' = logged \cup {h}
    /\ AfterLog(h)
    /\ UNCHANGED <<vars, on, record, created, fresh>>

Request(h) ==
    \/ TryLock(h) \/ AcquireRead(h) \/ Flush(h) \/ ReadRecord(h) \/ GotGateway(h)
    \/ Probe(h) \/ Write(h) \/ Create(h) \/ Candidate(h) \/ Swap(h) \/ Remove(h)
    \/ Drop(h) \/ Log(h) \/ CallFails(h)

\* The clock stands still here: expiry only drops entries that a later Get would
\* rebuild, and is the subject of GatewayCache itself.
ClustersNext ==
    \/ \E h \in Gets, what \in Demand : Begin(h, what)
    \/ \E h \in Gets : Request(h)
    \/ (\E h \in Gets : Get(h)) /\ UNCHANGED lifecycleVars
    \/ Close /\ UNCHANGED lifecycleVars

ClustersSpec == ClustersInit /\ [][ClustersNext]_allVars

-----------------------------------------------------------------------------
\* Safety.

\* A deleted cluster stays deleted: no request that read the record before the
\* removal writes it back.
NoResurrection ==
    [][\A k \in created : record[k] = NoRecord => record'[k] = NoRecord]_allVars


\* A rotation replaces the record it read and no later one: what a disable, a
\* test or another rotation wrote while the candidate was probed is not lost.
RotationOverwritesNothing ==
    [][\A h \in Gets : stage[h] = "swap" /\ stage'[h] = "drop" => h \in fresh]_allVars

\* The rotation lock is held by a rotation that is still running, so that an
\* answered rotation never blocks the next.
LocksAreReleased ==
    \A k \in Clusters : lock[k] # NoGet =>
        /\ kind[lock[k]] = "rotate" /\ on[lock[k]] = k
        /\ stage[lock[k]] \in {"slot", "read", "candidate", "swap", "drop"}

-----------------------------------------------------------------------------
\* What the documentation says and the code does not guarantee.

\* Stored credentials are replaced only by a rotation that has verified them.
\* Violated: a connection test, an enable or a disable that read the record
\* before the rotation writes the old credentials back.
CredentialsChangeOnlyByRotation ==
    [][\A k \in created :
          record[k] # NoRecord /\ record'[k] # NoRecord /\ record'[k].cred # record[k].cred
              => \E h \in Gets : stage[h] = "swap" /\ record'[k].cred = h]_allVars

\* Disabling or deleting a cluster releases its client.  Violated: a request that
\* read the record before the disable builds and caches one after the
\* invalidation.
DisabledHasNoClient ==
    \A k \in created :
        record[k].status \in {"disabled", "absent"} =>
            \/ entries[k] = NoGet
            \/ \E h \in Gets : stage[h] = "drop" /\ on[h] = k
=============================================================================
