--------------------------- MODULE OperationStore ---------------------------
(***************************************************************************)
(* The operation and audit tables of the file store (internal/store).      *)
(*                                                                         *)
(* The store keeps its whole state in memory (File.data) and rewrites one  *)
(* JSON file on every mutation: encode, write a temporary file, sync,      *)
(* rename, chmod, sync the directory, and only then replace File.data.  An *)
(* error before the rename leaves the file as it was; an error after it    *)
(* (chmod, opening or syncing the directory) is reported to the caller     *)
(* although the file already holds the new state, and memory keeps the old *)
(* one.  The methods run under File.mu, so each is one step.               *)
(*                                                                         *)
(* Operations are numbered in the order in which they enter the store, so  *)
(* "oldest first" in the Go slice is "smallest first" here.                *)
(***************************************************************************)
EXTENDS Integers, FiniteSets

CONSTANTS
    MaxOps,                 \* how many operations a behaviour may submit
    MaxStoredOperations,    \* the retention limit of the operation table
    PersistFaults           \* whether writing the file may fail

ASSUME MaxOpsAssumption == MaxOps \in Nat
ASSUME MaxStoredAssumption == MaxStoredOperations \in Nat \ {0}
ASSUME PersistFaultsAssumption == PersistFaults \in BOOLEAN

VARIABLES
    mem,            \* File.data: what every reader is served from
    disk,           \* the JSON file at File.path
    storeFailed     \* history: this process has seen a persist error

storeVars == <<mem, disk, storeFailed>>

Ops == 1..MaxOps

Absent == "absent"
InFlight == {"queued", "running"}

\* OperationFailed is kept apart by what its error code claims: "rejected" is
\* failed with queue_full or with the audit_failed of a submission ("the task
\* was not executed"), "failed" is a failure reported after execution began.
Terminal == {"succeeded", "failed", "rejected", "canceled", "unknown"}
OperationStates == InFlight \cup Terminal

\* The audit events that name an operation, by action and result.
AuditResults == {"submitted", "cancel", "succeeded", "failed", "unknown"}

Images == [ops : [Ops -> OperationStates \cup {Absent}],
           audits : SUBSET (Ops \X AuditResults)]

StoreTypeOK ==
    /\ mem \in Images
    /\ disk \in Images
    /\ storeFailed \in BOOLEAN

EmptyImage == [ops |-> [o \in Ops |-> Absent], audits |-> {}]

StoreInit ==
    /\ mem = EmptyImage
    /\ disk = EmptyImage
    /\ storeFailed = FALSE

Put(image, o, state) ==
    [ops |-> [image.ops EXCEPT ![o] = state], audits |-> image.audits]

Log(image, o, result) ==
    [ops |-> image.ops, audits |-> image.audits \cup {<<o, result>>}]

-----------------------------------------------------------------------------
\* Retention: while the table is too long, the oldest operations that are not
\* in flight are dropped; in-flight ones stay even beyond the limit.
Stored(image) == {o \in Ops : image.ops[o] # Absent}

Finished(image) == {o \in Ops : image.ops[o] \in Terminal}

Trimmed(image) ==
    LET overflow == Cardinality(Stored(image)) - MaxStoredOperations
    IN  {o \in Finished(image) :
            Cardinality({p \in Finished(image) : p < o}) < overflow}

trimOperationHistory(image) ==
    [ops |-> [o \in Ops |-> IF o \in Trimmed(image) THEN Absent ELSE image.ops[o]],
     audits |-> image.audits]

\* CreateOperation appends the record and applies retention in one commit.
Created(image, o) == trimOperationHistory(Put(image, o, "queued"))

\* Open marks whatever a previous process left queued or running.
reconcileInterruptedOperations(image) ==
    [ops |-> [o \in Ops |-> IF image.ops[o] \in InFlight THEN "unknown" ELSE image.ops[o]],
     audits |-> image.audits]

-----------------------------------------------------------------------------
\* commit: persist the next state, then adopt it.
Commit(next) ==
    /\ mem' = next
    /\ disk' = next
    /\ UNCHANGED storeFailed

\* persist returns an error: before the rename the file is untouched, after it
\* the file is the next state; memory is the old state either way.
CommitFails(next) ==
    /\ PersistFaults
    /\ disk' \in {disk, next}
    /\ storeFailed' = TRUE
    /\ UNCHANGED mem

\* TransitionOperation compares the stored state with the expected one and
\* replaces the record (and appends the audit event) in the same commit.
TransitionUnchecked(o, expected, next) == Commit(next)

Transition(o, expected, next) ==
    /\ mem.ops[o] = expected
    /\ Commit(next)

TransitionFails(o, expected, next) ==
    \/ mem.ops[o] # expected /\ UNCHANGED storeVars
    \/ mem.ops[o] = expected /\ CommitFails(next)

\* UpdateOperation replaces the record whatever its state, if it is there.
Update(o, next) ==
    /\ mem.ops[o] # Absent
    /\ Commit(next)

UpdateFails(o, next) ==
    \/ mem.ops[o] = Absent /\ UNCHANGED storeVars
    \/ mem.ops[o] # Absent /\ CommitFails(next)

Open ==
    LET next == reconcileInterruptedOperations(trimOperationHistory(disk))
    IN  mem' = next /\ disk' = next /\ storeFailed' = FALSE

\* Open fails when one of its two writes does; either may have replaced the
\* file before failing.
OpenFails ==
    /\ PersistFaults
    /\ disk' \in {disk, trimOperationHistory(disk),
                  reconcileInterruptedOperations(trimOperationHistory(disk))}
    /\ UNCHANGED <<mem, storeFailed>>
=============================================================================
