----------------------------- MODULE FileStore ------------------------------
(***************************************************************************)
(* The file store of internal/store with all its tables: the calls that    *)
(* change them, the steps in which commit writes the file, the errors and  *)
(* crashes between those steps, and Open.                                  *)
(*                                                                         *)
(* A mutating call holds File.mu from the check of its arguments to its    *)
(* return, so at most one is under way and readers, which need the lock    *)
(* too, are served from data before or after it.  A call whose context is  *)
(* done returns before it does anything and is not a step.                 *)
(*                                                                         *)
(* Directory entries are durable once the directory is synced.  Until then *)
(* a power loss may bring back the file that was there before, so found is *)
(* the set of images it may leave.  The temporary file is synced before it *)
(* is renamed: whatever the entry points to is a complete image.           *)
(***************************************************************************)
EXTENDS Integers, Sequences, FiniteSets, SequencesExt

CONSTANTS
    Ids,                    \* IDs of clusters and of repositories
    Names,                  \* a name is a word and how it mixes upper and lower case
    Writes,                 \* bound: the contents of records, by who wrote them
    OperationIds, AuditIds,
    MaxStoredOperations, MaxStoredAuditEvents,
    MaxFaults,              \* bound: persist errors and restarts
    Demands                 \* the sets of tables that behaviours are about

ASSUME LimitsAssumption ==
    MaxStoredOperations \in Nat \ {0} /\ MaxStoredAuditEvents \in Nat \ {0} /\ MaxFaults \in Nat
ASSUME DemandAssumption ==
    \A demand \in Demands : demand \subseteq {"clusters", "repositories", "operations", "audits"}

VARIABLES
    data,       \* File.data
    file,       \* the file at File.path, as this system sees it
    found,      \* what a power loss may leave at File.path
    pc,         \* where the call, or Open, is
    next,       \* the state being written
    writer,     \* who writes it: a call or one of the passes of Open
    event,      \* the audit event that the call writes, {} if it writes none
    faults,     \* persist errors and restarts so far
    tables      \* the tables that are written in this behaviour

vars == <<data, file, found, pc, next, writer, event, faults, tables>>

EqualFold(m, n) == m[1] = n[1]

InFlight == {"queued", "running"}
OperationStates == InFlight \cup {"finished", "unknown"}

\* Who wrote a cluster record last: an ordinary write, or the credential rotation
\* that is recorded by an audit event.
Records == [name : Names, by : Writes \cup AuditIds]
None == [name |-> <<>>]

Operations == [id : OperationIds, state : OperationStates]

Empty == [clusters |-> [i \in Ids |-> None], repositories |-> [i \in Ids |-> None],
          operations |-> <<>>, audits |-> <<>>]

Init ==
    /\ data = Empty /\ file = Empty /\ next = Empty
    /\ found = {Empty}
    /\ pc = "idle" /\ writer = "call" /\ event = {}
    /\ faults = 0
    /\ tables \in Demands

-----------------------------------------------------------------------------
\* What the calls do to the tables: the state to commit, or Refused.

Refused == [refused |-> TRUE]

Used(table, id, r) == \E i \in Ids : table[i] # None /\ (i = id \/ EqualFold(table[i].name, r.name))

NameTaken(table, id, r) == \E i \in Ids \ {id} : table[i] # None /\ EqualFold(table[i].name, r.name)

CreateCluster(s, id, r) ==
    IF Used(s.clusters, id, r) THEN Refused ELSE [s EXCEPT !.clusters[id] = r]

UpdateClusterUnchecked(s, id, r) ==
    IF s.clusters[id] = None THEN Refused ELSE [s EXCEPT !.clusters[id] = r]

UpdateCluster(s, id, r) ==
    IF s.clusters[id] = None \/ NameTaken(s.clusters, id, r)
    THEN Refused ELSE [s EXCEPT !.clusters[id] = r]

DeleteCluster(s, id) ==
    IF s.clusters[id] = None THEN Refused ELSE [s EXCEPT !.clusters[id] = None]

CreateRepository(s, id, r) ==
    IF Used(s.repositories, id, r) THEN Refused ELSE [s EXCEPT !.repositories[id] = r]

UpdateRepository(s, id, r) ==
    IF s.repositories[id] = None \/ NameTaken(s.repositories, id, r)
    THEN Refused ELSE [s EXCEPT !.repositories[id] = r]

DeleteRepository(s, id) ==
    IF s.repositories[id] = None THEN Refused ELSE [s EXCEPT !.repositories[id] = None]

trimAuditHistory(events) ==
    IF Len(events) <= MaxStoredAuditEvents THEN events
    ELSE SubSeq(events, Len(events) - MaxStoredAuditEvents + 1, Len(events))

trimDropsInFlight(operations) ==
    LET overflow == Len(operations) - MaxStoredOperations
    IN  IF overflow <= 0 THEN operations
        ELSE SubSeq(operations, overflow + 1, Len(operations))

trimOperationHistory(operations) ==
    LET overflow == Len(operations) - MaxStoredOperations
        Done(i) == operations[i].state \notin InFlight
        Dropped(i) == Done(i) /\ Cardinality({j \in 1..i-1 : Done(j)}) < overflow
        Kept(i) == ~Dropped(i)
        kept == SelectSeq([i \in DOMAIN operations |-> i], Kept)
    IN  [i \in DOMAIN kept |-> operations[kept[i]]]

CreateAuditEvent(s, a) ==
    IF a \in Range(s.audits) THEN Refused
    ELSE [s EXCEPT !.audits = trimAuditHistory(Append(s.audits, a))]


RotateClusterCredentials(s, id, expected, r, a) ==
    IF s.clusters[id] # expected \/ a \in Range(s.audits) THEN Refused
    ELSE [s EXCEPT !.clusters[id] = r,
                   !.audits = trimAuditHistory(Append(s.audits, a))]

Position(s, o) == {i \in DOMAIN s.operations : s.operations[i].id = o}

CreateOperation(s, o) ==
    IF Position(s, o) # {} THEN Refused
    ELSE [s EXCEPT !.operations =
              trimOperationHistory(Append(s.operations, [id |-> o, state |-> "queued"]))]

UpdateOperation(s, o, to) ==
    IF Position(s, o) = {} THEN Refused
    ELSE [s EXCEPT !.operations = [i \in DOMAIN s.operations |->
              IF i \in Position(s, o) THEN [id |-> o, state |-> to] ELSE s.operations[i]]]

TransitionOperation(s, o, expected, to, a) ==
    IF \/ \A i \in Position(s, o) : s.operations[i].state # expected
       \/ a \in Range(s.audits)
    THEN Refused
    ELSE [UpdateOperation(s, o, to) EXCEPT !.audits = trimAuditHistory(Append(s.audits, a))]

reconcileInterruptedOperations(s) ==
    [s EXCEPT !.operations = [i \in DOMAIN s.operations |->
        IF s.operations[i].state \in InFlight
        THEN [s.operations[i] EXCEPT !.state = "unknown"] ELSE s.operations[i]]]

reconcileHistoryRetention(s) ==
    [s EXCEPT !.operations = trimOperationHistory(s.operations),
              !.audits = trimAuditHistory(s.audits)]

-----------------------------------------------------------------------------
\* A call that changes the tables: refused at once, or on to write the new state.
Call(result, audit) ==
    /\ pc = "idle"
    /\ result # Refused
    /\ next' = result
    /\ event' = audit
    /\ writer' = "call"
    /\ pc' = "write"
    /\ UNCHANGED <<data, file, found, faults, tables>>

\* persist, in the order of its system calls.  The temporary file is created,
\* written, synced and closed; renamed over the store; the directory is synced.
WriteTemporary ==
    /\ pc = "write"
    /\ pc' = "rename"
    /\ UNCHANGED <<data, file, found, next, writer, event, faults, tables>>

Rename ==
    /\ pc = "rename"
    /\ file' = next
    /\ found' = found \cup {next}
    /\ pc' = "sync"
    /\ UNCHANGED <<data, next, writer, event, faults, tables>>

\* The directory is synced, persist returns without an error, and the state is
\* adopted.
Adopt ==
    /\ pc = "sync"
    /\ data' = next
    /\ pc' = IF writer = "retention" THEN "interrupted" ELSE "idle"
    /\ UNCHANGED <<file, next, writer, event, faults, tables>>

CommitWithoutSync == Adopt /\ UNCHANGED found

Commit == Adopt /\ found' = {next}

\* Any of the system calls fails: the call reports an error and data stays; a
\* failing Open ends the process.
PersistFails ==
    /\ pc \in {"write", "rename", "sync"}
    /\ faults < MaxFaults
    /\ faults' = faults + 1
    /\ pc' = IF writer = "call" THEN "idle" ELSE "down"
    /\ next' = data
    /\ UNCHANGED <<data, file, found, writer, event, tables>>

\* The process stops at any point, with the machine (and then the file is one of
\* those it may leave) or without it.
Crash ==
    /\ pc # "down"
    /\ faults < MaxFaults
    /\ faults' = faults + 1
    /\ \/ UNCHANGED <<file, found>>
       \/ \E s \in found : file' = s /\ found' = {s}
    /\ pc' = "down"
    /\ next' = data
    /\ UNCHANGED <<data, writer, event, tables>>

\* Open: load, retention, interrupted operations; each writes only what changed.
Load ==
    /\ pc = "down"
    /\ data' = file
    /\ next' = file
    /\ pc' = "retention"
    /\ UNCHANGED <<file, found, writer, event, faults, tables>>

Reconcile(step, to, result) ==
    /\ pc = step
    /\ next' = result
    /\ writer' = step
    /\ event' = {}
    /\ pc' = IF result = data THEN to ELSE "write"
    /\ UNCHANGED <<data, file, found, faults, tables>>

OpenRetention == Reconcile("retention", "interrupted", reconcileHistoryRetention(data))

OpenInterrupted == Reconcile("interrupted", "idle", reconcileInterruptedOperations(data))

-----------------------------------------------------------------------------
Next ==
    \/ /\ "clusters" \in tables
       /\ \E id \in Ids : 
          \/ \E n \in Names, w \in Writes : 
             \/ Call(CreateCluster(data, id, [name |-> n, by |-> w]), {})
             \/ Call(UpdateCluster(data, id, [name |-> n, by |-> w]), {})
          \/ Call(DeleteCluster(data, id), {})
          \/ \E a \in AuditIds, expected \in Records :
                Call(RotateClusterCredentials(data, id, expected, [expected EXCEPT !.by = a], a), {a})
    \/ /\ "repositories" \in tables
       /\ \E id \in Ids : 
          \/ \E n \in Names, w \in Writes : 
             \/ Call(CreateRepository(data, id, [name |-> n, by |-> w]), {})
             \/ Call(UpdateRepository(data, id, [name |-> n, by |-> w]), {})
          \/ Call(DeleteRepository(data, id), {})
    \/ /\ "operations" \in tables
       /\ \E o \in OperationIds :
          \/ Call(CreateOperation(data, o), {})
          \/ \E to \in {"running", "finished"} : 
             \/ Call(UpdateOperation(data, o, to), {})
             \/ \E a \in AuditIds : Call(TransitionOperation(data, o, "queued", to, a), {a})
    \/ /\ "audits" \in tables
       /\ \E a \in AuditIds : Call(CreateAuditEvent(data, a), {a})
    \/ WriteTemporary \/ Rename \/ Commit \/ PersistFails \/ Crash
    \/ Load \/ OpenRetention \/ OpenInterrupted

Spec == Init /\ [][Next]_vars

-----------------------------------------------------------------------------
\* Properties.

\* Names stay unique up to case in every image the store serves, is writing, or may
\* find again after a crash, although a call compares its name only with the
\* state in memory, which a failed write may have left behind the file.
NamesAreUnique ==
    \A s \in found \cup {data} : \A t \in {s.clusters, s.repositories} :
        \A i, j \in Ids : t[i] # None /\ t[j] # None /\ EqualFold(t[i].name, t[j].name) => i = j


Kept(s) == {s.operations[i].id : i \in DOMAIN s.operations}

\* Retention keeps what still counts.  CreateOperation applies the limit in the commit
\* that adds the record: beyond it only operations in flight are kept, and no commit,
\* by Open or by a call, ever drops one that is in flight.  An acknowledged audit event
\* is the newest one of the log, and events only ever leave from its old end; calls
\* that write none leave the log alone.
RetentionKeepsWhatCounts ==
    [][pc = "sync" =>
          /\ ~(Kept(data') \subseteq Kept(data)) /\ Len(data'.operations) > MaxStoredOperations =>
                \A i \in DOMAIN data'.operations : data'.operations[i].state \in InFlight
          /\ \A i \in DOMAIN data.operations :
                data.operations[i].state \in InFlight => data.operations[i].id \in Kept(data')
          /\ writer = "call" /\ pc' = "idle" /\ UNCHANGED faults =>
                IF event = {} THEN data'.audits = data.audits
                ELSE \E a \in event : /\ IsSuffix(data'.audits, Append(data.audits, a))
                                      /\ a \in Range(data'.audits)]_vars

Durable == INSTANCE DurableStore WITH up <- pc # "down", state <- data

\* The steps of commit implement an atomic store whose acknowledged changes are
\* never lost and in which only attempted changes surface after a restart.
ImplementsDurableStore == Durable!Spec
=============================================================================
