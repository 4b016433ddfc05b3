\* Two clusters and two repositories with three names, two of which differ only in
\* case; three operations in a table of two; two audit events in a log of one.
\* Three requests of the repository service for two repositories.
SPECIFICATION MCSpec
CHECK_DEADLOCK FALSE
CONSTANTS
    Ids = {i1, i2}
    Names <- MCNames
    Writes = {w1}
    OperationIds = {o1, o2, o3}
    AuditIds = {a1, a2}
    MaxStoredOperations = 2
    MaxStoredAuditEvents = 1
    MaxFaults = 2
    Demands = {{"clusters"}, {"repositories"}, {"operations", "audits"}, {}}
    Handlers = {h1, h2, h3}
    RepositoryIds = {k1, k2}
    NoRepository = NoRepository
INVARIANTS
    NamesAreUnique
    
PROPERTIES
    RetentionKeepsWhatCounts
    ImplementsDurableStore
    OldChecksUndoOnlyDisabling
