\* Three requests over two request slots and one read slot; three logins of two
\* at a time; three callers of a governor with two slots and the default
\* watermarks; a page that takes five numbers.  Everything is finite and ends.
SPECIFICATION MCSpec
CONSTANTS
    r1 = r1
    r2 = r2
    r3 = r3
    NoRequest = NoRequest
    MaxConcurrentRequests = 2
    ReadSlots = 1
    Attempts = {1, 2, 3}
    Clients = {1, 2, 3}
    MaxFailure = 1
    Window = 2
    MaxEntries = 2
    TTL = 1
    MaxTime = 2
    Callers = {c1, c2, c3}
    MaxConcurrent = 2
    Enabled = TRUE
    HighWatermark = 800
    CriticalWatermark = 950
    Readings <- MCReadings
    MaxSequence = 5
CHECK_DEADLOCK FALSE
INVARIANTS
    
    AuditedReadsAreRecorded
    RequestsAreChecked
    FailuresAreBounded
    SessionsEnd
    ShownIsWanted
PROPERTIES
    AdmittedWithinSample
    ImplementsSlotPool
