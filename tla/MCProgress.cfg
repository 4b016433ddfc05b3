\* Two operations for one target and two workers; two callers of a governor with
\* two slots; a page that polls without end.  Operations and callers are finite
\* and end.
SPECIFICATION MCSpec
CONSTANTS
    MaxOps = 2
    MaxStoredOperations = 2
    PersistFaults = FALSE
    Workers = {w1, w2}
    QueueSize = 1
    MaxConcurrent = 2
    t1 = t1
    t2 = t2
    s1 = s1
    s2 = s2
    Targets <- MCTargets
    Stripes <- MCOneStripe
    StripeOf <- MCOneStripeOf
    Requests <- MCOneRequest
    Api = Api
    NoWorker = NoWorker
    NoOp = NoOp
    NoRequest = NoRequest
    MaxCrashes = 0
    MayStop = FALSE
    Callers = {c1, c2}
    Enabled = TRUE
    HighWatermark = 800
    CriticalWatermark = 950
    Readings = {0, 800, 950}
CHECK_DEADLOCK FALSE
PROPERTIES
    OperationsSettle
    CancelFreesWorker
    
    PollingStarvesNothing
