CONSTANTS
    MaxOps = 1
    MaxStoredOperations = 2
    PersistFaults = FALSE
    Workers = {w1}
    QueueSize = 1
    MaxConcurrent = 1
    t1 = t1  t2 = t2  s1 = s1  s2 = s2
    Targets <- MCTargets
    Stripes <- MCStripes
    StripeOf <- MCStripeOf
    Requests <- MCRequests
    Api = Api
    NoWorker = NoWorker
    NoOp = NoOp
    NoRequest = NoRequest
    MaxCrashes = 0
    MayStop = TRUE
SPECIFICATION Spec
INVARIANTS
    InterruptedIsUnknown
