CONSTANTS
    MaxOps = 2
    MaxStoredOperations = 1
    PersistFaults = TRUE
    Workers = {w1}
    QueueSize = 1
    MaxConcurrent = 1
    t1 = t1  t2 = t2  s1 = s1  s2 = s2
    Targets <- MCTargets
    Stripes <- MCOneStripe
    StripeOf <- MCOneStripeOf
    Requests <- MCOneRequest
    Api = Api
    NoWorker = NoWorker
    NoOp = NoOp
    NoRequest = NoRequest
    MaxCrashes = 1
    MayStop = TRUE
SPECIFICATION Spec
INVARIANTS
    AtMostOnce
    NotExecutedIsTrue
    
    ExecutingIsDurable
PROPERTIES
    OutcomesAreFinal
