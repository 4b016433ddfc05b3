CONSTANTS
    MaxOps = 3
    MaxStoredOperations = 1
    PersistFaults = FALSE
    Workers = {w1, w2}
    QueueSize = 1
    MaxConcurrent = 2
    t1 = t1  t2 = t2  s1 = s1  s2 = s2
    Targets <- MCTargets
    Stripes <- MCOneStripe
    StripeOf <- MCOneStripeOf
    Requests <- MCOneRequest
    Api = Api
    NoWorker = NoWorker
    NoOp = NoOp
    NoRequest = NoRequest
    MaxCrashes = 0
    MayStop = FALSE
SPECIFICATION Spec
SYMMETRY MCSymmetry
INVARIANTS
    TypeOK
    TargetsAreSerialized
    InFlightIsOwned
