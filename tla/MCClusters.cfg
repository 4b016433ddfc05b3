CONSTANTS
    Gets = {h1, h2, h3}
    NoGet = NoGet
    c0 = c0
    Demand = {"test", "rotate", "enable", "disable", "delete", "create"}
    Clusters <- MCClusterIDs
    Fingerprints <- MCCredentials
    Maximum = 1
    TTL = 1
    MaxTime = 0
    MaxGeneration = 0
SPECIFICATION ClustersSpec
CHECK_DEADLOCK FALSE
SYMMETRY MCSymmetry
INVARIANTS
    
    LocksAreReleased
PROPERTIES
    NoResurrection
    RotationOverwritesNothing
