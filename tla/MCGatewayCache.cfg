CONSTANTS
    Gets = {g1, g2, g3}
    NoGet = NoGet
    f1 = f1  f2 = f2
    Clusters <- MCClusters
    Fingerprints <- MCFingerprints
    Maximum = 2
    TTL = 1
    MaxTime = 1
    MaxGeneration = 1
SPECIFICATION Spec
SYMMETRY MCSymmetry
INVARIANTS
    NoClientLeaks
    CachedIsCurrent
    MaterialMatches
PROPERTIES
    HitsAreLive
