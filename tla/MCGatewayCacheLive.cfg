CONSTANTS
    Gets = {g1, g2, g3}
    NoGet = NoGet
    f1 = f1  f2 = f2
    Clusters <- MCClusters
    Fingerprints <- MCFingerprints
    Maximum = 1
    TTL = 1
    MaxTime = 0
    MaxGeneration = 1
SPECIFICATION LiveSpec
PROPERTIES
    GetReturns
