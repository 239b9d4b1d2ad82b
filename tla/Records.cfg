SPECIFICATION MCSpec
CONSTANTS
    k1 = k1  k2 = k2  v1 = v1  v2 = v2
    None = None
    Keys = {k1, k2}
    Vals = {v1, v2}
    Buckets = {0, 1}
    BucketOf <- MCBucketOf
    Members = 2
    Right = Right  Wrong = Wrong  Absent = Absent
    MaxStarts = 4
    MaxLayers = 3
    MaxBatch = 1
    MaxDelta = 2
    Blank = Blank
    c1 = c1  c2 = c2
    Callers = {c1, c2}
    GBytes <- MCGBytes
    GTable = "t"
    GLimit = 8
    GArtifact <- MCGArtifact
    GRequests <- MCGRequests
    GTargets <- MCGTargets
    GDatasets = {"rules", "copy"}
    GMaxCalls = 3
    GOffers <- MCGOffers
SYMMETRY Symmetry
INVARIANTS LayersExact RegisteredExact GenerationExact HeadsChain
CHECK_DEADLOCK FALSE
