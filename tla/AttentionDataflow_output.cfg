SPECIFICATION Spec
CONSTANTS
    NumHeads = 4
    NumHeadsKv = 2
    HeadDim = 4
    SampleIds = {0, 1}
    MaxBatch = 2
    MaxRows = 3
    MinCacheLen = 1
INVARIANTS
    OutputIsAttention
