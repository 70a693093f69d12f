SPECIFICATION Spec
CONSTANTS
    MaxActive = 2
    PrefillBatch = 2
    NumLayers = 2
    PromptRows = {1, 2, 3}
    MaxRows = 5
    MinCacheLen = 2
    MinScratchRows = 1
    MaxInt = 6
INVARIANTS
    TypeOK
    AttendsWholeHistory
    HistoryKeptOnce
    CacheFits
    PrefillLensUniform
