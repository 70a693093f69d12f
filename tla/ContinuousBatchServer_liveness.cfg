SPECIFICATION FairSpec
CONSTANTS
    MaxActive = 2
    PrefillBatch = 2
    MaxSteps = 2
    Tokens = {tok, eos, pad}
    PadId = pad
    EosId = eos
    SeqLens = {0, 1}
    InitialPrompts = 1
    MaxRequests = 3
    MaxPads = 1
    MayThrow = FALSE
PROPERTIES
    EveryRequestAnswered
    ServiceStops
