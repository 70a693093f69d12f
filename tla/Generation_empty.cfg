SPECIFICATION Spec
CONSTANTS
    Batches <- MCBatches
    Futures <- MCFutures
    Tokens <- MCTokens
    PadId = "pad"
    EosId = "eos"
    Unnamed = {"unknown"}
    MaxSteps = 3
    MayThrow = TRUE
INVARIANTS
    EmptyPromptsRejected
