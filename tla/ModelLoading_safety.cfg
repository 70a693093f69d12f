SPECIFICATION Spec
CONSTANT Cases <- MCCases
INVARIANTS
    ReadsWithinFile
    NeverHalfLoaded
    AcceptedModelsRun
    RejectsOnlyMisfits
    LeftoversAreForeign
