SPECIFICATION TokenizerSpec
CONSTANTS
    Letters <- MCLetters
    Space = " "
    Newline = "newline"
    MappedBlank = "_"
    Merges <- MCMerges
    Jobs <- MCJobs
INVARIANTS
    DecodeRestoresText
    PadNamesItsToken
    SpecialsStayWhole
    MergesAsPublished
