SPECIFICATION FairSpec
CONSTANTS
    Requests = {r1, r2, r3}
    Long = {r1, r2}
    NumChunks <- MCNumChunks
    Rows <- MCRows
    NumGroups = 2
    CohortSize = 2
    MaxInflight = 2
    MaxRunning = 1
    Returning = {r3}
    Impatient = {r2}
    MaxTokens = 2
    MaxRetracts = 1
    MaxPauses = 1
    AnyPause = FALSE
    None = None
INVARIANTS
    NoneLostNoneTwice
    DecodesOnlyPrefilled
    SlotsBounded
    RowsReturnHome
    FlushesOnlyUnused
PROPERTIES
    AbortReaches
    EveryRequestEnds
