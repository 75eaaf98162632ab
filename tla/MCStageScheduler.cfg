SPECIFICATION FairSpec
CONSTANTS
    Chunks = {c1, c2, c3, c4}
    NumGroups = 3
    CohortSize = 2
    CandidateWindow = 3
    MaxConsecutive = 2
    Policies = {"fifo", "cost_oracle"}
    HasDeadline = TRUE
INVARIANTS
    TicketOwnsWhatIsOut
    FifoNeverOvertakes
    AnchorIsOldest
    OldestPassedOverBoundedly
PROPERTIES
    ExpiredGoFirst
    StreakYields
    EveryChunkLeaves
