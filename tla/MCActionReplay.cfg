SPECIFICATION FairSpec
CONSTANTS
    p1 = p1
    p2 = p2
    p3 = p3
    Prompts = {p1, p2, p3}
    NumChunks <- MCNumChunks
    StateIds <- MCStateIds
    Requests <- MCStateIds
    RequestOf <- MCRequestOf
    TicketIds <- MCTicketIds
    NumGroups = 2
    MaxInflight = 2
    BindsPlans = TRUE
    NoTicket = NoTicket
    NoState = NoState
    NoChunk = NoChunk
INVARIANTS
    ReplaysBoundTickets
PROPERTIES
    GoesOnExactlyAsRecorded
    RefusalRestoresQueues
    ReplayEnds
