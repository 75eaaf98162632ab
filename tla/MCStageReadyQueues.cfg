SPECIFICATION QSpec
CONSTANTS
    StateIds = {1, 2, 3, 4}
    Requests = {"r1", "r2", "r3"}
    RequestOf <- MCRequestOf
    NumGroups = 2
    MaxInflight = 2
    TicketIds = {t1, t2, t3, t4}
    NoTicket = NoTicket
    NoState = 0
INVARIANTS
    AssertInvariants
    ReservationFresh
PROPERTIES
    CohortAdvancesTogether
    ImplementsPipeline
SYMMETRY TicketSymmetry
CHECK_DEADLOCK FALSE
