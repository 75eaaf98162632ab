SPECIFICATION FairSpec
CONSTANTS
    e1 = e1
    e2 = e2
    e3 = e3
    s1 = s1
    s2 = s2
    NumGroups = 2
    Experts = {e1, e2, e3}
    Slots = {s1, s2}
    NoExpert = NoExpert
    Plans <- TwoPlans
    Materialization = "delta"
    MaxAhead = 2
    Upsets = {{}, {"fails", "differs"}}
INVARIANTS
    OnlyDiscardsLoseReaders
    ValidMeansLoaded
    TicketGetsItsPlan
    LoadingHasOwner
    LookaheadStaysGood
PROPERTIES
    ActionsGetServed
