SPECIFICATION Spec
CONSTANTS
    e1 = e1
    e2 = e2
    e3 = e3
    s1 = s1
    s2 = s2
    NumGroups = 2
    Experts = {e1, e2, e3}
    Slots = {s1, s2}
    NoExpert = NoExpert
    Plans <- TwoPlans
    Materialization = "full"
    MaxAhead = 2
    Upsets = {{"fails"}}
INVARIANTS
    ReadersKeepTheirWeights
