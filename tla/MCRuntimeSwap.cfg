SPECIFICATION Spec
CONSTANTS
    NumLayers = 2
    Experts = {e1, e2, e3, e4}
    Slots = {s1, s2}
    NoSlot = NoSlot
    Lookahead = 1
    MaxChanged = 0
    Options <- MCOptions
SYMMETRY Alike
INVARIANTS
    ComputesItsExperts
    TablesAgree
PROPERTIES
    CommitsFreshPlans
