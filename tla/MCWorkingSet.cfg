SPECIFICATION WSpec
CONSTANTS
    l1 = l1
    l2 = l2
    NumGroups = 2
    NumExperts = 4
    SlotsPerLayer = 2
    MaxReplacements = 1
    Layers = {l1, l2}
    Demands <- MCDemands
    FrequencyPlans <- MCFrequencyPlans
    Policies = {"min_delta", "cost_oracle"}
INVARIANTS
    NoPlanTwice
    ChangedLayersCopyLeast
    SourceNearLastCommitted
