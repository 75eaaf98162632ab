SPECIFICATION Spec
CONSTANTS
    WorldSize = 2
    NumLayers = 2
    NumExperts = 4
    NumGpu = 1
    Selections = {{0}, {2}}
    Formats = {"fp8"}
    Torn = Torn
INVARIANTS
    EveryRankIsRight
