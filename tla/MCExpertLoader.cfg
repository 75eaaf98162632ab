SPECIFICATION FairSpec
CONSTANTS
    Keys = {k1, k2}
    Consumers = {main, filler}
    Main = main
    Workers = {w1}
    Tasks <- MCTasks
    MaxCached = 1
    MaxPrefetched = 1
    None = None
INVARIANTS
    RegisteredAreCached
    LeaksOnlyWhenRaced
PROPERTIES
    PrefetchedStay
    EveryoneIsServed
