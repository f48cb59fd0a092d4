SPECIFICATION FairSpec
CONSTANTS
    Stem = {1, 2}
    Tasks <- ExactTasks
    ItemsPerFile = 2
    QuietSeconds = 0
    ReuseNames = FALSE
    StallingProducers = TRUE
    MaxFiles = 1
    MaxClock = 3
    MaxFaults = 2
    MaxBreaks = 3
INVARIANTS
    TypeInvariant
    NothingLost
    OwedIsEverywhere
PROPERTIES
    DeliversAtLeastOnce
    EveryItemLands
