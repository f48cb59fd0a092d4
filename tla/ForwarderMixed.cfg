SPECIFICATION Spec
CONSTANTS
    Stem = {1, 2, 3, 4}
    Tasks <- MixedTasks
    ItemsPerFile = 2
    QuietSeconds = 1
    ReuseNames = FALSE
    StallingProducers = FALSE
    MaxFiles = 2
    MaxClock = 3
    MaxFaults = 2
    MaxBreaks = 1
INVARIANTS
    
    NoResendUnlessBroken
PROPERTIES
    TrailKept
