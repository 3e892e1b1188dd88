SPECIFICATION FairSpec
CONSTANTS
    a = a
    b = b
    Chunks = {a}
    AutoSave = TRUE
    MaxVersion = 1
    MaxFailures = 0
    MaxLights = 1
    MaxPasses = 1
INVARIANTS
    TypeOK
    LifecycleMatchesMap
    LightKeepsHolder
PROPERTIES
    WantedComesBack
    UnloadsFinish
    CleanupReturns
CHECK_DEADLOCK FALSE
