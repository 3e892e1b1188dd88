SPECIFICATION Spec
CONSTANTS
    a = a
    b = b
    Chunks = {a}
    AutoSave = FALSE
    MaxVersion = 3
    MaxFailures = 1
    MaxLights = 1
    MaxPasses = 0
INVARIANTS
    NoLostUpdate
    ShutdownSavesAll
CHECK_DEADLOCK FALSE
