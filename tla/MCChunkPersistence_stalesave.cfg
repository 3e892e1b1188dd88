SPECIFICATION Spec
CONSTANTS
    a = a
    b = b
    Chunks = {a}
    AutoSave = TRUE
    MaxVersion = 2
    MaxFailures = 0
    MaxLights = 0
    MaxPasses = 1
INVARIANTS
    ShutdownSavesAll
CHECK_DEADLOCK FALSE
