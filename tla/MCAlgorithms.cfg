SPECIFICATION Spec
CONSTANTS
    FirstDataSector = 3
    LastSector = 8
    MaxRequest = 3
    MaxRadius = 16
    Chunks = {"a", "b"}
    Keys <- MCKeys
    Priorities = {0, 1}
    NoHead = NoHead
    MaxPerTick = 2
    MaxDelay = 1
    MaxTime = 2
    MaxScheduled = 4
    MaxSaves = 2
INVARIANTS
    ScanAgreesWithRelation
    ScanResultIsFree
    AccumulatedIsClosure
    LayersCoverDependencies
    TicketPermitsTask
    DeadlinesExact
    CollectsInOrder
    OwedTicksAreKept
CHECK_DEADLOCK FALSE
