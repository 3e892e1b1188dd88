SPECIFICATION FairSpec
CONSTANTS
    MaxRadius = 4
    Requirements <- SmallRequirements
    Chunks = {1, 2}
    Tickets <- UpAndDown
    MaxTasks = 3
    MaxRunning = 2
    MaxFailures = 1
    MaxMoves = 2
INVARIANTS
    TypeOK
    DependenciesReady
    ClaimsFollowParents
    WaitersAreWoken
    OneTaskDrives
PROPERTIES
    TasksEnd
    WantedIsGenerated
