SPECIFICATION Spec
CONSTANTS
    MaxRadius = 4
    Requirements <- SmallRequirements
    Chunks = {1, 2}
    Tickets <- UpAndDown
    MaxTasks = 4
    MaxRunning = 2
    MaxFailures = 0
    MaxMoves = 3
INVARIANTS
    NeverForgotten
