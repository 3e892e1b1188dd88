SPECIFICATION Spec
CONSTANTS
    Positions <- Corner
    Near <- NearCorner
    Wide <- WideCorner
    BlockCount = 2
    EntityCount = 3
    LevelMaps <- OneTicket
    MaxHolders <- OneReplaced
INVARIANTS
    TypeOK
    TickersHaveNeighbours
    IndexIsSound
    NobodyLeftBehind
    SnapshotIsCurrent
