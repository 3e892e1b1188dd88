SPECIFICATION FairSpec
CONSTANTS
    r1 = r1
    u1 = u1
    portal = portal
    spawn = spawn
    Positions <- Row
    Distance <- RowDistance
    Tickets <- SomeTickets
    BlockTicking = 1
    MaxLevel = 3
    Requests = {r1}
    Asks <- AsksTwo
    RequestTicket <- Loading
    Players = {u1}
    Views <- SomeViews
    Kinds = {portal, spawn}
    TimedTicket <- TimedTickets
    Timeout <- Timeouts
    SpawnKind = spawn
    Places = {1}
    MaxRevision = 3
INVARIANTS
    TypeOK
    TicketsHaveOwners
    RequestedStaysLoaded
PROPERTIES
    ImplementsLog
    EverySubmissionCommits
