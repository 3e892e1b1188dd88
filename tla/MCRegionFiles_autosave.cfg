SPECIFICATION Spec
CONSTANTS
    a = a
    b = b
    r1 = r1
    h1 = h1
    h2 = h2
    h3 = h3
    Garbage = Garbage
    FirstDataSector = 3
    Chunks = {a, b}
    Regions = {r1}
    RegionOf <- OneRegion
    Holders = {h1, h2}
    ChunkOf <- TwoHolders
    Sizes = {1}
    SizeWrap = 2
    LiveSave = TRUE
    LastSector = 6
    MaxVersion = 2
    MaxCrashes = 0
PROPERTY
    NeverRegeneratesSaved
