SPECIFICATION Spec
CONSTANTS
    c1 = c1
    c2 = c2
    c3 = c3
    NoCall = NoCall
    Calls <- TwoCalls
    Retention = 1
    PageSize = 2
    MaxPages = 3
    LatestWindow = 2
    Targets = {0}
    Ops = {"restore"}
    InitFiles <- MixedFolder
    FirstId = 4
    InitDb = 10
    MaxWrites = 1
    MaxCrashes = 0
SYMMETRY Symmetry
PROPERTY
    ReplacedDatabaseIsStored
