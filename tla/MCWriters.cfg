SPECIFICATION Spec
CONSTANTS
    c1 = c1
    c2 = c2
    c3 = c3
    NoCall = NoCall
    Calls <- ThreeCalls
    Retention = 2
    PageSize = 2
    MaxPages = 4
    LatestWindow = 4
    Targets = {0}
    Ops = {"create", "restore"}
    InitFiles <- CrowdedFolder
    FirstId = 8
    InitDb = 10
    MaxWrites = 1
    MaxCrashes = 1
SYMMETRY Symmetry
INVARIANTS
    OverwritesWhatItSaved
    SafetyCopyStored
    LatestNotOlder
PROPERTY
    RetentionKeepsNewest
