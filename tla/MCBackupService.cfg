SPECIFICATION FairSpec
CONSTANTS
    c1 = c1
    c2 = c2
    c3 = c3
    NoCall = NoCall
    Calls <- TwoCalls
    Retention = 1
    PageSize = 2
    MaxPages = 3
    LatestWindow = 1
    Targets = {0, 1, 2, 4}
    Ops = {"create", "restore", "download"}
    InitFiles <- ForeignFolder
    FirstId = 5
    InitDb = 10
    MaxWrites = 1
    MaxCrashes = 1
INVARIANTS
    TypeOK
    LockOwned
    StatusTellsEffect
    RestoresWhatWasAsked
    TempFilesFollowCalls
PROPERTY
    WritersFinish
