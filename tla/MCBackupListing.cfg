CONSTANTS
    MaxPageSize = 2
    DefaultPageSize = 1
    MaxPages = 3
    LatestPageSize = 1
    Keep = 2
    MaxId = 3
    Folders <- SmallFolders
    MaxArrivals = 1
    MaxRemovals = 1

SPECIFICATION Spec
INVARIANTS
    TypeOK
    ListingComplete
    LatestIsNewest
    RetentionKeeps
    RetentionCatchesUp
    CandidatesAreTheSet
