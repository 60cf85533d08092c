CONSTANTS
    Attempts = 3
    BaseDelay = 1
    MaxDelay = 2
    Frames = 3

SPECIFICATION FairSpec
INVARIANTS
    TypeOK
    DownloadIntact
    AcceptedIsReceived
PROPERTY
    DownloadEnds
