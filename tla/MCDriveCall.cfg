CONSTANTS
    Attempts = 4
    BaseDelay = 3
    MaxDelay = 8
    Called = {"upload", "delete", "get", "list", "list_page"}

SPECIFICATION FairSpec
INVARIANTS
    TypeOK
    BackoffBounded
PROPERTIES
    ImplementsPort
    CallEnds
