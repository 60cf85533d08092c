CONSTANTS
    Objects = {o1, o2}
    MaxCalls = 3

SPECIFICATION FairSpec
INVARIANTS
    TypeOK
    RestoreAtomic
    RestoredStays
    DumpIsSnapshot
    AbortedLeavesNoTrace
PROPERTIES
    ImplementsDatabase
    CallEnds
