CONSTANTS
    Clients = {c1, c2}
    Readers = {c1}
    Chunks = 3
    Buffer = 2

SPECIFICATION StreamFairSpec
INVARIANTS
    StreamTypeOK
    StreamWhole
    ReceivedInOrder
PROPERTIES
    FileRemoved
    StreamEnds
    ShutdownEnds
