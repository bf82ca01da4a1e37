\* Two unsynchronised threads; every message takes one cache line, as the messages
\* of the repository's queues do.  4 lines of 4 header words each.
SPECIFICATION FairSpec
CONSTANTS
    kCacheLineSize = 4
    HeaderSize = 1
    Capacity = 16
    Sizes = {0, 2, 3, 17}
    Exclusive = FALSE
    MaxMessages = 5
    MaxDrops = 1
    SlotStride = 4
    Slots = 4
INVARIANTS
    TypeOK
    IInv
    HeldSlotIsNextMessage
    NoDataRace
    IndicesWithinOneLap
PROPERTIES
    FullOnlyWhenOccupied
    EmptyOnlyWhenDrained
    ImplementsChannel
    EveryMessageReceived
