\* Two threads; messages of one size whose stride does not divide the capacity.
SPECIFICATION Spec
CONSTANTS
    kCacheLineSize = 4
    HeaderSize = 1
    Capacity = 32
    Sizes = {9}
    Exclusive = FALSE
    MaxMessages = 4
    MaxDrops = 0
INVARIANTS
    HeldSlotIsNextMessage
