\* One thread, or a mutex around every acquire..commit pair; messages of several sizes.
SPECIFICATION Spec
CONSTANTS
    kCacheLineSize = 4
    HeaderSize = 1
    Capacity = 16
    Sizes = {2, 9}
    Exclusive = TRUE
    MaxMessages = 6
    MaxDrops = 0
INVARIANTS
    HeldSlotIsNextMessage
