SPECIFICATION Spec
CONSTANTS
    kCacheLineSize = 4
    HeaderSize = 2
    Capacity = 64
    Sizes = {8, 65}
    Exclusive = TRUE
    MaxMessages = 17
    MaxDrops = 0
PROPERTIES
    ImplementsChannel
