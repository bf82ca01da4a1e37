\* A careful application, two retunes besides the first, a queue of three blocks;
\* streams that pad (0) and one that does not (2).
SPECIFICATION FairSpec
CONSTANTS
    QueueBlocks = 3
    Lengths = {0, 2}
    WholeLengths = {2}
    Careful = TRUE
    MaxTunes = 3
    MaxStarts = 2
INVARIANTS
    TypeOK
    UnlockFlagKept
    ThreadsWithinLifetime
PROPERTIES
    StopReturns
    LockReported
CHECK_DEADLOCK FALSE
