\* Fewer tasks wait for others than there are workers.
SPECIFICATION FairSpec
CONSTANTS
    Workers = {w1, w2}
    Clients = {c1, c2}
    NoTask = NoTask
    forkJoin = forkJoin
    forkOnly = forkOnly
    plain = plain
    joined = joined
    forked = forked
    Tasks <- MCTasks
    Roots <- MCRoots
    Child <- MCChild
    Awaiting <- MCAwaiting
INVARIANTS
    TypeOK
    NoTaskLost
    RunsOnce
    NoLostWakeup
PROPERTIES
    ImplementsChannel
    EveryTaskFinishes
    DestructorReturns
\* The pool is gone once its destructor has returned.
CHECK_DEADLOCK FALSE
