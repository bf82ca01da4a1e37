\* Four messages in two topics, three published, a queue of two.
SPECIFICATION Spec
CONSTANTS
    ab = ab
    a = a
    None = None
    Topics <- MCTopics
    Shortened <- MCShortened
    Capacity = 2
    LengthGiven = {TRUE, FALSE}
    Discipline = {"fresh", "alone", "room"}
    MaxArrivals = 4
    MaxPublished = 3
INVARIANTS
    TypeOK
    OwnedOnce
    ReceivedInOrder
    PendingExact
CHECK_DEADLOCK FALSE
