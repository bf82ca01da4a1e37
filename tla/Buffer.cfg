\* Two buffers of up to three elements, both kinds of T, four policies.
SPECIFICATION Spec
CONSTANTS
    Names = {b1, b2}
    Values = {v1, v2}
    Default = v1
    Raw = Raw
    Moved = Moved
    Broken = Broken
    Freed = Freed
    NoBuffer = NoBuffer
    Unspecified = Unspecified
    Policies = {"Exact", "FiftyPercent", "PowerOfTwo", "CacheAligned"}
    LineSize = 2
    Discipline = {"sized", "swap", "moved", "alias", "range"}
    MaxSize = 3
INVARIANTS
    TypeOK
    LifetimesExact
PROPERTIES
    ImplementsLists
SYMMETRY Symmetry
CHECK_DEADLOCK FALSE
