\* Callers that take care: ids are reused, views and lookups are exact.
SPECIFICATION Spec
CONSTANTS
    N = 3
    Nothing = Nothing
    Components = {A, B}
    Values = {v1, v2}
    Systems = 2
    Discipline = {"strip", "oneOwner", "buildOnce"}
    MaxEntities = 3
    MaxCalls = 4
    MaxLayers = 1
INVARIANTS
    TypeOK
    SetsConsistent
    IdsPartitioned
    ComponentsAgree
    ViewExact
    AssertionsHold
SYMMETRY Symmetry
CHECK_DEADLOCK FALSE
