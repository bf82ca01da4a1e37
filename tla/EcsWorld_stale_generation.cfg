\* Callers remove entities that still have components: once an id is used for the
\* third time, its generation is not the one in the sparse set.
SPECIFICATION Spec
CONSTANTS
    N = 3
    Nothing = Nothing
    Components = {A}
    Values = {v1}
    Systems = 1
    Discipline = {"oneOwner", "buildOnce"}
    MaxEntities = 3
    MaxCalls = 4
    MaxLayers = 1
INVARIANTS
    AddedComponentFound
CHECK_DEADLOCK FALSE
