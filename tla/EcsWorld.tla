------------------------------ MODULE EcsWorld ------------------------------
(***************************************************************************)
(* csics::sim::ecs::StaticWorld and its WorldContext: entities, their      *)
(* components in sparse sets, and layers of systems that ask for changes   *)
(* which the world makes when the layer ends.                              *)
(*                                                                         *)
(* The systems of a layer run one after the other, as with                 *)
(* SingleThreadedExecutor, the one executor that satisfies the Executor    *)
(* concept.  What a system does with the values of components is left out; *)
(* what it asks its context for is not.                                    *)
(*                                                                         *)
(* The n-th call of add_entity creates entity n for the caller, who holds  *)
(* the handle created[n].  alive and owned are what the callers asked for, *)
(* in the order they did.                                                  *)
(***************************************************************************)
EXTENDS SparseSet, FiniteSets

CONSTANTS
    Components,   \* the registered component types
    Values,       \* values of a component
    Systems,      \* number of systems in a layer
    Discipline,   \* what the callers take care of, see below
    MaxEntities,  \* bound: calls of add_entity
    MaxCalls,     \* bound: other calls in all
    MaxLayers     \* bound: layers run

\* "strip": an entity's components are removed before the entity is.
\* "oneOwner": an entity is named by one system of a layer, and then not by the hook.
\* "buildOnce": a system that removes a component of an entity it has created in this
\*   layer adds none to it any more.
\* Callers never use the handle of an entity they have removed.
ASSUME WorldAssumption ==
    /\ Nothing \notin Values
    /\ Systems \in Nat \ {0}
    /\ Discipline \subseteq {"strip", "oneOwner", "buildOnce"}
    /\ MaxEntities \in Nat /\ MaxCalls \in Nat /\ MaxLayers \in Nat

VARIABLES
    entities, deadEntities, generations,
    sets,              \* components_
    phase,             \* "outside" of run, in the "systems" or the "hook" of a layer,
                       \* or "apply" while the deferred calls are made
    turn,              \* the system that runs, or whose context is applied
    deferredEntities, deferredActions,  \* of each system's context
    failed,            \* the assertion that failed, or "none"
    created, alive, owned,
    touched,           \* the system that named an entity in this layer, or 0
    stripped,          \* the entities created in this layer that lost a component
    calls, layers

worldVars == <<entities, deadEntities, generations, sets>>
runVars   == <<phase, turn, deferredEntities, deferredActions>>
callerVars == <<created, alive, owned, touched, stripped, calls, layers>>
vars == <<worldVars, runVars, failed, callerVars>>

System == 1..Systems

NoContext == [s \in System |-> <<>>]

Init ==
    /\ entities = <<>> /\ deadEntities = <<>> /\ generations = <<>>
    /\ sets = [c \in Components |-> EmptySet]
    /\ phase = "outside" /\ turn = 1
    /\ deferredEntities = NoContext /\ deferredActions = NoContext
    /\ failed = "none"
    /\ created = <<>> /\ alive = {} /\ owned = <<>>
    /\ touched = <<>> /\ stripped = {}
    /\ calls = 0 /\ layers = 0

-----------------------------------------------------------------------------
(***************************************************************************)
(* StaticWorld's own operations.                                           *)
(***************************************************************************)
\* Fault: ids count from one.
NewIdFromOne == Len(entities) + 1

NewId == Len(entities)

\* Fault: the id at the other end is used.
RecycledFirst == deadEntities[1]

RecycledId == deadEntities[Len(deadEntities)]

\* add_entity: a recycled id gets the generation that is stored for it before it is
\* incremented, a new id generation 0.
NewEntity ==
    IF deadEntities # <<>>
    THEN [id |-> RecycledId, generation |-> generations[RecycledId + 1]]
    ELSE [id |-> NewId, generation |-> 0]

AddEntityToWorld ==
    /\ entities' = Append(entities, NewEntity)
    /\ IF deadEntities # <<>>
       THEN /\ generations' = [generations EXCEPT ![RecycledId + 1] = @ + 1]
            /\ deadEntities' = SubSeq(deadEntities, 1, Len(deadEntities) - 1)
       ELSE /\ generations' = Append(generations, 0)
            /\ UNCHANGED deadEntities

\* The place of an entity in entities_: looked up by id alone.
InWorld(e) == \E i \in 1..Len(entities) : entities[i].id = e.id

\* Fault: the last entity is dropped, whichever is asked for.
PlaceOfLast(e) == Len(entities)

PlaceOf(e) == CHOOSE i \in 1..Len(entities) :
                 entities[i].id = e.id /\ \A j \in 1..i - 1 : entities[j].id # e.id

AddComponentToWorld(e, c, v) ==
    IF e.id < N
    THEN sets' = [sets EXCEPT ![c] = Insert(@, e, v)] /\ UNCHANGED failed
    ELSE failed' = "insert: Entity ID exceeds maximum capacity" /\ UNCHANGED sets

RemoveComponentFromWorld(e, c) == sets' = [sets EXCEPT ![c] = Remove(@, e)]

\* remove_entity: the sets it removes e from are copies (make_tuple), so the
\* world's own sets keep the components.
RemoveEntityFromWorld(e) ==
    IF InWorld(e)
    THEN LET i == PlaceOf(e) IN
         /\ deadEntities' = Append(deadEntities, e.id)
         /\ entities' = SubSeq(entities, 1, i - 1) \o SubSeq(entities, i + 1, Len(entities))
         /\ UNCHANGED <<generations, sets, failed>>
    ELSE failed' = "Entity not found in world entities." /\ UNCHANGED worldVars

-----------------------------------------------------------------------------
(***************************************************************************)
(* What the callers know: their entities, and what they asked for them.    *)
(***************************************************************************)
CallerCreates(s) ==
    /\ created' = Append(created, NewEntity)
    /\ alive' = alive \cup {Len(created) + 1}
    /\ owned' = Append(owned, [c \in Components |-> Nothing])
    /\ touched' = Append(touched, s)

CallerSets(n, c, v) == owned' = [owned EXCEPT ![n][c] = v]

\* Whoever runs after a system of the same layer may still find the entities it destroyed.
MayName(n, s) ==
    /\ n \in alive \/ touched[n] \notin {0, s}
    /\ "oneOwner" \in Discipline => touched[n] \in {0, s}

MayDestroy(n) == "strip" \in Discipline => \A c \in Components : owned[n][c] = Nothing

\* A direct call, from outside run or from a layer's hook.
Direct == failed = "none" /\ phase \in {"outside", "hook"}

AddEntity ==
    /\ Direct
    /\ Len(created) < MaxEntities
    /\ AddEntityToWorld
    /\ CallerCreates(0)
    /\ UNCHANGED <<sets, runVars, failed, stripped, calls, layers>>

AddComponent(n, c, v) ==
    /\ Direct /\ calls < MaxCalls /\ MayName(n, 0)
    /\ AddComponentToWorld(created[n], c, v)
    /\ CallerSets(n, c, v)
    /\ calls' = calls + 1
    /\ UNCHANGED <<entities, deadEntities, generations, runVars, created, alive, touched,
                   stripped, layers>>

RemoveComponent(n, c) ==
    /\ Direct /\ calls < MaxCalls /\ MayName(n, 0)
    /\ RemoveComponentFromWorld(created[n], c)
    /\ CallerSets(n, c, Nothing)
    /\ calls' = calls + 1
    /\ UNCHANGED <<entities, deadEntities, generations, runVars, failed, created, alive, touched,
                   stripped, layers>>

RemoveEntity(n) ==
    /\ Direct /\ calls < MaxCalls /\ MayName(n, 0) /\ MayDestroy(n)
    /\ RemoveEntityFromWorld(created[n])
    /\ alive' = alive \ {n}
    /\ touched' = [touched EXCEPT ![n] = 0]
    /\ calls' = calls + 1
    /\ UNCHANGED <<runVars, created, owned, stripped, layers>>

-----------------------------------------------------------------------------
(***************************************************************************)
(* run: one layer.  A context adds entities to the world at once and       *)
(* defers the rest, checking that the entity is there at the time of the   *)
(* call.                                                                   *)
(***************************************************************************)
BeginLayer ==
    /\ failed = "none" /\ phase = "outside" /\ layers < MaxLayers
    /\ phase' = "systems" /\ turn' = 1
    /\ layers' = layers + 1
    /\ deferredEntities' = NoContext /\ deferredActions' = NoContext
    /\ touched' = [n \in DOMAIN touched |-> 0]
    /\ stripped' = {}
    /\ UNCHANGED <<worldVars, failed, created, alive, owned, calls>>

InSystem(s) == failed = "none" /\ phase = "systems" /\ turn = s

Defer(s, action) == deferredActions' = [deferredActions EXCEPT ![s] = Append(@, action)]

ContextAddEntity(s) ==
    /\ InSystem(s)
    /\ Len(created) < MaxEntities
    /\ AddEntityToWorld
    /\ deferredEntities' =
          [deferredEntities EXCEPT ![s] = Append(@, [entity |-> NewEntity, components |-> <<>>])]
    /\ CallerCreates(s)
    /\ UNCHANGED <<sets, phase, turn, deferredActions, failed, stripped, calls, layers>>

\* The entity among those this context has created, by id.
DeferredAt(s, e) ==
    {i \in 1..Len(deferredEntities[s]) : deferredEntities[s][i].entity.id = e.id}

ContextAddComponent(s, n, c, v) ==
    LET e  == created[n]
        at == DeferredAt(s, e)
    IN  /\ InSystem(s) /\ calls < MaxCalls /\ MayName(n, s)
        /\ "buildOnce" \in Discipline => n \notin stripped
        /\ \/ /\ at # {}
              /\ \E i \in at :
                    /\ \A j \in at : i <= j
                    /\ deferredEntities' =
                          [deferredEntities EXCEPT ![s][i].components =
                              Append(@, [type |-> c, value |-> v])]
              /\ UNCHANGED <<deferredActions, failed>>
           \/ /\ at = {} /\ InWorld(e)
              /\ Defer(s, [do |-> "add", entity |-> e, type |-> c, value |-> v])
              /\ UNCHANGED <<deferredEntities, failed>>
           \/ /\ at = {} /\ ~InWorld(e)
              /\ failed' = "Entity not found in deferred entities or world entities"
              /\ UNCHANGED <<deferredEntities, deferredActions>>
        /\ CallerSets(n, c, v)
        /\ touched' = [touched EXCEPT ![n] = s]
        /\ calls' = calls + 1
        /\ UNCHANGED <<worldVars, phase, turn, created, alive, stripped, layers>>

ContextRemoveComponent(s, n, c) ==
    LET e == created[n] IN
    /\ InSystem(s) /\ calls < MaxCalls /\ MayName(n, s)
    /\ IF InWorld(e)
       THEN /\ Defer(s, [do |-> "remove", entity |-> e, type |-> c, value |-> Nothing])
            /\ UNCHANGED failed
       ELSE failed' = "Entity not found in world entities." /\ UNCHANGED deferredActions
    /\ CallerSets(n, c, Nothing)
    /\ touched' = [touched EXCEPT ![n] = s]
    /\ stripped' = IF DeferredAt(s, e) = {} THEN stripped ELSE stripped \cup {n}
    /\ calls' = calls + 1
    /\ UNCHANGED <<worldVars, phase, turn, deferredEntities, created, alive, layers>>

ContextDestroyEntity(s, n) ==
    LET e == created[n] IN
    /\ InSystem(s) /\ calls < MaxCalls /\ MayName(n, s) /\ MayDestroy(n)
    /\ IF InWorld(e)
       THEN /\ Defer(s, [do |-> "destroy", entity |-> e, type |-> "none", value |-> Nothing])
            /\ UNCHANGED failed
       ELSE failed' = "Entity not found in world entities." /\ UNCHANGED deferredActions
    /\ alive' = alive \ {n}
    /\ touched' = [touched EXCEPT ![n] = s]
    /\ calls' = calls + 1
    /\ UNCHANGED <<worldVars, phase, turn, deferredEntities, created, owned, stripped, layers>>

EndSystem(s) ==
    /\ InSystem(s)
    /\ IF s < Systems THEN turn' = s + 1 /\ UNCHANGED phase ELSE turn' = 1 /\ phase' = "hook"
    /\ UNCHANGED <<worldVars, deferredEntities, deferredActions, failed, callerVars>>

EndHook ==
    /\ failed = "none" /\ phase = "hook"
    /\ phase' = "apply"
    /\ UNCHANGED <<worldVars, turn, deferredEntities, deferredActions, failed, callerVars>>

-----------------------------------------------------------------------------
(***************************************************************************)
(* The deferred calls, context by context: first the components of the     *)
(* entities the context has created, then its other calls in order.        *)
(***************************************************************************)
Applying == failed = "none" /\ phase = "apply"

ApplyToNewEntity ==
    /\ Applying /\ deferredEntities[turn] # <<>>
    /\ LET d == Head(deferredEntities[turn]) IN
       IF d.components = <<>>
       THEN /\ deferredEntities' = [deferredEntities EXCEPT ![turn] = Tail(@)]
            /\ UNCHANGED <<sets, failed>>
       ELSE /\ AddComponentToWorld(d.entity, Head(d.components).type, Head(d.components).value)
            /\ deferredEntities' = [deferredEntities EXCEPT ![turn][1].components = Tail(@)]
    /\ UNCHANGED <<entities, deadEntities, generations, phase, turn, deferredActions, callerVars>>

ApplyAction ==
    /\ Applying /\ deferredEntities[turn] = <<>> /\ deferredActions[turn] # <<>>
    /\ LET a == Head(deferredActions[turn]) IN
       \/ /\ a.do = "add"
          /\ AddComponentToWorld(a.entity, a.type, a.value)
          /\ UNCHANGED <<entities, deadEntities, generations>>
       \/ /\ a.do = "remove"
          /\ RemoveComponentFromWorld(a.entity, a.type)
          /\ UNCHANGED <<entities, deadEntities, generations, failed>>
       \/ /\ a.do = "destroy"
          /\ RemoveEntityFromWorld(a.entity)
    /\ deferredActions' = [deferredActions EXCEPT ![turn] = Tail(@)]
    /\ UNCHANGED <<phase, turn, deferredEntities, callerVars>>

NextContext ==
    /\ Applying /\ deferredEntities[turn] = <<>> /\ deferredActions[turn] = <<>>
    /\ IF turn < Systems
       THEN turn' = turn + 1 /\ UNCHANGED <<phase, touched>>
       ELSE /\ turn' = 1 /\ phase' = "outside"
            /\ touched' = [n \in DOMAIN touched |-> 0]
    /\ UNCHANGED <<worldVars, deferredEntities, deferredActions, failed, created, alive, owned,
                   stripped, calls, layers>>

-----------------------------------------------------------------------------
Next ==
    \/ AddEntity
    \/ \E n \in 1..Len(created), c \in Components :
          RemoveComponent(n, c) \/ \E v \in Values : AddComponent(n, c, v)
    \/ \E n \in 1..Len(created) : RemoveEntity(n)
    \/ BeginLayer
    \/ \E s \in System :
          \/ ContextAddEntity(s)
          \/ \E n \in 1..Len(created), c \in Components :
                \/ \E v \in Values : ContextAddComponent(s, n, c, v)
                \/ ContextRemoveComponent(s, n, c)
          \/ \E n \in 1..Len(created) : ContextDestroyEntity(s, n)
          \/ EndSystem(s)
    \/ EndHook \/ ApplyToNewEntity \/ ApplyAction \/ NextContext

Spec == Init /\ [][Next]_vars

-----------------------------------------------------------------------------
\* get_component: what handle e has of component c, or Nothing, which the code asserts
\* is not there.
GetComponent(c, e) == At(sets[c], e)

(***************************************************************************)
(* A view over several component types.                                    *)
(***************************************************************************)
SmallestOf(cs) ==
    CHOOSE c \in cs : \A d \in cs : Len(sets[c].entities) <= Len(sets[d].entities)

\* Fault: one component is enough.
MatchesAny(cs, e) == \E c \in cs : Contains(sets[c], e)

Matches(cs, e) == \A c \in cs : Contains(sets[c], e)

ViewEntities(cs) == sets[SmallestOf(cs)].entities

\* The places of the smallest set at which an iteration stops, one after the other:
\* those whose entity every set contains, by id.
ViewPlaces(cs) ==
    {i \in 1..Len(ViewEntities(cs)) : Matches(cs, ViewEntities(cs)[i])}

-----------------------------------------------------------------------------
EntityType == [id : 0..MaxEntities - 1, generation : 0..MaxEntities]

SetEntityType == [id : Ids, generation : 0..MaxEntities]

SetType == [dense : Seq(Values), sparse : [Ids -> Nat], entities : Seq(SetEntityType)]

DeferredEntityType ==
    [entity : EntityType, components : Seq([type : Components, value : Values])]

ActionType ==
    [do : {"add"}, entity : EntityType, type : Components, value : Values]
        \cup [do : {"remove"}, entity : EntityType, type : Components, value : {Nothing}]
        \cup [do : {"destroy"}, entity : EntityType, type : {"none"}, value : {Nothing}]

WorldTypeOK ==
    /\ entities \in Seq(EntityType)
    /\ deadEntities \in Seq(0..MaxEntities - 1)
    /\ generations \in Seq(0..MaxEntities)
    /\ sets \in [Components -> SetType]

RunTypeOK ==
    /\ phase \in {"outside", "systems", "hook", "apply"}
    /\ turn \in System
    /\ deferredEntities \in [System -> Seq(DeferredEntityType)]
    /\ deferredActions \in [System -> Seq(ActionType)]

CallerTypeOK ==
    /\ created \in Seq(EntityType)
    /\ alive \subseteq 1..Len(created)
    /\ owned \in Seq([Components -> Values \cup {Nothing}]) /\ Len(owned) = Len(created)
    /\ touched \in Seq(0..Systems) /\ Len(touched) = Len(created)

\* Types of the variables; in particular the bounds of ids and generations.
TypeOK == WorldTypeOK /\ RunTypeOK /\ CallerTypeOK

\* Every sparse set stays a bijection between the ids that have the component and the
\* places of dense_, through any order of insertions, overwrites and removals, with
\* current and with outdated handles: no lookup leaves the arrays or meets another id.
SetsConsistent == \A c \in Components : Consistent(sets[c])

\* An id is in use by one entity of the world, or free once, and never both; since
\* there are as many places as ids, every id handed out so far is one of the two.
IdsPartitioned ==
    /\ Len(entities) + Len(deadEntities) = Len(generations)
    /\ \A i, j \in 1..Len(entities) : entities[i].id = entities[j].id => i = j
    /\ \A i, j \in 1..Len(deadEntities) : deadEntities[i] = deadEntities[j] => i = j
    /\ \A i \in 1..Len(entities), j \in 1..Len(deadEntities) :
          entities[i].id # deadEntities[j]
    /\ \A i \in 1..Len(entities) : entities[i].id \in 0..Len(generations) - 1
    /\ \A j \in 1..Len(deadEntities) : deadEntities[j] \in 0..Len(generations) - 1

\* Outside run, all that was asked for has been done and nothing else has: each
\* entity of the world has, through its own handle, the components its callers gave
\* it last and no others, whatever was created, destroyed and deferred in between.
ComponentsAgree ==
    phase = "outside" =>
        /\ \A n \in alive : InWorld(created[n])
        /\ Len(entities) = Cardinality(alive)
        /\ \A n \in alive, c \in Components :
              GetComponent(c, created[n]) = owned[n][c]

\* The weaker half of it that get_component asserts: a component that was added is
\* found (World.hpp:84-85).
AddedComponentFound ==
    phase = "outside" =>
        \A n \in alive, c \in Components :
            owned[n][c] # Nothing => GetComponent(c, created[n]) # Nothing

\* A view yields exactly the entities of the world that have all its components, each
\* once.
ViewExact ==
    phase = "outside" =>
        \A cs \in (SUBSET Components) \ {{}} :
            LET having == {n \in alive : \A c \in cs : owned[n][c] # Nothing}
                places == ViewPlaces(cs)
            IN  /\ {ViewEntities(cs)[i] : i \in places} = {created[n] : n \in having}
                /\ Cardinality(places) = Cardinality(having)

\* No assertion of the world, its contexts or its sets fails (World.hpp:112-113,
\* 287-289, 307-308, 316-317, SparseSet.hpp:34-37).
AssertionsHold == failed = "none"
=============================================================================
