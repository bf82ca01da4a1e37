----------------------------- MODULE SparseSet -----------------------------
(***************************************************************************)
(* csics::sim::ecs::SparseSet: the components of one type, packed in       *)
(* dense_ with the entities they belong to in entities_, and found through *)
(* sparse_, which is indexed by entity id.                                 *)
(*                                                                         *)
(* A set is a record.  Places in dense_ count from 1, and Absent stands    *)
(* for numeric_limits<size_t>::max() in sparse_.                           *)
(***************************************************************************)
EXTENDS Naturals, Sequences

CONSTANTS
    N,        \* ids a set has room for: sparse_.size()
    Nothing   \* what at() returns for an entity that has no component here

ASSUME SparseSetAssumption == N \in Nat \ {0}

Absent == 0

Ids == 0..N - 1

EmptySet == [dense |-> <<>>, sparse |-> [id \in Ids |-> Absent], entities |-> <<>>]

Contains(set, e) == set.sparse[e.id] # Absent

\* Fault: a component that is there already is kept.
InsertIfAbsent(set, e, component) ==
    IF Contains(set, e)
    THEN set
    ELSE [dense    |-> Append(set.dense, component),
          sparse   |-> [set.sparse EXCEPT ![e.id] = Len(set.dense) + 1],
          entities |-> Append(set.entities, e)]

\* insert: a component that is there already is overwritten; entities_ keeps the
\* entity, generation included, that was inserted first.
Insert(set, e, component) ==
    IF Contains(set, e)
    THEN [set EXCEPT !.dense[set.sparse[e.id]] = component]
    ELSE [dense    |-> Append(set.dense, component),
          sparse   |-> [set.sparse EXCEPT ![e.id] = Len(set.dense) + 1],
          entities |-> Append(set.entities, e)]

\* at: the component of e, if the entity that put it here has e's generation.
At(set, e) ==
    IF Contains(set, e) /\ set.entities[set.sparse[e.id]].generation = e.generation
    THEN set.dense[set.sparse[e.id]]
    ELSE Nothing

\* Fault: the entity that moves into the gap is not indexed again.
RemoveNoReindex(set, e) ==
    LET k    == set.sparse[e.id]
        last == Len(set.dense)
    IN  IF e.id >= N \/ ~Contains(set, e)
        THEN set
        ELSE [dense    |-> SubSeq([set.dense EXCEPT ![k] = set.dense[last]], 1, last - 1),
              sparse   |-> [set.sparse EXCEPT ![e.id] = Absent],
              entities |-> SubSeq([set.entities EXCEPT ![k] = set.entities[last]], 1, last - 1)]

\* remove: the last component moves into the gap.
Remove(set, e) ==
    LET k    == set.sparse[e.id]
        last == Len(set.dense)
        lastEntity == set.entities[last]
    IN  IF e.id >= N \/ ~Contains(set, e)
        THEN set
        ELSE [dense    |-> SubSeq([set.dense EXCEPT ![k] = set.dense[last]], 1, last - 1),
              sparse   |-> [set.sparse EXCEPT ![lastEntity.id] = k, ![e.id] = Absent],
              entities |-> SubSeq([set.entities EXCEPT ![k] = lastEntity], 1, last - 1)]

\* sparse_ and entities_ are inverse to each other, and dense_ is as long.
Consistent(set) ==
    /\ Len(set.dense) = Len(set.entities)
    /\ \A id \in Ids : set.sparse[id] # Absent =>
          /\ set.sparse[id] \in 1..Len(set.entities)
          /\ set.entities[set.sparse[id]].id = id
    /\ \A k \in 1..Len(set.entities) : set.sparse[set.entities[k].id] = k
=============================================================================
