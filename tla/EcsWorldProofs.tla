---------------------------- MODULE EcsWorldProofs ----------------------------
(***************************************************************************)
(* For every capacity, number of systems, discipline of the callers and    *)
(* order of calls: the variables of EcsWorld keep their types, every       *)
(* sparse set stays a bijection, and no id is in use twice.  If the        *)
(* callers take care and there is room, no assertion fails, and the world  *)
(* and its views have what the callers asked for.                          *)
(***************************************************************************)
EXTENDS EcsWorld, SequenceTheorems, FunctionTheorems, FiniteSetTheorems, TLAPS

\* Ids and generations are bounded by the number of entities ever created.
CountsBounded ==
    /\ Len(created) <= MaxEntities
    /\ Len(generations) <= Len(created)
    /\ \A k \in 1..Len(generations) : generations[k] <= Len(created)

\* The inductive invariant.
EcsInv == TypeOK /\ CountsBounded /\ SetsConsistent /\ IdsPartitioned

\* What ASSUME says of the constants, in the parts the proofs use.
LEMMA EcsConstants ==
    N \in Nat \ {0} /\ Systems \in Nat \ {0} /\ MaxEntities \in Nat
BY SparseSetAssumption, WorldAssumption

-----------------------------------------------------------------------------
(***************************************************************************)
(* The sparse set.                                                         *)
(***************************************************************************)
LEMMA EmptySetFits == EmptySet \in SetType /\ Consistent(EmptySet)
<1>1. EmptySet.sparse \in [Ids -> Nat] /\ EmptySet.dense = <<>> /\ EmptySet.entities = <<>>
  BY DEF EmptySet, Absent
<1>2. EmptySet \in SetType
  BY DEF EmptySet, SetType, Absent
<1>3. \A id \in Ids : EmptySet.sparse[id] = Absent
  BY DEF EmptySet
<1> QED BY <1>1, <1>2, <1>3 DEF Consistent

\* insert keeps a set consistent.
LEMMA InsertFits ==
    ASSUME NEW set \in SetType, Consistent(set),
           NEW e \in EntityType, e.id < N, NEW v \in Values
    PROVE  Insert(set, e, v) \in SetType /\ Consistent(Insert(set, e, v))
<1> USE EcsConstants
<1>1. /\ e.id \in Ids /\ e \in SetEntityType
      /\ set.dense \in Seq(Values) /\ set.sparse \in [Ids -> Nat]
      /\ set.entities \in Seq(SetEntityType)
      /\ Len(set.dense) \in Nat /\ Len(set.dense) = Len(set.entities)
  BY DEF SetType, EntityType, SetEntityType, Ids, Consistent
<1>2. CASE Contains(set, e)
  <2> DEFINE new == [set EXCEPT !.dense[set.sparse[e.id]] = v]
  <2>1. set.sparse[e.id] \in 1..Len(set.dense)
    BY <1>1, <1>2 DEF Contains, Consistent
  <2>2. /\ new.dense \in Seq(Values) /\ Len(new.dense) = Len(set.dense)
        /\ new.sparse = set.sparse /\ new.entities = set.entities
    BY <1>1, <2>1 DEF SetType
  <2>3. new \in SetType
    BY <1>1, <2>2 DEF SetType
  <2>4. Consistent(new)
    BY <1>1, <2>2 DEF Consistent
  <2> QED BY <1>2, <2>3, <2>4 DEF Insert
<1>3. CASE ~Contains(set, e)
  <2> DEFINE new == Insert(set, e, v)
             k   == Len(set.entities) + 1
  <2>1. /\ new.dense = Append(set.dense, v)
        /\ new.sparse = [set.sparse EXCEPT ![e.id] = k]
        /\ new.entities = Append(set.entities, e)
        /\ new = [dense |-> new.dense, sparse |-> new.sparse, entities |-> new.entities]
    BY <1>1, <1>3 DEF Insert
  <2> HIDE DEF new
  <2>2. new.dense \in Seq(Values) /\ Len(new.dense) = k
    BY <1>1, <2>1
  <2>3. /\ new.sparse \in [Ids -> Nat] /\ new.sparse[e.id] = k
        /\ \A id \in Ids \ {e.id} : new.sparse[id] = set.sparse[id]
    BY <1>1, <2>1
  <2>4. /\ new.entities \in Seq(SetEntityType)
        /\ Len(new.entities) = k /\ new.entities[k] = e
        /\ \A i \in 1..k - 1 : new.entities[i] = set.entities[i]
    BY <1>1, <2>1, AppendProperties
  <2>5. new \in SetType
    BY <2>1, <2>2, <2>3, <2>4 DEF SetType
  <2>6. \A i \in 1..k - 1 :
           set.entities[i].id \in Ids \ {e.id} /\ set.sparse[set.entities[i].id] = i
    <3> SUFFICES ASSUME NEW i \in 1..k - 1
                 PROVE  /\ set.entities[i].id \in Ids \ {e.id}
                        /\ set.sparse[set.entities[i].id] = i
        OBVIOUS
    <3>1. i \in 1..Len(set.entities)
      BY <1>1
    <3>2. set.entities[i] \in SetEntityType
      BY <1>1, <3>1, ElementOfSeq
    <3>3. set.sparse[set.entities[i].id] = i
      BY <3>1 DEF Consistent
    <3>4. set.entities[i].id # e.id
      BY <1>3, <3>1, <3>3 DEF Contains, Absent
    <3> QED BY <3>2, <3>3, <3>4 DEF SetEntityType
  <2>7. ASSUME NEW id \in Ids, new.sparse[id] # Absent
        PROVE  new.sparse[id] \in 1..k /\ new.entities[new.sparse[id]].id = id
    <3>1. CASE id = e.id
      <4>1. k \in 1..k
        BY <1>1
      <4> QED BY <2>3, <2>4, <3>1, <4>1
    <3>2. CASE id # e.id
      <4>1. set.sparse[id] \in 1..k - 1 /\ set.entities[set.sparse[id]].id = id
        BY <1>1, <2>3, <2>7, <3>2 DEF Consistent
      <4>2. new.sparse[id] = set.sparse[id]
        BY <2>3, <3>2
      <4>3. set.sparse[id] \in 1..k
        BY <1>1, <4>1
      <4> QED BY <2>4, <4>1, <4>2, <4>3
    <3> QED BY <3>1, <3>2
  <2>8. ASSUME NEW i \in 1..k
        PROVE  new.sparse[new.entities[i].id] = i
    <3>1. CASE i = k
      BY <2>3, <2>4, <3>1
    <3>2. CASE i # k
      <4>1. i \in 1..k - 1
        BY <1>1, <3>2
      <4> QED BY <2>3, <2>4, <2>6, <4>1
    <3> QED BY <3>1, <3>2
  <2>9. Consistent(new)
    BY <2>2, <2>4, <2>7, <2>8 DEF Consistent
  <2> QED BY <2>5, <2>9 DEF new
<1> QED BY <1>2, <1>3

\* remove keeps a set consistent, also when the last component goes.
LEMMA RemoveFits ==
    ASSUME NEW set \in SetType, Consistent(set), NEW e \in EntityType
    PROVE  Remove(set, e) \in SetType /\ Consistent(Remove(set, e))
<1> USE EcsConstants
<1>1. CASE e.id >= N \/ ~Contains(set, e)
  BY <1>1 DEF Remove
<1>2. CASE ~(e.id >= N \/ ~Contains(set, e))
  <2>1. /\ e.id \in Ids
        /\ set.dense \in Seq(Values) /\ set.sparse \in [Ids -> Nat]
        /\ set.entities \in Seq(SetEntityType)
        /\ Len(set.dense) \in Nat /\ Len(set.dense) = Len(set.entities)
    BY <1>2 DEF SetType, EntityType, Ids, Consistent
  <2>2. \A id \in Ids : set.sparse[id] # Absent =>
           set.sparse[id] \in 1..Len(set.dense) /\ set.entities[set.sparse[id]].id = id
    BY <2>1 DEF Consistent
  <2>3. ASSUME NEW i \in 1..Len(set.dense)
        PROVE  /\ set.entities[i] \in SetEntityType
               /\ set.entities[i].id \in Ids /\ set.sparse[set.entities[i].id] = i
    <3>1. set.entities[i] \in SetEntityType
      BY <2>1, ElementOfSeq
    <3> QED BY <2>1, <3>1 DEF Consistent, SetEntityType
  <2>4. PICK k \in 1..Len(set.dense) : k = set.sparse[e.id] /\ set.entities[k].id = e.id
    BY <1>2, <2>1, <2>2 DEF Contains
  <2>5. PICK last \in 1..Len(set.dense) : last = Len(set.dense)
    BY <2>1
  <2>6. PICK lastEntity \in SetEntityType :
            lastEntity = set.entities[last] /\ set.sparse[lastEntity.id] = last
    BY <2>3
  <2> DEFINE new == Remove(set, e)
  <2>7. /\ new.dense = SubSeq([set.dense EXCEPT ![k] = set.dense[last]], 1, last - 1)
        /\ new.sparse = [set.sparse EXCEPT ![lastEntity.id] = k, ![e.id] = Absent]
        /\ new.entities = SubSeq([set.entities EXCEPT ![k] = lastEntity], 1, last - 1)
        /\ new = [dense |-> new.dense, sparse |-> new.sparse, entities |-> new.entities]
    BY <1>2, <2>4, <2>5, <2>6 DEF Remove
  <2> HIDE DEF new
  <2>8. new.dense \in Seq(Values) /\ Len(new.dense) = last - 1
    <3>1. /\ [set.dense EXCEPT ![k] = set.dense[last]] \in Seq(Values)
          /\ Len([set.dense EXCEPT ![k] = set.dense[last]]) = last
      BY <2>1, <2>4, <2>5
    <3> QED BY <2>5, <2>7, <3>1
  <2>9. /\ new.entities \in Seq(SetEntityType)
        /\ Len(new.entities) = last - 1
        /\ \A i \in 1..last - 1 :
              new.entities[i] = IF i = k THEN lastEntity ELSE set.entities[i]
    <3> DEFINE moved == [set.entities EXCEPT ![k] = lastEntity]
    <3>1. /\ moved \in Seq(SetEntityType)
          /\ Len(moved) = last
          /\ \A i \in 1..last : moved[i] = IF i = k THEN lastEntity ELSE set.entities[i]
      BY <2>1, <2>4, <2>5, <2>6, ExceptSeq
    <3>2. new.entities = SubSeq(moved, 1, last - 1)
      BY <2>7
    <3> HIDE DEF moved
    <3>3. /\ 1 \in Int /\ last - 1 \in Int
          /\ \A i \in 1..last - 1 : i \in 1..Len(moved) /\ moved[i] \in SetEntityType
      BY <2>5, <3>1, ElementOfSeq
    <3> QED BY <2>5, <3>1, <3>2, <3>3, SubSeqProperties
  <2>10. /\ new.sparse \in [Ids -> Nat]
         /\ \A id \in Ids : new.sparse[id] =
               IF id = e.id THEN Absent ELSE IF id = lastEntity.id THEN k ELSE set.sparse[id]
    <3>1. lastEntity.id \in Ids /\ k \in Nat /\ Absent \in Nat
      BY <2>1, <2>4, <2>6 DEF Absent, SetEntityType
    <3> QED BY <2>1, <2>7, <3>1
  <2>11. new \in SetType
    BY <2>7, <2>8, <2>9, <2>10 DEF SetType
  <2>12. ASSUME NEW id \in Ids, new.sparse[id] # Absent
         PROVE  new.sparse[id] \in 1..last - 1 /\ new.entities[new.sparse[id]].id = id
    <3>1. id # e.id
      BY <2>10, <2>12
    <3>2. CASE id = lastEntity.id
      <4>1. new.sparse[id] = k
        BY <2>10, <3>1, <3>2
      <4>2. k # last
        BY <2>4, <2>6, <3>1, <3>2
      <4> QED BY <2>5, <2>9, <3>2, <4>1, <4>2
    <3>3. CASE id # lastEntity.id
      <4>1. new.sparse[id] = set.sparse[id] /\ set.sparse[id] # Absent
        BY <2>10, <2>12, <3>1, <3>3
      <4>2. set.sparse[id] # last /\ set.sparse[id] # k
        BY <2>2, <2>4, <2>6, <3>1, <3>3, <4>1
      <4>3. set.sparse[id] \in 1..last - 1 /\ set.entities[set.sparse[id]].id = id
        BY <2>2, <2>5, <4>1, <4>2
      <4> QED BY <2>9, <4>1, <4>2, <4>3
    <3> QED BY <3>2, <3>3
  <2>13. ASSUME NEW i \in 1..last - 1
         PROVE  new.sparse[new.entities[i].id] = i
    <3>1. CASE i = k
      <4>1. lastEntity.id # e.id
        BY <2>4, <2>5, <2>6, <3>1
      <4> QED BY <2>6, <2>9, <2>10, <3>1, <4>1 DEF SetEntityType
    <3>2. CASE i # k
      <4>1. new.entities[i] = set.entities[i]
        BY <2>9, <3>2
      <4>2. i \in 1..Len(set.dense) /\ i # last
        BY <2>5
      <4>3. set.entities[i].id # e.id /\ set.entities[i].id # lastEntity.id
        BY <2>3, <2>4, <2>6, <3>2, <4>2
      <4> QED BY <2>3, <2>10, <4>1, <4>2, <4>3
    <3> QED BY <3>1, <3>2
  <2>14. Consistent(new)
    BY <2>8, <2>9, <2>12, <2>13 DEF Consistent
  <2> QED BY <2>11, <2>14 DEF new
<1> QED BY <1>1, <1>2

-----------------------------------------------------------------------------
(***************************************************************************)
(* The world's own operations.                                             *)
(***************************************************************************)
LEMMA NewEntityFits ==
    ASSUME EcsInv, Len(created) < MaxEntities
    PROVE  NewEntity \in EntityType
<1>1. /\ MaxEntities \in Nat
      /\ entities \in Seq(EntityType) /\ deadEntities \in Seq(0..MaxEntities - 1)
      /\ generations \in Seq(0..MaxEntities)
      /\ Len(entities) \in Nat /\ Len(deadEntities) \in Nat /\ Len(generations) \in Nat
      /\ Len(created) \in Nat
  BY EcsConstants DEF EcsInv, TypeOK, WorldTypeOK, CallerTypeOK
<1>2. CASE deadEntities # <<>>
  <2>1. Len(deadEntities) \in 1..Len(deadEntities)
    BY <1>1, <1>2, EmptySeq
  <2>2. RecycledId \in 0..Len(generations) - 1 /\ RecycledId \in 0..MaxEntities - 1
    BY <1>1, <2>1, ElementOfSeq DEF EcsInv, IdsPartitioned, RecycledId
  <2>3. generations[RecycledId + 1] \in 0..MaxEntities
    BY <1>1, <2>2, ElementOfSeq
  <2> QED BY <1>2, <2>2, <2>3 DEF NewEntity, EntityType
<1>3. CASE deadEntities = <<>>
  <2>1. Len(entities) \in 0..MaxEntities - 1
    BY <1>1, <1>3 DEF EcsInv, IdsPartitioned, CountsBounded
  <2> QED BY <1>1, <1>3, <2>1 DEF NewEntity, NewId, EntityType
<1> QED BY <1>2, <1>3

\* What holds of the arrays when an entity is added, with a recycled id or a new one.
LEMMA AddedEntityFits ==
    ASSUME EcsInv, Len(created) < MaxEntities, AddEntityToWorld
    PROVE  /\ entities' \in Seq(EntityType) /\ Len(entities') = Len(entities) + 1
           /\ \A i \in 1..Len(entities) : entities'[i] = entities[i]
           /\ entities'[Len(entities) + 1] = NewEntity
<1>1. entities \in Seq(EntityType)
  BY DEF EcsInv, TypeOK, WorldTypeOK
<1>2. entities' = Append(entities, NewEntity)
  BY DEF AddEntityToWorld
<1> QED BY <1>1, <1>2, NewEntityFits, AppendProperties

LEMMA RecycledFits ==
    ASSUME EcsInv, Len(created) < MaxEntities, AddEntityToWorld, deadEntities # <<>>,
           Len(created') = Len(created) + 1
    PROVE  /\ deadEntities' \in Seq(0..MaxEntities - 1)
           /\ generations' \in Seq(0..MaxEntities)
           /\ CountsBounded' /\ IdsPartitioned'
<1>1. /\ MaxEntities \in Nat /\ Len(entities) \in Nat /\ Len(deadEntities) \in Nat
      /\ Len(generations) \in Nat /\ Len(created) \in Nat
  BY EcsConstants DEF EcsInv, TypeOK, WorldTypeOK, CallerTypeOK
<1>2. deadEntities \in Seq(0..MaxEntities - 1) /\ generations \in Seq(0..MaxEntities)
  BY DEF EcsInv, TypeOK, WorldTypeOK
<1>3. PICK last \in Nat \ {0} : last = Len(deadEntities)
  BY <1>1, <1>2, EmptySeq
<1>4. PICK n \in Nat : n = Len(entities)
  BY <1>1
<1>5. PICK g \in Nat : g = Len(generations)
  BY <1>1
<1>6. n + last = g
  BY <1>3, <1>4, <1>5 DEF EcsInv, IdsPartitioned
<1>7. \A i, j \in 1..n : entities[i].id = entities[j].id => i = j
  BY <1>4 DEF EcsInv, IdsPartitioned
<1>8. \A i, j \in 1..last : deadEntities[i] = deadEntities[j] => i = j
  BY <1>3 DEF EcsInv, IdsPartitioned
<1>9. \A i \in 1..n, j \in 1..last : entities[i].id # deadEntities[j]
  BY <1>3, <1>4 DEF EcsInv, IdsPartitioned
<1>10. /\ \A i \in 1..n : entities[i].id \in 0..g - 1
       /\ \A j \in 1..last : deadEntities[j] \in 0..g - 1
  BY <1>3, <1>4, <1>5 DEF EcsInv, IdsPartitioned
<1>11. last \in 1..last /\ RecycledId = deadEntities[last] /\ NewEntity.id = RecycledId
       /\ RecycledId \in 0..g - 1
  <2>1. last \in 1..last
    BY <1>3
  <2> QED BY <2>1, <1>3, <1>10 DEF RecycledId, NewEntity
<1>12. PICK k \in 1..g : k = RecycledId + 1
  BY <1>5, <1>11
<1>13. \A i \in 1..g : generations[i] \in 0..MaxEntities /\ generations[i] <= Len(created)
  BY <1>2, <1>5, ElementOfSeq DEF EcsInv, CountsBounded
<1>14. generations[k] + 1 \in 0..MaxEntities
  BY <1>1, <1>13
<1>15. generations' = [generations EXCEPT ![k] = generations[k] + 1]
  BY <1>12 DEF AddEntityToWorld
<1>16. /\ generations' \in Seq(0..MaxEntities) /\ Len(generations') = g
       /\ \A i \in 1..g : generations'[i] = IF i = k THEN generations[k] + 1 ELSE generations[i]
  BY <1>2, <1>5, <1>14, <1>15, ExceptSeq
<1>17. CountsBounded'
  <2>1. Len(created) + 1 <= MaxEntities /\ g <= Len(created) + 1
    BY <1>1, <1>5 DEF EcsInv, CountsBounded
  <2>2. ASSUME NEW i \in 1..g
        PROVE  generations'[i] <= Len(created) + 1
    <3>1. /\ generations[i] \in Nat /\ generations[i] <= Len(created)
          /\ generations[k] \in Nat /\ generations[k] <= Len(created)
      BY <1>1, <1>13
    <3>2. CASE i = k
      BY <1>1, <1>16, <3>1, <3>2
    <3>3. CASE i # k
      <4>1. generations'[i] = generations[i]
        BY ONLY <1>16, <3>3, i \in 1..g
      <4>2. Len(created) \in Nat
        BY <1>1
      <4> QED BY ONLY <3>1, <4>1, <4>2
    <3> QED BY <3>2, <3>3
  <2> QED BY <1>16, <2>1, <2>2 DEF CountsBounded
<1>18. /\ deadEntities' \in Seq(0..MaxEntities - 1) /\ Len(deadEntities') = last - 1
       /\ \A j \in 1..last - 1 : deadEntities'[j] = deadEntities[j]
  <2>1. deadEntities' = SubSeq(deadEntities, 1, last - 1)
    BY <1>3 DEF AddEntityToWorld
  <2>2. ASSUME NEW j \in 1..last - 1
        PROVE  deadEntities[j] \in 0..MaxEntities - 1
    <3>1. j \in 1..Len(deadEntities)
      BY <1>3
    <3> QED BY <1>2, <3>1, ElementOfSeq
  <2>3. 1 \in Int /\ last - 1 \in Int
    BY <1>3
  <2>4. /\ deadEntities' \in Seq(0..MaxEntities - 1)
        /\ Len(deadEntities') = IF 1 <= last - 1 THEN (last - 1) - 1 + 1 ELSE 0
        /\ \A j \in 1..(last - 1) - 1 + 1 : deadEntities'[j] = deadEntities[1 + j - 1]
    BY <2>1, <2>2, <2>3, SubSeqProperties
  <2>5. Len(deadEntities') = last - 1
    BY <1>3, <2>4
  <2>6. ASSUME NEW j \in 1..last - 1
        PROVE  deadEntities'[j] = deadEntities[j]
    <3>1. j \in 1..(last - 1) - 1 + 1 /\ 1 + j - 1 = j
      BY <1>3
    <3> QED BY <2>4, <3>1
  <2> QED BY <2>4, <2>5, <2>6
<1>19. /\ Len(entities') = n + 1
       /\ \A i \in 1..n : entities'[i] = entities[i]
       /\ entities'[n + 1].id = deadEntities[last]
  BY <1>4, <1>11, AddedEntityFits
<1>20. IdsPartitioned'
  <2>1. Len(entities') + Len(deadEntities') = Len(generations')
    BY <1>6, <1>16, <1>18, <1>19
  <2>2. ASSUME NEW i \in 1..n + 1, NEW j \in 1..n + 1, entities'[i].id = entities'[j].id
        PROVE  i = j
    <3>1. i \in 1..n \/ i = n + 1
      OBVIOUS
    <3>2. j \in 1..n \/ j = n + 1
      OBVIOUS
    <3>3. CASE i \in 1..n /\ j \in 1..n
      BY ONLY <1>7, <1>19, <2>2, <3>3
    <3>4. CASE i \in 1..n /\ j = n + 1
      BY ONLY <1>9, <1>11, <1>19, <2>2, <3>4
    <3>5. CASE i = n + 1 /\ j \in 1..n
      BY ONLY <1>9, <1>11, <1>19, <2>2, <3>5
    <3>6. CASE i = n + 1 /\ j = n + 1
      BY ONLY <3>6
    <3> QED BY ONLY <3>1, <3>2, <3>3, <3>4, <3>5, <3>6
  <2>3. \A j \in 1..last - 1 : j \in 1..last /\ j # last
    BY <1>3
  <2>4. ASSUME NEW i \in 1..last - 1, NEW j \in 1..last - 1, deadEntities'[i] = deadEntities'[j]
        PROVE  i = j
    BY <1>8, <1>18, <2>3, <2>4
  <2>5. ASSUME NEW i \in 1..n + 1, NEW j \in 1..last - 1
        PROVE  entities'[i].id # deadEntities'[j]
    <3>1. i \in 1..n \/ i = n + 1
      OBVIOUS
    <3> QED BY <1>8, <1>9, <1>11, <1>18, <1>19, <2>3, <3>1
  <2>6. ASSUME NEW i \in 1..n + 1
        PROVE  entities'[i].id \in 0..g - 1
    <3>1. i \in 1..n \/ i = n + 1
      OBVIOUS
    <3> QED BY <1>10, <1>11, <1>19, <3>1
  <2>7. ASSUME NEW j \in 1..last - 1
        PROVE  deadEntities'[j] \in 0..g - 1
    BY <1>10, <1>18, <2>3
  <2> QED BY <1>16, <1>18, <1>19, <2>1, <2>2, <2>4, <2>5, <2>6, <2>7
          DEF IdsPartitioned
<1> QED BY <1>16, <1>17, <1>18, <1>20

LEMMA NewIdFits ==
    ASSUME EcsInv, Len(created) < MaxEntities, AddEntityToWorld, deadEntities = <<>>,
           Len(created') = Len(created) + 1
    PROVE  /\ deadEntities' \in Seq(0..MaxEntities - 1)
           /\ generations' \in Seq(0..MaxEntities)
           /\ CountsBounded' /\ IdsPartitioned'
<1>1. /\ MaxEntities \in Nat /\ Len(created) \in Nat /\ Len(deadEntities) = 0
  BY EcsConstants DEF EcsInv, TypeOK, CallerTypeOK
<1>2. deadEntities \in Seq(0..MaxEntities - 1) /\ generations \in Seq(0..MaxEntities)
  BY DEF EcsInv, TypeOK, WorldTypeOK
<1>3. PICK n \in Nat : n = Len(entities) /\ n = Len(generations)
  <2>1. Len(entities) \in Nat /\ Len(generations) \in Nat
    BY DEF EcsInv, TypeOK, WorldTypeOK
  <2> QED BY <1>1, <2>1 DEF EcsInv, IdsPartitioned
<1>4. /\ \A i, j \in 1..n : entities[i].id = entities[j].id => i = j
      /\ \A i \in 1..n : entities[i].id \in 0..n - 1
  BY <1>3 DEF EcsInv, IdsPartitioned
<1>5. deadEntities' = deadEntities /\ generations' = Append(generations, 0)
  BY DEF AddEntityToWorld
<1>6. /\ generations' \in Seq(0..MaxEntities) /\ Len(generations') = n + 1
      /\ \A i \in 1..n : generations'[i] = generations[i]
      /\ generations'[n + 1] = 0
  <2>1. 0 \in 0..MaxEntities
    BY <1>1
  <2> QED BY <1>2, <1>3, <1>5, <2>1, AppendProperties
<1>7. CountsBounded'
  <2>1. Len(created) + 1 <= MaxEntities /\ n + 1 <= Len(created) + 1
    BY <1>1, <1>3 DEF EcsInv, CountsBounded
  <2>2. ASSUME NEW i \in 1..n + 1
        PROVE  generations'[i] <= Len(created) + 1
    <3>1. CASE i = n + 1
      BY <1>1, <1>6, <3>1
    <3>2. CASE i # n + 1
      <4>1. i \in 1..n
        BY <3>2
      <4>2. generations[i] \in 0..MaxEntities /\ generations[i] <= Len(created)
        BY <1>2, <1>3, <4>1, ElementOfSeq DEF EcsInv, CountsBounded
      <4> QED BY <1>1, <1>6, <4>1, <4>2
    <3> QED BY <3>1, <3>2
  <2> QED BY <1>6, <2>1, <2>2 DEF CountsBounded
<1>8. /\ Len(entities') = n + 1
      /\ \A i \in 1..n : entities'[i] = entities[i]
      /\ entities'[n + 1].id = n
  BY <1>3, AddedEntityFits DEF NewEntity, NewId
<1>9. IdsPartitioned'
  <2>1. \A i \in 1..n + 1 : i \in 1..n \/ i = n + 1
    OBVIOUS
  <2>2. ASSUME NEW i \in 1..n + 1, NEW j \in 1..n + 1, entities'[i].id = entities'[j].id
        PROVE  i = j
    BY <1>4, <1>8, <2>1, <2>2
  <2>3. ASSUME NEW i \in 1..n + 1
        PROVE  entities'[i].id \in 0..(n + 1) - 1
    BY <1>4, <1>8, <2>1
  <2> QED BY <1>1, <1>5, <1>6, <1>8, <2>2, <2>3 DEF IdsPartitioned
<1> QED BY <1>2, <1>5, <1>6, <1>7, <1>9

\* An id taken from the free list, or a new one, is in use nowhere else.
LEMMA AddEntityFits ==
    ASSUME EcsInv, Len(created) < MaxEntities, AddEntityToWorld,
           created' = Append(created, NewEntity)
    PROVE  /\ entities' \in Seq(EntityType) /\ deadEntities' \in Seq(0..MaxEntities - 1)
           /\ generations' \in Seq(0..MaxEntities) /\ created' \in Seq(EntityType)
           /\ Len(created') = Len(created) + 1
           /\ CountsBounded' /\ IdsPartitioned'
<1>1. created' \in Seq(EntityType) /\ Len(created') = Len(created) + 1
  <2>1. created \in Seq(EntityType)
    BY DEF EcsInv, TypeOK, CallerTypeOK
  <2> QED BY <2>1, NewEntityFits, AppendProperties
<1> QED BY <1>1, AddedEntityFits, RecycledFits, NewIdFits

\* erase: the sequence without its i-th element.
LEMMA ErasedFits ==
    ASSUME NEW S, NEW s \in Seq(S), NEW i \in 1..Len(s)
    PROVE  LET t == SubSeq(s, 1, i - 1) \o SubSeq(s, i + 1, Len(s))
           IN  /\ t \in Seq(S) /\ Len(t) = Len(s) - 1
               /\ \A j \in 1..Len(s) - 1 : t[j] = IF j < i THEN s[j] ELSE s[j + 1]
<1>1. PICK n \in Nat \ {0} : n = Len(s)
  OBVIOUS
<1>2. \A j \in 1..n : s[j] \in S
  BY <1>1, ElementOfSeq
<1>3. PICK a \in Seq(S) : /\ a = SubSeq(s, 1, i - 1) /\ Len(a) = i - 1
                          /\ \A j \in 1..i - 1 : a[j] = s[j]
  <2>1. 1 \in Int /\ i - 1 \in Int /\ \A j \in 1..i - 1 : s[j] \in S
    BY <1>1, <1>2
  <2>2. /\ SubSeq(s, 1, i - 1) \in Seq(S)
        /\ Len(SubSeq(s, 1, i - 1)) = IF 1 <= i - 1 THEN (i - 1) - 1 + 1 ELSE 0
        /\ \A j \in 1..(i - 1) - 1 + 1 : SubSeq(s, 1, i - 1)[j] = s[1 + j - 1]
    BY <2>1, SubSeqProperties
  <2>3. Len(SubSeq(s, 1, i - 1)) = i - 1
    BY <1>1, <2>2
  <2>4. ASSUME NEW j \in 1..i - 1
        PROVE  SubSeq(s, 1, i - 1)[j] = s[j]
    <3>1. j \in 1..(i - 1) - 1 + 1 /\ 1 + j - 1 = j
      BY <1>1
    <3> QED BY <2>2, <3>1
  <2> QED BY <2>2, <2>3, <2>4
<1>4. PICK b \in Seq(S) : /\ b = SubSeq(s, i + 1, n) /\ Len(b) = n - i
                          /\ \A j \in 1..n - i : b[j] = s[i + j]
  <2>1. i + 1 \in Int /\ n \in Int /\ \A j \in i + 1..n : s[j] \in S
    BY <1>1, <1>2
  <2>2. /\ SubSeq(s, i + 1, n) \in Seq(S)
        /\ Len(SubSeq(s, i + 1, n)) = IF i + 1 <= n THEN n - (i + 1) + 1 ELSE 0
        /\ \A j \in 1..n - (i + 1) + 1 : SubSeq(s, i + 1, n)[j] = s[(i + 1) + j - 1]
    BY <2>1, SubSeqProperties
  <2>3. Len(SubSeq(s, i + 1, n)) = n - i
    BY <1>1, <2>2
  <2>4. ASSUME NEW j \in 1..n - i
        PROVE  SubSeq(s, i + 1, n)[j] = s[i + j]
    <3>1. j \in 1..n - (i + 1) + 1 /\ (i + 1) + j - 1 = i + j
      BY <1>1
    <3> QED BY <2>2, <3>1
  <2> QED BY <2>2, <2>3, <2>4
<1>5. /\ a \o b \in Seq(S) /\ Len(a \o b) = (i - 1) + (n - i)
      /\ \A j \in 1..(i - 1) + (n - i) : (a \o b)[j] = IF j <= i - 1 THEN a[j] ELSE b[j - (i - 1)]
  BY <1>3, <1>4, ConcatProperties
<1>6. Len(a \o b) = n - 1
  BY <1>1, <1>5
<1>7. ASSUME NEW j \in 1..n - 1
      PROVE  (a \o b)[j] = IF j < i THEN s[j] ELSE s[j + 1]
  <2>1. (a \o b)[j] = IF j <= i - 1 THEN a[j] ELSE b[j - (i - 1)]
    BY <1>1, <1>5
  <2>2. CASE j < i
    <3>1. j \in 1..i - 1 /\ j <= i - 1
      BY <1>1, <2>2
    <3> QED BY <1>3, <2>1, <2>2, <3>1
  <2>3. CASE ~(j < i)
    <3>1. ~(j <= i - 1) /\ j - (i - 1) \in 1..n - i /\ i + (j - (i - 1)) = j + 1
      BY <1>1, <2>3
    <3> QED BY <1>4, <2>1, <2>3, <3>1
  <2> QED BY <2>2, <2>3
<1> QED BY <1>1, <1>3, <1>4, <1>5, <1>6, <1>7

\* remove_entity moves one id from the world to the free list.
LEMMA RemoveEntityFits ==
    ASSUME EcsInv, NEW e \in EntityType, RemoveEntityFromWorld(e)
    PROVE  /\ entities' \in Seq(EntityType) /\ deadEntities' \in Seq(0..MaxEntities - 1)
           /\ generations' = generations /\ sets' = sets
           /\ IdsPartitioned'
<1>1. /\ entities \in Seq(EntityType) /\ deadEntities \in Seq(0..MaxEntities - 1)
      /\ IdsPartitioned
  BY DEF EcsInv, TypeOK, WorldTypeOK
<1>2. CASE ~InWorld(e)
  <2>1. UNCHANGED worldVars
    BY <1>2 DEF RemoveEntityFromWorld
  <2> QED BY <1>1, <2>1 DEF worldVars, IdsPartitioned
<1>3. CASE InWorld(e)
  <2>1. PICK n \in Nat, d \in Nat, g \in Nat :
            n = Len(entities) /\ d = Len(deadEntities) /\ g = Len(generations)
    BY DEF EcsInv, TypeOK, WorldTypeOK
  <2>2. /\ n + d = g
        /\ \A i, j \in 1..n : entities[i].id = entities[j].id => i = j
        /\ \A i, j \in 1..d : deadEntities[i] = deadEntities[j] => i = j
        /\ \A i \in 1..n, j \in 1..d : entities[i].id # deadEntities[j]
        /\ \A i \in 1..n : entities[i].id \in 0..g - 1
        /\ \A j \in 1..d : deadEntities[j] \in 0..g - 1
    BY <1>1, <2>1 DEF IdsPartitioned
  <2>3. PICK p \in 1..n : entities[p].id = e.id
    BY <1>3, <2>1 DEF InWorld
  <2>4. PlaceOf(e) = p
    <3>1. \A i \in 1..n : entities[i].id = e.id <=> i = p
      BY <2>2, <2>3
    <3>2. \A j \in 1..p - 1 : j \in 1..n /\ j # p
      BY <2>3
    <3> QED BY <2>1, <3>1, <3>2 DEF PlaceOf
  <2>5. /\ deadEntities' = Append(deadEntities, e.id)
        /\ entities' = SubSeq(entities, 1, p - 1) \o SubSeq(entities, p + 1, Len(entities))
        /\ UNCHANGED <<generations, sets>>
    BY <1>3, <2>4 DEF RemoveEntityFromWorld
  <2>6. /\ deadEntities' \in Seq(0..MaxEntities - 1) /\ Len(deadEntities') = d + 1
        /\ \A j \in 1..d : deadEntities'[j] = deadEntities[j]
        /\ deadEntities'[d + 1] = e.id
    <3>1. e.id \in 0..MaxEntities - 1
      BY DEF EntityType
    <3> QED BY <1>1, <2>1, <2>5, <3>1, AppendProperties
  <2>7. /\ entities' \in Seq(EntityType) /\ Len(entities') = n - 1
        /\ \A j \in 1..n - 1 : entities'[j] = IF j < p THEN entities[j] ELSE entities[j + 1]
    BY <1>1, <2>1, <2>5, ErasedFits
  <2>8. \A j \in 1..n - 1 : \E k \in 1..n :
            /\ entities'[j] = entities[k] /\ k # p
            /\ k = IF j < p THEN j ELSE j + 1
    <3> SUFFICES ASSUME NEW j \in 1..n - 1
                 PROVE  \E k \in 1..n : /\ entities'[j] = entities[k] /\ k # p
                                        /\ k = IF j < p THEN j ELSE j + 1
      OBVIOUS
    <3>1. CASE j < p
      <4>1. j \in 1..n
        OBVIOUS
      <4> QED BY <2>7, <3>1, <4>1
    <3>2. CASE ~(j < p)
      <4>1. j + 1 \in 1..n /\ j + 1 # p
        BY <3>2
      <4> QED BY <2>7, <3>2, <4>1
    <3> QED BY <3>1, <3>2
  <2>9. ASSUME NEW i \in 1..n - 1, NEW j \in 1..n - 1, entities'[i].id = entities'[j].id
        PROVE  i = j
    <3>1. PICK k \in 1..n : entities'[i] = entities[k] /\ k = IF i < p THEN i ELSE i + 1
      BY <2>8
    <3>2. PICK l \in 1..n : entities'[j] = entities[l] /\ l = IF j < p THEN j ELSE j + 1
      BY <2>8
    <3>3. k = l
      BY <2>2, <2>9, <3>1, <3>2
    <3> QED BY <3>1, <3>2, <3>3
  <2>10. \A j \in 1..d + 1 : j \in 1..d \/ j = d + 1
    OBVIOUS
  <2>11. ASSUME NEW i \in 1..d + 1, NEW j \in 1..d + 1, deadEntities'[i] = deadEntities'[j]
         PROVE  i = j
    BY <2>2, <2>3, <2>6, <2>10, <2>11
  <2>12. ASSUME NEW i \in 1..n - 1, NEW j \in 1..d + 1
         PROVE  entities'[i].id # deadEntities'[j]
    <3>1. PICK k \in 1..n : entities'[i] = entities[k] /\ k # p
      BY <2>8
    <3> QED BY SMTT(30), <2>2, <2>3, <2>6, <2>10, <3>1
  <2>13. ASSUME NEW i \in 1..n - 1
         PROVE  entities'[i].id \in 0..g - 1
    BY <2>2, <2>8
  <2>14. ASSUME NEW j \in 1..d + 1
         PROVE  deadEntities'[j] \in 0..g - 1
    BY <2>2, <2>3, <2>6, <2>10
  <2>15. Len(entities') + Len(deadEntities') = g /\ Len(generations') = g
    <3>1. Len(generations') = g
      BY <2>1, <2>5
    <3>2. (n - 1) + (d + 1) = g
      BY <2>2
    <3> QED BY <2>6, <2>7, <3>1, <3>2
  <2>16. IdsPartitioned'
    BY <2>6, <2>7, <2>9, <2>11, <2>12, <2>13, <2>14, <2>15 DEF IdsPartitioned
  <2> QED BY <2>5, <2>6, <2>7, <2>16
<1> QED BY <1>2, <1>3

LEMMA AddComponentFits ==
    ASSUME EcsInv, NEW e \in EntityType, NEW c \in Components, NEW v \in Values,
           AddComponentToWorld(e, c, v)
    PROVE  sets' \in [Components -> SetType] /\ SetsConsistent'
<1>1. sets \in [Components -> SetType] /\ \A d \in Components : Consistent(sets[d])
  BY DEF EcsInv, TypeOK, WorldTypeOK, SetsConsistent
<1>2. CASE e.id < N
  <2>1. sets' = [sets EXCEPT ![c] = Insert(sets[c], e, v)]
    BY <1>2 DEF AddComponentToWorld
  <2>2. Insert(sets[c], e, v) \in SetType /\ Consistent(Insert(sets[c], e, v))
    BY <1>1, <1>2, InsertFits
  <2> QED BY <1>1, <2>1, <2>2 DEF SetsConsistent
<1>3. CASE ~(e.id < N)
  BY <1>1, <1>3 DEF AddComponentToWorld, SetsConsistent
<1> QED BY <1>2, <1>3

LEMMA RemoveComponentFits ==
    ASSUME EcsInv, NEW e \in EntityType, NEW c \in Components, RemoveComponentFromWorld(e, c)
    PROVE  sets' \in [Components -> SetType] /\ SetsConsistent'
<1>1. sets \in [Components -> SetType] /\ \A d \in Components : Consistent(sets[d])
  BY DEF EcsInv, TypeOK, WorldTypeOK, SetsConsistent
<1>2. sets' = [sets EXCEPT ![c] = Remove(sets[c], e)]
  BY DEF RemoveComponentFromWorld
<1>3. Remove(sets[c], e) \in SetType /\ Consistent(Remove(sets[c], e))
  BY <1>1, RemoveFits
<1> QED BY <1>1, <1>2, <1>3 DEF SetsConsistent

-----------------------------------------------------------------------------
(***************************************************************************)
(* The callers' variables.                                                 *)
(***************************************************************************)
OwnedType == [Components -> Values \cup {Nothing}]

LEMMA CreatedFits ==
    ASSUME EcsInv, NEW n \in 1..Len(created)
    PROVE  created[n] \in EntityType
BY ElementOfSeq DEF EcsInv, TypeOK, CallerTypeOK

LEMMA CallerCreatesFits ==
    ASSUME EcsInv, NEW s \in 0..Systems, CallerCreates(s),
           created' \in Seq(EntityType), Len(created') = Len(created) + 1
    PROVE  CallerTypeOK'
<1>1. /\ alive \subseteq 1..Len(created) /\ Len(created) \in Nat
      /\ owned \in Seq(OwnedType) /\ Len(owned) = Len(created)
      /\ touched \in Seq(0..Systems) /\ Len(touched) = Len(created)
  BY DEF EcsInv, TypeOK, CallerTypeOK, OwnedType
<1>2. alive' \subseteq 1..Len(created')
  <2>1. alive' = alive \cup {Len(created) + 1}
    BY DEF CallerCreates
  <2>2. \A n \in 1..Len(created) \cup {Len(created) + 1} : n \in 1..Len(created')
    BY <1>1
  <2> QED BY <1>1, <2>1, <2>2
<1>3. owned' \in Seq(OwnedType) /\ Len(owned') = Len(created')
  <2>1. [c \in Components |-> Nothing] \in OwnedType
    BY DEF OwnedType
  <2> QED BY <1>1, <2>1, AppendProperties DEF CallerCreates
<1>4. touched' \in Seq(0..Systems) /\ Len(touched') = Len(created')
  BY <1>1, AppendProperties DEF CallerCreates
<1> QED BY <1>2, <1>3, <1>4 DEF CallerTypeOK, OwnedType

LEMMA CallerSetsFits ==
    ASSUME EcsInv, NEW n \in 1..Len(created), NEW c \in Components,
           NEW v \in Values \cup {Nothing}, CallerSets(n, c, v)
    PROVE  owned' \in Seq(OwnedType) /\ Len(owned') = Len(created)
<1>1. owned \in Seq(OwnedType) /\ Len(owned) = Len(created)
  BY DEF EcsInv, TypeOK, CallerTypeOK, OwnedType
<1>2. n \in 1..Len(owned) /\ owned[n] \in OwnedType
  BY <1>1, ElementOfSeq
<1>3. [owned[n] EXCEPT ![c] = v] \in OwnedType
  BY <1>2 DEF OwnedType
<1>4. owned' = [owned EXCEPT ![n] = [owned[n] EXCEPT ![c] = v]]
  BY DEF CallerSets
<1> QED BY <1>1, <1>2, <1>3, <1>4, ExceptSeq

LEMMA TouchedFits ==
    ASSUME EcsInv, NEW n \in 1..Len(created), NEW s \in 0..Systems,
           touched' = [touched EXCEPT ![n] = s]
    PROVE  touched' \in Seq(0..Systems) /\ Len(touched') = Len(created)
<1>1. touched \in Seq(0..Systems) /\ n \in 1..Len(touched) /\ Len(touched) = Len(created)
  BY DEF EcsInv, TypeOK, CallerTypeOK
<1> QED BY <1>1, ExceptSeq

LEMMA UntouchedFits ==
    ASSUME EcsInv, touched' = [n \in DOMAIN touched |-> 0]
    PROVE  touched' \in Seq(0..Systems) /\ Len(touched') = Len(created)
<1>1. touched \in Seq(0..Systems) /\ Len(touched) = Len(created) /\ 0 \in 0..Systems
  BY EcsConstants DEF EcsInv, TypeOK, CallerTypeOK
<1>2. DOMAIN touched = 1..Len(touched) /\ Len(touched) \in Nat
  BY <1>1
<1>3. touched' = [n \in 1..Len(touched) |-> 0]
  BY <1>2
<1>4. \A n \in 1..Len(touched) : 0 \in 0..Systems
  BY <1>1
<1> QED BY <1>1, <1>2, <1>3, <1>4

-----------------------------------------------------------------------------
(***************************************************************************)
(* The actions.                                                            *)
(***************************************************************************)
LEMMA EcsInvInit == Init => EcsInv
<1> SUFFICES ASSUME Init PROVE EcsInv
  OBVIOUS
<1> USE EcsConstants
<1>1. /\ entities = <<>> /\ deadEntities = <<>> /\ generations = <<>> /\ created = <<>>
      /\ owned = <<>> /\ touched = <<>> /\ alive = {}
      /\ sets = [c \in Components |-> EmptySet]
      /\ phase = "outside" /\ turn = 1
      /\ deferredEntities = NoContext /\ deferredActions = NoContext
  BY DEF Init
<1>2. \A S : <<>> \in Seq(S) /\ Len(<<>>) = 0
  BY EmptySeq
<1>3. WorldTypeOK
  BY <1>1, <1>2, EmptySetFits DEF WorldTypeOK
<1>4. RunTypeOK
  <2>1. turn \in System
    BY <1>1 DEF System
  <2>2. /\ NoContext \in [System -> Seq(DeferredEntityType)]
        /\ NoContext \in [System -> Seq(ActionType)]
    BY <1>2 DEF NoContext
  <2> QED BY <1>1, <2>1, <2>2 DEF RunTypeOK
<1>5. CallerTypeOK
  BY <1>1, <1>2 DEF CallerTypeOK
<1>6. CountsBounded
  BY <1>1, <1>2 DEF CountsBounded
<1>7. SetsConsistent
  BY <1>1, EmptySetFits DEF SetsConsistent
<1>8. IdsPartitioned
  BY <1>1, <1>2 DEF IdsPartitioned
<1> QED BY <1>3, <1>4, <1>5, <1>6, <1>7, <1>8 DEF EcsInv, TypeOK

\* Steps that leave the world alone.
LEMMA WorldUnchanged ==
    ASSUME EcsInv, UNCHANGED worldVars
    PROVE  WorldTypeOK' /\ SetsConsistent' /\ IdsPartitioned'
BY DEF EcsInv, TypeOK, worldVars, WorldTypeOK, SetsConsistent, IdsPartitioned

LEMMA BoundsUnchanged ==
    ASSUME EcsInv, UNCHANGED <<created, generations>>
    PROVE  CountsBounded'
BY DEF EcsInv, CountsBounded

LEMMA RunUnchanged ==
    ASSUME EcsInv, UNCHANGED runVars
    PROVE  RunTypeOK'
BY DEF EcsInv, TypeOK, runVars, RunTypeOK

LEMMA CallersUnchanged ==
    ASSUME EcsInv, UNCHANGED <<created, alive, owned, touched>>
    PROVE  CallerTypeOK'
BY DEF EcsInv, TypeOK, CallerTypeOK

\* What a direct call does.
LEMMA DirectSteps ==
    ASSUME EcsInv,
           \/ AddEntity
           \/ \E n \in 1..Len(created), c \in Components :
                 RemoveComponent(n, c) \/ \E v \in Values : AddComponent(n, c, v)
           \/ \E n \in 1..Len(created) : RemoveEntity(n)
    PROVE  EcsInv'
<1>1. CASE AddEntity
  <2>1. /\ Len(created) < MaxEntities /\ AddEntityToWorld /\ CallerCreates(0)
        /\ created' = Append(created, NewEntity) /\ UNCHANGED <<sets, runVars>>
    BY <1>1 DEF AddEntity, CallerCreates
  <2>2. 0 \in 0..Systems
    BY EcsConstants
  <2>3. CallerTypeOK'
    BY <2>1, <2>2, AddEntityFits, CallerCreatesFits
  <2>4. WorldTypeOK'
    BY <2>1, AddEntityFits DEF WorldTypeOK, EcsInv, TypeOK
  <2>5. SetsConsistent'
    BY <2>1 DEF EcsInv, SetsConsistent
  <2> QED BY <2>1, <2>3, <2>4, <2>5, AddEntityFits, RunUnchanged DEF EcsInv, TypeOK
<1>2. ASSUME NEW n \in 1..Len(created), NEW c \in Components, RemoveComponent(n, c)
      PROVE  EcsInv'
  <2>1. /\ RemoveComponentFromWorld(created[n], c) /\ CallerSets(n, c, Nothing)
        /\ UNCHANGED <<entities, deadEntities, generations, runVars, created, alive, touched>>
    BY <1>2 DEF RemoveComponent
  <2>2. sets' \in [Components -> SetType] /\ SetsConsistent'
    BY <2>1, CreatedFits, RemoveComponentFits
  <2>3. WorldTypeOK' /\ IdsPartitioned'
    BY <2>1, <2>2 DEF EcsInv, TypeOK, WorldTypeOK, IdsPartitioned
  <2>4. CallerTypeOK'
    BY <2>1, CallerSetsFits DEF EcsInv, TypeOK, CallerTypeOK, OwnedType
  <2> QED BY <2>1, <2>2, <2>3, <2>4, RunUnchanged, BoundsUnchanged DEF EcsInv, TypeOK
<1>3. ASSUME NEW n \in 1..Len(created), NEW c \in Components, NEW v \in Values,
             AddComponent(n, c, v)
      PROVE  EcsInv'
  <2>1. /\ AddComponentToWorld(created[n], c, v) /\ CallerSets(n, c, v)
        /\ UNCHANGED <<entities, deadEntities, generations, runVars, created, alive, touched>>
    BY <1>3 DEF AddComponent
  <2>2. sets' \in [Components -> SetType] /\ SetsConsistent'
    BY <2>1, CreatedFits, AddComponentFits
  <2>3. WorldTypeOK' /\ IdsPartitioned'
    BY <2>1, <2>2 DEF EcsInv, TypeOK, WorldTypeOK, IdsPartitioned
  <2>4. CallerTypeOK'
    BY <2>1, CallerSetsFits DEF EcsInv, TypeOK, CallerTypeOK, OwnedType
  <2> QED BY <2>1, <2>2, <2>3, <2>4, RunUnchanged, BoundsUnchanged DEF EcsInv, TypeOK
<1>4. ASSUME NEW n \in 1..Len(created), RemoveEntity(n)
      PROVE  EcsInv'
  <2>1. /\ RemoveEntityFromWorld(created[n]) /\ alive' = alive \ {n}
        /\ touched' = [touched EXCEPT ![n] = 0]
        /\ UNCHANGED <<runVars, created, owned>>
    BY <1>4 DEF RemoveEntity
  <2>2. /\ entities' \in Seq(EntityType) /\ deadEntities' \in Seq(0..MaxEntities - 1)
        /\ generations' = generations /\ sets' = sets /\ IdsPartitioned'
    BY <2>1, CreatedFits, RemoveEntityFits
  <2>3. WorldTypeOK' /\ SetsConsistent'
    BY <2>2 DEF EcsInv, TypeOK, WorldTypeOK, SetsConsistent
  <2>4. CallerTypeOK'
    <3>1. 0 \in 0..Systems
      BY EcsConstants
    <3> QED BY <2>1, <3>1, TouchedFits DEF EcsInv, TypeOK, CallerTypeOK
  <2> QED BY <2>1, <2>2, <2>3, <2>4, RunUnchanged, BoundsUnchanged DEF EcsInv, TypeOK
<1> QED BY <1>1, <1>2, <1>3, <1>4

\* A context's own variables.
LEMMA DeferFits ==
    ASSUME EcsInv, NEW s \in System, NEW a \in ActionType, Defer(s, a)
    PROVE  deferredActions' \in [System -> Seq(ActionType)]
<1>1. deferredActions \in [System -> Seq(ActionType)]
  BY DEF EcsInv, TypeOK, RunTypeOK
<1>2. Append(deferredActions[s], a) \in Seq(ActionType)
  BY <1>1, AppendProperties
<1> QED BY <1>1, <1>2 DEF Defer

LEMMA DeferEntityFits ==
    ASSUME EcsInv, NEW s \in System, NEW e \in EntityType,
           deferredEntities' =
              [deferredEntities EXCEPT ![s] = Append(@, [entity |-> e, components |-> <<>>])]
    PROVE  deferredEntities' \in [System -> Seq(DeferredEntityType)]
<1>1. deferredEntities \in [System -> Seq(DeferredEntityType)]
  BY DEF EcsInv, TypeOK, RunTypeOK
<1>2. [entity |-> e, components |-> <<>>] \in DeferredEntityType
  BY EmptySeq DEF DeferredEntityType
<1>3. Append(deferredEntities[s], [entity |-> e, components |-> <<>>]) \in Seq(DeferredEntityType)
  BY <1>1, <1>2, AppendProperties
<1> QED BY <1>1, <1>3

DeferredComponent == [type : Components, value : Values]

LEMMA DeferComponentFits ==
    ASSUME EcsInv, NEW s \in System, NEW i \in 1..Len(deferredEntities[s]),
           NEW cs \in Seq(DeferredComponent),
           deferredEntities' = [deferredEntities EXCEPT ![s][i].components = cs]
    PROVE  deferredEntities' \in [System -> Seq(DeferredEntityType)]
<1>1. deferredEntities \in [System -> Seq(DeferredEntityType)]
  BY DEF EcsInv, TypeOK, RunTypeOK
<1>2. deferredEntities[s] \in Seq(DeferredEntityType)
  BY <1>1
<1>3. deferredEntities[s][i] \in DeferredEntityType
  BY <1>2, ElementOfSeq
<1>4. [deferredEntities[s][i] EXCEPT !.components = cs] \in DeferredEntityType
  BY <1>3 DEF DeferredEntityType, DeferredComponent
<1>5. [deferredEntities[s] EXCEPT ![i] = [deferredEntities[s][i] EXCEPT !.components = cs]]
         \in Seq(DeferredEntityType)
  BY <1>2, <1>4, ExceptSeq
<1>6. deferredEntities' =
         [deferredEntities EXCEPT ![s] =
            [deferredEntities[s] EXCEPT ![i] =
               [deferredEntities[s][i] EXCEPT !.components = cs]]]
  BY <1>1
<1> QED BY <1>1, <1>5, <1>6

\* What a system asks its context for.
LEMMA ContextSteps ==
    ASSUME EcsInv, NEW s \in System,
           \/ ContextAddEntity(s)
           \/ \E n \in 1..Len(created), c \in Components :
                 \/ \E v \in Values : ContextAddComponent(s, n, c, v)
                 \/ ContextRemoveComponent(s, n, c)
           \/ \E n \in 1..Len(created) : ContextDestroyEntity(s, n)
    PROVE  EcsInv'
<1>1. /\ s \in 0..Systems
      /\ phase \in {"outside", "systems", "hook", "apply"} /\ turn \in System
      /\ deferredEntities \in [System -> Seq(DeferredEntityType)]
      /\ deferredActions \in [System -> Seq(ActionType)]
  BY EcsConstants DEF System, EcsInv, TypeOK, RunTypeOK
<1>2. CASE ContextAddEntity(s)
  <2>1. /\ Len(created) < MaxEntities /\ AddEntityToWorld /\ CallerCreates(s)
        /\ created' = Append(created, NewEntity)
        /\ deferredEntities' = [deferredEntities EXCEPT ![s] =
              Append(@, [entity |-> NewEntity, components |-> <<>>])]
        /\ UNCHANGED <<sets, phase, turn, deferredActions>>
    BY <1>2 DEF ContextAddEntity, CallerCreates
  <2>2. CallerTypeOK'
    BY <1>1, <2>1, AddEntityFits, CallerCreatesFits
  <2>3. WorldTypeOK'
    BY <2>1, AddEntityFits DEF WorldTypeOK, EcsInv, TypeOK
  <2>4. SetsConsistent'
    BY <2>1 DEF EcsInv, SetsConsistent
  <2>5. RunTypeOK'
    BY <1>1, <2>1, NewEntityFits, DeferEntityFits DEF RunTypeOK
  <2> QED BY <2>1, <2>2, <2>3, <2>4, <2>5, AddEntityFits DEF EcsInv, TypeOK
<1>3. ASSUME NEW n \in 1..Len(created), NEW c \in Components, NEW v \in Values,
             ContextAddComponent(s, n, c, v)
      PROVE  EcsInv'
  <2>1. /\ CallerSets(n, c, v) /\ touched' = [touched EXCEPT ![n] = s]
        /\ UNCHANGED <<worldVars, phase, turn, created, alive>>
    BY <1>3 DEF ContextAddComponent
  <2>2. RunTypeOK'
    <3>1. CASE \E i \in DeferredAt(s, created[n]) :
                  /\ deferredEntities' = [deferredEntities EXCEPT ![s][i].components =
                        Append(@, [type |-> c, value |-> v])]
                  /\ UNCHANGED deferredActions
      <4>1. PICK i \in 1..Len(deferredEntities[s]) :
               deferredEntities' = [deferredEntities EXCEPT ![s][i].components =
                  Append(@, [type |-> c, value |-> v])]
        BY <3>1 DEF DeferredAt
      <4>2. deferredEntities[s][i].components \in Seq(DeferredComponent)
        <5>1. deferredEntities[s] \in Seq(DeferredEntityType)
          BY <1>1
        <5>2. deferredEntities[s][i] \in DeferredEntityType
          BY <5>1, ElementOfSeq
        <5> QED BY <5>2 DEF DeferredEntityType, DeferredComponent
      <4>3. PICK cs \in Seq(DeferredComponent) :
               cs = Append(deferredEntities[s][i].components, [type |-> c, value |-> v])
        <5>1. [type |-> c, value |-> v] \in DeferredComponent
          BY DEF DeferredComponent
        <5> QED BY <4>2, <5>1, AppendProperties
      <4>4. deferredEntities' = [deferredEntities EXCEPT ![s][i].components = cs]
        BY <4>1, <4>3
      <4>5. deferredEntities' \in [System -> Seq(DeferredEntityType)]
        BY <4>4, DeferComponentFits
      <4> QED BY <1>1, <2>1, <3>1, <4>5 DEF RunTypeOK
    <3>2. CASE /\ Defer(s, [do |-> "add", entity |-> created[n], type |-> c, value |-> v])
               /\ UNCHANGED deferredEntities
      <4>1. [do |-> "add", entity |-> created[n], type |-> c, value |-> v] \in ActionType
        BY CreatedFits DEF ActionType
      <4> QED BY <1>1, <2>1, <3>2, <4>1, DeferFits DEF RunTypeOK
    <3>3. CASE UNCHANGED <<deferredEntities, deferredActions>>
      BY <1>1, <2>1, <3>3 DEF RunTypeOK
    <3> QED BY <1>3, <3>1, <3>2, <3>3 DEF ContextAddComponent
  <2>3. CallerTypeOK'
    BY <1>1, <2>1, CallerSetsFits, TouchedFits DEF EcsInv, TypeOK, CallerTypeOK, OwnedType
  <2> QED BY <2>1, <2>2, <2>3, WorldUnchanged, BoundsUnchanged DEF EcsInv, TypeOK, worldVars
<1>4. ASSUME NEW n \in 1..Len(created), NEW c \in Components, ContextRemoveComponent(s, n, c)
      PROVE  EcsInv'
  <2>1. /\ CallerSets(n, c, Nothing) /\ touched' = [touched EXCEPT ![n] = s]
        /\ UNCHANGED <<worldVars, phase, turn, deferredEntities, created, alive>>
        /\ \/ Defer(s, [do |-> "remove", entity |-> created[n], type |-> c, value |-> Nothing])
           \/ UNCHANGED deferredActions
    BY <1>4 DEF ContextRemoveComponent
  <2>2. [do |-> "remove", entity |-> created[n], type |-> c, value |-> Nothing] \in ActionType
    BY CreatedFits DEF ActionType
  <2>3. deferredActions' \in [System -> Seq(ActionType)]
    BY <1>1, <2>1, <2>2, DeferFits
  <2>4. RunTypeOK'
    BY <1>1, <2>1, <2>3 DEF RunTypeOK
  <2>5. CallerTypeOK'
    BY <1>1, <2>1, CallerSetsFits, TouchedFits DEF EcsInv, TypeOK, CallerTypeOK, OwnedType
  <2> QED BY <2>1, <2>4, <2>5, WorldUnchanged, BoundsUnchanged DEF EcsInv, TypeOK, worldVars
<1>5. ASSUME NEW n \in 1..Len(created), ContextDestroyEntity(s, n)
      PROVE  EcsInv'
  <2>1. /\ alive' = alive \ {n} /\ touched' = [touched EXCEPT ![n] = s]
        /\ UNCHANGED <<worldVars, phase, turn, deferredEntities, created, owned>>
        /\ \/ Defer(s, [do |-> "destroy", entity |-> created[n], type |-> "none",
                        value |-> Nothing])
           \/ UNCHANGED deferredActions
    BY <1>5 DEF ContextDestroyEntity
  <2>2. [do |-> "destroy", entity |-> created[n], type |-> "none", value |-> Nothing] \in ActionType
    BY CreatedFits DEF ActionType
  <2>3. deferredActions' \in [System -> Seq(ActionType)]
    BY <1>1, <2>1, <2>2, DeferFits
  <2>4. RunTypeOK'
    BY <1>1, <2>1, <2>3 DEF RunTypeOK
  <2>5. CallerTypeOK'
    BY <1>1, <2>1, TouchedFits DEF EcsInv, TypeOK, CallerTypeOK
  <2> QED BY <2>1, <2>4, <2>5, WorldUnchanged, BoundsUnchanged DEF EcsInv, TypeOK, worldVars
<1> QED BY <1>2, <1>3, <1>4, <1>5

\* The layer begins, goes from system to system, and ends.
LEMMA LayerSteps ==
    ASSUME EcsInv, BeginLayer \/ (\E s \in System : EndSystem(s)) \/ EndHook \/ NextContext
    PROVE  EcsInv'
<1>1. /\ Systems \in Nat \ {0}
      /\ phase \in {"outside", "systems", "hook", "apply"} /\ turn \in System
      /\ deferredEntities \in [System -> Seq(DeferredEntityType)]
      /\ deferredActions \in [System -> Seq(ActionType)]
  BY EcsConstants DEF EcsInv, TypeOK, RunTypeOK
<1>2. 1 \in System /\ \A s \in System : s < Systems => s + 1 \in System
  BY <1>1 DEF System
<1>3. CASE BeginLayer
  <2>1. /\ NoContext \in [System -> Seq(DeferredEntityType)]
        /\ NoContext \in [System -> Seq(ActionType)]
    BY EmptySeq DEF NoContext
  <2>2. RunTypeOK'
    BY <1>2, <1>3, <2>1 DEF BeginLayer, RunTypeOK
  <2>3. CallerTypeOK'
    BY <1>3, UntouchedFits DEF BeginLayer, EcsInv, TypeOK, CallerTypeOK
  <2>4. UNCHANGED <<worldVars, created>>
    BY <1>3 DEF BeginLayer
  <2> QED BY <2>2, <2>3, <2>4, WorldUnchanged, BoundsUnchanged DEF EcsInv, TypeOK, worldVars
<1>4. ASSUME NEW s \in System, EndSystem(s)
      PROVE  EcsInv'
  <2>1. RunTypeOK'
    BY <1>1, <1>2, <1>4 DEF EndSystem, RunTypeOK
  <2>2. UNCHANGED <<worldVars, callerVars>>
    BY <1>4 DEF EndSystem
  <2> QED BY <2>1, <2>2, WorldUnchanged, BoundsUnchanged, CallersUnchanged
          DEF EcsInv, TypeOK, worldVars, callerVars
<1>5. CASE EndHook
  <2>1. RunTypeOK'
    BY <1>1, <1>5 DEF EndHook, RunTypeOK
  <2>2. UNCHANGED <<worldVars, callerVars>>
    BY <1>5 DEF EndHook
  <2> QED BY <2>1, <2>2, WorldUnchanged, BoundsUnchanged, CallersUnchanged
          DEF EcsInv, TypeOK, worldVars, callerVars
<1>6. CASE NextContext
  <2>1. RunTypeOK'
    BY <1>1, <1>2, <1>6 DEF NextContext, RunTypeOK
  <2>2. /\ UNCHANGED <<worldVars, created, alive, owned>>
        /\ touched' = touched \/ touched' = [n \in DOMAIN touched |-> 0]
    BY <1>6 DEF NextContext
  <2>3. CallerTypeOK'
    BY <2>2, UntouchedFits DEF EcsInv, TypeOK, CallerTypeOK
  <2> QED BY <2>1, <2>2, <2>3, WorldUnchanged, BoundsUnchanged DEF EcsInv, TypeOK, worldVars
<1> QED BY <1>3, <1>4, <1>5, <1>6

\* The deferred calls.
LEMMA ApplySteps ==
    ASSUME EcsInv, ApplyToNewEntity \/ ApplyAction
    PROVE  EcsInv'
<1>1. /\ phase \in {"outside", "systems", "hook", "apply"} /\ turn \in System
      /\ deferredEntities \in [System -> Seq(DeferredEntityType)]
      /\ deferredActions \in [System -> Seq(ActionType)]
      /\ deferredEntities[turn] \in Seq(DeferredEntityType)
      /\ deferredActions[turn] \in Seq(ActionType)
  BY DEF EcsInv, TypeOK, RunTypeOK
<1>2. CASE ApplyToNewEntity
  <2> DEFINE d == Head(deferredEntities[turn])
  <2>1. /\ deferredEntities[turn] # <<>>
        /\ UNCHANGED <<entities, deadEntities, generations, phase, turn, deferredActions, callerVars>>
    BY <1>2 DEF ApplyToNewEntity
  <2>2. /\ d \in DeferredEntityType /\ Tail(deferredEntities[turn]) \in Seq(DeferredEntityType)
        /\ d = deferredEntities[turn][1] /\ 1 \in 1..Len(deferredEntities[turn])
    BY <1>1, <2>1, HeadTailProperties, EmptySeq
  <2>3. d.entity \in EntityType /\ d.components \in Seq(DeferredComponent)
    BY <2>2 DEF DeferredEntityType, DeferredComponent
  <2>4. CASE d.components = <<>>
    <3>1. /\ deferredEntities' = [deferredEntities EXCEPT ![turn] = Tail(deferredEntities[turn])]
          /\ UNCHANGED sets
      BY <1>2, <2>4 DEF ApplyToNewEntity
    <3>2. RunTypeOK'
      BY <1>1, <2>1, <2>2, <3>1 DEF RunTypeOK
    <3> QED BY <2>1, <3>1, <3>2, WorldUnchanged, BoundsUnchanged, CallersUnchanged
            DEF EcsInv, TypeOK, worldVars, callerVars
  <2>5. CASE d.components # <<>>
    <3>1. /\ AddComponentToWorld(d.entity, Head(d.components).type, Head(d.components).value)
          /\ deferredEntities' =
                [deferredEntities EXCEPT ![turn][1].components = Tail(@)]
      BY <1>2, <2>5 DEF ApplyToNewEntity
    <3>2. Head(d.components) \in DeferredComponent /\ Tail(d.components) \in Seq(DeferredComponent)
      BY <2>3, <2>5, HeadTailProperties
    <3>3. Head(d.components).type \in Components /\ Head(d.components).value \in Values
      BY <3>2 DEF DeferredComponent
    <3>4. sets' \in [Components -> SetType] /\ SetsConsistent'
      BY <2>3, <3>1, <3>3, AddComponentFits
    <3>5. PICK cs \in Seq(DeferredComponent) : cs = Tail(deferredEntities[turn][1].components)
      BY <2>2, <3>2
    <3>6. deferredEntities' = [deferredEntities EXCEPT ![turn][1].components = cs]
      BY <3>1, <3>5
    <3>7. deferredEntities' \in [System -> Seq(DeferredEntityType)]
      BY <1>1, <2>2, <3>6, DeferComponentFits
    <3>8. RunTypeOK'
      BY <1>1, <2>1, <3>7 DEF RunTypeOK
    <3>9. WorldTypeOK' /\ IdsPartitioned'
      BY <2>1, <3>4 DEF EcsInv, TypeOK, WorldTypeOK, IdsPartitioned
    <3> QED BY <2>1, <3>4, <3>8, <3>9, BoundsUnchanged, CallersUnchanged
            DEF EcsInv, TypeOK, callerVars
  <2> QED BY <2>4, <2>5
<1>3. CASE ApplyAction
  <2>1. /\ deferredActions[turn] # <<>>
        /\ deferredActions' = [deferredActions EXCEPT ![turn] = Tail(deferredActions[turn])]
        /\ UNCHANGED <<phase, turn, deferredEntities, callerVars>>
    BY <1>3 DEF ApplyAction
  <2>2. Head(deferredActions[turn]) \in ActionType /\ Tail(deferredActions[turn]) \in Seq(ActionType)
    BY <1>1, <2>1, HeadTailProperties
  <2>3. PICK a \in ActionType : a = Head(deferredActions[turn])
    BY <2>2
  <2>4. /\ a.entity \in EntityType
        /\ a.do = "add" => a.type \in Components /\ a.value \in Values
        /\ a.do = "remove" => a.type \in Components
    BY DEF ActionType
  <2>5. RunTypeOK'
    BY <1>1, <2>1, <2>2 DEF RunTypeOK
  <2>6. CASE /\ a.do = "add" /\ AddComponentToWorld(a.entity, a.type, a.value)
             /\ UNCHANGED <<entities, deadEntities, generations>>
    <3>1. sets' \in [Components -> SetType] /\ SetsConsistent'
      BY <2>4, <2>6, AddComponentFits
    <3>2. WorldTypeOK' /\ IdsPartitioned'
      BY <2>6, <3>1 DEF EcsInv, TypeOK, WorldTypeOK, IdsPartitioned
    <3> QED BY <2>1, <2>5, <2>6, <3>1, <3>2, BoundsUnchanged, CallersUnchanged
            DEF EcsInv, TypeOK, callerVars
  <2>7. CASE /\ a.do = "remove" /\ RemoveComponentFromWorld(a.entity, a.type)
             /\ UNCHANGED <<entities, deadEntities, generations>>
    <3>1. sets' \in [Components -> SetType] /\ SetsConsistent'
      BY <2>4, <2>7, RemoveComponentFits
    <3>2. WorldTypeOK' /\ IdsPartitioned'
      BY <2>7, <3>1 DEF EcsInv, TypeOK, WorldTypeOK, IdsPartitioned
    <3> QED BY <2>1, <2>5, <2>7, <3>1, <3>2, BoundsUnchanged, CallersUnchanged
            DEF EcsInv, TypeOK, callerVars
  <2>8. CASE RemoveEntityFromWorld(a.entity)
    <3>1. /\ entities' \in Seq(EntityType) /\ deadEntities' \in Seq(0..MaxEntities - 1)
          /\ generations' = generations /\ sets' = sets /\ IdsPartitioned'
      BY <2>4, <2>8, RemoveEntityFits
    <3>2. WorldTypeOK' /\ SetsConsistent'
      BY <3>1 DEF EcsInv, TypeOK, WorldTypeOK, SetsConsistent
    <3> QED BY <2>1, <2>5, <3>1, <3>2, BoundsUnchanged, CallersUnchanged
            DEF EcsInv, TypeOK, callerVars
  <2> QED BY <1>3, <2>3, <2>6, <2>7, <2>8 DEF ApplyAction
<1> QED BY <1>2, <1>3

LEMMA EcsInvNext == EcsInv /\ [Next]_vars => EcsInv'
<1> SUFFICES ASSUME EcsInv, [Next]_vars PROVE EcsInv'
  OBVIOUS
<1>1. CASE UNCHANGED vars
  BY <1>1, WorldUnchanged, BoundsUnchanged, RunUnchanged, CallersUnchanged
     DEF vars, worldVars, runVars, callerVars, EcsInv, TypeOK
<1>2. CASE Next
  BY <1>2, DirectSteps, ContextSteps, LayerSteps, ApplySteps DEF Next
<1> QED BY <1>1, <1>2

LEMMA EcsInvCorrect == Spec => []EcsInv
BY EcsInvInit, EcsInvNext, PTL DEF Spec

-----------------------------------------------------------------------------
(***************************************************************************)
(* What a handle finds in a set after a change of it.                      *)
(***************************************************************************)
InSet(set, f) == \E k \in 1..Len(set.entities) : set.entities[k] = f

LEMMA SetArrays ==
    ASSUME NEW set \in SetType, Consistent(set)
    PROVE  /\ set.dense \in Seq(Values) /\ set.sparse \in [Ids -> Nat]
           /\ set.entities \in Seq(SetEntityType)
           /\ Len(set.dense) \in Nat /\ Len(set.dense) = Len(set.entities)
           /\ \A i \in 1..Len(set.dense) : /\ set.dense[i] \in Values
                                           /\ set.entities[i] \in SetEntityType
                                           /\ set.entities[i].id \in Ids
                                           /\ set.sparse[set.entities[i].id] = i
           /\ \A id \in Ids : set.sparse[id] # Absent =>
                 /\ set.sparse[id] \in 1..Len(set.dense)
                 /\ set.entities[set.sparse[id]].id = id
<1>1. /\ set.dense \in Seq(Values) /\ set.sparse \in [Ids -> Nat]
      /\ set.entities \in Seq(SetEntityType)
      /\ Len(set.dense) \in Nat /\ Len(set.dense) = Len(set.entities)
  BY DEF SetType, Consistent
<1>2. ASSUME NEW i \in 1..Len(set.dense)
      PROVE  /\ set.dense[i] \in Values /\ set.entities[i] \in SetEntityType
             /\ set.entities[i].id \in Ids /\ set.sparse[set.entities[i].id] = i
  <2>1. set.entities[i] \in SetEntityType /\ set.dense[i] \in Values
    BY <1>1, ElementOfSeq
  <2> QED BY <1>1, <2>1 DEF Consistent, SetEntityType
<1> QED BY <1>1, <1>2 DEF Consistent

\* An id that a set contains is that of one of its entities.
LEMMA ContainedIn ==
    ASSUME NEW set \in SetType, Consistent(set), NEW e, e.id \in Ids
    PROVE  /\ Contains(set, e) <=> \E k \in 1..Len(set.entities) : set.entities[k].id = e.id
           /\ (\A k \in 1..Len(set.entities) : set.entities[k].id # e.id) => At(set, e) = Nothing
<1>1. Contains(set, e) <=> \E k \in 1..Len(set.entities) : set.entities[k].id = e.id
  <2>1. CASE Contains(set, e)
    BY <2>1, SetArrays DEF Contains
  <2>2. ASSUME NEW k \in 1..Len(set.entities), set.entities[k].id = e.id PROVE Contains(set, e)
    <3>1. set.sparse[e.id] = k
      BY <2>2, SetArrays
    <3> QED BY <3>1, SetArrays DEF Contains, Absent
  <2> QED BY <2>1, <2>2
<1> QED BY <1>1 DEF At

\* A handle that finds nothing, though whoever has its id in the set has its
\* generation, is not in the set.
LEMMA FindsNothing ==
    ASSUME NEW set \in SetType, Consistent(set), NEW e, e.id \in Ids,
           \A k \in 1..Len(set.entities) :
              set.entities[k].id = e.id => set.entities[k].generation = e.generation,
           At(set, e) = Nothing
    PROVE  \A k \in 1..Len(set.entities) : set.entities[k].id # e.id
<1> SUFFICES ASSUME NEW k \in 1..Len(set.entities), set.entities[k].id = e.id PROVE FALSE
  OBVIOUS
<1>1. Contains(set, e)
  BY ContainedIn
<1>2. set.sparse[e.id] = k /\ set.dense[k] \in Values
  BY SetArrays
<1>3. At(set, e) = set.dense[k]
  BY <1>1, <1>2 DEF At
<1> QED BY <1>2, <1>3, WorldAssumption

\* What insert changes: e has v, any other id what it had.
LEMMA InsertFinds ==
    ASSUME NEW set \in SetType, Consistent(set), NEW e \in EntityType, e.id < N, NEW v \in Values,
           \A k \in 1..Len(set.entities) :
              set.entities[k].id = e.id => set.entities[k].generation = e.generation
    PROVE  LET new == Insert(set, e, v)
           IN  /\ At(new, e) = v
               /\ \A f : f.id \in Ids \ {e.id} => At(new, f) = At(set, f)
               /\ \A k \in 1..Len(new.entities) :
                     new.entities[k] = e \/ InSet(set, new.entities[k])
<1> DEFINE new == Insert(set, e, v)
           k   == set.sparse[e.id]
           n   == Len(set.dense)
<1>1. /\ e.id \in Ids /\ n \in Nat /\ n = Len(set.entities)
      /\ set.dense \in Seq(Values) /\ set.sparse \in [Ids -> Nat]
      /\ set.entities \in Seq(SetEntityType)
  BY EcsConstants, SetArrays DEF EntityType, Ids
<1>2. CASE Contains(set, e)
  <2>1. k \in 1..n /\ set.entities[k].id = e.id /\ k # Absent
    BY <1>1, <1>2, SetArrays DEF Contains
  <2>2. /\ new.dense = [set.dense EXCEPT ![k] = v]
        /\ new.sparse = set.sparse /\ new.entities = set.entities
    BY <1>1, <1>2 DEF Insert, SetType
  <2>3. \A i \in 1..n : new.dense[i] = IF i = k THEN v ELSE set.dense[i]
    BY <1>1, <2>2
  <2> HIDE DEF new
  <2>4. set.entities[k].generation = e.generation
    BY <1>1, <2>1
  <2>5. At(new, e) = v
    BY <2>1, <2>2, <2>3, <2>4 DEF At, Contains
  <2>6. ASSUME NEW f, f.id \in Ids \ {e.id} PROVE At(new, f) = At(set, f)
    <3>1. Contains(set, f) => set.sparse[f.id] \in 1..n /\ set.sparse[f.id] # k
      BY <2>1, <2>6, SetArrays DEF Contains
    <3> QED BY <2>2, <2>3, <3>1 DEF At, Contains
  <2>7. \A i \in 1..Len(new.entities) : InSet(set, new.entities[i])
    BY <2>2 DEF InSet
  <2> QED BY <2>5, <2>6, <2>7 DEF new
<1>3. CASE ~Contains(set, e)
  <2>1. /\ new.dense = Append(set.dense, v) /\ new.sparse = [set.sparse EXCEPT ![e.id] = n + 1]
        /\ new.entities = Append(set.entities, e)
    BY <1>3 DEF Insert
  <2> HIDE DEF new
  <2>2. /\ new.dense[n + 1] = v /\ \A i \in 1..n : new.dense[i] = set.dense[i]
        /\ Len(new.entities) = n + 1 /\ new.entities[n + 1] = e
        /\ \A i \in 1..n : new.entities[i] = set.entities[i]
    <3>1. e \in SetEntityType
      BY <1>1 DEF EntityType, SetEntityType
    <3> QED BY <1>1, <2>1, <3>1, AppendProperties
  <2>3. new.sparse[e.id] = n + 1 /\ \A id \in Ids \ {e.id} : new.sparse[id] = set.sparse[id]
    BY <1>1, <2>1
  <2>4. At(new, e) = v
    BY <1>1, <2>2, <2>3 DEF At, Contains, Absent
  <2>5. ASSUME NEW f, f.id \in Ids \ {e.id} PROVE At(new, f) = At(set, f)
    <3>1. Contains(set, f) => set.sparse[f.id] \in 1..n
      BY <2>5, SetArrays DEF Contains
    <3> QED BY SMTT(30), <2>2, <2>3, <2>5, <3>1 DEF At, Contains
  <2>6. ASSUME NEW i \in 1..Len(new.entities)
        PROVE  new.entities[i] = e \/ InSet(set, new.entities[i])
    <3>1. i = n + 1 \/ i \in 1..n
      BY <1>1, <2>2
    <3> QED BY <1>1, <2>2, <3>1 DEF InSet
  <2> QED BY <2>4, <2>5, <2>6 DEF new
<1> QED BY <1>2, <1>3

\* What remove leaves: nothing for e, and what it had for any other id.
LEMMA RemoveFinds ==
    ASSUME NEW set \in SetType, Consistent(set), NEW e \in EntityType, e.id < N
    PROVE  LET new == Remove(set, e)
           IN  /\ At(new, e) = Nothing
               /\ \A f : f.id \in Ids \ {e.id} => At(new, f) = At(set, f)
               /\ \A k \in 1..Len(new.entities) : InSet(set, new.entities[k])
<1>0. e.id \in Ids
  BY EcsConstants DEF EntityType, Ids
<1>1. CASE ~Contains(set, e)
  <2>1. Remove(set, e) = set
    BY <1>1 DEF Remove
  <2> QED BY <1>1, <2>1 DEF At, InSet
<1>2. CASE Contains(set, e)
  <2>1. PICK last \in Nat : last = Len(set.dense) /\ last = Len(set.entities)
    BY SetArrays
  <2>2. PICK k \in 1..last : /\ k = set.sparse[e.id] /\ k # Absent
                             /\ set.entities[k].id = e.id
    BY <1>0, <1>2, <2>1, SetArrays DEF Contains
  <2>3. last \in 1..last
    BY <2>2
  <2>4. PICK moved \in SetEntityType : /\ moved = set.entities[last] /\ moved.id \in Ids
                                       /\ set.sparse[moved.id] = last
    BY <2>1, <2>3, SetArrays
  <2>5. PICK x \in Values : x = set.dense[last]
    BY <2>1, <2>3, SetArrays
  <2> DEFINE new == Remove(set, e)
  <2>6. /\ new.dense = SubSeq([set.dense EXCEPT ![k] = x], 1, last - 1)
        /\ new.sparse = [set.sparse EXCEPT ![moved.id] = k, ![e.id] = Absent]
        /\ new.entities = SubSeq([set.entities EXCEPT ![k] = moved], 1, last - 1)
    <3>1. ~(e.id >= N \/ ~Contains(set, e))
      BY <1>0, <1>2, EcsConstants DEF Ids
    <3> QED BY <2>1, <2>2, <2>4, <2>5, <3>1 DEF Remove
  <2> HIDE DEF new
  <2>7. ASSUME NEW S, NEW s \in Seq(S), Len(s) = last, NEW y \in S
        PROVE  LET t == SubSeq([s EXCEPT ![k] = y], 1, last - 1)
               IN  /\ t \in Seq(S) /\ Len(t) = last - 1
                   /\ \A i \in 1..last - 1 : t[i] = IF i = k THEN y ELSE s[i]
    <3> DEFINE u == [s EXCEPT ![k] = y]
    <3>1. u \in Seq(S) /\ Len(u) = last /\ \A i \in 1..last : u[i] = IF i = k THEN y ELSE s[i]
      BY <2>2, <2>7, ExceptSeq
    <3> HIDE DEF u
    <3>2. \A i \in 1..last - 1 : i \in 1..last /\ u[i] \in S
      BY <3>1, ElementOfSeq
    <3>3. /\ SubSeq(u, 1, last - 1) \in Seq(S) /\ Len(SubSeq(u, 1, last - 1)) = last - 1
          /\ \A i \in 1..last - 1 : SubSeq(u, 1, last - 1)[i] = u[i]
      BY <2>3, <3>2, SubSeqProperties
    <3> QED BY <3>1, <3>2, <3>3 DEF u
  <2>8. \A i \in 1..last - 1 : new.dense[i] = IF i = k THEN x ELSE set.dense[i]
    <3>1. set.dense \in Seq(Values) /\ Len(set.dense) = last
      BY <2>1, SetArrays
    <3> QED BY <2>6, <2>7, <3>1
  <2>9. /\ Len(new.entities) = last - 1
        /\ \A i \in 1..last - 1 : new.entities[i] = IF i = k THEN moved ELSE set.entities[i]
    <3>1. set.entities \in Seq(SetEntityType) /\ Len(set.entities) = last
      BY <2>1, SetArrays
    <3> QED BY <2>6, <2>7, <3>1
  <2>10. \A id \in Ids : new.sparse[id] =
            IF id = e.id THEN Absent ELSE IF id = moved.id THEN k ELSE set.sparse[id]
    <3>1. set.sparse \in [Ids -> Nat]
      BY SetArrays
    <3> QED BY <1>0, <2>4, <2>6, <3>1
  <2>11. At(new, e) = Nothing
    BY <1>0, <2>10 DEF At, Contains
  <2>12. ASSUME NEW f, f.id \in Ids \ {e.id} PROVE At(new, f) = At(set, f)
    <3>1. CASE f.id = moved.id
      <4>1. k # last
        BY <2>1, <2>2, <2>4, <2>12, <3>1
      <4>2. k \in 1..last - 1 /\ new.sparse[f.id] = k /\ set.sparse[f.id] = last
        BY <2>3, <2>4, <2>10, <2>12, <3>1, <4>1
      <4>3. /\ new.dense[k] = x /\ new.entities[k] = moved
            /\ set.dense[last] = x /\ set.entities[last] = moved
        BY <2>4, <2>5, <2>8, <2>9, <4>2
      <4>4. k # Absent /\ last # Absent
        BY <2>2 DEF Absent
      <4> QED BY <4>2, <4>3, <4>4 DEF At, Contains
    <3>2. CASE f.id # moved.id
      <4>1. new.sparse[f.id] = set.sparse[f.id]
        BY <2>10, <2>12, <3>2
      <4>2. CASE Contains(set, f)
        <5>1. /\ set.sparse[f.id] \in 1..last
              /\ set.entities[set.sparse[f.id]].id = f.id
          BY <2>1, <2>12, <4>2, SetArrays DEF Contains
        <5>2. set.sparse[f.id] # last /\ set.sparse[f.id] # k
          BY <2>2, <2>4, <2>12, <3>2, <5>1
        <5>3. set.sparse[f.id] \in 1..last - 1
          BY <5>1, <5>2
        <5> QED BY <2>8, <2>9, <4>1, <5>2, <5>3 DEF At, Contains
      <4>3. CASE ~Contains(set, f)
        BY <4>1, <4>3 DEF At, Contains
      <4> QED BY <4>2, <4>3
    <3> QED BY <3>1, <3>2
  <2>13. ASSUME NEW i \in 1..Len(new.entities) PROVE InSet(set, new.entities[i])
    <3>1. i \in 1..last - 1 /\ i \in 1..last
      BY <2>9
    <3> QED BY <2>1, <2>3, <2>4, <2>9, <3>1 DEF InSet
  <2> QED BY <2>11, <2>12, <2>13 DEF new
<1> QED BY <1>1, <1>2

-----------------------------------------------------------------------------
(***************************************************************************)
(* The deferred calls of a context, as lists: which one is the last to say *)
(* what entity e has of component type c, and what that is.                *)
(***************************************************************************)
Gives(a, e, c) == a.do # "destroy" /\ a.entity = e /\ a.type = c

NoAction(acts, e, c) == \A k \in 1..Len(acts) : ~Gives(acts[k], e, c)

LastAction(acts, e, c, v) ==
    \E k \in 1..Len(acts) : /\ Gives(acts[k], e, c) /\ acts[k].value = v
                            /\ \A j \in k + 1 .. Len(acts) : ~Gives(acts[j], e, c)

NoneOfType(cs, c) == \A k \in 1..Len(cs) : cs[k].type # c

LastOfType(cs, c, v) ==
    \E k \in 1..Len(cs) : /\ cs[k].type = c /\ cs[k].value = v
                          /\ \A j \in k + 1 .. Len(cs) : cs[j].type # c

NoComponent(defs, e, c) ==
    \A i \in 1..Len(defs) : defs[i].entity = e => NoneOfType(defs[i].components, c)

LastComponent(defs, e, c, v) ==
    \E i \in 1..Len(defs) : defs[i].entity = e /\ LastOfType(defs[i].components, c, v)

\* Once the calls are made, e has v of the component type that set is for.
Will(acts, defs, set, e, c, v) ==
    \/ LastAction(acts, e, c, v)
    \/ NoAction(acts, e, c) /\ LastComponent(defs, e, c, v)
    \/ NoAction(acts, e, c) /\ NoComponent(defs, e, c) /\ At(set, e) = v

LEMMA Appended ==
    ASSUME NEW S, NEW s \in Seq(S), NEW x \in S
    PROVE  /\ Append(s, x) \in Seq(S) /\ Len(s) \in Nat /\ Len(Append(s, x)) = Len(s) + 1
           /\ \A i \in 1..Len(s) : Append(s, x)[i] = s[i]
           /\ Append(s, x)[Len(s) + 1] = x
BY AppendProperties

LEMMA Shifted ==
    ASSUME NEW S, NEW s \in Seq(S), s # <<>>
    PROVE  /\ Tail(s) \in Seq(S) /\ Len(s) \in Nat \ {0} /\ Len(Tail(s)) = Len(s) - 1
           /\ Head(s) = s[1] /\ Head(s) \in S
           /\ \A i \in 1..Len(s) - 1 : Tail(s)[i] = s[i + 1]
BY HeadTailProperties, EmptySeq

LEMMA ActionAppended ==
    ASSUME NEW S, NEW acts \in Seq(S), NEW a \in S, NEW e, NEW c
    PROVE  /\ Gives(a, e, c) => LastAction(Append(acts, a), e, c, a.value)
           /\ ~Gives(a, e, c) => /\ NoAction(acts, e, c) => NoAction(Append(acts, a), e, c)
                                 /\ \A v : LastAction(acts, e, c, v)
                                              => LastAction(Append(acts, a), e, c, v)
<1>1. PICK new : new = Append(acts, a)
  OBVIOUS
<1>2. PICK n \in Nat : n = Len(acts)
  OBVIOUS
<1>3. Len(new) = n + 1 /\ new[n + 1] = a /\ \A i \in 1..n : new[i] = acts[i]
  BY <1>1, <1>2, Appended
<1>4. ASSUME Gives(a, e, c) PROVE LastAction(new, e, c, a.value)
  <2>1. n + 1 \in 1..n + 1 /\ (n + 1) + 1 .. n + 1 = {}
    OBVIOUS
  <2> QED BY <1>3, <1>4, <2>1 DEF LastAction
<1>5. ASSUME ~Gives(a, e, c), NoAction(acts, e, c) PROVE NoAction(new, e, c)
  <2>1. \A k \in 1..n + 1 : k \in 1..n \/ k = n + 1
    OBVIOUS
  <2> QED BY <1>2, <1>3, <1>5, <2>1 DEF NoAction
<1>6. ASSUME ~Gives(a, e, c), NEW v, LastAction(acts, e, c, v) PROVE LastAction(new, e, c, v)
  <2>1. PICK k \in 1..n : /\ Gives(acts[k], e, c) /\ acts[k].value = v
                          /\ \A j \in k + 1 .. n : ~Gives(acts[j], e, c)
    BY <1>2, <1>6 DEF LastAction
  <2>2. k \in 1..n + 1 /\ Gives(new[k], e, c) /\ new[k].value = v
    BY <1>3, <2>1
  <2>3. \A j \in k + 1 .. n + 1 : j = n + 1 \/ (j \in k + 1 .. n /\ j \in 1..n)
    OBVIOUS
  <2>4. \A j \in k + 1 .. n + 1 : ~Gives(new[j], e, c)
    BY <1>3, <1>6, <2>1, <2>3
  <2> QED BY <1>3, <2>2, <2>4 DEF LastAction
<1> QED BY <1>1, <1>4, <1>5, <1>6

LEMMA ActionTaken ==
    ASSUME NEW S, NEW acts \in Seq(S), acts # <<>>, NEW e, NEW c
    PROVE  /\ NoAction(acts, e, c) => NoAction(Tail(acts), e, c)
           /\ \A v : LastAction(acts, e, c, v) =>
                 \/ LastAction(Tail(acts), e, c, v)
                 \/ /\ NoAction(Tail(acts), e, c)
                    /\ Gives(Head(acts), e, c) /\ Head(acts).value = v
<1>1. PICK new : new = Tail(acts)
  OBVIOUS
<1>2. PICK n \in Nat \ {0} : n = Len(acts)
  BY Shifted
<1>3. Len(new) = n - 1 /\ Head(acts) = acts[1] /\ \A i \in 1..n - 1 : new[i] = acts[i + 1]
  BY <1>1, <1>2, Shifted
<1>4. \A i \in 1..n - 1 : i + 1 \in 1..n
  OBVIOUS
<1>5. ASSUME NoAction(acts, e, c) PROVE NoAction(new, e, c)
  BY <1>2, <1>3, <1>4, <1>5 DEF NoAction
<1>6. ASSUME NEW v, LastAction(acts, e, c, v)
      PROVE  \/ LastAction(new, e, c, v)
             \/ NoAction(new, e, c) /\ Gives(Head(acts), e, c) /\ Head(acts).value = v
  <2>1. PICK k \in 1..n : /\ Gives(acts[k], e, c) /\ acts[k].value = v
                          /\ \A j \in k + 1 .. n : ~Gives(acts[j], e, c)
    BY <1>2, <1>6 DEF LastAction
  <2>2. CASE k = 1
    <3>1. \A i \in 1..n - 1 : i + 1 \in k + 1 .. n
      BY <2>2
    <3> QED BY <1>3, <2>1, <2>2, <3>1 DEF NoAction
  <2>3. CASE k # 1
    <3>1. PICK l \in 1..n - 1 : l + 1 = k
      <4>1. k - 1 \in 1..n - 1 /\ (k - 1) + 1 = k
        BY <2>3
      <4> QED BY <4>1
    <3>2. \A j \in l + 1 .. n - 1 : j + 1 \in k + 1 .. n /\ j \in 1..n - 1
      BY <3>1
    <3>3. Gives(new[l], e, c) /\ new[l].value = v /\ \A j \in l + 1 .. n - 1 : ~Gives(new[j], e, c)
      BY <1>3, <2>1, <3>1, <3>2
    <3> QED BY <1>3, <3>3 DEF LastAction
  <2> QED BY <2>2, <2>3
<1> QED BY <1>1, <1>5, <1>6

LEMMA ComponentAppended ==
    ASSUME NEW S, NEW cs \in Seq(S), NEW x \in S, NEW c
    PROVE  /\ x.type = c => LastOfType(Append(cs, x), c, x.value)
           /\ x.type # c => /\ NoneOfType(cs, c) => NoneOfType(Append(cs, x), c)
                            /\ \A v : LastOfType(cs, c, v) => LastOfType(Append(cs, x), c, v)
<1>1. PICK new : new = Append(cs, x)
  OBVIOUS
<1>2. PICK n \in Nat : n = Len(cs)
  OBVIOUS
<1>3. Len(new) = n + 1 /\ new[n + 1] = x /\ \A i \in 1..n : new[i] = cs[i]
  BY <1>1, <1>2, Appended
<1>4. ASSUME x.type = c PROVE LastOfType(new, c, x.value)
  <2>1. n + 1 \in 1..n + 1 /\ (n + 1) + 1 .. n + 1 = {}
    OBVIOUS
  <2> QED BY <1>3, <1>4, <2>1 DEF LastOfType
<1>5. ASSUME x.type # c, NoneOfType(cs, c) PROVE NoneOfType(new, c)
  <2>1. \A k \in 1..n + 1 : k \in 1..n \/ k = n + 1
    OBVIOUS
  <2> QED BY <1>2, <1>3, <1>5, <2>1 DEF NoneOfType
<1>6. ASSUME x.type # c, NEW v, LastOfType(cs, c, v) PROVE LastOfType(new, c, v)
  <2>1. PICK k \in 1..n : /\ cs[k].type = c /\ cs[k].value = v
                          /\ \A j \in k + 1 .. n : cs[j].type # c
    BY <1>2, <1>6 DEF LastOfType
  <2>2. k \in 1..n + 1 /\ new[k].type = c /\ new[k].value = v
    BY <1>3, <2>1
  <2>3. \A j \in k + 1 .. n + 1 : j = n + 1 \/ (j \in k + 1 .. n /\ j \in 1..n)
    OBVIOUS
  <2>4. \A j \in k + 1 .. n + 1 : new[j].type # c
    BY <1>3, <1>6, <2>1, <2>3
  <2> QED BY <1>3, <2>2, <2>4 DEF LastOfType
<1> QED BY <1>1, <1>4, <1>5, <1>6

LEMMA ComponentTaken ==
    ASSUME NEW S, NEW cs \in Seq(S), cs # <<>>, NEW c
    PROVE  /\ NoneOfType(cs, c) => NoneOfType(Tail(cs), c) /\ Head(cs).type # c
           /\ \A v : LastOfType(cs, c, v) =>
                 \/ LastOfType(Tail(cs), c, v)
                 \/ NoneOfType(Tail(cs), c) /\ Head(cs).type = c /\ Head(cs).value = v
<1>1. PICK new : new = Tail(cs)
  OBVIOUS
<1>2. PICK n \in Nat \ {0} : n = Len(cs)
  BY Shifted
<1>3. Len(new) = n - 1 /\ Head(cs) = cs[1] /\ \A i \in 1..n - 1 : new[i] = cs[i + 1]
  BY <1>1, <1>2, Shifted
<1>4. 1 \in 1..n /\ \A i \in 1..n - 1 : i + 1 \in 1..n
  OBVIOUS
<1>5. ASSUME NoneOfType(cs, c) PROVE NoneOfType(new, c) /\ Head(cs).type # c
  BY <1>2, <1>3, <1>4, <1>5 DEF NoneOfType
<1>6. ASSUME NEW v, LastOfType(cs, c, v)
      PROVE  \/ LastOfType(new, c, v)
             \/ NoneOfType(new, c) /\ Head(cs).type = c /\ Head(cs).value = v
  <2>1. PICK k \in 1..n : /\ cs[k].type = c /\ cs[k].value = v
                          /\ \A j \in k + 1 .. n : cs[j].type # c
    BY <1>2, <1>6 DEF LastOfType
  <2>2. CASE k = 1
    <3>1. \A i \in 1..n - 1 : i + 1 \in k + 1 .. n
      BY <2>2
    <3> QED BY <1>3, <2>1, <2>2, <3>1 DEF NoneOfType
  <2>3. CASE k # 1
    <3>1. PICK l \in 1..n - 1 : l + 1 = k
      <4>1. k - 1 \in 1..n - 1 /\ (k - 1) + 1 = k
        BY <2>3
      <4> QED BY <4>1
    <3>2. \A j \in l + 1 .. n - 1 : j + 1 \in k + 1 .. n /\ j \in 1..n - 1
      BY <3>1
    <3>3. new[l].type = c /\ new[l].value = v /\ \A j \in l + 1 .. n - 1 : new[j].type # c
      BY <1>3, <2>1, <3>1, <3>2
    <3> QED BY <1>3, <3>3 DEF LastOfType
  <2> QED BY <2>2, <2>3
<1> QED BY <1>1, <1>5, <1>6

\* The deferred entities when one of them gets other components.
Replaced(new, defs, i, cs) ==
    /\ Len(new) = Len(defs) /\ new[i].components = cs
    /\ \A j \in 1..Len(defs) : /\ new[j].entity = defs[j].entity
                               /\ j # i => new[j].components = defs[j].components

LEMMA DefsAppended ==
    ASSUME NEW S, NEW defs \in Seq(S), NEW d \in S, d.components = <<>>, NEW e, NEW c
    PROVE  /\ NoComponent(defs, e, c) => NoComponent(Append(defs, d), e, c)
           /\ \A v : LastComponent(defs, e, c, v) => LastComponent(Append(defs, d), e, c, v)
<1>1. PICK new : new = Append(defs, d)
  OBVIOUS
<1>2. PICK n \in Nat : n = Len(defs)
  OBVIOUS
<1>3. Len(new) = n + 1 /\ new[n + 1] = d /\ \A i \in 1..n : new[i] = defs[i]
  BY <1>1, <1>2, Appended
<1>4. \A k \in 1..n + 1 : k \in 1..n \/ k = n + 1
  OBVIOUS
<1>5. NoneOfType(<<>>, c)
  BY DEF NoneOfType
<1>6. ASSUME NoComponent(defs, e, c) PROVE NoComponent(new, e, c)
  BY <1>2, <1>3, <1>4, <1>5, <1>6 DEF NoComponent
<1>7. ASSUME NEW v, LastComponent(defs, e, c, v) PROVE LastComponent(new, e, c, v)
  <2>1. PICK i \in 1..n : defs[i].entity = e /\ LastOfType(defs[i].components, c, v)
    BY <1>2, <1>7 DEF LastComponent
  <2>2. i \in 1..n + 1 /\ new[i] = defs[i]
    BY <1>3
  <2> QED BY <1>3, <2>1, <2>2 DEF LastComponent
<1> QED BY <1>1, <1>6, <1>7

LEMMA DefsTaken ==
    ASSUME NEW S, NEW defs \in Seq(S), defs # <<>>, Head(defs).components = <<>>, NEW e, NEW c
    PROVE  /\ NoComponent(defs, e, c) => NoComponent(Tail(defs), e, c)
           /\ \A v : LastComponent(defs, e, c, v) => LastComponent(Tail(defs), e, c, v)
<1>1. PICK new : new = Tail(defs)
  OBVIOUS
<1>2. PICK n \in Nat \ {0} : n = Len(defs)
  BY Shifted
<1>3. Len(new) = n - 1 /\ Head(defs) = defs[1] /\ \A i \in 1..n - 1 : new[i] = defs[i + 1]
  BY <1>1, <1>2, Shifted
<1>4. \A i \in 1..n - 1 : i + 1 \in 1..n
  OBVIOUS
<1>5. ASSUME NoComponent(defs, e, c) PROVE NoComponent(new, e, c)
  BY <1>2, <1>3, <1>4, <1>5 DEF NoComponent
<1>6. ASSUME NEW v, LastComponent(defs, e, c, v) PROVE LastComponent(new, e, c, v)
  <2>1. PICK i \in 1..n : defs[i].entity = e /\ LastOfType(defs[i].components, c, v)
    BY <1>2, <1>6 DEF LastComponent
  <2>2. i # 1
    BY <1>3, <2>1 DEF LastOfType
  <2>3. PICK l \in 1..n - 1 : l + 1 = i
    <3>1. i - 1 \in 1..n - 1 /\ (i - 1) + 1 = i
      BY <2>2
    <3> QED BY <3>1
  <2> QED BY <1>3, <2>1, <2>3 DEF LastComponent
<1> QED BY <1>1, <1>5, <1>6

LEMMA DefsReplaced ==
    ASSUME NEW defs \in Seq(DeferredEntityType), NEW i \in 1..Len(defs),
           NEW cs \in Seq(DeferredComponent)
    PROVE  Replaced([defs EXCEPT ![i].components = cs], defs, i, cs)
<1>1. \A j \in 1..Len(defs) : defs[j] \in DeferredEntityType
  BY ElementOfSeq
<1>2. PICK d : d = [defs[i] EXCEPT !.components = cs]
  OBVIOUS
<1>3. d.entity = defs[i].entity /\ d.components = cs
  BY <1>1, <1>2 DEF DeferredEntityType
<1>4. [defs EXCEPT ![i].components = cs] = [defs EXCEPT ![i] = d]
  BY <1>2
<1>5. d \in DeferredEntityType
  BY <1>1, <1>2 DEF DeferredEntityType, DeferredComponent
<1>6. PICK new : new = [defs EXCEPT ![i] = d]
  OBVIOUS
<1>7. Len(new) = Len(defs) /\ \A j \in 1..Len(defs) : new[j] = IF j = i THEN d ELSE defs[j]
  BY <1>5, <1>6, ExceptSeq
<1> QED BY <1>3, <1>4, <1>6, <1>7 DEF Replaced

\* Another entity's components do not matter, nor those of another type.
LEMMA OtherReplaced ==
    ASSUME NEW defs, NEW new, NEW i \in 1..Len(defs), NEW cs, Replaced(new, defs, i, cs),
           NEW e, NEW c,
           \/ defs[i].entity # e
           \/ /\ NoneOfType(defs[i].components, c) => NoneOfType(cs, c)
              /\ \A v : LastOfType(defs[i].components, c, v) => LastOfType(cs, c, v)
    PROVE  /\ NoComponent(defs, e, c) => NoComponent(new, e, c)
           /\ \A v : LastComponent(defs, e, c, v) => LastComponent(new, e, c, v)
BY DEF Replaced, NoComponent, LastComponent
-----------------------------------------------------------------------------
(***************************************************************************)
(* What the world holds and what the contexts have still to do, against    *)
(* what the callers asked for.                                             *)
(***************************************************************************)
\* Callers that take care.
Careful == {"strip", "oneOwner", "buildOnce"} \subseteq Discipline

\* Every id that was handed out has its place in the sets.
IdsFit ==
    /\ Len(generations) <= N
    /\ \A n \in 1..Len(created) : created[n].id < Len(generations)

Cares == Careful /\ IdsFit

Destroys(acts, e) ==
    \E k \in 1..Len(acts) : acts[k].do = "destroy" /\ acts[k].entity = e

\* Entity n is in the world: it is alive, or the call that destroys it is pending.
Housed(n) ==
    \/ n \in alive
    \/ \E s \in System : touched[n] = s /\ Destroys(deferredActions[s], created[n])

IsHoused(e) == \E n \in 1..Len(created) : Housed(n) /\ created[n] = e

IsNamedBy(s, e) == \E n \in 1..Len(created) : Housed(n) /\ touched[n] = s /\ created[n] = e

HousesInv ==
    /\ \A n \in 1..Len(created) : Housed(n) => \E i \in 1..Len(entities) : entities[i] = created[n]
    /\ \A i \in 1..Len(entities) : IsHoused(entities[i])
    /\ \A n, m \in 1..Len(created) :
          Housed(n) /\ Housed(m) /\ created[n].id = created[m].id => n = m

HandlesInv ==
    \A c \in Components : \A k \in 1..Len(sets[c].entities) : IsHoused(sets[c].entities[k])

PlaceInv ==
    /\ phase = "hook" => turn = 1
    /\ \A s \in System :
          phase = "outside" \/ (phase = "apply" /\ s < turn) =>
             deferredActions[s] = <<>> /\ deferredEntities[s] = <<>>

\* An entity that a system has named stays in the world until the calls are made.
TouchedInv ==
    \A n \in 1..Len(created) : phase # "apply" /\ touched[n] # 0 => Housed(n)

\* A context's calls are about entities of the world that only its system has named; the
\* call that destroys one is the last about it.
ActionsInv ==
    \A s \in System : \A k \in 1..Len(deferredActions[s]) :
        /\ IsNamedBy(s, deferredActions[s][k].entity)
        /\ deferredActions[s][k].do = "destroy" =>
              /\ \A j \in k + 1 .. Len(deferredActions[s]) :
                    deferredActions[s][j].entity # deferredActions[s][k].entity
              /\ \A n \in alive : created[n] # deferredActions[s][k].entity

DefsInv ==
    \A s \in System : \A i \in 1..Len(deferredEntities[s]) :
        /\ IsNamedBy(s, deferredEntities[s][i].entity)
        /\ \A j \in 1..Len(deferredEntities[s]) :
              deferredEntities[s][i].entity.id = deferredEntities[s][j].entity.id => i = j

\* The components of an entity that a context has created are not mixed with other
\* calls about it.
BuildInv ==
    \A n \in alive \ stripped : \A s \in System :
        \A i \in 1..Len(deferredEntities[s]), k \in 1..Len(deferredActions[s]) :
            ~(deferredEntities[s][i].entity = created[n] /\ deferredActions[s][k].entity = created[n])

\* The calls that are pending give each entity what it was given last.
WillBe(n, c, s) ==
    Will(deferredActions[s], deferredEntities[s], sets[c], created[n], c, owned[n][c])

WillInv ==
    \A n \in 1..Len(created), c \in Components : Housed(n) =>
        /\ \A s \in System : touched[n] \in {0, s} => WillBe(n, c, s)
        /\ n \notin alive => owned[n][c] = Nothing

AgreeInv ==
    /\ HousesInv /\ HandlesInv /\ PlaceInv /\ TouchedInv /\ ActionsInv /\ DefsInv
    /\ BuildInv /\ WillInv /\ AssertionsHold

LEMMA AgreeFacts ==
    ASSUME EcsInv, Cares
    PROVE  /\ Len(created) \in Nat /\ alive \subseteq 1..Len(created)
           /\ Len(owned) = Len(created) /\ Len(touched) = Len(created)
           /\ Systems \in Nat \ {0} /\ turn \in System
           /\ \A n \in 1..Len(created) : /\ created[n] \in EntityType
                                         /\ created[n].id \in Ids /\ created[n].id < N
                                         /\ owned[n] \in OwnedType
                                         /\ touched[n] \in 0..Systems
           /\ \A c \in Components : sets[c] \in SetType /\ Consistent(sets[c])
           /\ \A s \in System : /\ s # 0 /\ s \in 1..Systems
                                /\ deferredActions[s] \in Seq(ActionType)
                                /\ Len(deferredActions[s]) \in Nat
                                /\ deferredEntities[s] \in Seq(DeferredEntityType)
                                /\ Len(deferredEntities[s]) \in Nat
           /\ \A s \in System : \A k \in 1..Len(deferredActions[s]) :
                 deferredActions[s][k] \in ActionType
           /\ \A s \in System : \A i \in 1..Len(deferredEntities[s]) :
                 /\ deferredEntities[s][i] \in DeferredEntityType
                 /\ deferredEntities[s][i].components \in Seq(DeferredComponent)
<1>1. /\ created \in Seq(EntityType) /\ Len(created) \in Nat /\ alive \subseteq 1..Len(created)
      /\ owned \in Seq(OwnedType) /\ Len(owned) = Len(created)
      /\ touched \in Seq(0..Systems) /\ Len(touched) = Len(created)
  BY DEF EcsInv, TypeOK, CallerTypeOK, OwnedType
<1>2. ASSUME NEW n \in 1..Len(created)
      PROVE  /\ created[n] \in EntityType /\ created[n].id \in Ids /\ created[n].id < N
             /\ owned[n] \in OwnedType /\ touched[n] \in 0..Systems
  <2>1. created[n] \in EntityType /\ owned[n] \in OwnedType /\ touched[n] \in 0..Systems
    BY <1>1, ElementOfSeq
  <2>2. created[n].id \in 0..MaxEntities - 1 /\ MaxEntities \in Nat
    BY <2>1, EcsConstants DEF EntityType
  <2>3. created[n].id < Len(generations) /\ Len(generations) <= N /\ Len(generations) \in Nat
    BY DEF Cares, IdsFit, EcsInv, TypeOK, WorldTypeOK
  <2> QED BY <2>1, <2>2, <2>3, EcsConstants DEF Ids
<1>3. \A c \in Components : sets[c] \in SetType /\ Consistent(sets[c])
  BY DEF EcsInv, TypeOK, WorldTypeOK, SetsConsistent
<1>4. \A s \in System : /\ deferredActions[s] \in Seq(ActionType)
                        /\ Len(deferredActions[s]) \in Nat
                        /\ deferredEntities[s] \in Seq(DeferredEntityType)
                        /\ Len(deferredEntities[s]) \in Nat
  BY DEF EcsInv, TypeOK, RunTypeOK
<1>5. \A s \in System : \A k \in 1..Len(deferredActions[s]) : deferredActions[s][k] \in ActionType
  BY <1>4, ElementOfSeq
<1>6. ASSUME NEW s \in System, NEW i \in 1..Len(deferredEntities[s])
      PROVE  /\ deferredEntities[s][i] \in DeferredEntityType
             /\ deferredEntities[s][i].components \in Seq(DeferredComponent)
  <2>1. deferredEntities[s][i] \in DeferredEntityType
    BY <1>4, ElementOfSeq
  <2> QED BY <2>1 DEF DeferredEntityType, DeferredComponent
<1>7. Systems \in Nat \ {0} /\ turn \in System /\ \A s \in System : s # 0 /\ s \in 1..Systems
  BY EcsConstants DEF System, EcsInv, TypeOK, RunTypeOK
<1> QED BY <1>1, <1>2, <1>3, <1>4, <1>5, <1>6, <1>7

\* Handles of entities of the world tell them apart, in the sets as well.
LEMMA HousedApart ==
    ASSUME EcsInv, Cares, AgreeInv, NEW n \in 1..Len(created), Housed(n)
    PROVE  /\ \A m \in 1..Len(created) :
                 Housed(m) /\ m # n => /\ created[m] # created[n]
                                       /\ created[m].id # created[n].id
                                       /\ created[m].id \in Ids \ {created[n].id}
           /\ \A c \in Components : \A k \in 1..Len(sets[c].entities) :
                 sets[c].entities[k].id = created[n].id => sets[c].entities[k] = created[n]
           /\ \A s \in System :
                 /\ \A k \in 1..Len(deferredActions[s]) :
                       deferredActions[s][k].entity.id = created[n].id
                          => deferredActions[s][k].entity = created[n] /\ touched[n] = s
                 /\ \A i \in 1..Len(deferredEntities[s]) :
                       deferredEntities[s][i].entity.id = created[n].id
                          => deferredEntities[s][i].entity = created[n] /\ touched[n] = s
           /\ InWorld(created[n])
<1>1. \A m \in 1..Len(created) : Housed(m) /\ created[m].id = created[n].id => m = n
  BY DEF AgreeInv, HousesInv
<1>2. \A m \in 1..Len(created) : created[m].id \in Ids
  BY AgreeFacts
<1>3. \A e : IsHoused(e) /\ e.id = created[n].id => e = created[n]
  BY <1>1 DEF IsHoused
<1>4. \A s, e : IsNamedBy(s, e) /\ e.id = created[n].id => e = created[n] /\ touched[n] = s
  BY <1>1 DEF IsNamedBy
<1>5. InWorld(created[n])
  BY DEF AgreeInv, HousesInv, InWorld
<1>6. \A c \in Components : \A k \in 1..Len(sets[c].entities) :
         sets[c].entities[k].id = created[n].id => sets[c].entities[k] = created[n]
  BY <1>3 DEF AgreeInv, HandlesInv
<1>7. \A s \in System : \A k \in 1..Len(deferredActions[s]) :
         deferredActions[s][k].entity.id = created[n].id
            => deferredActions[s][k].entity = created[n] /\ touched[n] = s
  BY <1>4 DEF AgreeInv, ActionsInv
<1>8. \A s \in System : \A i \in 1..Len(deferredEntities[s]) :
         deferredEntities[s][i].entity.id = created[n].id
            => deferredEntities[s][i].entity = created[n] /\ touched[n] = s
  BY <1>4 DEF AgreeInv, DefsInv
<1> QED BY <1>1, <1>2, <1>5, <1>6, <1>7, <1>8

\* No context has calls about an entity that its system has not named.
LEMMA NotNamed ==
    ASSUME EcsInv, Cares, AgreeInv, NEW n \in 1..Len(created), Housed(n),
           NEW s \in System, touched[n] # s
    PROVE  /\ \A k \in 1..Len(deferredActions[s]) : deferredActions[s][k].entity # created[n]
           /\ \A i \in 1..Len(deferredEntities[s]) : deferredEntities[s][i].entity # created[n]
           /\ \A c : /\ NoAction(deferredActions[s], created[n], c)
                     /\ NoComponent(deferredEntities[s], created[n], c)
<1>1. \A k \in 1..Len(deferredActions[s]) : deferredActions[s][k].entity # created[n]
  BY HousedApart
<1>2. \A i \in 1..Len(deferredEntities[s]) : deferredEntities[s][i].entity # created[n]
  BY HousedApart
<1> QED BY <1>1, <1>2 DEF NoAction, NoComponent, Gives

\* Steps that neither house nor evict anyone.
LEMMA HousesKept ==
    ASSUME AgreeInv, UNCHANGED <<entities, created>>,
           \A n \in 1..Len(created) : Housed(n)' <=> Housed(n)
    PROVE  HousesInv' /\ \A e : IsHoused(e) => IsHoused(e)'
<1>1. \A e : IsHoused(e) => IsHoused(e)'
  BY DEF IsHoused
<1>2. HousesInv'
  BY <1>1 DEF AgreeInv, HousesInv
<1> QED BY <1>1, <1>2
\* An entity that is added: its id is nobody's.
LEMMA NewIdApart ==
    ASSUME EcsInv, NEW i \in 1..Len(entities)
    PROVE  entities[i].id # NewEntity.id
<1>1. /\ Len(entities) \in Nat /\ Len(deadEntities) \in Nat
      /\ deadEntities \in Seq(0..MaxEntities - 1)
      /\ entities[i].id \in 0..Len(generations) - 1
      /\ Len(entities) + Len(deadEntities) = Len(generations)
      /\ \A j \in 1..Len(deadEntities) : entities[i].id # deadEntities[j]
  BY DEF EcsInv, TypeOK, WorldTypeOK, IdsPartitioned
<1>2. CASE deadEntities # <<>>
  <2>1. Len(deadEntities) \in 1..Len(deadEntities)
    BY <1>1, <1>2, EmptySeq
  <2>2. NewEntity.id = deadEntities[Len(deadEntities)]
    BY <1>2 DEF NewEntity, RecycledId
  <2> QED BY <1>1, <2>1, <2>2
<1>3. CASE deadEntities = <<>>
  <2>1. Len(deadEntities) = 0 /\ NewEntity.id = Len(entities)
    BY <1>3 DEF NewEntity, NewId
  <2> QED BY <1>1, <2>1
<1> QED BY <1>2, <1>3

LEMMA AddedGenerations ==
    ASSUME EcsInv, Len(created) < MaxEntities, AddEntityToWorld
    PROVE  /\ Len(generations') \in Nat /\ Len(generations) <= Len(generations')
           /\ NewEntity.id < Len(generations')
           /\ Len(generations') = Len(generations) \/ Len(generations') = Len(entities')
<1>1. /\ Len(entities) \in Nat /\ Len(deadEntities) \in Nat /\ Len(generations) \in Nat
      /\ deadEntities \in Seq(0..MaxEntities - 1) /\ generations \in Seq(0..MaxEntities)
      /\ Len(entities) + Len(deadEntities) = Len(generations)
      /\ \A j \in 1..Len(deadEntities) : deadEntities[j] \in 0..Len(generations) - 1
  BY DEF EcsInv, TypeOK, WorldTypeOK, IdsPartitioned
<1>2. CASE deadEntities # <<>>
  <2>1. NewEntity.id \in 0..Len(generations) - 1
    <3>1. Len(deadEntities) \in 1..Len(deadEntities)
      BY <1>1, <1>2, EmptySeq
    <3> QED BY <1>1, <1>2, <3>1 DEF NewEntity, RecycledId
  <2>2. Len(generations') = Len(generations)
    <3>1. PICK k \in 1..Len(generations) : k = RecycledId + 1
      BY <1>1, <1>2, <2>1 DEF NewEntity
    <3>2. generations \in Seq(Nat) /\ generations[k] \in Nat
      <4>1. generations \in [1..Len(generations) -> 0..MaxEntities] /\ 0..MaxEntities \subseteq Nat
        BY <1>1, LenProperties, EcsConstants
      <4>2. \A l \in 1..Len(generations) : generations[l] \in Nat
        BY <4>1
      <4> QED BY <1>1, <4>1, <4>2, IsASeq
    <3>3. generations' = [generations EXCEPT ![k] = generations[k] + 1]
      BY <1>2, <3>1 DEF AddEntityToWorld
    <3> QED BY <3>2, <3>3, ExceptSeq
  <2> QED BY <1>1, <2>1, <2>2
<1>3. CASE deadEntities = <<>>
  <2>1. Len(deadEntities) = 0 /\ NewEntity.id = Len(entities)
    BY <1>3 DEF NewEntity, NewId
  <2>2. Len(generations') = Len(generations) + 1
    BY <1>1, <1>3 DEF AddEntityToWorld
  <2>3. Len(entities') = Len(entities) + 1
    BY AddedEntityFits
  <2> QED BY <1>1, <2>1, <2>2, <2>3
<1> QED BY <1>2, <1>3

LEMMA AddAgrees ==
    ASSUME EcsInv, Cares, AgreeInv, IdsFit', NEW s \in 0..Systems, Len(created) < MaxEntities,
           AddEntityToWorld, CallerCreates(s),
           UNCHANGED <<sets, phase, turn, deferredActions, failed, stripped>>,
           \/ s = 0 /\ UNCHANGED deferredEntities
           \/ s # 0 /\ phase = "systems" /\ deferredEntities' =
                [deferredEntities EXCEPT ![s] = Append(@, [entity |-> NewEntity, components |-> <<>>])]
    PROVE  AgreeInv'
<1>0. PICK new \in Nat : new = Len(created) + 1
  BY AgreeFacts
<1>1. PICK e0 \in EntityType : e0 = NewEntity /\ e0.id \in Ids
  <2>1. PICK e \in EntityType : e = NewEntity
    BY NewEntityFits
  <2>2. created' = Append(created, e) /\ created \in Seq(EntityType)
    BY <2>1 DEF CallerCreates, EcsInv, TypeOK, CallerTypeOK
  <2>3. Len(created') = Len(created) + 1 /\ created'[Len(created) + 1] = e
    BY <2>1, <2>2, Appended
  <2>4. Len(created) + 1 \in 1..Len(created')
    BY <2>2, <2>3
  <2>5. e.id < Len(generations') /\ Len(generations') <= N /\ Len(generations') \in Nat
    BY <2>3, <2>4, AddedGenerations DEF IdsFit
  <2>6. e.id \in Nat
    BY <2>1, EcsConstants DEF EntityType
  <2> QED BY <2>1, <2>5, <2>6, EcsConstants DEF Ids
<1>2. /\ Len(created) \in Nat /\ new \in 1..new
      /\ \A n \in 1..new : n = new \/ n \in 1..Len(created)
      /\ \A n \in 1..Len(created) : n \in 1..new /\ n # new
  BY <1>0, AgreeFacts
<1>3. /\ Len(created') = new /\ created'[new] = e0
      /\ \A n \in 1..Len(created) : created'[n] = created[n]
  <2>1. created \in Seq(EntityType)
    BY DEF EcsInv, TypeOK, CallerTypeOK
  <2> QED BY <1>0, <1>1, <2>1, Appended DEF CallerCreates
<1>4. /\ touched'[new] = s
      /\ \A n \in 1..Len(created) : touched'[n] = touched[n]
  <2>1. touched \in Seq(0..Systems) /\ Len(touched) = Len(created)
    BY DEF EcsInv, TypeOK, CallerTypeOK
  <2> QED BY <1>0, <2>1, Appended DEF CallerCreates
<1>5. /\ \A c \in Components : owned'[new][c] = Nothing
      /\ \A n \in 1..Len(created) : owned'[n] = owned[n]
  <2>1. owned \in Seq(OwnedType) /\ Len(owned) = Len(created)
    BY DEF EcsInv, TypeOK, CallerTypeOK, OwnedType
  <2>2. [c \in Components |-> Nothing] \in OwnedType
    BY DEF OwnedType
  <2>3. owned' = Append(owned, [c \in Components |-> Nothing])
    BY <1>0 DEF CallerCreates
  <2> QED BY <1>0, <2>1, <2>2, <2>3, Appended
<1>6. alive' = alive \cup {new}
  BY <1>0 DEF CallerCreates
<1>7. /\ Len(entities) \in Nat /\ Len(entities') = Len(entities) + 1
      /\ \A i \in 1..Len(entities) : entities'[i] = entities[i]
      /\ entities'[Len(entities) + 1] = e0
  BY <1>1, AddedEntityFits DEF EcsInv, TypeOK, WorldTypeOK
<1>8. PICK d \in DeferredEntityType : d = [entity |-> e0, components |-> <<>>]
  <2>1. [entity |-> e0, components |-> <<>>] \in DeferredEntityType
    BY <1>1, EmptySeq DEF DeferredEntityType
  <2> QED BY <2>1
<1>9. d.entity = e0 /\ d.components = <<>>
  BY <1>8
<1>10. \A t \in System : \/ deferredEntities'[t] = deferredEntities[t]
                         \/ /\ t = s
                            /\ deferredEntities'[t] = Append(deferredEntities[t], d)
  BY <1>1, <1>8 DEF System, EcsInv, TypeOK, RunTypeOK
<1>11. \A n \in 1..Len(created) : Housed(n)' <=> Housed(n)
  BY <1>2, <1>3, <1>4, <1>6 DEF Housed
<1>12. Housed(new)'
  BY <1>6 DEF Housed
<1>13. /\ \A e : IsHoused(e) => IsHoused(e)'
       /\ \A t, e : IsNamedBy(t, e) => IsNamedBy(t, e)'
       /\ IsHoused(e0)' /\ IsNamedBy(s, e0)'
  BY <1>2, <1>3, <1>4, <1>11, <1>12 DEF IsHoused, IsNamedBy
<1>14. \A e : IsHoused(e) => e.id # e0.id
  <2>1. \A i \in 1..Len(entities) : entities[i].id # e0.id
    BY <1>1, NewIdApart
  <2>2. \A e : IsHoused(e) => \E i \in 1..Len(entities) : entities[i] = e
    BY DEF AgreeInv, HousesInv, IsHoused
  <2> QED BY <2>1, <2>2
<1>15. \A n \in 1..Len(created) : Housed(n) => created[n].id # e0.id
  BY <1>14 DEF IsHoused
<1>16. \A t, e : IsNamedBy(t, e) => IsHoused(e)
  BY DEF IsNamedBy, IsHoused
<1>17. HousesInv'
  <2>1. ASSUME NEW n \in 1..new, Housed(n)' PROVE \E i \in 1..Len(entities') : entities'[i] = created'[n]
    <3>1. CASE n = new
      <4>1. Len(entities) + 1 \in 1..Len(entities')
        BY <1>7
      <4> QED BY <1>3, <1>7, <3>1, <4>1
    <3>2. CASE n # new
      <4>1. n \in 1..Len(created) /\ Housed(n)
        BY <1>2, <1>11, <2>1, <3>2
      <4>2. PICK i \in 1..Len(entities) : entities[i] = created[n]
        BY <4>1 DEF AgreeInv, HousesInv
      <4>3. i \in 1..Len(entities')
        BY <1>7
      <4> QED BY <1>3, <1>7, <4>1, <4>2, <4>3
    <3> QED BY <3>1, <3>2
  <2>2. ASSUME NEW i \in 1..Len(entities')
        PROVE  \E n \in 1..Len(created') : Housed(n)' /\ created'[n] = entities'[i]
    <3>1. i \in 1..Len(entities) \/ i = Len(entities) + 1
      BY <1>7
    <3>2. PICK e : e = entities'[i]
      OBVIOUS
    <3>3. IsHoused(e) \/ e = e0
      BY <1>7, <3>1, <3>2 DEF AgreeInv, HousesInv
    <3>4. IsHoused(e)'
      BY <1>13, <3>3
    <3> QED BY <3>2, <3>4 DEF IsHoused
  <2>3. ASSUME NEW n \in 1..new, NEW m \in 1..new, Housed(n)', Housed(m)',
               created'[n].id = created'[m].id
        PROVE  n = m
    BY <1>2, <1>3, <1>11, <1>15, <2>3 DEF AgreeInv, HousesInv
  <2> QED BY <1>3, <2>1, <2>2, <2>3 DEF HousesInv, IsHoused
<1>18. HandlesInv'
  BY <1>13 DEF AgreeInv, HandlesInv
<1>19. PlaceInv'
  BY <1>10 DEF AgreeInv, PlaceInv
<1>20. ActionsInv'
  <2>1. ASSUME NEW t \in System, NEW k \in 1..Len(deferredActions[t]),
               deferredActions[t][k].do = "destroy", NEW n \in alive'
        PROVE  created'[n] # deferredActions[t][k].entity
    <3>1. IsHoused(deferredActions[t][k].entity)
      BY <1>16 DEF AgreeInv, ActionsInv
    <3>2. CASE n = new
      BY <1>3, <1>14, <3>1, <3>2
    <3>3. CASE n # new
      BY <1>3, <1>6, <2>1, <3>3, AgreeFacts DEF AgreeInv, ActionsInv
    <3> QED BY <3>2, <3>3
  <2> QED BY <1>13, <2>1 DEF AgreeInv, ActionsInv
<1>21. ASSUME NEW t \in System, NEW i \in 1..Len(deferredEntities'[t])
      PROVE  \/ i \in 1..Len(deferredEntities[t]) /\ deferredEntities'[t][i] = deferredEntities[t][i]
             \/ t = s /\ i = Len(deferredEntities[t]) + 1 /\ deferredEntities'[t][i] = d
  <2>1. deferredEntities[t] \in Seq(DeferredEntityType) /\ Len(deferredEntities[t]) \in Nat
    BY AgreeFacts
  <2>2. CASE deferredEntities'[t] = deferredEntities[t]
    BY <2>2
  <2>3. CASE t = s /\ deferredEntities'[t] = Append(deferredEntities[t], d)
    <3>1. /\ Len(deferredEntities'[t]) = Len(deferredEntities[t]) + 1
          /\ \A j \in 1..Len(deferredEntities[t]) :
                deferredEntities'[t][j] = deferredEntities[t][j]
          /\ deferredEntities'[t][Len(deferredEntities[t]) + 1] = d
      BY <2>1, <2>3, Appended
    <3>2. i \in 1..Len(deferredEntities[t]) \/ i = Len(deferredEntities[t]) + 1
      BY <2>1, <3>1
    <3> QED BY <2>3, <3>1, <3>2
  <2> QED BY <1>10, <2>2, <2>3
<1>22. DefsInv'
  <2>2. ASSUME NEW t \in System, NEW i \in 1..Len(deferredEntities[t])
        PROVE  /\ IsNamedBy(t, deferredEntities[t][i].entity)
               /\ deferredEntities[t][i].entity.id # e0.id
    BY <1>14, <1>16 DEF AgreeInv, DefsInv
  <2>3. ASSUME NEW t \in System, NEW i \in 1..Len(deferredEntities'[t])
        PROVE  \E n \in 1..Len(created') :
                  /\ Housed(n)' /\ touched'[n] = t
                  /\ created'[n] = deferredEntities'[t][i].entity
    <3>1. PICK e : e = deferredEntities'[t][i].entity
      OBVIOUS
    <3>2. IsNamedBy(t, e)'
      BY <1>9, <1>13, <1>21, <2>2, <3>1
    <3> QED BY <3>1, <3>2 DEF IsNamedBy
  <2>4. ASSUME NEW t \in System, NEW i \in 1..Len(deferredEntities'[t]),
               NEW j \in 1..Len(deferredEntities'[t]),
               deferredEntities'[t][i].entity.id = deferredEntities'[t][j].entity.id
        PROVE  i = j
    <3>1. CASE i \in 1..Len(deferredEntities[t]) /\ j \in 1..Len(deferredEntities[t])
      <4>1. /\ deferredEntities'[t][i] = deferredEntities[t][i]
            /\ deferredEntities'[t][j] = deferredEntities[t][j]
        BY SMTT(30), <1>21, <3>1, AgreeFacts
      <4> QED BY <2>4, <3>1, <4>1 DEF AgreeInv, DefsInv
    <3>2. CASE ~(i \in 1..Len(deferredEntities[t]) /\ j \in 1..Len(deferredEntities[t]))
      BY SMTT(30), <1>9, <1>21, <2>2, <2>4, <3>2
    <3> QED BY <3>1, <3>2
  <2> QED BY <2>3, <2>4 DEF DefsInv, IsNamedBy
<1>23. BuildInv'
  <2> SUFFICES ASSUME NEW n \in alive' \ stripped, NEW t \in System,
                      NEW i \in 1..Len(deferredEntities'[t]),
                      NEW k \in 1..Len(deferredActions[t]),
                      deferredEntities'[t][i].entity = created'[n],
                      deferredActions[t][k].entity = created'[n]
               PROVE  FALSE
    BY DEF BuildInv
  <2>1. deferredActions[t][k].entity.id # e0.id
    BY <1>14, <1>16 DEF AgreeInv, ActionsInv
  <2>2. n # new /\ n \in alive \ stripped
    BY <1>3, <1>6, <2>1
  <2>3. deferredEntities'[t][i] # d
    BY <1>9, <2>1
  <2>4. i \in 1..Len(deferredEntities[t]) /\ deferredEntities'[t][i] = deferredEntities[t][i]
    BY <1>21, <2>3
  <2>5. created'[n] = created[n]
    BY <1>3, <2>2, AgreeFacts
  <2> QED BY <2>2, <2>4, <2>5 DEF AgreeInv, BuildInv
<1>24. WillInv'
  <2>1. ASSUME NEW n \in 1..Len(created), NEW c \in Components, Housed(n),
               NEW t \in System, touched[n] \in {0, t}
        PROVE  Will(deferredActions[t], deferredEntities'[t], sets[c], created[n], c, owned[n][c])
    <3>1. Will(deferredActions[t], deferredEntities[t], sets[c], created[n], c, owned[n][c])
      BY <2>1 DEF AgreeInv, WillInv, WillBe
    <3>2. deferredEntities[t] \in Seq(DeferredEntityType)
      BY AgreeFacts
    <3>3. /\ NoComponent(deferredEntities[t], created[n], c)
                => NoComponent(deferredEntities'[t], created[n], c)
          /\ \A v : LastComponent(deferredEntities[t], created[n], c, v)
                       => LastComponent(deferredEntities'[t], created[n], c, v)
      <4>1. CASE deferredEntities'[t] = deferredEntities[t]
        BY <4>1
      <4>2. CASE deferredEntities'[t] = Append(deferredEntities[t], d)
        <5>1. d.components = <<>>
          BY <1>9
        <5> QED BY ONLY <1>8, <3>2, <4>2, <5>1, DefsAppended
      <4> QED BY <1>10, <4>1, <4>2
    <3> QED BY <3>1, <3>3 DEF Will
  <2>2. ASSUME NEW c \in Components, NEW t \in System
        PROVE  Will(deferredActions[t], deferredEntities'[t], sets[c], e0, c, Nothing)
    <3>1. NoAction(deferredActions[t], e0, c)
      BY <1>14, <1>16 DEF AgreeInv, ActionsInv, NoAction, Gives
    <3>2. ASSUME NEW i \in 1..Len(deferredEntities[t]) PROVE deferredEntities[t][i].entity # e0
      BY <1>14, <1>16 DEF AgreeInv, DefsInv
    <3>3. NoComponent(deferredEntities'[t], e0, c)
      BY <1>9, <1>21, <3>2 DEF NoComponent, NoneOfType
    <3>4. \A k \in 1..Len(sets[c].entities) : sets[c].entities[k].id # e0.id
      BY <1>14 DEF AgreeInv, HandlesInv
    <3>5. At(sets[c], e0) = Nothing
      BY <1>1, <3>4, AgreeFacts, ContainedIn
    <3> QED BY <3>1, <3>3, <3>5 DEF Will
  <2>3. ASSUME NEW n \in 1..new, NEW c \in Components, Housed(n)',
               NEW t \in System, touched'[n] \in {0, t}
        PROVE  Will(deferredActions[t], deferredEntities'[t], sets[c], created'[n], c, owned'[n][c])
    <3>1. CASE n = new
      BY <1>3, <1>5, <2>2, <3>1
    <3>2. CASE n # new
      <4>1. n \in 1..Len(created) /\ Housed(n) /\ touched[n] \in {0, t}
        BY <1>2, <1>4, <1>11, <2>3, <3>2
      <4> QED BY <1>3, <1>5, <2>1, <4>1
    <3> QED BY <3>1, <3>2
  <2>4. ASSUME NEW n \in 1..new, NEW c \in Components, Housed(n)', n \notin alive'
        PROVE  owned'[n][c] = Nothing
    <3>1. n \in 1..Len(created) /\ Housed(n) /\ n \notin alive
      BY <1>2, <1>6, <1>11, <2>4
    <3> QED BY <1>5, <3>1 DEF AgreeInv, WillInv
  <2> QED BY <1>3, <2>3, <2>4 DEF WillInv, WillBe
<1>25. TouchedInv'
  BY <1>2, <1>3, <1>4, <1>11, <1>12 DEF AgreeInv, TouchedInv
<1> QED BY <1>17, <1>18, <1>19, <1>20, <1>22, <1>23, <1>24, <1>25 DEF AgreeInv, AssertionsHold

-----------------------------------------------------------------------------
(***************************************************************************)
(* Components that are set or removed in the world.                        *)
(***************************************************************************)
\* The set of component type c once entity e has been given v, or nothing.
SetGiven(set, e, v) == IF v = Nothing THEN Remove(set, e) ELSE Insert(set, e, v)

LEMMA GivenFinds ==
    ASSUME EcsInv, Cares, AgreeInv, NEW n \in 1..Len(created), Housed(n), NEW c \in Components,
           NEW v \in Values \cup {Nothing},
           sets' = [sets EXCEPT ![c] = SetGiven(sets[c], created[n], v)]
    PROVE  /\ At(sets'[c], created[n]) = v
           /\ \A m \in 1..Len(created), d \in Components :
                 Housed(m) /\ ~(m = n /\ d = c)
                    => At(sets'[d], created[m]) = At(sets[d], created[m])
           /\ \A d \in Components : \A k \in 1..Len(sets'[d].entities) :
                 IsHoused(sets'[d].entities[k])
<1>1. PICK e \in EntityType : e = created[n] /\ e.id < N /\ e.id \in Ids
  BY AgreeFacts
<1>2. PICK set \in SetType : set = sets[c] /\ Consistent(set)
  BY AgreeFacts
<1>3. \A k \in 1..Len(set.entities) :
         set.entities[k].id = e.id => set.entities[k].generation = e.generation
  BY <1>1, <1>2, HousedApart
<1>4. /\ At(SetGiven(set, e, v), e) = v
      /\ \A f : f.id \in Ids \ {e.id} => At(SetGiven(set, e, v), f) = At(set, f)
      /\ \A k \in 1..Len(SetGiven(set, e, v).entities) :
            \/ SetGiven(set, e, v).entities[k] = e
            \/ InSet(set, SetGiven(set, e, v).entities[k])
  <2>1. CASE v = Nothing
    <3>1. SetGiven(set, e, v) = Remove(set, e)
      BY <2>1 DEF SetGiven
    <3> QED BY ONLY <1>1, <1>2, <2>1, <3>1, RemoveFinds
  <2>2. CASE v # Nothing
    <3>1. SetGiven(set, e, v) = Insert(set, e, v) /\ v \in Values
      BY <2>2 DEF SetGiven
    <3> QED BY ONLY <1>1, <1>2, <1>3, <3>1, InsertFinds
  <2> QED BY <2>1, <2>2
<1>5. /\ sets'[c] = SetGiven(set, e, v)
      /\ \A d \in Components \ {c} : sets'[d] = sets[d]
  BY <1>1, <1>2 DEF EcsInv, TypeOK, WorldTypeOK
<1>6. ASSUME NEW m \in 1..Len(created), NEW d \in Components, Housed(m), ~(m = n /\ d = c)
      PROVE  At(sets'[d], created[m]) = At(sets[d], created[m])
  <2>1. CASE d # c
    BY <1>5, <2>1
  <2>2. CASE d = c
    <3>1. created[m].id \in Ids \ {e.id}
      BY <1>1, <1>6, <2>2, HousedApart
    <3> QED BY <1>2, <1>4, <1>5, <2>2, <3>1
  <2> QED BY <2>1, <2>2
<1>7. ASSUME NEW d \in Components, NEW k \in 1..Len(sets'[d].entities)
      PROVE  IsHoused(sets'[d].entities[k])
  <2>1. CASE d # c
    BY <1>5, <2>1 DEF AgreeInv, HandlesInv
  <2>2. CASE d = c
    <3>1. \A f : InSet(set, f) => IsHoused(f)
      BY <1>2 DEF AgreeInv, HandlesInv, InSet
    <3>2. IsHoused(e)
      BY <1>1 DEF IsHoused
    <3> QED BY <1>4, <1>5, <2>2, <3>1, <3>2
  <2> QED BY <2>1, <2>2
<1> QED BY <1>1, <1>4, <1>5, <1>6, <1>7

LEMMA AddGives ==
    ASSUME EcsInv, Cares, AgreeInv, NEW n \in 1..Len(created), NEW c \in Components, NEW v \in Values,
           AddComponentToWorld(created[n], c, v)
    PROVE  failed' = failed /\ sets' = [sets EXCEPT ![c] = SetGiven(sets[c], created[n], v)]
<1>1. created[n].id < N /\ v # Nothing
  BY AgreeFacts, WorldAssumption
<1> QED BY <1>1 DEF AddComponentToWorld, SetGiven

LEMMA RemoveGives ==
    ASSUME NEW n, NEW c \in Components, RemoveComponentFromWorld(created[n], c)
    PROVE  sets' = [sets EXCEPT ![c] = SetGiven(sets[c], created[n], Nothing)]
BY DEF RemoveComponentFromWorld, SetGiven

\* What the callers' record of components says after a change of it.
LEMMA SetsOwned ==
    ASSUME EcsInv, Cares, NEW n \in 1..Len(created), NEW c \in Components,
           NEW v \in Values \cup {Nothing}, CallerSets(n, c, v)
    PROVE  \A m \in 1..Len(created), d \in Components :
              owned'[m][d] = IF m = n /\ d = c THEN v ELSE owned[m][d]
<1>1. owned \in Seq(OwnedType) /\ Len(owned) = Len(created)
  BY DEF EcsInv, TypeOK, CallerTypeOK, OwnedType
<1>2. owned[n] \in OwnedType /\ owned[n] \in [Components -> Values \cup {Nothing}]
  BY AgreeFacts DEF OwnedType
<1>3. PICK w \in OwnedType : w = [owned[n] EXCEPT ![c] = v]
  BY <1>2 DEF OwnedType
<1>4. \A d \in Components : w[d] = IF d = c THEN v ELSE owned[n][d]
  BY <1>2, <1>3
<1>5. owned' = [owned EXCEPT ![n] = w]
  BY <1>3 DEF CallerSets
<1>6. \A m \in 1..Len(created) : owned'[m] = IF m = n THEN w ELSE owned[m]
  BY <1>1, <1>3, <1>5, ExceptSeq
<1> QED BY <1>4, <1>6

\* A direct call.
LEMMA DirectGiveAgrees ==
    ASSUME EcsInv, Cares, AgreeInv, NEW n \in alive, touched[n] = 0, NEW c \in Components,
           NEW v \in Values \cup {Nothing}, CallerSets(n, c, v),
           sets' = [sets EXCEPT ![c] = SetGiven(sets[c], created[n], v)],
           UNCHANGED <<entities, runVars, failed, created, alive, touched, stripped>>
    PROVE  AgreeInv'
<1>1. n \in 1..Len(created) /\ Housed(n)
  BY AgreeFacts DEF Housed
<1>1a. /\ At(sets'[c], created[n]) = v
       /\ \A m \in 1..Len(created), d \in Components :
             Housed(m) /\ ~(m = n /\ d = c)
                => At(sets'[d], created[m]) = At(sets[d], created[m])
       /\ \A d \in Components : \A k \in 1..Len(sets'[d].entities) :
             IsHoused(sets'[d].entities[k])
  <2>1. /\ EcsInv /\ Cares /\ AgreeInv /\ n \in 1..Len(created) /\ Housed(n)
        /\ sets' = [sets EXCEPT ![c] = SetGiven(sets[c], created[n], v)]
    BY <1>1
  <2> QED BY ONLY ZenonT(30), <2>1, GivenFinds
<1>2. \A m \in 1..Len(created) : Housed(m)' <=> Housed(m)
  BY DEF Housed, runVars
<1>3. HousesInv' /\ \A e : IsHoused(e) => IsHoused(e)'
  BY <1>2, HousesKept
<1>4. \A s, e : IsNamedBy(s, e) => IsNamedBy(s, e)'
  BY <1>2 DEF IsNamedBy
<1>5. HandlesInv'
  <2> SUFFICES ASSUME NEW d \in Components, NEW k \in 1..Len(sets'[d].entities)
               PROVE  \E m \in 1..Len(created') : Housed(m)' /\ created'[m] = sets'[d].entities[k]
    BY DEF HandlesInv, IsHoused
  <2>1. IsHoused(sets'[d].entities[k])
    BY <1>1a
  <2> QED BY <1>2, <2>1 DEF IsHoused
<1>6. PlaceInv' /\ BuildInv'
  BY DEF AgreeInv, PlaceInv, BuildInv, runVars
<1>7. ActionsInv' /\ DefsInv'
  BY <1>4 DEF AgreeInv, ActionsInv, DefsInv, runVars
<1>8. ASSUME NEW m \in 1..Len(created), NEW d \in Components, Housed(m)
      PROVE  /\ \A s \in System : touched[m] \in {0, s} =>
                   Will(deferredActions[s], deferredEntities[s], sets'[d], created[m], d, owned'[m][d])
             /\ m \notin alive => owned'[m][d] = Nothing
  <2>1. CASE m = n /\ d = c
    <3>1. /\ \A s \in System : /\ NoAction(deferredActions[s], created[n], c)
                               /\ NoComponent(deferredEntities[s], created[n], c)
          /\ At(sets'[c], created[n]) = v /\ owned'[n][c] = v
      <4>1. \A s \in System : touched[n] # s
        BY AgreeFacts
      <4>2. \A s \in System : /\ NoAction(deferredActions[s], created[n], c)
                              /\ NoComponent(deferredEntities[s], created[n], c)
        BY <1>1, <4>1, NotNamed
      <4>3. owned'[n][c] = v
        BY <1>1, SetsOwned
      <4>4. At(sets'[c], created[n]) = v
        BY <1>1a
      <4> QED BY <4>2, <4>3, <4>4
    <3> QED BY <2>1, <3>1 DEF Will
  <2>2. CASE ~(m = n /\ d = c)
    <3>1. owned'[m][d] = owned[m][d] /\ At(sets'[d], created[m]) = At(sets[d], created[m])
      <4>1. owned'[m][d] = owned[m][d]
        BY <1>1, <2>2, SetsOwned
      <4>2. At(sets'[d], created[m]) = At(sets[d], created[m])
        BY <1>1a, <1>8, <2>2
      <4> QED BY <4>1, <4>2
    <3>2. /\ \A s \in System : touched[m] \in {0, s} =>
                Will(deferredActions[s], deferredEntities[s], sets[d], created[m], d, owned[m][d])
          /\ m \notin alive => owned[m][d] = Nothing
      BY <1>8 DEF AgreeInv, WillInv, WillBe
    <3> QED BY <3>1, <3>2 DEF Will
  <2> QED BY <2>1, <2>2
<1>9. WillInv'
  BY <1>2, <1>8 DEF WillInv, WillBe, runVars
<1>10. TouchedInv'
  BY <1>2 DEF AgreeInv, TouchedInv, runVars
<1> QED BY <1>3, <1>5, <1>6, <1>7, <1>9, <1>10 DEF AgreeInv, AssertionsHold

-----------------------------------------------------------------------------
(***************************************************************************)
(* An entity that leaves the world.                                        *)
(***************************************************************************)
LEMMA EvictFinds ==
    ASSUME EcsInv, Cares, AgreeInv, NEW n \in 1..Len(created), Housed(n),
           \A c \in Components : At(sets[c], created[n]) = Nothing,
           RemoveEntityFromWorld(created[n])
    PROVE  /\ failed' = failed /\ sets' = sets
           /\ \A m \in 1..Len(created) : Housed(m) /\ m # n =>
                 \E i \in 1..Len(entities') : entities'[i] = created[m]
           /\ \A i \in 1..Len(entities') : \E m \in 1..Len(created) :
                 Housed(m) /\ m # n /\ created[m] = entities'[i]
           /\ \A c \in Components : \A k \in 1..Len(sets[c].entities) :
                 \E m \in 1..Len(created) :
                    Housed(m) /\ m # n /\ created[m] = sets[c].entities[k]
<1>1. InWorld(created[n])
  BY HousedApart
<1>2. PICK len \in Nat : len = Len(entities) /\ entities \in Seq(EntityType)
  BY DEF EcsInv, TypeOK, WorldTypeOK
<1>3. PICK p \in 1..len : entities[p].id = created[n].id
  BY <1>1, <1>2 DEF InWorld
<1>4. \A i \in 1..len : entities[i].id = created[n].id <=> i = p
  BY <1>2, <1>3 DEF EcsInv, IdsPartitioned
<1>5. PlaceOf(created[n]) = p
  <2>1. \A j \in 1..p - 1 : j \in 1..len /\ j # p
    BY <1>3
  <2> QED BY <1>2, <1>4, <2>1 DEF PlaceOf
<1>6. /\ entities' = SubSeq(entities, 1, p - 1) \o SubSeq(entities, p + 1, Len(entities))
      /\ failed' = failed /\ sets' = sets
  BY <1>1, <1>5 DEF RemoveEntityFromWorld
<1>7. /\ Len(entities') = len - 1
      /\ \A j \in 1..len - 1 : entities'[j] = IF j < p THEN entities[j] ELSE entities[j + 1]
  BY <1>2, <1>3, <1>6, ErasedFits
<1>8. ASSUME NEW m \in 1..Len(created), Housed(m), m # n
      PROVE  \E i \in 1..len - 1 : entities'[i] = created[m]
  <2>1. PICK i \in 1..len : entities[i] = created[m]
    BY <1>2, <1>8 DEF AgreeInv, HousesInv
  <2>2. created[m].id # created[n].id
    BY <1>8, HousedApart
  <2>3. i # p
    BY <1>3, <2>1, <2>2
  <2>4. CASE i < p
    <3>1. i \in 1..len - 1
      BY <2>4
    <3> QED BY <1>7, <2>1, <2>4, <3>1
  <2>5. CASE i > p
    <3>1. i - 1 \in 1..len - 1 /\ ~(i - 1 < p) /\ (i - 1) + 1 = i
      BY <2>5
    <3>2. entities'[i - 1] = entities[i]
      BY <1>7, <3>1
    <3> QED BY <2>1, <3>1, <3>2
  <2> QED BY <2>3, <2>4, <2>5
<1>9. ASSUME NEW i \in 1..len - 1
      PROVE  \E m \in 1..Len(created) : Housed(m) /\ m # n /\ created[m] = entities'[i]
  <2>1. PICK j \in 1..len : entities'[i] = entities[j] /\ j # p
    <3>1. CASE i < p
      <4>1. i \in 1..len /\ i # p
        BY <3>1
      <4> QED BY <1>7, <3>1, <4>1
    <3>2. CASE ~(i < p)
      <4>1. i + 1 \in 1..len /\ i + 1 # p
        BY <3>2
      <4> QED BY <1>7, <3>2, <4>1
    <3> QED BY <3>1, <3>2
  <2>2. PICK m \in 1..Len(created) : Housed(m) /\ created[m] = entities[j]
    BY <1>2 DEF AgreeInv, HousesInv, IsHoused
  <2>3. m # n
    BY <1>4, <2>1, <2>2
  <2> QED BY <2>1, <2>2, <2>3
<1>10. ASSUME NEW c \in Components, NEW k \in 1..Len(sets[c].entities)
       PROVE  \E m \in 1..Len(created) :
                 Housed(m) /\ m # n /\ created[m] = sets[c].entities[k]
  <2>1. \A l \in 1..Len(sets[c].entities) :
           sets[c].entities[l].id = created[n].id
              => sets[c].entities[l].generation = created[n].generation
    BY HousedApart
  <2>2. sets[c] \in SetType /\ Consistent(sets[c]) /\ created[n].id \in Ids
    BY AgreeFacts
  <2>3. sets[c].entities[k].id # created[n].id
    BY SMTT(30), <2>1, <2>2, FindsNothing
  <2>4. PICK m \in 1..Len(created) : Housed(m) /\ created[m] = sets[c].entities[k]
    BY DEF AgreeInv, HandlesInv, IsHoused
  <2> QED BY <2>3, <2>4
<1> QED BY <1>6, <1>7, <1>8, <1>9, <1>10

LEMMA EvictKeeps ==
    ASSUME EcsInv, Cares, AgreeInv, NEW n \in 1..Len(created), Housed(n),
           \A c \in Components : At(sets[c], created[n]) = Nothing,
           RemoveEntityFromWorld(created[n]), created' = created,
           \A m \in 1..Len(created) : Housed(m)' <=> Housed(m) /\ m # n
    PROVE  HousesInv' /\ HandlesInv' /\ failed' = failed /\ sets' = sets
<1>1. /\ failed' = failed /\ sets' = sets
      /\ \A m \in 1..Len(created) : Housed(m) /\ m # n =>
            \E i \in 1..Len(entities') : entities'[i] = created[m]
      /\ \A i \in 1..Len(entities') : \E m \in 1..Len(created) :
            Housed(m) /\ m # n /\ created[m] = entities'[i]
      /\ \A c \in Components : \A k \in 1..Len(sets[c].entities) :
            \E m \in 1..Len(created) :
               Housed(m) /\ m # n /\ created[m] = sets[c].entities[k]
  BY EvictFinds
<1>2. HousesInv'
  BY <1>1 DEF AgreeInv, HousesInv, IsHoused
<1>3. HandlesInv'
  BY <1>1 DEF HandlesInv, IsHoused
<1> QED BY <1>1, <1>2, <1>3

LEMMA DirectRemoveAgrees ==
    ASSUME EcsInv, Cares, AgreeInv, NEW n \in alive, touched[n] = 0,
           \A c \in Components : owned[n][c] = Nothing,
           RemoveEntityFromWorld(created[n]), alive' = alive \ {n},
           touched' = [touched EXCEPT ![n] = 0],
           UNCHANGED <<runVars, created, owned, stripped>>
    PROVE  AgreeInv'
<1>1. n \in 1..Len(created) /\ Housed(n)
  BY AgreeFacts DEF Housed
<1>2. touched' = touched
  BY DEF EcsInv, TypeOK, CallerTypeOK
<1>3. \A s \in System : touched[n] # s
  BY AgreeFacts
<1>4. \A s \in System, c \in Components :
         NoAction(deferredActions[s], created[n], c) /\ NoComponent(deferredEntities[s], created[n], c)
  BY <1>1, <1>3, NotNamed
<1>5. ASSUME NEW c \in Components PROVE At(sets[c], created[n]) = Nothing
  <2>1. 1 \in System
    BY EcsConstants DEF System
  <2>2. Will(deferredActions[1], deferredEntities[1], sets[c], created[n], c, Nothing)
    BY <1>1, <2>1 DEF AgreeInv, WillInv, WillBe
  <2>3. NoAction(deferredActions[1], created[n], c) /\ NoComponent(deferredEntities[1], created[n], c)
    BY <1>4, <2>1
  <2> QED BY <2>2, <2>3 DEF Will, LastAction, NoAction, LastComponent, NoComponent,
                            LastOfType, NoneOfType
<1>6. \A m \in 1..Len(created) : Housed(m)' <=> Housed(m) /\ m # n
  BY <1>2, <1>3 DEF Housed, runVars
<1>7. HousesInv' /\ HandlesInv' /\ failed' = failed /\ sets' = sets
  BY <1>1, <1>5, <1>6, EvictKeeps
<1>8. \A s \in System : \A e : IsNamedBy(s, e) => IsNamedBy(s, e)'
  BY <1>2, <1>3, <1>6 DEF IsNamedBy
<1>9. PlaceInv' /\ BuildInv'
  BY DEF AgreeInv, PlaceInv, BuildInv, runVars
<1>10. ActionsInv' /\ DefsInv'
  BY <1>8 DEF AgreeInv, ActionsInv, DefsInv, runVars
<1>11. WillInv'
  BY <1>2, <1>6, <1>7 DEF AgreeInv, WillInv, WillBe, runVars
<1>12. TouchedInv'
  BY <1>2, <1>6 DEF AgreeInv, TouchedInv, runVars
<1> QED BY <1>7, <1>9, <1>10, <1>11, <1>12 DEF AgreeInv, AssertionsHold

-----------------------------------------------------------------------------
(***************************************************************************)
(* What a system asks its context for.                                     *)
(***************************************************************************)
\* Touching an entity that no other system has named.
LEMMA TouchedKeeps ==
    ASSUME EcsInv, Cares, NEW n \in 1..Len(created), NEW s \in System, touched[n] \in {0, s},
           touched' = [touched EXCEPT ![n] = s]
    PROVE  /\ touched'[n] = s
           /\ \A m \in 1..Len(created) : m # n => touched'[m] = touched[m]
           /\ \A m \in 1..Len(created), t \in System : touched[m] = t => touched'[m] = t
           /\ \A m \in 1..Len(created), t \in System :
                 touched'[m] \in {0, t} => touched[m] \in {0, t}
<1>1. /\ touched \in Seq(0..Systems) /\ Len(touched) = Len(created) /\ s \in 0..Systems
      /\ \A t \in System : t # 0
  BY AgreeFacts DEF EcsInv, TypeOK, CallerTypeOK
<1>2. \A m \in 1..Len(created) : touched'[m] = IF m = n THEN s ELSE touched[m]
  BY <1>1, ExceptSeq
<1> QED BY <1>1, <1>2

\* A call that is deferred becomes the last of its context.
LEMMA Deferred ==
    ASSUME EcsInv, Cares, NEW s \in System, NEW a \in ActionType, Defer(s, a)
    PROVE  /\ deferredActions'[s] = Append(deferredActions[s], a)
           /\ \A t \in System : t # s => deferredActions'[t] = deferredActions[t]
           /\ \A t \in System :
                 /\ Len(deferredActions'[t]) \in Nat
                 /\ Len(deferredActions[t]) <= Len(deferredActions'[t])
                 /\ \A k \in 1..Len(deferredActions[t]) :
                       k \in 1..Len(deferredActions'[t])
                          /\ deferredActions'[t][k] = deferredActions[t][k]
                 /\ \A k \in 1..Len(deferredActions'[t]) :
                       \/ k \in 1..Len(deferredActions[t])
                       \/ /\ t = s /\ k = Len(deferredActions[t]) + 1
                          /\ k = Len(deferredActions'[t]) /\ deferredActions'[t][k] = a
<1>1. deferredActions \in [System -> Seq(ActionType)]
  BY DEF EcsInv, TypeOK, RunTypeOK
<1>2. /\ deferredActions'[s] = Append(deferredActions[s], a)
      /\ \A t \in System : t # s => deferredActions'[t] = deferredActions[t]
  BY <1>1 DEF Defer
<1>3. ASSUME NEW t \in System
      PROVE  /\ Len(deferredActions'[t]) \in Nat
             /\ Len(deferredActions[t]) <= Len(deferredActions'[t])
             /\ \A k \in 1..Len(deferredActions[t]) :
                   k \in 1..Len(deferredActions'[t])
                      /\ deferredActions'[t][k] = deferredActions[t][k]
             /\ \A k \in 1..Len(deferredActions'[t]) :
                   \/ k \in 1..Len(deferredActions[t])
                   \/ /\ t = s /\ k = Len(deferredActions[t]) + 1
                      /\ k = Len(deferredActions'[t]) /\ deferredActions'[t][k] = a
  <2>1. PICK len \in Nat : len = Len(deferredActions[t])
    BY <1>1
  <2>2. CASE t # s
    <3>1. deferredActions'[t] = deferredActions[t]
      BY <1>2, <2>2
    <3> QED BY <2>1, <3>1
  <2>3. CASE t = s
    <3>1. deferredActions[s] \in Seq(ActionType)
      BY <1>1
    <3>2. /\ Len(deferredActions'[t]) = len + 1 /\ deferredActions'[t][len + 1] = a
          /\ \A k \in 1..len : deferredActions'[t][k] = deferredActions[t][k]
      BY <1>2, <2>1, <2>3, <3>1, Appended
    <3>3. len <= len + 1 /\ \A k \in 1..len + 1 : k \in 1..len \/ k = len + 1
      OBVIOUS
    <3>4. \A k \in 1..len : k \in 1..len + 1
      OBVIOUS
    <3> QED BY <2>1, <2>3, <3>2, <3>3, <3>4
  <2> QED BY <2>2, <2>3
<1> QED BY <1>2, <1>3

\* Adding a component to an entity of the world, or removing one.
LEMMA AskGiveAgrees ==
    ASSUME EcsInv, Cares, AgreeInv, NEW s \in System, NEW n \in alive, touched[n] \in {0, s},
           NEW a \in ActionType, NEW c \in Components, NEW v \in Values \cup {Nothing},
           a.do # "destroy", a.entity = created[n], a.type = c, a.value = v,
           Defer(s, a), CallerSets(n, c, v), touched' = [touched EXCEPT ![n] = s],
           phase = "systems", stripped \subseteq stripped',
           n \in stripped' \/ DeferredAt(s, created[n]) = {},
           UNCHANGED <<entities, sets, phase, turn, deferredEntities, failed, created, alive>>
    PROVE  AgreeInv'
<1>1. n \in 1..Len(created) /\ Housed(n)
  BY AgreeFacts DEF Housed
<1>2. /\ touched'[n] = s
      /\ \A m \in 1..Len(created) : m # n => touched'[m] = touched[m]
      /\ \A m \in 1..Len(created), t \in System : touched[m] = t => touched'[m] = t
      /\ \A m \in 1..Len(created), t \in System : touched'[m] \in {0, t} => touched[m] \in {0, t}
  BY <1>1, TouchedKeeps
<1>3. /\ deferredActions'[s] = Append(deferredActions[s], a)
      /\ \A t \in System : t # s => deferredActions'[t] = deferredActions[t]
  BY Deferred
<1>4. \A t \in System :
         /\ Len(deferredActions'[t]) \in Nat /\ Len(deferredActions[t]) <= Len(deferredActions'[t])
         /\ \A k \in 1..Len(deferredActions[t]) :
               k \in 1..Len(deferredActions'[t]) /\ deferredActions'[t][k] = deferredActions[t][k]
         /\ \A k \in 1..Len(deferredActions'[t]) :
               \/ k \in 1..Len(deferredActions[t])
               \/ /\ t = s /\ k = Len(deferredActions[t]) + 1
                  /\ k = Len(deferredActions'[t]) /\ deferredActions'[t][k] = a
  BY Deferred
<1>5. \A t \in System : \A e : Destroys(deferredActions'[t], e) <=> Destroys(deferredActions[t], e)
  BY <1>4 DEF Destroys
<1>6. ASSUME NEW m \in 1..Len(created) PROVE Housed(m)' <=> Housed(m)
  <2>1. CASE m = n
    BY <2>1 DEF Housed
  <2>2. CASE m # n
    BY <1>2, <1>5, <2>2 DEF Housed
  <2> QED BY <2>1, <2>2
<1>7. HousesInv' /\ \A e : IsHoused(e) => IsHoused(e)'
  BY <1>6, HousesKept
<1>8. \A t \in System : \A e : IsNamedBy(t, e) => IsNamedBy(t, e)'
  BY <1>2, <1>6 DEF IsNamedBy
<1>9. HandlesInv' /\ PlaceInv'
  BY <1>7 DEF AgreeInv, HandlesInv, PlaceInv
<1>10. ActionsInv'
  <2>1. ASSUME NEW t \in System, NEW k \in 1..Len(deferredActions'[t])
        PROVE  \E m \in 1..Len(created') :
                  Housed(m)' /\ touched'[m] = t /\ created'[m] = deferredActions'[t][k].entity
    <3>1. CASE k \in 1..Len(deferredActions[t])
      <4>1. PICK e : e = deferredActions[t][k].entity
        OBVIOUS
      <4>2. IsNamedBy(t, e)'
        BY <1>8, <3>1, <4>1 DEF AgreeInv, ActionsInv
      <4> QED BY <1>4, <3>1, <4>1, <4>2 DEF IsNamedBy
    <3>2. CASE t = s /\ deferredActions'[t][k] = a
      BY <1>1, <1>2, <1>6, <3>2
    <3> QED BY <1>4, <3>1, <3>2
  <2>2. ASSUME NEW t \in System, NEW k \in 1..Len(deferredActions'[t]),
               deferredActions'[t][k].do = "destroy"
        PROVE  /\ \A j \in k + 1 .. Len(deferredActions'[t]) :
                     deferredActions'[t][j].entity # deferredActions'[t][k].entity
               /\ \A m \in alive : created[m] # deferredActions'[t][k].entity
    <3>1. k \in 1..Len(deferredActions[t]) /\ deferredActions'[t][k] = deferredActions[t][k]
      BY <1>4, <2>2
    <3>2. \A m \in alive : created[m] # deferredActions'[t][k].entity
      BY <2>2, <3>1 DEF AgreeInv, ActionsInv
    <3>3. ASSUME NEW j \in k + 1 .. Len(deferredActions'[t])
          PROVE  deferredActions'[t][j].entity # deferredActions'[t][k].entity
      <4>1. j \in 1..Len(deferredActions'[t]) /\ Len(deferredActions[t]) \in Nat
        BY <1>4, AgreeFacts
      <4>2. CASE j \in 1..Len(deferredActions[t])
        <5>1. j \in k + 1 .. Len(deferredActions[t])
          BY <4>1, <4>2
        <5> QED BY SMTT(30), <1>4, <2>2, <3>1, <4>2, <5>1 DEF AgreeInv, ActionsInv
      <4>3. CASE deferredActions'[t][j] = a
        BY <3>2, <4>3
      <4> QED BY <1>4, <4>1, <4>2, <4>3
    <3> QED BY <3>2, <3>3
  <2> QED BY <2>1, <2>2 DEF ActionsInv, IsNamedBy
<1>11. DefsInv'
  BY <1>8 DEF AgreeInv, DefsInv
<1>12. BuildInv'
  <2> SUFFICES ASSUME NEW m \in alive \ stripped', NEW t \in System,
                      NEW i \in 1..Len(deferredEntities[t]),
                      NEW k \in 1..Len(deferredActions'[t]),
                      deferredEntities[t][i].entity = created[m],
                      deferredActions'[t][k].entity = created[m]
               PROVE  FALSE
    BY DEF BuildInv
  <2>1. CASE k \in 1..Len(deferredActions[t])
    BY <1>4, <2>1 DEF AgreeInv, BuildInv
  <2>2. CASE t = s /\ deferredActions'[t][k] = a
    <3>1. m \in 1..Len(created) /\ Housed(m)
      BY AgreeFacts DEF Housed
    <3>2. m = n
      BY <1>1, <2>2, <3>1, HousedApart
    <3>3. i \in DeferredAt(s, created[n])
      BY <2>2, <3>2 DEF DeferredAt
    <3> QED BY <3>2, <3>3
  <2> QED BY <1>4, <2>1, <2>2
<1>13. ASSUME NEW m \in 1..Len(created), NEW d \in Components, Housed(m), NEW t \in System,
              touched'[m] \in {0, t}
       PROVE  Will(deferredActions'[t], deferredEntities[t], sets[d], created[m], d, owned'[m][d])
  <2>1. Will(deferredActions[t], deferredEntities[t], sets[d], created[m], d, owned[m][d])
    BY <1>2, <1>13 DEF AgreeInv, WillInv, WillBe
  <2>2. deferredActions[t] \in Seq(ActionType)
    BY AgreeFacts
  <2>3. CASE m = n /\ d = c
    <3>1. t = s /\ Gives(a, created[m], d) /\ owned'[m][d] = v
      BY <1>1, <1>2, <1>13, <2>3, SetsOwned, AgreeFacts DEF Gives
    <3>2. LastAction(deferredActions'[t], created[m], d, v)
      BY <1>3, <2>2, <3>1, ActionAppended
    <3> QED BY <3>1, <3>2 DEF Will
  <2>4. CASE ~(m = n /\ d = c)
    <3>1. owned'[m][d] = owned[m][d]
      BY <1>1, <2>4, SetsOwned
    <3>2. ~Gives(a, created[m], d)
      BY <1>1, <1>13, <2>4, HousedApart DEF Gives
    <3>3. /\ NoAction(deferredActions[t], created[m], d)
                => NoAction(deferredActions'[t], created[m], d)
          /\ \A w : LastAction(deferredActions[t], created[m], d, w)
                       => LastAction(deferredActions'[t], created[m], d, w)
      <4>1. CASE t = s
        <5>1. deferredActions'[t] = Append(deferredActions[t], a)
          BY <1>3, <4>1
        <5> QED BY ONLY <2>2, <3>2, <5>1, ActionAppended
      <4>2. CASE t # s
        BY <1>3, <4>2
      <4> QED BY <4>1, <4>2
    <3> QED BY <2>1, <3>1, <3>3 DEF Will
  <2> QED BY <2>3, <2>4
<1>14. ASSUME NEW m \in 1..Len(created), NEW d \in Components, Housed(m), m \notin alive
       PROVE  owned'[m][d] = Nothing
  <2>1. owned'[m][d] = owned[m][d]
    BY <1>1, <1>14, SetsOwned
  <2> QED BY <1>14, <2>1 DEF AgreeInv, WillInv
<1>15. WillInv'
  BY <1>6, <1>13, <1>14 DEF WillInv, WillBe
<1>16. TouchedInv'
  BY <1>1, <1>2, <1>6 DEF AgreeInv, TouchedInv
<1> QED BY <1>7, <1>9, <1>10, <1>11, <1>12, <1>15, <1>16 DEF AgreeInv, AssertionsHold

\* Destroying an entity of the world: it stays there until the call is made.
LEMMA AskDestroyAgrees ==
    ASSUME EcsInv, Cares, AgreeInv, NEW s \in System, NEW n \in alive, touched[n] \in {0, s},
           \A c \in Components : owned[n][c] = Nothing,
           NEW a \in ActionType, a.do = "destroy", a.entity = created[n],
           Defer(s, a), alive' = alive \ {n}, touched' = [touched EXCEPT ![n] = s],
           phase = "systems",
           UNCHANGED <<entities, sets, phase, turn, deferredEntities, failed, created, owned, stripped>>
    PROVE  AgreeInv'
<1>1. n \in 1..Len(created) /\ Housed(n)
  BY AgreeFacts DEF Housed
<1>2. /\ touched'[n] = s
      /\ \A m \in 1..Len(created) : m # n => touched'[m] = touched[m]
      /\ \A m \in 1..Len(created), t \in System : touched[m] = t => touched'[m] = t
      /\ \A m \in 1..Len(created), t \in System : touched'[m] \in {0, t} => touched[m] \in {0, t}
  BY <1>1, TouchedKeeps
<1>3. /\ deferredActions'[s] = Append(deferredActions[s], a)
      /\ \A t \in System : t # s => deferredActions'[t] = deferredActions[t]
  BY Deferred
<1>4. \A t \in System :
         /\ Len(deferredActions'[t]) \in Nat /\ Len(deferredActions[t]) <= Len(deferredActions'[t])
         /\ \A k \in 1..Len(deferredActions[t]) :
               k \in 1..Len(deferredActions'[t]) /\ deferredActions'[t][k] = deferredActions[t][k]
         /\ \A k \in 1..Len(deferredActions'[t]) :
               \/ k \in 1..Len(deferredActions[t])
               \/ /\ t = s /\ k = Len(deferredActions[t]) + 1
                  /\ k = Len(deferredActions'[t]) /\ deferredActions'[t][k] = a
  BY Deferred
<1>5. /\ \A t \in System : \A e :
            Destroys(deferredActions'[t], e)
               <=> Destroys(deferredActions[t], e) \/ (t = s /\ e = created[n])
  <2>1. ASSUME NEW t \in System, NEW e, Destroys(deferredActions'[t], e)
        PROVE  Destroys(deferredActions[t], e) \/ (t = s /\ e = created[n])
    BY <1>4, <2>1 DEF Destroys
  <2>2. ASSUME NEW t \in System, NEW e, Destroys(deferredActions[t], e)
        PROVE  Destroys(deferredActions'[t], e)
    BY <1>4, <2>2 DEF Destroys
  <2>3. Destroys(deferredActions'[s], created[n])
    <3>1. deferredActions[s] \in Seq(ActionType) /\ Len(deferredActions[s]) \in Nat
      BY AgreeFacts
    <3>2. /\ Len(deferredActions'[s]) = Len(deferredActions[s]) + 1
          /\ deferredActions'[s][Len(deferredActions[s]) + 1] = a
      BY <1>3, <3>1, Appended
    <3>3. Len(deferredActions[s]) + 1 \in 1..Len(deferredActions'[s])
      BY <3>1, <3>2
    <3> QED BY <3>2, <3>3 DEF Destroys
  <2> QED BY <2>1, <2>2, <2>3
<1>6. ASSUME NEW m \in 1..Len(created) PROVE Housed(m)' <=> Housed(m)
  <2>1. CASE m = n
    BY <1>1, <1>2, <1>5, <2>1 DEF Housed
  <2>2. CASE m # n
    <3>1. m \in alive' <=> m \in alive
      BY <2>2
    <3>2. CASE m \in alive
      BY <3>1, <3>2 DEF Housed
    <3>3. CASE m \notin alive
      <4>1. Housed(m) => Housed(m)'
        BY <1>2, <1>5, <3>1, <3>3 DEF Housed
      <4>2. ASSUME Housed(m)' PROVE Housed(m)
        <5>1. touched[m] # 0
          BY <1>2, <2>2, <3>1, <3>3, <4>2, AgreeFacts DEF Housed
        <5> QED BY <5>1 DEF AgreeInv, TouchedInv
      <4> QED BY <4>1, <4>2
    <3> QED BY <3>2, <3>3
  <2> QED BY <2>1, <2>2
<1>7. HousesInv' /\ \A e : IsHoused(e) => IsHoused(e)'
  BY <1>6, HousesKept
<1>8. \A t \in System : \A e : IsNamedBy(t, e) => IsNamedBy(t, e)'
  BY <1>2, <1>6 DEF IsNamedBy
<1>9. HandlesInv' /\ PlaceInv' /\ BuildInv'
  <2>1. HandlesInv' /\ PlaceInv'
    BY <1>7 DEF AgreeInv, HandlesInv, PlaceInv
  <2>2. ASSUME NEW m \in alive \ stripped, m # n, NEW t \in System,
               NEW i \in 1..Len(deferredEntities[t]), NEW k \in 1..Len(deferredActions'[t]),
               deferredEntities[t][i].entity = created[m],
               deferredActions'[t][k].entity = created[m]
        PROVE  FALSE
    <3>1. m \in 1..Len(created) /\ Housed(m)
      BY AgreeFacts DEF Housed
    <3>2. created[m] # created[n]
      BY <1>1, <2>2, <3>1, HousedApart
    <3>3. k \in 1..Len(deferredActions[t]) /\ deferredActions'[t][k] = deferredActions[t][k]
      BY <1>4, <2>2, <3>2
    <3> QED BY <2>2, <3>3 DEF AgreeInv, BuildInv
  <2>3. BuildInv'
    BY <2>2 DEF BuildInv
  <2> QED BY <2>1, <2>3
<1>10. ActionsInv'
  <2>1. ASSUME NEW t \in System, NEW k \in 1..Len(deferredActions'[t])
        PROVE  \E m \in 1..Len(created') :
                  Housed(m)' /\ touched'[m] = t /\ created'[m] = deferredActions'[t][k].entity
    <3>1. CASE k \in 1..Len(deferredActions[t])
      <4>1. PICK e : e = deferredActions[t][k].entity
        OBVIOUS
      <4>2. IsNamedBy(t, e)'
        BY <1>8, <3>1, <4>1 DEF AgreeInv, ActionsInv
      <4> QED BY <1>4, <3>1, <4>1, <4>2 DEF IsNamedBy
    <3>2. CASE t = s /\ deferredActions'[t][k] = a
      BY <1>1, <1>2, <1>6, <3>2
    <3> QED BY <1>4, <3>1, <3>2
  <2>2. ASSUME NEW t \in System, NEW k \in 1..Len(deferredActions'[t]),
               deferredActions'[t][k].do = "destroy"
        PROVE  /\ \A j \in k + 1 .. Len(deferredActions'[t]) :
                     deferredActions'[t][j].entity # deferredActions'[t][k].entity
               /\ \A m \in alive' : created[m] # deferredActions'[t][k].entity
    <3>1. CASE k \in 1..Len(deferredActions[t])
      <4>1. deferredActions'[t][k] = deferredActions[t][k]
        BY <1>4, <3>1
      <4>2. \A m \in alive : created[m] # deferredActions'[t][k].entity
        BY <2>2, <3>1, <4>1 DEF AgreeInv, ActionsInv
      <4>3. ASSUME NEW j \in k + 1 .. Len(deferredActions'[t])
            PROVE  deferredActions'[t][j].entity # deferredActions'[t][k].entity
        <5>1. j \in 1..Len(deferredActions'[t]) /\ Len(deferredActions[t]) \in Nat
          BY <1>4, <3>1, AgreeFacts
        <5>2. CASE j \in 1..Len(deferredActions[t])
          <6>1. j \in k + 1 .. Len(deferredActions[t])
            BY <5>1, <5>2
          <6> QED BY <1>4, <2>2, <3>1, <4>1, <5>2, <6>1 DEF AgreeInv, ActionsInv
        <5>3. CASE deferredActions'[t][j] = a
          BY <4>2, <5>3
        <5> QED BY <1>4, <5>1, <5>2, <5>3
      <4> QED BY <4>2, <4>3
    <3>2. CASE deferredActions'[t][k] = a /\ k = Len(deferredActions'[t])
      <4>1. \A j : j \notin k + 1 .. Len(deferredActions'[t])
        BY <1>4, <3>2
      <4>2. ASSUME NEW m \in alive' PROVE created[m] # created[n]
        <5>1. m \in 1..Len(created) /\ Housed(m) /\ m # n
          BY AgreeFacts DEF Housed
        <5> QED BY <1>1, <5>1, HousedApart
      <4> QED BY <3>2, <4>1, <4>2
    <3> QED BY <1>4, <3>1, <3>2
  <2> QED BY <2>1, <2>2 DEF ActionsInv, IsNamedBy
<1>11. DefsInv'
  BY <1>8 DEF AgreeInv, DefsInv
<1>12. TouchedInv'
  BY <1>1, <1>2, <1>6 DEF AgreeInv, TouchedInv
<1>13. ASSUME NEW m \in 1..Len(created), NEW d \in Components, Housed(m), NEW t \in System,
              touched'[m] \in {0, t}
       PROVE  Will(deferredActions'[t], deferredEntities[t], sets[d], created[m], d, owned[m][d])
  <2>1. Will(deferredActions[t], deferredEntities[t], sets[d], created[m], d, owned[m][d])
    BY <1>2, <1>13 DEF AgreeInv, WillInv, WillBe
  <2>2. deferredActions[t] \in Seq(ActionType) /\ ~Gives(a, created[m], d)
    BY AgreeFacts DEF Gives
  <2>3. /\ NoAction(deferredActions[t], created[m], d)
              => NoAction(deferredActions'[t], created[m], d)
        /\ \A w : LastAction(deferredActions[t], created[m], d, w)
                     => LastAction(deferredActions'[t], created[m], d, w)
    <3>1. CASE t = s
      <4>1. deferredActions'[t] = Append(deferredActions[t], a)
        BY <1>3, <3>1
      <4> QED BY ONLY <2>2, <4>1, ActionAppended
    <3>2. CASE t # s
      BY <1>3, <3>2
    <3> QED BY <3>1, <3>2
  <2> QED BY <2>1, <2>3 DEF Will
<1>14. ASSUME NEW m \in 1..Len(created), NEW d \in Components, Housed(m), m \notin alive'
       PROVE  owned[m][d] = Nothing
  BY <1>14 DEF AgreeInv, WillInv
<1>15. WillInv'
  BY <1>6, <1>13, <1>14 DEF WillInv, WillBe
<1> QED BY <1>7, <1>9, <1>10, <1>11, <1>12, <1>15 DEF AgreeInv, AssertionsHold

\* The components of an entity that a context has created are replaced; the entities
\* stay.
LEMMA DefReplaced ==
    ASSUME EcsInv, Cares, NEW s \in System, NEW i \in 1..Len(deferredEntities[s]),
           NEW cs \in Seq(DeferredComponent),
           deferredEntities' = [deferredEntities EXCEPT ![s][i].components = cs]
    PROVE  /\ Replaced(deferredEntities'[s], deferredEntities[s], i, cs)
           /\ \A t \in System : t # s => deferredEntities'[t] = deferredEntities[t]
           /\ \A t \in System :
                 /\ Len(deferredEntities'[t]) = Len(deferredEntities[t])
                 /\ \A j \in 1..Len(deferredEntities[t]) :
                       deferredEntities'[t][j].entity = deferredEntities[t][j].entity
<1>1. /\ deferredEntities \in [System -> Seq(DeferredEntityType)]
      /\ deferredEntities[s] \in Seq(DeferredEntityType)
  BY DEF EcsInv, TypeOK, RunTypeOK
<1>2. PICK defs \in Seq(DeferredEntityType) : defs = deferredEntities[s]
  BY <1>1
<1>3. PICK new : new = [defs EXCEPT ![i].components = cs]
  OBVIOUS
<1>4. deferredEntities' = [deferredEntities EXCEPT ![s] = new]
  BY <1>1, <1>2, <1>3
<1>5. deferredEntities'[s] = new /\ \A t \in System : t # s => deferredEntities'[t] = deferredEntities[t]
  BY <1>1, <1>4
<1>6. i \in 1..Len(defs)
  BY <1>2
<1>7. Replaced(new, defs, i, cs)
  BY ONLY <1>3, <1>6, DefsReplaced
<1>8. Replaced(deferredEntities'[s], deferredEntities[s], i, cs)
  BY <1>2, <1>5, <1>7
<1> QED BY <1>5, <1>8 DEF Replaced

\* A component of an entity that the context has created.
LEMMA AskComponentAgrees ==
    ASSUME EcsInv, Cares, AgreeInv, NEW s \in System, NEW n \in alive, touched[n] \in {0, s},
           n \notin stripped, NEW c \in Components, NEW v \in Values,
           NEW i \in DeferredAt(s, created[n]),
           deferredEntities' = [deferredEntities EXCEPT ![s][i].components =
                                   Append(@, [type |-> c, value |-> v])],
           CallerSets(n, c, v), touched' = [touched EXCEPT ![n] = s], phase = "systems",
           UNCHANGED <<entities, sets, phase, turn, deferredActions, failed, created, alive, stripped>>
    PROVE  AgreeInv'
<1>1. n \in 1..Len(created) /\ Housed(n)
  BY AgreeFacts DEF Housed
<1>2. /\ touched'[n] = s
      /\ \A m \in 1..Len(created) : m # n => touched'[m] = touched[m]
      /\ \A m \in 1..Len(created), t \in System : touched[m] = t => touched'[m] = t
      /\ \A m \in 1..Len(created), t \in System : touched'[m] \in {0, t} => touched[m] \in {0, t}
  BY <1>1, TouchedKeeps
<1>3. i \in 1..Len(deferredEntities[s]) /\ deferredEntities[s][i].entity.id = created[n].id
  BY DEF DeferredAt
<1>4. deferredEntities[s][i].entity = created[n]
  BY <1>1, <1>3, HousedApart
<1>5. PICK x \in DeferredComponent : x = [type |-> c, value |-> v] /\ x.type = c /\ x.value = v
  BY DEF DeferredComponent
<1>6. PICK old \in Seq(DeferredComponent) : old = deferredEntities[s][i].components
  BY <1>3, AgreeFacts
<1>7. PICK cs \in Seq(DeferredComponent) : cs = Append(old, x)
  BY <1>5, <1>6, AppendProperties
<1>8. deferredEntities' = [deferredEntities EXCEPT ![s][i].components = cs]
  BY <1>5, <1>6, <1>7
<1>9. /\ Replaced(deferredEntities'[s], deferredEntities[s], i, cs)
      /\ \A t \in System : t # s => deferredEntities'[t] = deferredEntities[t]
      /\ \A t \in System :
            /\ Len(deferredEntities'[t]) = Len(deferredEntities[t])
            /\ \A j \in 1..Len(deferredEntities[t]) :
                  deferredEntities'[t][j].entity = deferredEntities[t][j].entity
  BY <1>3, <1>8, DefReplaced
<1>10. \A m \in 1..Len(created) : Housed(m)' <=> Housed(m)
  <2>1. \A m \in 1..Len(created) : m # n => (Housed(m)' <=> Housed(m))
    BY <1>2 DEF Housed
  <2>2. Housed(n)'
    BY DEF Housed
  <2> QED BY <1>1, <2>1, <2>2
<1>11. HousesInv' /\ \A e : IsHoused(e) => IsHoused(e)'
  BY <1>10, HousesKept
<1>12. \A t \in System : \A e : IsNamedBy(t, e) => IsNamedBy(t, e)'
  BY <1>2, <1>10 DEF IsNamedBy
<1>13. HandlesInv' /\ PlaceInv' /\ BuildInv' /\ TouchedInv' /\ ActionsInv'
  <2>1. HandlesInv' /\ PlaceInv'
    BY <1>11 DEF AgreeInv, HandlesInv, PlaceInv
  <2>2. TouchedInv'
    BY <1>1, <1>2, <1>10 DEF AgreeInv, TouchedInv
  <2>3. ActionsInv'
    BY <1>12 DEF AgreeInv, ActionsInv
  <2>4. BuildInv'
    <3>1. ASSUME NEW m \in alive \ stripped, NEW t \in System,
                 NEW j \in 1..Len(deferredEntities'[t]), NEW k \in 1..Len(deferredActions[t]),
                 deferredEntities'[t][j].entity = created[m], deferredActions[t][k].entity = created[m]
          PROVE  FALSE
      <4>1. j \in 1..Len(deferredEntities[t]) /\ deferredEntities[t][j].entity = created[m]
        BY <1>9, <3>1
      <4> QED BY <3>1, <4>1 DEF AgreeInv, BuildInv
    <3>2. UNCHANGED <<created, alive, stripped, deferredActions>>
      OBVIOUS
    <3> QED BY ONLY <3>1, <3>2 DEF BuildInv
  <2> QED BY <2>1, <2>2, <2>3, <2>4
<1>14. DefsInv'
  <2>1. ASSUME NEW t \in System, NEW j \in 1..Len(deferredEntities'[t])
        PROVE  \E m \in 1..Len(created') :
                  Housed(m)' /\ touched'[m] = t /\ created'[m] = deferredEntities'[t][j].entity
    <3>1. PICK e : e = deferredEntities[t][j].entity
      OBVIOUS
    <3>2. IsNamedBy(t, e)'
      BY <1>9, <1>12, <3>1 DEF AgreeInv, DefsInv
    <3> QED BY <1>9, <3>1, <3>2 DEF IsNamedBy
  <2>2. ASSUME NEW t \in System, NEW j \in 1..Len(deferredEntities'[t]),
               NEW l \in 1..Len(deferredEntities'[t]),
               deferredEntities'[t][j].entity.id = deferredEntities'[t][l].entity.id
        PROVE  j = l
    <3>1. /\ j \in 1..Len(deferredEntities[t]) /\ l \in 1..Len(deferredEntities[t])
          /\ deferredEntities[t][j].entity.id = deferredEntities[t][l].entity.id
      BY <1>9, <2>2
    <3> QED BY <3>1 DEF AgreeInv, DefsInv
  <2>3. ASSUME NEW t \in System, NEW j \in 1..Len(deferredEntities'[t])
        PROVE  IsNamedBy(t, deferredEntities[t][j].entity)'
    BY ONLY <2>1, t \in System, j \in 1..Len(deferredEntities'[t]) DEF IsNamedBy
  <2> QED BY ONLY <2>2, <2>3 DEF DefsInv
<1>15. ASSUME NEW m \in 1..Len(created), NEW d \in Components, Housed(m), NEW t \in System,
              touched'[m] \in {0, t}
       PROVE  Will(deferredActions[t], deferredEntities'[t], sets[d], created[m], d, owned'[m][d])
  <2>1. Will(deferredActions[t], deferredEntities[t], sets[d], created[m], d, owned[m][d])
    BY <1>2, <1>15 DEF AgreeInv, WillInv, WillBe
  <2>2. CASE m = n /\ d = c
    <3>1. t = s /\ owned'[m][d] = v
      <4>1. owned'[m][d] = v
        BY <1>1, <2>2, SetsOwned
      <4> QED BY <1>2, <1>15, <2>2, <4>1, AgreeFacts
    <3>2. NoAction(deferredActions[s], created[n], c)
      BY <1>3, <1>4 DEF AgreeInv, BuildInv, NoAction, Gives
    <3>3. LastOfType(cs, c, v)
      BY ONLY <1>5, <1>6, <1>7, ComponentAppended
    <3>4. LastComponent(deferredEntities'[s], created[n], c, v)
      BY <1>3, <1>4, <1>9, <3>3 DEF LastComponent, Replaced
    <3> QED BY <2>2, <3>1, <3>2, <3>4 DEF Will
  <2>3. CASE ~(m = n /\ d = c)
    <3>1. owned'[m][d] = owned[m][d]
      BY <1>1, <2>3, SetsOwned
    <3>2. \/ deferredEntities[s][i].entity # created[m]
          \/ /\ NoneOfType(old, d) => NoneOfType(cs, d)
             /\ \A w : LastOfType(old, d, w) => LastOfType(cs, d, w)
      <4>1. CASE m # n
        BY <1>1, <1>4, <1>15, <4>1, HousedApart
      <4>2. CASE m = n
        <5>1. x.type # d
          BY <1>5, <2>3, <4>2
        <5> QED BY ONLY <1>6, <1>7, <5>1, ComponentAppended
      <4> QED BY <4>1, <4>2
    <3>3. /\ NoComponent(deferredEntities[t], created[m], d)
                => NoComponent(deferredEntities'[t], created[m], d)
          /\ \A w : LastComponent(deferredEntities[t], created[m], d, w)
                       => LastComponent(deferredEntities'[t], created[m], d, w)
      <4>1. CASE t = s
        <5>1. PICK e, old_, new : e = created[m] /\ old_ = deferredEntities[s]
                                  /\ new = deferredEntities'[s]
          OBVIOUS
        <5>2. /\ i \in 1..Len(old_) /\ Replaced(new, old_, i, cs)
              /\ \/ old_[i].entity # e
                 \/ /\ NoneOfType(old_[i].components, d) => NoneOfType(cs, d)
                    /\ \A w : LastOfType(old_[i].components, d, w) => LastOfType(cs, d, w)
          BY <1>3, <1>6, <1>9, <3>2, <5>1
        <5>3. /\ NoComponent(old_, e, d) => NoComponent(new, e, d)
              /\ \A w : LastComponent(old_, e, d, w) => LastComponent(new, e, d, w)
          BY ONLY <5>2, OtherReplaced
        <5> QED BY <4>1, <5>1, <5>3
      <4>2. CASE t # s
        BY <1>9, <4>2
      <4> QED BY <4>1, <4>2
    <3> QED BY <2>1, <3>1, <3>3 DEF Will
  <2> QED BY <2>2, <2>3
<1>16. ASSUME NEW m \in 1..Len(created), NEW d \in Components, Housed(m), m \notin alive
       PROVE  owned'[m][d] = Nothing
  <2>1. owned'[m][d] = owned[m][d]
    BY <1>1, <1>16, SetsOwned
  <2> QED BY <1>16, <2>1 DEF AgreeInv, WillInv
<1>17. WillInv'
  BY <1>10, <1>15, <1>16 DEF WillInv, WillBe
<1> QED BY <1>11, <1>13, <1>14, <1>17 DEF AgreeInv, AssertionsHold

-----------------------------------------------------------------------------
(***************************************************************************)
(* The layer, and the calls that are made when it ends.                    *)
(***************************************************************************)
LEMMA NothingLeft ==
    ASSUME NEW set, NEW e, NEW c, NEW v
    PROVE  Will(<<>>, <<>>, set, e, c, v) <=> At(set, e) = v
BY DEF Will, LastAction, NoAction, LastComponent, NoComponent

\* With no calls pending, a layer begins or ends, and nobody has named anyone.
LEMMA SettledAgrees ==
    ASSUME EcsInv, Cares, AgreeInv,
           \A s \in System : /\ deferredActions[s] = <<>> /\ deferredEntities[s] = <<>>
                             /\ deferredActions'[s] = <<>> /\ deferredEntities'[s] = <<>>,
           touched' = [n \in DOMAIN touched |-> 0], phase' # "hook",
           UNCHANGED <<entities, sets, failed, created, alive, owned>>
    PROVE  AgreeInv'
<1>1. \A n \in 1..Len(created) : touched'[n] = 0
  BY DEF EcsInv, TypeOK, CallerTypeOK
<1>2. \A n \in 1..Len(created) : (Housed(n) <=> n \in alive) /\ (Housed(n)' <=> n \in alive)
  BY DEF Housed, Destroys
<1>3. HousesInv' /\ \A e : IsHoused(e) => IsHoused(e)'
  BY <1>2, HousesKept
<1>4. HandlesInv' /\ PlaceInv' /\ TouchedInv'
  BY <1>1, <1>3 DEF AgreeInv, HandlesInv, PlaceInv, TouchedInv
<1>5. ActionsInv' /\ DefsInv' /\ BuildInv'
  BY DEF ActionsInv, DefsInv, BuildInv
<1>6. ASSUME NEW n \in alive, NEW c \in Components, NEW s \in System
      PROVE  Will(<<>>, <<>>, sets[c], created[n], c, owned[n][c])
  <2>1. n \in 1..Len(created) /\ Housed(n)
    BY <1>2, AgreeFacts
  <2>2. PICK t \in System : touched[n] \in {0, t}
    <3>1. 1 \in System /\ (touched[n] # 0 => touched[n] \in System)
      BY <2>1, AgreeFacts DEF System
    <3> QED BY <3>1
  <2>3. Will(deferredActions[t], deferredEntities[t], sets[c], created[n], c, owned[n][c])
    BY <2>1, <2>2 DEF AgreeInv, WillInv, WillBe
  <2> QED BY <2>3, NothingLeft
<1>7. WillInv'
  BY <1>2, <1>6 DEF WillInv, WillBe
<1> QED BY <1>3, <1>4, <1>5, <1>7 DEF AgreeInv, AssertionsHold

\* Steps that only move on.
LEMMA MovedAgrees ==
    ASSUME AgreeInv, PlaceInv', phase' = "apply" \/ phase # "apply",
           UNCHANGED <<entities, sets, deferredEntities, deferredActions, failed,
                       created, alive, owned, touched, stripped>>
    PROVE  AgreeInv'
<1>1. \A n : Housed(n)' <=> Housed(n)
  BY DEF Housed
<1>2. (\A e : IsHoused(e)' <=> IsHoused(e)) /\ (\A s, e : IsNamedBy(s, e)' <=> IsNamedBy(s, e))
  BY <1>1 DEF IsHoused, IsNamedBy
<1>3. HousesInv' /\ HandlesInv' /\ ActionsInv' /\ DefsInv' /\ BuildInv'
  <2>1. HousesInv' /\ HandlesInv'
    BY <1>1, <1>2 DEF AgreeInv, HousesInv, HandlesInv
  <2>2. ActionsInv' /\ DefsInv'
    BY <1>1, <1>2 DEF AgreeInv, ActionsInv, DefsInv
  <2>3. BuildInv'
    BY DEF AgreeInv, BuildInv
  <2> QED BY <2>1, <2>2, <2>3
<1>4. WillInv' /\ TouchedInv'
  BY <1>1 DEF AgreeInv, WillInv, WillBe, TouchedInv
<1> QED BY <1>3, <1>4 DEF AgreeInv, AssertionsHold

LEMMA LayerAgrees ==
    ASSUME EcsInv, Cares, AgreeInv,
           BeginLayer \/ (\E s \in System : EndSystem(s)) \/ EndHook \/ NextContext
    PROVE  AgreeInv'
<1>1. CASE BeginLayer
  <2>1. \A s \in System : /\ deferredActions[s] = <<>> /\ deferredEntities[s] = <<>>
                          /\ deferredActions'[s] = <<>> /\ deferredEntities'[s] = <<>>
    BY <1>1 DEF BeginLayer, NoContext, AgreeInv, PlaceInv
  <2> QED BY <1>1, <2>1, SettledAgrees DEF BeginLayer, worldVars
<1>2. CASE \E s \in System : EndSystem(s)
  <2>1. PlaceInv'
    BY <1>2 DEF EndSystem, InSystem, AgreeInv, PlaceInv
  <2> QED BY <1>2, <2>1, MovedAgrees DEF EndSystem, InSystem, worldVars, callerVars
<1>3. CASE EndHook
  <2>1. PlaceInv'
    BY <1>3, AgreeFacts DEF EndHook, AgreeInv, PlaceInv, System
  <2> QED BY <1>3, <2>1, MovedAgrees DEF EndHook, worldVars, callerVars
<1>4. CASE NextContext
  <2>1. /\ phase = "apply" /\ deferredEntities[turn] = <<>> /\ deferredActions[turn] = <<>>
        /\ UNCHANGED <<deferredEntities, deferredActions>>
    BY <1>4 DEF NextContext, Applying
  <2>2. turn \in System /\ turn \in Nat /\ Systems \in Nat
        /\ \A s \in System : s \in Nat /\ s <= Systems
    BY AgreeFacts DEF System
  <2>3. \A s \in System : s <= turn => deferredActions[s] = <<>> /\ deferredEntities[s] = <<>>
    <3>1. \A s \in System : s <= turn => s < turn \/ s = turn
      BY <2>2
    <3> QED BY <2>1, <3>1 DEF AgreeInv, PlaceInv
  <2>4. CASE turn < Systems
    <3>1. turn' = turn + 1 /\ phase' = phase /\ touched' = touched
      BY <1>4, <2>4 DEF NextContext
    <3>2. PlaceInv'
      <4>1. \A s \in System : s < turn + 1 => s <= turn
        BY <2>2
      <4>2. \A s \in System : s < turn' => deferredActions'[s] = <<>> /\ deferredEntities'[s] = <<>>
        BY <2>1, <2>3, <3>1, <4>1
      <4> QED BY <2>1, <3>1, <4>2 DEF PlaceInv
    <3> QED BY <1>4, <2>1, <3>1, <3>2, MovedAgrees DEF NextContext, worldVars
  <2>5. CASE ~(turn < Systems)
    <3>1. phase' = "outside" /\ touched' = [n \in DOMAIN touched |-> 0]
      BY <1>4, <2>5 DEF NextContext
    <3>2. \A s \in System : /\ deferredActions[s] = <<>> /\ deferredEntities[s] = <<>>
                            /\ deferredActions'[s] = <<>> /\ deferredEntities'[s] = <<>>
      BY <2>1, <2>2, <2>3, <2>5
    <3> QED BY <1>4, <3>1, <3>2, SettledAgrees DEF NextContext, worldVars
  <2> QED BY <2>4, <2>5
<1> QED BY <1>1, <1>2, <1>3, <1>4

\* An entity a context has created, once it has all its components.
LEMMA NewEntityDoneAgrees ==
    ASSUME EcsInv, Cares, AgreeInv, phase = "apply", deferredEntities[turn] # <<>>,
           Head(deferredEntities[turn]).components = <<>>,
           deferredEntities' = [deferredEntities EXCEPT ![turn] = Tail(@)],
           UNCHANGED <<entities, sets, phase, turn, deferredActions, failed,
                       created, alive, owned, touched, stripped>>
    PROVE  AgreeInv'
<1>1. /\ turn \in System /\ deferredEntities[turn] \in Seq(DeferredEntityType)
      /\ deferredEntities'[turn] = Tail(deferredEntities[turn])
      /\ \A t \in System : t # turn => deferredEntities'[t] = deferredEntities[t]
  BY DEF EcsInv, TypeOK, RunTypeOK
<1>2. \A t \in System, j \in Nat : j \in 1..Len(deferredEntities'[t]) =>
         \E l \in 1..Len(deferredEntities[t]) :
            /\ deferredEntities'[t][j] = deferredEntities[t][l]
            /\ l = IF t = turn THEN j + 1 ELSE j
  <2> SUFFICES ASSUME NEW t \in System, NEW j \in 1..Len(deferredEntities'[t])
               PROVE  \E l \in 1..Len(deferredEntities[t]) :
                         /\ deferredEntities'[t][j] = deferredEntities[t][l]
                         /\ l = IF t = turn THEN j + 1 ELSE j
    OBVIOUS
  <2>1. CASE t # turn
    BY <1>1, <2>1
  <2>2. CASE t = turn
    <3>1. PICK len \in Nat \ {0} : len = Len(deferredEntities[turn])
      BY <1>1, Shifted
    <3>2. /\ Len(deferredEntities'[turn]) = len - 1
          /\ \A i \in 1..len - 1 : deferredEntities'[turn][i] = deferredEntities[turn][i + 1]
      <4>1. PICK defs \in Seq(DeferredEntityType) : defs = deferredEntities[turn] /\ defs # <<>>
        BY <1>1
      <4>2. deferredEntities'[turn] = Tail(defs) /\ len = Len(defs)
        BY <1>1, <3>1, <4>1
      <4>3. Len(Tail(defs)) = len - 1 /\ \A i \in 1..len - 1 : Tail(defs)[i] = defs[i + 1]
        BY ONLY <4>1, <4>2, Shifted
      <4> QED BY <4>1, <4>2, <4>3
    <3>3. j \in 1..len - 1 /\ j + 1 \in 1..len
      BY <2>2, <3>2
    <3> QED BY <2>2, <3>1, <3>2, <3>3
  <2> QED BY <2>1, <2>2
<1>3. \A t \in System : \A j \in 1..Len(deferredEntities'[t]) :
         \E l \in 1..Len(deferredEntities[t]) :
            /\ deferredEntities'[t][j] = deferredEntities[t][l]
            /\ l = IF t = turn THEN j + 1 ELSE j
  BY <1>2
<1>4. \A n : Housed(n)' <=> Housed(n)
  BY DEF Housed
<1>5. /\ \A e : IsHoused(e) => IsHoused(e)'
      /\ \A t, e : IsNamedBy(t, e) => IsNamedBy(t, e)'
  BY <1>4 DEF IsHoused, IsNamedBy
<1>6. HousesInv'
  BY <1>4, HousesKept
<1>7. HandlesInv' /\ ActionsInv' /\ TouchedInv'
  BY <1>5 DEF AgreeInv, HandlesInv, ActionsInv, TouchedInv
<1>8. PlaceInv'
  <2>1. turn \in Nat
    BY <1>1 DEF System
  <2> QED BY <1>1, <2>1 DEF AgreeInv, PlaceInv
<1>9. DefsInv'
  <2>1. ASSUME NEW t \in System, NEW j \in 1..Len(deferredEntities'[t])
        PROVE  \E m \in 1..Len(created') :
                  Housed(m)' /\ touched'[m] = t /\ created'[m] = deferredEntities'[t][j].entity
    <3>1. PICK e : e = deferredEntities'[t][j].entity
      OBVIOUS
    <3>2. IsNamedBy(t, e)'
      BY <1>3, <1>5, <3>1 DEF AgreeInv, DefsInv
    <3> QED BY <3>1, <3>2 DEF IsNamedBy
  <2>2. ASSUME NEW t \in System, NEW j \in 1..Len(deferredEntities'[t]),
               NEW l \in 1..Len(deferredEntities'[t]),
               deferredEntities'[t][j].entity.id = deferredEntities'[t][l].entity.id
        PROVE  j = l
    <3>1. PICK x \in 1..Len(deferredEntities[t]) :
             /\ deferredEntities'[t][j] = deferredEntities[t][x]
             /\ x = IF t = turn THEN j + 1 ELSE j
      BY <1>3
    <3>2. PICK y \in 1..Len(deferredEntities[t]) :
             /\ deferredEntities'[t][l] = deferredEntities[t][y]
             /\ y = IF t = turn THEN l + 1 ELSE l
      BY <1>3
    <3>3. x = y
      BY <2>2, <3>1, <3>2 DEF AgreeInv, DefsInv
    <3> QED BY <3>1, <3>2, <3>3
  <2>3. \A t \in System : \A j \in 1..Len(deferredEntities'[t]) :
           \A l \in 1..Len(deferredEntities'[t]) :
              deferredEntities'[t][j].entity.id = deferredEntities'[t][l].entity.id => j = l
    BY <2>2
  <2> QED BY ONLY <2>1, <2>3 DEF DefsInv, IsNamedBy
<1>10. BuildInv'
  BY <1>3 DEF AgreeInv, BuildInv
<1>11. ASSUME NEW n \in 1..Len(created), NEW c \in Components, Housed(n), NEW t \in System,
              touched[n] \in {0, t}
       PROVE  Will(deferredActions[t], deferredEntities'[t], sets[c], created[n], c, owned[n][c])
  <2>1. Will(deferredActions[t], deferredEntities[t], sets[c], created[n], c, owned[n][c])
    BY <1>11 DEF AgreeInv, WillInv, WillBe
  <2>2. /\ NoComponent(deferredEntities[t], created[n], c)
              => NoComponent(deferredEntities'[t], created[n], c)
        /\ \A v : LastComponent(deferredEntities[t], created[n], c, v)
                     => LastComponent(deferredEntities'[t], created[n], c, v)
    <3>1. CASE t = turn
      <4>1. PICK defs \in Seq(DeferredEntityType) :
               /\ defs = deferredEntities[turn] /\ defs # <<>> /\ Head(defs).components = <<>>
               /\ deferredEntities'[turn] = Tail(defs)
        BY <1>1
      <4>2. /\ NoComponent(defs, created[n], c) => NoComponent(Tail(defs), created[n], c)
            /\ \A v : LastComponent(defs, created[n], c, v)
                         => LastComponent(Tail(defs), created[n], c, v)
        BY ONLY <4>1, DefsTaken
      <4> QED BY <3>1, <4>1, <4>2
    <3>2. CASE t # turn
      BY <1>1, <3>2
    <3> QED BY <3>1, <3>2
  <2> QED BY <2>1, <2>2 DEF Will
<1>12. WillInv'
  BY <1>4, <1>11 DEF AgreeInv, WillInv, WillBe
<1> QED BY <1>6, <1>7, <1>8, <1>9, <1>10, <1>12 DEF AgreeInv, AssertionsHold

\* The next component of an entity that a context has created.
LEMMA NewComponentAgrees ==
    ASSUME EcsInv, Cares, AgreeInv, phase = "apply", deferredEntities[turn] # <<>>,
           NEW d \in DeferredEntityType, d = Head(deferredEntities[turn]), d.components # <<>>,
           AddComponentToWorld(d.entity, Head(d.components).type, Head(d.components).value),
           deferredEntities' = [deferredEntities EXCEPT ![turn][1].components = Tail(@)],
           UNCHANGED <<entities, phase, turn, deferredActions, created, alive, owned, touched, stripped>>
    PROVE  AgreeInv'
<1>1. /\ turn \in System /\ turn \in Nat /\ turn # 0
      /\ deferredEntities[turn] \in Seq(DeferredEntityType)
  BY AgreeFacts DEF System
<1>2. d = deferredEntities[turn][1] /\ 1 \in 1..Len(deferredEntities[turn])
  BY <1>1, Shifted
<1>3. PICK n \in 1..Len(created) : Housed(n) /\ touched[n] = turn /\ created[n] = d.entity
  BY <1>1, <1>2 DEF AgreeInv, DefsInv, IsNamedBy
<1>4. PICK old \in Seq(DeferredComponent) : old = d.components /\ old # <<>>
  BY DEF DeferredEntityType, DeferredComponent
<1>5. PICK x \in DeferredComponent : x = Head(old)
  BY <1>4, Shifted
<1>6. PICK c \in Components : c = x.type
  BY DEF DeferredComponent
<1>7. PICK v \in Values : v = x.value
  BY DEF DeferredComponent
<1>8. PICK cs \in Seq(DeferredComponent) : cs = Tail(old)
  BY <1>4, Shifted
<1>9. AddComponentToWorld(created[n], c, v)
  BY <1>3, <1>4, <1>5, <1>6, <1>7
<1>10. failed' = failed /\ sets' = [sets EXCEPT ![c] = SetGiven(sets[c], created[n], v)]
  BY <1>9, AddGives
<1>11. /\ At(sets'[c], created[n]) = v
       /\ \A m \in 1..Len(created), b \in Components :
             Housed(m) /\ ~(m = n /\ b = c) => At(sets'[b], created[m]) = At(sets[b], created[m])
       /\ \A b \in Components : \A k \in 1..Len(sets'[b].entities) :
             IsHoused(sets'[b].entities[k])
  <2>1. /\ EcsInv /\ Cares /\ AgreeInv /\ Housed(n)
        /\ sets' = [sets EXCEPT ![c] = SetGiven(sets[c], created[n], v)]
    BY <1>3, <1>10
  <2> QED BY ONLY <2>1, GivenFinds
<1>12. deferredEntities' = [deferredEntities EXCEPT ![turn][1].components = cs]
  BY <1>2, <1>4, <1>8
<1>13. /\ Replaced(deferredEntities'[turn], deferredEntities[turn], 1, cs)
       /\ \A t \in System : t # turn => deferredEntities'[t] = deferredEntities[t]
       /\ \A t \in System :
             /\ Len(deferredEntities'[t]) = Len(deferredEntities[t])
             /\ \A j \in 1..Len(deferredEntities[t]) :
                   deferredEntities'[t][j].entity = deferredEntities[t][j].entity
  BY <1>1, <1>2, <1>12, DefReplaced
<1>14. \A m : Housed(m)' <=> Housed(m)
  BY DEF Housed
<1>15. \A t, e : IsNamedBy(t, e) => IsNamedBy(t, e)'
  BY <1>14 DEF IsNamedBy
<1>16. HousesInv'
  BY <1>14, HousesKept
<1>17. HandlesInv'
  <2> SUFFICES ASSUME NEW b \in Components, NEW k \in 1..Len(sets'[b].entities)
               PROVE  \E m \in 1..Len(created') : Housed(m)' /\ created'[m] = sets'[b].entities[k]
    BY DEF HandlesInv, IsHoused
  <2>1. IsHoused(sets'[b].entities[k])
    BY <1>11
  <2> QED BY <1>14, <2>1 DEF IsHoused
<1>18. PlaceInv' /\ TouchedInv'
  <2>1. \A t \in System : t < turn => deferredEntities'[t] = deferredEntities[t]
    BY <1>1, <1>13
  <2> QED BY <2>1 DEF AgreeInv, PlaceInv, TouchedInv
<1>19. ActionsInv'
  BY <1>15 DEF AgreeInv, ActionsInv
<1>20. BuildInv'
  <2>1. ASSUME NEW m \in alive \ stripped, NEW t \in System,
               NEW i \in 1..Len(deferredEntities'[t]), NEW k \in 1..Len(deferredActions[t]),
               deferredEntities'[t][i].entity = created[m], deferredActions[t][k].entity = created[m]
        PROVE  FALSE
    <3>1. i \in 1..Len(deferredEntities[t]) /\ deferredEntities[t][i].entity = created[m]
      BY <1>13, <2>1
    <3> QED BY <2>1, <3>1 DEF AgreeInv, BuildInv
  <2>2. UNCHANGED <<created, alive, stripped, deferredActions>>
    OBVIOUS
  <2> QED BY ONLY <2>1, <2>2 DEF BuildInv
<1>21. DefsInv'
  <2>1. ASSUME NEW t \in System, NEW j \in 1..Len(deferredEntities'[t])
        PROVE  \E m \in 1..Len(created') :
                  Housed(m)' /\ touched'[m] = t /\ created'[m] = deferredEntities'[t][j].entity
    <3>1. PICK e : e = deferredEntities[t][j].entity
      OBVIOUS
    <3>2. IsNamedBy(t, e)'
      BY <1>13, <1>15, <3>1 DEF AgreeInv, DefsInv
    <3> QED BY <1>13, <3>1, <3>2 DEF IsNamedBy
  <2>2. ASSUME NEW t \in System, NEW j \in 1..Len(deferredEntities'[t]),
               NEW l \in 1..Len(deferredEntities'[t]),
               deferredEntities'[t][j].entity.id = deferredEntities'[t][l].entity.id
        PROVE  j = l
    <3>1. /\ j \in 1..Len(deferredEntities[t]) /\ l \in 1..Len(deferredEntities[t])
          /\ deferredEntities[t][j].entity.id = deferredEntities[t][l].entity.id
      BY <1>13, <2>2
    <3> QED BY <3>1 DEF AgreeInv, DefsInv
  <2>3. ASSUME NEW t \in System, NEW j \in 1..Len(deferredEntities'[t])
        PROVE  IsNamedBy(t, deferredEntities[t][j].entity)'
    BY ONLY <2>1, t \in System, j \in 1..Len(deferredEntities'[t]) DEF IsNamedBy
  <2> QED BY ONLY <2>2, <2>3 DEF DefsInv
<1>22. ASSUME NEW m \in 1..Len(created), NEW b \in Components, Housed(m), NEW t \in System,
              touched[m] \in {0, t}
       PROVE  Will(deferredActions[t], deferredEntities'[t], sets'[b], created[m], b, owned[m][b])
  <2>1. Will(deferredActions[t], deferredEntities[t], sets[b], created[m], b, owned[m][b])
    BY <1>22 DEF AgreeInv, WillInv, WillBe
  <2>2. CASE m = n /\ b = c
    <3>1. t = turn
      BY <1>1, <1>3, <1>22, <2>2
    <3>2. \A j \in 1..Len(deferredEntities[turn]) :
             deferredEntities[turn][j].entity = created[n] => j = 1
      BY <1>1, <1>2, <1>3 DEF AgreeInv, DefsInv
    <3>3. NoneOfType(cs, c) => NoComponent(deferredEntities'[turn], created[n], c)
      BY <1>1, <1>13, <3>2 DEF NoComponent, Replaced
    <3>4. \A w : LastOfType(cs, c, w) => LastComponent(deferredEntities'[turn], created[n], c, w)
      <4>1. /\ 1 \in 1..Len(deferredEntities'[turn])
            /\ deferredEntities'[turn][1].entity = created[n]
            /\ deferredEntities'[turn][1].components = cs
        BY <1>1, <1>2, <1>3, <1>13 DEF Replaced
      <4> QED BY <4>1 DEF LastComponent
    <3>5. /\ NoneOfType(old, c) => NoneOfType(cs, c) /\ x.type # c
          /\ \A w : LastOfType(old, c, w) =>
                \/ LastOfType(cs, c, w)
                \/ NoneOfType(cs, c) /\ x.type = c /\ x.value = w
      BY ONLY <1>4, <1>5, <1>8, ComponentTaken
    <3>6. ~NoComponent(deferredEntities[turn], created[n], c)
      BY <1>2, <1>3, <1>4, <1>6, <3>5 DEF NoComponent
    <3>7. \A w : LastComponent(deferredEntities[turn], created[n], c, w) => LastOfType(old, c, w)
      BY <1>2, <1>4, <3>2 DEF LastComponent
    <3>8. \A w : LastComponent(deferredEntities[turn], created[n], c, w) =>
             \/ LastComponent(deferredEntities'[turn], created[n], c, w)
             \/ NoComponent(deferredEntities'[turn], created[n], c) /\ At(sets'[c], created[n]) = w
      BY <1>7, <1>11, <3>3, <3>4, <3>5, <3>7
    <3> QED BY <2>1, <2>2, <3>1, <3>6, <3>8 DEF Will
  <2>3. CASE ~(m = n /\ b = c)
    <3>1. At(sets'[b], created[m]) = At(sets[b], created[m])
      BY <1>11, <1>22, <2>3
    <3>2. \/ d.entity # created[m]
          \/ /\ NoneOfType(old, b) => NoneOfType(cs, b)
             /\ \A w : LastOfType(old, b, w) => LastOfType(cs, b, w)
      <4>1. CASE m # n
        BY <1>3, <1>22, <4>1, HousedApart
      <4>2. CASE m = n
        <5>1. x.type # b
          BY <1>6, <2>3, <4>2
        <5> QED BY ONLY <1>4, <1>5, <1>8, <5>1, ComponentTaken
      <4> QED BY <4>1, <4>2
    <3>3. /\ NoComponent(deferredEntities[t], created[m], b)
                => NoComponent(deferredEntities'[t], created[m], b)
          /\ \A w : LastComponent(deferredEntities[t], created[m], b, w)
                       => LastComponent(deferredEntities'[t], created[m], b, w)
      <4>1. CASE t = turn
        <5>1. PICK e, defs, new : e = created[m] /\ defs = deferredEntities[turn]
                                  /\ new = deferredEntities'[turn]
          OBVIOUS
        <5>2. /\ 1 \in 1..Len(defs) /\ Replaced(new, defs, 1, cs)
              /\ \/ defs[1].entity # e
                 \/ /\ NoneOfType(defs[1].components, b) => NoneOfType(cs, b)
                    /\ \A w : LastOfType(defs[1].components, b, w) => LastOfType(cs, b, w)
          BY <1>2, <1>4, <1>13, <3>2, <5>1
        <5>3. /\ NoComponent(defs, e, b) => NoComponent(new, e, b)
              /\ \A w : LastComponent(defs, e, b, w) => LastComponent(new, e, b, w)
          BY ONLY <5>2, OtherReplaced
        <5> QED BY <4>1, <5>1, <5>3
      <4>2. CASE t # turn
        BY <1>13, <4>2
      <4> QED BY <4>1, <4>2
    <3> QED BY <2>1, <3>1, <3>3 DEF Will
  <2> QED BY <2>2, <2>3
<1>23. WillInv'
  BY <1>14, <1>22 DEF AgreeInv, WillInv, WillBe
<1> QED BY <1>10, <1>16, <1>17, <1>18, <1>19, <1>20, <1>21, <1>23 DEF AgreeInv, AssertionsHold

\* The first call of the context whose turn it is has been made.
LEMMA Taken ==
    ASSUME EcsInv, Cares, deferredActions[turn] # <<>>,
           deferredActions' = [deferredActions EXCEPT ![turn] = Tail(@)]
    PROVE  /\ deferredActions'[turn] = Tail(deferredActions[turn])
           /\ \A t \in System : t # turn => deferredActions'[t] = deferredActions[t]
           /\ 1 \in 1..Len(deferredActions[turn])
           /\ deferredActions[turn][1] = Head(deferredActions[turn])
           /\ \A t \in System :
                 /\ \A k \in 1..Len(deferredActions'[t]) :
                       \E l \in 1..Len(deferredActions[t]) :
                          /\ deferredActions'[t][k] = deferredActions[t][l]
                          /\ l = IF t = turn THEN k + 1 ELSE k
                 /\ \A l \in 1..Len(deferredActions[t]) :
                       \/ t = turn /\ l = 1
                       \/ \E k \in 1..Len(deferredActions'[t]) :
                             deferredActions'[t][k] = deferredActions[t][l]
<1>1. /\ turn \in System /\ deferredActions[turn] \in Seq(ActionType)
      /\ deferredActions'[turn] = Tail(deferredActions[turn])
      /\ \A t \in System : t # turn => deferredActions'[t] = deferredActions[t]
  BY DEF EcsInv, TypeOK, RunTypeOK
<1>2. PICK acts \in Seq(ActionType) : acts = deferredActions[turn] /\ acts # <<>>
  BY <1>1
<1>3. PICK len \in Nat \ {0} : len = Len(acts)
  BY <1>2, Shifted
<1>4. /\ Len(Tail(acts)) = len - 1 /\ Head(acts) = acts[1]
      /\ \A i \in 1..len - 1 : Tail(acts)[i] = acts[i + 1]
  BY ONLY <1>2, <1>3, Shifted
<1>5. 1 \in 1..len
  OBVIOUS
<1>5a. PICK new : /\ new = Tail(acts) /\ Len(new) = len - 1
                  /\ \A i \in 1..len - 1 : new[i] = acts[i + 1]
                  /\ deferredActions'[turn] = new
  BY <1>1, <1>2, <1>4
<1>6. ASSUME NEW t \in System, NEW k \in 1..Len(deferredActions'[t])
      PROVE  \E l \in 1..Len(deferredActions[t]) :
                /\ deferredActions'[t][k] = deferredActions[t][l]
                /\ l = IF t = turn THEN k + 1 ELSE k
  <2>1. CASE t # turn
    BY <1>1, <2>1
  <2>2. CASE t = turn
    <3>1. k \in 1..len - 1 /\ k + 1 \in 1..len
      <4>1. k \in 1..Len(new)
        BY <1>5a, <2>2
      <4>2. k \in 1..len - 1
        BY <1>5a, <4>1
      <4> QED BY <4>2
    <3>2. deferredActions'[t][k] = acts[k + 1]
      BY <1>5a, <2>2, <3>1
    <3> QED BY <1>2, <1>3, <2>2, <3>1, <3>2
  <2> QED BY <2>1, <2>2
<1>7. ASSUME NEW t \in System, NEW l \in 1..Len(deferredActions[t]), ~(t = turn /\ l = 1)
      PROVE  \E k \in 1..Len(deferredActions'[t]) : deferredActions'[t][k] = deferredActions[t][l]
  <2>1. CASE t # turn
    BY <1>1, <2>1
  <2>2. CASE t = turn
    <3>1. l \in 1..len /\ l # 1
      BY <1>2, <1>3, <1>7, <2>2
    <3>2. l - 1 \in 1..len - 1 /\ (l - 1) + 1 = l
      BY <3>1
    <3>3. new[l - 1] = acts[l]
      BY <1>5a, <3>2
    <3> QED BY <1>2, <1>5a, <2>2, <3>2, <3>3
  <2> QED BY <2>1, <2>2
<1> QED BY <1>1, <1>2, <1>3, <1>4, <1>5, <1>6, <1>7

\* What remains of the contexts' calls is as it was.
LEMMA TakenKeeps ==
    ASSUME EcsInv, Cares, AgreeInv, phase = "apply", deferredActions[turn] # <<>>,
           deferredEntities[turn] = <<>>,
           deferredActions' = [deferredActions EXCEPT ![turn] = Tail(@)],
           UNCHANGED <<phase, turn, deferredEntities, created, alive, touched, stripped>>,
           NEW n \in 1..Len(created), touched[n] = turn,
           \A m \in 1..Len(created) : Housed(m) /\ m # n => Housed(m)',
           Housed(n)' \/ \A k \in 1..Len(deferredActions'[turn]) :
                            deferredActions'[turn][k].entity # created[n]
    PROVE  PlaceInv' /\ TouchedInv' /\ ActionsInv' /\ DefsInv' /\ BuildInv'
<1>1. /\ turn \in System /\ turn \in Nat
      /\ \A t \in System : t # turn => deferredActions'[t] = deferredActions[t]
      /\ \A t \in System : \A k \in 1..Len(deferredActions'[t]) :
            \E l \in 1..Len(deferredActions[t]) :
               /\ deferredActions'[t][k] = deferredActions[t][l]
               /\ l = IF t = turn THEN k + 1 ELSE k
  <2>1. turn \in System /\ turn \in Nat
    BY AgreeFacts DEF System
  <2> QED BY <2>1, Taken
<1>2. PlaceInv'
  <2>1. \A t \in System : t < turn => deferredActions'[t] = deferredActions[t]
    BY <1>1
  <2> QED BY <2>1 DEF AgreeInv, PlaceInv
<1>3. TouchedInv'
  BY DEF TouchedInv
<1>4. ActionsInv'
  <2>1. ASSUME NEW t \in System, NEW k \in 1..Len(deferredActions'[t])
        PROVE  \E m \in 1..Len(created') :
                  Housed(m)' /\ touched'[m] = t /\ created'[m] = deferredActions'[t][k].entity
    <3>1. PICK m \in 1..Len(created) :
             Housed(m) /\ touched[m] = t /\ created[m] = deferredActions'[t][k].entity
      <4>0. \E l \in 1..Len(deferredActions[t]) :
               /\ deferredActions'[t][k] = deferredActions[t][l]
               /\ l = IF t = turn THEN k + 1 ELSE k
        BY ONLY <1>1, t \in System, k \in 1..Len(deferredActions'[t])
      <4>1. PICK l \in 1..Len(deferredActions[t]) : deferredActions'[t][k] = deferredActions[t][l]
        BY ONLY <4>0
      <4>2. IsNamedBy(t, deferredActions[t][l].entity)
        BY DEF AgreeInv, ActionsInv
      <4> QED BY <4>1, <4>2 DEF IsNamedBy
    <3>2. Housed(m)'
      BY <3>1
    <3> QED BY <3>1, <3>2
  <2>2. ASSUME NEW t \in System, NEW k \in 1..Len(deferredActions'[t]),
               deferredActions'[t][k].do = "destroy"
        PROVE  /\ \A j \in k + 1 .. Len(deferredActions'[t]) :
                     deferredActions'[t][j].entity # deferredActions'[t][k].entity
               /\ \A m \in alive : created[m] # deferredActions'[t][k].entity
    <3>1. PICK l \in 1..Len(deferredActions[t]) :
             /\ deferredActions'[t][k] = deferredActions[t][l]
             /\ l = IF t = turn THEN k + 1 ELSE k
      BY <1>1
    <3>2. /\ \A j \in l + 1 .. Len(deferredActions[t]) :
                deferredActions[t][j].entity # deferredActions[t][l].entity
          /\ \A m \in alive : created[m] # deferredActions[t][l].entity
      BY <2>2, <3>1 DEF AgreeInv, ActionsInv
    <3>3. ASSUME NEW j \in k + 1 .. Len(deferredActions'[t])
          PROVE  deferredActions'[t][j].entity # deferredActions'[t][k].entity
      <4>1. j \in 1..Len(deferredActions'[t])
        OBVIOUS
      <4>2. PICK i \in 1..Len(deferredActions[t]) :
               /\ deferredActions'[t][j] = deferredActions[t][i]
               /\ i = IF t = turn THEN j + 1 ELSE j
        BY <1>1, <4>1
      <4>3. i \in l + 1 .. Len(deferredActions[t])
        BY <3>1, <4>2
      <4> QED BY <3>1, <3>2, <4>2, <4>3
    <3> QED BY <3>1, <3>2, <3>3
  <2>3. UNCHANGED <<created, alive, touched>>
    OBVIOUS
  <2>4. ASSUME NEW t \in System, NEW k \in 1..Len(deferredActions'[t])
        PROVE  IsNamedBy(t, deferredActions[t][k].entity)'
    BY ONLY <2>1, t \in System, k \in 1..Len(deferredActions'[t]) DEF IsNamedBy
  <2>5. ASSUME NEW t \in System, NEW k \in 1..Len(deferredActions'[t]),
               deferredActions'[t][k].do = "destroy"
        PROVE  /\ \A j \in k + 1 .. Len(deferredActions'[t]) :
                     deferredActions'[t][j].entity # deferredActions'[t][k].entity
               /\ \A m \in alive' : created'[m] # deferredActions'[t][k].entity
    BY ONLY <2>2, <2>3, <2>5, t \in System, k \in 1..Len(deferredActions'[t])
  <2> QED BY ONLY <2>4, <2>5 DEF ActionsInv
<1>5. DefsInv'
  <2>1. ASSUME NEW t \in System, NEW i \in 1..Len(deferredEntities[t])
        PROVE  \E m \in 1..Len(created') :
                  Housed(m)' /\ touched'[m] = t /\ created'[m] = deferredEntities[t][i].entity
    <3>1. t # turn
      OBVIOUS
    <3>2. PICK m \in 1..Len(created) :
             Housed(m) /\ touched[m] = t /\ created[m] = deferredEntities[t][i].entity
      BY DEF AgreeInv, DefsInv, IsNamedBy
    <3>3. Housed(m)'
      BY <3>1, <3>2
    <3> QED BY <3>2, <3>3
  <2> QED BY <2>1 DEF AgreeInv, DefsInv, IsNamedBy
<1>6. BuildInv'
  <2>1. ASSUME NEW m \in alive \ stripped, NEW t \in System,
               NEW i \in 1..Len(deferredEntities[t]), NEW k \in 1..Len(deferredActions'[t]),
               deferredEntities[t][i].entity = created[m],
               deferredActions'[t][k].entity = created[m]
        PROVE  FALSE
    BY <1>1, <2>1 DEF AgreeInv, BuildInv
  <2>2. UNCHANGED <<created, alive, stripped, deferredEntities>>
    OBVIOUS
  <2> QED BY ONLY <2>1, <2>2 DEF BuildInv
<1> QED BY <1>2, <1>3, <1>4, <1>5, <1>6

\* A deferred component, or the deferred removal of one.
LEMMA ApplyGiveAgrees ==
    ASSUME EcsInv, Cares, AgreeInv, phase = "apply", deferredActions[turn] # <<>>,
           deferredEntities[turn] = <<>>,
           deferredActions' = [deferredActions EXCEPT ![turn] = Tail(@)],
           NEW a \in ActionType, a = Head(deferredActions[turn]), a.do # "destroy",
           NEW c \in Components, a.type = c, NEW v \in Values \cup {Nothing}, a.value = v,
           sets' = [sets EXCEPT ![c] = SetGiven(sets[c], a.entity, v)], failed' = failed,
           UNCHANGED <<entities, phase, turn, deferredEntities, created, alive, owned, touched, stripped>>
    PROVE  AgreeInv'
<1>1. /\ turn \in System /\ turn # 0
      /\ deferredActions'[turn] = Tail(deferredActions[turn])
      /\ \A t \in System : t # turn => deferredActions'[t] = deferredActions[t]
      /\ 1 \in 1..Len(deferredActions[turn]) /\ deferredActions[turn][1] = a
      /\ \A t \in System :
            /\ \A k \in 1..Len(deferredActions'[t]) :
                  \E l \in 1..Len(deferredActions[t]) :
                     /\ deferredActions'[t][k] = deferredActions[t][l]
                     /\ l = IF t = turn THEN k + 1 ELSE k
            /\ \A l \in 1..Len(deferredActions[t]) :
                  \/ t = turn /\ l = 1
                  \/ \E k \in 1..Len(deferredActions'[t]) :
                        deferredActions'[t][k] = deferredActions[t][l]
  BY Taken, AgreeFacts
<1>2. PICK n \in 1..Len(created) : Housed(n) /\ touched[n] = turn /\ created[n] = a.entity
  <2>1. IsNamedBy(turn, deferredActions[turn][1].entity)
    BY <1>1 DEF AgreeInv, ActionsInv
  <2> QED BY <1>1, <2>1 DEF IsNamedBy
<1>3. /\ At(sets'[c], created[n]) = v
      /\ \A m \in 1..Len(created), b \in Components :
            Housed(m) /\ ~(m = n /\ b = c) => At(sets'[b], created[m]) = At(sets[b], created[m])
      /\ \A b \in Components : \A k \in 1..Len(sets'[b].entities) :
            IsHoused(sets'[b].entities[k])
  <2>1. /\ EcsInv /\ Cares /\ AgreeInv /\ Housed(n)
        /\ sets' = [sets EXCEPT ![c] = SetGiven(sets[c], created[n], v)]
    BY <1>2
  <2> QED BY ONLY ZenonT(30), <2>1, GivenFinds
<1>4. \A t \in System : \A e : Destroys(deferredActions'[t], e) <=> Destroys(deferredActions[t], e)
  <2>1. ASSUME NEW t \in System, NEW e, Destroys(deferredActions'[t], e)
        PROVE  Destroys(deferredActions[t], e)
    <3>1. PICK k \in 1..Len(deferredActions'[t]) :
             deferredActions'[t][k].do = "destroy" /\ deferredActions'[t][k].entity = e
      BY <2>1 DEF Destroys
    <3>2. PICK l \in 1..Len(deferredActions[t]) : deferredActions'[t][k] = deferredActions[t][l]
      BY ZenonT(30), <1>1
    <3> QED BY <3>1, <3>2 DEF Destroys
  <2>2. ASSUME NEW t \in System, NEW e, Destroys(deferredActions[t], e)
        PROVE  Destroys(deferredActions'[t], e)
    <3>1. PICK l \in 1..Len(deferredActions[t]) :
             deferredActions[t][l].do = "destroy" /\ deferredActions[t][l].entity = e
      BY <2>2 DEF Destroys
    <3>2. ~(t = turn /\ l = 1)
      BY <1>1, <3>1
    <3>3. PICK k \in 1..Len(deferredActions'[t]) : deferredActions'[t][k] = deferredActions[t][l]
      BY <1>1, <3>2
    <3> QED BY <3>1, <3>3 DEF Destroys
  <2> QED BY <2>1, <2>2
<1>5. \A m : Housed(m)' <=> Housed(m)
  BY <1>4 DEF Housed
<1>6. HousesInv'
  BY <1>5, HousesKept
<1>7. HandlesInv'
  <2> SUFFICES ASSUME NEW b \in Components, NEW k \in 1..Len(sets'[b].entities)
               PROVE  \E m \in 1..Len(created') : Housed(m)' /\ created'[m] = sets'[b].entities[k]
    BY DEF HandlesInv, IsHoused
  <2>1. IsHoused(sets'[b].entities[k])
    BY <1>3
  <2> QED BY <1>5, <2>1 DEF IsHoused
<1>8. PlaceInv' /\ TouchedInv' /\ ActionsInv' /\ DefsInv' /\ BuildInv'
  BY <1>2, <1>5, TakenKeeps
<1>9. ASSUME NEW m \in 1..Len(created), NEW b \in Components, Housed(m), NEW t \in System,
             touched[m] \in {0, t}
      PROVE  Will(deferredActions'[t], deferredEntities[t], sets'[b], created[m], b, owned[m][b])
  <2>1. Will(deferredActions[t], deferredEntities[t], sets[b], created[m], b, owned[m][b])
    BY <1>9 DEF AgreeInv, WillInv, WillBe
  <2>2. CASE t = turn
    <3>1. PICK acts \in Seq(ActionType) : acts = deferredActions[turn] /\ acts # <<>>
      BY <1>1, AgreeFacts
    <3>2. PICK e : e = created[m]
      OBVIOUS
    <3>3. /\ NoAction(acts, e, b) => NoAction(Tail(acts), e, b)
          /\ \A w : LastAction(acts, e, b, w) =>
                \/ LastAction(Tail(acts), e, b, w)
                \/ NoAction(Tail(acts), e, b) /\ Gives(Head(acts), e, b) /\ Head(acts).value = w
      BY ONLY <3>1, ActionTaken
    <3>4. Head(acts) = a /\ deferredActions'[t] = Tail(acts) /\ deferredActions[t] = acts
          /\ deferredEntities[t] = <<>>
      BY <1>1, <2>2, <3>1
    <3>5. NoComponent(<<>>, e, b) /\ \A w : ~LastComponent(<<>>, e, b, w)
      BY DEF NoComponent, LastComponent
    <3>6. Gives(a, e, b) <=> m = n /\ b = c
      BY <1>2, <1>9, <3>2, HousedApart DEF Gives
    <3>7. NoAction(acts, e, b) => ~Gives(a, e, b)
      BY <1>1, <3>1 DEF NoAction
    <3>8. ~Gives(a, e, b) => At(sets'[b], e) = At(sets[b], e)
      BY <1>3, <1>9, <3>2, <3>6
    <3>9. Gives(a, e, b) => At(sets'[b], e) = a.value
      BY <1>3, <3>2, <3>6
    <3> QED BY <2>1, <3>2, <3>3, <3>4, <3>5, <3>7, <3>8, <3>9 DEF Will
  <2>3. CASE t # turn
    <3>1. m # n
      BY <1>1, <1>2, <1>9, <2>3
    <3>2. At(sets'[b], created[m]) = At(sets[b], created[m])
      BY <1>3, <1>9, <3>1
    <3> QED BY <1>1, <2>1, <2>3, <3>2 DEF Will
  <2> QED BY <2>2, <2>3
<1>10. WillInv'
  BY <1>5, <1>9 DEF AgreeInv, WillInv, WillBe
<1> QED BY <1>6, <1>7, <1>8, <1>10 DEF AgreeInv, AssertionsHold

\* The deferred removal of an entity, which has lost its components by then.
LEMMA ApplyDestroyAgrees ==
    ASSUME EcsInv, Cares, AgreeInv, phase = "apply", deferredActions[turn] # <<>>,
           deferredEntities[turn] = <<>>,
           deferredActions' = [deferredActions EXCEPT ![turn] = Tail(@)],
           NEW a \in ActionType, a = Head(deferredActions[turn]), a.do = "destroy",
           RemoveEntityFromWorld(a.entity),
           UNCHANGED <<phase, turn, deferredEntities, created, alive, owned, touched, stripped>>
    PROVE  AgreeInv'
<1>1. /\ turn \in System /\ turn # 0
      /\ deferredActions'[turn] = Tail(deferredActions[turn])
      /\ \A t \in System : t # turn => deferredActions'[t] = deferredActions[t]
      /\ 1 \in 1..Len(deferredActions[turn]) /\ deferredActions[turn][1] = a
      /\ \A t \in System :
            /\ \A k \in 1..Len(deferredActions'[t]) :
                  \E l \in 1..Len(deferredActions[t]) :
                     /\ deferredActions'[t][k] = deferredActions[t][l]
                     /\ l = IF t = turn THEN k + 1 ELSE k
            /\ \A l \in 1..Len(deferredActions[t]) :
                  \/ t = turn /\ l = 1
                  \/ \E k \in 1..Len(deferredActions'[t]) :
                        deferredActions'[t][k] = deferredActions[t][l]
  BY Taken, AgreeFacts
<1>a. ASSUME NEW t \in System, NEW k \in 1..Len(deferredActions'[t])
      PROVE  \E l \in 1..Len(deferredActions[t]) :
                /\ deferredActions'[t][k] = deferredActions[t][l]
                /\ l = IF t = turn THEN k + 1 ELSE k
  BY ONLY <1>1, t \in System, k \in 1..Len(deferredActions'[t])
<1>2. PICK n \in 1..Len(created) : Housed(n) /\ touched[n] = turn /\ created[n] = a.entity
  <2>1. IsNamedBy(turn, deferredActions[turn][1].entity)
    BY <1>1 DEF AgreeInv, ActionsInv
  <2> QED BY <1>1, <2>1 DEF IsNamedBy
<1>3. /\ n \notin alive
      /\ \A l \in 1..Len(deferredActions[turn]) :
            l # 1 => deferredActions[turn][l].entity # created[n]
  <2>1. /\ \A j \in 1 + 1 .. Len(deferredActions[turn]) :
              deferredActions[turn][j].entity # deferredActions[turn][1].entity
        /\ \A m \in alive : created[m] # deferredActions[turn][1].entity
    <3>1. deferredActions[turn][1].do = "destroy"
      BY <1>1
    <3> QED BY <1>1, <3>1 DEF AgreeInv, ActionsInv
  <2>2. \A l \in 1..Len(deferredActions[turn]) : l # 1 => l \in 1 + 1 .. Len(deferredActions[turn])
    OBVIOUS
  <2> QED BY <1>1, <1>2, <2>1, <2>2
<1>4. \A k \in 1..Len(deferredActions'[turn]) : deferredActions'[turn][k].entity # created[n]
  <2> SUFFICES ASSUME NEW k \in 1..Len(deferredActions'[turn])
               PROVE  deferredActions'[turn][k].entity # created[n]
    OBVIOUS
  <2>1. PICK l \in 1..Len(deferredActions[turn]) :
           deferredActions'[turn][k] = deferredActions[turn][l] /\ l = k + 1
    <3>1. turn \in System
      BY ONLY <1>1
    <3>2. \E l \in 1..Len(deferredActions[turn]) :
             /\ deferredActions'[turn][k] = deferredActions[turn][l]
             /\ l = IF turn = turn THEN k + 1 ELSE k
      BY ONLY <1>a, <3>1, k \in 1..Len(deferredActions'[turn])
    <3> QED BY ONLY <3>2
  <2>2. l # 1
    BY <2>1
  <2> QED BY <1>3, <2>1, <2>2
<1>5. ASSUME NEW t \in System, NEW e
      PROVE  /\ Destroys(deferredActions'[t], e) => Destroys(deferredActions[t], e)
             /\ Destroys(deferredActions[t], e) /\ e # created[n] => Destroys(deferredActions'[t], e)
  <2>1. ASSUME Destroys(deferredActions'[t], e) PROVE Destroys(deferredActions[t], e)
    <3>1. PICK k \in 1..Len(deferredActions'[t]) :
             deferredActions'[t][k].do = "destroy" /\ deferredActions'[t][k].entity = e
      BY <2>1 DEF Destroys
    <3>2. PICK l \in 1..Len(deferredActions[t]) : deferredActions'[t][k] = deferredActions[t][l]
      BY ONLY <1>a, t \in System, k \in 1..Len(deferredActions'[t])
    <3> QED BY <3>1, <3>2 DEF Destroys
  <2>2. ASSUME Destroys(deferredActions[t], e), e # created[n]
        PROVE  Destroys(deferredActions'[t], e)
    <3>1. PICK l \in 1..Len(deferredActions[t]) :
             deferredActions[t][l].do = "destroy" /\ deferredActions[t][l].entity = e
      BY <2>2 DEF Destroys
    <3>2. ~(t = turn /\ l = 1)
      BY <1>1, <1>2, <2>2, <3>1
    <3>3. PICK k \in 1..Len(deferredActions'[t]) : deferredActions'[t][k] = deferredActions[t][l]
      BY <1>1, <3>2
    <3> QED BY <3>1, <3>3 DEF Destroys
  <2> QED BY <2>1, <2>2
<1>6. \A m \in 1..Len(created) : Housed(m)' <=> Housed(m) /\ m # n
  <2>1. ~Housed(n)'
    BY <1>2, <1>3, <1>4 DEF Housed, Destroys
  <2>2. \A m \in 1..Len(created) : Housed(m)' => Housed(m)
    BY <1>5 DEF Housed
  <2>3. ASSUME NEW m \in 1..Len(created), Housed(m), m # n PROVE Housed(m)'
    <3>1. created[m] # created[n]
      BY <1>2, <2>3, HousedApart
    <3> QED BY <1>5, <2>3, <3>1 DEF Housed
  <2> QED BY <2>1, <2>2, <2>3
<1>7. ASSUME NEW c \in Components PROVE At(sets[c], created[n]) = Nothing
  <2>1. /\ Will(deferredActions[turn], deferredEntities[turn], sets[c], created[n], c, owned[n][c])
        /\ owned[n][c] = Nothing
    BY <1>1, <1>2, <1>3 DEF AgreeInv, WillInv, WillBe
  <2>2. NoAction(deferredActions[turn], created[n], c)
    BY <1>1, <1>3 DEF NoAction, Gives
  <2> QED BY <2>1, <2>2 DEF Will, LastAction, NoAction, LastComponent
<1>8. HousesInv' /\ HandlesInv' /\ failed' = failed /\ sets' = sets
  <2>1. RemoveEntityFromWorld(created[n]) /\ created' = created
    BY <1>2
  <2> QED BY <1>2, <1>6, <1>7, <2>1, EvictKeeps
<1>9. PlaceInv' /\ TouchedInv' /\ ActionsInv' /\ DefsInv' /\ BuildInv'
  BY <1>2, <1>4, <1>6, TakenKeeps
<1>10. ASSUME NEW m \in 1..Len(created), m # n, NEW b \in Components, Housed(m), NEW t \in System,
              touched[m] \in {0, t}
       PROVE  Will(deferredActions'[t], deferredEntities[t], sets[b], created[m], b, owned[m][b])
  <2>1. Will(deferredActions[t], deferredEntities[t], sets[b], created[m], b, owned[m][b])
    BY <1>10 DEF AgreeInv, WillInv, WillBe
  <2>2. CASE t = turn
    <3>1. PICK acts \in Seq(ActionType) : acts = deferredActions[turn] /\ acts # <<>>
      BY <1>1, AgreeFacts
    <3>2. PICK e : e = created[m]
      OBVIOUS
    <3>3. /\ NoAction(acts, e, b) => NoAction(Tail(acts), e, b)
          /\ \A w : LastAction(acts, e, b, w) =>
                \/ LastAction(Tail(acts), e, b, w)
                \/ NoAction(Tail(acts), e, b) /\ Gives(Head(acts), e, b) /\ Head(acts).value = w
      BY ONLY <3>1, ActionTaken
    <3>4. Head(acts) = a /\ deferredActions'[t] = Tail(acts) /\ deferredActions[t] = acts
      BY <1>1, <2>2, <3>1
    <3>5. ~Gives(a, e, b)
      BY DEF Gives
    <3> QED BY <2>1, <3>2, <3>3, <3>4, <3>5 DEF Will
  <2>3. CASE t # turn
    BY <1>1, <2>1, <2>3
  <2> QED BY <2>2, <2>3
<1>11. WillInv'
  BY <1>6, <1>8, <1>10 DEF AgreeInv, WillInv, WillBe
<1> QED BY <1>8, <1>9, <1>11 DEF AgreeInv, AssertionsHold

-----------------------------------------------------------------------------
LEMMA AgreeInvInit == Init => AgreeInv
<1> SUFFICES ASSUME Init PROVE AgreeInv
  OBVIOUS
<1>1. /\ entities = <<>> /\ created = <<>> /\ alive = {} /\ failed = "none" /\ phase = "outside"
      /\ sets = [c \in Components |-> EmptySet]
      /\ deferredEntities = NoContext /\ deferredActions = NoContext
  BY DEF Init
<1>2. HousesInv /\ HandlesInv /\ TouchedInv /\ WillInv
  BY <1>1 DEF HousesInv, HandlesInv, TouchedInv, WillInv, EmptySet
<1>3. PlaceInv /\ ActionsInv /\ DefsInv /\ BuildInv
  BY <1>1 DEF PlaceInv, ActionsInv, DefsInv, BuildInv, NoContext
<1> QED BY <1>1, <1>2, <1>3 DEF AgreeInv, AssertionsHold

LEMMA DirectAgrees ==
    ASSUME EcsInv, Cares, AgreeInv, IdsFit',
           \/ AddEntity
           \/ \E n \in 1..Len(created), c \in Components :
                 RemoveComponent(n, c) \/ \E v \in Values : AddComponent(n, c, v)
           \/ \E n \in 1..Len(created) : RemoveEntity(n)
    PROVE  AgreeInv'
<1>1. \A n : MayName(n, 0) => n \in alive /\ touched[n] = 0
  BY DEF MayName, Cares, Careful
<1>2. CASE AddEntity
  <2>1. 0 \in 0..Systems
    BY EcsConstants
  <2>2. /\ Len(created) < MaxEntities /\ AddEntityToWorld /\ CallerCreates(0)
        /\ UNCHANGED <<sets, phase, turn, deferredEntities, deferredActions, failed, stripped>>
    BY <1>2 DEF AddEntity, runVars
  <2> QED BY <2>1, <2>2, AddAgrees
<1>3. ASSUME NEW n \in 1..Len(created), NEW c \in Components, RemoveComponent(n, c)
      PROVE  AgreeInv'
  <2>1. /\ n \in alive /\ touched[n] = 0 /\ CallerSets(n, c, Nothing)
        /\ RemoveComponentFromWorld(created[n], c)
        /\ UNCHANGED <<entities, runVars, failed, created, alive, touched, stripped>>
    BY <1>1, <1>3 DEF RemoveComponent
  <2>2. sets' = [sets EXCEPT ![c] = SetGiven(sets[c], created[n], Nothing)]
    BY <2>1, RemoveGives
  <2> QED BY <2>1, <2>2, DirectGiveAgrees
<1>4. ASSUME NEW n \in 1..Len(created), NEW c \in Components, NEW v \in Values, AddComponent(n, c, v)
      PROVE  AgreeInv'
  <2>1. /\ n \in alive /\ touched[n] = 0 /\ CallerSets(n, c, v)
        /\ AddComponentToWorld(created[n], c, v)
        /\ UNCHANGED <<entities, runVars, created, alive, touched, stripped>>
    BY <1>1, <1>4 DEF AddComponent
  <2>2. failed' = failed /\ sets' = [sets EXCEPT ![c] = SetGiven(sets[c], created[n], v)]
    BY <2>1, AddGives
  <2> QED BY <2>1, <2>2, DirectGiveAgrees
<1>5. ASSUME NEW n \in 1..Len(created), RemoveEntity(n)
      PROVE  AgreeInv'
  <2>1. /\ n \in alive /\ touched[n] = 0 /\ \A c \in Components : owned[n][c] = Nothing
        /\ RemoveEntityFromWorld(created[n]) /\ alive' = alive \ {n}
        /\ touched' = [touched EXCEPT ![n] = 0]
        /\ UNCHANGED <<runVars, created, owned, stripped>>
    BY <1>1, <1>5 DEF RemoveEntity, MayDestroy, Cares, Careful
  <2> QED BY <2>1, DirectRemoveAgrees
<1> QED BY <1>2, <1>3, <1>4, <1>5

LEMMA ContextAgrees ==
    ASSUME EcsInv, Cares, AgreeInv, IdsFit', NEW s \in System,
           \/ ContextAddEntity(s)
           \/ \E n \in 1..Len(created), c \in Components :
                 \/ \E v \in Values : ContextAddComponent(s, n, c, v)
                 \/ ContextRemoveComponent(s, n, c)
           \/ \E n \in 1..Len(created) : ContextDestroyEntity(s, n)
    PROVE  AgreeInv'
<1>1. ASSUME NEW n \in 1..Len(created), MayName(n, s)
      PROVE  n \in alive /\ touched[n] \in {0, s} /\ InWorld(created[n])
  <2>1. n \in alive /\ touched[n] \in {0, s}
    BY <1>1 DEF MayName, Cares, Careful
  <2>2. Housed(n)
    BY <2>1 DEF Housed
  <2> QED BY <2>1, <2>2, HousedApart
<1>2. CASE ContextAddEntity(s)
  <2>1. s \in 0..Systems /\ s # 0
    BY AgreeFacts
  <2>2. /\ phase = "systems" /\ Len(created) < MaxEntities /\ AddEntityToWorld /\ CallerCreates(s)
        /\ deferredEntities' = [deferredEntities EXCEPT ![s] =
              Append(@, [entity |-> NewEntity, components |-> <<>>])]
        /\ UNCHANGED <<sets, phase, turn, deferredActions, failed, stripped>>
    BY <1>2 DEF ContextAddEntity, InSystem
  <2> QED BY <2>1, <2>2, AddAgrees
<1>3. ASSUME NEW n \in 1..Len(created), NEW c \in Components, NEW v \in Values,
             ContextAddComponent(s, n, c, v)
      PROVE  AgreeInv'
  <2>1. /\ n \in alive /\ touched[n] \in {0, s} /\ InWorld(created[n]) /\ n \notin stripped
        /\ phase = "systems" /\ CallerSets(n, c, v) /\ touched' = [touched EXCEPT ![n] = s]
        /\ UNCHANGED <<entities, sets, phase, turn, created, alive, stripped>>
    BY <1>1, <1>3 DEF ContextAddComponent, InSystem, worldVars, Cares, Careful
  <2>2. CASE \E i \in DeferredAt(s, created[n]) :
                /\ deferredEntities' = [deferredEntities EXCEPT ![s][i].components =
                      Append(@, [type |-> c, value |-> v])]
                /\ UNCHANGED <<deferredActions, failed>>
    BY <2>1, <2>2, AskComponentAgrees
  <2>3. CASE /\ DeferredAt(s, created[n]) = {}
             /\ Defer(s, [do |-> "add", entity |-> created[n], type |-> c, value |-> v])
             /\ UNCHANGED <<deferredEntities, failed>>
    <3>1. PICK a \in ActionType :
             a = [do |-> "add", entity |-> created[n], type |-> c, value |-> v]
      <4>1. [do |-> "add", entity |-> created[n], type |-> c, value |-> v] \in ActionType
        BY CreatedFits DEF ActionType
      <4> QED BY <4>1
    <3>2. /\ a.do # "destroy" /\ a.entity = created[n] /\ a.type = c /\ a.value = v
          /\ Defer(s, a)
      BY <2>3, <3>1
    <3> QED BY <2>1, <2>3, <3>2, AskGiveAgrees
  <2> QED BY <1>3, <2>1, <2>2, <2>3 DEF ContextAddComponent
<1>4. ASSUME NEW n \in 1..Len(created), NEW c \in Components, ContextRemoveComponent(s, n, c)
      PROVE  AgreeInv'
  <2>1. /\ n \in alive /\ touched[n] \in {0, s} /\ InWorld(created[n])
        /\ phase = "systems" /\ CallerSets(n, c, Nothing) /\ touched' = [touched EXCEPT ![n] = s]
        /\ stripped \subseteq stripped' /\ (n \in stripped' \/ DeferredAt(s, created[n]) = {})
        /\ Defer(s, [do |-> "remove", entity |-> created[n], type |-> c, value |-> Nothing])
        /\ UNCHANGED <<entities, sets, phase, turn, deferredEntities, failed, created, alive>>
    BY <1>1, <1>4 DEF ContextRemoveComponent, InSystem, worldVars
  <2>2. PICK a \in ActionType :
           a = [do |-> "remove", entity |-> created[n], type |-> c, value |-> Nothing]
    <3>1. [do |-> "remove", entity |-> created[n], type |-> c, value |-> Nothing] \in ActionType
      BY CreatedFits DEF ActionType
    <3> QED BY <3>1
  <2>3. /\ a.do # "destroy" /\ a.entity = created[n] /\ a.type = c /\ a.value = Nothing
        /\ Defer(s, a)
    BY <2>1, <2>2
  <2> QED BY <2>1, <2>3, AskGiveAgrees
<1>5. ASSUME NEW n \in 1..Len(created), ContextDestroyEntity(s, n)
      PROVE  AgreeInv'
  <2>1. /\ n \in alive /\ touched[n] \in {0, s} /\ InWorld(created[n])
        /\ \A c \in Components : owned[n][c] = Nothing
        /\ phase = "systems" /\ alive' = alive \ {n} /\ touched' = [touched EXCEPT ![n] = s]
        /\ Defer(s, [do |-> "destroy", entity |-> created[n], type |-> "none", value |-> Nothing])
        /\ UNCHANGED <<entities, sets, phase, turn, deferredEntities, failed, created, owned, stripped>>
    BY <1>1, <1>5 DEF ContextDestroyEntity, InSystem, MayDestroy, Cares, Careful,
                          worldVars
  <2>2. PICK a \in ActionType :
           a = [do |-> "destroy", entity |-> created[n], type |-> "none", value |-> Nothing]
    <3>1. [do |-> "destroy", entity |-> created[n], type |-> "none", value |-> Nothing]
             \in ActionType
      BY CreatedFits DEF ActionType
    <3> QED BY <3>1
  <2>3. a.do = "destroy" /\ a.entity = created[n] /\ Defer(s, a)
    BY <2>1, <2>2
  <2> QED BY <2>1, <2>3, AskDestroyAgrees
<1> QED BY <1>2, <1>3, <1>4, <1>5

LEMMA ApplyAgrees ==
    ASSUME EcsInv, Cares, AgreeInv, ApplyToNewEntity \/ ApplyAction
    PROVE  AgreeInv'
<1>1. turn \in System
  BY AgreeFacts
<1>2. CASE ApplyToNewEntity
  <2>1. /\ phase = "apply" /\ deferredEntities[turn] # <<>>
        /\ UNCHANGED <<entities, phase, turn, deferredActions, created, alive, owned, touched, stripped>>
    BY <1>2 DEF ApplyToNewEntity, Applying, callerVars
  <2>2. PICK d \in DeferredEntityType : d = Head(deferredEntities[turn])
    BY <1>1, <2>1, AgreeFacts, Shifted
  <2>3. CASE d.components = <<>>
    <3>1. /\ Head(deferredEntities[turn]).components = <<>>
          /\ deferredEntities' = [deferredEntities EXCEPT ![turn] = Tail(@)]
          /\ UNCHANGED <<sets, failed>>
      BY <1>2, <2>2, <2>3 DEF ApplyToNewEntity
    <3> QED BY <2>1, <3>1, NewEntityDoneAgrees
  <2>4. CASE d.components # <<>>
    <3>1. /\ AddComponentToWorld(d.entity, Head(d.components).type, Head(d.components).value)
          /\ deferredEntities' = [deferredEntities EXCEPT ![turn][1].components = Tail(@)]
      BY <1>2, <2>2, <2>4 DEF ApplyToNewEntity
    <3> QED BY <2>1, <2>2, <2>4, <3>1, NewComponentAgrees
  <2> QED BY <2>3, <2>4
<1>3. CASE ApplyAction
  <2>1. /\ phase = "apply" /\ deferredEntities[turn] = <<>> /\ deferredActions[turn] # <<>>
        /\ deferredActions' = [deferredActions EXCEPT ![turn] = Tail(@)]
        /\ UNCHANGED <<phase, turn, deferredEntities, created, alive, owned, touched, stripped>>
    BY <1>3 DEF ApplyAction, Applying, callerVars
  <2>2. PICK a \in ActionType : a = Head(deferredActions[turn])
    BY <1>1, <2>1, AgreeFacts, Shifted
  <2>3. PICK n \in 1..Len(created) : Housed(n) /\ created[n] = a.entity
    <3>1. deferredActions[turn] \in Seq(ActionType) /\ Len(deferredActions[turn]) \in Nat
      BY <1>1, AgreeFacts
    <3>2. 1 \in 1..Len(deferredActions[turn]) /\ a = deferredActions[turn][1]
      BY <2>1, <2>2, <3>1, Shifted
    <3>3. IsNamedBy(turn, a.entity)
      BY <1>1, <3>2 DEF AgreeInv, ActionsInv
    <3> QED BY <3>3 DEF IsNamedBy
  <2>4. CASE /\ a.do = "add" /\ AddComponentToWorld(a.entity, a.type, a.value)
             /\ UNCHANGED entities
    <3>1. PICK c \in Components, v \in Values : a.type = c /\ a.value = v
      BY <2>4 DEF ActionType
    <3>2. failed' = failed /\ sets' = [sets EXCEPT ![c] = SetGiven(sets[c], a.entity, v)]
      BY <2>3, <2>4, <3>1, AddGives
    <3> QED BY <2>1, <2>2, <2>4, <3>1, <3>2, ApplyGiveAgrees
  <2>5. CASE /\ a.do = "remove" /\ RemoveComponentFromWorld(a.entity, a.type)
             /\ UNCHANGED <<entities, failed>>
    <3>1. PICK c \in Components : a.type = c /\ a.value = Nothing
      BY <2>5 DEF ActionType
    <3>2. sets' = [sets EXCEPT ![c] = SetGiven(sets[c], a.entity, Nothing)]
      BY <2>3, <2>5, <3>1, RemoveGives
    <3> QED BY <2>1, <2>2, <2>5, <3>1, <3>2, ApplyGiveAgrees
  <2>6. CASE a.do = "destroy" /\ RemoveEntityFromWorld(a.entity)
    BY <2>1, <2>2, <2>6, ApplyDestroyAgrees
  <2> QED BY <1>3, <2>2, <2>4, <2>5, <2>6 DEF ApplyAction
<1> QED BY <1>2, <1>3

\* The ids that are in use or free are as many as there have been entities at a time.
LEMMA IdsFitNext ==
    ASSUME EcsInv, IdsFit, Len(entities') <= N, [Next]_vars
    PROVE  IdsFit'
<1>1. ASSUME UNCHANGED <<generations, created>> PROVE IdsFit'
  BY <1>1 DEF IdsFit
<1>2. ASSUME NEW s, Len(created) < MaxEntities, AddEntityToWorld, CallerCreates(s) PROVE IdsFit'
  <2>1. PICK e \in EntityType : e = NewEntity
    BY <1>2, NewEntityFits
  <2>2. /\ created' = Append(created, e) /\ created \in Seq(EntityType) /\ Len(created) \in Nat
        /\ Len(generations) \in Nat
    BY <1>2, <2>1 DEF CallerCreates, EcsInv, TypeOK, WorldTypeOK, CallerTypeOK
  <2>3. /\ Len(created') = Len(created) + 1 /\ created'[Len(created) + 1] = e
        /\ \A n \in 1..Len(created) : created'[n] = created[n]
    BY <2>1, <2>2, Appended
  <2>4. /\ Len(generations') \in Nat /\ Len(generations) <= Len(generations')
        /\ e.id < Len(generations')
        /\ Len(generations') = Len(generations) \/ Len(generations') = Len(entities')
    BY <1>2, <2>1, AddedGenerations
  <2>5. Len(generations') <= N
    BY <2>4 DEF IdsFit
  <2>6. ASSUME NEW n \in 1..Len(created') PROVE created'[n].id < Len(generations')
    <3>1. CASE n = Len(created) + 1
      BY <2>3, <2>4, <3>1
    <3>2. CASE n # Len(created) + 1
      <4>1. n \in 1..Len(created)
        BY <2>2, <2>3, <3>2
      <4>2. created[n].id < Len(generations) /\ created[n].id \in Nat
        <5>1. created[n] \in EntityType
          BY <2>2, <4>1, ElementOfSeq
        <5> QED BY <4>1, <5>1, EcsConstants DEF IdsFit, EntityType
      <4> QED BY <2>2, <2>3, <2>4, <4>1, <4>2
    <3> QED BY <3>1, <3>2
  <2> QED BY <2>5, <2>6 DEF IdsFit
<1>3. CASE UNCHANGED vars
  BY <1>1, <1>3 DEF vars, worldVars, callerVars
<1>4. CASE AddEntity
  BY <1>2, <1>4 DEF AddEntity
<1>5. ASSUME NEW s \in System, ContextAddEntity(s) PROVE IdsFit'
  BY <1>2, <1>5 DEF ContextAddEntity
<1>6. CASE \/ \E n \in 1..Len(created), c \in Components :
                 RemoveComponent(n, c) \/ \E v \in Values : AddComponent(n, c, v)
           \/ \E n \in 1..Len(created) : RemoveEntity(n)
  BY <1>1, <1>6 DEF RemoveComponent, AddComponent, RemoveEntity, RemoveEntityFromWorld, worldVars
<1>7. ASSUME NEW s \in System,
             \/ \E n \in 1..Len(created), c \in Components :
                   \/ \E v \in Values : ContextAddComponent(s, n, c, v)
                   \/ ContextRemoveComponent(s, n, c)
             \/ \E n \in 1..Len(created) : ContextDestroyEntity(s, n)
             \/ EndSystem(s)
      PROVE  IdsFit'
  BY <1>1, <1>7 DEF ContextAddComponent, ContextRemoveComponent, ContextDestroyEntity, EndSystem,
                    worldVars, callerVars
<1>8. CASE BeginLayer \/ EndHook \/ ApplyToNewEntity \/ ApplyAction \/ NextContext
  BY <1>1, <1>8 DEF BeginLayer, EndHook, ApplyToNewEntity, ApplyAction, RemoveEntityFromWorld,
                    NextContext, worldVars, callerVars
<1> QED BY <1>3, <1>4, <1>5, <1>6, <1>7, <1>8 DEF Next

LEMMA AgreeInvNext == EcsInv /\ Cares /\ AgreeInv /\ IdsFit' /\ [Next]_vars => AgreeInv'
<1> SUFFICES ASSUME EcsInv, Cares, AgreeInv, IdsFit', [Next]_vars PROVE AgreeInv'
  OBVIOUS
<1>1. CASE UNCHANGED vars
  <2>1. PlaceInv' /\ TouchedInv'
    BY <1>1 DEF vars, worldVars, runVars, callerVars, AgreeInv, PlaceInv, TouchedInv, Housed
  <2>2. CASE phase # "apply"
    BY <1>1, <2>1, <2>2, MovedAgrees DEF vars, worldVars, runVars, callerVars
  <2>3. CASE phase = "apply"
    BY <1>1, <2>1, <2>3, MovedAgrees DEF vars, worldVars, runVars, callerVars
  <2> QED BY <2>2, <2>3
<1>2. CASE Next
  BY <1>2, DirectAgrees, ContextAgrees, LayerAgrees, ApplyAgrees DEF Next
<1> QED BY <1>1, <1>2

\* The sets have room for the entities that are there at a time.
Room == Len(entities) <= N

LEMMA AgreeInvCorrect ==
    ASSUME Careful
    PROVE  Spec /\ []Room => [](EcsInv /\ Cares /\ AgreeInv)
<1>1. Init => EcsInv /\ Cares /\ AgreeInv
  <2>1. Init => Cares
    BY EcsConstants DEF Init, Cares, IdsFit
  <2> QED BY <2>1, EcsInvInit, AgreeInvInit
<1>2. EcsInv /\ Cares /\ AgreeInv /\ Room' /\ [Next]_vars => (EcsInv /\ Cares /\ AgreeInv)'
  <2> SUFFICES ASSUME EcsInv, Cares, AgreeInv, Room', [Next]_vars
               PROVE  (EcsInv /\ Cares /\ AgreeInv)'
    OBVIOUS
  <2>1. IdsFit'
    BY IdsFitNext DEF Room, Cares
  <2>2. Cares'
    BY <2>1 DEF Cares, Careful
  <2> QED BY <2>1, <2>2, EcsInvNext, AgreeInvNext
<1> QED BY <1>1, <1>2, PTL DEF Spec
-----------------------------------------------------------------------------
(***************************************************************************)
(* Outside run the lists are empty, and what AgreeInv says of the entities *)
(* that are housed and of the calls that are pending is what the callers   *)
(* see.                                                                    *)
(***************************************************************************)
\* The entities that are housed are those that are alive, and each has what it was
\* given last.
LEMMA OutsideAgrees ==
    ASSUME EcsInv, Cares, AgreeInv, phase = "outside"
    PROVE  /\ \A n \in 1..Len(created) : Housed(n) <=> n \in alive
           /\ \A n \in alive, c \in Components : At(sets[c], created[n]) = owned[n][c]
<1>1. \A s \in System : deferredActions[s] = <<>> /\ deferredEntities[s] = <<>>
  BY DEF AgreeInv, PlaceInv
<1>2. \A n \in 1..Len(created) : Housed(n) <=> n \in alive
  BY <1>1 DEF Housed, Destroys
<1>3. ASSUME NEW n \in alive, NEW c \in Components
      PROVE  At(sets[c], created[n]) = owned[n][c]
  <2>1. n \in 1..Len(created) /\ Housed(n)
    BY <1>2, AgreeFacts
  <2>2. PICK s \in System : touched[n] \in {0, s}
    <3>1. 1 \in System /\ (touched[n] # 0 => touched[n] \in System)
      BY <2>1, AgreeFacts DEF System
    <3> QED BY <3>1
  <2>3. Will(deferredActions[s], deferredEntities[s], sets[c], created[n], c, owned[n][c])
    BY <2>1, <2>2 DEF AgreeInv, WillInv, WillBe
  <2> QED BY <1>1, <2>3, NothingLeft
<1> QED BY <1>2, <1>3

\* Sets that are in a bijection have as many elements.
LEMMA SameCount ==
    ASSUME NEW S, NEW T, IsFiniteSet(S), NEW f \in [S -> T],
           \A x, y \in S : f[x] = f[y] => x = y,
           \A y \in T : \E x \in S : f[x] = y
    PROVE  Cardinality(S) = Cardinality(T)
<1>1. f \in Bijection(S, T)
  BY Fun_IsBij
<1>2. ExistsBijection(S, T)
  BY <1>1, Fun_ExistsBij
<1> QED BY <1>2, FS_Bijection

\* Places that hold the handles of some entities, each once, are as many as these.
LEMMA PlacesCount ==
    ASSUME NEW list, NEW handles, NEW places, NEW some, IsFiniteSet(places),
           \A i \in places : \E n \in some : list[i] = handles[n],
           \A n \in some : \E i \in places : list[i] = handles[n],
           \A i, j \in places : list[i] = list[j] => i = j,
           \A n, m \in some : handles[n] = handles[m] => n = m
    PROVE  Cardinality(places) = Cardinality(some)
<1>1. PICK f : f = [i \in places |-> CHOOSE n \in some : list[i] = handles[n]]
  OBVIOUS
<1>2. \A i \in places : f[i] \in some /\ list[i] = handles[f[i]]
  BY <1>1
<1>3. f \in [places -> some]
  BY <1>1, <1>2
<1>4. \A i, j \in places : f[i] = f[j] => i = j
  BY <1>2
<1>5. \A n \in some : \E i \in places : f[i] = n
  BY <1>2
<1> QED BY ONLY <1>3, <1>4, <1>5, IsFiniteSet(places), SameCount

LEMMA AgreeInvComponents ==
    ASSUME EcsInv, Cares, AgreeInv
    PROVE  ComponentsAgree
<1> SUFFICES ASSUME phase = "outside"
             PROVE  /\ \A n \in alive : InWorld(created[n])
                    /\ Len(entities) = Cardinality(alive)
                    /\ \A n \in alive, c \in Components :
                          GetComponent(c, created[n]) = owned[n][c]
  BY DEF ComponentsAgree
<1>1. /\ \A n \in 1..Len(created) : Housed(n) <=> n \in alive
      /\ \A n \in alive, c \in Components : At(sets[c], created[n]) = owned[n][c]
  BY OutsideAgrees
<1>2. alive \subseteq 1..Len(created)
  BY AgreeFacts
<1>3. \A n \in alive : InWorld(created[n])
  BY <1>1, <1>2, HousedApart
<1>4. Len(entities) = Cardinality(alive)
  <2>1. Len(entities) \in Nat
    BY DEF EcsInv, TypeOK, WorldTypeOK
  <2>2. \A i \in 1..Len(entities) : \E n \in alive : entities[i] = created[n]
    BY <1>1 DEF AgreeInv, HousesInv, IsHoused
  <2>3. \A n \in alive : \E i \in 1..Len(entities) : entities[i] = created[n]
    BY <1>1, <1>2 DEF AgreeInv, HousesInv
  <2>4. \A i, j \in 1..Len(entities) : entities[i].id = entities[j].id => i = j
    BY DEF EcsInv, IdsPartitioned
  <2>5. \A n, m \in alive : created[n].id = created[m].id => n = m
    BY <1>1, <1>2 DEF AgreeInv, HousesInv
  <2>6. IsFiniteSet(1..Len(entities))
    BY <2>1, FS_Interval
  <2>7. /\ \A i, j \in 1..Len(entities) : entities[i] = entities[j] => i = j
        /\ \A n, m \in alive : created[n] = created[m] => n = m
    BY <2>4, <2>5
  <2>8. Cardinality(1..Len(entities)) = Cardinality(alive)
    <3>1. PICK list, handles, places, some :
             /\ list = entities /\ handles = created /\ some = alive
             /\ places = 1..Len(entities)
      OBVIOUS
    <3>2. /\ IsFiniteSet(places)
          /\ \A i \in places : \E n \in some : list[i] = handles[n]
          /\ \A n \in some : \E i \in places : list[i] = handles[n]
          /\ \A i, j \in places : list[i] = list[j] => i = j
          /\ \A n, m \in some : handles[n] = handles[m] => n = m
      BY ONLY <2>2, <2>3, <2>6, <2>7, <3>1
    <3>3. Cardinality(places) = Cardinality(some)
      BY ONLY <3>2, PlacesCount
    <3> QED BY <3>1, <3>3
  <2>9. Len(entities) \in Int /\ 1 \in Int
    BY <2>1
  <2>10. Cardinality(1..Len(entities)) = IF 1 > Len(entities) THEN 0 ELSE Len(entities) - 1 + 1
    BY ONLY <2>9, FS_Interval
  <2> QED BY <2>1, <2>8, <2>10
<1> QED BY <1>1, <1>3, <1>4 DEF GetComponent

\* The set a view goes through is one of its own.
LEMMA SmallestOfIn ==
    ASSUME EcsInv, NEW cs \in SUBSET Components, cs # {}
    PROVE  SmallestOf(cs) \in cs
<1>1. \A c \in cs : Len(sets[c].entities) \in Nat
  BY DEF EcsInv, TypeOK, WorldTypeOK, SetType
<1>2. PICK k \in {Len(sets[c].entities) : c \in cs} :
         \A l \in {Len(sets[c].entities) : c \in cs} : ~ (<<l, k>> \in OpToRel(<, Nat))
  <2>1. {Len(sets[c].entities) : c \in cs} \subseteq Nat /\ {Len(sets[c].entities) : c \in cs} # {}
    BY <1>1
  <2> QED BY <2>1, NatLessThanWellFounded, WFMin
<1>3. PICK c \in cs : k = Len(sets[c].entities)
  BY <1>2
<1>4. ASSUME NEW d \in cs PROVE Len(sets[c].entities) <= Len(sets[d].entities)
  <2>1. ~ (<<Len(sets[d].entities), k>> \in {ss \in Nat \X Nat : ss[1] < ss[2]})
    BY <1>2, Zenon DEF OpToRel
  <2> QED BY <1>1, <1>3, <2>1
<1> QED BY <1>3, <1>4 DEF SmallestOf

\* An alive entity has a component if and only if its id is in the set, and then the
\* handle there is its own.
LEMMA OwnsIfContained ==
    ASSUME EcsInv, Cares, AgreeInv, phase = "outside", NEW n \in alive, NEW c \in Components
    PROVE  Contains(sets[c], created[n]) <=> owned[n][c] # Nothing
<1>1. n \in 1..Len(created) /\ Housed(n) /\ At(sets[c], created[n]) = owned[n][c]
  BY OutsideAgrees, AgreeFacts
<1>2. created[n].id \in Ids /\ sets[c] \in SetType /\ Consistent(sets[c])
  BY <1>1, AgreeFacts
<1>3. ASSUME Contains(sets[c], created[n]) PROVE At(sets[c], created[n]) # Nothing
  <2>1. PICK k \in 1..Len(sets[c].entities) :
           k = sets[c].sparse[created[n].id] /\ sets[c].entities[k].id = created[n].id
    BY <1>2, <1>3, SetArrays DEF Contains
  <2>2. sets[c].entities[k] = created[n]
    <3>1. \A l \in 1..Len(sets[c].entities) :
             sets[c].entities[l].id = created[n].id => sets[c].entities[l] = created[n]
      BY <1>1, HousedApart
    <3> QED BY <2>1, <3>1
  <2>3. sets[c].dense[k] \in Values /\ Nothing \notin Values
    BY <1>2, <2>1, SetArrays, WorldAssumption
  <2> QED BY <1>3, <2>1, <2>2, <2>3 DEF At
<1> QED BY <1>1, <1>3 DEF At

LEMMA AgreeInvViews ==
    ASSUME EcsInv, Cares, AgreeInv
    PROVE  ViewExact
<1> SUFFICES ASSUME phase = "outside", NEW cs \in (SUBSET Components) \ {{}},
                    NEW having, having = {n \in alive : \A c \in cs : owned[n][c] # Nothing}
             PROVE  /\ {ViewEntities(cs)[i] : i \in ViewPlaces(cs)}
                          = {created[n] : n \in having}
                    /\ Cardinality(ViewPlaces(cs)) = Cardinality(having)
  BY DEF ViewExact
<1>1. PICK c \in cs : c = SmallestOf(cs) /\ c \in Components
  <2>1. cs \in SUBSET Components /\ cs # {}
    OBVIOUS
  <2> QED BY <2>1, SmallestOfIn
<1>2. PICK list : list = ViewEntities(cs) /\ list = sets[c].entities
  BY <1>1 DEF ViewEntities
<1>3. sets[c] \in SetType /\ Consistent(sets[c]) /\ Len(list) \in Nat
  BY <1>1, <1>2, AgreeFacts, SetArrays
<1>4. \A n \in alive : n \in having <=> \A d \in cs : Contains(sets[d], created[n])
  BY OwnsIfContained
<1>5. \A i \in 1..Len(list) : \E n \in alive : list[i] = created[n]
  <2>1. \A i \in 1..Len(list) : IsHoused(list[i])
    BY <1>1, <1>2 DEF AgreeInv, HandlesInv
  <2> QED BY <2>1, OutsideAgrees DEF IsHoused
<1>6. ViewPlaces(cs) = {i \in 1..Len(list) : \A d \in cs : Contains(sets[d], list[i])}
  BY <1>2 DEF ViewPlaces, Matches
<1>7. ASSUME NEW i \in ViewPlaces(cs) PROVE \E n \in having : list[i] = created[n]
  BY <1>4, <1>5, <1>6
<1>8. ASSUME NEW n \in having PROVE \E i \in ViewPlaces(cs) : list[i] = created[n]
  <2>1. n \in alive /\ n \in 1..Len(created) /\ Housed(n) /\ created[n].id \in Ids
    BY OutsideAgrees, AgreeFacts
  <2>2. Contains(sets[c], created[n])
    BY <1>1, <1>4, <2>1
  <2>3. PICK i \in 1..Len(list) : list[i].id = created[n].id
    <3>1. PICK set : set = sets[c] /\ list = set.entities
      BY <1>2
    <3>2. /\ set \in SetType /\ Consistent(set) /\ Contains(set, created[n])
          /\ created[n].id \in Ids
      BY <1>3, <2>1, <2>2, <3>1
    <3>3. \E k \in 1..Len(set.entities) : set.entities[k].id = created[n].id
      BY <3>2, ContainedIn
    <3> QED BY <3>1, <3>3
  <2>4. list[i] = created[n]
    BY <1>1, <1>2, <2>1, <2>3, HousedApart
  <2> QED BY <1>4, <1>6, <2>1, <2>4
<1>9. {list[i] : i \in ViewPlaces(cs)} = {created[n] : n \in having}
  BY <1>7, <1>8
<1>10. \A i, j \in ViewPlaces(cs) : list[i] = list[j] => i = j
  <2>1. \A i \in 1..Len(list) : sets[c].sparse[list[i].id] = i
    BY <1>2, <1>3, SetArrays
  <2> QED BY <1>6, <2>1
<1>11. \A n, m \in having : created[n] = created[m] => n = m
  BY OutsideAgrees, AgreeFacts DEF AgreeInv, HousesInv
<1>12. IsFiniteSet(ViewPlaces(cs))
  <2>1. IsFiniteSet(1..Len(list))
    BY <1>3, FS_Interval
  <2>2. ViewPlaces(cs) \in SUBSET (1..Len(list))
    BY <1>6
  <2> QED BY <2>1, <2>2, FS_Subset
<1>13. Cardinality(ViewPlaces(cs)) = Cardinality(having)
  BY ONLY <1>7, <1>8, <1>10, <1>11, <1>12, PlacesCount
<1> QED BY <1>2, <1>9, <1>13

-----------------------------------------------------------------------------
(***************************************************************************)
(* The theorems.                                                           *)
(***************************************************************************)
\* The world, the contexts and the sets keep their types whatever the callers do;
\* ids and generations never exceed the number of entities ever created.
THEOREM EcsTypeCorrect == Spec => []TypeOK
<1>1. EcsInv => TypeOK
  BY DEF EcsInv
<1> QED BY <1>1, EcsInvCorrect, PTL

\* Every sparse set stays a bijection, for every capacity, number of component types
\* and order of calls, with handles of entities long removed as well.
THEOREM SetsConsistentCorrect == Spec => []SetsConsistent
<1>1. EcsInv => SetsConsistent
  BY DEF EcsInv
<1> QED BY <1>1, EcsInvCorrect, PTL

\* No id is in use twice, or in use and free, whatever is created and removed by
\* direct and deferred calls.
THEOREM IdsPartitionedCorrect == Spec => []IdsPartitioned
<1>1. EcsInv => IdsPartitioned
  BY DEF EcsInv
<1> QED BY <1>1, EcsInvCorrect, PTL

\* No assertion fails: every entity that a call names is in the world when the call is
\* made, also when it is made long after it was asked for, and has its place in the sets;
\* as long as the callers take care and the sets have room.
THEOREM AssertionsHoldCorrect ==
    ASSUME Careful
    PROVE  Spec /\ []Room => []AssertionsHold
<1>1. AgreeInv => AssertionsHold
  BY DEF AgreeInv
<1> QED BY <1>1, AgreeInvCorrect, PTL

\* Outside run the world has the entities that were created and not destroyed, and each
\* finds through its handle what it was given last, through any number of layers, any
\* reuse of ids and any order of direct and deferred calls.
THEOREM ComponentsAgreeCorrect ==
    ASSUME Careful
    PROVE  Spec /\ []Room => []ComponentsAgree
<1>1. EcsInv /\ Cares /\ AgreeInv => ComponentsAgree
  BY AgreeInvComponents
<1> QED BY <1>1, AgreeInvCorrect, PTL

\* Outside run a view stops once at each entity that has all its components, and nowhere
\* else, whichever of its sets is the smallest.
THEOREM ViewExactCorrect ==
    ASSUME Careful
    PROVE  Spec /\ []Room => []ViewExact
<1>1. EcsInv /\ Cares /\ AgreeInv => ViewExact
  BY AgreeInvViews
<1> QED BY <1>1, AgreeInvCorrect, PTL
=============================================================================
