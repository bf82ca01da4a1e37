---------------------------- MODULE BufferProofs ----------------------------
(***************************************************************************)
(* For any buffers, values, policies and sizes: the lifetimes of the       *)
(* objects of a Buffer, and that buffers behave as lists.                  *)
(***************************************************************************)
EXTENDS Buffer, SequenceTheorems, FiniteSetTheorems, WellFoundedInduction, TLAPS

USE BufferAssumption

-----------------------------------------------------------------------------
(* The constants.                                                          *)

LEMMA CellsDiffer == Raw # Moved /\ Raw # Broken /\ Moved # Broken
<1>1. \A x, y : Cardinality({x, y}) # 3
  <2> TAKE x, y
  <2>1. IsFiniteSet({x}) /\ Cardinality({x}) = 1
    BY FS_Singleton
  <2>2. Cardinality({x} \union {y}) = IF y \in {x} THEN Cardinality({x}) ELSE Cardinality({x}) + 1
    BY <2>1, FS_AddElement, Zenon
  <2>3. {x, y} = {x} \union {y}
    OBVIOUS
  <2>4. Cardinality({x} \union {y}) # 3
    BY <2>1, <2>2
  <2> QED BY <2>3, <2>4, Zenon
<1>2. CASE Raw = Moved
  <2>1. {Raw, Moved, Broken} = {Raw, Broken}
    BY <1>2
  <2> QED BY <1>1, <2>1, Zenon
<1>3. CASE Raw = Broken
  <2>1. {Raw, Moved, Broken} = {Raw, Moved}
    BY <1>3
  <2> QED BY <1>1, <2>1, Zenon
<1>4. CASE Moved = Broken
  <2>1. {Raw, Moved, Broken} = {Raw, Moved}
    BY <1>4
  <2> QED BY <1>1, <2>1, Zenon
<1> QED BY <1>2, <1>3, <1>4

\* A set of numbers has a least element.
LEMMA LeastNumber ==
    ASSUME NEW T, T \subseteq Nat, T # {}
    PROVE  Min(T) \in T /\ \A y \in T : Min(T) <= y
<1>1. PICK x \in T : \A y \in T : ~ (<<y, x>> \in OpToRel(<, Nat))
  BY NatLessThanWellFounded, WFMin
<1>2. ASSUME NEW y \in T PROVE x <= y
  <2>1. x \in Nat /\ y \in Nat /\ ~ (<<y, x>> \in {ss \in Nat \X Nat : ss[1] < ss[2]})
    BY <1>1, Zenon DEF OpToRel
  <2> QED BY <2>1
<1> QED BY <1>1, <1>2 DEF Min

\* TwoTo is defined as far as it is asked for.
LEMMA TwoToUnfolds ==
    \A k \in 0..MaxSize : TwoTo[k] = IF k = 0 THEN 1 ELSE 2 * TwoTo[k - 1]
<1> DEFINE Doubles(g, n) == g = [k \in 0..n |-> IF k = 0 THEN 1 ELSE 2 * g[k - 1]]
           Failing == {n \in Nat : ~ \E g : Doubles(g, n)}
<1>1. Failing = {}
  <2> SUFFICES ASSUME Failing # {} PROVE FALSE
    OBVIOUS
  <2>1. PICK m \in Failing : \A y \in Failing : m <= y
    BY LeastNumber
  <2>2. CASE m = 0
    <3>1. Doubles([k \in 0..0 |-> 1], 0)
      OBVIOUS
    <3> QED BY <2>1, <2>2, <3>1
  <2>3. CASE m # 0
    <3>1. m - 1 \in Nat /\ m - 1 \notin Failing
      <4>1. m \in Nat
        BY <2>1
      <4>2. m - 1 \in Nat /\ ~ (m <= m - 1)
        BY <2>3, <4>1
      <4> QED BY <2>1, <4>2
    <3>2. PICK g : Doubles(g, m - 1)
      BY <3>1, Zenon
    <3> DEFINE f == [k \in 0..m |-> IF k = m THEN 2 * g[m - 1] ELSE g[k]]
    <3>3. \A k \in 0..m - 1 : g[k] = IF k = 0 THEN 1 ELSE 2 * g[k - 1]
      BY <3>2
    <3>4. \A k \in 0..m : f[k] = IF k = 0 THEN 1 ELSE 2 * f[k - 1]
      <4> TAKE k \in 0..m
      <4>1. CASE k = m
        BY <2>1, <2>3, <3>1, <4>1
      <4>2. CASE k # m
        BY <2>1, <2>3, <3>1, <3>3, <4>2
      <4> QED BY <4>1, <4>2
    <3>5. Doubles(f, m)
      BY <3>4
    <3> QED BY <2>1, <3>5
  <2> QED BY <2>2, <2>3
<1>2. PICK g : Doubles(g, MaxSize)
  BY <1>1
<1>3. Doubles(TwoTo, MaxSize)
  BY <1>2 DEF TwoTo
<1> QED BY <1>3

LEMMA TwoToGrows == \A k \in 0..MaxSize : TwoTo[k] \in Nat /\ k < TwoTo[k]
<1> DEFINE Failing == {k \in 0..MaxSize : ~ (TwoTo[k] \in Nat /\ k < TwoTo[k])}
<1> SUFFICES ASSUME Failing # {} PROVE FALSE
  OBVIOUS
<1>0. Failing \subseteq Nat
  OBVIOUS
<1>1. PICK m \in Failing : \A y \in Failing : m <= y
  <2> HIDE DEF Failing
  <2> QED BY <1>0, LeastNumber
<1>2. CASE m = 0
  BY <1>1, <1>2, TwoToUnfolds
<1>3. CASE m # 0
  <2>1. m - 1 \in 0..MaxSize /\ m - 1 \notin Failing
    BY <1>1, <1>3
  <2>2. TwoTo[m - 1] \in Nat /\ m - 1 < TwoTo[m - 1]
    BY <2>1
  <2>3. TwoTo[m] = 2 * TwoTo[m - 1]
    BY <1>1, <1>3, TwoToUnfolds
  <2> QED BY <1>1, <1>3, <2>2, <2>3
<1> QED BY <1>2, <1>3

\* No policy gives less than was asked for.
LEMMA AdjustCapacityBounds ==
    ASSUME policy \in Policies, NEW n \in 0..MaxSize
    PROVE  AdjustCapacity(n) \in Nat /\ n <= AdjustCapacity(n)
<1>1. CASE policy = "Exact"
  BY <1>1 DEF AdjustCapacity
<1>2. CASE policy = "PowerOfTwo"
  <2> DEFINE T == {TwoTo[k] : k \in 0..n} \ 0..n - 1
  <2>1. TwoTo[n] \in T
    BY TwoToGrows
  <2>2. T \subseteq Nat
    BY TwoToGrows
  <2>3. Min(T) \in T
    BY <2>1, <2>2, LeastNumber
  <2>4. Min(T) \in Nat /\ Min(T) \notin 0..n - 1
    BY <2>2, <2>3
  <2>5. AdjustCapacity(n) = Min(T)
    BY <1>2 DEF AdjustCapacity, PowerOfTwoFrom
  <2> HIDE DEF T
  <2> QED BY <2>4, <2>5
<1>3. CASE policy = "CacheAligned"
  <2> DEFINE q == (n + LineSize - 1) \div LineSize
             e == (n + LineSize - 1) % LineSize
  <2>1. q \in Nat /\ e \in 0..LineSize - 1 /\ n + LineSize - 1 = LineSize * q + e
    OBVIOUS
  <2>2. AdjustCapacity(n) = q * LineSize
    BY <1>3 DEF AdjustCapacity
  <2> HIDE DEF q, e
  <2> QED BY <2>1, <2>2
<1>4. CASE policy = "FiftyPercent"
  BY <1>4 DEF AdjustCapacity
<1> QED BY <1>1, <1>2, <1>3, <1>4

-----------------------------------------------------------------------------
(* What a storage holds: a list, and raw memory behind it.                 *)

Cell == Values \union {Raw, Moved, Broken}
Elem == IF trivial THEN Values \union {Raw} ELSE Values \union {Moved}
Buffers == [storage : Storages \union {Null}, size : Nat, capacity : Nat]
Heaps == [Storages -> {Freed} \union Seq(Cell)]

Padded(vs, n) == [i \in 1..n |-> IF i <= Len(vs) THEN vs[i] ELSE Raw]

LEMMA SequenceOf ==
    ASSUME NEW S, NEW n \in Nat, NEW f \in [1..n -> S]
    PROVE  f \in Seq(S) /\ Len(f) = n
OBVIOUS

LEMMA SequenceFacts ==
    ASSUME NEW S, NEW s \in Seq(S)
    PROVE  Len(s) \in Nat /\ DOMAIN s = 1..Len(s) /\ \A i \in 1..Len(s) : s[i] \in S
BY LenProperties, ElementOfSeq

\* What the steps of the code do to an element, and to raw memory.
LEMMA ElemSteps ==
    ASSUME trivial \in BOOLEAN
    PROVE  /\ Elem \subseteq Cell /\ Values \subseteq Elem /\ Broken \notin Elem
           /\ trivial => Moved \notin Elem /\ Raw \in Elem
           /\ \A v : Constructed(Raw, v) = v
           /\ trivial => Destroyed(Raw) = Raw
           /\ \A e \in Elem : /\ Value(e) = e /\ Destroyed(e) = Raw
                              /\ MovedFrom(e) \in Elem
                              /\ MovedFrom(e) = IF trivial THEN e ELSE Moved
                              /\ \A v : Assigned(e, v) = v
                              /\ ~trivial => Live(e)
BY CellsDiffer DEF Elem, Cell, Constructed, Destroyed, Value, MovedFrom, Assigned, Live

LEMMA PaddedCells ==
    ASSUME trivial \in BOOLEAN, NEW vs \in Seq(Elem), NEW n \in Nat
    PROVE  /\ Padded(vs, n) \in Seq(Cell) /\ Len(Padded(vs, n)) = n
           /\ DOMAIN Padded(vs, n) = 1..n
           /\ \A i \in 1..n : Padded(vs, n)[i] = IF i <= Len(vs) THEN vs[i] ELSE Raw
           /\ Padded(vs, n) # Freed
<1>1. \A i \in 1..n : i <= Len(vs) => vs[i] \in Cell
  BY SequenceFacts, ElemSteps
<1>2. Padded(vs, n) \in [1..n -> Cell]
  BY <1>1 DEF Padded, Cell
<1>3. Padded(vs, n) \in Seq(Cell) /\ Len(Padded(vs, n)) = n
  BY <1>2, SequenceOf
<1>4. Freed \notin Seq(Cell)
  BY DEF Cell
<1> QED BY <1>3, <1>4 DEF Padded

\* The buffer r in the heap h holds the list vs.
Holding(h, r, vs) ==
    /\ r \in Buffers /\ vs \in Seq(Elem)
    /\ r.size = Len(vs) /\ r.size <= r.capacity /\ r.size <= MaxSize
    /\ IF r.storage = Null THEN r.capacity = 0 ELSE h[r.storage] = Padded(vs, r.capacity)

\* A buffer of trivial elements whose storage has been taken.
Stripped(r) ==
    /\ trivial /\ r \in Buffers /\ r.storage = Null
    /\ r.size <= r.capacity /\ r.size <= MaxSize

LEMMA HoldingContent ==
    ASSUME trivial \in BOOLEAN, NEW h, NEW r, NEW vs, Holding(h, r, vs)
    PROVE  /\ Content(h, r) = vs
           /\ Cells(h, r) = IF r.storage = Null THEN <<>> ELSE Padded(vs, r.capacity)
<1>1. /\ r \in Buffers /\ vs \in Seq(Elem) /\ r.size \in Nat /\ r.capacity \in Nat
      /\ r.size = Len(vs) /\ r.size <= r.capacity
      /\ DOMAIN vs = 1..r.size /\ \A i \in 1..r.size : vs[i] \in Elem /\ Value(vs[i]) = vs[i]
  BY SequenceFacts, ElemSteps DEF Holding, Buffers
<1>2. CASE r.storage = Null
  <2>1. r.size = 0 /\ vs = <<>>
    BY <1>1, <1>2, EmptySeq DEF Holding
  <2>2. Content(h, r) = <<>>
    BY <2>1 DEF Content
  <2> QED BY <1>2, <2>1, <2>2 DEF Cells
<1>3. CASE r.storage # Null
  <2>1. Cells(h, r) = Padded(vs, r.capacity)
    BY <1>3 DEF Holding, Cells
  <2>2. ASSUME NEW i \in 1..r.size
        PROVE  i \in DOMAIN Cells(h, r) /\ Value(Cells(h, r)[i]) = vs[i]
    <3>1. i \in 1..r.capacity /\ i <= Len(vs)
      BY <1>1
    <3>2. i \in DOMAIN Padded(vs, r.capacity) /\ Padded(vs, r.capacity)[i] = vs[i]
      BY <1>1, <3>1, PaddedCells
    <3> QED BY <1>1, <2>1, <3>2
  <2>3. Content(h, r) = [i \in 1..r.size |-> vs[i]]
    BY <2>2 DEF Content
  <2>4. [i \in 1..r.size |-> vs[i]] = vs
    BY <1>1
  <2> QED BY <1>3, <2>1, <2>3, <2>4
<1> QED BY <1>2, <1>3

-----------------------------------------------------------------------------
(* Every buffer has a storage of its own that holds its list, and every     *)
(* storage in use belongs to a buffer.                                      *)

Owns(b, s) == Exists(b) /\ bufs[b].storage = s

BufferTypes ==
    /\ trivial \in BOOLEAN /\ policy \in Policies
    /\ heap \in Heaps /\ bufs \in [Names -> {NoBuffer} \union Buffers]

BufferInv ==
    /\ BufferTypes
    /\ \A b \in Names : Exists(b) =>
           Stripped(bufs[b]) \/ Holding(heap, bufs[b], Content(heap, bufs[b]))
    /\ \A b, c \in Names : \A s \in Storages : Owns(b, s) /\ Owns(c, s) => b = c
    /\ \A s \in Storages : heap[s] # Freed => \E b \in Names : Owns(b, s)

LEMMA BufferFields ==
    ASSUME BufferInv, NEW b \in Names, Exists(b)
    PROVE  /\ bufs[b] \in Buffers /\ bufs[b].storage \in Storages \union {Null}
           /\ bufs[b].size \in 0..MaxSize /\ bufs[b].capacity \in Nat
           /\ bufs[b].size <= bufs[b].capacity
           /\ bufs[b].storage # Null => Holding(heap, bufs[b], Content(heap, bufs[b]))
BY DEF BufferInv, Stripped, Holding, Buffers

LEMMA StoragesAreNumbers == Storages \subseteq Nat \ {0} /\ Null \notin Storages
<1>1. Cardinality(Names) \in Nat
  BY FS_CardinalityType
<1> QED BY <1>1 DEF Storages, Null

\* There are more storages than buffers.
LEMMA StorageLeft == ASSUME BufferInv PROVE \E s \in Storages : heap[s] = Freed
<1> SUFFICES ASSUME \A s \in Storages : heap[s] # Freed PROVE FALSE
  OBVIOUS
<1> DEFINE owner == [s \in Storages |-> CHOOSE b \in Names : Owns(b, s)]
<1>1. \A s \in Storages : \E b \in Names : Owns(b, s)
  BY DEF BufferInv
<1>2. \A s \in Storages : owner[s] \in Names /\ Owns(owner[s], s)
  BY <1>1
<1>3. owner \in [Storages -> Names]
  BY <1>2
<1>4. Cardinality(Names) \in Nat /\ IsFiniteSet(Storages)
      /\ Cardinality(Storages) = Cardinality(Names) + 1
  <2>1. Cardinality(Names) \in Nat
    BY FS_CardinalityType
  <2> QED BY <2>1, FS_Interval DEF Storages
<1> HIDE DEF owner
<1>5. PICK s, t \in Storages : s # t /\ owner[s] = owner[t]
  <2>1. Cardinality(Names) < Cardinality(Storages)
    BY <1>4
  <2> QED BY <1>3, <1>4, <2>1, FS_PigeonHole
<1> QED BY <1>2, <1>5 DEF Owns

LEMMA BuffersExist == ASSUME NEW r \in Buffers PROVE r # NoBuffer
<1>1. Storages \union {Null} \subseteq Nat
  BY StoragesAreNumbers DEF Null
<1>2. r \in [storage : Nat, size : Nat, capacity : Nat]
  BY <1>1 DEF Buffers
<1> QED BY <1>2

\* The storage of a buffer is in use.
LEMMA OwnedStorage ==
    ASSUME BufferInv, NEW b \in Names, Exists(b), bufs[b].storage # Null
    PROVE  /\ bufs[b].storage \in Storages /\ Owns(b, bufs[b].storage)
           /\ heap[bufs[b].storage] # Freed
<1>1. /\ bufs[b].storage \in Storages /\ bufs[b].capacity \in Nat
      /\ Holding(heap, bufs[b], Content(heap, bufs[b]))
  BY BufferFields
<1>2. heap[bufs[b].storage] = Padded(Content(heap, bufs[b]), bufs[b].capacity)
      /\ Content(heap, bufs[b]) \in Seq(Elem)
  BY <1>1 DEF Holding
<1>3. Padded(Content(heap, bufs[b]), bufs[b].capacity) # Freed
  BY <1>1, <1>2, PaddedCells DEF BufferInv, BufferTypes
<1> QED BY <1>1, <1>2, <1>3 DEF Owns

-----------------------------------------------------------------------------
(* A call on one buffer that leaves it, in its own storage or in one that   *)
(* was free, with the list vs, and frees the storage it had.                *)

Old(b) == IF Exists(b) THEN bufs[b].storage ELSE Null

Cleared(b, h) ==
    /\ h \in Heaps
    /\ \A s \in Storages : h[s] = IF s = Old(b) THEN Freed ELSE heap[s]

Settles(b, h, r, vs) ==
    /\ h \in Heaps /\ Holding(h, r, vs)
    /\ r.storage \in {Null, Old(b)} \/ heap[r.storage] = Freed
    /\ \A s \in Storages \ {r.storage} : h[s] = IF s = Old(b) THEN Freed ELSE heap[s]

\* The storage of another buffer is neither.
LEMMA OtherStorage ==
    ASSUME BufferInv, NEW b \in Names, NEW c \in Names \ {b}, Exists(c),
           bufs[c].storage # Null
    PROVE  bufs[c].storage # Old(b) /\ heap[bufs[c].storage] # Freed
<1>1. bufs[c].storage \in Storages /\ Owns(c, bufs[c].storage) /\ heap[bufs[c].storage] # Freed
  BY OwnedStorage
<1>2. CASE bufs[c].storage = Old(b)
  BY <1>1, <1>2 DEF Old, Owns, BufferInv
<1> QED BY <1>1, <1>2

\* A buffer whose storage keeps its cells keeps its list.
LEMMA Undisturbed ==
    ASSUME BufferInv, trivial' = trivial, NEW c \in Names, Exists(c), bufs'[c] = bufs[c],
           bufs[c].storage # Null => heap'[bufs[c].storage] = heap[bufs[c].storage]
    PROVE  /\ Content(heap, bufs[c])' = Content(heap, bufs[c])
           /\ (Stripped(bufs[c]) \/ Holding(heap, bufs[c], Content(heap, bufs[c])))'
<1>1. Cells(heap, bufs[c])' = Cells(heap, bufs[c])
  BY DEF Cells
<1>2. Content(heap, bufs[c])' = Content(heap, bufs[c])
  BY <1>1 DEF Content, Value
<1>3. PICK l : l = Content(heap, bufs[c])
  OBVIOUS
<1>4. Stripped(bufs[c]) \/ Holding(heap, bufs[c], l)
  BY <1>3 DEF BufferInv
<1>5. CASE Stripped(bufs[c])
  <2>1. Stripped(bufs[c])'
    BY <1>5 DEF Stripped, Buffers
  <2> QED BY <1>2, <2>1
<1>6. CASE Holding(heap, bufs[c], l)
  <2>1. Holding(heap, bufs[c], l)'
    BY <1>6 DEF Holding, Elem, Buffers
  <2> QED BY <1>2, <1>3, <2>1
<1> QED BY <1>4, <1>5, <1>6

LEMMA SettledKeeps ==
    ASSUME BufferInv, NEW b \in Names, NEW h, NEW r, NEW vs, Settles(b, h, r, vs),
           Changes(b, <<h, r>>), UNCHANGED <<trivial, policy>>
    PROVE  /\ BufferInv'
           /\ Exists(b)' /\ bufs'[b] = r /\ Content(heap, bufs[b])' = vs
           /\ \A c \in Names \ {b} :
                  /\ bufs'[c] = bufs[c]
                  /\ Exists(c) => Content(heap, bufs[c])' = Content(heap, bufs[c])
<1>1. /\ heap' = h /\ bufs' = [bufs EXCEPT ![b] = r] /\ trivial' = trivial
      /\ policy' = policy /\ h \in Heaps /\ r \in Buffers
  BY DEF Changes, Settles, Holding
<1>2. /\ bufs \in [Names -> {NoBuffer} \union Buffers] /\ bufs'[b] = r
      /\ \A c \in Names \ {b} : bufs'[c] = bufs[c]
  BY <1>1 DEF BufferInv, BufferTypes
<1>3. r # NoBuffer /\ Exists(b)' /\ \A c \in Names \ {b} : Exists(c)' = Exists(c)
  BY <1>1, <1>2, BuffersExist DEF Exists
<1>4. BufferTypes'
  BY <1>1, <1>2 DEF BufferInv, BufferTypes
<1>5. ASSUME NEW c \in Names \ {b}, Exists(c), bufs[c].storage # Null
      PROVE  /\ bufs[c].storage \in Storages /\ bufs[c].storage # r.storage
             /\ heap'[bufs[c].storage] = heap[bufs[c].storage]
  <2>1. bufs[c].storage \in Storages
    BY <1>5, OwnedStorage
  <2>2. bufs[c].storage # Old(b) /\ heap[bufs[c].storage] # Freed
    BY <1>5, OtherStorage
  <2> QED BY <1>1, <1>5, <2>1, <2>2 DEF Settles
<1>6. ASSUME NEW c \in Names \ {b}, Exists(c)
      PROVE  /\ Content(heap, bufs[c])' = Content(heap, bufs[c])
             /\ (Stripped(bufs[c]) \/ Holding(heap, bufs[c], Content(heap, bufs[c])))'
  BY <1>1, <1>2, <1>5, <1>6, Undisturbed
<1>7. Holding(h, r, vs) /\ Content(h, r) = vs
  BY HoldingContent DEF Settles, BufferInv, BufferTypes
<1>8. Content(heap, bufs[b])' = vs /\ Holding(heap, bufs[b], vs)'
  <2>1. Content(heap, bufs[b])' = vs
    BY <1>1, <1>2, <1>7 DEF Content, Cells, Value
  <2>2. Holding(heap, bufs[b], vs)'
    BY <1>1, <1>2, <1>7 DEF Holding, Elem, Buffers
  <2> QED BY <2>1, <2>2
<1>9. \A c \in Names : (Exists(c) =>
           Stripped(bufs[c]) \/ Holding(heap, bufs[c], Content(heap, bufs[c])))'
  BY <1>3, <1>6, <1>8
<1>10. ASSUME NEW c \in Names, NEW d \in Names, NEW s \in Storages, Owns(c, s)', Owns(d, s)'
       PROVE  c = d
  <2>1. s # Null
    BY StoragesAreNumbers
  <2>2. CASE c # b /\ d # b
    BY <1>2, <1>3, <1>10, <2>2 DEF Owns, BufferInv
  <2>3. CASE c = b /\ d # b
    BY <1>2, <1>3, <1>5, <1>10, <2>1, <2>3 DEF Owns
  <2>4. CASE c # b /\ d = b
    BY <1>2, <1>3, <1>5, <1>10, <2>1, <2>4 DEF Owns
  <2> QED BY <2>2, <2>3, <2>4
<1>11. ASSUME NEW s \in Storages, heap'[s] # Freed PROVE \E c \in Names : Owns(c, s)'
  <2>1. CASE s = r.storage
    BY <1>2, <1>3, <2>1 DEF Owns
  <2>2. CASE s # r.storage
    <3>1. s # Old(b) /\ heap[s] # Freed
      BY <1>1, <1>11, <2>2 DEF Settles
    <3>2. PICK c \in Names : Owns(c, s)
      BY <3>1 DEF BufferInv
    <3>3. c # b
      BY <3>1, <3>2 DEF Owns, Old
    <3> QED BY <1>2, <1>3, <3>2, <3>3 DEF Owns
  <2> QED BY <2>1, <2>2
<1>12. BufferInv'
  BY <1>4, <1>9, <1>10, <1>11 DEF BufferInv
<1> QED BY <1>2, <1>3, <1>6, <1>8, <1>12

-----------------------------------------------------------------------------
(* The steps on the cells of a storage, as changes of its list.            *)

MovedOutFrom(vs, k) == [i \in 1..Len(vs) |-> IF i > k THEN MovedFrom(vs[i]) ELSE vs[i]]

LEMMA RawCellsHold ==
    ASSUME trivial \in BOOLEAN, NEW n \in Nat
    PROVE  /\ RawCells(n) = Padded(<<>>, n)
           /\ trivial => RawCells(n) \in Seq(Elem) /\ Len(RawCells(n)) = n
<1>1. RawCells(n) = Padded(<<>>, n)
  BY DEF RawCells, Padded
<1>2. trivial => RawCells(n) \in [1..n -> Elem]
  BY ElemSteps DEF RawCells
<1> QED BY <1>1, <1>2, SequenceOf

LEMMA ConstructedCells ==
    ASSUME trivial \in BOOLEAN, NEW n \in Nat, NEW vs \in Seq(Elem), NEW ws \in Seq(Elem),
           Len(vs) + Len(ws) <= n
    PROVE  ConstructRange(Padded(vs, n), Len(vs), ws) = Padded(vs \o ws, n)
<1> DEFINE cells == Padded(vs, n)
<1>1. /\ Len(vs) \in Nat /\ Len(ws) \in Nat /\ DOMAIN cells = 1..n
      /\ \A i \in 1..n : cells[i] = IF i <= Len(vs) THEN vs[i] ELSE Raw
  BY SequenceFacts, PaddedCells
<1>2. /\ Len(vs \o ws) = Len(vs) + Len(ws)
      /\ \A i \in 1..Len(vs) + Len(ws) :
             (vs \o ws)[i] = IF i <= Len(vs) THEN vs[i] ELSE ws[i - Len(vs)]
  BY ConcatProperties
<1> HIDE DEF cells
<1>3. ASSUME NEW i \in 1..n
      PROVE  (IF i \in Len(vs) + 1 .. Len(vs) + Len(ws)
              THEN Constructed(cells[i], ws[i - Len(vs)]) ELSE cells[i])
                 = IF i <= Len(vs \o ws) THEN (vs \o ws)[i] ELSE Raw
  <2>1. CASE i <= Len(vs)
    BY <1>1, <1>2, <2>1
  <2>2. CASE i > Len(vs) /\ i <= Len(vs) + Len(ws)
    BY <1>1, <1>2, <2>2, ElemSteps
  <2>3. CASE i > Len(vs) + Len(ws)
    <3>1. i \notin Len(vs) + 1 .. Len(vs) + Len(ws) /\ ~(i <= Len(vs)) /\ ~(i <= Len(vs \o ws))
      BY ONLY <1>1, <1>2, <2>3, i \in 1..n
    <3> QED BY ONLY <1>1, <3>1, i \in 1..n
  <2> QED BY <1>1, <2>1, <2>2, <2>3
<1>4. ConstructRange(cells, Len(vs), ws) = Padded(vs \o ws, n)
  BY <1>1, <1>3 DEF ConstructRange, Padded
<1> QED BY <1>4 DEF cells

LEMMA FilledCells ==
    ASSUME trivial \in BOOLEAN, NEW n \in Nat, NEW vs \in Seq(Elem), Len(vs) <= n
    PROVE  ConstructRange(RawCells(n), 0, vs) = Padded(vs, n)
<1>1. Len(vs) \in Nat /\ \A v : Constructed(Raw, v) = v
  BY SequenceFacts, ElemSteps
<1>2. ASSUME NEW i \in 1..n
      PROVE  (IF i \in 0 + 1 .. 0 + Len(vs) THEN Constructed(Raw, vs[i - 0]) ELSE Raw)
                 = IF i <= Len(vs) THEN vs[i] ELSE Raw
  BY <1>1
<1>3. DOMAIN RawCells(n) = 1..n /\ \A i \in 1..n : RawCells(n)[i] = Raw
  BY DEF RawCells
<1> QED BY <1>2, <1>3 DEF ConstructRange, Padded

LEMMA SamePrefix ==
    ASSUME NEW S, NEW s \in Seq(S), NEW t \in Seq(S), NEW k \in Nat,
           k <= Len(s), k <= Len(t), \A i \in 1..k : s[i] = t[i]
    PROVE  SubSeq(s, 1, k) = SubSeq(t, 1, k)
<1>1. \A i \in 1..k : s[i] \in S /\ t[i] \in S
  BY SequenceFacts
<1>2. /\ SubSeq(s, 1, k) \in Seq(S) /\ Len(SubSeq(s, 1, k)) = k
      /\ \A i \in 1..k : SubSeq(s, 1, k)[i] = s[i]
  BY <1>1, SubSeqProperties
<1>3. /\ SubSeq(t, 1, k) \in Seq(S) /\ Len(SubSeq(t, 1, k)) = k
      /\ \A i \in 1..k : SubSeq(t, 1, k)[i] = t[i]
  BY <1>1, SubSeqProperties
<1> QED BY <1>2, <1>3, SeqEqual

LEMMA DestroyedCells ==
    ASSUME trivial \in BOOLEAN, NEW n \in Nat, NEW vs \in Seq(Elem), Len(vs) <= n,
           NEW k \in 0..Len(vs)
    PROVE  /\ DestroyRange(Padded(vs, n), k, Len(vs)) = Padded(SubSeq(vs, 1, k), n)
           /\ SubSeq(vs, 1, k) \in Seq(Elem) /\ Len(SubSeq(vs, 1, k)) = k
           /\ \A i \in 1..k : SubSeq(vs, 1, k)[i] = vs[i]
<1> DEFINE cells == Padded(vs, n)
           kept == SubSeq(vs, 1, k)
<1>1. /\ Len(vs) \in Nat /\ DOMAIN cells = 1..n /\ \A i \in 1..Len(vs) : vs[i] \in Elem
      /\ \A i \in 1..n : cells[i] = IF i <= Len(vs) THEN vs[i] ELSE Raw
  BY SequenceFacts, PaddedCells
<1>2. kept \in Seq(Elem) /\ Len(kept) = k /\ \A i \in 1..k : kept[i] = vs[i]
  <2>1. k \in Int /\ \A i \in 1..k : vs[i] \in Elem
    BY <1>1
  <2> QED BY <2>1, SubSeqProperties
<1> HIDE DEF cells, kept
<1>3. ASSUME NEW i \in 1..n
      PROVE  (IF i \in k + 1 .. Len(vs) THEN Destroyed(cells[i]) ELSE cells[i])
                 = IF i <= Len(kept) THEN kept[i] ELSE Raw
  <2>1. CASE i <= k
    BY <1>1, <1>2, <2>1
  <2>2. CASE i > k /\ i <= Len(vs)
    BY <1>1, <1>2, <2>2, ElemSteps
  <2>3. CASE i > Len(vs)
    BY <1>1, <1>2, <2>3
  <2> QED BY <1>1, <2>1, <2>2, <2>3
<1>4. DestroyRange(cells, k, Len(vs)) = Padded(kept, n)
  BY <1>1, <1>3 DEF DestroyRange, Padded
<1> QED BY <1>2, <1>4 DEF cells, kept

LEMMA MovedOutCells ==
    ASSUME trivial \in BOOLEAN, NEW n \in Nat, NEW vs \in Seq(Elem), Len(vs) <= n,
           NEW k \in 0..Len(vs)
    PROVE  /\ MoveOutRange(Padded(vs, n), k, Len(vs)) = Padded(MovedOutFrom(vs, k), n)
           /\ MovedOutFrom(vs, k) \in Seq(Elem) /\ Len(MovedOutFrom(vs, k)) = Len(vs)
           /\ \A i \in 1..Len(vs) :
                  MovedOutFrom(vs, k)[i] = IF i > k THEN MovedFrom(vs[i]) ELSE vs[i]
<1> DEFINE cells == Padded(vs, n)
           left == MovedOutFrom(vs, k)
<1>1. /\ Len(vs) \in Nat /\ DOMAIN cells = 1..n /\ \A i \in 1..Len(vs) : vs[i] \in Elem
      /\ \A i \in 1..n : cells[i] = IF i <= Len(vs) THEN vs[i] ELSE Raw
  BY SequenceFacts, PaddedCells
<1>2. /\ left \in [1..Len(vs) -> Elem]
      /\ \A i \in 1..Len(vs) : left[i] = IF i > k THEN MovedFrom(vs[i]) ELSE vs[i]
  BY <1>1, ElemSteps DEF MovedOutFrom
<1>3. left \in Seq(Elem) /\ Len(left) = Len(vs)
  BY <1>1, <1>2, SequenceOf
<1> HIDE DEF cells, left
<1>4. ASSUME NEW i \in 1..n
      PROVE  (IF i \in k + 1 .. Len(vs) THEN MovedFrom(cells[i]) ELSE cells[i])
                 = IF i <= Len(left) THEN left[i] ELSE Raw
  BY <1>1, <1>2, <1>3
<1>5. MoveOutRange(cells, k, Len(vs)) = Padded(left, n)
  BY <1>1, <1>4 DEF MoveOutRange, Padded
<1> QED BY <1>2, <1>3, <1>5 DEF cells, left

\* All elements destroyed: raw memory.
LEMMA AllDestroyed ==
    ASSUME trivial \in BOOLEAN, NEW n \in Nat, NEW vs \in Seq(Elem), Len(vs) <= n
    PROVE  DestroyRange(Padded(vs, n), 0, Len(vs)) = RawCells(n)
<1>1. 0 \in 0..Len(vs)
  BY SequenceFacts
<1>2. DestroyRange(Padded(vs, n), 0, Len(vs)) = Padded(SubSeq(vs, 1, 0), n)
  BY <1>1, DestroyedCells
<1>3. SubSeq(vs, 1, 0) = <<>>
  BY SubSeqEmpty
<1> QED BY <1>2, <1>3, RawCellsHold

-----------------------------------------------------------------------------
(* The steps on a buffer and its heap.                                     *)

LEMMA WithSize ==
    ASSUME NEW r \in Buffers, NEW n \in Nat
    PROVE  /\ [r EXCEPT !.size = n] \in Buffers /\ [r EXCEPT !.size = n].size = n
           /\ [r EXCEPT !.size = n].storage = r.storage
           /\ [r EXCEPT !.size = n].capacity = r.capacity
BY DEF Buffers

LEMMA Rewritten ==
    ASSUME BufferInv, NEW b \in Names, NEW h, NEW r, NEW vs, Settles(b, h, r, vs),
           r.storage # Null,
           NEW ws \in Seq(Elem), Len(ws) <= r.capacity, Len(ws) <= MaxSize
    PROVE  Settles(b, [h EXCEPT ![r.storage] = Padded(ws, r.capacity)],
                   [r EXCEPT !.size = Len(ws)], ws)
<1> DEFINE cells == Padded(ws, r.capacity)
           g == [h EXCEPT ![r.storage] = cells]
           q == [r EXCEPT !.size = Len(ws)]
<1>1. /\ r \in Buffers /\ r.storage \in Storages /\ r.capacity \in Nat /\ h \in Heaps
      /\ Len(ws) \in Nat
  BY SequenceFacts DEF Settles, Holding, Buffers
<1>2. cells \in Seq(Cell)
  BY <1>1, PaddedCells DEF BufferInv, BufferTypes
<1>3. q \in Buffers /\ q.size = Len(ws) /\ q.storage = r.storage /\ q.capacity = r.capacity
  BY <1>1, WithSize
<1> HIDE DEF cells, q
<1>4. /\ g \in Heaps /\ g[r.storage] = cells
      /\ \A s \in Storages \ {r.storage} : g[s] = h[s]
  BY <1>1, <1>2 DEF Heaps
<1> HIDE DEF g
<1>5. Holding(g, q, ws)
  BY <1>1, <1>3, <1>4 DEF Holding, cells
<1>6. Settles(b, g, q, ws)
  BY <1>3, <1>4, <1>5 DEF Settles
<1> QED BY <1>6 DEF g, q, cells

\* Elements that are raw memory need no construction.
LEMMA Resized ==
    ASSUME BufferInv, NEW b \in Names, NEW h, NEW r, NEW vs, Settles(b, h, r, vs),
           NEW ws \in Seq(Elem), Len(ws) <= r.capacity, Len(ws) <= MaxSize,
           Padded(ws, r.capacity) = Padded(vs, r.capacity)
    PROVE  Settles(b, h, [r EXCEPT !.size = Len(ws)], ws)
<1> DEFINE q == [r EXCEPT !.size = Len(ws)]
<1>1. r \in Buffers /\ Len(ws) \in Nat
  BY SequenceFacts DEF Settles, Holding
<1>2. q \in Buffers /\ q.size = Len(ws) /\ q.storage = r.storage /\ q.capacity = r.capacity
  BY <1>1, WithSize
<1> HIDE DEF q
<1>3. Holding(h, q, ws)
  BY <1>2 DEF Holding, Settles
<1> QED BY <1>2, <1>3 DEF Settles, q

\* A buffer that callers may use holds a list.
LEMMA UsableHolds ==
    ASSUME BufferInv, "moved" \in Discipline, NEW b \in Names, Usable(b)
    PROVE  /\ Exists(b) /\ Holding(heap, bufs[b], Content(heap, bufs[b]))
           /\ Settles(b, heap, bufs[b], Content(heap, bufs[b]))
           /\ Moved \notin ToSet(Content(heap, bufs[b]))
<1>1. Exists(b) /\ ~IsMovedFrom(b) /\ bufs[b] \in Buffers /\ bufs[b].capacity \in Nat
  BY BufferFields DEF Usable
<1>2. Holding(heap, bufs[b], Content(heap, bufs[b]))
  <2>1. CASE Stripped(bufs[b])
    <3>1. bufs[b].storage = Null /\ bufs[b].capacity = 0 /\ bufs[b].size = 0
      BY <1>1, <2>1, BufferFields DEF Stripped, IsMovedFrom
    <3>2. Content(heap, bufs[b]) = <<>>
      BY <3>1 DEF Content
    <3> QED BY <1>1, <2>1, <3>1, <3>2, EmptySeq DEF Holding, Stripped
  <2> QED BY <1>1, <2>1 DEF BufferInv
<1>3. Settles(b, heap, bufs[b], Content(heap, bufs[b]))
  BY <1>1, <1>2 DEF Settles, Old, BufferInv, BufferTypes
<1> QED BY <1>1, <1>2, <1>3 DEF IsMovedFrom

\* The destructor destroys all there is, and frees the storage.
LEMMA TornDownClears ==
    ASSUME BufferInv, NEW b \in Names, Exists(b)
    PROVE  Cleared(b, TornDown(heap, bufs[b]))
<1> DEFINE r == bufs[b]
           cells == DestroyRange(Cells(heap, r), 0, r.size)
<1>1. heap \in Heaps /\ trivial \in BOOLEAN /\ r.storage \in Storages \union {Null}
  BY BufferFields DEF BufferInv, BufferTypes
<1>2. CASE r.storage = Null
  <2>1. Put(heap, r, cells) = heap
    BY <1>2 DEF Put
  <2>2. TornDown(heap, r) = heap
    BY <1>2, <2>1 DEF TornDown, Deallocate, Put
  <2> QED BY <1>1, <1>2, <2>2, StoragesAreNumbers DEF Cleared, Old
<1>3. CASE r.storage # Null
  <2>1. PICK vs : vs = Content(heap, r)
    OBVIOUS
  <2>2. Holding(heap, r, vs)
    BY <1>3, <2>1, BufferFields
  <2>3. vs \in Seq(Elem) /\ r.size = Len(vs) /\ r.size <= r.capacity /\ r.capacity \in Nat
    BY <2>2 DEF Holding, Buffers
  <2>4. cells = RawCells(r.capacity)
    BY <1>1, <1>3, <2>2, <2>3, HoldingContent, AllDestroyed
  <2> HIDE DEF cells
  <2> DEFINE g == Put(heap, r, cells)
  <2>5. g = [heap EXCEPT ![r.storage] = cells]
    BY <1>3 DEF Put
  <2>6. Cells(g, r) = cells
    BY <1>1, <1>3, <2>5 DEF Cells, Heaps
  <2>7. \A i \in DOMAIN cells : cells[i] = Raw
    BY <2>4 DEF RawCells
  <2>8. TornDown(heap, r) = [g EXCEPT ![r.storage] = Freed]
    BY <1>3, <2>6, <2>7 DEF TornDown, Deallocate, Put, cells
  <2>9. [g EXCEPT ![r.storage] = Freed] = [heap EXCEPT ![r.storage] = Freed]
    BY <1>1, <2>5 DEF Heaps
  <2>10. [heap EXCEPT ![r.storage] = Freed] \in Heaps
    BY <1>1, <1>3 DEF Heaps
  <2> QED BY <1>1, <1>3, <2>8, <2>9, <2>10 DEF Cleared, Old, Heaps
<1> QED BY <1>2, <1>3

LEMMA NothingToClear == ASSUME BufferInv, NEW b \in Names, ~Exists(b) PROVE Cleared(b, heap)
BY StoragesAreNumbers DEF Cleared, Old, BufferInv, BufferTypes

\* A new storage is one that was free.
LEMMA NewStorageIsFree ==
    ASSUME BufferInv, NEW b \in Names, NEW h, Cleared(b, h)
    PROVE  NewStorage(h) \in Storages /\ h[NewStorage(h)] = Freed
<1>1. PICK s \in Storages : heap[s] = Freed
  BY StorageLeft
<1>2. h[s] = Freed
  BY <1>1 DEF Cleared
<1> QED BY <1>2 DEF NewStorage

LEMMA BuiltFields ==
    ASSUME NEW h, NEW n, NEW vs
    PROVE  Built(h, n, vs)[2].storage = NewStorage(h) /\ Built(h, n, vs)[2].capacity = n
BY DEF Built

LEMMA BuiltSettles ==
    ASSUME BufferInv, NEW b \in Names, NEW h, Cleared(b, h), NEW n \in Nat,
           NEW vs \in Seq(Elem), Len(vs) <= n, Len(vs) <= MaxSize
    PROVE  /\ Settles(b, Built(h, n, vs)[1], Built(h, n, vs)[2], vs)
           /\ Built(h, n, vs)[1] = [h EXCEPT ![NewStorage(h)] = Padded(vs, n)]
<1> DEFINE s == NewStorage(h)
           r == [storage |-> s, size |-> Len(vs), capacity |-> n]
           g == [h EXCEPT ![s] = Padded(vs, n)]
<1>1. s \in Storages /\ h[s] = Freed /\ s # Null
  BY NewStorageIsFree, StoragesAreNumbers
<1>2. Len(vs) \in Nat /\ trivial \in BOOLEAN /\ h \in Heaps
  BY SequenceFacts DEF BufferInv, BufferTypes, Cleared
<1>4. ConstructRange(RawCells(n), 0, vs) = Padded(vs, n)
  BY <1>2, FilledCells
<1>5. Built(h, n, vs) = <<g, r>>
  BY <1>4 DEF Built
<1>6. Padded(vs, n) \in Seq(Cell)
  BY <1>2, PaddedCells
<1>7. g \in Heaps /\ g[s] = Padded(vs, n) /\ \A t \in Storages \ {s} : g[t] = h[t]
  BY <1>1, <1>2, <1>6 DEF Heaps
<1>8. r \in Buffers /\ r.storage = s /\ r.size = Len(vs) /\ r.capacity = n
  BY <1>1, <1>2 DEF Buffers
<1> HIDE DEF g, r, s
<1>9. Holding(g, r, vs)
  BY <1>1, <1>7, <1>8 DEF Holding
<1>10. s = Old(b) \/ heap[s] = Freed
  BY <1>1 DEF Cleared
<1>11. Settles(b, g, r, vs)
  BY <1>7, <1>8, <1>9, <1>10 DEF Settles, Cleared
<1> QED BY <1>5, <1>11 DEF g, r, s

\* A larger storage takes the elements over, and the old one is freed.
LEMMA ReallocateSettles ==
    ASSUME BufferInv, NEW b \in Names, NEW vs, Exists(b), Holding(heap, bufs[b], vs),
           NEW n \in 0..MaxSize, Len(vs) <= n
    PROVE  /\ Settles(b, Reallocate(heap, bufs[b], n)[1], Reallocate(heap, bufs[b], n)[2], vs)
           /\ Reallocate(heap, bufs[b], n)[2].storage # Null
           /\ n <= Reallocate(heap, bufs[b], n)[2].capacity
<1> DEFINE r == bufs[b]
           capacity == AdjustCapacity(n)
           s == NewStorage(heap)
           left == DestroyRange(MoveOutRange(Cells(heap, r), 0, r.size), 0, r.size)
           filled == [heap EXCEPT ![s] = Padded(vs, capacity)]
           g == Deallocate(Put(filled, r, left), r)
           q == [storage |-> s, size |-> r.size, capacity |-> capacity]
<1>1. /\ trivial \in BOOLEAN /\ policy \in Policies /\ heap \in Heaps /\ r \in Buffers
      /\ r.storage \in Storages \union {Null} /\ r.capacity \in Nat
      /\ vs \in Seq(Elem) /\ Len(vs) \in Nat /\ r.size = Len(vs) /\ r.size <= r.capacity
      /\ capacity \in Nat /\ n <= capacity
  BY AdjustCapacityBounds, BufferFields, SequenceFacts
     DEF BufferInv, BufferTypes, Holding
<1>2. s \in Storages /\ s # Null /\ heap[s] = Freed
  BY StorageLeft, StoragesAreNumbers DEF NewStorage
<1>3. (IF r.storage = Null THEN <<>> ELSE Content(heap, r)) = vs
  <2>1. r.storage = Null => vs = <<>>
    BY <1>1, EmptySeq DEF Holding
  <2> QED BY <1>1, <2>1, HoldingContent
<1>4. ConstructRange(RawCells(capacity), 0, vs) = Padded(vs, capacity)
  BY <1>1, FilledCells
<1>5. Reallocate(heap, r, n) = <<g, q>>
  BY <1>3, <1>4 DEF Reallocate
<1>6. filled \in Heaps /\ filled[s] = Padded(vs, capacity)
      /\ \A t \in Storages \ {s} : filled[t] = heap[t]
  BY <1>1, <1>2, PaddedCells DEF Heaps
<1>7. r.storage # s
  <2>1. r.storage # Null => heap[r.storage] # Freed
    BY OwnedStorage
  <2> QED BY <1>2, <2>1
<1> HIDE DEF filled
<1>8. /\ g \in Heaps /\ g[s] = Padded(vs, capacity)
      /\ \A t \in Storages \ {s} : g[t] = IF t = Old(b) THEN Freed ELSE heap[t]
  <2>1. CASE r.storage = Null
    <3>1. g = filled
      BY <2>1 DEF Deallocate, Put
    <3> QED BY <1>6, <2>1, <3>1, StoragesAreNumbers DEF Old
  <2>2. CASE r.storage # Null
    <3>1. left = RawCells(r.capacity)
      <4>1. Cells(heap, r) = Padded(vs, r.capacity)
        BY <1>1, <2>2, HoldingContent
      <4>2. PICK ws \in Seq(Elem) :
                MoveOutRange(Padded(vs, r.capacity), 0, Len(vs)) = Padded(ws, r.capacity)
                /\ Len(ws) = Len(vs)
        <5>1. PICK c \in Nat : c = r.capacity /\ Len(vs) <= c
          BY ONLY <1>1
        <5>2. vs \in Seq(Elem) /\ trivial \in BOOLEAN
          BY ONLY <1>1
        <5>3. \E ws \in Seq(Elem) :
                  MoveOutRange(Padded(vs, c), 0, Len(vs)) = Padded(ws, c) /\ Len(ws) = Len(vs)
          <6>1. PICK k \in 0..Len(vs) : k = 0
            BY ONLY <5>2, SequenceFacts
          <6>2. /\ MoveOutRange(Padded(vs, c), k, Len(vs)) = Padded(MovedOutFrom(vs, k), c)
                /\ MovedOutFrom(vs, k) \in Seq(Elem) /\ Len(MovedOutFrom(vs, k)) = Len(vs)
            BY ONLY <5>1, <5>2, MovedOutCells, c \in Nat, k \in 0..Len(vs)
          <6> QED BY ONLY <6>1, <6>2
        <5> QED BY ONLY <5>1, <5>3
      <4>3. /\ r.size = Len(vs) /\ r.capacity \in Nat /\ trivial \in BOOLEAN
            /\ Len(ws) <= r.capacity /\ Len(ws) = r.size
        BY ONLY <1>1, <4>2
      <4>4. left = DestroyRange(Padded(ws, r.capacity), 0, Len(ws))
        BY ONLY <4>1, <4>2, <4>3
      <4> QED BY ONLY <4>3, <4>4, AllDestroyed, ws \in Seq(Elem)
    <3> HIDE DEF left
    <3> DEFINE m == Put(filled, r, left)
    <3>2. m = [filled EXCEPT ![r.storage] = left]
      BY <2>2 DEF Put
    <3>3. Cells(m, r) = left
      BY <1>1, <1>6, <2>2, <3>2 DEF Cells, Heaps
    <3>4. \A i \in DOMAIN left : left[i] = Raw
      BY <3>1 DEF RawCells
    <3>5. g = [m EXCEPT ![r.storage] = Freed]
      BY <2>2, <3>3, <3>4 DEF Deallocate, Put
    <3>6. g = [filled EXCEPT ![r.storage] = Freed]
      BY <1>6, <3>2, <3>5 DEF Heaps
    <3> HIDE DEF g, m
    <3> QED BY <1>1, <1>2, <1>6, <1>7, <2>2, <3>6 DEF Heaps, Old
  <2> QED BY <2>1, <2>2
<1>9. q \in Buffers /\ q.storage = s /\ q.size = Len(vs) /\ q.capacity = capacity
  BY <1>1, <1>2 DEF Buffers
<1> HIDE DEF g, q, s, capacity
<1>10. Holding(g, q, vs)
  BY <1>1, <1>2, <1>8, <1>9 DEF Holding
<1>11. Settles(b, g, q, vs)
  BY <1>2, <1>8, <1>9, <1>10 DEF Settles
<1> QED BY <1>1, <1>2, <1>5, <1>9, <1>11

\* Room for more elements, in the old storage or in a new one.
LEMMA AddCapacitySettles ==
    ASSUME BufferInv, "moved" \in Discipline, NEW b \in Names, Usable(b),
           NEW n \in Nat, bufs[b].size + n <= MaxSize
    PROVE  LET hb == AddCapacityFor(heap, bufs[b], n)
           IN /\ Settles(b, hb[1], hb[2], Content(heap, bufs[b]))
              /\ bufs[b].size + n <= hb[2].capacity
<1>1. /\ Exists(b) /\ Holding(heap, bufs[b], Content(heap, bufs[b]))
      /\ Settles(b, heap, bufs[b], Content(heap, bufs[b]))
  BY UsableHolds
<1>2. bufs[b].size = Len(Content(heap, bufs[b])) /\ bufs[b].size \in Nat
      /\ bufs[b].capacity \in Nat
  BY <1>1, BufferFields DEF Holding
<1>3. CASE bufs[b].size + n > bufs[b].capacity
  BY <1>1, <1>2, <1>3, ReallocateSettles DEF AddCapacityFor
<1>4. CASE ~(bufs[b].size + n > bufs[b].capacity)
  BY <1>1, <1>2, <1>4 DEF AddCapacityFor
<1> QED BY <1>3, <1>4

\* New elements behind the last one.
LEMMA ConstructedAtEndSettles ==
    ASSUME BufferInv, NEW b \in Names, NEW h, NEW r, NEW vs, Settles(b, h, r, vs),
           NEW ws \in Seq(Elem), Len(vs) + Len(ws) <= r.capacity, Len(vs) + Len(ws) <= MaxSize
    PROVE  LET hb == ConstructedAtEnd(h, r, ws) IN Settles(b, hb[1], hb[2], vs \o ws)
<1>1. /\ trivial \in BOOLEAN /\ r \in Buffers /\ vs \in Seq(Elem) /\ Holding(h, r, vs)
      /\ r.size = Len(vs) /\ Len(vs) \in Nat /\ Len(ws) \in Nat /\ r.capacity \in Nat
  BY SequenceFacts DEF BufferInv, BufferTypes, Settles, Holding, Buffers
<1>2. vs \o ws \in Seq(Elem) /\ Len(vs \o ws) = Len(vs) + Len(ws)
  BY <1>1, ConcatProperties
<1> DEFINE g == Put(h, r, ConstructRange(Cells(h, r), r.size, ws))
           q == [r EXCEPT !.size = Len(vs \o ws)]
<1>3. ConstructedAtEnd(h, r, ws) = <<g, q>>
  BY <1>1, <1>2 DEF ConstructedAtEnd
<1>4. CASE r.storage = Null
  <2>1. r.capacity = 0 /\ g = h
    BY <1>1, <1>4 DEF Holding, Put
  <2>2. ws = <<>> /\ vs \o ws = vs
    BY <1>1, <2>1, EmptySeq, ConcatEmptySeq
  <2>3. Settles(b, h, q, vs \o ws)
    BY <1>1, <1>2, <2>1, <2>2, Resized
  <2> QED BY <1>3, <2>1, <2>3
<1>5. CASE r.storage # Null
  <2>1. Cells(h, r) = Padded(vs, r.capacity)
    BY <1>1, <1>5, HoldingContent
  <2>2. ConstructRange(Cells(h, r), r.size, ws) = Padded(vs \o ws, r.capacity)
    BY <1>1, <2>1, ConstructedCells
  <2>3. g = [h EXCEPT ![r.storage] = Padded(vs \o ws, r.capacity)]
    BY <1>5, <2>2 DEF Put
  <2>4. \A l \in Seq(Elem) : Len(l) <= r.capacity /\ Len(l) <= MaxSize =>
            Settles(b, [h EXCEPT ![r.storage] = Padded(l, r.capacity)],
                    [r EXCEPT !.size = Len(l)], l)
    BY <1>5, Rewritten
  <2>5. Settles(b, g, q, vs \o ws)
    BY <1>1, <1>2, <2>3, <2>4
  <2> QED BY <1>3, <2>5
<1> QED BY <1>4, <1>5

\* Fewer elements: the others are destroyed.
LEMMA ShrunkSettles ==
    ASSUME BufferInv, NEW b \in Names, NEW h, NEW r, NEW vs, Settles(b, h, r, vs),
           NEW k \in 0..Len(vs)
    PROVE  LET hb == Shrunk(h, r, k) IN Settles(b, hb[1], hb[2], SubSeq(vs, 1, k))
<1>1. /\ trivial \in BOOLEAN /\ r \in Buffers /\ vs \in Seq(Elem) /\ Holding(h, r, vs)
      /\ r.size = Len(vs) /\ Len(vs) \in Nat /\ r.capacity \in Nat
      /\ Len(vs) <= r.capacity /\ Len(vs) <= MaxSize /\ k \in Nat
  BY SequenceFacts DEF BufferInv, BufferTypes, Settles, Holding, Buffers
<1>2. PICK ws \in Seq(Elem) : /\ ws = SubSeq(vs, 1, k) /\ Len(ws) = k
                              /\ DestroyRange(Padded(vs, r.capacity), k, Len(vs))
                                     = Padded(ws, r.capacity)
  <2>1. /\ DestroyRange(Padded(vs, r.capacity), k, Len(vs))
               = Padded(SubSeq(vs, 1, k), r.capacity)
        /\ SubSeq(vs, 1, k) \in Seq(Elem) /\ Len(SubSeq(vs, 1, k)) = k
    BY <1>1, DestroyedCells
  <2> QED BY <2>1
<1> DEFINE g == Put(h, r, DestroyRange(Cells(h, r), k, r.size))
           q == [r EXCEPT !.size = k]
<1>3. Shrunk(h, r, k) = <<g, q>>
  BY DEF Shrunk
<1>4. CASE r.storage = Null
  <2>1. r.capacity = 0 /\ g = h /\ Len(vs) = 0 /\ k = 0
    BY <1>1, <1>4 DEF Holding, Put
  <2>2. vs = <<>> /\ ws = vs
    BY <1>1, <1>2, <2>1, EmptySeq
  <2>3. Settles(b, h, q, ws)
    BY <1>1, <1>2, <2>1, <2>2, Resized
  <2> QED BY <1>2, <1>3, <2>1, <2>3
<1>5. CASE r.storage # Null
  <2>1. Cells(h, r) = Padded(vs, r.capacity)
    BY <1>1, <1>5, HoldingContent
  <2>2. g = [h EXCEPT ![r.storage] = Padded(ws, r.capacity)]
    BY <1>1, <1>2, <1>5, <2>1 DEF Put
  <2>3. \A l \in Seq(Elem) : Len(l) <= r.capacity /\ Len(l) <= MaxSize =>
            Settles(b, [h EXCEPT ![r.storage] = Padded(l, r.capacity)],
                    [r EXCEPT !.size = Len(l)], l)
    BY <1>5, Rewritten
  <2>4. Len(ws) <= r.capacity /\ Len(ws) <= MaxSize /\ q = [r EXCEPT !.size = Len(ws)]
    BY <1>1, <1>2
  <2>5. Settles(b, g, q, ws)
    BY <1>2, <2>2, <2>3, <2>4, Zenon
  <2> QED BY <1>2, <1>3, <2>5
<1> QED BY <1>4, <1>5

-----------------------------------------------------------------------------
(* The calls on one buffer: the list they leave it with.                   *)

Settled(b, vs) == \E h, r : Settles(b, h, r, vs) /\ Changes(b, <<h, r>>)

LEMMA SettledBy ==
    ASSUME NEW b, NEW hb, NEW vs, Settles(b, hb[1], hb[2], vs), Changes(b, hb)
    PROVE  Settled(b, vs)
<1>1. Changes(b, <<hb[1], hb[2]>>)
  BY DEF Changes
<1> QED BY <1>1 DEF Settled

LEMMA ListSequences ==
    ASSUME trivial \in BOOLEAN, NEW vs \in Lists(MaxSize)
    PROVE  vs \in Seq(Values) /\ vs \in Seq(Elem) /\ Len(vs) \in 0..MaxSize
<1>1. PICK k \in 0..MaxSize : vs \in [1..k -> Values]
  BY DEF Lists
<1>2. vs \in Seq(Values) /\ Len(vs) = k
  BY <1>1, SequenceOf
<1> QED BY <1>2, ElemSteps, SeqMonotonic

LEMMA FillSequence ==
    ASSUME NEW n \in Nat, NEW S, NEW v \in S
    PROVE  Fill(n, v) \in Seq(S) /\ Len(Fill(n, v)) = n
<1>1. Fill(n, v) \in [1..n -> S]
  BY DEF Fill
<1> QED BY <1>1, SequenceOf

LEMMA ConstructDefaultSettles ==
    ASSUME BufferInv, NEW b \in Names, ConstructDefault(b)
    PROVE  ~Exists(b) /\ Settled(b, <<>>)
<1> DEFINE r == [storage |-> Null, size |-> 0, capacity |-> 0]
<1>1. ~Exists(b) /\ heap' = heap /\ bufs' = [bufs EXCEPT ![b] = r]
  BY DEF ConstructDefault
<1>2. r \in Buffers /\ r.storage = Null /\ r.size = 0 /\ r.capacity = 0
  BY DEF Buffers
<1> HIDE DEF r
<1>3. Settles(b, heap, r, <<>>)
  BY <1>1, <1>2, EmptySeq, StoragesAreNumbers
     DEF Settles, Holding, Old, BufferInv, BufferTypes
<1> QED BY <1>1, <1>3 DEF Settled, Changes

LEMMA ConstructSizedSettles ==
    ASSUME BufferInv, "sized" \in Discipline, NEW b \in Names, NEW n \in 0..MaxSize,
           ConstructSized(b, n)
    PROVE  ~Exists(b) /\ trivial /\ Settled(b, RawCells(n))
<1> DEFINE room == AdjustCapacity(n)
           built == Built(heap, room, <<>>)
<1>1. /\ ~Exists(b) /\ trivial /\ Changes(b, <<built[1], [built[2] EXCEPT !.size = n]>>)
      /\ trivial \in BOOLEAN /\ policy \in Policies
  BY DEF ConstructSized, BufferInv, BufferTypes
<1>2. room \in Nat /\ n <= room /\ n \in Nat
  BY <1>1, AdjustCapacityBounds
<1> HIDE DEF room
<1>3. Settles(b, built[1], built[2], <<>>) /\ built[2].capacity = room
  <2>1. Cleared(b, heap)
    BY <1>1, NothingToClear
  <2>2. PICK l \in Seq(Elem) : l = <<>>
    BY EmptySeq
  <2>3. Len(l) <= room /\ Len(l) <= MaxSize
    BY <1>2, <2>2
  <2>4. /\ Settles(b, Built(heap, room, l)[1], Built(heap, room, l)[2], l)
        /\ Built(heap, room, l)[2].capacity = room
    <3>1. room \in Nat /\ l \in Seq(Elem)
      BY <1>2, <2>2
    <3>2. Settles(b, Built(heap, room, l)[1], Built(heap, room, l)[2], l)
      BY <2>1, <2>3, <3>1, BuiltSettles, Zenon
    <3>3. Built(heap, room, l)[2].capacity = room
      BY BuiltFields
    <3> QED BY <3>2, <3>3
  <2> QED BY <2>2, <2>4
<1> HIDE DEF built
<1>4. PICK ws \in Seq(Elem) : ws = RawCells(n) /\ Len(ws) = n
  BY <1>1, <1>2, RawCellsHold
<1>5. Padded(ws, room) = Padded(<<>>, room)
  <2>1. \A i \in 1..room : i <= n => ws[i] = Raw
    BY <1>2, <1>4 DEF RawCells
  <2>2. Len(<<>>) = 0
    BY EmptySeq
  <2> QED BY <1>2, <1>4, <2>1, <2>2 DEF Padded
<1>6. Settles(b, built[1], [built[2] EXCEPT !.size = n], ws)
  BY <1>2, <1>3, <1>4, <1>5, Resized
<1> QED BY <1>1, <1>4, <1>6 DEF Settled

LEMMA ConstructFromSettles ==
    ASSUME BufferInv, NEW b \in Names, NEW vs \in Lists(MaxSize), ConstructFrom(b, vs)
    PROVE  ~Exists(b) /\ vs \in Seq(Values) /\ Settled(b, vs)
<1>1. ~Exists(b) /\ Changes(b, Built(heap, AdjustCapacity(Len(vs)), vs))
  BY DEF ConstructFrom
<1>2. vs \in Seq(Values) /\ vs \in Seq(Elem) /\ Len(vs) \in 0..MaxSize
  BY ListSequences DEF BufferInv, BufferTypes
<1>3. AdjustCapacity(Len(vs)) \in Nat /\ Len(vs) <= AdjustCapacity(Len(vs))
      /\ Len(vs) <= MaxSize
  BY <1>2, AdjustCapacityBounds DEF BufferInv, BufferTypes
<1>4. Cleared(b, heap)
  BY <1>1, NothingToClear
<1>5. Settles(b, Built(heap, AdjustCapacity(Len(vs)), vs)[1],
              Built(heap, AdjustCapacity(Len(vs)), vs)[2], vs)
  BY <1>2, <1>3, <1>4, BuiltSettles, Zenon
<1> QED BY <1>1, <1>2, <1>5, SettledBy

LEMMA AppendAllSettles ==
    ASSUME BufferInv, "moved" \in Discipline, NEW b \in Names, NEW vs \in Lists(MaxSize),
           AppendAll(b, vs)
    PROVE  Usable(b) /\ vs \in Seq(Values) /\ Settled(b, Content(heap, bufs[b]) \o vs)
<1>1. /\ Usable(b) /\ bufs[b].size + Len(vs) <= MaxSize
      /\ \E grown : /\ grown = AddCapacityFor(heap, bufs[b], Len(vs))
                    /\ Changes(b, ConstructedAtEnd(grown[1], grown[2], vs))
  BY DEF AppendAll
<1>2. PICK grown : /\ grown = AddCapacityFor(heap, bufs[b], Len(vs))
                   /\ Changes(b, ConstructedAtEnd(grown[1], grown[2], vs))
  BY <1>1
<1>3. vs \in Seq(Values) /\ vs \in Seq(Elem) /\ Len(vs) \in Nat
  BY ListSequences DEF BufferInv, BufferTypes
<1>4. PICK l : l = Content(heap, bufs[b])
  OBVIOUS
<1>5. /\ Settles(b, grown[1], grown[2], l) /\ bufs[b].size + Len(vs) <= grown[2].capacity
      /\ bufs[b].size = Len(l)
  BY <1>1, <1>2, <1>3, <1>4, AddCapacitySettles, UsableHolds DEF Holding
<1>6. LET hb == ConstructedAtEnd(grown[1], grown[2], vs) IN Settles(b, hb[1], hb[2], l \o vs)
  BY <1>1, <1>3, <1>5, ConstructedAtEndSettles
<1> QED BY <1>1, <1>2, <1>3, <1>4, <1>6, SettledBy

\* Another buffer's list does not change while this one is cleared.
LEMMA OtherContent ==
    ASSUME BufferInv, NEW b \in Names, NEW h, Cleared(b, h), NEW a \in Names \ {b}, Exists(a)
    PROVE  Cells(h, bufs[a]) = Cells(heap, bufs[a]) /\ Content(h, bufs[a]) = Content(heap, bufs[a])
<1>1. Cells(h, bufs[a]) = Cells(heap, bufs[a])
  <2>1. CASE bufs[a].storage = Null
    BY <2>1 DEF Cells
  <2>2. CASE bufs[a].storage # Null
    <3>1. bufs[a].storage \in Storages /\ bufs[a].storage # Old(b)
      BY <2>2, OwnedStorage, OtherStorage
    <3> QED BY <2>2, <3>1 DEF Cells, Cleared
  <2> QED BY <2>1, <2>2
<1> QED BY <1>1 DEF Content

LEMMA CopySettles ==
    ASSUME BufferInv, "moved" \in Discipline, NEW b \in Names, NEW h, Cleared(b, h),
           NEW a \in Names \ {b}, Usable(a),
           Changes(b, Built(h, AdjustCapacity(bufs[a].size), Content(h, bufs[a])))
    PROVE  Settled(b, Content(heap, bufs[a]))
<1>1. PICK vs : vs = Content(heap, bufs[a])
  OBVIOUS
<1>2. Exists(a) /\ Holding(heap, bufs[a], vs) /\ Content(h, bufs[a]) = vs
  BY <1>1, UsableHolds, OtherContent
<1>3. /\ vs \in Seq(Elem) /\ bufs[a].size = Len(vs) /\ Len(vs) \in 0..MaxSize
      /\ Len(vs) <= MaxSize
  BY <1>2, SequenceFacts DEF Holding
<1>4. AdjustCapacity(Len(vs)) \in Nat /\ Len(vs) <= AdjustCapacity(Len(vs))
  BY <1>3, AdjustCapacityBounds DEF BufferInv, BufferTypes
<1>5. Settles(b, Built(h, AdjustCapacity(Len(vs)), vs)[1],
              Built(h, AdjustCapacity(Len(vs)), vs)[2], vs)
  BY <1>3, <1>4, BuiltSettles, Zenon
<1>6. Changes(b, Built(h, AdjustCapacity(Len(vs)), vs))
  BY <1>2, <1>3
<1> QED BY <1>1, <1>5, <1>6, SettledBy

LEMMA CopyConstructSettles ==
    ASSUME BufferInv, "moved" \in Discipline, NEW b \in Names, NEW a \in Names,
           CopyConstruct(b, a)
    PROVE  ~Exists(b) /\ Usable(a) /\ Settled(b, Content(heap, bufs[a]))
<1>1. ~Exists(b) /\ Usable(a) /\ a # b
  BY DEF CopyConstruct, Usable
<1>2. CASE bufs[a].storage = Null
  <2>1. ConstructDefault(b)
    BY <1>1, <1>2 DEF CopyConstruct, ConstructDefault, Changes
  <2>2. Holding(heap, bufs[a], Content(heap, bufs[a]))
    BY <1>1, UsableHolds
  <2>3. Content(heap, bufs[a]) = <<>>
    <3>1. bufs[a].size = 0
      BY <1>2, <2>2 DEF Holding, Buffers
    <3> QED BY <3>1 DEF Content
  <2> QED BY <1>1, <2>1, <2>3, ConstructDefaultSettles
<1>3. CASE bufs[a].storage # Null
  <2>1. Cleared(b, heap)
    BY <1>1, NothingToClear
  <2>2. Changes(b, Built(heap, AdjustCapacity(bufs[a].size), Content(heap, bufs[a])))
    BY <1>3 DEF CopyConstruct
  <2> QED BY <1>1, <2>1, <2>2, CopySettles
<1> QED BY <1>2, <1>3

LEMMA CopyAssignSettles ==
    ASSUME BufferInv, "moved" \in Discipline, NEW b \in Names, NEW a \in Names,
           CopyAssign(b, a)
    PROVE  Exists(b) /\ Usable(a) /\ Settled(b, Content(heap, bufs[a]))
<1>1. Exists(b) /\ Usable(a) /\ a \in Names \ {b}
  BY DEF CopyAssign
<1>2. PICK h : h = TornDown(heap, bufs[b])
  OBVIOUS
<1>3. Cleared(b, h) /\ Changes(b, Built(h, AdjustCapacity(bufs[a].size), Content(h, bufs[a])))
  BY <1>1, <1>2, TornDownClears DEF CopyAssign
<1> QED BY <1>1, <1>3, CopySettles

\* What is known of a buffer in use.
LEMMA UsableFacts ==
    ASSUME BufferInv, "moved" \in Discipline, NEW b \in Names, Usable(b)
    PROVE  \E vs \in Seq(Elem) :
               /\ vs = Content(heap, bufs[b]) /\ Settles(b, heap, bufs[b], vs)
               /\ Len(vs) \in Nat /\ bufs[b].size = Len(vs) /\ bufs[b].capacity \in Nat
               /\ Len(vs) <= bufs[b].capacity /\ Len(vs) <= MaxSize
               /\ \A i \in 1..Len(vs) : vs[i] \in Elem
               /\ bufs[b].storage # Null => Cells(heap, bufs[b]) = Padded(vs, bufs[b].capacity)
               /\ Len(vs) > 0 => bufs[b].storage # Null
               /\ bufs[b] \in Buffers
<1>1. PICK vs : vs = Content(heap, bufs[b])
  OBVIOUS
<1>2. Exists(b) /\ Holding(heap, bufs[b], vs) /\ Settles(b, heap, bufs[b], vs)
  BY <1>1, UsableHolds
<1>3. vs \in Seq(Elem) /\ Len(vs) \in Nat /\ \A i \in 1..Len(vs) : vs[i] \in Elem
  BY <1>2, SequenceFacts DEF Holding
<1>4. bufs[b].storage # Null => Cells(heap, bufs[b]) = Padded(vs, bufs[b].capacity)
  BY <1>2, HoldingContent DEF BufferInv, BufferTypes
<1>5. /\ bufs[b].size = Len(vs) /\ bufs[b].capacity \in Nat /\ Len(vs) <= bufs[b].capacity
      /\ Len(vs) <= MaxSize /\ bufs[b] \in Buffers /\ (Len(vs) > 0 => bufs[b].storage # Null)
  BY <1>2, <1>3 DEF Holding, Buffers
<1> QED BY <1>1, <1>2, <1>3, <1>4, <1>5

LEMMA AppendOwnSettles ==
    ASSUME BufferInv, {"moved", "alias"} \subseteq Discipline, NEW b \in Names, NEW pos \in Nat,
           AppendOwn(b, pos)
    PROVE  /\ Usable(b) /\ pos + 1 \in 1..Len(Content(heap, bufs[b]))
           /\ Settled(b, Content(heap, bufs[b]) \o <<Content(heap, bufs[b])[pos + 1]>>)
<1>1. Usable(b) /\ pos < bufs[b].size /\ bufs[b].size + 1 <= MaxSize /\ ~Grows(b, 1)
  BY DEF AppendOwn
<1>2. PICK vs \in Seq(Elem) :
          /\ vs = Content(heap, bufs[b]) /\ Settles(b, heap, bufs[b], vs)
          /\ Len(vs) \in Nat /\ bufs[b].size = Len(vs) /\ bufs[b].capacity \in Nat
          /\ \A i \in 1..Len(vs) : vs[i] \in Elem
  BY <1>1, UsableFacts
<1>3. pos + 1 \in 1..Len(vs) /\ Len(vs) + 1 <= bufs[b].capacity
  BY <1>1, <1>2 DEF Grows
<1>4. AddCapacityFor(heap, bufs[b], 1) = <<heap, bufs[b]>>
  BY <1>1 DEF AddCapacityFor, Grows
<1>5. PICK ws \in Seq(Elem) : ws = <<vs[pos + 1]>> /\ Len(ws) = 1
  <2>1. PICK v \in Elem : v = vs[pos + 1]
    BY <1>2, <1>3
  <2>2. <<v>> \in Seq(Elem) /\ Len(<<v>>) = 1
    OBVIOUS
  <2> QED BY <2>1, <2>2
<1>6. Changes(b, ConstructedAtEnd(heap, bufs[b], ws))
  BY <1>1, <1>2, <1>4, <1>5 DEF AppendOwn
<1>7. LET hb == ConstructedAtEnd(heap, bufs[b], ws) IN Settles(b, hb[1], hb[2], vs \o ws)
  BY <1>1, <1>2, <1>3, <1>5, ConstructedAtEndSettles
<1>8. Settled(b, vs \o ws)
  BY <1>6, <1>7, SettledBy
<1> QED BY <1>1, <1>2, <1>3, <1>5, <1>8

\* Elements of a trivial T that are left as the memory is.
LEMMA RawAtEnd ==
    ASSUME BufferInv, trivial, NEW b \in Names, NEW h, NEW r, NEW vs, Settles(b, h, r, vs),
           NEW n \in Nat, Len(vs) + n <= r.capacity, Len(vs) + n <= MaxSize
    PROVE  /\ Settles(b, h, [r EXCEPT !.size = Len(vs) + n], vs \o RawCells(n))
           /\ vs \in Seq(Elem) /\ RawCells(n) \in Seq(Elem)
<1>1. vs \in Seq(Elem) /\ Len(vs) \in Nat /\ r.capacity \in Nat /\ trivial \in BOOLEAN
  BY SequenceFacts DEF Settles, Holding, Buffers, BufferInv, BufferTypes
<1>2. PICK ws : ws = RawCells(n)
  OBVIOUS
<1>3. ws \in Seq(Elem) /\ Len(ws) = n /\ \A i \in 1..n : ws[i] = Raw
  <2>1. RawCells(n) \in Seq(Elem) /\ Len(RawCells(n)) = n
    BY <1>1, RawCellsHold
  <2>2. \A i \in 1..n : RawCells(n)[i] = Raw
    BY DEF RawCells
  <2> QED BY <1>2, <2>1, <2>2
<1>4. PICK us : us = vs \o ws
  OBVIOUS
<1>5. /\ us \in Seq(Elem) /\ Len(us) = Len(vs) + n
      /\ \A i \in 1..Len(vs) + n : us[i] = IF i <= Len(vs) THEN vs[i] ELSE ws[i - Len(vs)]
  <2>1. /\ vs \o ws \in Seq(Elem) /\ Len(vs \o ws) = Len(vs) + Len(ws)
        /\ \A i \in 1..Len(vs) + Len(ws) :
               (vs \o ws)[i] = IF i <= Len(vs) THEN vs[i] ELSE ws[i - Len(vs)]
    <3>1. vs \in Seq(Elem) /\ ws \in Seq(Elem)
      BY <1>1, <1>3
    <3> QED BY ONLY <3>1, ConcatProperties
  <2> QED BY <1>3, <1>4, <2>1
<1>6. ASSUME NEW i \in 1..r.capacity
      PROVE  (IF i <= Len(us) THEN us[i] ELSE Raw) = IF i <= Len(vs) THEN vs[i] ELSE Raw
  BY <1>1, <1>3, <1>5
<1>7. Padded(us, r.capacity) = Padded(vs, r.capacity)
  BY <1>6 DEF Padded
<1>8. Len(us) <= r.capacity /\ Len(us) <= MaxSize
  BY <1>5
<1>9. Settles(b, h, [r EXCEPT !.size = Len(us)], us)
  BY <1>5, <1>7, <1>8, Resized, Zenon
<1> QED BY <1>1, <1>2, <1>3, <1>4, <1>5, <1>9

LEMMA AppendUninitializedSettles ==
    ASSUME BufferInv, "moved" \in Discipline, NEW b \in Names, NEW n \in Nat,
           AppendUninitialized(b, n)
    PROVE  /\ Usable(b) /\ trivial /\ RawCells(n) \in Seq(Elem)
           /\ Settled(b, Content(heap, bufs[b]) \o RawCells(n))
<1>1. /\ trivial /\ Usable(b) /\ bufs[b].size + n <= MaxSize
      /\ \E grown : /\ grown = AddCapacityFor(heap, bufs[b], n)
                    /\ Changes(b, <<grown[1], [grown[2] EXCEPT !.size = @ + n]>>)
  BY DEF AppendUninitialized
<1>2. PICK grown : /\ grown = AddCapacityFor(heap, bufs[b], n)
                   /\ Changes(b, <<grown[1], [grown[2] EXCEPT !.size = @ + n]>>)
  BY <1>1
<1>3. PICK vs : vs = Content(heap, bufs[b])
  OBVIOUS
<1>4. /\ Settles(b, grown[1], grown[2], vs) /\ bufs[b].size + n <= grown[2].capacity
      /\ bufs[b].size = Len(vs) /\ grown[2].size = Len(vs) /\ grown[2] \in Buffers
  BY <1>1, <1>2, <1>3, AddCapacitySettles, UsableHolds DEF Holding, Settles
<1>5. /\ Settles(b, grown[1], [grown[2] EXCEPT !.size = Len(vs) + n], vs \o RawCells(n))
      /\ RawCells(n) \in Seq(Elem)
  BY <1>1, <1>4, RawAtEnd
<1>6. Changes(b, <<grown[1], [grown[2] EXCEPT !.size = Len(vs) + n]>>)
  BY <1>2, <1>4
<1>7. Settled(b, vs \o RawCells(n))
  BY <1>5, <1>6 DEF Settled
<1> QED BY <1>1, <1>3, <1>5, <1>7

\* What resize adds behind the elements there are.
Added(n) == IF trivial THEN RawCells(n) ELSE Fill(n, Default)

LEMMA ResizeSettles ==
    ASSUME BufferInv, "moved" \in Discipline, NEW b \in Names, NEW n \in 0..MaxSize, Resize(b, n)
    PROVE  LET vs == Content(heap, bufs[b])
           IN /\ Usable(b) /\ Len(vs) \in Nat
              /\ \/ n < Len(vs) /\ Settled(b, SubSeq(vs, 1, n))
                 \/ /\ n >= Len(vs) /\ Settled(b, vs \o Added(n - Len(vs)))
                    /\ Added(n - Len(vs)) \in Seq(Elem)
<1>1. Usable(b)
  BY DEF Resize
<1>2. PICK vs \in Seq(Elem) :
          /\ vs = Content(heap, bufs[b]) /\ Settles(b, heap, bufs[b], vs)
          /\ Len(vs) \in Nat /\ bufs[b].size = Len(vs) /\ bufs[b].capacity \in Nat
  BY <1>1, UsableFacts
<1>3. CASE n < Len(vs)
  <2>1. Changes(b, Shrunk(heap, bufs[b], n))
    BY <1>2, <1>3 DEF Resize
  <2>2. LET hb == Shrunk(heap, bufs[b], n) IN Settles(b, hb[1], hb[2], SubSeq(vs, 1, n))
    <3>1. n \in 0..Len(vs)
      BY <1>2, <1>3
    <3> QED BY <1>2, <3>1, ShrunkSettles
  <2> QED BY <1>1, <1>2, <1>3, <2>1, <2>2, SettledBy
<1>4. CASE n >= Len(vs)
  <2>1. PICK hb :
            /\ hb = IF n > bufs[b].capacity THEN Reallocate(heap, bufs[b], n)
                                            ELSE <<heap, bufs[b]>>
            /\ Changes(b, IF trivial THEN <<hb[1], [hb[2] EXCEPT !.size = n]>>
                          ELSE ConstructedAtEnd(hb[1], hb[2], Fill(n - bufs[b].size, Default)))
    <3>1. ~(n < bufs[b].size)
      BY <1>2, <1>4
    <3> QED BY <3>1, Zenon DEF Resize
  <2>2. Settles(b, hb[1], hb[2], vs) /\ n <= hb[2].capacity
    <3>1. CASE n > bufs[b].capacity
      BY <1>1, <1>2, <1>4, <2>1, <3>1, ReallocateSettles, UsableHolds
    <3>2. CASE ~(n > bufs[b].capacity)
      BY <1>2, <2>1, <3>2
    <3> QED BY <3>1, <3>2
  <2>3. PICK d \in Nat : d = n - Len(vs) /\ Len(vs) + d = n
    BY <1>2, <1>4
  <2>4. CASE trivial
    <3>1. Settles(b, hb[1], [hb[2] EXCEPT !.size = Len(vs) + d], vs \o RawCells(d))
          /\ RawCells(d) \in Seq(Elem)
      BY <2>2, <2>3, <2>4, RawAtEnd
    <3>2. Changes(b, <<hb[1], [hb[2] EXCEPT !.size = Len(vs) + d]>>)
      BY <2>1, <2>3, <2>4
    <3>3. Settled(b, vs \o RawCells(d))
      BY <3>1, <3>2 DEF Settled
    <3> QED BY <1>1, <1>2, <1>4, <2>3, <2>4, <3>1, <3>3 DEF Added
  <2>5. CASE ~trivial
    <3>1. PICK ws \in Seq(Elem) : ws = Fill(d, Default) /\ Len(ws) = d
      <4>1. Default \in Elem
        BY ElemSteps DEF BufferInv, BufferTypes
      <4>2. Fill(d, Default) \in Seq(Elem) /\ Len(Fill(d, Default)) = d
        BY <4>1, FillSequence
      <4> QED BY <4>2
    <3>2. LET k == ConstructedAtEnd(hb[1], hb[2], ws) IN Settles(b, k[1], k[2], vs \o ws)
      BY <2>2, <2>3, <3>1, ConstructedAtEndSettles
    <3>3. Changes(b, ConstructedAtEnd(hb[1], hb[2], ws))
      BY <1>2, <2>1, <2>3, <2>5, <3>1
    <3>4. Settled(b, vs \o ws)
      BY <3>2, <3>3, SettledBy
    <3> QED BY <1>1, <1>2, <1>4, <2>3, <2>5, <3>1, <3>4 DEF Added
  <2> QED BY <2>4, <2>5
<1> QED BY <1>2, <1>3, <1>4

\* The elements are changed where they are.
LEMMA RewrittenInPlace ==
    ASSUME BufferInv, "moved" \in Discipline, NEW b \in Names, Usable(b),
           bufs[b].storage # Null, NEW ws \in Seq(Elem), Len(ws) = bufs[b].size,
           NEW cells, cells = Padded(ws, bufs[b].capacity)
    PROVE  Settles(b, Put(heap, bufs[b], cells), bufs[b], ws)
<1>1. /\ Settles(b, heap, bufs[b], Content(heap, bufs[b])) /\ bufs[b] \in Buffers
      /\ bufs[b].size <= bufs[b].capacity /\ bufs[b].size <= MaxSize
  BY UsableFacts
<1>2. [bufs[b] EXCEPT !.size = Len(ws)] = bufs[b]
  BY <1>1 DEF Buffers
<1>3. Len(ws) <= bufs[b].capacity /\ Len(ws) <= MaxSize
  BY <1>1
<1>4. Settles(b, [heap EXCEPT ![bufs[b].storage] = Padded(ws, bufs[b].capacity)],
              [bufs[b] EXCEPT !.size = Len(ws)], ws)
  BY <1>1, <1>3, Rewritten, Zenon
<1> QED BY <1>2, <1>4 DEF Put

LEMMA PopBackSettles ==
    ASSUME BufferInv, "moved" \in Discipline, NEW b \in Names, PopBack(b)
    PROVE  LET vs == Content(heap, bufs[b])
           IN Usable(b) /\ Len(vs) \in Nat \ {0} /\ Settled(b, SubSeq(vs, 1, Len(vs) - 1))
<1>1. Usable(b) /\ bufs[b].size > 0
  BY DEF PopBack
<1>2. PICK vs \in Seq(Elem) :
          /\ vs = Content(heap, bufs[b]) /\ bufs[b].size = Len(vs) /\ Len(vs) \in Nat
          /\ Len(vs) <= bufs[b].capacity /\ bufs[b].capacity \in Nat
          /\ bufs[b].storage # Null /\ Cells(heap, bufs[b]) = Padded(vs, bufs[b].capacity)
  BY <1>1, UsableFacts
<1>3. PICK k \in 0..Len(vs) : k = Len(vs) - 1
  BY <1>1, <1>2
<1>4. PICK ws \in Seq(Elem) :
          /\ MoveOutRange(Padded(vs, bufs[b].capacity), k, Len(vs))
                 = Padded(ws, bufs[b].capacity)
          /\ Len(ws) = Len(vs)
          /\ \A i \in 1..Len(vs) : ws[i] = IF i > k THEN MovedFrom(vs[i]) ELSE vs[i]
  <2>1. LET ws == MovedOutFrom(vs, k)
        IN /\ MoveOutRange(Padded(vs, bufs[b].capacity), k, Len(vs))
                  = Padded(ws, bufs[b].capacity)
           /\ ws \in Seq(Elem) /\ Len(ws) = Len(vs)
           /\ \A i \in 1..Len(vs) : ws[i] = IF i > k THEN MovedFrom(vs[i]) ELSE vs[i]
    BY <1>2, <1>3, MovedOutCells DEF BufferInv, BufferTypes
  <2> QED BY <2>1
<1>5. PICK h : h = Put(heap, bufs[b], MoveOutRange(Cells(heap, bufs[b]), k, Len(vs)))
  OBVIOUS
<1>6. Settles(b, h, bufs[b], ws)
  BY <1>1, <1>2, <1>4, <1>5, RewrittenInPlace
<1>7. LET hb == Shrunk(h, bufs[b], k) IN Settles(b, hb[1], hb[2], SubSeq(ws, 1, k))
  BY <1>3, <1>4, <1>6, ShrunkSettles
<1>8. SubSeq(ws, 1, k) = SubSeq(vs, 1, k)
  <2>1. \A i \in 1..k : ws[i] = vs[i]
    BY <1>2, <1>3, <1>4
  <2> QED BY <1>2, <1>3, <1>4, <2>1, SamePrefix
<1>9. Changes(b, Shrunk(h, bufs[b], k))
  BY <1>2, <1>3, <1>5 DEF PopBack
<1>10. Settled(b, SubSeq(vs, 1, k))
  BY <1>7, <1>8, <1>9, SettledBy
<1> QED BY <1>1, <1>2, <1>3, <1>10

LEMMA ClearSettles ==
    ASSUME BufferInv, "moved" \in Discipline, NEW b \in Names, Clear(b)
    PROVE  Usable(b) /\ Settled(b, SubSeq(Content(heap, bufs[b]), 1, 0))
<1>1. Usable(b) /\ Changes(b, Shrunk(heap, bufs[b], 0))
  BY DEF Clear
<1>2. PICK vs : vs = Content(heap, bufs[b]) /\ Settles(b, heap, bufs[b], vs) /\ 0 \in 0..Len(vs)
  BY <1>1, UsableFacts
<1>3. LET hb == Shrunk(heap, bufs[b], 0) IN Settles(b, hb[1], hb[2], SubSeq(vs, 1, 0))
  BY <1>2, ShrunkSettles
<1> QED BY <1>1, <1>2, <1>3, SettledBy

\* The elements behind a range move down over it.
MovedDownList(vs, first, last) ==
    [i \in 1..Len(vs) |->
        IF first = last /\ i > first THEN MovedFrom(vs[i])
        ELSE IF i > first /\ i + (last - first) <= Len(vs) THEN vs[i + (last - first)]
        ELSE IF i > last THEN MovedFrom(vs[i]) ELSE vs[i]]

LEMMA MovedDownCells ==
    ASSUME trivial \in BOOLEAN, NEW n \in Nat, NEW vs \in Seq(Elem), Len(vs) <= n,
           NEW first \in 0..Len(vs), NEW last \in first..Len(vs)
    PROVE  LET ws == MovedDownList(vs, first, last)
           IN /\ MovedDown(Padded(vs, n), Len(vs), first, last) = Padded(ws, n)
              /\ ws \in Seq(Elem) /\ Len(ws) = Len(vs)
              /\ \A i \in 1..first : ws[i] = vs[i]
              /\ first < last => \A i \in first + 1 .. Len(vs) - (last - first) :
                                     ws[i] = vs[i + (last - first)]
<1> DEFINE cells == Padded(vs, n)
           ws == MovedDownList(vs, first, last)
<1>1. PICK d \in Nat : d = last - first
  OBVIOUS
<1>2. /\ Len(vs) \in Nat /\ DOMAIN cells = 1..n /\ \A i \in 1..Len(vs) : vs[i] \in Elem
      /\ \A i \in 1..n : cells[i] = IF i <= Len(vs) THEN vs[i] ELSE Raw
  BY SequenceFacts, PaddedCells
<1>3. \A i \in 1..Len(vs) :
          ws[i] = IF first = last /\ i > first THEN MovedFrom(vs[i])
                  ELSE IF i > first /\ i + d <= Len(vs) THEN vs[i + d]
                  ELSE IF i > last THEN MovedFrom(vs[i]) ELSE vs[i]
  BY <1>1 DEF MovedDownList
<1>4. \A e \in Elem : /\ MovedFrom(e) \in Elem /\ Value(e) = e
                      /\ \A v : Assigned(e, v) = v
  BY ElemSteps
<1>5. ws \in Seq(Elem) /\ Len(ws) = Len(vs)
  <2>1. ASSUME NEW i \in 1..Len(vs) PROVE ws[i] \in Elem
    <3>1. i > first /\ i + d <= Len(vs) => i + d \in 1..Len(vs)
      BY <1>1, <1>2
    <3> HIDE DEF ws
    <3> QED BY <1>2, <1>3, <1>4, <3>1
  <2>2. ws \in [1..Len(vs) -> Elem]
    BY <2>1 DEF MovedDownList
  <2> QED BY <1>2, <2>2, SequenceOf
<1> HIDE DEF cells, ws
<1>6. ASSUME NEW i \in 1..n
      PROVE  (IF first = last /\ i \in first + 1 .. Len(vs) THEN MovedFrom(cells[i])
              ELSE IF i \in first + 1 .. Len(vs) - (last - first)
                   THEN Assigned(cells[i], Value(cells[i + (last - first)]))
              ELSE IF i \in last + 1 .. Len(vs) THEN MovedFrom(cells[i])
              ELSE cells[i])
                 = IF i <= Len(ws) THEN ws[i] ELSE Raw
  <2>1. CASE i > Len(vs)
    <3>1. /\ i \notin first + 1 .. Len(vs) /\ i \notin last + 1 .. Len(vs)
          /\ i \notin first + 1 .. Len(vs) - (last - first)
          /\ ~(i <= Len(vs)) /\ ~(i <= Len(ws))
      BY ONLY <1>2, <1>5, <2>1, first \in 0..Len(vs), last \in first..Len(vs), i \in 1..n
    <3> QED BY ONLY <1>2, <3>1, i \in 1..n
  <2>2. CASE i <= Len(vs) /\ (first = last \/ i <= first)
    BY <1>1, <1>2, <1>3, <1>5, <2>2
  <2>3. CASE first # last /\ i > first /\ i + d <= Len(vs)
    <3>1. i + d \in 1..n /\ i + d <= Len(vs) /\ i <= Len(vs)
      BY <1>1, <1>2, <2>3
    <3>2. cells[i + d] = vs[i + d] /\ cells[i] = vs[i] /\ vs[i] \in Elem /\ vs[i + d] \in Elem
      BY <1>2, <3>1
    <3>3. Assigned(cells[i], Value(cells[i + d])) = vs[i + d]
      BY <1>4, <3>2
    <3>4. ws[i] = vs[i + d]
      BY <1>2, <1>3, <2>3, <3>1
    <3>5. i \in first + 1 .. Len(vs) - (last - first) /\ i <= Len(ws)
      BY <1>1, <1>2, <1>5, <2>3, <3>1
    <3> QED BY <1>1, <2>3, <3>3, <3>4, <3>5
  <2>4. CASE first # last /\ i > first /\ i + d > Len(vs) /\ i <= Len(vs)
    BY <1>1, <1>2, <1>3, <1>5, <2>4
  <2> QED BY <1>1, <1>2, <2>1, <2>2, <2>3, <2>4
<1>7. MovedDown(cells, Len(vs), first, last) = Padded(ws, n)
  BY <1>2, <1>6 DEF MovedDown, Padded
<1>8. \A i \in 1..first : ws[i] = vs[i]
  BY <1>2, <1>3
<1>9. first < last => \A i \in first + 1 .. Len(vs) - (last - first) :
                          ws[i] = vs[i + (last - first)]
  BY <1>1, <1>2, <1>3
<1> QED BY <1>5, <1>7, <1>8, <1>9 DEF cells, ws

\* What is left of the list is the elements before the range and behind it.
LEMMA RangeLeftOut ==
    ASSUME NEW S, NEW vs \in Seq(S), NEW ws \in Seq(S), Len(ws) = Len(vs),
           NEW first \in 0..Len(vs), NEW last \in first..Len(vs), first < last,
           \A i \in 1..first : ws[i] = vs[i],
           \A i \in first + 1 .. Len(vs) - (last - first) : ws[i] = vs[i + (last - first)]
    PROVE  SubSeq(ws, 1, Len(vs) - (last - first))
               = SubSeq(vs, 1, first) \o SubSeq(vs, last + 1, Len(vs))
<1>0. /\ \A i \in 1..first : ws[i] = vs[i]
      /\ \A i \in first + 1 .. Len(vs) - (last - first) : ws[i] = vs[i + (last - first)]
  OBVIOUS
<1>1. \A i \in 1..Len(vs) : vs[i] \in S /\ ws[i] \in S
  BY ONLY SequenceFacts, vs \in Seq(S), ws \in Seq(S), Len(ws) = Len(vs)
<1>l. Len(vs) \in Nat
  BY ONLY vs \in Seq(S), LenProperties
<1>b. /\ Len(vs) \in Nat /\ first \in Nat /\ last \in Nat
      /\ first < last /\ last <= Len(vs) /\ first <= Len(vs)
  BY ONLY <1>l, first \in 0..Len(vs), last \in first..Len(vs), first < last
<1>2. PICK n \in Nat : n = Len(vs) - (last - first) /\ n <= Len(vs) /\ first <= n
  <2>1. Len(vs) - (last - first) \in Nat
    BY ONLY <1>b
  <2>2. Len(vs) - (last - first) <= Len(vs) /\ first <= Len(vs) - (last - first)
    BY ONLY <1>b
  <2> QED BY ONLY <2>1, <2>2
<1>3. /\ SubSeq(ws, 1, n) \in Seq(S) /\ Len(SubSeq(ws, 1, n)) = n
      /\ \A i \in 1..n : SubSeq(ws, 1, n)[i] = ws[i]
  BY ONLY <1>1, <1>b, <1>2, SubSeqProperties
<1>4. PICK s \in Seq(S) : s = SubSeq(vs, 1, first) /\ Len(s) = first
                          /\ \A i \in 1..first : s[i] = vs[i]
  <2>1. /\ SubSeq(vs, 1, first) \in Seq(S) /\ Len(SubSeq(vs, 1, first)) = first
        /\ \A i \in 1..first : SubSeq(vs, 1, first)[i] = vs[i]
    BY ONLY <1>1, <1>b, SubSeqProperties
  <2> QED BY ONLY <2>1
<1>5. PICK t \in Seq(S) : t = SubSeq(vs, last + 1, Len(vs)) /\ Len(t) = Len(vs) - last
                          /\ \A i \in 1..Len(vs) - last : t[i] = vs[last + i]
  <2>1. last + 1 \in Int /\ Len(vs) \in Int /\ \A i \in last + 1 .. Len(vs) : vs[i] \in S
    BY ONLY <1>1, <1>b
  <2>2. /\ SubSeq(vs, last + 1, Len(vs)) \in Seq(S)
        /\ Len(SubSeq(vs, last + 1, Len(vs)))
               = IF last + 1 <= Len(vs) THEN Len(vs) - (last + 1) + 1 ELSE 0
        /\ \A i \in 1..Len(vs) - (last + 1) + 1 :
               SubSeq(vs, last + 1, Len(vs))[i] = vs[last + 1 + i - 1]
    BY ONLY <2>1, SubSeqProperties
  <2>3. Len(SubSeq(vs, last + 1, Len(vs))) = Len(vs) - last
    BY ONLY <1>b, <2>2
  <2>4. ASSUME NEW i \in 1..Len(vs) - last PROVE SubSeq(vs, last + 1, Len(vs))[i] = vs[last + i]
    <3>1. i \in 1..Len(vs) - (last + 1) + 1 /\ last + 1 + i - 1 = last + i
      BY ONLY <1>b, i \in 1..Len(vs) - last
    <3> QED BY ONLY <2>2, <3>1
  <2> QED BY ONLY <2>2, <2>3, <2>4
<1>6. /\ s \o t \in Seq(S) /\ Len(s \o t) = Len(s) + Len(t)
      /\ \A i \in 1..Len(s) + Len(t) :
             (s \o t)[i] = IF i <= Len(s) THEN s[i] ELSE t[i - Len(s)]
  BY ONLY s \in Seq(S), t \in Seq(S), ConcatProperties
<1>7. Len(s) = first /\ Len(t) = Len(vs) - last /\ Len(s) + Len(t) = n
  <2>1. Len(s) = first /\ Len(t) = Len(vs) - last
    BY ONLY <1>4, <1>5
  <2>2. first + (Len(vs) - last) = n
    BY ONLY <1>b, <1>2
  <2> QED BY ONLY <2>1, <2>2
<1>8. ASSUME NEW i \in 1..n PROVE SubSeq(ws, 1, n)[i] = (s \o t)[i]
  <2>0. i \in Nat /\ i \in 1..Len(s) + Len(t) /\ SubSeq(ws, 1, n)[i] = ws[i]
    BY ONLY <1>3, <1>7, i \in 1..n
  <2>1. CASE i <= first
    <3>1. i \in 1..first /\ i <= Len(s)
      BY ONLY <1>b, <1>7, <2>1, i \in 1..n
    <3>2. (s \o t)[i] = s[i] /\ s[i] = vs[i] /\ ws[i] = vs[i]
      BY ONLY <1>0, <1>4, <1>6, <2>0, <3>1
    <3> QED BY ONLY <2>0, <3>2
  <2>2. CASE i > first
    <3>0. /\ i \in first + 1 .. Len(vs) - (last - first) /\ ~ i <= Len(s)
          /\ i - Len(s) = i - first
      BY ONLY <1>b, <1>2, <1>7, <2>0, <2>2, i \in 1..n
    <3>1. ws[i] = vs[i + (last - first)]
      BY ONLY <3>0, <1>0
    <3>2. i - first \in 1..Len(vs) - last /\ last + (i - first) = i + (last - first)
      BY ONLY <1>b, <1>2, <2>2, i \in 1..n
    <3>3. t[i - first] = vs[i + (last - first)]
      BY ONLY <1>5, <3>2
    <3>4. (s \o t)[i] = t[i - first]
      BY ONLY <1>6, <2>0, <3>0
    <3> QED BY ONLY <2>0, <3>1, <3>3, <3>4
  <2>4. i <= first \/ i > first
    BY ONLY <1>b, <2>0
  <2> QED BY ONLY <2>1, <2>2, <2>4
<1>9. SubSeq(ws, 1, n) = s \o t
  <2>1. PICK u \in Seq(S) : u = s \o t /\ Len(u) = n
    BY ONLY <1>6, <1>7
  <2>2. PICK v \in Seq(S) : v = SubSeq(ws, 1, n) /\ Len(v) = n
    BY ONLY <1>3
  <2>3. \A i \in 1..Len(v) : v[i] = u[i]
    BY ONLY <1>8, <2>1, <2>2
  <2>4. v = u
    BY ONLY <2>1, <2>2, <2>3, SeqEqual
  <2> QED BY ONLY <2>1, <2>2, <2>4
<1> QED BY ONLY <1>2, <1>4, <1>5, <1>9

LEMMA EraseSettles ==
    ASSUME BufferInv, "moved" \in Discipline, NEW b \in Names,
           NEW first \in Nat, NEW last \in Nat, Erase(b, first, last)
    PROVE  LET vs == Content(heap, bufs[b])
           IN /\ Usable(b) /\ Len(vs) \in Nat /\ first < Len(vs) /\ last \in first..Len(vs)
              /\ "range" \in Discipline => first < last
              /\ \E ws : /\ Settled(b, ws)
                         /\ first < last =>
                                ws = SubSeq(vs, 1, first) \o SubSeq(vs, last + 1, Len(vs))
<1>1. /\ Usable(b) /\ first < bufs[b].size /\ last \in first..bufs[b].size
      /\ "range" \in Discipline => first < last
  BY DEF Erase
<1>2. PICK vs \in Seq(Elem) :
          /\ vs = Content(heap, bufs[b]) /\ bufs[b].size = Len(vs) /\ Len(vs) \in Nat
          /\ Len(vs) <= bufs[b].capacity /\ bufs[b].capacity \in Nat
          /\ bufs[b].storage # Null /\ Cells(heap, bufs[b]) = Padded(vs, bufs[b].capacity)
  BY <1>1, UsableFacts
<1>3. first \in 0..Len(vs) /\ last \in first..Len(vs) /\ first < Len(vs)
  BY <1>1, <1>2
<1>4. PICK ws \in Seq(Elem) :
          /\ MovedDown(Padded(vs, bufs[b].capacity), Len(vs), first, last)
                 = Padded(ws, bufs[b].capacity)
          /\ Len(ws) = Len(vs) /\ \A i \in 1..first : ws[i] = vs[i]
          /\ first < last => \A i \in first + 1 .. Len(vs) - (last - first) :
                                 ws[i] = vs[i + (last - first)]
  <2>1. LET ws == MovedDownList(vs, first, last)
        IN /\ MovedDown(Padded(vs, bufs[b].capacity), Len(vs), first, last)
                  = Padded(ws, bufs[b].capacity)
           /\ ws \in Seq(Elem) /\ Len(ws) = Len(vs) /\ \A i \in 1..first : ws[i] = vs[i]
           /\ first < last => \A i \in first + 1 .. Len(vs) - (last - first) :
                                  ws[i] = vs[i + (last - first)]
    <3>1. trivial \in BOOLEAN /\ bufs[b].capacity \in Nat /\ Len(vs) <= bufs[b].capacity
      BY <1>2 DEF BufferInv, BufferTypes
    <3> QED BY <1>3, <3>1, MovedDownCells
  <2> QED BY <2>1
<1>5. PICK h : h = Put(heap, bufs[b], MovedDown(Cells(heap, bufs[b]), Len(vs), first, last))
  OBVIOUS
<1>6. Settles(b, h, bufs[b], ws)
  BY <1>1, <1>2, <1>4, <1>5, RewrittenInPlace
<1>7. PICK n \in 0..Len(ws) : n = Len(vs) - (last - first)
  <2>1. Len(vs) - (last - first) \in 0..Len(vs)
    BY <1>2, <1>3
  <2> QED BY <1>4, <2>1
<1>8. LET hb == Shrunk(h, bufs[b], n) IN Settles(b, hb[1], hb[2], SubSeq(ws, 1, n))
  BY <1>6, <1>7, ShrunkSettles
<1>9. Changes(b, Shrunk(h, bufs[b], n))
  BY <1>2, <1>5, <1>7 DEF Erase
<1>10. Settled(b, SubSeq(ws, 1, n))
  BY <1>8, <1>9, SettledBy
<1>11. first < last => SubSeq(ws, 1, n)
                           = SubSeq(vs, 1, first) \o SubSeq(vs, last + 1, Len(vs))
  <2>1. SUFFICES ASSUME first < last
                 PROVE  SubSeq(ws, 1, Len(vs) - (last - first))
                            = SubSeq(vs, 1, first) \o SubSeq(vs, last + 1, Len(vs))
    BY <1>7
  <2>2. /\ Len(ws) = Len(vs) /\ \A i \in 1..first : ws[i] = vs[i]
        /\ \A i \in first + 1 .. Len(vs) - (last - first) : ws[i] = vs[i + (last - first)]
    BY <1>4, <2>1
  <2>3. vs \in Seq(Elem) /\ ws \in Seq(Elem)
    OBVIOUS
  <2>4. first < last
    BY <2>1
  <2>5. first \in 0..Len(vs) /\ last \in first..Len(vs)
    BY <1>3
  <2> QED BY ONLY <2>2, <2>3, <2>4, <2>5, RangeLeftOut
<1> QED BY <1>1, <1>2, <1>3, <1>10, <1>11

\* The last element takes the place of the one that is removed.
SwappedOutList(vs, pos) ==
    [i \in 1..Len(vs) - 1 |-> IF i = pos + 1 THEN vs[Len(vs)] ELSE vs[i]]

LEMMA SwapAndPopSettles ==
    ASSUME BufferInv, {"moved", "swap"} \subseteq Discipline, NEW b \in Names, NEW pos \in Nat,
           SwapAndPop(b, pos)
    PROVE  LET vs == Content(heap, bufs[b])
           IN /\ Usable(b) /\ Len(vs) \in Nat /\ pos < Len(vs)
              /\ Settled(b, SwappedOutList(vs, pos))
<1>1. /\ Usable(b) /\ pos < bufs[b].size /\ (trivial \/ pos = bufs[b].size - 1)
      /\ Changes(b, <<Put(heap, bufs[b], SwappedOut(Cells(heap, bufs[b]), bufs[b].size, pos)),
                      [bufs[b] EXCEPT !.size = @ - 1]>>)
  BY DEF SwapAndPop
<1>2. PICK vs \in Seq(Elem) :
          /\ vs = Content(heap, bufs[b]) /\ bufs[b].size = Len(vs) /\ Len(vs) \in Nat
          /\ Len(vs) <= bufs[b].capacity /\ bufs[b].capacity \in Nat /\ Len(vs) <= MaxSize
          /\ bufs[b].storage # Null /\ Cells(heap, bufs[b]) = Padded(vs, bufs[b].capacity)
          /\ \A i \in 1..Len(vs) : vs[i] \in Elem
          /\ Settles(b, heap, bufs[b], vs) /\ bufs[b] \in Buffers
  BY <1>1, UsableFacts
<1>3. PICK ws : ws = SwappedOutList(vs, pos)
  OBVIOUS
<1>4. /\ ws \in Seq(Elem) /\ Len(ws) = Len(vs) - 1
      /\ \A i \in 1..Len(vs) - 1 : ws[i] = IF i = pos + 1 THEN vs[Len(vs)] ELSE vs[i]
  <2>1. Len(vs) - 1 \in Nat /\ Len(vs) \in 1..Len(vs) /\ vs[Len(vs)] \in Elem
    BY <1>1, <1>2
  <2>2. SwappedOutList(vs, pos) \in [1..Len(vs) - 1 -> Elem]
    BY <1>2, <2>1 DEF SwappedOutList
  <2>3. ws \in Seq(Elem) /\ Len(ws) = Len(vs) - 1
    BY <1>3, <2>1, <2>2, SequenceOf
  <2> QED BY <1>3, <2>3 DEF SwappedOutList
<1> DEFINE n == bufs[b].capacity
           cells == Padded(vs, n)
<1>5. /\ DOMAIN cells = 1..n /\ \A i \in 1..n : cells[i] = IF i <= Len(vs) THEN vs[i] ELSE Raw
  <2>1. trivial \in BOOLEAN /\ n \in Nat /\ vs \in Seq(Elem)
    BY <1>2 DEF BufferInv, BufferTypes
  <2> QED BY ONLY <2>1, PaddedCells
<1>6. \A e \in Elem : Destroyed(e) = Raw /\ Value(e) = e
  BY ElemSteps DEF BufferInv, BufferTypes
<1>7. trivial => \A v : Assigned(Raw, v) = v
  BY DEF Assigned
<1> HIDE DEF cells
<1>8. ASSUME NEW i \in 1..n
      PROVE  (IF i = Len(vs) THEN IF trivial \/ pos = Len(vs) - 1 THEN Destroyed(cells[i])
                                                                  ELSE MovedFrom(cells[i])
              ELSE IF i = pos + 1 THEN Assigned(Destroyed(cells[i]), Value(cells[Len(vs)]))
              ELSE cells[i])
                 = IF i <= Len(ws) THEN ws[i] ELSE Raw
  <2>1. CASE i = Len(vs)
    BY <1>1, <1>2, <1>4, <1>5, <1>6, <2>1
  <2>2. CASE i # Len(vs) /\ i = pos + 1
    <3>1. i \in 1..Len(vs) - 1 /\ trivial /\ Len(vs) \in 1..n /\ i \in 1..Len(vs)
          /\ Len(vs) \in 1..Len(vs)
      BY <1>1, <1>2, <2>2
    <3>2. cells[i] = vs[i] /\ cells[Len(vs)] = vs[Len(vs)]
      BY <1>2, <1>5, <3>1
    <3>3. Assigned(Destroyed(cells[i]), Value(cells[Len(vs)])) = vs[Len(vs)]
      BY <1>2, <1>6, <1>7, <3>1, <3>2
    <3> QED BY <1>2, <1>4, <2>2, <3>1, <3>3
  <2>3. CASE i # Len(vs) /\ i # pos + 1
    BY <1>1, <1>2, <1>4, <1>5, <2>3
  <2> QED BY <2>1, <2>2, <2>3
<1>9. SwappedOut(cells, Len(vs), pos) = Padded(ws, n)
  BY <1>5, <1>8 DEF SwappedOut, Padded
<1>10. Settles(b, [heap EXCEPT ![bufs[b].storage] = Padded(ws, n)],
               [bufs[b] EXCEPT !.size = Len(ws)], ws)
  <2>1. Len(ws) <= n /\ Len(ws) <= MaxSize
    BY <1>1, <1>2, <1>4
  <2> QED BY <1>2, <1>4, <2>1, Rewritten, Zenon
<1>11. Changes(b, <<[heap EXCEPT ![bufs[b].storage] = Padded(ws, n)],
                    [bufs[b] EXCEPT !.size = Len(ws)]>>)
  BY <1>1, <1>2, <1>4, <1>9 DEF Put, cells
<1>12. Settled(b, ws)
  BY <1>10, <1>11 DEF Settled
<1> QED BY <1>1, <1>2, <1>3, <1>12

-----------------------------------------------------------------------------
(* The calls that take a buffer away, or the elements of another.          *)

LEMMA DestroyKeeps ==
    ASSUME BufferInv, NEW b \in Names, Destroy(b)
    PROVE  /\ BufferInv' /\ Exists(b) /\ ~Exists(b)'
           /\ \A c \in Names \ {b} :
                  /\ bufs'[c] = bufs[c]
                  /\ Exists(c) => Content(heap, bufs[c])' = Content(heap, bufs[c])
<1>1. /\ Exists(b) /\ trivial' = trivial /\ policy' = policy
      /\ heap' = TornDown(heap, bufs[b]) /\ bufs' = [bufs EXCEPT ![b] = NoBuffer]
  BY DEF Destroy
<1>2. Cleared(b, heap')
  BY <1>1, TornDownClears
<1>3. /\ bufs' \in [Names -> {NoBuffer} \union Buffers] /\ bufs'[b] = NoBuffer
      /\ \A c \in Names \ {b} : bufs'[c] = bufs[c]
  BY <1>1 DEF BufferInv, BufferTypes
<1>4. ~Exists(b)' /\ \A c \in Names \ {b} : Exists(c)' = Exists(c)
  BY <1>3 DEF Exists
<1>5. BufferTypes'
  BY <1>1, <1>2, <1>3 DEF BufferInv, BufferTypes, Cleared
<1>6. ASSUME NEW c \in Names \ {b}, Exists(c)
      PROVE  /\ Content(heap, bufs[c])' = Content(heap, bufs[c])
             /\ (Stripped(bufs[c]) \/ Holding(heap, bufs[c], Content(heap, bufs[c])))'
  <2>1. ASSUME bufs[c].storage # Null PROVE heap'[bufs[c].storage] = heap[bufs[c].storage]
    <3>1. bufs[c].storage \in Storages /\ bufs[c].storage # Old(b)
      BY <1>6, <2>1, OwnedStorage, OtherStorage
    <3> QED BY <1>2, <3>1 DEF Cleared
  <2> QED BY <1>1, <1>3, <1>6, <2>1, Undisturbed
<1>7. \A c \in Names : (Exists(c) =>
           Stripped(bufs[c]) \/ Holding(heap, bufs[c], Content(heap, bufs[c])))'
  BY <1>4, <1>6
<1>8. ASSUME NEW c \in Names, NEW d \in Names, NEW s \in Storages, Owns(c, s)', Owns(d, s)'
      PROVE  c = d
  BY <1>3, <1>4, <1>8 DEF Owns, BufferInv
<1>9. ASSUME NEW s \in Storages, heap'[s] # Freed PROVE \E c \in Names : Owns(c, s)'
  <2>1. s # Old(b) /\ heap[s] # Freed
    BY <1>2, <1>9 DEF Cleared
  <2>2. PICK c \in Names : Owns(c, s)
    BY <2>1 DEF BufferInv
  <2>3. c # b
    BY <2>1, <2>2 DEF Owns, Old
  <2> QED BY <1>3, <1>4, <2>2, <2>3 DEF Owns
<1>10. BufferInv'
  BY <1>5, <1>7, <1>8, <1>9 DEF BufferInv
<1> QED BY <1>1, <1>3, <1>4, <1>6, <1>10

\* A trivial T: b takes the storage of a, which keeps its size and capacity.
LEMMA StolenKeeps ==
    ASSUME BufferInv, "moved" \in Discipline, trivial, UNCHANGED <<trivial, policy>>,
           NEW b \in Names, NEW a \in Names \ {b}, Usable(a), Cleared(b, heap'),
           bufs' = [bufs EXCEPT ![b] = bufs[a], ![a] = Stolen(a)]
    PROVE  /\ BufferInv' /\ bufs'[b] = bufs[a] /\ bufs'[a] = Stolen(a)
           /\ Content(heap, bufs[b])' = Content(heap, bufs[a])
           /\ \A c \in Names \ {a, b} :
                  /\ bufs'[c] = bufs[c]
                  /\ Exists(c) => Content(heap, bufs[c])' = Content(heap, bufs[c])
<1>1. /\ Exists(a) /\ bufs[a] \in Buffers /\ bufs[a].size <= bufs[a].capacity
      /\ bufs[a].size <= MaxSize
  BY BufferFields DEF Usable
<1>2. /\ Stolen(a) \in Buffers /\ Stolen(a).storage = Null
      /\ Stolen(a).size = bufs[a].size /\ Stolen(a).capacity = bufs[a].capacity
  BY <1>1 DEF Stolen, Buffers
<1>3. /\ bufs' \in [Names -> {NoBuffer} \union Buffers]
      /\ bufs'[b] = bufs[a] /\ bufs'[a] = Stolen(a)
      /\ \A c \in Names \ {a, b} : bufs'[c] = bufs[c]
  BY <1>1, <1>2 DEF BufferInv, BufferTypes
<1>4. /\ Exists(b)' /\ Exists(a)'
      /\ \A c \in Names \ {a, b} : Exists(c)' = Exists(c)
  BY <1>1, <1>2, <1>3, BuffersExist DEF Exists
<1>5. BufferTypes'
  BY <1>3 DEF BufferInv, BufferTypes, Cleared
<1>6. ASSUME NEW c \in Names \ {b}, Exists(c), bufs[c].storage # Null
      PROVE  bufs[c].storage \in Storages /\ heap'[bufs[c].storage] = heap[bufs[c].storage]
  <2>1. bufs[c].storage \in Storages /\ bufs[c].storage # Old(b)
    BY <1>6, OwnedStorage, OtherStorage
  <2> QED BY <2>1 DEF Cleared
<1>7. ASSUME NEW c \in Names \ {a, b}, Exists(c)
      PROVE  /\ Content(heap, bufs[c])' = Content(heap, bufs[c])
             /\ (Stripped(bufs[c]) \/ Holding(heap, bufs[c], Content(heap, bufs[c])))'
  BY <1>3, <1>6, <1>7, Undisturbed
<1>8. Stripped(bufs[a])'
  BY <1>1, <1>2, <1>3 DEF Stripped, Buffers
<1>9. PICK vs : vs = Content(heap, bufs[a]) /\ Holding(heap, bufs[a], vs)
  BY UsableHolds
<1>10. Holding(heap, bufs[b], vs)' /\ Content(heap, bufs[b])' = vs
  <2>1. Holding(heap', bufs[a], vs)
    BY <1>1, <1>6, <1>9 DEF Holding
  <2>2. Content(heap', bufs[a]) = vs
    BY <2>1, HoldingContent
  <2>3. Content(heap, bufs[b])' = vs
    BY <1>3, <2>2 DEF Content, Cells, Value
  <2>4. Holding(heap, bufs[b], vs)'
    BY <1>3, <2>1 DEF Holding, Elem, Buffers
  <2> QED BY <2>3, <2>4
<1>11. \A c \in Names : (Exists(c) =>
           Stripped(bufs[c]) \/ Holding(heap, bufs[c], Content(heap, bufs[c])))'
  BY <1>4, <1>7, <1>8, <1>10
<1>12. \A s \in Storages : /\ Owns(b, s)' = Owns(a, s) /\ ~Owns(a, s)'
                           /\ \A c \in Names \ {a, b} : Owns(c, s)' = Owns(c, s)
  BY <1>1, <1>2, <1>3, <1>4, StoragesAreNumbers DEF Owns
<1>13. ASSUME NEW c \in Names, NEW d \in Names, NEW s \in Storages, Owns(c, s)', Owns(d, s)'
       PROVE  c = d
  BY <1>12, <1>13 DEF BufferInv
<1>14. ASSUME NEW s \in Storages, heap'[s] # Freed PROVE \E c \in Names : Owns(c, s)'
  <2>1. s # Old(b) /\ heap[s] # Freed
    BY <1>14 DEF Cleared
  <2>2. PICK c \in Names : Owns(c, s)
    BY <2>1 DEF BufferInv
  <2>3. c # b
    BY <2>1, <2>2 DEF Owns, Old
  <2> QED BY <1>12, <2>2, <2>3
<1>15. BufferInv'
  BY <1>5, <1>11, <1>13, <1>14 DEF BufferInv
<1> QED BY <1>3, <1>7, <1>9, <1>10, <1>15

\* Any other T: b gets a storage of its own, and a keeps moved-from objects.
LEMMA MovedOutKeeps ==
    ASSUME BufferInv, "moved" \in Discipline, ~trivial, UNCHANGED <<trivial, policy>>,
           NEW b \in Names, NEW a \in Names \ {b}, Usable(a), NEW h, Cleared(b, h),
           MovedInto(h, b, a)
    PROVE  /\ BufferInv' /\ Exists(b)' /\ bufs'[a] = bufs[a]
           /\ Holding(heap, bufs[b], Content(heap, bufs[b]))'
           /\ Content(heap, bufs[b])' = Content(heap, bufs[a])
           /\ Content(heap, bufs[a])' = MovedOutFrom(Content(heap, bufs[a]), 0)
           /\ \A c \in Names \ {a, b} :
                  /\ bufs'[c] = bufs[c]
                  /\ Exists(c) => Content(heap, bufs[c])' = Content(heap, bufs[c])
<1>1. PICK vs \in Seq(Elem) :
          /\ vs = Content(heap, bufs[a]) /\ Len(vs) \in Nat /\ bufs[a].size = Len(vs)
          /\ bufs[a].capacity \in Nat /\ Len(vs) <= bufs[a].capacity /\ Len(vs) <= MaxSize
          /\ bufs[a].storage # Null => Cells(heap, bufs[a]) = Padded(vs, bufs[a].capacity)
          /\ bufs[a] \in Buffers /\ (Len(vs) > 0 => bufs[a].storage # Null)
  BY UsableFacts
<1>2. PICK n \in Nat : n = bufs[a].capacity /\ Len(vs) <= n
  BY <1>1
<1>3. Exists(a) /\ Holding(heap, bufs[a], vs) /\ Content(h, bufs[a]) = vs
      /\ Cells(h, bufs[a]) = Cells(heap, bufs[a])
  BY <1>1, UsableHolds, OtherContent
<1>4. PICK g : g = Built(h, n, vs)[1]
  OBVIOUS
<1>5. PICK r : r = Built(h, n, vs)[2]
  OBVIOUS
<1>6. Settles(b, g, r, vs) /\ g = [h EXCEPT ![NewStorage(h)] = Padded(vs, n)]
  <2>1. vs \in Seq(Elem) /\ Len(vs) <= n /\ Len(vs) <= MaxSize /\ n \in Nat
    BY <1>1, <1>2
  <2>2. Settles(b, Built(h, n, vs)[1], Built(h, n, vs)[2], vs)
    BY <2>1, BuiltSettles, Zenon
  <2>3. Built(h, n, vs)[1] = [h EXCEPT ![NewStorage(h)] = Padded(vs, n)]
    BY <2>1, BuiltSettles
  <2> QED BY <1>4, <1>5, <2>2, <2>3
<1>7. PICK new \in Storages : new = NewStorage(h) /\ h[new] = Freed /\ r.storage = new /\ new # Null
  <2>1. NewStorage(h) \in Storages /\ h[NewStorage(h)] = Freed
    BY NewStorageIsFree
  <2>2. Built(h, n, vs)[2].storage = NewStorage(h)
    BY BuiltFields
  <2> QED BY <1>5, <2>1, <2>2, StoragesAreNumbers
<1>8. PICK old \in Storages \union {Null} : old = bufs[a].storage
  BY <1>1 DEF Buffers
<1>9. old # Null => old # new /\ old # Old(b) /\ h[old] = heap[old]
  <2>1. SUFFICES ASSUME old # Null PROVE old # new /\ old # Old(b) /\ h[old] = heap[old]
    OBVIOUS
  <2>2. old \in Storages /\ old # Old(b) /\ heap[old] # Freed
    BY <1>3, <1>8, <2>1, OtherStorage
  <2>3. h[old] = heap[old]
    BY <2>2 DEF Cleared
  <2> QED BY <1>7, <2>2, <2>3
<1>10. PICK left : left = MovedOutFrom(vs, 0)
  OBVIOUS
<1>11. /\ left \in Seq(Elem) /\ Len(left) = Len(vs)
       /\ MoveOutRange(Padded(vs, n), 0, Len(vs)) = Padded(left, n)
  <2>1. 0 \in 0..Len(vs)
    BY <1>1
  <2>2. LET ws == MovedOutFrom(vs, 0)
        IN /\ MoveOutRange(Padded(vs, n), 0, Len(vs)) = Padded(ws, n)
           /\ ws \in Seq(Elem) /\ Len(ws) = Len(vs)
    BY <1>2, <2>1, MovedOutCells DEF BufferInv, BufferTypes
  <2> QED BY <1>10, <2>2
<1>12. /\ bufs' = [bufs EXCEPT ![b] = r]
       /\ heap' = Put(g, bufs[a], MoveOutRange(Cells(h, bufs[a]), 0, Len(vs)))
  BY <1>1, <1>2, <1>3, <1>4, <1>5 DEF MovedInto, Changes
<1>13. /\ heap' \in Heaps
       /\ \A s \in Storages : heap'[s] = IF s = old THEN Padded(left, n)
                                         ELSE IF s = new THEN Padded(vs, n)
                                         ELSE IF s = Old(b) THEN Freed ELSE heap[s]
  <2>1. /\ g \in Heaps
        /\ \A s \in Storages : g[s] = IF s = new THEN Padded(vs, n)
                                      ELSE IF s = Old(b) THEN Freed ELSE heap[s]
    BY <1>6, <1>7 DEF Settles, Cleared, Heaps
  <2>2. CASE old = Null
    <3>1. heap' = g
      BY <1>8, <1>12, <2>2 DEF Put
    <3> QED BY <2>1, <2>2, <3>1, StoragesAreNumbers
  <2>3. CASE old # Null
    <3>1. heap' = [g EXCEPT ![old] = Padded(left, n)]
      BY <1>1, <1>2, <1>3, <1>8, <1>11, <1>12, <2>3 DEF Put
    <3>2. Padded(left, n) \in Seq(Cell)
      BY <1>2, <1>11, PaddedCells DEF BufferInv, BufferTypes
    <3> QED BY <2>1, <2>3, <3>1, <3>2 DEF Heaps
  <2> QED BY <2>2, <2>3
<1>14. /\ bufs' \in [Names -> {NoBuffer} \union Buffers] /\ bufs'[b] = r
       /\ r \in Buffers /\ \A c \in Names \ {b} : bufs'[c] = bufs[c]
  BY <1>6, <1>12 DEF BufferInv, BufferTypes, Settles, Holding
<1>15. Exists(b)' /\ \A c \in Names \ {b} : Exists(c)' = Exists(c)
  BY <1>14, BuffersExist DEF Exists
<1>16. BufferTypes'
  BY <1>13, <1>14 DEF BufferInv, BufferTypes
<1>17. Holding(heap, bufs[b], vs)' /\ Content(heap, bufs[b])' = vs
  <2>0. Built(h, n, vs)[2].capacity = n
    BY BuiltFields
  <2>1. heap'[new] = Padded(vs, n) /\ r.capacity = n
    BY <1>5, <1>7, <1>9, <1>13, <2>0
  <2>2. Holding(heap', r, vs)
    BY <1>6, <1>7, <2>1 DEF Settles, Holding
  <2>3. Holding(heap, bufs[b], vs)'
    BY <1>14, <2>2 DEF Holding, Elem, Buffers
  <2>4. (trivial \in BOOLEAN)'
    BY DEF BufferInv, BufferTypes
  <2>5. Content(heap', r) = vs
    BY <2>2, HoldingContent DEF BufferInv, BufferTypes
  <2>6. Content(heap, bufs[b])' = vs
    BY <1>14, <2>5 DEF Content, Cells, Value
  <2> QED BY <2>3, <2>6
<1>18. Holding(heap, bufs[a], left)' /\ Content(heap, bufs[a])' = left
  <2>1. old = Null => left = <<>> /\ vs = <<>>
    BY <1>1, <1>8, <1>11, EmptySeq
  <2>2. Holding(heap', bufs[a], left)
    BY <1>1, <1>2, <1>3, <1>8, <1>11, <1>13 DEF Holding
  <2>3. Holding(heap, bufs[a], left)'
    BY <1>14, <2>2 DEF Holding, Elem, Buffers
  <2>4. Content(heap', bufs[a]) = left
    BY <2>2, HoldingContent DEF BufferInv, BufferTypes
  <2>5. Content(heap, bufs[a])' = left
    BY <1>14, <2>4 DEF Content, Cells, Value
  <2> QED BY <2>3, <2>5
<1>19. ASSUME NEW c \in Names \ {a, b}, Exists(c)
       PROVE  /\ Content(heap, bufs[c])' = Content(heap, bufs[c])
              /\ (Stripped(bufs[c]) \/ Holding(heap, bufs[c], Content(heap, bufs[c])))'
  <2>1. ASSUME bufs[c].storage # Null PROVE heap'[bufs[c].storage] = heap[bufs[c].storage]
    <3>1. /\ bufs[c].storage \in Storages /\ bufs[c].storage # Old(b)
          /\ heap[bufs[c].storage] # Freed
      BY <1>19, <2>1, OwnedStorage, OtherStorage
    <3>2. bufs[c].storage # old
      BY <1>3, <1>8, <1>19, <2>1, <3>1 DEF BufferInv, Owns
    <3>3. bufs[c].storage # new
      BY <1>7, <3>1 DEF Cleared
    <3> QED BY <1>13, <3>1, <3>2, <3>3
  <2> QED BY <1>14, <1>19, <2>1, Undisturbed
<1>20. \A c \in Names : (Exists(c) =>
           Stripped(bufs[c]) \/ Holding(heap, bufs[c], Content(heap, bufs[c])))'
  BY <1>15, <1>17, <1>18, <1>19
<1>21. ASSUME NEW s \in Storages, NEW c \in Names \ {b}, Owns(c, s) PROVE s # new
  <2>1. s # Null /\ Exists(c) /\ bufs[c].storage = s
    BY <1>21, StoragesAreNumbers DEF Owns
  <2>2. s # Old(b) /\ heap[s] # Freed
    BY <2>1, OtherStorage
  <2> QED BY <1>7, <2>2 DEF Cleared
<1>22. \A s \in Storages : /\ Owns(b, s)' <=> s = new
                           /\ \A c \in Names \ {b} : Owns(c, s)' = Owns(c, s)
  BY <1>7, <1>14, <1>15 DEF Owns
<1>23. ASSUME NEW c \in Names, NEW d \in Names, NEW s \in Storages, Owns(c, s)', Owns(d, s)'
       PROVE  c = d
  BY <1>21, <1>22, <1>23 DEF BufferInv
<1>24. ASSUME NEW s \in Storages, heap'[s] # Freed PROVE \E c \in Names : Owns(c, s)'
  <2>1. CASE s = new
    BY <1>22, <2>1
  <2>2. CASE s = old
    <3>1. Owns(a, s)
      BY <1>3, <1>8, <2>2 DEF Owns
    <3> QED BY <1>22, <3>1
  <2>3. CASE s # new /\ s # old
    <3>1. s # Old(b) /\ heap[s] # Freed
      BY <1>13, <1>24, <2>3
    <3>2. PICK c \in Names : Owns(c, s)
      BY <3>1 DEF BufferInv
    <3>3. c # b
      BY <3>1, <3>2 DEF Owns, Old
    <3> QED BY <1>22, <3>2, <3>3
  <2> QED BY <2>1, <2>2, <2>3
<1>25. BufferInv'
  BY <1>16, <1>20, <1>23, <1>24 DEF BufferInv
<1> QED BY <1>1, <1>10, <1>14, <1>15, <1>17, <1>18, <1>19, <1>25

-----------------------------------------------------------------------------
(* Lifetimes, when callers keep all rules but "range".                      *)

LifetimesKept == {"sized", "swap", "moved", "alias"} \subseteq Discipline

LEMMA InitHolds == Init => BufferInv
<1> SUFFICES ASSUME Init PROVE BufferInv
  OBVIOUS
<1>1. BufferTypes
  BY DEF Init, BufferTypes, Heaps
<1>2. \A b \in Names : ~Exists(b)
  BY DEF Init, Exists
<1>3. \A s \in Storages : heap[s] = Freed
  BY DEF Init
<1> QED BY <1>1, <1>2, <1>3 DEF BufferInv, Owns

LEMMA SettledInv ==
    ASSUME BufferInv, NEW b \in Names, NEW vs, Settled(b, vs), UNCHANGED <<trivial, policy>>
    PROVE  /\ BufferInv' /\ Exists(b)' /\ Content(heap, bufs[b])' = vs
           /\ Holding(heap, bufs[b], vs)'
           /\ \A c \in Names \ {b} :
                  /\ bufs'[c] = bufs[c]
                  /\ Exists(c) => Content(heap, bufs[c])' = Content(heap, bufs[c])
<1>1. PICK h, r : Settles(b, h, r, vs) /\ Changes(b, <<h, r>>)
  BY DEF Settled
<1>2. Holding(h, r, vs) /\ heap' = h /\ bufs'[b] = r
  BY <1>1 DEF Settles, Changes, BufferInv, BufferTypes
<1>3. Holding(heap, bufs[b], vs)'
  BY <1>2 DEF Holding, Elem, Buffers
<1> QED BY <1>1, <1>3, SettledKeeps

LEMMA MoveKeeps ==
    ASSUME BufferInv, "moved" \in Discipline, NEW b \in Names, NEW a \in Names,
           MoveConstruct(b, a) \/ MoveAssign(b, a)
    PROVE  /\ a # b /\ Usable(a) /\ UNCHANGED <<trivial, policy>>
           /\ \E h : Cleared(b, h) /\ MovedInto(h, b, a)
           /\ BufferInv'
<1>1. /\ a # b /\ Usable(a) /\ UNCHANGED <<trivial, policy>>
      /\ \E h : Cleared(b, h) /\ MovedInto(h, b, a)
  <2>1. CASE MoveConstruct(b, a)
    BY <2>1, NothingToClear DEF MoveConstruct, Usable
  <2>2. CASE MoveAssign(b, a)
    BY <2>2, TornDownClears DEF MoveAssign
  <2> QED BY <2>1, <2>2
<1>2. PICK h : Cleared(b, h) /\ MovedInto(h, b, a)
  BY <1>1
<1>3. CASE trivial
  <2>1. heap' = h /\ bufs' = [bufs EXCEPT ![b] = bufs[a], ![a] = Stolen(a)]
    BY <1>2, <1>3 DEF MovedInto
  <2> QED BY <1>1, <1>2, <1>3, <2>1, StolenKeeps
<1>4. CASE ~trivial
  BY <1>1, <1>2, <1>4, MovedOutKeeps
<1> QED BY <1>1, <1>3, <1>4

LEMMA NextKeeps == ASSUME LifetimesKept, BufferInv, Next PROVE BufferInv'
<1>1. {"sized", "swap", "moved", "alias"} \subseteq Discipline
  BY DEF LifetimesKept
<1>2. PICK b \in Names :
          \/ ConstructDefault(b) \/ Destroy(b) \/ PopBack(b) \/ Clear(b)
          \/ \E vs \in Lists(MaxSize) : ConstructFrom(b, vs) \/ AppendAll(b, vs)
          \/ \E n \in 0..MaxSize : ConstructSized(b, n) \/ AppendUninitialized(b, n) \/ Resize(b, n)
          \/ \E a \in Names : \/ CopyConstruct(b, a) \/ CopyAssign(b, a)
                              \/ MoveConstruct(b, a) \/ MoveAssign(b, a)
          \/ \E pos \in 0..MaxSize - 1 : AppendOwn(b, pos) \/ SwapAndPop(b, pos)
          \/ \E first, last \in 0..MaxSize : Erase(b, first, last)
  BY DEF Next
<1>3. CASE ConstructDefault(b)
  BY <1>3, ConstructDefaultSettles, SettledInv DEF ConstructDefault
<1>4. CASE Destroy(b)
  BY <1>4, DestroyKeeps
<1>5. CASE PopBack(b)
  <2>1. UNCHANGED <<trivial, policy>>
    BY <1>5 DEF PopBack
  <2> QED BY <1>1, <1>5, <2>1, PopBackSettles, SettledInv
<1>6. CASE Clear(b)
  <2>1. UNCHANGED <<trivial, policy>>
    BY <1>6 DEF Clear
  <2> QED BY <1>1, <1>6, <2>1, ClearSettles, SettledInv
<1>7. ASSUME NEW vs \in Lists(MaxSize), ConstructFrom(b, vs) \/ AppendAll(b, vs) PROVE BufferInv'
  <2>1. UNCHANGED <<trivial, policy>>
    BY <1>7 DEF ConstructFrom, AppendAll
  <2> QED BY <1>1, <1>7, <2>1, ConstructFromSettles, AppendAllSettles, SettledInv
<1>8. ASSUME NEW n \in 0..MaxSize,
             ConstructSized(b, n) \/ AppendUninitialized(b, n) \/ Resize(b, n)
      PROVE  BufferInv'
  <2>1. UNCHANGED <<trivial, policy>>
    BY <1>8 DEF ConstructSized, AppendUninitialized, Resize
  <2>2. n \in Nat
    OBVIOUS
  <2>3. CASE ConstructSized(b, n)
    BY <1>1, <2>1, <2>3, ConstructSizedSettles, SettledInv
  <2>4. CASE AppendUninitialized(b, n)
    BY <1>1, <2>1, <2>2, <2>4, AppendUninitializedSettles, SettledInv
  <2>5. CASE Resize(b, n)
    BY <1>1, <2>1, <2>5, ResizeSettles, SettledInv
  <2> QED BY <1>8, <2>3, <2>4, <2>5
<1>9. ASSUME NEW a \in Names, CopyConstruct(b, a) \/ CopyAssign(b, a) PROVE BufferInv'
  <2>1. UNCHANGED <<trivial, policy>>
    BY <1>9 DEF CopyConstruct, CopyAssign
  <2> QED BY <1>1, <1>9, <2>1, CopyConstructSettles, CopyAssignSettles, SettledInv
<1>10. ASSUME NEW a \in Names, MoveConstruct(b, a) \/ MoveAssign(b, a) PROVE BufferInv'
  BY <1>1, <1>10, MoveKeeps
<1>11. ASSUME NEW pos \in 0..MaxSize - 1, AppendOwn(b, pos) \/ SwapAndPop(b, pos) PROVE BufferInv'
  <2>1. UNCHANGED <<trivial, policy>>
    BY <1>11 DEF AppendOwn, SwapAndPop
  <2>2. pos \in Nat
    OBVIOUS
  <2> QED BY <1>1, <1>11, <2>1, <2>2, AppendOwnSettles, SwapAndPopSettles, SettledInv
<1>12. ASSUME NEW first \in 0..MaxSize, NEW last \in 0..MaxSize, Erase(b, first, last)
       PROVE  BufferInv'
  <2>1. UNCHANGED <<trivial, policy>> /\ first \in Nat /\ last \in Nat
    BY <1>12 DEF Erase
  <2>2. PICK ws : Settled(b, ws)
    BY <1>1, <1>12, <2>1, EraseSettles
  <2> QED BY <2>1, <2>2, SettledInv
<1> QED BY <1>2, <1>3, <1>4, <1>5, <1>6, <1>7, <1>8, <1>9, <1>10, <1>11, <1>12

LEMMA InvHolds == ASSUME LifetimesKept PROVE Spec => []BufferInv
<1>1. ASSUME BufferInv, [Next]_vars PROVE BufferInv'
  <2>1. CASE Next
    BY <1>1, <2>1, NextKeeps
  <2>2. CASE UNCHANGED vars
    <3>1. UNCHANGED <<trivial, policy, heap, bufs>>
      BY <2>2 DEF vars
    <3> QED BY <1>1, <3>1
            DEF BufferInv, BufferTypes, Heaps, Buffers, Exists, Owns, Stripped, Holding, Elem,
                Content, Cells, Value, Cell
  <2> QED BY <1>1, <2>1, <2>2
<1> QED BY <1>1, InitHolds, PTL DEF Spec

(* Every buffer and every storage is of the form it has in the code: no     *)
(* size exceeds its capacity (Buffer.hpp, size_ and capacity_).             *)
THEOREM BufferTypeCorrect == ASSUME LifetimesKept PROVE Spec => []TypeOK
<1>1. ASSUME BufferInv PROVE TypeOK
  <2>1. trivial \in BOOLEAN /\ policy \in Policies /\ heap \in Heaps
    BY <1>1 DEF BufferInv, BufferTypes
  <2>2. \A s \in Storages :
            heap[s] = Freed \/ heap[s] \in Seq(Values \union {Raw, Moved, Broken})
    BY <2>1 DEF Heaps, Cell
  <2> QED BY <1>1, <2>1, <2>2, BufferFields DEF TypeOK
<1> QED BY <1>1, InvHolds, PTL

(* Every storage belongs to one buffer, the elements of a buffer and no     *)
(* other cells of its storage are objects, and nothing is constructed,      *)
(* assigned or destroyed that must not be: whatever calls are made on the   *)
(* buffers, for every policy and every T.                                   *)
THEOREM LifetimesCorrect == ASSUME LifetimesKept PROVE Spec => []LifetimesExact
<1>1. ASSUME BufferInv PROVE LifetimesExact
  <2>1. ASSUME NEW s \in Storages
        PROVE  Cardinality(Owners(s)) = IF heap[s] = Freed THEN 0 ELSE 1
    <3>0. Owners(s) = {b \in Names : Owns(b, s)}
      BY DEF Owners, Owns
    <3>1. CASE heap[s] = Freed
      <4>1. \A b \in Names : ~Owns(b, s)
        BY <1>1, <3>1, OwnedStorage, StoragesAreNumbers DEF Owns
      <4>2. Owners(s) = {}
        BY <3>0, <4>1
      <4> QED BY <3>1, <4>2, FS_EmptySet
    <3>2. CASE heap[s] # Freed
      <4>1. PICK b \in Names : Owns(b, s)
        BY <1>1, <3>2 DEF BufferInv
      <4>2. Owners(s) = {b}
        BY <1>1, <3>0, <4>1 DEF BufferInv
      <4> QED BY <3>2, <4>2, FS_Singleton
    <3> QED BY <3>1, <3>2
  <2>2. ASSUME NEW b \in Names, Exists(b), bufs[b].storage # Null
        PROVE  LET cells == Cells(heap, bufs[b])
               IN /\ Len(cells) = bufs[b].capacity
                  /\ \A i \in DOMAIN cells :
                         IF i > bufs[b].size THEN cells[i] = Raw
                         ELSE IF trivial THEN cells[i] # Broken ELSE Live(cells[i])
    <3>1. PICK vs : vs = Content(heap, bufs[b])
      OBVIOUS
    <3>2. /\ Holding(heap, bufs[b], vs) /\ bufs[b].capacity \in Nat /\ trivial \in BOOLEAN
          /\ bufs[b].size \in Nat
      BY <1>1, <2>2, <3>1, BufferFields DEF BufferInv, BufferTypes
    <3>3. vs \in Seq(Elem) /\ bufs[b].size = Len(vs) /\ \A i \in 1..Len(vs) : vs[i] \in Elem
      BY <3>2, SequenceFacts DEF Holding
    <3>4. Cells(heap, bufs[b]) = Padded(vs, bufs[b].capacity)
      BY <2>2, <3>2, HoldingContent
    <3>5. PICK cells : cells = Cells(heap, bufs[b])
      OBVIOUS
    <3>6. /\ Len(cells) = bufs[b].capacity /\ DOMAIN cells = 1..bufs[b].capacity
          /\ \A i \in 1..bufs[b].capacity : cells[i] = IF i <= Len(vs) THEN vs[i] ELSE Raw
      <4>1. PICK n \in Nat : n = bufs[b].capacity
        BY <3>2
      <4>2. PICK p : p = Padded(vs, n)
        OBVIOUS
      <4>3. /\ Len(p) = n /\ DOMAIN p = 1..n
            /\ \A i \in 1..n : p[i] = IF i <= Len(vs) THEN vs[i] ELSE Raw
        <5>1. trivial \in BOOLEAN /\ vs \in Seq(Elem) /\ n \in Nat
          BY <3>2, <3>3, <4>1
        <5>2. /\ Len(Padded(vs, n)) = n /\ DOMAIN Padded(vs, n) = 1..n
              /\ \A i \in 1..n : Padded(vs, n)[i] = IF i <= Len(vs) THEN vs[i] ELSE Raw
          BY ONLY <5>1, PaddedCells
        <5> QED BY <4>2, <5>2
      <4> QED BY <3>4, <3>5, <4>1, <4>2, <4>3
    <3>7. ASSUME NEW i \in DOMAIN cells
          PROVE  IF i > bufs[b].size THEN cells[i] = Raw
                 ELSE IF trivial THEN cells[i] # Broken ELSE Live(cells[i])
      <4>1. CASE i > bufs[b].size
        BY <3>2, <3>3, <3>6, <4>1
      <4>2. CASE ~(i > bufs[b].size)
        <5>1. i \in 1..Len(vs) /\ cells[i] = vs[i]
          BY <3>2, <3>3, <3>6, <4>2
        <5>2. cells[i] \in Elem
          BY <3>3, <5>1
        <5> QED BY <3>2, <4>2, <5>2, ElemSteps
      <4> QED BY <4>1, <4>2
    <3> QED BY <3>5, <3>6, <3>7
  <2> QED BY <2>1, <2>2 DEF LifetimesExact
<1> QED BY <1>1, InvHolds, PTL

-----------------------------------------------------------------------------
(* The lists that are promised, when callers keep all five rules.          *)

ListsKept == {"sized", "swap", "moved", "alias", "range"} \subseteq Discipline

Element == Values \union {Raw}

LEMMA NotLists == NoBuffer \notin Seq(Element) /\ Unspecified \notin Seq(Element)
<1>1. Element \subseteq Values \union {Raw, Moved, Broken}
  BY DEF Element
<1>2. Seq(Element) \subseteq Seq(Values \union {Raw, Moved, Broken})
  BY <1>1, SeqMonotonic
<1> QED BY <1>2

\* A step of the lists: one list changes by itself, ...
LEMMA ListChanges ==
    ASSUME NEW b \in Names, \A c \in Names \ {b} : ListOf(c)' = ListOf(c),
           Promised!ChangedAlone(ListOf(b), ListOf(b)')
    PROVE  Promised!Next
<1> DEFINE lists == [c \in Names |-> ListOf(c)]
<1>1. \A c \in Names : lists[c] = ListOf(c) /\ lists'[c] = ListOf(c)'
  OBVIOUS
<1>2. /\ \A c \in Names \ {b} : lists'[c] = lists[c]
      /\ Promised!ChangedAlone(lists[b], lists'[b])
  BY <1>1
<1> QED BY <1>2 DEF Promised!Next

LEMMA ListCopied ==
    ASSUME NEW b \in Names, NEW a \in Names, \A c \in Names \ {b} : ListOf(c)' = ListOf(c),
           Promised!Copied(ListOf(a), ListOf(b)')
    PROVE  Promised!Next
<1> DEFINE lists == [c \in Names |-> ListOf(c)]
<1>1. \A c \in Names : lists[c] = ListOf(c) /\ lists'[c] = ListOf(c)'
  OBVIOUS
<1>2. /\ \A c \in Names \ {b} : lists'[c] = lists[c]
      /\ Promised!Copied(lists[a], lists'[b])
  BY <1>1
<1> QED BY <1>2 DEF Promised!Next

LEMMA ListMoved ==
    ASSUME NEW b \in Names, NEW a \in Names \ {b}, ListOf(b)' = ListOf(a),
           Promised!LeftBehind(ListOf(a), ListOf(a)'),
           \A c \in Names \ {a, b} : ListOf(c)' = ListOf(c)
    PROVE  Promised!Next
<1> DEFINE lists == [c \in Names |-> ListOf(c)]
<1>1. \A c \in Names : lists[c] = ListOf(c) /\ lists'[c] = ListOf(c)'
  OBVIOUS
<1>2. /\ lists'[b] = lists[a] /\ Promised!LeftBehind(lists[a], lists'[a])
      /\ \A c \in Names \ {a, b} : lists'[c] = lists[c]
  BY <1>1
<1> QED BY <1>2 DEF Promised!Next

LEMMA LongerList ==
    ASSUME NEW s \in Seq(Element), NEW t \in Seq(Element)
    PROVE  Promised!Lengthened(s, s \o t)
<1>1. PICK u : u = s \o t
  OBVIOUS
<1>2. /\ u \in Seq(Element) /\ Len(u) = Len(s) + Len(t)
      /\ \A i \in 1..Len(s) + Len(t) : u[i] = IF i <= Len(s) THEN s[i] ELSE t[i - Len(s)]
  <2>1. /\ s \o t \in Seq(Element) /\ Len(s \o t) = Len(s) + Len(t)
        /\ \A i \in 1..Len(s) + Len(t) :
               (s \o t)[i] = IF i <= Len(s) THEN s[i] ELSE t[i - Len(s)]
    BY ONLY ConcatProperties
  <2> QED BY <1>1, <2>1
<1>3. Len(s) \in Nat /\ Len(t) \in Nat
  BY SequenceFacts
<1>4. SubSeq(s, 1, Len(s)) = SubSeq(u, 1, Len(s)) /\ Len(s) <= Len(u)
  BY <1>2, <1>3, SamePrefix
<1>5. Promised!Lengthened(s, u)
  BY <1>2, <1>4 DEF Promised!Lengthened, Promised!IsPrefix, Element
<1> QED BY <1>1, <1>5

LEMMA ShorterList ==
    ASSUME NEW s \in Seq(Element), NEW k \in 0..Len(s)
    PROVE  SubSeq(s, 1, k) \in Seq(Element) /\ Promised!Shortened(s, SubSeq(s, 1, k))
<1>1. k \in Nat /\ Len(s) \in Nat /\ \A i \in 1..k : s[i] \in Element
  BY SequenceFacts
<1>2. PICK t \in Seq(Element) : t = SubSeq(s, 1, k) /\ Len(t) = k /\ \A i \in 1..k : t[i] = s[i]
  <2>1. /\ SubSeq(s, 1, k) \in Seq(Element) /\ Len(SubSeq(s, 1, k)) = k
        /\ \A i \in 1..k : SubSeq(s, 1, k)[i] = s[i]
    BY <1>1, SubSeqProperties
  <2> QED BY <2>1
<1>3. SubSeq(t, 1, k) = SubSeq(s, 1, k)
  BY <1>1, <1>2, SamePrefix
<1>4. Promised!Shortened(s, t)
  BY <1>1, <1>2, <1>3 DEF Promised!Shortened, Promised!IsPrefix
<1> QED BY <1>2, <1>4

\* What a buffer in use holds is its list.
LEMMA UsableList ==
    ASSUME BufferInv, "moved" \in Discipline, NEW b \in Names, Usable(b)
    PROVE  /\ Content(heap, bufs[b]) \in Seq(Element) /\ ListOf(b) = Content(heap, bufs[b])
           /\ Promised!Holds(ListOf(b))
<1>1. PICK vs \in Seq(Elem) : vs = Content(heap, bufs[b]) /\ \A i \in 1..Len(vs) : vs[i] \in Elem
  BY UsableFacts
<1>2. Exists(b) /\ Moved \notin ToSet(vs) /\ ~IsMovedFrom(b)
  BY <1>1, UsableHolds DEF Usable
<1>3. Len(vs) \in Nat /\ DOMAIN vs = 1..Len(vs)
  BY SequenceFacts
<1>4. \A i \in 1..Len(vs) : vs[i] # Moved
  BY <1>2, <1>3 DEF ToSet
<1>5. \A i \in 1..Len(vs) : vs[i] \in Element
  BY <1>1, <1>4 DEF Elem, Element
<1>6. vs \in Seq(Element)
  <2>1. vs = [i \in 1..Len(vs) |-> vs[i]]
    BY <1>3
  <2>2. vs \in [1..Len(vs) -> Element]
    BY <1>5, <2>1
  <2> QED BY <1>3, <2>2, SequenceOf
<1>7. ListOf(b) = vs
  BY <1>1, <1>2 DEF ListOf
<1>8. vs # NoBuffer /\ vs # Unspecified
  BY <1>6, NotLists
<1> QED BY <1>1, <1>6, <1>7, <1>8 DEF Promised!Holds

LEMMA ListLeftAlone ==
    ASSUME NEW c, bufs'[c] = bufs[c],
           Exists(c) => Content(heap, bufs[c])' = Content(heap, bufs[c])
    PROVE  ListOf(c)' = ListOf(c)
BY DEF ListOf, Exists, IsMovedFrom

LEMMA ListFilled ==
    ASSUME NEW b, NEW vs \in Seq(Element), Exists(b)', Content(heap, bufs[b])' = vs,
           (bufs[b].storage = Null => bufs[b].capacity = 0)'
    PROVE  ListOf(b)' = vs
<1>1. Moved \notin Element
  BY CellsDiffer DEF Element
<1>2. Moved \notin ToSet(vs)
  BY <1>1, SequenceFacts DEF ToSet
<1>3. ~IsMovedFrom(b)'
  BY <1>2 DEF IsMovedFrom
<1> QED BY <1>3 DEF ListOf

LEMMA ListSettled ==
    ASSUME BufferInv, NEW b \in Names, NEW vs \in Seq(Element), Settled(b, vs),
           UNCHANGED <<trivial, policy>>
    PROVE  ListOf(b)' = vs /\ \A c \in Names \ {b} : ListOf(c)' = ListOf(c)
<1>1. /\ Exists(b)' /\ Content(heap, bufs[b])' = vs /\ Holding(heap, bufs[b], vs)'
      /\ \A c \in Names \ {b} : /\ bufs'[c] = bufs[c]
                                /\ Exists(c) => Content(heap, bufs[c])' = Content(heap, bufs[c])
  BY SettledInv
<1>2. (bufs[b].storage = Null => bufs[b].capacity = 0)'
  BY <1>1 DEF Holding
<1> QED BY <1>1, <1>2, ListFilled, ListLeftAlone

\* A call that settles a buffer, told by what becomes of its list.
LEMMA SettledStep ==
    ASSUME BufferInv, NEW b \in Names, NEW vs \in Seq(Element), Settled(b, vs),
           UNCHANGED <<trivial, policy>>, Promised!ChangedAlone(ListOf(b), vs)
    PROVE  Promised!Next
<1>1. ListOf(b)' = vs /\ \A c \in Names \ {b} : ListOf(c)' = ListOf(c)
  BY ListSettled
<1>2. Promised!ChangedAlone(ListOf(b), ListOf(b)')
  BY <1>1
<1> QED BY <1>1, <1>2, ListChanges

LEMMA CreatedStep ==
    ASSUME BufferInv, NEW b \in Names, ~Exists(b), NEW vs \in Seq(Element), Settled(b, vs),
           UNCHANGED <<trivial, policy>>
    PROVE  Promised!Next
<1>1. Promised!ChangedAlone(ListOf(b), vs)
  BY DEF ListOf, Promised!ChangedAlone, Promised!Created, Element
<1> QED BY <1>1, SettledStep

LEMMA InUseStep ==
    ASSUME BufferInv, "moved" \in Discipline, NEW b \in Names, Usable(b),
           NEW vs \in Seq(Element), Settled(b, vs), UNCHANGED <<trivial, policy>>,
           \/ Promised!Lengthened(Content(heap, bufs[b]), vs)
           \/ Promised!Shortened(Content(heap, bufs[b]), vs)
           \/ Promised!Erased(Content(heap, bufs[b]), vs)
           \/ Promised!SwappedAndPopped(Content(heap, bufs[b]), vs)
    PROVE  Promised!Next
<1>1. Promised!Holds(ListOf(b)) /\ Promised!Holds(vs) /\ ListOf(b) = Content(heap, bufs[b])
  BY UsableList, NotLists DEF Promised!Holds
<1>2. Promised!ChangedAlone(ListOf(b), vs)
  BY <1>1 DEF Promised!ChangedAlone
<1> QED BY <1>2, SettledStep

LEMMA ElementSequences ==
    ASSUME NEW n \in Nat
    PROVE  /\ Seq(Values) \subseteq Seq(Element) /\ RawCells(n) \in Seq(Element)
           /\ Added(n) \in Seq(Element) /\ <<>> \in Seq(Element)
<1>1. Values \subseteq Element /\ Raw \in Element /\ Default \in Element
  BY DEF Element
<1>2. Seq(Values) \subseteq Seq(Element)
  BY <1>1, SeqMonotonic
<1>3. RawCells(n) \in Seq(Element)
  <2>1. RawCells(n) \in [1..n -> Element]
    BY <1>1 DEF RawCells
  <2> QED BY <2>1, SequenceOf
<1>4. Fill(n, Default) \in Seq(Element)
  BY <1>1, FillSequence
<1> QED BY <1>2, <1>3, <1>4, EmptySeq DEF Added

LEMMA ErasedList ==
    ASSUME NEW S, NEW l \in Seq(S), NEW first \in 0..Len(l), NEW last \in first..Len(l), first < last
    PROVE  LET m == SubSeq(l, 1, first) \o SubSeq(l, last + 1, Len(l))
           IN m \in Seq(S) /\ Promised!Erased(l, m)
<1>1. Len(l) \in Nat /\ \A i \in 1..Len(l) : l[i] \in S
  BY SequenceFacts
<1>2. PICK s \in Seq(S) : s = SubSeq(l, 1, first) /\ Len(s) = first
  <2>1. SubSeq(l, 1, first) \in Seq(S) /\ Len(SubSeq(l, 1, first)) = first
    BY <1>1, SubSeqProperties
  <2> QED BY <2>1
<1>3. PICK t \in Seq(S) : t = SubSeq(l, last + 1, Len(l)) /\ Len(t) = Len(l) - last
  <2>1. last + 1 \in Int /\ Len(l) \in Int /\ \A i \in last + 1 .. Len(l) : l[i] \in S
    BY <1>1
  <2>2. /\ SubSeq(l, last + 1, Len(l)) \in Seq(S)
        /\ Len(SubSeq(l, last + 1, Len(l)))
               = IF last + 1 <= Len(l) THEN Len(l) - (last + 1) + 1 ELSE 0
    BY <2>1, SubSeqProperties
  <2>3. Len(SubSeq(l, last + 1, Len(l))) = Len(l) - last
    BY <1>1, <2>2
  <2> QED BY <2>2, <2>3
<1>4. PICK m \in Seq(S) : m = s \o t /\ Len(m) = Len(s) + Len(t)
  <2>1. s \in Seq(S) /\ t \in Seq(S)
    BY <1>2, <1>3
  <2>2. s \o t \in Seq(S) /\ Len(s \o t) = Len(s) + Len(t)
    BY ONLY <2>1, ConcatProperties
  <2> QED BY <2>2
<1>5. PICK n \in Nat : n = Len(l) - Len(m) /\ n = last - first /\ n > 0
  <2>1. Len(m) = first + (Len(l) - last)
    BY <1>2, <1>3, <1>4
  <2> QED BY <1>1, <2>1
<1>6. first \in 0..Len(m) /\ first + n + 1 = last + 1
  <2>1. Len(s) = first /\ Len(t) = Len(l) - last /\ Len(m) = Len(s) + Len(t)
    BY <1>2, <1>3, <1>4
  <2>2. Len(m) = first + (Len(l) - last)
    BY <2>1
  <2>3. last \in Nat /\ last <= Len(l) /\ first \in Nat
    BY <1>1
  <2>4. first \in 0..Len(m)
    BY <1>1, <2>2, <2>3
  <2>5. first + n + 1 = last + 1
    BY <1>1, <1>5, <2>3
  <2> QED BY <2>4, <2>5
<1>7. m = SubSeq(l, 1, first) \o SubSeq(l, first + n + 1, Len(l))
  BY <1>2, <1>3, <1>4, <1>6
<1>8. Promised!Erased(l, m)
  BY <1>5, <1>6, <1>7, Zenon DEF Promised!Erased
<1> QED BY <1>2, <1>3, <1>4, <1>8

LEMMA SwappedOutPromise ==
    ASSUME NEW S, NEW l \in Seq(S), NEW pos \in Nat, pos < Len(l)
    PROVE  SwappedOutList(l, pos) \in Seq(S) /\ Promised!SwappedAndPopped(l, SwappedOutList(l, pos))
<1>1. Len(l) \in Nat \ {0} /\ DOMAIN l = 1..Len(l) /\ \A i \in 1..Len(l) : l[i] \in S
  BY SequenceFacts
<1>2. PICK n \in Nat : n = Len(l) - 1
  <2>1. Len(l) - 1 \in Nat
    BY <1>1
  <2> QED BY <2>1
<1>3. PICK p \in 1..Len(l) : p = pos + 1
  <2>1. pos + 1 \in 1..Len(l)
    BY <1>1
  <2> QED BY <2>1
<1>4. PICK x \in S : x = l[Len(l)]
  BY <1>1
<1>5. PICK k : k = [l EXCEPT ![p] = x]
  OBVIOUS
<1>6. \A i \in 1..Len(l) : k[i] = (IF i = p THEN x ELSE l[i]) /\ k[i] \in S
  BY <1>1, <1>5
<1>7. k \in Seq(S) /\ Len(k) = Len(l)
  <2>1. k \in [1..Len(l) -> S]
    BY <1>1, <1>5
  <2> QED BY <1>1, <2>1, SequenceOf
<1>8. PICK m : m = SwappedOutList(l, pos)
  OBVIOUS
<1>9. m \in [1..n -> S] /\ \A i \in 1..n : m[i] = k[i]
  <2>1. m = [i \in 1..n |-> IF i = p THEN x ELSE l[i]]
    BY <1>2, <1>3, <1>4, <1>8 DEF SwappedOutList
  <2>2. \A i \in 1..n : i \in 1..Len(l)
    BY <1>1, <1>2
  <2> QED BY <1>6, <2>1, <2>2
<1>10. m \in Seq(S) /\ Len(m) = n
  BY <1>9, SequenceOf
<1>11. PICK f \in Seq(S) : f = SubSeq(k, 1, n) /\ Len(f) = n /\ \A i \in 1..n : f[i] = k[i]
  <2>1. \A i \in 1..n : k[i] \in S
    BY <1>1, <1>2, <1>6
  <2>2. /\ SubSeq(k, 1, n) \in Seq(S) /\ Len(SubSeq(k, 1, n)) = n
        /\ \A i \in 1..n : SubSeq(k, 1, n)[i] = k[i]
    BY <2>1, SubSeqProperties
  <2> QED BY <2>2
<1>12. m = f
  BY <1>9, <1>10, <1>11, SeqEqual
<1>13. Promised!Front(k) = f
  BY <1>2, <1>7, <1>11 DEF Promised!Front
<1>14. Promised!Last(l) = x
  BY <1>4 DEF Promised!Last
<1>15. m = Promised!Front([l EXCEPT ![p] = Promised!Last(l)])
  BY <1>5, <1>12, <1>13, <1>14
<1>16. Promised!SwappedAndPopped(l, m)
  BY <1>2, <1>10, <1>15 DEF Promised!SwappedAndPopped
<1> QED BY <1>8, <1>10, <1>16

\* What a move leaves in its source, and that its target has the list.
LEMMA StolenStep ==
    ASSUME BufferInv, "moved" \in Discipline, trivial, UNCHANGED <<trivial, policy>>,
           NEW b \in Names, NEW a \in Names \ {b}, Usable(a), Cleared(b, heap'),
           bufs' = [bufs EXCEPT ![b] = bufs[a], ![a] = Stolen(a)]
    PROVE  Promised!Next
<1>1. /\ bufs'[b] = bufs[a] /\ bufs'[a] = Stolen(a)
      /\ Content(heap, bufs[b])' = Content(heap, bufs[a])
      /\ \A c \in Names \ {a, b} :
             /\ bufs'[c] = bufs[c]
             /\ Exists(c) => Content(heap, bufs[c])' = Content(heap, bufs[c])
  BY StolenKeeps
<1>2. PICK vs \in Seq(Element) : vs = Content(heap, bufs[a]) /\ ListOf(a) = vs
  BY UsableList
<1>3. /\ Exists(a) /\ bufs[a] \in Buffers /\ bufs[a].size = Len(vs) /\ Len(vs) \in Nat
      /\ Len(vs) <= bufs[a].capacity /\ bufs[a].capacity \in Nat
      /\ bufs[a].storage = Null => bufs[a].capacity = 0
  BY <1>2, UsableHolds, SequenceFacts DEF Holding, Buffers
<1>4. ListOf(b)' = vs
  <2>1. Exists(b)' /\ Content(heap, bufs[b])' = vs
    BY <1>1, <1>2, <1>3 DEF Exists
  <2>2. (bufs[b].storage = Null => bufs[b].capacity = 0)'
    BY <1>1, <1>3
  <2> QED BY <2>1, <2>2, ListFilled
<1>5. /\ Stolen(a) \in Buffers /\ Stolen(a).storage = Null
      /\ Stolen(a).size = bufs[a].size /\ Stolen(a).capacity = bufs[a].capacity
  BY <1>3 DEF Stolen, Buffers
<1>6. Exists(a)'
  BY <1>1, <1>5, BuffersExist DEF Exists
<1>7. Promised!LeftBehind(ListOf(a), ListOf(a)')
  <2>1. CASE bufs[a].capacity > 0
    <3>1. IsMovedFrom(a)'
      BY <1>1, <1>5, <2>1 DEF IsMovedFrom
    <3> QED BY <1>6, <3>1 DEF ListOf, Promised!LeftBehind
  <2>2. CASE bufs[a].capacity = 0
    <3>1. bufs[a].size = 0 /\ vs = <<>>
      BY <1>3, <2>2, EmptySeq
    <3>2. Content(heap, bufs[a])' = <<>>
      <4>1. bufs'[a].size = 0
        BY <1>1, <1>5, <3>1
      <4>2. Content(heap, bufs[a])' =
                [i \in 1..0 |-> IF i \in DOMAIN Cells(heap, bufs[a])'
                                THEN Value(Cells(heap, bufs[a])[i])' ELSE Broken]
        BY <4>1, Zenon DEF Content
      <4> QED BY <4>2
    <3>3. (bufs[a].storage = Null => bufs[a].capacity = 0)'
      BY <1>1, <1>5, <2>2
    <3>4. ListOf(a)' = <<>>
      BY <1>2, <1>6, <3>1, <3>2, <3>3, ListFilled
    <3> QED BY <1>2, <3>1, <3>4 DEF Promised!LeftBehind
  <2> QED BY <1>3, <2>1, <2>2
<1>8. \A c \in Names \ {a, b} : ListOf(c)' = ListOf(c)
  BY <1>1, ListLeftAlone
<1>9. ListOf(b)' = ListOf(a)
  BY <1>2, <1>4
<1> QED BY <1>7, <1>8, <1>9, ListMoved

LEMMA MovedOutStep ==
    ASSUME BufferInv, "moved" \in Discipline, ~trivial, UNCHANGED <<trivial, policy>>,
           NEW b \in Names, NEW a \in Names \ {b}, Usable(a), NEW h, Cleared(b, h),
           MovedInto(h, b, a)
    PROVE  Promised!Next
<1>1. /\ Exists(b)' /\ bufs'[a] = bufs[a]
      /\ Holding(heap, bufs[b], Content(heap, bufs[b]))'
      /\ Content(heap, bufs[b])' = Content(heap, bufs[a])
      /\ Content(heap, bufs[a])' = MovedOutFrom(Content(heap, bufs[a]), 0)
      /\ \A c \in Names \ {a, b} :
             /\ bufs'[c] = bufs[c]
             /\ Exists(c) => Content(heap, bufs[c])' = Content(heap, bufs[c])
  BY MovedOutKeeps
<1>2. PICK vs \in Seq(Element) : vs = Content(heap, bufs[a]) /\ ListOf(a) = vs
  BY UsableList
<1>3. /\ Exists(a) /\ vs \in Seq(Elem) /\ Len(vs) \in Nat
      /\ \A i \in 1..Len(vs) : vs[i] \in Elem
      /\ bufs[a].storage = Null => bufs[a].capacity = 0
  BY <1>2, UsableHolds, SequenceFacts DEF Holding
<1>4. ListOf(b)' = vs
  <2>1. Content(heap, bufs[b])' = vs
    BY <1>1, <1>2
  <2>2. (bufs[b].storage = Null => bufs[b].capacity = 0)'
    BY <1>1 DEF Holding
  <2> QED BY <1>1, <2>1, <2>2, ListFilled
<1>5. Exists(a)' /\ Content(heap, bufs[a])' = MovedOutFrom(vs, 0)
  BY <1>1, <1>2, <1>3 DEF Exists
<1>6. Promised!LeftBehind(ListOf(a), ListOf(a)')
  <2>1. CASE Len(vs) > 0
    <3>1. 1 \in 1..Len(vs) /\ MovedFrom(vs[1]) = Moved
      BY <1>3, <2>1, ElemSteps DEF BufferInv, BufferTypes
    <3>2. PICK ws : ws = MovedOutFrom(vs, 0)
      OBVIOUS
    <3>3. 1 \in DOMAIN ws /\ ws[1] = Moved
      BY <3>1, <3>2 DEF MovedOutFrom
    <3>4. Moved \in ToSet(ws)
      BY <3>3 DEF ToSet
    <3>5. IsMovedFrom(a)'
      BY <1>5, <3>2, <3>4 DEF IsMovedFrom
    <3> QED BY <1>5, <3>5 DEF ListOf, Promised!LeftBehind
  <2>2. CASE Len(vs) = 0
    <3>1. vs = <<>>
      BY <2>2, EmptySeq
    <3>2. MovedOutFrom(vs, 0) = <<>>
      BY <2>2 DEF MovedOutFrom
    <3>3. (bufs[a].storage = Null => bufs[a].capacity = 0)'
      BY <1>1, <1>3
    <3>4. ListOf(a)' = vs
      BY <1>5, <3>1, <3>2, <3>3, ListFilled
    <3> QED BY <1>2, <3>1, <3>4 DEF Promised!LeftBehind
  <2> QED BY <1>3, <2>1, <2>2
<1>7. \A c \in Names \ {a, b} : ListOf(c)' = ListOf(c)
  BY <1>1, ListLeftAlone
<1>8. ListOf(b)' = ListOf(a)
  BY <1>2, <1>4
<1> QED BY <1>6, <1>7, <1>8, ListMoved

LEMMA MoveStep ==
    ASSUME BufferInv, "moved" \in Discipline, NEW b \in Names, NEW a \in Names,
           MoveConstruct(b, a) \/ MoveAssign(b, a)
    PROVE  Promised!Next
<1>1. a \in Names \ {b} /\ Usable(a) /\ UNCHANGED <<trivial, policy>>
  BY MoveKeeps
<1>2. PICK h : Cleared(b, h) /\ MovedInto(h, b, a)
  BY MoveKeeps
<1>3. CASE trivial
  <2>1. heap' = h /\ bufs' = [bufs EXCEPT ![b] = bufs[a], ![a] = Stolen(a)]
    BY <1>2, <1>3 DEF MovedInto
  <2> QED BY <1>1, <1>2, <1>3, <2>1, StolenStep
<1>4. CASE ~trivial
  BY <1>1, <1>2, <1>4, MovedOutStep
<1> QED BY <1>3, <1>4

LEMMA DestroyStep ==
    ASSUME BufferInv, NEW b \in Names, Destroy(b)
    PROVE  Promised!Next
<1>1. /\ Exists(b) /\ ~Exists(b)'
      /\ \A c \in Names \ {b} :
             /\ bufs'[c] = bufs[c]
             /\ Exists(c) => Content(heap, bufs[c])' = Content(heap, bufs[c])
  BY DestroyKeeps
<1>2. ListOf(b)' = NoBuffer
  BY <1>1 DEF ListOf
<1>3. ListOf(b) # NoBuffer
  <2>1. CASE IsMovedFrom(b)
    BY <1>1, <2>1 DEF ListOf
  <2>2. CASE ~IsMovedFrom(b)
    <3>1. Content(heap, bufs[b]) \in Seq(Cell)
      <4>1. Content(heap, bufs[b]) \in Seq(Elem) \/ Stripped(bufs[b])
        BY <1>1 DEF BufferInv, Holding
      <4>2. trivial \in BOOLEAN
        BY DEF BufferInv, BufferTypes
      <4>3. CASE Content(heap, bufs[b]) \in Seq(Elem)
        BY <4>2, <4>3, ElemSteps, SeqMonotonic
      <4>4. CASE Stripped(bufs[b])
        <5>1. bufs[b].size = 0
          BY <1>1, <2>2, <4>4, BufferFields DEF Stripped, IsMovedFrom
        <5>2. Content(heap, bufs[b]) = <<>>
          BY <5>1 DEF Content
        <5> QED BY <5>2, EmptySeq
      <4> QED BY <4>1, <4>3, <4>4
    <3> QED BY <1>1, <2>2, <3>1 DEF ListOf, Cell
  <2> QED BY <2>1, <2>2
<1>4. Promised!ChangedAlone(ListOf(b), ListOf(b)')
  BY <1>2, <1>3 DEF Promised!ChangedAlone, Promised!Dropped
<1> QED BY <1>1, <1>4, ListLeftAlone, ListChanges

\* Every other call settles the buffer it is made on.
LEMMA ConstructStep ==
    ASSUME BufferInv, "sized" \in Discipline, NEW b \in Names,
           \/ ConstructDefault(b)
           \/ \E vs \in Lists(MaxSize) : ConstructFrom(b, vs)
           \/ \E n \in 0..MaxSize : ConstructSized(b, n)
    PROVE  Promised!Next
<1>1. CASE ConstructDefault(b)
  <2>1. ~Exists(b) /\ Settled(b, <<>>) /\ UNCHANGED <<trivial, policy>>
    BY <1>1, ConstructDefaultSettles DEF ConstructDefault
  <2>2. <<>> \in Seq(Element)
    BY EmptySeq
  <2> QED BY <2>1, <2>2, CreatedStep
<1>2. ASSUME NEW vs \in Lists(MaxSize), ConstructFrom(b, vs) PROVE Promised!Next
  <2>1. ~Exists(b) /\ vs \in Seq(Values) /\ Settled(b, vs) /\ UNCHANGED <<trivial, policy>>
    BY <1>2, ConstructFromSettles DEF ConstructFrom
  <2>2. vs \in Seq(Element)
    BY <2>1, ElementSequences
  <2> QED BY <2>1, <2>2, CreatedStep
<1>3. ASSUME NEW n \in 0..MaxSize, ConstructSized(b, n) PROVE Promised!Next
  <2>1. ~Exists(b) /\ Settled(b, RawCells(n)) /\ UNCHANGED <<trivial, policy>>
    BY <1>3, ConstructSizedSettles DEF ConstructSized
  <2>2. n \in Nat
    OBVIOUS
  <2>3. RawCells(n) \in Seq(Element)
    BY <2>2, ElementSequences
  <2> QED BY <2>1, <2>3, CreatedStep
<1> QED BY <1>1, <1>2, <1>3

LEMMA CopyStep ==
    ASSUME BufferInv, "moved" \in Discipline, NEW b \in Names, NEW a \in Names,
           CopyConstruct(b, a) \/ CopyAssign(b, a)
    PROVE  Promised!Next
<1>1. /\ Usable(a) /\ Settled(b, Content(heap, bufs[a])) /\ UNCHANGED <<trivial, policy>>
  BY CopyConstructSettles, CopyAssignSettles DEF CopyConstruct, CopyAssign
<1>2. PICK vs \in Seq(Element) : /\ vs = Content(heap, bufs[a]) /\ ListOf(a) = vs
                                 /\ Promised!Holds(ListOf(a))
  BY <1>1, UsableList
<1>3. ListOf(b)' = vs /\ \A c \in Names \ {b} : ListOf(c)' = ListOf(c)
  BY <1>1, <1>2, ListSettled
<1>4. Promised!Copied(ListOf(a), ListOf(b)')
  BY <1>2, <1>3 DEF Promised!Copied
<1> QED BY <1>3, <1>4, ListCopied

LEMMA LongerStep ==
    ASSUME BufferInv, "moved" \in Discipline, NEW b \in Names, Usable(b),
           NEW added \in Seq(Element), Settled(b, Content(heap, bufs[b]) \o added),
           UNCHANGED <<trivial, policy>>
    PROVE  Promised!Next
<1>1. PICK vs \in Seq(Element) : vs = Content(heap, bufs[b])
  BY UsableList
<1>2. Promised!Lengthened(vs, vs \o added)
  BY LongerList
<1>3. PICK ws : ws = vs \o added
  OBVIOUS
<1>4. ws \in Seq(Element) /\ Promised!Lengthened(vs, ws)
  BY <1>2, <1>3 DEF Promised!Lengthened, Element
<1>5. Settled(b, ws)
  BY <1>1, <1>3
<1> QED BY <1>1, <1>4, <1>5, InUseStep

LEMMA ShorterStep ==
    ASSUME BufferInv, "moved" \in Discipline, NEW b \in Names, Usable(b),
           NEW k \in 0..Len(Content(heap, bufs[b])), Settled(b, SubSeq(Content(heap, bufs[b]), 1, k)),
           UNCHANGED <<trivial, policy>>
    PROVE  Promised!Next
<1>1. PICK vs \in Seq(Element) : vs = Content(heap, bufs[b])
  BY UsableList
<1>2. k \in 0..Len(vs)
  BY <1>1
<1>3. SubSeq(vs, 1, k) \in Seq(Element) /\ Promised!Shortened(vs, SubSeq(vs, 1, k))
  BY <1>2, ShorterList
<1>4. Settled(b, SubSeq(vs, 1, k))
  BY <1>1
<1> QED BY <1>1, <1>3, <1>4, InUseStep

LEMMA AppendStep ==
    ASSUME BufferInv, {"moved", "alias"} \subseteq Discipline, NEW b \in Names,
           \/ \E vs \in Lists(MaxSize) : AppendAll(b, vs)
           \/ \E pos \in 0..MaxSize - 1 : AppendOwn(b, pos)
           \/ \E n \in 0..MaxSize : AppendUninitialized(b, n)
    PROVE  Promised!Next
<1>1. ASSUME NEW vs \in Lists(MaxSize), AppendAll(b, vs) PROVE Promised!Next
  <2>1. /\ Usable(b) /\ vs \in Seq(Values) /\ Settled(b, Content(heap, bufs[b]) \o vs)
        /\ UNCHANGED <<trivial, policy>>
    BY <1>1, AppendAllSettles DEF AppendAll
  <2>2. vs \in Seq(Element)
    BY <2>1, ElementSequences
  <2> QED BY <2>1, <2>2, LongerStep
<1>2. ASSUME NEW pos \in 0..MaxSize - 1, AppendOwn(b, pos) PROVE Promised!Next
  <2>1. pos \in Nat /\ UNCHANGED <<trivial, policy>>
    BY <1>2 DEF AppendOwn
  <2>2. /\ Usable(b) /\ pos + 1 \in 1..Len(Content(heap, bufs[b]))
        /\ Settled(b, Content(heap, bufs[b]) \o <<Content(heap, bufs[b])[pos + 1]>>)
    BY <1>2, <2>1, AppendOwnSettles
  <2>3. PICK vs \in Seq(Element) : vs = Content(heap, bufs[b])
    BY <2>2, UsableList
  <2>4. vs[pos + 1] \in Element
    BY <2>2, <2>3, SequenceFacts
  <2>5. PICK ws \in Seq(Element) : ws = <<vs[pos + 1]>>
    <3>1. PICK v \in Element : v = vs[pos + 1]
      BY <2>4
    <3>2. <<v>> \in Seq(Element)
      OBVIOUS
    <3> QED BY <3>1, <3>2
  <2>6. Settled(b, Content(heap, bufs[b]) \o ws)
    BY <2>2, <2>3, <2>5
  <2> QED BY <2>1, <2>2, <2>6, LongerStep
<1>3. ASSUME NEW n \in 0..MaxSize, AppendUninitialized(b, n) PROVE Promised!Next
  <2>1. n \in Nat /\ UNCHANGED <<trivial, policy>>
    BY <1>3 DEF AppendUninitialized
  <2>2. Usable(b) /\ Settled(b, Content(heap, bufs[b]) \o RawCells(n))
    BY <1>3, <2>1, AppendUninitializedSettles
  <2>3. RawCells(n) \in Seq(Element)
    BY <2>1, ElementSequences
  <2> QED BY <2>1, <2>2, <2>3, LongerStep
<1> QED BY <1>1, <1>2, <1>3

LEMMA ShrinkStep ==
    ASSUME BufferInv, "moved" \in Discipline, NEW b \in Names,
           PopBack(b) \/ Clear(b) \/ \E n \in 0..MaxSize : Resize(b, n)
    PROVE  Promised!Next
<1>1. CASE PopBack(b)
  <2>1. UNCHANGED <<trivial, policy>>
    BY <1>1 DEF PopBack
  <2>2. PICK vs : vs = Content(heap, bufs[b])
    OBVIOUS
  <2>3. Usable(b) /\ Len(vs) \in Nat \ {0} /\ Settled(b, SubSeq(vs, 1, Len(vs) - 1))
    BY <1>1, <2>2, PopBackSettles
  <2>4. PICK k \in 0..Len(vs) : k = Len(vs) - 1
    <3>1. Len(vs) - 1 \in 0..Len(vs)
      BY <2>3
    <3> QED BY <3>1
  <2>5. k \in 0..Len(Content(heap, bufs[b])) /\ Settled(b, SubSeq(Content(heap, bufs[b]), 1, k))
    BY <2>2, <2>3, <2>4
  <2> QED BY <2>1, <2>3, <2>5, ShorterStep
<1>2. CASE Clear(b)
  <2>1. UNCHANGED <<trivial, policy>>
    BY <1>2 DEF Clear
  <2>2. Usable(b) /\ Settled(b, SubSeq(Content(heap, bufs[b]), 1, 0))
    BY <1>2, ClearSettles
  <2>3. 0 \in 0..Len(Content(heap, bufs[b]))
    BY <2>2, UsableFacts
  <2> QED BY <2>1, <2>2, <2>3, ShorterStep
<1>3. ASSUME NEW n \in 0..MaxSize, Resize(b, n) PROVE Promised!Next
  <2>1. UNCHANGED <<trivial, policy>>
    BY <1>3 DEF Resize
  <2>2. PICK vs : vs = Content(heap, bufs[b])
    OBVIOUS
  <2>3. /\ Usable(b) /\ Len(vs) \in Nat
        /\ \/ n < Len(vs) /\ Settled(b, SubSeq(vs, 1, n))
           \/ n >= Len(vs) /\ Settled(b, vs \o Added(n - Len(vs)))
    BY <1>3, <2>2, ResizeSettles
  <2>4. CASE n < Len(vs) /\ Settled(b, SubSeq(vs, 1, n))
    <3>1. n \in 0..Len(Content(heap, bufs[b]))
      BY <2>2, <2>3, <2>4
    <3>2. Settled(b, SubSeq(Content(heap, bufs[b]), 1, n))
      BY <2>2, <2>4
    <3> QED BY <2>1, <2>3, <3>1, <3>2, ShorterStep
  <2>5. CASE n >= Len(vs) /\ Settled(b, vs \o Added(n - Len(vs)))
    <3>1. n - Len(vs) \in Nat
      BY <2>3, <2>5
    <3>2. PICK added \in Seq(Element) : added = Added(n - Len(vs))
      BY <3>1, ElementSequences
    <3>3. Settled(b, Content(heap, bufs[b]) \o added)
      BY <2>2, <2>5, <3>2
    <3> QED BY <2>1, <2>3, <3>3, LongerStep
  <2> QED BY <2>3, <2>4, <2>5
<1> QED BY <1>1, <1>2, <1>3

LEMMA RemoveStep ==
    ASSUME BufferInv, {"moved", "swap", "range"} \subseteq Discipline, NEW b \in Names,
           \/ \E pos \in 0..MaxSize - 1 : SwapAndPop(b, pos)
           \/ \E first, last \in 0..MaxSize : Erase(b, first, last)
    PROVE  Promised!Next
<1>1. ASSUME NEW pos \in 0..MaxSize - 1, SwapAndPop(b, pos) PROVE Promised!Next
  <2>1. pos \in Nat /\ UNCHANGED <<trivial, policy>>
    BY <1>1 DEF SwapAndPop
  <2>2. PICK vs : vs = Content(heap, bufs[b])
    OBVIOUS
  <2>3. Usable(b) /\ pos < Len(vs) /\ Settled(b, SwappedOutList(vs, pos))
    BY <1>1, <2>1, <2>2, SwapAndPopSettles
  <2>4. vs \in Seq(Element)
    BY <2>2, <2>3, UsableList
  <2>5. /\ SwappedOutList(vs, pos) \in Seq(Element)
        /\ Promised!SwappedAndPopped(vs, SwappedOutList(vs, pos))
    BY <2>1, <2>3, <2>4, SwappedOutPromise
  <2> QED BY <2>1, <2>2, <2>3, <2>5, InUseStep
<1>2. ASSUME NEW first \in 0..MaxSize, NEW last \in 0..MaxSize, Erase(b, first, last)
      PROVE  Promised!Next
  <2>1. first \in Nat /\ last \in Nat /\ UNCHANGED <<trivial, policy>>
    BY <1>2 DEF Erase
  <2>2. PICK vs : vs = Content(heap, bufs[b])
    OBVIOUS
  <2>3. /\ Usable(b) /\ Len(vs) \in Nat /\ first < Len(vs) /\ last \in first..Len(vs)
        /\ first < last
        /\ \E ws : /\ Settled(b, ws)
                   /\ ws = SubSeq(vs, 1, first) \o SubSeq(vs, last + 1, Len(vs))
    BY <1>2, <2>1, <2>2, EraseSettles
  <2>4. PICK ws : /\ Settled(b, ws)
                  /\ ws = SubSeq(vs, 1, first) \o SubSeq(vs, last + 1, Len(vs))
    BY <2>3
  <2>5. vs \in Seq(Element) /\ first \in 0..Len(vs) /\ last \in first..Len(vs) /\ first < last
    BY <2>1, <2>2, <2>3, UsableList
  <2>6. LET m == SubSeq(vs, 1, first) \o SubSeq(vs, last + 1, Len(vs))
        IN m \in Seq(Element) /\ Promised!Erased(vs, m)
    BY ONLY <2>5, ErasedList
  <2>7. ws \in Seq(Element) /\ Promised!Erased(vs, ws)
    BY <2>4, <2>6
  <2> QED BY <2>1, <2>2, <2>3, <2>4, <2>7, InUseStep
<1> QED BY <1>1, <1>2

LEMMA NextStep == ASSUME ListsKept, BufferInv, Next PROVE Promised!Next
<1>1. {"sized", "swap", "moved", "alias", "range"} \subseteq Discipline
  BY DEF ListsKept
<1>2. /\ "sized" \in Discipline /\ "moved" \in Discipline
      /\ {"moved", "alias"} \subseteq Discipline
      /\ {"moved", "swap", "range"} \subseteq Discipline
  BY <1>1
<1>3. PICK b \in Names :
          \/ ConstructDefault(b) \/ Destroy(b) \/ PopBack(b) \/ Clear(b)
          \/ \E vs \in Lists(MaxSize) : ConstructFrom(b, vs) \/ AppendAll(b, vs)
          \/ \E n \in 0..MaxSize : ConstructSized(b, n) \/ AppendUninitialized(b, n) \/ Resize(b, n)
          \/ \E a \in Names : \/ CopyConstruct(b, a) \/ CopyAssign(b, a)
                              \/ MoveConstruct(b, a) \/ MoveAssign(b, a)
          \/ \E pos \in 0..MaxSize - 1 : AppendOwn(b, pos) \/ SwapAndPop(b, pos)
          \/ \E first, last \in 0..MaxSize : Erase(b, first, last)
  BY DEF Next
<1>4. CASE Destroy(b)
  BY <1>4, DestroyStep
<1>5. CASE \/ ConstructDefault(b)
           \/ \E vs \in Lists(MaxSize) : ConstructFrom(b, vs)
           \/ \E n \in 0..MaxSize : ConstructSized(b, n)
  BY <1>2, <1>5, ConstructStep
<1>6. CASE \/ \E vs \in Lists(MaxSize) : AppendAll(b, vs)
           \/ \E pos \in 0..MaxSize - 1 : AppendOwn(b, pos)
           \/ \E n \in 0..MaxSize : AppendUninitialized(b, n)
  BY <1>2, <1>6, AppendStep
<1>7. CASE PopBack(b) \/ Clear(b) \/ \E n \in 0..MaxSize : Resize(b, n)
  BY <1>2, <1>7, ShrinkStep
<1>8. CASE \/ \E pos \in 0..MaxSize - 1 : SwapAndPop(b, pos)
           \/ \E first, last \in 0..MaxSize : Erase(b, first, last)
  BY <1>2, <1>8, RemoveStep
<1>9. ASSUME NEW a \in Names, CopyConstruct(b, a) \/ CopyAssign(b, a) PROVE Promised!Next
  BY <1>2, <1>9, CopyStep
<1>10. ASSUME NEW a \in Names, MoveConstruct(b, a) \/ MoveAssign(b, a) PROVE Promised!Next
  BY <1>2, <1>10, MoveStep
<1> QED BY <1>3, <1>4, <1>5, <1>6, <1>7, <1>8, <1>9, <1>10

(* Every buffer behaves as a list: each call changes the list of its buffer *)
(* as it says and that of no other, whatever happens to the storage; a copy *)
(* has the list of its source and a move takes it.  Where callers break a   *)
(* rule, the lists are not what the calls say.                              *)
THEOREM ImplementsListsCorrect == ASSUME ListsKept PROVE Spec => ImplementsLists
<1>1. LifetimesKept
  BY DEF ListsKept, LifetimesKept
<1>2. Init => Promised!Init
  BY DEF Init, Promised!Init, ListOf, Exists
<1>3. ASSUME BufferInv, [Next]_vars
      PROVE  Promised!Next \/ UNCHANGED [b \in Names |-> ListOf(b)]
  <2>1. CASE Next
    BY <1>3, <2>1, NextStep
  <2>2. CASE UNCHANGED vars
    BY <2>2 DEF vars, ListOf, Exists, IsMovedFrom, Content, Cells, Value, Live
  <2> QED BY <1>3, <2>1, <2>2
<1>4. Spec => []BufferInv
  BY <1>1, InvHolds
<1> QED BY <1>2, <1>3, <1>4, PTL DEF Spec, ImplementsLists, Promised!Spec
=============================================================================
