------------------------------- MODULE Buffer -------------------------------
(***************************************************************************)
(* Buffer<T>: which objects live where.  A storage is a sequence of cells; *)
(* a cell is raw, holds an object with a value, or holds an object that    *)
(* has been moved from.  Each call is one action; what it does to storage  *)
(* and objects is composed of the steps of the code in their order, and a  *)
(* step that is undefined for a cell (an assignment to no object, ...)     *)
(* leaves it Broken.  One run has one T, trivial or not, and one policy.   *)
(*                                                                         *)
(* Of a trivial T, raw memory may be an element, whose value is whatever   *)
(* is there; a cell beyond the elements counts as raw.  Positions and      *)
(* sizes count from 0 as in the code.                                      *)
(***************************************************************************)
EXTENDS Naturals, FiniteSets, FiniteSetsExt, SequencesExt

CONSTANTS
    Names,         \* the buffers
    Values,        \* what the objects hold
    Default,       \* the value of a default-constructed object
    Raw, Moved, Broken,    \* what else a cell can be
    Freed,         \* a storage that is not allocated
    NoBuffer,      \* a name without a buffer
    Unspecified,   \* a list that has been moved from
    Policies,      \* kinds of CapacityPolicy
    LineSize,      \* of the policy "CacheAligned", in elements
    Discipline,    \* what callers take care of
    MaxSize        \* bound: elements of a buffer

(* "sized": Buffer(n) only for a trivial T;                                *)
(* "swap" : swap_and_pop of an element that is not last only for a trivial T; *)
(* "moved": a buffer that was moved from is only destroyed or assigned to; *)
(* "alias": no element of the buffer itself is passed to a call that grows;*)
(* "range": no empty range is erased.                                      *)
ASSUME BufferAssumption ==
    /\ Default \in Values /\ {Raw, Moved, Broken} \cap Values = {}
    /\ Cardinality({Raw, Moved, Broken}) = 3
    /\ Policies \subseteq {"Exact", "FiftyPercent", "PowerOfTwo", "CacheAligned"}
    /\ LineSize \in Nat \ {0} /\ MaxSize \in Nat
    /\ IsFiniteSet(Names) /\ NoBuffer # Unspecified
    /\ {Freed, NoBuffer, Unspecified} \cap Seq(Values \union {Raw, Moved, Broken}) = {}
    /\ NoBuffer \notin [storage : Nat, size : Nat, capacity : Nat]
    /\ Discipline \subseteq {"sized", "swap", "moved", "alias", "range"}

VARIABLES
    trivial,       \* T is trivially copyable, constructible and destructible
    policy,        \* Policy.kind
    heap,          \* the cells of each storage; Freed when it is none
    bufs           \* each buffer's buf_, size_ and capacity_

vars == <<trivial, policy, heap, bufs>>

(* One storage per buffer, and one that is being filled.                   *)
Storages == 1..Cardinality(Names) + 1
Null == 0

Init ==
    /\ trivial \in BOOLEAN /\ policy \in Policies
    /\ heap = [s \in Storages |-> Freed]
    /\ bufs = [b \in Names |-> NoBuffer]

-----------------------------------------------------------------------------
(* One cell.                                                               *)

Live(c) == c \in Values \union {Moved}

Constructed(c, v) == IF trivial \/ c = Raw THEN v ELSE Broken
Assigned(c, v) == IF trivial \/ Live(c) THEN v ELSE Broken
MovedFrom(c) == IF trivial THEN c ELSE IF Live(c) THEN Moved ELSE Broken
Destroyed(c) == IF trivial \/ Live(c) THEN Raw ELSE Broken
Value(c) == IF trivial \/ Live(c) THEN c ELSE Broken

(* Cells first..last-1 of a storage.                                       *)
ConstructRange(cells, first, vs) ==
    [i \in DOMAIN cells |->
        IF i \in first + 1 .. first + Len(vs) THEN Constructed(cells[i], vs[i - first])
                                              ELSE cells[i]]

DestroyAllButLast(cells, first, last) ==
    [i \in DOMAIN cells |-> IF i \in first + 1 .. last - 1 THEN Destroyed(cells[i]) ELSE cells[i]]

DestroyRange(cells, first, last) ==
    [i \in DOMAIN cells |-> IF i \in first + 1 .. last THEN Destroyed(cells[i]) ELSE cells[i]]

MoveOutRange(cells, first, last) ==
    [i \in DOMAIN cells |-> IF i \in first + 1 .. last THEN MovedFrom(cells[i]) ELSE cells[i]]

-----------------------------------------------------------------------------
(* One buffer, with the heap it is in: steps on <<h, b>>.                  *)

Cells(h, b) == IF b.storage = Null THEN <<>> ELSE h[b.storage]
Content(h, b) == [i \in 1..b.size |->
                     IF i \in DOMAIN Cells(h, b) THEN Value(Cells(h, b)[i]) ELSE Broken]

NewStorage(h) == CHOOSE s \in Storages : h[s] = Freed
RawCells(n) == [i \in 1..n |-> Raw]

Put(h, b, cells) == IF b.storage = Null THEN h ELSE [h EXCEPT ![b.storage] = cells]

(* operator delete: the objects must have been destroyed.                  *)
Deallocate(h, b) ==
    IF \A i \in DOMAIN Cells(h, b) : trivial \/ Cells(h, b)[i] = Raw
    THEN Put(h, b, Freed) ELSE h

(* bit_ceil: the least power of two from n on; of 0 it is 1.               *)
TwoTo[k \in 0..MaxSize] == IF k = 0 THEN 1 ELSE 2 * TwoTo[k - 1]

PowerOfTwoFrom(n) == Min({TwoTo[k] : k \in 0..n} \ 0..n - 1)

AdjustCapacityDown(n) ==
    CASE policy = "CacheAligned" -> (n \div LineSize) * LineSize
      [] policy = "FiftyPercent" -> (3 * n) \div 2
      [] OTHER                   -> n

AdjustCapacity(n) ==
    CASE policy = "Exact"        -> n
      [] policy = "PowerOfTwo"   -> PowerOfTwoFrom(n)
      [] policy = "CacheAligned" -> ((n + LineSize - 1) \div LineSize) * LineSize
      [] policy = "FiftyPercent" -> (3 * n + 1) \div 2

(* A new storage of the capacity for n, with the elements vs.              *)
Built(h, capacity, vs) ==
    LET s == NewStorage(h)
    IN <<[h EXCEPT ![s] = ConstructRange(RawCells(capacity), 0, vs)],
         [storage |-> s, size |-> Len(vs), capacity |-> capacity]>>

(* ~Buffer, and the first half of an assignment.                           *)
TornDown(h, b) == Deallocate(Put(h, b, DestroyRange(Cells(h, b), 0, b.size)), b)

Reallocate(h, b, n) ==
    LET capacity == AdjustCapacity(n)
        s == NewStorage(h)
        kept == IF b.storage = Null THEN <<>> ELSE Content(h, b)
        filled == [h EXCEPT ![s] = ConstructRange(RawCells(capacity), 0, kept)]
        left == DestroyRange(MoveOutRange(Cells(h, b), 0, b.size), 0, b.size)
    IN <<Deallocate(Put(filled, b, left), b),
         [storage |-> s, size |-> b.size, capacity |-> capacity]>>

AddCapacityFor(h, b, n) ==
    IF b.size + n > b.capacity THEN Reallocate(h, b, b.size + n) ELSE <<h, b>>

(* Objects with the values vs behind the last element.                     *)
ConstructedAtEnd(h, b, vs) ==
    <<Put(h, b, ConstructRange(Cells(h, b), b.size, vs)), [b EXCEPT !.size = @ + Len(vs)]>>

Changes(b, hb) == heap' = hb[1] /\ bufs' = [bufs EXCEPT ![b] = hb[2]]

-----------------------------------------------------------------------------
Exists(b) == bufs[b] # NoBuffer

IsMovedFrom(b) ==
    \/ bufs[b].storage = Null /\ bufs[b].capacity > 0
    \/ Moved \in ToSet(Content(heap, bufs[b]))

Usable(b) == Exists(b) /\ ("moved" \in Discipline => ~IsMovedFrom(b))

Lists(n) == UNION {[1..k -> Values] : k \in 0..n}
Fill(n, v) == [i \in 1..n |-> v]

(* Buffer(): no storage.                                                   *)
ConstructDefault(b) ==
    /\ ~Exists(b)
    /\ bufs' = [bufs EXCEPT ![b] = [storage |-> Null, size |-> 0, capacity |-> 0]]
    /\ UNCHANGED <<trivial, policy, heap>>

(* Buffer(size): the elements are not constructed.                         *)
ConstructSized(b, n) ==
    /\ ~Exists(b) /\ ("sized" \in Discipline => trivial)
    /\ LET built == Built(heap, AdjustCapacity(n), <<>>)
       IN Changes(b, <<built[1], [built[2] EXCEPT !.size = n]>>)
    /\ UNCHANGED <<trivial, policy>>

(* From a value, an array, a vector or an initializer list.                *)
ConstructFrom(b, vs) ==
    /\ ~Exists(b)
    /\ Changes(b, Built(heap, AdjustCapacity(Len(vs)), vs))
    /\ UNCHANGED <<trivial, policy>>

Destroy(b) ==
    /\ Exists(b)
    /\ heap' = TornDown(heap, bufs[b]) /\ bufs' = [bufs EXCEPT ![b] = NoBuffer]
    /\ UNCHANGED <<trivial, policy>>

(* A null source gives an empty buffer.                                    *)
CopyConstruct(b, a) ==
    /\ ~Exists(b) /\ Usable(a)
    /\ IF bufs[a].storage = Null
       THEN Changes(b, <<heap, [storage |-> Null, size |-> 0, capacity |-> 0]>>)
       ELSE Changes(b, Built(heap, AdjustCapacity(bufs[a].size), Content(heap, bufs[a])))
    /\ UNCHANGED <<trivial, policy>>

CopyAssign(b, a) ==
    /\ a # b /\ Exists(b) /\ Usable(a)
    /\ LET h == TornDown(heap, bufs[b])
       IN Changes(b, Built(h, AdjustCapacity(bufs[a].size), Content(h, bufs[a])))
    /\ UNCHANGED <<trivial, policy>>

(* A trivial T: the storage changes hands, size_ and capacity_ stay.       *)
(* Any other: new storage, and the source keeps its moved-from objects.    *)
Stolen(a) == [bufs[a] EXCEPT !.storage = Null]

MovedInto(h, b, a) ==
    IF trivial
    THEN /\ heap' = h
         /\ bufs' = [bufs EXCEPT ![b] = bufs[a], ![a] = Stolen(a)]
    ELSE LET built == Built(h, bufs[a].capacity, Content(h, bufs[a]))
         IN Changes(b, <<Put(built[1], bufs[a], MoveOutRange(Cells(h, bufs[a]), 0, bufs[a].size)),
                         built[2]>>)

MoveConstruct(b, a) ==
    /\ ~Exists(b) /\ Usable(a)
    /\ MovedInto(heap, b, a)
    /\ UNCHANGED <<trivial, policy>>

MoveAssign(b, a) ==
    /\ a # b /\ Exists(b) /\ Usable(a)
    /\ MovedInto(TornDown(heap, bufs[b]), b, a)
    /\ UNCHANGED <<trivial, policy>>

-----------------------------------------------------------------------------
(* push_back, emplace_back and append: the elements are constructed after  *)
(* the storage has grown.                                                  *)
AppendAll(b, vs) ==
    /\ Usable(b) /\ bufs[b].size + Len(vs) <= MaxSize
    /\ LET grown == AddCapacityFor(heap, bufs[b], Len(vs))
       IN Changes(b, ConstructedAtEnd(grown[1], grown[2], vs))
    /\ UNCHANGED <<trivial, policy>>

(* The same of an element of the buffer itself: when the storage has been  *)
(* replaced, the reference is to the old one.                              *)
Grows(b, n) == bufs[b].size + n > bufs[b].capacity

AppendOwn(b, pos) ==
    /\ Usable(b) /\ pos < bufs[b].size /\ bufs[b].size + 1 <= MaxSize
    /\ "alias" \in Discipline => ~Grows(b, 1)
    /\ LET v == IF Grows(b, 1) THEN Broken ELSE Content(heap, bufs[b])[pos + 1]
           grown == AddCapacityFor(heap, bufs[b], 1)
       IN Changes(b, ConstructedAtEnd(grown[1], grown[2], <<v>>))
    /\ UNCHANGED <<trivial, policy>>

AppendUninitialized(b, n) ==
    /\ trivial /\ Usable(b) /\ bufs[b].size + n <= MaxSize
    /\ LET grown == AddCapacityFor(heap, bufs[b], n)
       IN Changes(b, <<grown[1], [grown[2] EXCEPT !.size = @ + n]>>)
    /\ UNCHANGED <<trivial, policy>>

(* The elements from the new size on are destroyed.                        *)
Shrunk(h, b, n) ==
    <<Put(h, b, DestroyRange(Cells(h, b), n, b.size)), [b EXCEPT !.size = n]>>

Resize(b, n) ==
    /\ Usable(b) /\ n <= MaxSize
    /\ LET hb == IF n > bufs[b].capacity THEN Reallocate(heap, bufs[b], n)
                                         ELSE <<heap, bufs[b]>>
           added == Fill(n - bufs[b].size, Default)
       IN IF n < bufs[b].size
          THEN Changes(b, Shrunk(heap, bufs[b], n))
          ELSE Changes(b, IF trivial THEN <<hb[1], [hb[2] EXCEPT !.size = n]>>
                                     ELSE ConstructedAtEnd(hb[1], hb[2], added))
    /\ UNCHANGED <<trivial, policy>>

PopBack(b) ==
    /\ Usable(b) /\ bufs[b].size > 0
    /\ LET n == bufs[b].size
           h == Put(heap, bufs[b], MoveOutRange(Cells(heap, bufs[b]), n - 1, n))
       IN Changes(b, Shrunk(h, bufs[b], n - 1))
    /\ UNCHANGED <<trivial, policy>>

Clear(b) ==
    /\ Usable(b)
    /\ Changes(b, Shrunk(heap, bufs[b], 0))
    /\ UNCHANGED <<trivial, policy>>

(* The elements behind the range move down one by one; then as many as it  *)
(* had are destroyed at the end.  Of an empty range, each is moved to      *)
(* itself.                                                                 *)
MovedDownByOne(cells, size, first, last) ==
    [i \in DOMAIN cells |->
        IF i \in first + 1 .. size - 1 THEN Assigned(cells[i], Value(cells[i + 1]))
        ELSE IF i = size THEN MovedFrom(cells[i]) ELSE cells[i]]

MovedDown(cells, size, first, last) ==
    [i \in DOMAIN cells |->
        IF first = last /\ i \in first + 1 .. size THEN MovedFrom(cells[i])
        ELSE IF i \in first + 1 .. size - (last - first)
             THEN Assigned(cells[i], Value(cells[i + (last - first)]))
        ELSE IF i \in last + 1 .. size THEN MovedFrom(cells[i])
        ELSE cells[i]]

Erase(b, first, last) ==
    /\ Usable(b) /\ first < bufs[b].size /\ last \in first..bufs[b].size
    /\ "range" \in Discipline => first < last
    /\ LET h == Put(heap, bufs[b], MovedDown(Cells(heap, bufs[b]), bufs[b].size, first, last))
       IN Changes(b, Shrunk(h, bufs[b], bufs[b].size - (last - first)))
    /\ UNCHANGED <<trivial, policy>>

(* The element is destroyed, then the last one is assigned to its place;   *)
(* the last one is not destroyed.                                          *)
SwappedOut(cells, size, pos) ==
    [i \in DOMAIN cells |->
        IF i = size THEN IF trivial \/ pos = size - 1 THEN Destroyed(cells[i])
                                                      ELSE MovedFrom(cells[i])
        ELSE IF i = pos + 1 THEN Assigned(Destroyed(cells[i]), Value(cells[size]))
        ELSE cells[i]]

SwapAndPop(b, pos) ==
    /\ Usable(b) /\ pos < bufs[b].size
    /\ "swap" \in Discipline => trivial \/ pos = bufs[b].size - 1
    /\ Changes(b, <<Put(heap, bufs[b], SwappedOut(Cells(heap, bufs[b]), bufs[b].size, pos)),
                    [bufs[b] EXCEPT !.size = @ - 1]>>)
    /\ UNCHANGED <<trivial, policy>>

Next ==
    \E b \in Names :
        \/ ConstructDefault(b) \/ Destroy(b) \/ PopBack(b) \/ Clear(b)
        \/ \E vs \in Lists(MaxSize) : ConstructFrom(b, vs) \/ AppendAll(b, vs)
        \/ \E n \in 0..MaxSize : ConstructSized(b, n) \/ AppendUninitialized(b, n) \/ Resize(b, n)
        \/ \E a \in Names :
               \/ CopyConstruct(b, a) \/ CopyAssign(b, a)
               \/ MoveConstruct(b, a) \/ MoveAssign(b, a)
        \/ \E pos \in 0..MaxSize - 1 : AppendOwn(b, pos) \/ SwapAndPop(b, pos)
        \/ \E first, last \in 0..MaxSize : Erase(b, first, last)

Spec == Init /\ [][Next]_vars

-----------------------------------------------------------------------------
TypeOK ==
    /\ trivial \in BOOLEAN /\ policy \in Policies
    /\ \A s \in Storages :
           heap[s] = Freed \/ heap[s] \in Seq(Values \union {Raw, Moved, Broken})
    /\ \A b \in Names : Exists(b) =>
           /\ bufs[b].storage \in Storages \union {Null}
           /\ bufs[b].size \in 0..MaxSize /\ bufs[b].size <= bufs[b].capacity

(* Between calls, every storage belongs to exactly one buffer and has its   *)
(* capacity, exactly the first size cells of it hold objects, and no call   *)
(* has constructed over an object, or assigned to or destroyed what was     *)
(* none: every object is constructed once and destroyed once.               *)
Owners(s) == {b \in Names : Exists(b) /\ bufs[b].storage = s}

LifetimesExact ==
    /\ \A s \in Storages : Cardinality(Owners(s)) = IF heap[s] = Freed THEN 0 ELSE 1
    /\ \A b \in Names : Exists(b) /\ bufs[b].storage # Null =>
           LET cells == Cells(heap, bufs[b])
           IN /\ Len(cells) = bufs[b].capacity
              /\ \A i \in DOMAIN cells :
                     IF i > bufs[b].size THEN cells[i] = Raw
                     ELSE IF trivial THEN cells[i] # Broken ELSE Live(cells[i])

(* Every call changes its buffers as BufferLists says: no element is lost,  *)
(* repeated or left in a wrong place when storage grows, moves or is shared *)
(* out, and a copy does not change with its source.                         *)
ListOf(b) ==
    IF ~Exists(b) THEN NoBuffer
    ELSE IF IsMovedFrom(b) THEN Unspecified ELSE Content(heap, bufs[b])

Promised == INSTANCE BufferLists WITH
    Elements <- Values \union {Raw}, lists <- [b \in Names |-> ListOf(b)]

ImplementsLists == Promised!Spec
=============================================================================
