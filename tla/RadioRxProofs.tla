---------------------------- MODULE RadioRxProofs ----------------------------
(***************************************************************************)
(* For any size of the queue, block lengths and numbers of calls, whether  *)
(* the streams pad their queue or not: the receiver's types and, for an    *)
(* application that retunes and destroys only when it has read enough      *)
(* blocks to know that the LO is locked, the flag of the blocks and the    *)
(* lifetimes of the threads.                                               *)
(***************************************************************************)
EXTENDS RadioRx, SequenceTheorems, TLAPS

USE RadioAssumption

-----------------------------------------------------------------------------
(* Types.                                                                  *)

BooleanTypes ==
    /\ streaming \in BOOLEAN /\ stopSignal \in BOOLEAN /\ queue \in BOOLEAN
    /\ loLocked \in BOOLEAN /\ hwLocked \in BOOLEAN /\ destroyed \in BOOLEAN

DataTypes ==
    /\ controlFlags \subseteq BlockFlags /\ flags \subseteq BlockFlags
    /\ blockLen \in Lengths \union {0} /\ filled \in 0..blockLen
    /\ blocks \in Seq(SUBSET BlockFlags) /\ Len(blocks) <= QueueBlocks
    /\ slot \in 0..QueueBlocks /\ pad \in {"none", "ahead", "passed"}
    /\ first \subseteq BlockFlags
    /\ call \in Calls /\ seen \in 0..(QueueBlocks + 2)
    /\ rx \in {"none", "check", "acquire", "take", "receive", "clear", "commit", "returned"}
    /\ pollers \in [polling : Nat, reporting : Nat]
    /\ tunes \in 1..MaxTunes /\ starts \in 0..MaxStarts

Types == BooleanTypes /\ DataTypes

(* A block that has been acquired has its place in the queue and in the    *)
(* lap; a pad is before the first block of a lap, while that is under way. *)
Holds == rx \in {"take", "receive", "clear", "commit"}
PlaceKept ==
    /\ Holds => Len(blocks) < QueueBlocks /\ slot < QueueBlocks
    /\ pad # "none" => Holds /\ slot = 0
    /\ pad = "passed" => blocks = <<>>

(* The receive thread runs within a stream, and not while a call that has  *)
(* joined it goes on.                                                      *)
WithinStream ==
    /\ rx # "none" => queue /\ streaming
    /\ call \in {"startReady", "destroyReady", "gone"} => rx = "none" /\ ~streaming
    /\ destroyed => call = "gone"

LEMMA TypesSuffice == Types => TypeOK
BY DEF Types, BooleanTypes, DataTypes, TypeOK

\* The first state has the types; nothing runs in it.
LEMMA InitTypes == Init => Types /\ PlaceKept /\ WithinStream
<1> SUFFICES ASSUME Init PROVE Types /\ PlaceKept /\ WithinStream
  OBVIOUS
<1>1. blocks = <<>> /\ Len(blocks) = 0 /\ blocks \in Seq(SUBSET BlockFlags)
  BY EmptySeq DEF Init, NewRadio
<1>a. /\ streaming \in BOOLEAN /\ stopSignal \in BOOLEAN /\ queue \in BOOLEAN
      /\ loLocked \in BOOLEAN /\ hwLocked \in BOOLEAN /\ destroyed \in BOOLEAN
  BY DEF Init, NewRadio
<1>b. /\ controlFlags \subseteq BlockFlags /\ flags \subseteq BlockFlags
      /\ blockLen \in Lengths \union {0} /\ filled \in 0..blockLen
  BY DEF Init, NewRadio
<1>c. pollers \in [polling : Nat, reporting : Nat]
  BY DEF Init, NewRadio
<1>d. tunes \in 1..MaxTunes /\ starts \in 0..MaxStarts
  BY DEF Init, NewRadio, SetConfiguration
<1>e. /\ call \in Calls /\ seen \in 0..(QueueBlocks + 2)
      /\ slot \in 0..QueueBlocks /\ pad \in {"none", "ahead", "passed"}
      /\ first \subseteq BlockFlags
  BY DEF Init, NewRadio, SetConfiguration, Calls
<1>f. rx \in {"none", "check", "acquire", "take", "receive", "clear", "commit", "returned"}
  BY DEF Init, NewRadio
<1>2. Types
  BY <1>1, <1>a, <1>b, <1>c, <1>d, <1>e, <1>f DEF Types, BooleanTypes, DataTypes
<1>3. PlaceKept /\ WithinStream
  BY DEF Init, NewRadio, SetConfiguration, PlaceKept, Holds, ring, WithinStream
<1> QED BY <1>2, <1>3

TypesInv == Types /\ PlaceKept /\ WithinStream

LEMMA CallTypes == ASSUME TypesInv, MakeCall PROVE TypesInv'
<1>1. CASE CallStop
  BY <1>1 DEF TypesInv, Types, BooleanTypes, DataTypes, PlaceKept, Holds, ring, WithinStream, CallStop, StopFirst, Calls, receiver
<1>2. CASE CallStart
  BY <1>2 DEF TypesInv, Types, BooleanTypes, DataTypes, PlaceKept, Holds, ring, WithinStream, CallStart, StopFirst, Calls, receiver
<1>3. CASE CallDestroy
  BY <1>3 DEF TypesInv, Types, BooleanTypes, DataTypes, PlaceKept, Holds, ring, WithinStream, CallDestroy, StopFirst, Calls, receiver
<1>4. CASE CallTune
  <2>1. BooleanTypes'
    BY <1>4 DEF TypesInv, Types, BooleanTypes, CallTune
  <2>2. DataTypes'
    BY <1>4 DEF TypesInv, Types, DataTypes, PlaceKept, Holds, ring, CallTune, receiver, Calls
  <2>3. PlaceKept'
    BY <1>4 DEF TypesInv, Types, DataTypes, PlaceKept, Holds, ring, WithinStream, CallTune, receiver
  <2>4. WithinStream'
    BY <1>4 DEF TypesInv, WithinStream, CallTune, receiver
  <2> QED BY <2>1, <2>2, <2>3, <2>4 DEF TypesInv, Types
<1> QED BY <1>1, <1>2, <1>3, <1>4 DEF MakeCall

LEMMA EmptyQueue == <<>> \in Seq(SUBSET BlockFlags) /\ Len(<<>>) = 0
BY EmptySeq

LEMMA GoOnTypes == ASSUME TypesInv, GoOnWithCall PROVE TypesInv'
<1>1. CASE Join
  <2>1. BooleanTypes'
    BY <1>1 DEF TypesInv, Types, BooleanTypes, Join
  <2>2. DataTypes'
    <3>1. call' \in Calls /\ rx' = "none"
      BY <1>1 DEF Join, Joined, Calls
    <3>2. /\ blocks' \in Seq(SUBSET BlockFlags) /\ Len(blocks') <= QueueBlocks
          /\ slot' \in 0..QueueBlocks /\ pad' \in {"none", "ahead", "passed"}
          /\ first' \subseteq BlockFlags
      <4>1. CASE EmptyRing
        BY <4>1, EmptyQueue DEF EmptyRing
      <4>2. CASE UNCHANGED ring
        BY <4>2 DEF TypesInv, Types, DataTypes, ring
      <4> QED BY <1>1, <4>1, <4>2 DEF Join
    <3> QED BY <1>1, <3>1, <3>2 DEF TypesInv, Types, DataTypes, Join
  <2>3. PlaceKept'
    BY <1>1, EmptyQueue DEF TypesInv, Types, DataTypes, PlaceKept, Holds, ring, WithinStream, Join, EmptyRing, Joined
  <2>4. WithinStream'
    BY <1>1 DEF TypesInv, WithinStream, Join, Joined
  <2> QED BY <2>1, <2>2, <2>3, <2>4 DEF TypesInv, Types
<1>2. CASE Destroy
  <2>1. BooleanTypes'
    BY <1>2 DEF TypesInv, Types, BooleanTypes, Destroy
  <2>2. DataTypes'
    BY <1>2, EmptyQueue DEF TypesInv, Types, DataTypes, PlaceKept, Holds, ring, Destroy, EmptyRing, receiver, Calls
  <2>3. PlaceKept'
    BY <1>2, EmptyQueue DEF TypesInv, Types, DataTypes, PlaceKept, Holds, ring, WithinStream, Destroy, EmptyRing, receiver
  <2>4. WithinStream'
    BY <1>2 DEF TypesInv, WithinStream, Destroy, receiver
  <2> QED BY <2>1, <2>2, <2>3, <2>4 DEF TypesInv, Types
<1>3. CASE TuneUnlock
  BY <1>3 DEF TypesInv, Types, BooleanTypes, DataTypes, PlaceKept, Holds, ring, WithinStream, TuneUnlock, LockForgotten,
              Calls, receiver
<1>4. CASE TuneFlags
  BY <1>4 DEF TypesInv, Types, BooleanTypes, DataTypes, PlaceKept, Holds, ring, WithinStream, TuneFlags, BlockFlags,
              Calls, receiver
<1>5. CASE TunePoller
  <2>1. BooleanTypes'
    BY <1>5 DEF TypesInv, Types, BooleanTypes, TunePoller, receiver
  <2>2. DataTypes'
    <3>1. pollers \in [polling : Nat, reporting : Nat]
      BY DEF TypesInv, Types, DataTypes
    <3>2. pollers' \in [polling : Nat, reporting : Nat]
      BY <1>5, <3>1 DEF TunePoller
    <3> QED BY <1>5, <3>2 DEF TypesInv, Types, DataTypes, TunePoller, Calls, receiver, ring
  <2>3. PlaceKept'
    BY <1>5 DEF TypesInv, PlaceKept, Holds, ring, TunePoller, receiver
  <2>4. WithinStream'
    BY <1>5 DEF TypesInv, WithinStream, TunePoller, receiver
  <2> QED BY <2>1, <2>2, <2>3, <2>4 DEF TypesInv, Types
<1>6. ASSUME NEW len \in Lengths, OpenStream(len) PROVE TypesInv'
  BY <1>6, EmptyQueue
     DEF TypesInv, Types, BooleanTypes, DataTypes, PlaceKept, Holds, ring, WithinStream, OpenStream, EmptyRing, BlockFlags, Calls
<1>7. ASSUME NEW len \in Lengths, OpenFails(len) PROVE TypesInv'
  <2>1. BooleanTypes'
    BY <1>7 DEF TypesInv, Types, BooleanTypes, OpenFails
  <2>2. DataTypes'
    BY <1>7, EmptyQueue DEF TypesInv, Types, DataTypes, PlaceKept, Holds, ring, OpenFails, EmptyRing, Calls
  <2>3. PlaceKept'
    BY <1>7, EmptyQueue DEF TypesInv, Types, DataTypes, PlaceKept, Holds, ring, WithinStream, OpenFails, EmptyRing
  <2>4. WithinStream'
    BY <1>7 DEF TypesInv, WithinStream, OpenFails
  <2> QED BY <2>1, <2>2, <2>3, <2>4 DEF TypesInv, Types
<1> QED BY <1>1, <1>2, <1>3, <1>4, <1>5, <1>6, <1>7 DEF GoOnWithCall

LEMMA RxLoopTypes == ASSUME TypesInv, RxLoop PROVE TypesInv'
<1>1. CASE CheckStop
  BY <1>1 DEF TypesInv, Types, BooleanTypes, DataTypes, PlaceKept, Holds, ring, WithinStream, CheckStop, control
<1>2. CASE AcquireBlock
  BY <1>2 DEF TypesInv, Types, BooleanTypes, DataTypes, PlaceKept, Holds, ring, WithinStream, AcquireBlock, HasRoom, control
<1>3. CASE TakeFlags
  BY <1>3 DEF TypesInv, Types, BooleanTypes, DataTypes, PlaceKept, Holds, ring, WithinStream, TakeFlags, control
<1>4. CASE ReceiveSome
  <2> PICK n \in 1..blockLen : Receive(n)
    BY <1>4 DEF ReceiveSome
  <2> QED BY DEF TypesInv, Types, BooleanTypes, DataTypes, PlaceKept, Holds, ring, WithinStream, Receive, control
<1>5. CASE TestLock
  BY <1>5 DEF TypesInv, Types, BooleanTypes, DataTypes, PlaceKept, Holds, ring, WithinStream, TestLock, control
<1>6. CASE ClearUnlocked
  BY <1>6 DEF TypesInv, Types, BooleanTypes, DataTypes, PlaceKept, Holds, ring, WithinStream, ClearUnlocked, control
<1>7. CASE CommitBlock
  <2>1. blocks' \in Seq(SUBSET BlockFlags) /\ Len(blocks') <= Len(blocks) + 1 /\ Len(blocks') \in Nat
    BY <1>7, AppendProperties, LenProperties DEF TypesInv, Types, DataTypes, CommitBlock
  <2>2. Len(blocks') <= QueueBlocks /\ slot' \in 0..QueueBlocks /\ first' \subseteq BlockFlags
    BY <1>7, <2>1 DEF TypesInv, Types, DataTypes, PlaceKept, Holds, CommitBlock
  <2>3. BooleanTypes'
    BY <1>7 DEF TypesInv, Types, BooleanTypes, CommitBlock, control
  <2>4. DataTypes'
    BY <1>7, <2>1, <2>2 DEF TypesInv, Types, DataTypes, CommitBlock, control
  <2>5. PlaceKept' /\ WithinStream'
    BY <1>7 DEF TypesInv, PlaceKept, Holds, WithinStream, CommitBlock, control
  <2> QED BY <2>3, <2>4, <2>5 DEF TypesInv, Types
<1> QED BY <1>1, <1>2, <1>3, <1>4, <1>5, <1>6, <1>7 DEF RxLoop

\* The reader's account keeps its type.
LEMMA ObserveType ==
    ASSUME NEW f, Observe(f), seen \in 0..(QueueBlocks + 2)
    PROVE  seen' \in 0..(QueueBlocks + 2)
BY DEF Observe, Settled

LEMMA OtherTypes ==
    ASSUME TypesInv, PollSensor \/ ReportLock \/ DeviceLocks \/ ReadBlock \/ ReadEarly
    PROVE  TypesInv'
<1>1. CASE PollSensor
  <2>1. pollers \in [polling : Nat, reporting : Nat]
    BY DEF TypesInv, Types, DataTypes
  <2>2. pollers' \in [polling : Nat, reporting : Nat]
    BY <1>1, <2>1 DEF PollSensor
  <2>3. BooleanTypes' /\ WithinStream' /\ PlaceKept'
    BY <1>1 DEF TypesInv, Types, BooleanTypes, PlaceKept, Holds, ring, WithinStream, PollSensor, control, receiver
  <2>4. DataTypes'
    BY <1>1, <2>2 DEF TypesInv, Types, DataTypes, ring, PollSensor, control, receiver
  <2> QED BY <2>3, <2>4 DEF TypesInv, Types
<1>2. CASE ReportLock
  <2>a. pollers \in [polling : Nat, reporting : Nat]
    BY DEF TypesInv, Types, DataTypes
  <2>1. pollers' \in [polling : Nat, reporting : Nat]
    BY <1>2, <2>a DEF ReportLock
  <2>2. BooleanTypes' /\ WithinStream' /\ PlaceKept'
    BY <1>2 DEF TypesInv, Types, BooleanTypes, PlaceKept, Holds, ring, WithinStream, ReportLock, control, receiver
  <2>3. DataTypes'
    BY <1>2, <2>1 DEF TypesInv, Types, DataTypes, ring, ReportLock, control, receiver
  <2> QED BY <2>2, <2>3 DEF TypesInv, Types
<1>3. CASE DeviceLocks
  BY <1>3 DEF TypesInv, Types, BooleanTypes, DataTypes, PlaceKept, Holds, ring, WithinStream, DeviceLocks, control, receiver
<1>4. CASE ReadBlock
  <2>1. blocks' \in Seq(SUBSET BlockFlags) /\ Len(blocks') = Len(blocks) - 1
    BY <1>4, HeadTailProperties DEF TypesInv, Types, DataTypes, ReadBlock
  <2>2. seen' \in 0..(QueueBlocks + 2)
    BY <1>4, ObserveType DEF TypesInv, Types, DataTypes, ReadBlock
  <2>3. Len(blocks) \in Nat
    BY LenProperties DEF TypesInv, Types, DataTypes
  <2>4. BooleanTypes' /\ WithinStream'
    BY <1>4 DEF TypesInv, Types, BooleanTypes, WithinStream, ReadBlock, control, receiver
  <2>5. DataTypes'
    BY <1>4, <2>1, <2>2, <2>3 DEF TypesInv, Types, DataTypes, ReadBlock, control, receiver
  <2>6. PlaceKept'
    BY <1>4, <2>1, <2>3 DEF TypesInv, PlaceKept, Holds, ReadBlock, receiver
  <2> QED BY <2>4, <2>5, <2>6 DEF TypesInv, Types
<1>5. CASE ReadEarly
  <2>1. seen' \in 0..(QueueBlocks + 2)
    BY <1>5, ObserveType DEF TypesInv, Types, DataTypes, ReadEarly
  <2>2. BooleanTypes' /\ WithinStream'
    BY <1>5 DEF TypesInv, Types, BooleanTypes, WithinStream, ReadEarly, control, receiver
  <2>3. DataTypes'
    BY <1>5, <2>1 DEF TypesInv, Types, DataTypes, ReadEarly, control, receiver
  <2>4. PlaceKept'
    BY <1>5 DEF TypesInv, PlaceKept, Holds, ReadEarly, receiver
  <2> QED BY <2>2, <2>3, <2>4 DEF TypesInv, Types
<1> QED BY <1>1, <1>2, <1>3, <1>4, <1>5

LEMMA NextTypes == ASSUME TypesInv, [Next]_vars PROVE TypesInv'
<1>1. CASE UNCHANGED vars
  BY <1>1 DEF TypesInv, Types, BooleanTypes, DataTypes, PlaceKept, Holds, ring, WithinStream, vars, control, receiver
<1> QED BY <1>1, CallTypes, GoOnTypes, RxLoopTypes, OtherTypes DEF Next

(* The receiver's variables keep their types: the queue never holds more   *)
(* blocks than fit, and a block never more samples than it has room for    *)
(* (USRPRadioRx.cpp:204-251), in whatever order the application calls.         *)
THEOREM RadioTypeCorrect == Spec => []TypeOK
<1>1. Init => TypesInv
  BY InitTypes DEF TypesInv
<1>2. TypesInv /\ [Next]_vars => TypesInv'
  BY NextTypes
<1>3. TypesInv => TypeOK
  BY TypesSuffice DEF TypesInv
<1> QED BY <1>1, <1>2, <1>3, PTL DEF Spec

-----------------------------------------------------------------------------
(* The blocks begun since the last retune: once one of them is without     *)
(* BF_LO_UNLOCKED, so are all that follow.                                 *)

FlagSets == SUBSET BlockFlags

(* s is a sequence of blocks of which the first old may be older than that *)
(* retune, and next the flags the block after them would have.             *)
Ordered(s, old, next) ==
    \A i \in 1..Len(s) : i > old /\ UNLOCKED \notin s[i] =>
        UNLOCKED \notin next /\ \A j \in i..Len(s) : UNLOCKED \notin s[j]

\* All the blocks may be old.
LEMMA OrderedOld ==
    ASSUME NEW s, NEW old \in Nat, NEW next, Len(s) \in Nat, Len(s) <= old
    PROVE  Ordered(s, old, next)
BY DEF Ordered

\* The next block takes the flags that are set, and CHANGE is reset.
LEMMA OrderedTake ==
    ASSUME NEW s \in Seq(FlagSets), NEW next \in FlagSets, NEW old \in Nat, Ordered(s, old, next)
    PROVE  Ordered(Append(s, next), old, next \ {CHANGE})
<1> DEFINE t == Append(s, next)
<1>1. Len(t) = Len(s) + 1 /\ t[Len(s) + 1] = next /\ \A i \in 1..Len(s) : t[i] = s[i]
  BY AppendProperties
<1>2. Len(s) \in Nat
  BY LenProperties
<1> HIDE DEF t
<1>3. SUFFICES ASSUME NEW i \in 1..Len(t), i > old, UNLOCKED \notin t[i]
               PROVE  UNLOCKED \notin next /\ \A j \in i..Len(t) : UNLOCKED \notin t[j]
  BY DEF Ordered, t
<1>4. CASE i = Len(s) + 1
  BY <1>3, <1>4, <1>1, <1>2
<1>5. CASE i \in 1..Len(s)
  <2>1. UNLOCKED \notin next /\ \A j \in i..Len(s) : UNLOCKED \notin s[j]
    BY <1>3, <1>5, <1>1 DEF Ordered
  <2> QED BY <2>1, <1>5, <1>1, <1>2
<1> QED BY <1>4, <1>5, <1>1, <1>2

\* UNLOCKED is reset.
LEMMA OrderedReset ==
    ASSUME NEW s, NEW next, NEW old, Ordered(s, old, next)
    PROVE  Ordered(s, old, next \ {UNLOCKED})
BY DEF Ordered

\* The reader takes the oldest block, which may be one of the old ones.
LEMMA OrderedRead ==
    ASSUME NEW s \in Seq(FlagSets), NEW next \in FlagSets, s # <<>>,
           NEW old \in Nat, NEW left \in Nat, old <= left + 1, Ordered(s, old, next)
    PROVE  /\ Ordered(Tail(s), left, next)
           /\ old = 0 /\ UNLOCKED \notin Head(s) =>
                  UNLOCKED \notin next /\ \A i \in 1..Len(Tail(s)) : UNLOCKED \notin Tail(s)[i]
<1> DEFINE t == Tail(s)
<1>1. /\ Len(s) \in Nat \ {0} /\ Head(s) = s[1] /\ Len(t) = Len(s) - 1
      /\ \A i \in 1..Len(t) : t[i] = s[i + 1]
  BY HeadTailProperties, LenProperties, EmptySeq
<1> HIDE DEF t
<1>2. Ordered(t, left, next)
  <2> SUFFICES ASSUME NEW i \in 1..Len(t), i > left, UNLOCKED \notin t[i]
               PROVE  UNLOCKED \notin next /\ \A j \in i..Len(t) : UNLOCKED \notin t[j]
    BY DEF Ordered
  <2>1. i + 1 \in 1..Len(s) /\ i + 1 > old /\ UNLOCKED \notin s[i + 1]
    BY <1>1
  <2>2. UNLOCKED \notin next /\ \A j \in (i + 1)..Len(s) : UNLOCKED \notin s[j]
    BY <2>1 DEF Ordered
  <2> QED BY <2>2, <1>1
<1>3. ASSUME old = 0, UNLOCKED \notin Head(s)
      PROVE  UNLOCKED \notin next /\ \A i \in 1..Len(t) : UNLOCKED \notin t[i]
  <2>1. 1 \in 1..Len(s) /\ 1 > old /\ UNLOCKED \notin s[1]
    BY <1>1, <1>3
  <2>2. UNLOCKED \notin next /\ \A j \in 1..Len(s) : UNLOCKED \notin s[j]
    BY <2>1 DEF Ordered
  <2> QED BY <2>2, <1>1
<1> QED BY <1>2, <1>3 DEF t

-----------------------------------------------------------------------------
(* A careful application.                                                  *)

(* The blocks from the oldest one in the queue to the one under way, if    *)
(* the reader has not passed that.                                         *)
InFlight == rx \in {"receive", "clear", "commit"}
Unread == IF InFlight /\ pad # "passed" THEN Append(blocks, flags) ELSE blocks

(* So many blocks begun before the retune returned may still be read.      *)
Old == IF seen >= QueueBlocks THEN 0 ELSE QueueBlocks - seen

(* No block, begun or next, is flagged as unlocked.                        *)
Clear ==
    /\ UNLOCKED \notin controlFlags
    /\ InFlight => UNLOCKED \notin flags
    /\ \A i \in 1..Len(Unread) : UNLOCKED \notin Unread[i]

(* The next block that is read has been committed: the reader has not      *)
(* caught up, or the writer is not at the end of a lap.                    *)
NotEarly ==
    \/ blocks # <<>>
    \/ pad = "passed"
    \/ pad = "none" /\ slot # QueueBlocks

(* Two blocks without a flag show that the LO is locked; one does unless   *)
(* it was read early.                                                      *)
Evidence ==
    /\ seen = QueueBlocks + 1 => Clear \/ NotEarly
    /\ seen = QueueBlocks + 2 => Clear

FlagInv ==
    /\ Ordered(Unread, Old, controlFlags)
    /\ Evidence
    /\ Retuning => seen = 0
    /\ call \in {"retune", "retuneFlags"} => Clear

NoPoller == pollers = [polling |-> 0, reporting |-> 0]

(* Who may say that the LO is locked, and on what grounds.                 *)
LockInv ==
    /\ pollers.polling + pollers.reporting <= 1
    /\ pollers.reporting > 0 => hwLocked
    /\ call \in {"retune", "retuneFlags", "retunePoller"} => NoPoller
    /\ loLocked /\ call # "retune" =>
           NoPoller /\ hwLocked /\ call \notin {"retuneFlags", "retunePoller"}
    /\ UNLOCKED \notin controlFlags /\ call \notin {"retune", "retuneFlags"} => loLocked
    /\ rx = "clear" => loLocked /\ UNLOCKED \in flags
    /\ call \in {"destroyJoin", "destroyReady", "gone"} => UNLOCKED \notin controlFlags

RadioInv == TypesInv /\ FlagInv /\ LockInv

LEMMA UnreadType ==
    ASSUME TypesInv
    PROVE  /\ Unread \in Seq(FlagSets) /\ Len(Unread) \in Nat /\ Len(Unread) <= QueueBlocks
           /\ controlFlags \in FlagSets /\ Old \in Nat
<1>1. /\ blocks \in Seq(FlagSets) /\ flags \in FlagSets /\ Len(blocks) \in Nat
      /\ Len(blocks) <= QueueBlocks
  BY LenProperties DEF TypesInv, Types, DataTypes, FlagSets
<1>2. InFlight => Len(blocks) < QueueBlocks
  BY DEF TypesInv, PlaceKept, Holds, InFlight
<1>3. Unread \in Seq(FlagSets) /\ Len(Unread) \in Nat /\ Len(Unread) <= QueueBlocks
  BY <1>1, <1>2, AppendProperties DEF Unread
<1>4. controlFlags \in FlagSets /\ Old \in Nat
  BY DEF TypesInv, Types, DataTypes, FlagSets, Old
<1> QED BY <1>3, <1>4

\* While the LO is being retuned the loop does not reset UNLOCKED.
LEMMA NoResetDuringRetune ==
    ASSUME RadioInv, rx = "clear" PROVE ~Retuning
BY DEF RadioInv, FlagInv, LockInv, Clear, InFlight, Retuning

-----------------------------------------------------------------------------
(* The flags.                                                              *)

\* What leaves the blocks, the flags and the reader alone.
LEMMA SameBlocksFlags ==
    ASSUME FlagInv, UNCHANGED <<ring, flags, seen, controlFlags>>, InFlight' <=> InFlight,
           call' \in {"retune", "retuneFlags"} => call \in {"retune", "retuneFlags"},
           Retuning' => Retuning
    PROVE  FlagInv'
<1>1. Unread' = Unread /\ Old' = Old /\ (NotEarly' <=> NotEarly)
  BY DEF Unread, Old, NotEarly, ring
<1>2. Clear' <=> Clear
  BY <1>1 DEF Clear
<1> QED BY <1>1, <1>2 DEF FlagInv, Evidence

\* What empties the queue or keeps it, with no block under way.
LEMMA DropBlocksFlags ==
    ASSUME TypesInv, FlagInv, UNCHANGED <<seen, controlFlags>>, UNCHANGED ring \/ EmptyRing,
           ~InFlight, ~InFlight', ~Retuning'
    PROVE  FlagInv'
<1>1. CASE UNCHANGED ring
  <2>1. Unread' = Unread /\ Old' = Old /\ (NotEarly' <=> NotEarly)
    BY <1>1 DEF Unread, Old, NotEarly, ring
  <2>2. Clear' <=> Clear
    BY <2>1 DEF Clear
  <2> QED BY <2>1, <2>2 DEF FlagInv, Evidence, Retuning
<1>2. CASE EmptyRing
  <2>1. Unread' = <<>> /\ Len(Unread') = 0 /\ Old' = Old
    BY <1>2, EmptySeq DEF Unread, Old, EmptyRing
  <2>2. Ordered(Unread', Old', controlFlags')
    BY <2>1, OrderedOld, UnreadType
  <2>3. NotEarly'
    BY <1>2 DEF NotEarly, EmptyRing
  <2>4. Clear => Clear'
    BY <2>1 DEF Clear
  <2> QED BY <2>2, <2>3, <2>4 DEF FlagInv, Evidence, Retuning
<1> QED BY <1>1, <1>2

LEMMA CallFlags == ASSUME Careful, RadioInv, MakeCall PROVE FlagInv'
<1> USE DEF RadioInv
<1>1. CASE CallStop
  BY <1>1, SameBlocksFlags DEF InFlight, Retuning, CallStop, StopFirst, receiver
<1>2. CASE CallStart
  BY <1>2, SameBlocksFlags DEF InFlight, Retuning, CallStart, StopFirst, receiver
<1>3. CASE CallDestroy
  BY <1>3, SameBlocksFlags DEF InFlight, Retuning, CallDestroy, StopFirst, receiver
<1>4. CASE CallTune
  <2>1. seen' = 0 /\ UNCHANGED <<rx, flags, controlFlags, ring>>
    BY <1>4 DEF CallTune, receiver
  <2>2. Unread' = Unread /\ Old' = QueueBlocks
    BY <2>1 DEF Unread, InFlight, Old, ring
  <2>3. Clear'
    BY <1>4, <2>1, <2>2 DEF CallTune, Settled, FlagInv, Evidence, Clear, InFlight
  <2>4. Ordered(Unread', Old', controlFlags')
    BY <2>2, UnreadType, OrderedOld
  <2> QED BY <2>1, <2>3, <2>4 DEF FlagInv, Evidence
<1> QED BY <1>1, <1>2, <1>3, <1>4 DEF MakeCall

LEMMA GoOnFlags == ASSUME RadioInv, GoOnWithCall PROVE FlagInv'
<1> USE DEF RadioInv
<1>1. CASE Join
  <2>1. call' \in {"idle", "startReady", "destroyReady"} /\ (UNCHANGED ring \/ EmptyRing)
    BY <1>1 DEF Join
  <2>2. ~InFlight /\ ~InFlight' /\ UNCHANGED <<seen, controlFlags>>
    BY <1>1 DEF Join, Joined, InFlight
  <2> QED BY <2>1, <2>2, DropBlocksFlags DEF Retuning
<1>2. CASE Destroy
  BY <1>2, DropBlocksFlags DEF Destroy, receiver, TypesInv, WithinStream, InFlight, Retuning
<1>3. CASE TuneUnlock
  BY <1>3, SameBlocksFlags DEF InFlight, Retuning, TuneUnlock, receiver
<1>4. CASE TuneFlags
  <2>1. Unread' = Unread /\ Old' = Old /\ Retuning /\ UNCHANGED seen /\ call' = "retunePoller"
    BY <1>4 DEF TuneFlags, receiver, ring, Unread, InFlight, Old, Retuning
  <2>2. seen = 0 /\ Old = QueueBlocks
    BY <2>1 DEF FlagInv, Old
  <2>3. Ordered(Unread', Old', controlFlags')
    BY <2>1, <2>2, UnreadType, OrderedOld
  <2> QED BY <2>1, <2>2, <2>3 DEF FlagInv, Evidence
<1>5. CASE TunePoller
  BY <1>5, SameBlocksFlags DEF InFlight, Retuning, TunePoller, receiver
<1>6. ASSUME NEW len \in Lengths, OpenStream(len) PROVE FlagInv'
  BY <1>6, DropBlocksFlags DEF OpenStream, TypesInv, WithinStream, InFlight, Retuning
<1>7. ASSUME NEW len \in Lengths, OpenFails(len) PROVE FlagInv'
  BY <1>7, DropBlocksFlags DEF OpenFails, TypesInv, WithinStream, InFlight, Retuning
<1> QED BY <1>1, <1>2, <1>3, <1>4, <1>5, <1>6, <1>7 DEF GoOnWithCall

LEMMA RxLoopFlags == ASSUME RadioInv, RxLoop PROVE FlagInv'
<1> USE DEF RadioInv
<1>1. CASE CheckStop
  BY <1>1, SameBlocksFlags DEF InFlight, Retuning, CheckStop, control
<1>2. CASE AcquireBlock
  <2>1. ~InFlight /\ ~InFlight' /\ UNCHANGED <<call, seen, controlFlags, blocks>>
    BY <1>2 DEF AcquireBlock, InFlight, control
  <2>2. Unread' = Unread /\ Old' = Old
    BY <2>1 DEF Unread, Old
  <2>3. Clear => Clear'
    BY <2>1, <2>2 DEF Clear
  <2>4. NotEarly => NotEarly'
    <3>1. pad = "none"
      BY <1>2 DEF TypesInv, PlaceKept, Holds, AcquireBlock
    <3> QED BY <1>2, <3>1 DEF NotEarly, AcquireBlock
  <2> QED BY <2>1, <2>2, <2>3, <2>4 DEF FlagInv, Evidence, Retuning
<1>3. CASE TakeFlags
  <2>1. ~InFlight /\ InFlight' /\ UNCHANGED <<call, seen, ring>> /\ Unread = blocks
        /\ flags' = controlFlags /\ controlFlags' = controlFlags \ {CHANGE}
    BY <1>3 DEF TakeFlags, Unread, InFlight, control
  <2>2. Old' = Old /\ (NotEarly' <=> NotEarly)
    BY <2>1 DEF Old, NotEarly, ring
  <2>3. Unread' = IF pad = "passed" THEN blocks ELSE Append(blocks, controlFlags)
    BY <2>1 DEF Unread, ring
  <2>4. Ordered(Unread', Old', controlFlags')
    <3>1. CASE pad = "passed"
      <4>1. Unread' = <<>> /\ Len(Unread') = 0
        BY <2>3, <3>1, EmptySeq DEF TypesInv, PlaceKept
      <4> QED BY <4>1, <2>2, UnreadType, OrderedOld
    <3>2. CASE pad # "passed"
      BY <3>2, <2>1, <2>2, <2>3, UnreadType, OrderedTake DEF FlagInv
    <3> QED BY <3>1, <3>2
  <2>5. Clear => Clear'
    <3> SUFFICES ASSUME Clear PROVE Clear'
      OBVIOUS
    <3>1. blocks \in Seq(FlagSets) /\ controlFlags \in FlagSets /\ Len(blocks) \in Nat
      BY <2>1, UnreadType
    <3>2. \A i \in 1..Len(Unread') : UNLOCKED \notin Unread'[i]
      BY <2>1, <2>3, <3>1, AppendProperties DEF Clear
    <3> QED BY <2>1, <3>2 DEF Clear
  <2> QED BY <2>1, <2>2, <2>4, <2>5 DEF FlagInv, Evidence, Retuning
<1>4. CASE ReceiveSome
  <2> PICK n \in 1..blockLen : Receive(n)
    BY <1>4 DEF ReceiveSome
  <2> QED BY SameBlocksFlags DEF InFlight, Retuning, Receive, control
<1>5. CASE TestLock
  BY <1>5, SameBlocksFlags DEF InFlight, Retuning, TestLock, control
<1>6. CASE ClearUnlocked
  <2>1. /\ InFlight /\ InFlight' /\ UNCHANGED <<call, seen, flags, ring>>
        /\ controlFlags' = controlFlags \ {UNLOCKED}
    BY <1>6 DEF ClearUnlocked, InFlight, control
  <2>2. Unread' = Unread /\ Old' = Old /\ (NotEarly' <=> NotEarly)
    BY <2>1 DEF Unread, Old, NotEarly, ring
  <2>3. Ordered(Unread', Old', controlFlags')
    BY <2>1, <2>2, OrderedReset DEF FlagInv
  <2>4. Clear => Clear'
    BY <2>1, <2>2 DEF Clear
  <2> QED BY <2>1, <2>2, <2>3, <2>4 DEF FlagInv, Evidence, Retuning
<1>7. CASE CommitBlock
  <2>1. /\ InFlight /\ ~InFlight' /\ UNCHANGED <<call, seen, controlFlags>>
        /\ blocks' = Unread
    BY <1>7 DEF CommitBlock, Unread, InFlight, control
  <2>2. Unread' = Unread /\ Old' = Old
    BY <2>1 DEF Unread, Old
  <2>3. Clear => Clear'
    BY <2>1, <2>2 DEF Clear
  <2>4. NotEarly'
    <3>1. CASE pad = "passed"
      BY <1>7, <3>1 DEF NotEarly, CommitBlock, TypesInv, PlaceKept
    <3>2. CASE pad # "passed"
      <4>1. blocks' # <<>>
        <5>1. blocks \in Seq(FlagSets) /\ flags \in FlagSets
          BY DEF TypesInv, Types, DataTypes, FlagSets
        <5>2. blocks' = Append(blocks, flags)
          BY <1>7, <3>2 DEF CommitBlock
        <5> QED BY <5>1, <5>2, AppendProperties
      <4> QED BY <4>1 DEF NotEarly
    <3> QED BY <3>1, <3>2
  <2> QED BY <2>1, <2>2, <2>3, <2>4 DEF FlagInv, Evidence, Retuning
<1> QED BY <1>1, <1>2, <1>3, <1>4, <1>5, <1>6, <1>7 DEF RxLoop

\* The reader takes the oldest of the blocks begun.
LEMMA ReadUnread ==
    ASSUME TypesInv, ReadBlock
    PROVE  Unread # <<>> /\ Head(Unread) = Head(blocks) /\ Unread' = Tail(Unread)
<1>1. blocks \in Seq(FlagSets) /\ blocks # <<>> /\ flags \in FlagSets
  BY DEF TypesInv, Types, DataTypes, FlagSets, ReadBlock
<1>2. blocks' = Tail(blocks) /\ UNCHANGED <<rx, flags, pad>> /\ pad # "passed"
  BY DEF ReadBlock, receiver, TypesInv, PlaceKept
<1>3. CASE ~InFlight
  BY <1>1, <1>2, <1>3 DEF Unread, InFlight
<1>4. CASE InFlight
  <2> DEFINE t == Append(blocks, flags)
  <2>1. /\ t \in Seq(FlagSets) /\ t # <<>> /\ Len(t) = Len(blocks) + 1
        /\ t[Len(blocks) + 1] = flags /\ \A i \in 1..Len(blocks) : t[i] = blocks[i]
    BY <1>1, AppendProperties
  <2>2. Len(blocks) \in Nat \ {0} /\ Tail(blocks) \in Seq(FlagSets)
    BY <1>1, LenProperties, EmptySeq, HeadTailProperties
  <2>3. Tail(t) = Append(Tail(blocks), flags)
    <3> DEFINE u == Append(Tail(blocks), flags)
    <3>1. u \in Seq(FlagSets) /\ Tail(t) \in Seq(FlagSets) /\ Len(u) = Len(Tail(t))
      BY <1>1, <2>1, <2>2, AppendProperties, HeadTailProperties
    <3>2. ASSUME NEW i \in 1..Len(u) PROVE u[i] = Tail(t)[i]
      BY <1>1, <2>1, <2>2, AppendProperties, HeadTailProperties
    <3> QED BY <3>1, <3>2, SeqEqual
  <2>4. Head(t) = Head(blocks)
    BY <1>1, <2>1, <2>2, HeadTailProperties
  <2> QED BY <1>2, <1>4, <2>1, <2>3, <2>4 DEF Unread, InFlight
<1> QED BY <1>3, <1>4

\* A block that is read is one of the old ones, while there may be any.
LEMMA ObserveOld ==
    ASSUME TypesInv, FlagInv, NEW f, Observe(f)
    PROVE  Old \in Nat /\ Old' \in Nat /\ Old <= Old' + 1
<1>1. seen \in 0..(QueueBlocks + 2)
  BY DEF TypesInv, Types, DataTypes
<1> QED BY <1>1, ObserveType DEF Observe, Old, Settled

LEMMA ReadBlockFlags == ASSUME RadioInv, ReadBlock PROVE FlagInv'
<1> USE DEF RadioInv
<1>1. Unread # <<>> /\ Head(Unread) = Head(blocks) /\ Unread' = Tail(Unread)
  BY ReadUnread
<1>2. /\ UNCHANGED <<call, controlFlags, rx, flags>> /\ Observe(Head(blocks))
      /\ (InFlight' <=> InFlight)
  BY DEF ReadBlock, control, receiver, InFlight
<1>3. Unread \in Seq(FlagSets) /\ controlFlags \in FlagSets /\ seen \in 0..(QueueBlocks + 2)
  BY UnreadType DEF TypesInv, Types, DataTypes
<1>4. Old \in Nat /\ Old' \in Nat /\ Old <= Old' + 1
  BY <1>2, ObserveOld
<1>5. Ordered(Unread', Old', controlFlags')
  BY <1>1, <1>2, <1>3, <1>4, OrderedRead DEF FlagInv
<1>6. Clear => Clear'
  <2> SUFFICES ASSUME Clear PROVE Clear'
    OBVIOUS
  <2>1. \A i \in 1..Len(Unread') : UNLOCKED \notin Unread'[i]
    <3>1. /\ Len(Unread) \in Nat \ {0} /\ Len(Unread') = Len(Unread) - 1
          /\ \A i \in 1..Len(Unread') : Unread'[i] = Unread[i + 1]
      BY <1>1, <1>3, HeadTailProperties, LenProperties, EmptySeq
    <3> QED BY <3>1 DEF Clear
  <2> QED BY <1>2, <2>1 DEF Clear
<1>7. ASSUME seen' > QueueBlocks PROVE Clear'
  <2>1. ~Retuning /\ seen >= QueueBlocks /\ Old = 0
    BY <1>2, <1>3, <1>7 DEF Observe, Old, FlagInv
  <2>2. UNLOCKED \notin Head(Unread)
    BY <1>1, <1>2, <1>3, <1>7, <2>1 DEF Observe, Settled, BlockFlags
  <2>3. UNLOCKED \notin controlFlags /\ \A i \in 1..Len(Unread') : UNLOCKED \notin Unread'[i]
    BY <1>1, <1>3, <1>4, <2>1, <2>2, OrderedRead DEF FlagInv
  <2>4. InFlight => UNLOCKED \notin flags
    <3> SUFFICES ASSUME InFlight PROVE UNLOCKED \notin flags
      OBVIOUS
    <3>1. pad' # "passed" /\ blocks' \in Seq(FlagSets)
      BY HeadTailProperties DEF ReadBlock, TypesInv, Types, DataTypes, PlaceKept, FlagSets
    <3>2. Unread' = Append(blocks', flags) /\ flags \in FlagSets
      BY <1>2, <3>1 DEF Unread, TypesInv, Types, DataTypes, FlagSets
    <3>3. Len(Unread') \in 1..Len(Unread') /\ Unread'[Len(Unread')] = flags
      BY <3>1, <3>2, AppendProperties, LenProperties
    <3> QED BY <2>3, <3>3
  <2> QED BY <1>2, <2>3, <2>4 DEF Clear
<1>8. Retuning' => seen' = 0
  BY <1>2 DEF Retuning, Observe, FlagInv
<1> QED BY <1>2, <1>3, <1>5, <1>6, <1>7, <1>8 DEF FlagInv, Evidence

LEMMA ReadEarlyFlags == ASSUME RadioInv, ReadEarly PROVE FlagInv'
<1> USE DEF RadioInv
<1>1. PICK f \in HeaderFound : Observe(f)
  BY DEF ReadEarly
<1>2. /\ UNCHANGED <<call, controlFlags, rx, flags, blocks>> /\ (InFlight' <=> InFlight)
      /\ blocks = <<>> /\ pad = "ahead" /\ pad' = "passed"
  BY DEF ReadEarly, control, receiver, InFlight
<1>3. seen \in 0..(QueueBlocks + 2)
  BY DEF TypesInv, Types, DataTypes
<1>4. Unread' = <<>> /\ Len(Unread') = 0
  BY <1>2, EmptySeq DEF Unread
<1>5. Ordered(Unread', Old', controlFlags')
  BY <1>1, <1>4, ObserveOld, OrderedOld
<1>6. Clear => Clear'
  BY <1>2, <1>4 DEF Clear
<1>7. NotEarly' /\ ~NotEarly
  BY <1>2 DEF NotEarly
<1>8. ASSUME seen' = QueueBlocks + 2 PROVE Clear
  <2>1. seen \in {QueueBlocks + 1, QueueBlocks + 2}
    BY <1>1, <1>3, <1>8 DEF Observe, Settled, FlagInv
  <2> QED BY <2>1, <1>7 DEF FlagInv, Evidence
<1>9. Retuning' => seen' = 0
  BY <1>1, <1>2 DEF Retuning, Observe, FlagInv
<1> QED BY <1>2, <1>5, <1>6, <1>7, <1>8, <1>9 DEF FlagInv, Evidence

-----------------------------------------------------------------------------
(* The lock.                                                               *)

LEMMA CallLock == ASSUME Careful, RadioInv, MakeCall PROVE LockInv'
<1> USE DEF RadioInv, TypesInv, Types, DataTypes
<1>1. CASE CallStop
  BY <1>1 DEF LockInv, NoPoller, CallStop, StopFirst, receiver
<1>2. CASE CallStart
  BY <1>2 DEF LockInv, NoPoller, CallStart, StopFirst, receiver
<1>a. ASSUME Settled PROVE Clear
  BY <1>a DEF Settled, FlagInv, Evidence
<1>3. CASE CallDestroy
  BY <1>3, <1>a DEF LockInv, NoPoller, Clear, CallDestroy, StopFirst, receiver
<1>4. CASE CallTune
  <2>1. NoPoller
    BY <1>4, <1>a DEF CallTune, LockInv, Clear
  <2>2. rx # "clear"
    BY <1>4, <1>a DEF CallTune, LockInv, Clear, InFlight
  <2> QED BY <1>4, <2>1, <2>2 DEF LockInv, NoPoller, CallTune, receiver
<1> QED BY <1>1, <1>2, <1>3, <1>4 DEF MakeCall

LEMMA GoOnLock == ASSUME RadioInv, GoOnWithCall PROVE LockInv'
<1> USE DEF RadioInv, TypesInv, Types, DataTypes
<1>1. CASE Join
  <2>1. /\ call = "stopJoin" => call' = "idle"
        /\ call = "startJoin" => call' = "startReady"
        /\ call = "destroyJoin" => call' = "destroyReady"
        /\ call \in {"stopJoin", "startJoin", "destroyJoin"}
    BY <1>1 DEF Join
  <2>2. rx' = "none" /\ UNCHANGED <<controlFlags, loLocked, pollers, hwLocked>>
    BY <1>1 DEF Join, Joined
  <2> QED BY <2>1, <2>2 DEF LockInv, NoPoller
<1>2. CASE Destroy
  BY <1>2 DEF LockInv, NoPoller, Destroy, receiver
<1>3. CASE TuneUnlock
  <2>1. rx # "clear"
    BY <1>3, NoResetDuringRetune DEF TuneUnlock, Retuning
  <2> QED BY <1>3, <2>1 DEF LockInv, NoPoller, TuneUnlock, LockForgotten, receiver
<1>4. CASE TuneFlags
  BY <1>4 DEF LockInv, NoPoller, TuneFlags, receiver
<1>5. CASE TunePoller
  <2>a. NoPoller /\ ~loLocked
    BY <1>5 DEF TunePoller, LockInv
  <2>b. pollers' = [polling |-> 1, reporting |-> 0]
    BY <1>5, <2>a DEF TunePoller, NoPoller
  <2>1. pollers' = [polling |-> 1, reporting |-> 0] /\ ~loLocked /\ call' = "idle"
    BY <1>5, <2>a, <2>b DEF TunePoller
  <2>2. UNLOCKED \in controlFlags
    BY <1>5, <2>1 DEF TunePoller, LockInv
  <2> QED BY <1>5, <2>1, <2>2 DEF LockInv, NoPoller, TunePoller, receiver
<1>6. ASSUME NEW len \in Lengths, OpenStream(len) PROVE LockInv'
  BY <1>6 DEF LockInv, NoPoller, OpenStream
<1>7. ASSUME NEW len \in Lengths, OpenFails(len) PROVE LockInv'
  BY <1>7 DEF LockInv, NoPoller, OpenFails
<1> QED BY <1>1, <1>2, <1>3, <1>4, <1>5, <1>6, <1>7 DEF GoOnWithCall

LEMMA RxLoopLock == ASSUME RadioInv, RxLoop PROVE LockInv'
<1> USE DEF RadioInv, TypesInv, Types, DataTypes
<1>1. CASE CheckStop
  BY <1>1 DEF LockInv, NoPoller, CheckStop, control
<1>2. CASE AcquireBlock
  BY <1>2 DEF LockInv, NoPoller, AcquireBlock, control
<1>3. CASE TakeFlags
  <2>1. UNLOCKED \in controlFlags' <=> UNLOCKED \in controlFlags
    BY <1>3 DEF TakeFlags, CHANGE, UNLOCKED
  <2> QED BY <1>3, <2>1 DEF LockInv, NoPoller, TakeFlags, control
<1>4. CASE ReceiveSome
  <2> PICK n \in 1..blockLen : Receive(n)
    BY <1>4 DEF ReceiveSome
  <2> QED BY DEF LockInv, NoPoller, Receive, control
<1>5. CASE TestLock
  BY <1>5 DEF LockInv, NoPoller, TestLock, LockSeen, control
<1>6. CASE ClearUnlocked
  BY <1>6 DEF LockInv, NoPoller, ClearUnlocked, control
<1>7. CASE CommitBlock
  BY <1>7 DEF LockInv, NoPoller, CommitBlock, control
<1> QED BY <1>1, <1>2, <1>3, <1>4, <1>5, <1>6, <1>7 DEF RxLoop

LEMMA OtherLock ==
    ASSUME RadioInv, PollSensor \/ ReportLock \/ DeviceLocks \/ ReadBlock \/ ReadEarly
    PROVE  LockInv'
<1> USE DEF RadioInv, TypesInv, Types, DataTypes
<1>1. CASE PollSensor
  <2>1. ~NoPoller
    BY <1>1 DEF PollSensor, NoPoller
  <2>2. /\ pollers'.polling = pollers.polling - 1
        /\ pollers'.reporting = pollers.reporting + 1
    BY <1>1 DEF PollSensor
  <2> QED BY <1>1, <2>1, <2>2 DEF LockInv, PollSensor, control, receiver
<1>2. CASE ReportLock
  <2>1. ~NoPoller /\ pollers = [polling |-> 0, reporting |-> 1] /\ hwLocked
    BY <1>2 DEF ReportLock, NoPoller, LockInv
  <2>2. NoPoller' /\ loLocked'
    BY <1>2, <2>1 DEF ReportLock, NoPoller
  <2> QED BY <1>2, <2>1, <2>2 DEF LockInv, NoPoller, ReportLock, control, receiver
<1>3. CASE DeviceLocks
  BY <1>3 DEF LockInv, NoPoller, DeviceLocks, control, receiver
<1>4. CASE ReadBlock
  BY <1>4 DEF LockInv, NoPoller, ReadBlock, control, receiver
<1>5. CASE ReadEarly
  BY <1>5 DEF LockInv, NoPoller, ReadEarly, control, receiver
<1> QED BY <1>1, <1>2, <1>3, <1>4, <1>5

\* The pollers, the device and the reader keep the flags of the blocks.
LEMMA OtherFlags ==
    ASSUME RadioInv, PollSensor \/ ReportLock \/ DeviceLocks \/ ReadBlock \/ ReadEarly
    PROVE  FlagInv'
<1> USE DEF RadioInv
<1>1. CASE PollSensor
  BY <1>1, SameBlocksFlags DEF PollSensor, InFlight, Retuning, control, receiver
<1>2. CASE ReportLock
  BY <1>2, SameBlocksFlags DEF ReportLock, InFlight, Retuning, control, receiver
<1>3. CASE DeviceLocks
  BY <1>3, SameBlocksFlags DEF DeviceLocks, InFlight, Retuning, control, receiver
<1> QED BY <1>1, <1>2, <1>3, ReadBlockFlags, ReadEarlyFlags

-----------------------------------------------------------------------------
LEMMA InitRadio == Init => RadioInv
<1> SUFFICES ASSUME Init PROVE RadioInv
  OBVIOUS
<1>1. TypesInv
  BY InitTypes DEF TypesInv
<1>2. Unread = <<>> /\ Len(Unread) = 0 /\ seen = 0 /\ Old = QueueBlocks
  BY EmptySeq DEF Init, NewRadio, Unread, InFlight, Old
<1>3. FlagInv
  <2>1. Ordered(Unread, Old, controlFlags)
    BY <1>2, OrderedOld
  <2>2. Clear
    BY <1>2 DEF Clear, Init, NewRadio, InFlight
  <2> QED BY <1>2, <2>1, <2>2 DEF FlagInv, Evidence
<1>4. LockInv
  BY DEF LockInv, NoPoller, Init, NewRadio, SetConfiguration
<1> QED BY <1>1, <1>3, <1>4 DEF RadioInv

LEMMA NextRadio == ASSUME Careful, RadioInv, [Next]_vars PROVE RadioInv'
<1>1. TypesInv'
  BY NextTypes DEF RadioInv
<1>2. CASE UNCHANGED vars
  <2>1. FlagInv'
    BY <1>2, SameBlocksFlags DEF RadioInv, InFlight, Retuning, vars, control, receiver
  <2>2. LockInv'
    BY <1>2 DEF RadioInv, LockInv, NoPoller, vars, control, receiver
  <2> QED BY <1>1, <2>1, <2>2 DEF RadioInv
<1>3. CASE MakeCall
  BY <1>1, <1>3, CallFlags, CallLock DEF RadioInv
<1>4. CASE GoOnWithCall
  BY <1>1, <1>4, GoOnFlags, GoOnLock DEF RadioInv
<1>5. CASE RxLoop
  BY <1>1, <1>5, RxLoopFlags, RxLoopLock DEF RadioInv
<1>6. CASE PollSensor \/ ReportLock \/ DeviceLocks \/ ReadBlock \/ ReadEarly
  BY <1>1, <1>6, OtherFlags, OtherLock DEF RadioInv
<1> QED BY <1>2, <1>3, <1>4, <1>5, <1>6 DEF Next

LEMMA RadioInvSuffices == RadioInv => UnlockFlagKept /\ ThreadsWithinLifetime
<1> SUFFICES ASSUME RadioInv PROVE UnlockFlagKept /\ ThreadsWithinLifetime
  OBVIOUS
<1>1. UnlockFlagKept
  BY DEF RadioInv, LockInv, UnlockFlagKept
<1>2. destroyed => call = "gone" /\ rx = "none"
  BY DEF RadioInv, TypesInv, WithinStream
<1>3. destroyed => pollers = [polling |-> 0, reporting |-> 0]
  BY <1>2 DEF RadioInv, LockInv, NoPoller
<1>4. rx # "none" => queue /\ streaming
  BY DEF RadioInv, TypesInv, WithinStream
<1> QED BY <1>1, <1>2, <1>3, <1>4 DEF ThreadsWithinLifetime

(* With a careful application, from the return of set_center_frequency     *)
(* until the LO has locked every block that is begun carries               *)
(* BF_LO_UNLOCKED, however full the queue is when it is called and         *)
(* whichever blocks the reader is handed early (USRPRadioRx.cpp:113-144    *)
(* against 204-251).                                                       *)
THEOREM UnlockFlagKeptCorrect == ASSUME Careful PROVE Spec => []UnlockFlagKept
<1>1. RadioInv /\ [Next]_vars => RadioInv'
  BY NextRadio
<1> QED BY InitRadio, <1>1, RadioInvSuffices, PTL DEF Spec

(* With a careful application, neither the receive thread nor a poller is  *)
(* left when what it uses is gone, whichever blocks the reader was handed  *)
(* early.                                                                  *)
THEOREM LifetimesCorrect == ASSUME Careful PROVE Spec => []ThreadsWithinLifetime
<1>1. RadioInv /\ [Next]_vars => RadioInv'
  BY NextRadio
<1> QED BY InitRadio, <1>1, RadioInvSuffices, PTL DEF Spec
=============================================================================
