--------------------------- MODULE SPSCQueueProofs ---------------------------
(***************************************************************************)
(* Type correctness of SPSCQueue in every regime: any mix of sizes, with   *)
(* or without pads, serialised callers or not.  Even a consumer that reads *)
(* a torn header gets a slot that starts inside the buffer.  Then, for     *)
(* serialised callers and messages of one length in lines, that the queue  *)
(* is a lossless channel where pads have to be written and skipped.        *)
(***************************************************************************)
EXTENDS SPSCQueue, Integers, TLAPS

USE QueueAssumption

\* Rounding up reaches the next multiple of the cache line.
LEMMA RoundUpBounds ==
    ASSUME NEW n \in Nat
    PROVE  /\ RoundUp(n) \in Nat
           /\ n <= RoundUp(n)
           /\ \E c \in Nat : RoundUp(n) = c * kCacheLineSize
<1> DEFINE c == (n + kCacheLineSize - 1) \div kCacheLineSize
<1>1. c \in Nat /\ n + kCacheLineSize - 1 < kCacheLineSize * c + kCacheLineSize
  OBVIOUS
<1>2. RoundUp(n) = c * kCacheLineSize /\ c * kCacheLineSize \in Nat
  BY <1>1 DEF RoundUp
<1>3. n <= c * kCacheLineSize
  <2> HIDE DEF c
  <2> QED BY <1>1
<1> HIDE DEF c
<1> QED BY <1>1, <1>2, <1>3

\* An index reduced modulo the capacity addresses the buffer.
LEMMA ModInBuffer ==
    ASSUME NEW n \in Nat
    PROVE  Mod(n) \in 0..Capacity - 1
BY DEF Mod

\* Writing a header keeps the buffer a function on its bytes.
LEMMA HeaderWriteType ==
    ASSUME buffer \in [0..Capacity - 1 -> Cell],
           NEW off, NEW p \in BOOLEAN, NEW n \in Nat, WriteHeaderAt(off, p, n)
    PROVE  buffer' \in [0..Capacity - 1 -> Cell]
<1>1. Header(p, n) \in Cell /\ HeaderTail \in Cell
  BY DEF Header, HeaderTail, Cell
<1> QED BY <1>1 DEF WriteHeaderAt

\* So does writing a payload.
LEMMA PayloadWriteType ==
    ASSUME buffer \in [0..Capacity - 1 -> Cell],
           NEW slot, NEW n \in Nat, WritePayload(slot, n)
    PROVE  buffer' \in [0..Capacity - 1 -> Cell]
<1>1. Payload(n) \in Cell
  BY DEF Payload, Cell
<1> QED BY <1>1 DEF WritePayload

\* A header read from the buffer, torn or not, has a natural number for its size.
LEMMA HeadersAtType ==
    ASSUME buffer \in [0..Capacity - 1 -> Cell],
           NEW off \in 0..Capacity - 1, NEW h \in HeadersAt(off)
    PROVE  h.padded \in BOOLEAN /\ h.size \in Nat
BY DEF HeadersAt, Cell

\* What is read as a message number is one.
LEMMA PayloadOfType ==
    ASSUME sent \in Seq(MessageType), NEW slot
    PROVE  PayloadOf(slot) \in Nat
<1>1. Len(sent) \in Nat
  OBVIOUS
<1> DEFINE P(n) == \A i \in SlotBytes(slot) : buffer[i] = Payload(n)
           Q(n) == \A i \in SlotBytes(slot) : i \in DOMAIN buffer /\ buffer[i] = Payload(n)
<1>2. CASE \E n \in 1..Len(sent) : Q(n)
  <2>1. \E n \in 1..Len(sent) : P(n)
    BY <1>2
  <2>2. (CHOOSE n \in 1..Len(sent) : P(n)) \in 1..Len(sent)
    BY <2>1
  <2> QED BY <1>1, <1>2, <2>2 DEF PayloadOf
<1>3. CASE ~\E n \in 1..Len(sent) : Q(n)
  BY <1>3 DEF PayloadOf
<1> QED BY <1>2, <1>3

LEMMA TypeInit == Init => TypeOK
<1> SUFFICES ASSUME Init PROVE TypeOK
  OBVIOUS
<1>1. buffer \in [0..Capacity - 1 -> Cell]
  BY DEF Init, Junk, Cell
<1>2. NoSlot \in SlotType
  BY DEF NoSlot, SlotType
<1> QED BY <1>1, <1>2 DEF Init, TypeOK, ProducerStates, ConsumerStates

\* The producer's steps keep the types.
LEMMA TypeProducer == TypeOK /\ ProducerStep => TypeOK'
<1> SUFFICES ASSUME TypeOK, ProducerStep PROVE TypeOK'
  OBVIOUS
<1> USE DEF TypeOK, ProducerStates, ConsumerStates, consumerVars
<1>0. NoSlot \in SlotType
  BY DEF NoSlot, SlotType
<1>1. ASSUME NEW size \in Sizes, AcquireWrite(size) PROVE TypeOK'
  <2>1. Mod(writeIndex) \in 0..Capacity - 1 /\ size \in Nat
    BY ModInBuffer
  <2>2. [data |-> HeaderSize + (IF NeedsPad(size) THEN 0 ELSE Mod(writeIndex)),
         size |-> size] \in SlotType
    BY <2>1 DEF SlotType
  <2>3. wslot' \in SlotType
    BY <1>1, <2>2 DEF AcquireWrite
  <2> QED BY <1>1, <2>3 DEF AcquireWrite
<1>2. CASE WritePad
  <2>1. PadSize \in Nat
    <3>1. Mod(writeIndex) \in 0..Capacity - 1
      BY ModInBuffer
    <3>2. PICK m \in 0..Capacity - 1 : m = Mod(writeIndex)
      BY ONLY <3>1
    <3>3. HeaderSize \in Nat /\ Capacity \in Nat
      BY QueueAssumption
    <3>4. Capacity - m + HeaderSize \in Nat
      BY ONLY <3>3, m \in 0..Capacity - 1
    <3> QED BY ONLY <3>2, <3>4 DEF PadSize
  <2>2. buffer' \in [0..Capacity - 1 -> Cell]
    BY <1>2, <2>1, HeaderWriteType DEF WritePad
  <2> QED BY <1>2, <2>2 DEF WritePad
<1>3. CASE PublishPad
  <2>1. WriteIndexAfterPad \in Nat
    <3>1. Mod(writeIndex) \in 0..Capacity - 1
      BY ModInBuffer
    <3>2. PICK m \in 0..Capacity - 1 : m = Mod(writeIndex)
      BY ONLY <3>1
    <3>3. writeIndex \in Nat /\ HeaderSize \in Nat /\ Capacity \in Nat
      BY QueueAssumption
    <3>4. writeIndex + (Capacity - m + HeaderSize) + HeaderSize \in Nat
      BY ONLY <3>3, m \in 0..Capacity - 1
    <3> QED BY ONLY <3>2, <3>4 DEF PadSize, WriteIndexAfterPad
  <2> QED BY <1>3, <2>1 DEF PublishPad
<1>4. CASE WriteHeader
  <2>1. wslot.size \in Nat
    BY DEF SlotType
  <2>2. buffer' \in [0..Capacity - 1 -> Cell]
    BY <1>4, <2>1, HeaderWriteType DEF WriteHeader
  <2> QED BY <1>4, <2>2 DEF WriteHeader
<1>5. CASE Fill
  <2>1. Len(sent) + 1 \in Nat
    OBVIOUS
  <2>2. buffer' \in [0..Capacity - 1 -> Cell]
    BY <1>5, <2>1, PayloadWriteType DEF Fill
  <2> QED BY <1>5, <2>2 DEF Fill
<1>6. CASE CommitWrite
  <2>1. wslot.size \in Nat
    BY DEF SlotType
  <2>2. WriteIndexAfterCommit \in Nat
    <3>1. writeIndex + wslot.size + HeaderSize \in Nat
      BY <2>1
    <3> QED BY <3>1, RoundUpBounds DEF WriteIndexAfterCommit
  <2>3. [id |-> Len(sent) + 1, size |-> wslot.size] \in MessageType
    BY <2>1 DEF MessageType
  <2>4. sent' \in Seq(MessageType) /\ writeIndex' \in Nat
    <3>1. CASE wslot.size = 0
      BY <1>6, <3>1 DEF CommitWrite
    <3>2. CASE wslot.size # 0
      <4>1. /\ writeIndex' = WriteIndexAfterCommit
            /\ sent' = Append(sent, [id |-> Len(sent) + 1, size |-> wslot.size])
        BY <1>6, <3>2 DEF CommitWrite
      <4> QED BY <2>2, <2>3, <4>1
    <3> QED BY <3>1, <3>2
  <2> QED BY <1>0, <1>6, <2>4 DEF CommitWrite
<1>7. CASE AbandonWrite
  BY <1>0, <1>7 DEF AbandonWrite
<1> QED BY <1>1, <1>2, <1>3, <1>4, <1>5, <1>6, <1>7 DEF ProducerStep

\* The consumer's steps keep the types.
LEMMA TypeConsumer == TypeOK /\ ConsumerStep => TypeOK'
<1> SUFFICES ASSUME TypeOK, ConsumerStep PROVE TypeOK'
  OBVIOUS
<1> USE DEF TypeOK, ProducerStates, ConsumerStates, producerVars
<1>0. NoSlot \in SlotType
  BY DEF NoSlot, SlotType
<1>1. CASE AcquireRead
  BY <1>1 DEF AcquireRead
<1>2. CASE ReadHeader
  <2>1. Mod(readIndex) \in 0..Capacity - 1
    BY ModInBuffer
  <2>2. PICK h \in HeadersAt(Mod(readIndex)) :
           /\ rslot' = [data |-> Mod(readIndex) + HeaderSize, size |-> h.size]
           /\ rpc' = IF h.padded THEN "skipPad" ELSE "owned"
    BY <1>2 DEF ReadHeader, ReadSlotData
  <2>3. h.size \in Nat
    BY <2>1, HeadersAtType
  <2>4. rslot' \in SlotType
    BY <2>1, <2>2, <2>3 DEF SlotType
  <2> QED BY <1>2, <2>2, <2>4 DEF ReadHeader
<1>3. CASE SkipPad
  <2>1. readIndex + rslot.size + HeaderSize \in Nat
    BY DEF SlotType
  <2> QED BY <1>3, <2>1 DEF SkipPad, ReadIndexAfterPad
<1>4. CASE ReadFirst
  <2>1. PICK h \in HeadersAt(0) : rslot' = [data |-> HeaderSize, size |-> h.size]
    BY <1>4 DEF ReadFirst
  <2>2. 0 \in 0..Capacity - 1
    OBVIOUS
  <2>3. h.size \in Nat
    BY <2>2, HeadersAtType
  <2>4. rslot' \in SlotType
    BY <2>1, <2>3 DEF SlotType
  <2> QED BY <1>4, <2>4 DEF ReadFirst
<1>5. CASE Consume
  <2>1. [id |-> PayloadOf(rslot), size |-> rslot.size] \in MessageType
    BY PayloadOfType DEF MessageType, SlotType
  <2>2. received' \in Seq(MessageType)
    BY <1>5, <2>1 DEF Consume
  <2> QED BY <1>5, <2>2 DEF Consume
<1>6. CASE CommitRead
  <2>1. readIndex + rslot.size + HeaderSize \in Nat
    BY DEF SlotType
  <2>2. readIndex' \in Nat
    BY <1>6, <2>1, RoundUpBounds DEF CommitRead, ReadIndexAfterCommit
  <2> QED BY <1>0, <1>6, <2>2 DEF CommitRead
<1>7. CASE AbandonRead
  BY <1>0, <1>7 DEF AbandonRead
<1> QED BY <1>1, <1>2, <1>3, <1>4, <1>5, <1>6, <1>7 DEF ConsumerStep

\* Every behaviour of the queue is well typed, whatever the sizes and however the
\* two threads interleave.
THEOREM TypeCorrect == Spec => []TypeOK
<1>1. TypeOK /\ [Next]_vars => TypeOK'
  <2>1. TypeOK /\ UNCHANGED vars => TypeOK'
    BY DEF TypeOK, vars, producerVars, consumerVars
  <2> QED BY <2>1, TypeProducer, TypeConsumer DEF Next
<1> QED BY TypeInit, <1>1, PTL DEF Spec

HIDE QueueAssumption

-----------------------------------------------------------------------------
(***************************************************************************)
(* The queue with pads, used by one side at a time.                        *)
(***************************************************************************)

\* The sizes acquire_write grants when the buffer is empty.
Granted(size) == size \in Sizes /\ size + HeaderSize < Capacity

\* What the queue needs of its callers where messages do not divide the buffer evenly:
\* acquire..commit pairs of the two sides do not overlap, every slot is committed, all
\* messages take the same number of lines, and the first one of a lap, which is counted
\* with the pad's headers, takes one lap at most.  A commit of size 0 is no message.
Serialised ==
    /\ Exclusive
    /\ MaxDrops = 0
    /\ \A s, t \in Sizes \ {0} :
          Granted(s) /\ Granted(t) => RoundUp(s + HeaderSize) = RoundUp(t + HeaderSize)
    /\ \A s \in Sizes \ {0} : Granted(s) => RoundUp(s + 3 * HeaderSize) <= Capacity

\* A message acquired at index i: whether a pad precedes it, where its lap ends, where
\* its slot starts, where the index stands while the slot is held (behind a pad it has
\* moved over the pad and two headers), and where once it is committed.
Overruns(i, size) == Mod(i) + size + HeaderSize > Capacity

LapEnd(i) == i + (Capacity - Mod(i))

SlotStart(i, size) == IF Overruns(i, size) THEN LapEnd(i) ELSE i

HeldIndex(i, size) == IF Overruns(i, size) THEN LapEnd(i) + 2 * HeaderSize ELSE i

EndOf(i, size) == RoundUp(HeldIndex(i, size) + size + HeaderSize)

\* What lies in the buffer from byte off on.
HeaderOn(off, p, n) ==
    /\ buffer[off] = Header(p, n)
    /\ \A i \in off + 1 .. off + HeaderSize - 1 : buffer[i] = HeaderTail

PayloadOn(off, size, n) ==
    \A i \in off + HeaderSize .. off + HeaderSize + size - 1 : buffer[i] = Payload(n)

PadOn(i, size) ==
    Overruns(i, size) => HeaderOn(Mod(i), TRUE, Capacity - Mod(i) + HeaderSize)

\* An index at which a message may start: at a line, and either at the start of the
\* buffer or so far behind it that a message fits before it.  The latter is why a slot
\* at the start of the buffer is free when the test against the free space passes,
\* although the test does not count the pad.
Boundary(i) ==
    /\ i % kCacheLineSize = 0
    /\ \/ Mod(i) = 0
       \/ \A size \in Sizes : Granted(size) => size + HeaderSize <= Mod(i)

\* The k-th message was acquired at index at[k]; the next one is at at[Len(sent) + 1].
LayoutOf(at) ==
    /\ at[1] = 0
    /\ \A k \in 1..Len(sent) : at[k + 1] = EndOf(at[k], sent[k].size)
    /\ \A k \in 1..Len(sent) + 1 : at[k] \in Nat /\ Boundary(at[k])
    /\ \A j, k \in 1..Len(sent) + 1 : j <= k => at[j] + kCacheLineSize * (k - j) <= at[k]

HistoriesIn ==
    /\ Len(sent) <= MaxMessages
    /\ Len(received) <= Len(sent)
    /\ rpc = "consumed" => Len(received) > 0
    /\ \A k \in 1..Len(sent) : sent[k].id = k /\ sent[k].size # 0 /\ Granted(sent[k].size)
    /\ \A k \in 1..Len(received) : received[k] = sent[k]

\* The producer, at the index w behind the last message.
Unpublished == {"idle", "writePad", "publishPad"}

ProducerAt(w) ==
    /\ wpc \in Unpublished => writeIndex = w
    /\ wpc \notin Unpublished => writeIndex = HeldIndex(w, wslot.size)
    /\ wpc # "idle" =>
          /\ Len(sent) < MaxMessages
          /\ Granted(wslot.size)
          /\ wslot.data = Mod(SlotStart(w, wslot.size)) + HeaderSize
          /\ w + wslot.size + HeaderSize < readIndex + Capacity
    /\ wpc \in {"writePad", "publishPad"} => Overruns(w, wslot.size)
    /\ wpc \notin {"idle", "writePad"} => PadOn(w, wslot.size)
    /\ wpc \in {"owned", "filled"} =>
          HeaderOn(Mod(SlotStart(w, wslot.size)), FALSE, wslot.size)
    /\ wpc = "filled" =>
          PayloadOn(Mod(SlotStart(w, wslot.size)), wslot.size, Len(sent) + 1)

\* The consumer, at the index r of a message of this size.
ConsumerAt(r, size) ==
    /\ rpc \in {"idle", "readHeader", "skipPad"} => readIndex = r
    /\ rpc \notin {"idle", "readHeader", "skipPad"} => readIndex = HeldIndex(r, size)
    /\ rpc # "idle" => Released < Len(sent)
    /\ rpc \in {"skipPad", "readFirst"} => Overruns(r, size)
    /\ rpc = "skipPad" => rslot.size = Capacity - Mod(r) + HeaderSize
    /\ rpc \in {"owned", "consumed"} =>
          rslot = [data |-> Mod(SlotStart(r, size)) + HeaderSize, size |-> size]

\* The messages that are not released lie untouched where they were put.
MessagesOn(at) ==
    \A k \in Released + 1 .. Len(sent) :
        /\ PadOn(at[k], sent[k].size)
        /\ HeaderOn(Mod(SlotStart(at[k], sent[k].size)), FALSE, sent[k].size)
        /\ PayloadOn(Mod(SlotStart(at[k], sent[k].size)), sent[k].size, k)

\* The invariant: the messages are laid out at the indices at, and each side works on
\* the message its index names.
LaidOut(at) ==
    /\ TypeOK
    /\ wpc = "idle" \/ rpc = "idle"
    /\ HistoriesIn
    /\ LayoutOf(at)
    /\ ProducerAt(at[Len(sent) + 1])
    /\ ConsumerAt(at[Released + 1], sent[Released + 1].size)
    /\ MessagesOn(at)

(***************************************************************************)
(* Arithmetic of lines and laps.                                           *)
(***************************************************************************)
LEMMA BufferConstants ==
    /\ kCacheLineSize \in Nat \ {0}
    /\ HeaderSize \in Nat \ {0} /\ HeaderSize <= kCacheLineSize
    /\ Capacity \in Nat \ {0} /\ kCacheLineSize <= Capacity
    /\ Sizes \subseteq Nat
    /\ MaxMessages \in Nat
BY QueueAssumption

\* Division with remainder.
LEMMA Division ==
    ASSUME NEW a \in Nat, NEW b \in Nat \ {0}
    PROVE  \E q \in Nat, r \in 0..b - 1 : a = b * q + r /\ a % b = r /\ a \div b = q
<1>1. a \div b \in Nat /\ a % b \in 0..b - 1 /\ a = b * (a \div b) + (a % b)
  OBVIOUS
<1> QED BY <1>1

LEMMA DivisionUnique ==
    ASSUME NEW b \in Nat \ {0}, NEW q \in Nat, NEW r \in 0..b - 1
    PROVE  (b * q + r) % b = r /\ (b * q + r) \div b = q
OBVIOUS

\* The whole numbers of cache lines.
LEMMA Lines ==
    ASSUME NEW i \in Nat, i % kCacheLineSize = 0
    PROVE  \E a \in Nat : i = kCacheLineSize * a
<1>1. PICK q \in Nat, r \in 0..kCacheLineSize - 1 :
         i = kCacheLineSize * q + r /\ i % kCacheLineSize = r
  BY Division, BufferConstants
<1>2. i = kCacheLineSize * q
  BY <1>1, BufferConstants
<1> QED BY <1>2

LEMMA LinesAligned ==
    ASSUME NEW a \in Nat
    PROVE  kCacheLineSize * a \in Nat /\ (kCacheLineSize * a) % kCacheLineSize = 0
<1>1. kCacheLineSize * a \in Nat /\ kCacheLineSize * a + 0 = kCacheLineSize * a
  BY BufferConstants
<1>2. (kCacheLineSize * a + 0) % kCacheLineSize = 0
  BY DivisionUnique, BufferConstants
<1> QED BY <1>1, <1>2

\* Two of them that differ are a line apart.
LEMMA AlignedGap ==
    ASSUME NEW i \in Nat, NEW j \in Nat,
           i % kCacheLineSize = 0, j % kCacheLineSize = 0, i < j
    PROVE  i + kCacheLineSize <= j
<1>1. PICK a \in Nat, b \in Nat : i = kCacheLineSize * a /\ j = kCacheLineSize * b
  BY Lines
<1>2. CASE b <= a
  <2>1. kCacheLineSize * b <= kCacheLineSize * a
    BY <1>2, BufferConstants
  <2> QED BY <1>1, <2>1
<1>3. CASE a + 1 <= b
  <2>1. kCacheLineSize * (a + 1) <= kCacheLineSize * b
    BY <1>3, BufferConstants
  <2>2. kCacheLineSize * (a + 1) = kCacheLineSize * a + kCacheLineSize
    BY BufferConstants
  <2> QED BY <1>1, <2>1, <2>2
<1> QED BY <1>2, <1>3

LEMMA AlignedSum ==
    ASSUME NEW i \in Nat, NEW j \in Nat,
           i % kCacheLineSize = 0, j % kCacheLineSize = 0
    PROVE  (i + j) % kCacheLineSize = 0
<1>1. PICK a \in Nat, b \in Nat : i = kCacheLineSize * a /\ j = kCacheLineSize * b
  BY Lines
<1>2. i + j = kCacheLineSize * (a + b)
  BY <1>1, BufferConstants
<1> QED BY <1>2, LinesAligned

LEMMA AlignedDifference ==
    ASSUME NEW i \in Nat, NEW j \in Nat, i <= j,
           i % kCacheLineSize = 0, j % kCacheLineSize = 0
    PROVE  (j - i) % kCacheLineSize = 0
<1>1. PICK a \in Nat, b \in Nat : i = kCacheLineSize * a /\ j = kCacheLineSize * b
  BY Lines
<1>2. a <= b
  <2>1. CASE b + 1 <= a
    <3>1. kCacheLineSize * (b + 1) <= kCacheLineSize * a
      BY <2>1, BufferConstants
    <3>2. kCacheLineSize * (b + 1) = kCacheLineSize * b + kCacheLineSize
      BY BufferConstants
    <3> QED BY <1>1, <3>1, <3>2, BufferConstants
  <2> QED BY <2>1
<1>3. j - i = kCacheLineSize * (b - a)
  BY <1>1, BufferConstants
<1>4. b - a \in Nat
  BY <1>2
<1> QED BY <1>3, <1>4, LinesAligned

LEMMA RoundUpLine ==
    ASSUME NEW n \in Nat
    PROVE  /\ RoundUp(n) \in Nat
           /\ n <= RoundUp(n) /\ RoundUp(n) < n + kCacheLineSize
           /\ RoundUp(n) % kCacheLineSize = 0
<1>1. PICK q \in Nat, r \in 0..kCacheLineSize - 1 :
         /\ n + kCacheLineSize - 1 = kCacheLineSize * q + r
         /\ (n + kCacheLineSize - 1) \div kCacheLineSize = q
  <2>1. n + kCacheLineSize - 1 \in Nat
    BY BufferConstants
  <2> QED BY <2>1, Division, BufferConstants
<1>2. RoundUp(n) = kCacheLineSize * q
  BY <1>1, BufferConstants DEF RoundUp
<1>3. kCacheLineSize * q \in Nat /\ (kCacheLineSize * q) % kCacheLineSize = 0
  BY LinesAligned
<1> QED BY <1>1, <1>2, <1>3, BufferConstants

\* Rounding up behind whole lines rounds up the rest.
LEMMA RoundUpBehind ==
    ASSUME NEW i \in Nat, i % kCacheLineSize = 0, NEW n \in Nat
    PROVE  RoundUp(i + n) = i + RoundUp(n)
<1>1. /\ RoundUp(n) \in Nat /\ n <= RoundUp(n) /\ RoundUp(n) < n + kCacheLineSize
      /\ RoundUp(n) % kCacheLineSize = 0
  BY RoundUpLine
<1>2. /\ RoundUp(i + n) \in Nat /\ i + n <= RoundUp(i + n)
      /\ RoundUp(i + n) < i + n + kCacheLineSize
      /\ RoundUp(i + n) % kCacheLineSize = 0
  <2>1. i + n \in Nat
    OBVIOUS
  <2> QED BY <2>1, RoundUpLine
<1>3. (i + RoundUp(n)) % kCacheLineSize = 0 /\ i + RoundUp(n) \in Nat
  BY <1>1, AlignedSum
<1>4. CASE RoundUp(i + n) < i + RoundUp(n)
  <2>1. RoundUp(i + n) + kCacheLineSize <= i + RoundUp(n)
    BY <1>2, <1>3, <1>4, AlignedGap
  <2> QED BY <1>1, <1>2, <2>1, BufferConstants
<1>5. CASE i + RoundUp(n) < RoundUp(i + n)
  <2>1. i + RoundUp(n) + kCacheLineSize <= RoundUp(i + n)
    BY <1>2, <1>3, <1>5, AlignedGap
  <2> QED BY <1>1, <1>2, <2>1, BufferConstants
<1> QED BY <1>1, <1>2, <1>4, <1>5

\* The lap an index is in, and its byte.
LEMMA LapOf ==
    ASSUME NEW i \in Nat
    PROVE  \E q \in Nat, a \in 0..Capacity - 1 : i = Capacity * q + a /\ Mod(i) = a
BY Division, BufferConstants DEF Mod

\* Indices less than a lap apart address different bytes.
LEMMA BytesOfALapDiffer ==
    ASSUME NEW x \in Nat, NEW y \in Nat, x < y, y < x + Capacity
    PROVE  Mod(x) # Mod(y)
<1>1. PICK p \in Nat, a \in 0..Capacity - 1 : x = Capacity * p + a /\ Mod(x) = a
  BY LapOf
<1>2. PICK q \in Nat, b \in 0..Capacity - 1 : y = Capacity * q + b /\ Mod(y) = b
  BY LapOf
<1>3. ASSUME a = b PROVE FALSE
  <2>1. y - x = Capacity * (q - p)
    BY <1>1, <1>2, <1>3, BufferConstants
  <2>2. CASE q <= p
    <3>1. Capacity * (q - p) <= 0
      BY <2>2, BufferConstants
    <3> QED BY <2>1, <3>1
  <2>3. CASE p + 1 <= q
    <3>1. Capacity * (q - p) >= Capacity
      BY <2>3, BufferConstants
    <3> QED BY <2>1, <3>1, BufferConstants
  <2> QED BY <2>2, <2>3
<1> QED BY <1>1, <1>2, <1>3

\* Up to the end of the buffer a sum of indices addresses the sum of the bytes.
LEMMA ModOfSum ==
    ASSUME NEW i \in Nat, NEW j \in Nat, Mod(i) + j < Capacity
    PROVE  Mod(i + j) = Mod(i) + j
<1>1. PICK q \in Nat, a \in 0..Capacity - 1 : i = Capacity * q + a /\ Mod(i) = a
  BY LapOf
<1>2. i + j = Capacity * q + (a + j) /\ a + j \in 0..Capacity - 1
  BY <1>1, BufferConstants DEF Mod
<1>3. (Capacity * q + (a + j)) % Capacity = a + j
  BY <1>2, DivisionUnique, BufferConstants
<1> QED BY <1>1, <1>2, <1>3 DEF Mod

\* A lap ends where the next one starts, at the first byte.
LEMMA LapEnds ==
    ASSUME NEW i \in Nat
    PROVE  /\ LapEnd(i) \in Nat /\ i < LapEnd(i)
           /\ Mod(LapEnd(i)) = 0
           /\ \A j \in 0..Capacity - 1 : Mod(LapEnd(i) + j) = j
<1>1. PICK q \in Nat, a \in 0..Capacity - 1 : i = Capacity * q + a /\ Mod(i) = a
  BY LapOf
<1>2. LapEnd(i) = Capacity * q + Capacity
  BY <1>1, BufferConstants DEF LapEnd, Mod
<1>3. LapEnd(i) = Capacity * (q + 1) + 0
  BY <1>2, BufferConstants
<1>4. Mod(LapEnd(i)) = 0
  BY <1>3, DivisionUnique, BufferConstants DEF Mod
<1>5. LapEnd(i) \in Nat /\ i < LapEnd(i)
  BY <1>1, <1>2, BufferConstants
<1>6. ASSUME NEW j \in 0..Capacity - 1 PROVE Mod(LapEnd(i) + j) = j
  BY <1>4, <1>5, ModOfSum, BufferConstants
<1> QED BY <1>4, <1>5, <1>6

\* The capacity is a whole number of lines, and so are aligned indices within a lap.
LEMMA AlignedInLap ==
    ASSUME NEW i \in Nat, i % kCacheLineSize = 0
    PROVE  /\ Mod(i) \in 0..Capacity - kCacheLineSize
           /\ Mod(i) % kCacheLineSize = 0
           /\ LapEnd(i) % kCacheLineSize = 0
<1>1. PICK q \in Nat, a \in 0..Capacity - 1 : i = Capacity * q + a /\ Mod(i) = a
  BY LapOf
<1>2. PICK c \in Nat : Capacity = kCacheLineSize * c
  BY Lines, QueueAssumption
<1>3. Capacity * q \in Nat /\ (Capacity * q) % kCacheLineSize = 0
  <2>1. Capacity * q = kCacheLineSize * (c * q) /\ c * q \in Nat
    BY <1>2, BufferConstants
  <2> QED BY <2>1, LinesAligned
<1>4. a = i - Capacity * q /\ Capacity * q <= i /\ a \in Nat
  BY <1>1, <1>3
<1>5. a % kCacheLineSize = 0
  BY <1>3, <1>4, AlignedDifference
<1>6. a + kCacheLineSize <= Capacity
  <2>1. a < Capacity /\ Capacity % kCacheLineSize = 0
    BY <1>1, BufferConstants, QueueAssumption
  <2> QED BY <1>4, <1>5, <2>1, AlignedGap, BufferConstants
<1>7. LapEnd(i) % kCacheLineSize = 0
  <2>1. LapEnd(i) = Capacity * q + Capacity
    BY <1>1, BufferConstants DEF LapEnd, Mod
  <2> QED BY <1>3, <2>1, AlignedSum, BufferConstants, QueueAssumption
<1> QED BY <1>1, <1>4, <1>5, <1>6, <1>7, BufferConstants DEF Mod

\* Where a message may start, every message fits behind a pad or in place; a pad's
\* own header fits too, and lies behind the slot it makes room for.
LEMMA SlotFits ==
    ASSUME NEW i \in Nat, Boundary(i), NEW size \in Nat, Granted(size)
    PROVE  /\ SlotStart(i, size) \in Nat /\ i <= SlotStart(i, size)
           /\ Mod(SlotStart(i, size)) + size + HeaderSize <= Capacity
           /\ Mod(SlotStart(i, size)) \in Nat
           /\ Mod(i) \in Nat /\ Mod(i) + HeaderSize <= Capacity
           /\ Overruns(i, size) =>
                 /\ i + HeaderSize <= SlotStart(i, size)
                 /\ SlotStart(i, size) = LapEnd(i) /\ Mod(SlotStart(i, size)) = 0
                 /\ size + HeaderSize <= Mod(i)
<1>1. /\ Mod(i) \in 0..Capacity - kCacheLineSize
      /\ LapEnd(i) \in Nat /\ i < LapEnd(i) /\ Mod(LapEnd(i)) = 0
  BY AlignedInLap, LapEnds DEF Boundary
<1>2. size + HeaderSize < Capacity /\ size \in Sizes
  BY DEF Granted
<1>3. Mod(i) \in Nat /\ Mod(i) + HeaderSize <= Capacity
  BY <1>1, BufferConstants
<1>4. CASE Overruns(i, size)
  <2>1. SlotStart(i, size) = LapEnd(i)
    BY <1>4 DEF SlotStart
  <2>2. i + HeaderSize <= LapEnd(i)
    BY <1>1, BufferConstants DEF LapEnd
  <2>3. Mod(i) # 0
    BY <1>2, <1>4, BufferConstants DEF Overruns
  <2>4. size + HeaderSize <= Mod(i)
    BY <1>2, <2>3 DEF Boundary
  <2> QED BY <1>1, <1>2, <1>3, <2>1, <2>2, <2>4, BufferConstants
<1>5. CASE ~Overruns(i, size)
  <2>1. SlotStart(i, size) = i
    BY <1>5 DEF SlotStart
  <2>2. Mod(i) + size + HeaderSize <= Capacity
    BY <1>3, <1>5, BufferConstants DEF Overruns
  <2> QED BY <1>3, <1>5, <2>1, <2>2
<1> QED BY <1>4, <1>5

\* Behind a message another may start, and its slot and its line lie before that.
LEMMA EndIsBoundary ==
    ASSUME Serialised, NEW i \in Nat, Boundary(i), NEW size \in Nat \ {0}, Granted(size)
    PROVE  /\ EndOf(i, size) \in Nat /\ Boundary(EndOf(i, size))
           /\ i + kCacheLineSize <= EndOf(i, size)
           /\ SlotStart(i, size) + size + HeaderSize <= EndOf(i, size)
<1>1. PICK S : S = RoundUp(size + HeaderSize)
  OBVIOUS
<1>2. /\ S \in Nat /\ size + HeaderSize <= S /\ S < size + HeaderSize + kCacheLineSize
      /\ S % kCacheLineSize = 0
  BY <1>1, RoundUpLine, BufferConstants
<1>3. \A t \in Sizes : Granted(t) => t + HeaderSize <= S
  <2> SUFFICES ASSUME NEW t \in Sizes, Granted(t) PROVE t + HeaderSize <= S
    OBVIOUS
  <2>1. CASE t = 0
    BY <1>2, <2>1, BufferConstants
  <2>2. CASE t # 0
    <3>1. RoundUp(t + HeaderSize) = S /\ t + HeaderSize \in Nat
      BY <1>1, <2>2, BufferConstants DEF Serialised, Granted
    <3> QED BY <3>1, RoundUpLine
  <2> QED BY <2>1, <2>2
<1>4. ASSUME NEW j \in Nat, j % kCacheLineSize = 0, NEW T \in Nat,
             T % kCacheLineSize = 0, S <= T, Mod(j) + T <= Capacity
      PROVE  j + T \in Nat /\ Boundary(j + T)
  <2>1. (j + T) % kCacheLineSize = 0 /\ j + T \in Nat
    BY <1>4, AlignedSum
  <2>2. Mod(j) \in Nat
    BY AlignedInLap, <1>4
  <2>3. CASE Mod(j) + T < Capacity
    <3>1. Mod(j + T) = Mod(j) + T
      BY <1>4, <2>3, ModOfSum
    <3>2. \A t \in Sizes : Granted(t) => t + HeaderSize <= Mod(j + T)
      <4> SUFFICES ASSUME NEW t \in Sizes, Granted(t) PROVE t + HeaderSize <= Mod(j + T)
        OBVIOUS
      <4>1. t + HeaderSize <= S /\ t + HeaderSize \in Nat
        BY <1>3, BufferConstants
      <4> QED BY <1>2, <1>4, <2>2, <3>1, <4>1
    <3> QED BY <2>1, <3>2 DEF Boundary
  <2>4. CASE Mod(j) + T = Capacity
    <3>1. j + T = LapEnd(j)
      BY <1>4, <2>2, <2>4, BufferConstants DEF LapEnd
    <3> QED BY <2>1, <3>1, LapEnds DEF Boundary
  <2> QED BY <1>4, <2>2, <2>3, <2>4, BufferConstants
<1>5. i % kCacheLineSize = 0
  BY DEF Boundary
<1>6. CASE ~Overruns(i, size)
  <2>1. EndOf(i, size) = i + S
    <3>1. EndOf(i, size) = RoundUp(i + (size + HeaderSize))
      BY <1>6, BufferConstants DEF EndOf, HeldIndex
    <3> QED BY <1>1, <1>5, <3>1, RoundUpBehind, BufferConstants
  <2>2. Mod(i) + S <= Capacity
    <3>1. /\ Mod(i) \in 0..Capacity - kCacheLineSize
          /\ Mod(i) % kCacheLineSize = 0
      BY <1>5, AlignedInLap
    <3>2. Mod(i) + size + HeaderSize <= Capacity
      BY <1>6, <3>1, BufferConstants DEF Overruns
    <3>3. (Mod(i) + S) % kCacheLineSize = 0 /\ Mod(i) + S \in Nat /\ Mod(i) \in Nat
      BY <1>2, <3>1, AlignedSum, BufferConstants
    <3>4. CASE Capacity < Mod(i) + S
      <4>1. Capacity + kCacheLineSize <= Mod(i) + S
        BY <3>3, <3>4, AlignedGap, BufferConstants, QueueAssumption
      <4> QED BY <1>2, <3>2, <3>3, <4>1, BufferConstants
    <3> QED BY <3>3, <3>4, BufferConstants
  <2>3. kCacheLineSize <= S
    <3>1. 0 % kCacheLineSize = 0 /\ 0 < S
      BY <1>2, BufferConstants
    <3>2. 0 + kCacheLineSize <= S
      BY <1>2, <3>1, AlignedGap
    <3> QED BY <3>2, BufferConstants
  <2> QED BY <1>2, <1>4, <1>5, <1>6, <2>1, <2>2, <2>3, BufferConstants DEF SlotStart
<1>7. CASE Overruns(i, size)
  <2>1. PICK T : T = RoundUp(size + 3 * HeaderSize)
    OBVIOUS
  <2>2. /\ T \in Nat /\ size + 3 * HeaderSize <= T /\ T < size + 3 * HeaderSize + kCacheLineSize
        /\ T % kCacheLineSize = 0
    <3>1. size + 3 * HeaderSize \in Nat
      BY BufferConstants
    <3> QED BY <2>1, <3>1, RoundUpLine
  <2>3. LapEnd(i) \in Nat /\ i < LapEnd(i) /\ Mod(LapEnd(i)) = 0 /\ LapEnd(i) % kCacheLineSize = 0
    BY <1>5, LapEnds, AlignedInLap
  <2>4. EndOf(i, size) = LapEnd(i) + T
    <3>1. EndOf(i, size) = RoundUp(LapEnd(i) + (size + 3 * HeaderSize))
      <4>1. LapEnd(i) + 2 * HeaderSize + size + HeaderSize = LapEnd(i) + (size + 3 * HeaderSize)
        BY <2>3, BufferConstants
      <4> QED BY <1>7, <4>1 DEF EndOf, HeldIndex
    <3>2. size + 3 * HeaderSize \in Nat
      BY BufferConstants
    <3> QED BY <2>1, <2>3, <3>1, <3>2, RoundUpBehind
  <2>5. T <= Capacity
    BY <2>1 DEF Serialised, Granted
  <2>6. S <= T
    <3>1. CASE T < S
      <4>1. T + kCacheLineSize <= S
        BY <1>2, <2>2, <3>1, AlignedGap
      <4> QED BY <1>2, <2>2, <4>1, BufferConstants
    <3> QED BY <1>2, <2>2, <3>1
  <2>7. i + kCacheLineSize <= LapEnd(i)
    BY <1>5, <2>3, AlignedGap
  <2>8. SlotStart(i, size) = LapEnd(i)
    BY <1>7 DEF SlotStart
  <2> QED BY <1>2, <1>4, <2>2, <2>3, <2>4, <2>5, <2>6, <2>7, <2>8, BufferConstants
<1> QED BY <1>6, <1>7

\* acquire_write does not count the pad, and need not: where the test against the
\* free space passes, the start of the buffer has been given back.
LEMMA RoomForSlot ==
    ASSUME NEW r \in Nat, NEW w \in Nat, Boundary(r), Boundary(w), r <= w,
           NEW size \in Nat, Granted(size), w + size + HeaderSize < r + Capacity
    PROVE  SlotStart(w, size) + size + HeaderSize <= r + Capacity
<1>1. CASE ~Overruns(w, size)
  BY <1>1, BufferConstants DEF SlotStart
<1>2. CASE Overruns(w, size)
  <2>1. PICK q \in Nat, b \in 0..Capacity - 1 : w = Capacity * q + b /\ Mod(w) = b
    BY LapOf
  <2>2. PICK p \in Nat, a \in 0..Capacity - 1 : r = Capacity * p + a /\ Mod(r) = a
    BY LapOf
  <2>3. Capacity * q < r
    BY <1>2, <2>1, BufferConstants DEF Overruns
  <2>4. p = q
    <3>1. CASE p + 1 <= q
      <4>1. Capacity * (p + 1) <= Capacity * q
        BY <3>1, BufferConstants
      <4>2. Capacity * (p + 1) = Capacity * p + Capacity
        BY BufferConstants
      <4> QED BY <2>2, <2>3, <4>1, <4>2, BufferConstants
    <3>2. CASE q + 1 <= p
      <4>1. Capacity * (q + 1) <= Capacity * p
        BY <3>2, BufferConstants
      <4>2. Capacity * (q + 1) = Capacity * q + Capacity
        BY BufferConstants
      <4> QED BY <2>1, <2>2, <4>1, <4>2, BufferConstants
    <3> QED BY <3>1, <3>2
  <2>5. size + HeaderSize <= a
    <3>1. Mod(r) # 0
      BY <2>2, <2>3, <2>4, BufferConstants
    <3> QED BY <2>2, <3>1 DEF Boundary, Granted
  <2>6. SlotStart(w, size) = Capacity * q + Capacity
    BY <1>2, <2>1, BufferConstants DEF SlotStart, LapEnd
  <2>7. Capacity * q \in Nat
    BY BufferConstants
  <2> QED BY <2>2, <2>4, <2>5, <2>6, <2>7, BufferConstants
<1> QED BY <1>1, <1>2

(***************************************************************************)
(* The bytes of a message: its slot, and the header of a pad before it.    *)
(***************************************************************************)
PadBytes(i) == Mod(i) .. Mod(i) + HeaderSize - 1

HeldBytes(i, size) ==
    Mod(SlotStart(i, size)) .. Mod(SlotStart(i, size)) + size + HeaderSize - 1

BytesOf(i, size) == HeldBytes(i, size) \cup (IF Overruns(i, size) THEN PadBytes(i) ELSE {})

LEMMA BytesInSpan ==
    ASSUME NEW i \in Nat, Boundary(i), NEW size \in Nat, Granted(size),
           NEW b \in BytesOf(i, size)
    PROVE  /\ b \in 0..Capacity - 1
           /\ \E x \in Nat : i <= x /\ x < SlotStart(i, size) + size + HeaderSize /\ b = Mod(x)
<1>1. PICK s : s = SlotStart(i, size)
  OBVIOUS
<1>2. /\ s \in Nat /\ i <= s /\ Mod(s) + size + HeaderSize <= Capacity
      /\ Mod(s) \in Nat /\ Mod(i) \in Nat /\ Mod(i) + HeaderSize <= Capacity
      /\ Overruns(i, size) => i + HeaderSize <= s
  BY <1>1, SlotFits
<1>3. CASE b \in HeldBytes(i, size)
  <2>1. b \in Mod(s) .. Mod(s) + size + HeaderSize - 1
    BY <1>1, <1>3 DEF HeldBytes
  <2>2. PICK j \in Nat : b = Mod(s) + j /\ j < size + HeaderSize
    <3>1. /\ b - Mod(s) \in Nat /\ b = Mod(s) + (b - Mod(s))
          /\ b - Mod(s) < size + HeaderSize
      BY <1>2, <2>1, BufferConstants
    <3> QED BY <3>1
  <2>3. Mod(s + j) = b
    BY <1>2, <2>2, ModOfSum, BufferConstants
  <2>4. s + j \in Nat /\ i <= s + j /\ s + j < s + size + HeaderSize
    BY <1>2, <2>2, BufferConstants
  <2>5. b \in 0..Capacity - 1
    BY <1>2, <2>1, BufferConstants
  <2> QED BY <1>1, <2>3, <2>4, <2>5
<1>4. CASE Overruns(i, size) /\ b \in PadBytes(i)
  <2>1. b \in Mod(i) .. Mod(i) + HeaderSize - 1
    BY <1>4 DEF PadBytes
  <2>2. PICK j \in Nat : b = Mod(i) + j /\ j < HeaderSize
    <3>1. /\ b - Mod(i) \in Nat /\ b = Mod(i) + (b - Mod(i))
          /\ b - Mod(i) < HeaderSize
      BY <1>2, <2>1, BufferConstants
    <3> QED BY <3>1
  <2>3. Mod(i + j) = b
    BY <1>2, <2>2, ModOfSum, BufferConstants
  <2>4. i + j \in Nat /\ i <= i + j /\ i + j < s + size + HeaderSize
    BY <1>2, <1>4, <2>2, BufferConstants
  <2>5. b \in 0..Capacity - 1
    BY <1>2, <2>1, BufferConstants
  <2> QED BY <1>1, <2>3, <2>4, <2>5
<1> QED BY <1>3, <1>4 DEF BytesOf

\* The bytes the producer may write to are none of an unread message's.
LEMMA BytesApart ==
    ASSUME Serialised,
           NEW r \in Nat, NEW i \in Nat, NEW w \in Nat, Boundary(r), Boundary(i), Boundary(w),
           NEW s \in Nat \ {0}, NEW t \in Nat, Granted(s), Granted(t),
           r <= i, EndOf(i, s) <= w, w + t + HeaderSize < r + Capacity,
           NEW b \in BytesOf(i, s)
    PROVE  b \in 0..Capacity - 1 /\ b \notin BytesOf(w, t)
<1> SUFFICES ASSUME b \in BytesOf(w, t) PROVE FALSE
  BY BytesInSpan
<1>1. PICK x \in Nat : i <= x /\ x < SlotStart(i, s) + s + HeaderSize /\ b = Mod(x)
  BY BytesInSpan
<1>2. PICK y \in Nat : w <= y /\ y < SlotStart(w, t) + t + HeaderSize /\ b = Mod(y)
  BY BytesInSpan
<1>3. /\ EndOf(i, s) \in Nat /\ SlotStart(i, s) + s + HeaderSize <= EndOf(i, s)
      /\ i + kCacheLineSize <= EndOf(i, s)
  BY EndIsBoundary
<1>4. SlotStart(i, s) \in Nat /\ SlotStart(w, t) \in Nat
  BY SlotFits
<1>5. r <= w
  BY <1>3, BufferConstants
<1>6. SlotStart(w, t) + t + HeaderSize <= r + Capacity
  BY <1>5, RoomForSlot
<1>7. x < y /\ y < x + Capacity
  BY <1>1, <1>2, <1>3, <1>4, <1>6, BufferConstants
<1> QED BY <1>1, <1>2, <1>7, BytesOfALapDiffer
(***************************************************************************)
(* What the invariant says of counts, indices and the buffer.              *)
(***************************************************************************)
LEMMA PadCounts ==
    ASSUME NEW at, LaidOut(at)
    PROVE  /\ Len(sent) \in Nat /\ Len(received) \in Nat /\ Len(received) <= Len(sent)
           /\ Released \in Nat /\ Released <= Len(received)
           /\ rpc # "consumed" => Released = Len(received)
           /\ rpc = "consumed" => Released + 1 = Len(received)
           /\ readIndex \in Nat /\ writeIndex \in Nat
           /\ sent \in Seq(MessageType) /\ received \in Seq(MessageType)
           /\ DOMAIN buffer = 0..Capacity - 1
<1>1. /\ Len(sent) \in Nat /\ Len(received) \in Nat
      /\ readIndex \in Nat /\ writeIndex \in Nat
      /\ sent \in Seq(MessageType) /\ received \in Seq(MessageType)
      /\ DOMAIN buffer = 0..Capacity - 1
  BY DEF LaidOut, TypeOK
<1>2. Len(received) <= Len(sent) /\ (rpc = "consumed" => Len(received) > 0)
  BY DEF LaidOut, HistoriesIn
<1> QED BY <1>1, <1>2 DEF Released

LEMMA GrantedSize ==
    ASSUME Serialised, NEW size, Granted(size)
    PROVE  size \in Nat /\ size \in Sizes /\ size + HeaderSize < Capacity
BY BufferConstants DEF Serialised, Granted

\* The indices of the messages that are not released, and of the next one.
LEMMA PadIndices ==
    ASSUME Serialised, NEW at, LaidOut(at)
    PROVE  /\ at[Released + 1] \in Nat /\ Boundary(at[Released + 1])
           /\ at[Len(sent) + 1] \in Nat /\ Boundary(at[Len(sent) + 1])
           /\ at[Released + 1] <= at[Len(sent) + 1]
<1>1. Released + 1 \in 1..Len(sent) + 1 /\ Len(sent) + 1 \in 1..Len(sent) + 1
  BY PadCounts
<1>2. \A j \in 1..Len(sent) + 1 : at[j] \in Nat /\ Boundary(at[j])
  BY DEF LaidOut, LayoutOf
<1>3. at[Released + 1] + kCacheLineSize * (Len(sent) + 1 - (Released + 1)) <= at[Len(sent) + 1]
  <2>1. Released + 1 <= Len(sent) + 1
    BY <1>1
  <2> QED BY <1>1, <2>1 DEF LaidOut, LayoutOf
<1>4. kCacheLineSize * (Len(sent) + 1 - (Released + 1)) \in Nat
  <2>1. Len(sent) + 1 - (Released + 1) \in Nat
    BY PadCounts
  <2> QED BY <2>1, BufferConstants
<1> QED BY <1>1, <1>2, <1>3, <1>4

LEMMA PadMessage ==
    ASSUME Serialised, NEW at, LaidOut(at), NEW k \in 1..Len(sent)
    PROVE  /\ at[k] \in Nat /\ Boundary(at[k])
           /\ Granted(sent[k].size) /\ sent[k].size \in Nat \ {0}
           /\ sent[k] = [id |-> k, size |-> sent[k].size]
           /\ EndOf(at[k], sent[k].size) <= at[Len(sent) + 1]
           /\ k > Released => at[Released + 1] <= at[k]
<1>1. /\ k \in 1..Len(sent) + 1 /\ k + 1 \in 1..Len(sent) + 1
      /\ Len(sent) + 1 \in 1..Len(sent) + 1 /\ Len(sent) \in Nat
  BY PadCounts
<1>2. at[k] \in Nat /\ Boundary(at[k]) /\ at[k + 1] \in Nat /\ at[Len(sent) + 1] \in Nat
  BY <1>1 DEF LaidOut, LayoutOf
<1>3. sent[k].id = k /\ Granted(sent[k].size) /\ sent[k].size \in Nat \ {0}
  <2>1. sent[k].id = k /\ Granted(sent[k].size) /\ sent[k].size # 0
    BY DEF LaidOut, HistoriesIn
  <2> QED BY <2>1, GrantedSize
<1>4. sent[k] = [id |-> k, size |-> sent[k].size]
  <2>1. sent[k] \in MessageType
    BY PadCounts
  <2> QED BY <1>3, <2>1 DEF MessageType
<1>5. ASSUME NEW i \in 1..Len(sent) + 1, NEW j \in 1..Len(sent) + 1, i <= j
      PROVE  at[i] <= at[j]
  <2>1. at[i] \in Nat /\ at[j] \in Nat /\ at[i] + kCacheLineSize * (j - i) <= at[j]
    BY <1>5 DEF LaidOut, LayoutOf
  <2>2. kCacheLineSize * (j - i) \in Nat
    <3>1. j - i \in Nat
      BY <1>5
    <3> QED BY <3>1, BufferConstants
  <2> QED BY <2>1, <2>2
<1>6. EndOf(at[k], sent[k].size) <= at[Len(sent) + 1]
  <2>1. EndOf(at[k], sent[k].size) = at[k + 1]
    BY DEF LaidOut, LayoutOf
  <2>2. k + 1 <= Len(sent) + 1
    BY <1>1
  <2> QED BY <1>1, <1>5, <2>1, <2>2
<1>7. ASSUME k > Released PROVE at[Released + 1] <= at[k]
  <2>1. Released + 1 \in 1..Len(sent) + 1 /\ Released + 1 <= k
    BY <1>1, <1>7, PadCounts
  <2> QED BY <1>1, <1>5, <2>1
<1> QED BY <1>2, <1>3, <1>4, <1>6, <1>7

\* Bytes that keep their values keep the headers and payloads they are of.
LEMMA HeaderKept ==
    ASSUME NEW off \in Nat, NEW p, NEW n, HeaderOn(off, p, n),
           \A b \in off .. off + HeaderSize - 1 : buffer'[b] = buffer[b]
    PROVE  HeaderOn(off, p, n)'
<1>1. off \in off .. off + HeaderSize - 1
  BY BufferConstants
<1>2. \A b \in off + 1 .. off + HeaderSize - 1 : b \in off .. off + HeaderSize - 1
  BY BufferConstants
<1> QED BY <1>1, <1>2 DEF HeaderOn, Header, HeaderTail

LEMMA PayloadKept ==
    ASSUME NEW off \in Nat, NEW size \in Nat, NEW n, PayloadOn(off, size, n),
           \A b \in off .. off + size + HeaderSize - 1 : buffer'[b] = buffer[b]
    PROVE  PayloadOn(off, size, n)'
<1>1. \A b \in off + HeaderSize .. off + HeaderSize + size - 1 :
         b \in off .. off + size + HeaderSize - 1
  BY BufferConstants
<1> QED BY <1>1 DEF PayloadOn, Payload

\* A step of the producer in its own slot and pad leaves every unread message in place.
LEMMA UnreadUntouched ==
    ASSUME Serialised, NEW at, LaidOut(at), wpc # "idle",
           sent' = sent, Released' = Released,
           \A b \in 0..Capacity - 1 :
              b \notin BytesOf(at[Len(sent) + 1], wslot.size) => buffer'[b] = buffer[b]
    PROVE  MessagesOn(at)'
<1> SUFFICES ASSUME NEW k \in Released + 1 .. Len(sent)
             PROVE  /\ PadOn(at[k], sent[k].size)'
                    /\ HeaderOn(Mod(SlotStart(at[k], sent[k].size)), FALSE, sent[k].size)'
                    /\ PayloadOn(Mod(SlotStart(at[k], sent[k].size)), sent[k].size, k)'
  BY DEF MessagesOn
<1>0. PICK i, s, w, t, off :
         /\ i = at[k] /\ s = sent[k].size /\ off = Mod(SlotStart(i, s))
         /\ w = at[Len(sent) + 1] /\ t = wslot.size
  OBVIOUS
<1>1. k \in 1..Len(sent) /\ k > Released
  BY PadCounts
<1>2. /\ i \in Nat /\ Boundary(i) /\ Granted(s) /\ s \in Nat \ {0}
      /\ EndOf(i, s) <= w /\ at[Released + 1] <= i
  BY <1>0, <1>1, PadMessage
<1>3. /\ w \in Nat /\ Boundary(w)
      /\ at[Released + 1] \in Nat /\ Boundary(at[Released + 1])
  BY <1>0, PadIndices
<1>4. /\ Granted(t) /\ t \in Nat
      /\ w + t + HeaderSize < at[Released + 1] + Capacity
  <2>1. readIndex = at[Released + 1] /\ rpc = "idle"
    BY DEF LaidOut, ConsumerAt
  <2>2. Granted(t) /\ w + t + HeaderSize < readIndex + Capacity
    BY <1>0 DEF LaidOut, ProducerAt
  <2> QED BY <2>1, <2>2, GrantedSize
<1>5. \A b \in BytesOf(i, s) : buffer'[b] = buffer[b]
  <2>1. \A b \in BytesOf(i, s) : b \in 0..Capacity - 1 /\ b \notin BytesOf(w, t)
    BY <1>2, <1>3, <1>4, BytesApart
  <2> QED BY <1>0, <2>1
<1>6. /\ PadOn(i, s) /\ HeaderOn(off, FALSE, s) /\ PayloadOn(off, s, k)
  BY <1>0 DEF LaidOut, MessagesOn
<1>7. off \in Nat /\ Mod(i) \in Nat
  BY <1>0, <1>2, SlotFits
<1>8. \A b \in off .. off + s + HeaderSize - 1 : buffer'[b] = buffer[b]
  BY <1>0, <1>5 DEF BytesOf, HeldBytes
<1>9. \A b \in off .. off + HeaderSize - 1 : b \in off .. off + s + HeaderSize - 1
  BY <1>2, <1>7, BufferConstants
<1>10. PadOn(i, s)'
  <2>1. CASE Overruns(i, s)
    <3>1. \A b \in Mod(i) .. Mod(i) + HeaderSize - 1 : buffer'[b] = buffer[b]
      BY <1>5, <2>1 DEF BytesOf, PadBytes
    <3>2. HeaderOn(Mod(i), TRUE, Capacity - Mod(i) + HeaderSize)
      BY <1>6, <2>1 DEF PadOn
    <3>3. HeaderOn(Mod(i), TRUE, Capacity - Mod(i) + HeaderSize)'
      BY <1>7, <3>1, <3>2, HeaderKept
    <3> QED BY <3>3 DEF PadOn, HeaderOn
  <2>2. CASE ~Overruns(i, s)
    BY <2>2 DEF PadOn
  <2> QED BY <2>1, <2>2
<1>11. HeaderOn(off, FALSE, s)'
  BY <1>6, <1>7, <1>8, <1>9, HeaderKept
<1>12. PayloadOn(off, s, k)'
  BY <1>2, <1>6, <1>7, <1>8, PayloadKept
<1> QED BY <1>0, <1>10, <1>11, <1>12 DEF PadOn, HeaderOn, PayloadOn

\* What a step leaves alone it leaves in place.
LEMMA PadFrame ==
    ASSUME NEW at, LaidOut(at), UNCHANGED <<buffer, sent>>, Released' = Released
    PROVE  MessagesOn(at)'
BY DEF LaidOut, MessagesOn, PadOn, HeaderOn, PayloadOn

LEMMA LayoutFrame ==
    ASSUME NEW at, LaidOut(at), UNCHANGED sent
    PROVE  LayoutOf(at)'
BY DEF LaidOut, LayoutOf
(***************************************************************************)
(* The invariant holds at first, with no message laid out.                 *)
(***************************************************************************)
LEMMA PadInit ==
    ASSUME Init
    PROVE  LaidOut([k \in Nat |-> 0])
<1> DEFINE at == [k \in Nat |-> 0]
<1>1. Len(sent) = 0 /\ Len(received) = 0 /\ Released = 0
  BY DEF Init, Released
<1>2. at[1] = 0 /\ at[Len(sent) + 1] = 0 /\ at[Released + 1] = 0
  BY <1>1
<1>3. Boundary(0)
  <2>1. 0 % kCacheLineSize = 0 /\ 0 % Capacity = 0
    BY BufferConstants
  <2> QED BY <2>1 DEF Boundary, Mod
<1>4. LayoutOf(at)
  <2>1. \A k \in 1..Len(sent) + 1 : k = 1
    BY <1>1
  <2>2. kCacheLineSize * (1 - 1) = 0
    BY BufferConstants
  <2> HIDE DEF at
  <2> QED BY <1>1, <1>2, <1>3, <2>1, <2>2 DEF LayoutOf
<1>5. HistoriesIn
  BY <1>1, BufferConstants DEF Init, HistoriesIn
<1>6. ProducerAt(at[Len(sent) + 1])
  BY <1>2 DEF Init, ProducerAt, Unpublished
<1>7. ConsumerAt(at[Released + 1], sent[Released + 1].size)
  BY <1>2 DEF Init, ConsumerAt
<1>8. MessagesOn(at)
  BY <1>1 DEF MessagesOn
<1> QED BY <1>4, <1>5, <1>6, <1>7, <1>8, TypeInit DEF Init, LaidOut

(***************************************************************************)
(* The producer.                                                           *)
(***************************************************************************)
LEMMA PadAcquireWrite ==
    ASSUME Serialised, NEW at, LaidOut(at), TypeOK', NEW size \in Sizes, AcquireWrite(size)
    PROVE  LaidOut(at)'
<1>0. PICK w : w = at[Len(sent) + 1]
  OBVIOUS
<1>1. /\ wpc = "idle" /\ rpc = "idle" /\ Len(sent) < MaxMessages
      /\ UNCHANGED <<readIndex, writeIndex, buffer, rpc, rslot, sent, received>>
  BY DEF AcquireWrite, Serialised, consumerVars
<1>2. writeIndex = w /\ w \in Nat /\ Boundary(w) /\ at[Released + 1] = readIndex
      /\ readIndex <= w /\ readIndex \in Nat
  <2>1. writeIndex = w
    BY <1>0, <1>1 DEF LaidOut, ProducerAt, Unpublished
  <2>2. readIndex = at[Released + 1]
    BY <1>1 DEF LaidOut, ConsumerAt
  <2> QED BY <1>0, <2>1, <2>2, PadIndices
<1>3. Released' = Released
  BY <1>1 DEF Released
<1>4. /\ HistoriesIn' /\ LayoutOf(at)' /\ MessagesOn(at)'
      /\ ConsumerAt(at[Released + 1], sent[Released + 1].size)'
  <2>1. HistoriesIn'
    BY <1>1 DEF LaidOut, HistoriesIn
  <2>2. ConsumerAt(at[Released + 1], sent[Released + 1].size)'
    BY <1>1, <1>3 DEF LaidOut, ConsumerAt
  <2> QED BY <1>1, <1>3, <2>1, <2>2, PadFrame, LayoutFrame
<1>5. CASE UNCHANGED <<wpc, wslot>>
  <2>1. ProducerAt(at[Len(sent) + 1])'
    BY <1>0, <1>1, <1>2, <1>5 DEF ProducerAt, Unpublished
  <2> QED BY <1>1, <1>4, <2>1 DEF LaidOut
<1>6. CASE /\ ~TooBig(size) /\ ~Full(size)
           /\ wpc' = IF NeedsPad(size) THEN "writePad" ELSE "writeHeader"
           /\ wslot' = [data |-> HeaderSize + (IF NeedsPad(size) THEN 0 ELSE Mod(writeIndex)),
                        size |-> size]
  <2>1. size \in Nat /\ w + size + HeaderSize < readIndex + Capacity
    <3>1. size \in Nat
      BY BufferConstants
    <3>2. ~(w - readIndex + size + HeaderSize >= Capacity)
      BY <1>2, <1>6 DEF Full
    <3> QED BY <1>2, <3>1, <3>2, BufferConstants
  <2>2. Granted(size)
    BY <1>2, <2>1, BufferConstants DEF Granted
  <2>3. NeedsPad(size) <=> Overruns(w, size)
    BY <1>2 DEF NeedsPad, Overruns
  <2>4. wslot'.size = size /\ wslot'.data = Mod(SlotStart(w, size)) + HeaderSize
    <3>1. Mod(w) \in Nat /\ Mod(LapEnd(w)) = 0
      BY <1>2, LapEnds, ModInBuffer
    <3> QED BY <1>2, <1>6, <2>3, <3>1, BufferConstants DEF SlotStart
  <2>5. CASE Overruns(w, size)
    <3>1. wpc' = "writePad"
      BY <1>6, <2>3, <2>5
    <3>2. ProducerAt(w)'
      BY <1>1, <1>2, <2>1, <2>2, <2>4, <2>5, <3>1 DEF ProducerAt, Unpublished
    <3> QED BY <1>0, <1>1, <1>4, <3>2 DEF LaidOut
  <2>6. CASE ~Overruns(w, size)
    <3>1. wpc' = "writeHeader" /\ HeldIndex(w, size) = w
      BY <1>6, <2>3, <2>6 DEF HeldIndex
    <3>2. PadOn(w, size)'
      BY <2>6 DEF PadOn
    <3>3. ProducerAt(w)'
      BY <1>1, <1>2, <2>1, <2>2, <2>4, <3>1, <3>2
         DEF ProducerAt, Unpublished, PadOn, HeaderOn
    <3> QED BY <1>0, <1>1, <1>4, <3>3 DEF LaidOut
  <2> QED BY <2>5, <2>6
<1> QED BY <1>5, <1>6 DEF AcquireWrite

\* What a write of a header leaves behind.
LEMMA HeaderWritten ==
    ASSUME DOMAIN buffer = 0..Capacity - 1,
           NEW off \in Nat, off + HeaderSize <= Capacity, NEW p, NEW n, WriteHeaderAt(off, p, n)
    PROVE  /\ HeaderOn(off, p, n)'
           /\ \A b \in 0..Capacity - 1 :
                 b \notin off .. off + HeaderSize - 1 => buffer'[b] = buffer[b]
<1>1. buffer' = [i \in 0..Capacity - 1 |->
                   IF i = off THEN Header(p, n)
                   ELSE IF i \in off + 1 .. off + HeaderSize - 1 THEN HeaderTail
                   ELSE buffer[i]]
  BY DEF WriteHeaderAt
<1>2. \A b \in off .. off + HeaderSize - 1 : b \in 0..Capacity - 1
  BY BufferConstants
<1>3. /\ off \in off .. off + HeaderSize - 1
      /\ \A b \in off + 1 .. off + HeaderSize - 1 : b \in off .. off + HeaderSize - 1 /\ b # off
  BY BufferConstants
<1>4. HeaderOn(off, p, n)'
  <2>1. buffer'[off] = Header(p, n)
    BY <1>1, <1>2, <1>3
  <2>2. \A b \in off + 1 .. off + HeaderSize - 1 : buffer'[b] = HeaderTail
    BY <1>1, <1>2, <1>3
  <2> QED BY <2>1, <2>2 DEF HeaderOn, Header, HeaderTail
<1> QED BY <1>1, <1>3, <1>4

\* While the producer holds a slot: its index, its size and its room.
LEMMA HeldByProducer ==
    ASSUME Serialised, NEW at, LaidOut(at), wpc # "idle"
    PROVE  /\ rpc = "idle" /\ readIndex = at[Released + 1]
           /\ at[Len(sent) + 1] \in Nat /\ Boundary(at[Len(sent) + 1])
           /\ Granted(wslot.size) /\ wslot.size \in Nat /\ Len(sent) < MaxMessages
           /\ wslot.data = Mod(SlotStart(at[Len(sent) + 1], wslot.size)) + HeaderSize
           /\ at[Len(sent) + 1] + wslot.size + HeaderSize < readIndex + Capacity
<1>1. rpc = "idle" /\ readIndex = at[Released + 1]
  BY DEF LaidOut, ConsumerAt
<1>2. /\ Granted(wslot.size) /\ Len(sent) < MaxMessages
      /\ wslot.data = Mod(SlotStart(at[Len(sent) + 1], wslot.size)) + HeaderSize
      /\ at[Len(sent) + 1] + wslot.size + HeaderSize < readIndex + Capacity
  BY DEF LaidOut, ProducerAt
<1> QED BY <1>1, <1>2, PadIndices, GrantedSize

\* A step of the producer that writes into its own bytes and does not commit keeps the
\* invariant if what is said of the producer does.
LEMMA ProducerStepKeeps ==
    ASSUME Serialised, NEW at, LaidOut(at), TypeOK', wpc # "idle",
           UNCHANGED <<readIndex, rpc, rslot, sent, received>>,
           \A b \in 0..Capacity - 1 :
              b \notin BytesOf(at[Len(sent) + 1], wslot.size) => buffer'[b] = buffer[b],
           ProducerAt(at[Len(sent) + 1])'
    PROVE  LaidOut(at)'
<1>1. Released' = Released
  BY DEF Released
<1>2. MessagesOn(at)'
  BY <1>1, UnreadUntouched
<1>3. HistoriesIn' /\ LayoutOf(at)'
  BY LayoutFrame DEF LaidOut, HistoriesIn
<1>4. rpc = "idle" /\ ConsumerAt(at[Released + 1], sent[Released + 1].size)'
  BY <1>1, HeldByProducer DEF LaidOut, ConsumerAt
<1> QED BY <1>2, <1>3, <1>4 DEF LaidOut

LEMMA PadWritePad ==
    ASSUME Serialised, NEW at, LaidOut(at), TypeOK', WritePad
    PROVE  LaidOut(at)'
<1>0. PICK w, size : w = at[Len(sent) + 1] /\ size = wslot.size
  OBVIOUS
<1>1. /\ wpc = "writePad" /\ wpc' = "publishPad"
      /\ WriteHeaderAt(Mod(writeIndex), TRUE, PadSize)
      /\ UNCHANGED <<readIndex, writeIndex, wslot, rpc, rslot, sent, received>>
  BY DEF WritePad, consumerVars
<1>2. /\ w \in Nat /\ Boundary(w) /\ Granted(size) /\ size \in Nat
      /\ Len(sent) < MaxMessages
      /\ wslot.data = Mod(SlotStart(w, size)) + HeaderSize
      /\ w + size + HeaderSize < readIndex + Capacity
  BY <1>0, <1>1, HeldByProducer
<1>3. writeIndex = w /\ Overruns(w, size)
  BY <1>0, <1>1 DEF LaidOut, ProducerAt, Unpublished
<1>4. Mod(w) \in Nat /\ Mod(w) + HeaderSize <= Capacity
  BY <1>2, SlotFits
<1>5. PadSize = Capacity - Mod(w) + HeaderSize
  BY <1>3 DEF PadSize
<1>6. /\ HeaderOn(Mod(w), TRUE, Capacity - Mod(w) + HeaderSize)'
      /\ \A b \in 0..Capacity - 1 :
            b \notin Mod(w) .. Mod(w) + HeaderSize - 1 => buffer'[b] = buffer[b]
  <2>1. WriteHeaderAt(Mod(w), TRUE, Capacity - Mod(w) + HeaderSize)
    BY <1>1, <1>3, <1>5
  <2> QED BY <1>4, <2>1, PadCounts, HeaderWritten
<1>7. \A b \in 0..Capacity - 1 : b \notin BytesOf(w, size) => buffer'[b] = buffer[b]
  BY <1>3, <1>6 DEF BytesOf, PadBytes
<1>8. ProducerAt(w)'
  BY <1>0, <1>1, <1>2, <1>3, <1>6 DEF ProducerAt, Unpublished, PadOn, HeaderOn
<1> QED BY <1>0, <1>1, <1>7, <1>8, ProducerStepKeeps

LEMMA PadPublishPad ==
    ASSUME Serialised, NEW at, LaidOut(at), TypeOK', PublishPad
    PROVE  LaidOut(at)'
<1>0. PICK w, size : w = at[Len(sent) + 1] /\ size = wslot.size
  OBVIOUS
<1>1. /\ wpc = "publishPad" /\ wpc' = "writeHeader"
      /\ writeIndex' = WriteIndexAfterPad
      /\ UNCHANGED <<readIndex, buffer, wslot, rpc, rslot, sent, received>>
  BY DEF PublishPad, consumerVars
<1>2. /\ w \in Nat /\ Boundary(w) /\ Granted(size)
      /\ Len(sent) < MaxMessages
      /\ wslot.data = Mod(SlotStart(w, size)) + HeaderSize
      /\ w + size + HeaderSize < readIndex + Capacity
  BY <1>0, <1>1, HeldByProducer
<1>3. writeIndex = w /\ Overruns(w, size) /\ PadOn(w, size)
  BY <1>0, <1>1 DEF LaidOut, ProducerAt, Unpublished
<1>4. writeIndex' = HeldIndex(w, size)
  <2>1. Mod(w) \in Nat
    BY <1>2, ModInBuffer
  <2> QED BY <1>1, <1>2, <1>3, <2>1, BufferConstants
          DEF WriteIndexAfterPad, PadSize, HeldIndex, LapEnd
<1>5. ProducerAt(w)'
  BY <1>0, <1>1, <1>2, <1>3, <1>4 DEF ProducerAt, Unpublished, PadOn, HeaderOn
<1> QED BY <1>0, <1>1, <1>5, ProducerStepKeeps

\* The pad's header and the slot behind it have no byte in common.
LEMMA PadApart ==
    ASSUME NEW w \in Nat, Boundary(w), NEW size \in Nat, Granted(size), Overruns(w, size),
           NEW b \in Mod(w) .. Mod(w) + HeaderSize - 1
    PROVE  b \in 0..Capacity - 1 /\ b \notin HeldBytes(w, size)
<1>1. /\ Mod(SlotStart(w, size)) = 0 /\ size + HeaderSize <= Mod(w)
      /\ Mod(w) \in Nat /\ Mod(w) + HeaderSize <= Capacity
  BY SlotFits
<1> QED BY <1>1, BufferConstants DEF HeldBytes

LEMMA PadSurvives ==
    ASSUME NEW w \in Nat, Boundary(w), NEW size \in Nat, Granted(size), PadOn(w, size),
           \A b \in 0..Capacity - 1 : b \notin HeldBytes(w, size) => buffer'[b] = buffer[b]
    PROVE  PadOn(w, size)'
<1>1. CASE Overruns(w, size)
  <2>1. \A b \in Mod(w) .. Mod(w) + HeaderSize - 1 : buffer'[b] = buffer[b]
    BY <1>1, PadApart
  <2>2. HeaderOn(Mod(w), TRUE, Capacity - Mod(w) + HeaderSize) /\ Mod(w) \in Nat
    BY <1>1, SlotFits DEF PadOn
  <2>3. HeaderOn(Mod(w), TRUE, Capacity - Mod(w) + HeaderSize)'
    BY <2>1, <2>2, HeaderKept
  <2> QED BY <2>3 DEF PadOn, HeaderOn
<1>2. CASE ~Overruns(w, size)
  BY <1>2 DEF PadOn
<1> QED BY <1>1, <1>2

LEMMA PadWriteHeader ==
    ASSUME Serialised, NEW at, LaidOut(at), TypeOK', WriteHeader
    PROVE  LaidOut(at)'
<1>0. PICK w, size, off :
         w = at[Len(sent) + 1] /\ size = wslot.size /\ off = Mod(SlotStart(w, size))
  OBVIOUS
<1>1. /\ wpc = "writeHeader" /\ wpc' = "owned"
      /\ WriteHeaderAt(wslot.data - HeaderSize, FALSE, wslot.size)
      /\ UNCHANGED <<readIndex, writeIndex, wslot, rpc, rslot, sent, received>>
  BY DEF WriteHeader, consumerVars
<1>2. /\ w \in Nat /\ Boundary(w) /\ Granted(size) /\ size \in Nat
      /\ Len(sent) < MaxMessages
      /\ wslot.data = off + HeaderSize
      /\ w + size + HeaderSize < readIndex + Capacity
  BY <1>0, <1>1, HeldByProducer
<1>3. writeIndex = HeldIndex(w, size) /\ PadOn(w, size)
  BY <1>0, <1>1 DEF LaidOut, ProducerAt, Unpublished
<1>4. off \in Nat /\ off + size + HeaderSize <= Capacity
  BY <1>0, <1>2, SlotFits
<1>5. /\ HeaderOn(off, FALSE, size)'
      /\ \A b \in 0..Capacity - 1 :
            b \notin off .. off + HeaderSize - 1 => buffer'[b] = buffer[b]
  <2>1. wslot.data - HeaderSize = off /\ off + HeaderSize <= Capacity
    BY <1>2, <1>4, BufferConstants
  <2>2. WriteHeaderAt(off, FALSE, size)
    BY <1>0, <1>1, <2>1
  <2> QED BY <1>4, <2>1, <2>2, PadCounts, HeaderWritten
<1>6. \A b \in 0..Capacity - 1 : b \notin HeldBytes(w, size) => buffer'[b] = buffer[b]
  <2>1. HeldBytes(w, size) = off .. off + size + HeaderSize - 1
    BY ONLY <1>0 DEF HeldBytes
  <2>2. \A b \in off .. off + HeaderSize - 1 : b \in off .. off + size + HeaderSize - 1
    BY ONLY <1>2, <1>4, BufferConstants
  <2> QED BY ONLY <1>5, <2>1, <2>2
<1>7. PadOn(w, size)'
  BY <1>2, <1>3, <1>6, PadSurvives
<1>8. ProducerAt(w)'
  BY <1>0, <1>1, <1>2, <1>3, <1>5, <1>7 DEF ProducerAt, Unpublished, PadOn, HeaderOn
<1>9. \A b \in 0..Capacity - 1 : b \notin BytesOf(w, size) => buffer'[b] = buffer[b]
  BY <1>6 DEF BytesOf
<1> QED BY <1>0, <1>1, <1>8, <1>9, ProducerStepKeeps

LEMMA PadFill ==
    ASSUME Serialised, NEW at, LaidOut(at), TypeOK', Fill
    PROVE  LaidOut(at)'
<1>0. PICK w, size, off, n :
         /\ w = at[Len(sent) + 1] /\ size = wslot.size /\ off = Mod(SlotStart(w, size))
         /\ n = Len(sent) + 1
  OBVIOUS
<1> DEFINE bytes == off + HeaderSize .. off + HeaderSize + size - 1
<1>1. /\ wpc = "owned" /\ wpc' = "filled"
      /\ WritePayload(wslot, n)
      /\ UNCHANGED <<readIndex, writeIndex, wslot, rpc, rslot, sent, received>>
  BY <1>0 DEF Fill, consumerVars
<1>2. /\ w \in Nat /\ Boundary(w) /\ Granted(size) /\ size \in Nat
      /\ Len(sent) < MaxMessages
      /\ wslot.data = off + HeaderSize
      /\ w + size + HeaderSize < readIndex + Capacity
  BY <1>0, <1>1, HeldByProducer
<1>3. writeIndex = HeldIndex(w, size) /\ PadOn(w, size) /\ HeaderOn(off, FALSE, size)
  BY <1>0, <1>1 DEF LaidOut, ProducerAt, Unpublished
<1>4. off \in Nat /\ off + size + HeaderSize <= Capacity
  BY <1>0, <1>2, SlotFits
<1>5. buffer' = [b \in 0..Capacity - 1 |-> IF b \in bytes THEN Payload(n) ELSE buffer[b]]
  <2>1. SlotBytes(wslot) = bytes
    BY <1>0, <1>2 DEF SlotBytes
  <2> QED BY <1>1, <2>1, PadCounts DEF WritePayload
<1>6. \A b \in bytes : b \in 0..Capacity - 1 /\ b \in HeldBytes(w, size)
  <2>1. HeldBytes(w, size) = off .. off + size + HeaderSize - 1
    BY <1>0, Zenon DEF HeldBytes
  <2> QED BY <1>2, <1>4, <2>1, BufferConstants
<1>7. \A b \in 0..Capacity - 1 : b \notin HeldBytes(w, size) => buffer'[b] = buffer[b]
  BY <1>5, <1>6
<1>8. PadOn(w, size)'
  BY <1>2, <1>3, <1>7, PadSurvives
<1>9. HeaderOn(off, FALSE, size)'
  <2>1. \A b \in off .. off + HeaderSize - 1 : b \in 0..Capacity - 1 /\ b \notin bytes
    BY <1>2, <1>4, BufferConstants
  <2>2. \A b \in off .. off + HeaderSize - 1 : buffer'[b] = buffer[b]
    BY <1>5, <2>1
  <2> QED BY <1>3, <1>4, <2>2, HeaderKept
<1>10. PayloadOn(off, size, n)'
  BY <1>5, <1>6 DEF PayloadOn, Payload
<1>11. ProducerAt(w)'
  BY <1>0, <1>1, <1>2, <1>3, <1>8, <1>9, <1>10
     DEF ProducerAt, Unpublished, PadOn, HeaderOn, PayloadOn
<1>12. \A b \in 0..Capacity - 1 : b \notin BytesOf(w, size) => buffer'[b] = buffer[b]
  BY <1>7 DEF BytesOf
<1> QED BY <1>0, <1>1, <1>11, <1>12, ProducerStepKeeps
\* A commit of size 0 leaves the index where it was: no pad was written for it.
LEMMA PadCommitNothing ==
    ASSUME Serialised, NEW at, LaidOut(at), TypeOK', CommitWrite, wslot.size = 0
    PROVE  LaidOut(at)'
<1>0. PICK w : w = at[Len(sent) + 1]
  OBVIOUS
<1>1. /\ wpc = "filled" /\ wpc' = "idle"
      /\ UNCHANGED <<readIndex, writeIndex, sent, buffer, rpc, rslot, received>>
  BY DEF CommitWrite, consumerVars
<1>2. w \in Nat /\ Boundary(w)
  BY <1>0, <1>1, HeldByProducer
<1>3. ~Overruns(w, 0)
  <2>1. Mod(w) \in 0..Capacity - kCacheLineSize
    BY <1>2, AlignedInLap DEF Boundary
  <2> QED BY <2>1, BufferConstants DEF Overruns
<1>4. writeIndex = w
  BY <1>0, <1>1, <1>3 DEF LaidOut, ProducerAt, Unpublished, HeldIndex
<1>5. ProducerAt(w)'
  BY <1>1, <1>4 DEF ProducerAt, Unpublished
<1> QED BY <1>0, <1>1, <1>5, ProducerStepKeeps

\* A commit lays out one more message, up to where the index then stands.
LEMMA PadCommitWrite ==
    ASSUME Serialised, NEW at \in [Nat -> Nat], LaidOut(at), TypeOK', CommitWrite,
           wslot.size # 0
    PROVE  \E next \in [Nat -> Nat] : LaidOut(next)'
<1>0. PICK n, w, size, off, m :
         /\ n = Len(sent) /\ w = at[n + 1] /\ size = wslot.size
         /\ off = Mod(SlotStart(w, size)) /\ m = [id |-> n + 1, size |-> size]
  OBVIOUS
<1>n. PICK next : next = [at EXCEPT ![n + 2] = EndOf(w, size)]
  OBVIOUS
<1>1. /\ wpc = "filled" /\ wpc' = "idle"
      /\ UNCHANGED <<readIndex, buffer, rpc, rslot, received>>
  BY DEF CommitWrite, consumerVars
<1>2. /\ w \in Nat /\ Boundary(w) /\ Granted(size) /\ size \in Nat \ {0}
      /\ n < MaxMessages /\ n \in Nat
      /\ rpc = "idle" /\ readIndex = at[Released + 1]
  BY <1>0, <1>1, HeldByProducer, PadCounts
<1>3. /\ writeIndex = HeldIndex(w, size) /\ PadOn(w, size) /\ HeaderOn(off, FALSE, size)
      /\ PayloadOn(off, size, n + 1)
  BY <1>0, <1>1 DEF LaidOut, ProducerAt, Unpublished
<1>4. writeIndex' = EndOf(w, size) /\ sent' = Append(sent, m)
  BY <1>0, <1>2, <1>3 DEF CommitWrite, WriteIndexAfterCommit, EndOf
<1>5. /\ EndOf(w, size) \in Nat /\ Boundary(EndOf(w, size))
      /\ w + kCacheLineSize <= EndOf(w, size)
  BY <1>2, EndIsBoundary
<1>6. /\ Len(sent') = n + 1 /\ sent'[n + 1] = m /\ m.size = size /\ m.id = n + 1
      /\ \A k \in 1..n : sent'[k] = sent[k]
  <2>1. sent \in Seq(MessageType)
    BY PadCounts
  <2>2. m \in MessageType /\ m.size = size /\ m.id = n + 1
    <3>1. m = [id |-> n + 1, size |-> size]
      BY <1>0, Zenon
    <3>2. n + 1 \in Nat /\ size \in Nat
      BY ONLY <1>2
    <3> QED BY <3>1, <3>2 DEF MessageType
  <2> QED BY <1>0, <1>2, <1>4, <2>1, <2>2
<1>7. /\ next \in [Nat -> Nat] /\ next[n + 2] = EndOf(w, size)
      /\ \A k \in 1..n + 1 : next[k] = at[k]
  <2>1. n + 2 \in Nat /\ \A k \in 1..n + 1 : k \in Nat /\ k # n + 2
    BY <1>2
  <2> QED BY <1>n, <1>5, <2>1
<1>8. Released' = Released /\ Released \in Nat /\ Released <= n
  BY <1>0, <1>1, PadCounts DEF Released
<1>9. LayoutOf(next)'
  <2>1. /\ at[1] = 0
        /\ \A k \in 1..n : at[k + 1] = EndOf(at[k], sent[k].size)
        /\ \A k \in 1..n + 1 : at[k] \in Nat /\ Boundary(at[k])
        /\ \A j, k \in 1..n + 1 : j <= k => at[j] + kCacheLineSize * (k - j) <= at[k]
    BY <1>0 DEF LaidOut, LayoutOf
  <2>2. next[1] = 0
    BY <1>2, <1>7, <2>1
  <2>3. \A k \in 1..n + 1 : next[k + 1] = EndOf(next[k], sent'[k].size)
    <3> SUFFICES ASSUME NEW k \in 1..n + 1 PROVE next[k + 1] = EndOf(next[k], sent'[k].size)
      OBVIOUS
    <3>1. CASE k = n + 1
      <4>1. k + 1 = n + 2
        BY <1>2, <3>1
      <4> QED BY <1>0, <1>6, <1>7, <3>1, <4>1
    <3>2. CASE k # n + 1
      <4>1. k \in 1..n /\ k + 1 \in 1..n + 1
        BY <1>2, <3>2
      <4> QED BY <1>6, <1>7, <2>1, <4>1
    <3> QED BY <3>1, <3>2
  <2>4. \A k \in 1..n + 2 : next[k] \in Nat /\ Boundary(next[k])
    <3> SUFFICES ASSUME NEW k \in 1..n + 2 PROVE next[k] \in Nat /\ Boundary(next[k])
      OBVIOUS
    <3>1. CASE k = n + 2
      BY <1>5, <1>7, <3>1
    <3>2. CASE k # n + 2
      <4>1. k \in 1..n + 1
        BY <1>2, <3>2
      <4> QED BY <1>7, <2>1, <4>1
    <3> QED BY <3>1, <3>2
  <2>5. ASSUME NEW j \in 1..n + 2, NEW k \in 1..n + 2, j <= k
        PROVE  next[j] + kCacheLineSize * (k - j) <= next[k]
    <3>1. CASE k # n + 2
      <4>1. j \in 1..n + 1 /\ k \in 1..n + 1
        BY <1>2, <2>5, <3>1
      <4> QED BY <1>7, <2>1, <2>5, <4>1
    <3>2. CASE j = n + 2
      <4>1. k = j /\ next[j] \in Nat
        BY <1>2, <2>4, <2>5, <3>2
      <4>2. kCacheLineSize * (k - j) = 0
        BY <4>1, BufferConstants
      <4> QED BY <4>1, <4>2
    <3>3. CASE k = n + 2 /\ j # n + 2
      <4>1. PICK c : c = n + 1
        OBVIOUS
      <4>2. j \in 1..c /\ c \in 1..c /\ c \in Nat /\ j <= c /\ k = c + 1
        BY <1>2, <3>3, <4>1
      <4>3. at[j] + kCacheLineSize * (c - j) <= at[c]
        <5>1. \A i, l \in 1..c : i <= l => at[i] + kCacheLineSize * (l - i) <= at[l]
          BY <2>1, <4>1
        <5> QED BY ONLY <4>2, <5>1
      <4>4. /\ kCacheLineSize * (c - j) \in Nat
            /\ kCacheLineSize * (k - j) = kCacheLineSize * (c - j) + kCacheLineSize
        <5>1. k - j = (c - j) + 1 /\ c - j \in Nat
          BY <4>2
        <5> QED BY <5>1, BufferConstants
      <4>5. /\ next[j] = at[j] /\ at[j] \in Nat /\ next[k] = EndOf(w, size)
            /\ at[c] = w
        BY <1>0, <1>7, <2>1, <3>3, <4>1, <4>2
      <4> QED BY <1>2, <1>5, <4>3, <4>4, <4>5, BufferConstants
    <3> QED BY <3>1, <3>2, <3>3
  <2>6. n + 1 + 1 = n + 2
    BY <1>2
  <2> QED BY <1>6, <2>2, <2>3, <2>4, <2>5, <2>6 DEF LayoutOf
<1>10. HistoriesIn'
  <2>1. \A k \in 1..n + 1 : sent'[k].id = k /\ sent'[k].size # 0 /\ Granted(sent'[k].size)
    <3> SUFFICES ASSUME NEW k \in 1..n + 1
                 PROVE  sent'[k].id = k /\ sent'[k].size # 0 /\ Granted(sent'[k].size)
      OBVIOUS
    <3>1. CASE k = n + 1
      BY <1>2, <1>6, <3>1
    <3>2. CASE k # n + 1
      <4>1. k \in 1..n
        BY <1>2, <3>2
      <4> QED BY <1>0, <1>6, <4>1 DEF LaidOut, HistoriesIn
    <3> QED BY <3>1, <3>2
  <2>2. Len(received) \in Nat /\ Len(received) <= n
    BY <1>0, PadCounts
  <2>3. \A k \in 1..Len(received) : received'[k] = sent'[k]
    <3> SUFFICES ASSUME NEW k \in 1..Len(received) PROVE received'[k] = sent'[k]
      OBVIOUS
    <3>1. k \in 1..n
      BY <1>2, <2>2
    <3> QED BY <1>1, <1>6, <3>1 DEF LaidOut, HistoriesIn
  <2>4. n + 1 <= MaxMessages /\ Len(received) <= n + 1
    BY <1>2, <2>2, BufferConstants
  <2> QED BY <1>1, <1>2, <1>6, <2>1, <2>3, <2>4 DEF HistoriesIn
<1>11. MessagesOn(next)'
  <2>0. PICK d : d = Released
    OBVIOUS
  <2>1. ASSUME NEW k \in d + 1 .. n + 1
        PROVE  /\ PadOn(next[k], sent[k].size)'
               /\ HeaderOn(Mod(SlotStart(next[k], sent[k].size)), FALSE, sent[k].size)'
               /\ PayloadOn(Mod(SlotStart(next[k], sent[k].size)), sent[k].size, k)'
    <3>1. CASE k = n + 1
      <4>1. next[k] = w
        <5>1. k \in 1..n + 1
          BY <1>2, <3>1
        <5> QED BY <1>0, <1>7, <3>1, <5>1
      <4>2. sent'[k].size = size
        BY <1>6, <3>1
      <4> QED BY <1>0, <1>1, <1>3, <3>1, <4>1, <4>2 DEF PadOn, HeaderOn, PayloadOn
    <3>2. CASE k # n + 1
      <4>1. k \in d + 1 .. n /\ k \in 1..n /\ k \in 1..n + 1
        <5>1. d \in Nat /\ n \in Nat
          BY <1>2, <1>8, <2>0
        <5> QED BY <3>2, <5>1
      <4>2. /\ PadOn(at[k], sent[k].size)
            /\ HeaderOn(Mod(SlotStart(at[k], sent[k].size)), FALSE, sent[k].size)
            /\ PayloadOn(Mod(SlotStart(at[k], sent[k].size)), sent[k].size, k)
        BY <1>0, <2>0, <4>1 DEF LaidOut, MessagesOn
      <4>3. next[k] = at[k] /\ sent'[k] = sent[k]
        BY <1>6, <1>7, <4>1
      <4> QED BY <1>1, <4>2, <4>3 DEF PadOn, HeaderOn, PayloadOn
    <3> QED BY <3>1, <3>2
  <2> QED BY <1>6, <1>8, <2>0, <2>1 DEF MessagesOn
<1>12. ProducerAt(next[Len(sent) + 1])'
  <2>1. next[Len(sent') + 1] = EndOf(w, size)
    <3>1. n + 1 + 1 = n + 2
      BY <1>2
    <3> QED BY <1>6, <1>7, <3>1
  <2>2. ProducerAt(EndOf(w, size))'
    BY <1>1, <1>4 DEF ProducerAt, Unpublished
  <2> QED BY <2>1, <2>2
<1>13. ConsumerAt(next[Released + 1], sent[Released + 1].size)'
  <2>1. next[Released + 1] = at[Released + 1]
    <3>1. Released + 1 \in 1..n + 1
      BY <1>2, <1>8
    <3> QED BY <1>7, <3>1
  <2> QED BY <1>1, <1>2, <1>8, <2>1 DEF ConsumerAt
<1>14. LaidOut(next)'
  BY <1>1, <1>9, <1>10, <1>11, <1>12, <1>13 DEF LaidOut
<1> QED BY <1>7, <1>14

(***************************************************************************)
(* The consumer.                                                           *)
(***************************************************************************)

\* The message the consumer is at, while it is at one.
LEMMA ReadMessage ==
    ASSUME Serialised, NEW at, LaidOut(at), rpc # "idle"
    PROVE  /\ wpc = "idle"
           /\ Released + 1 \in 1..Len(sent)
           /\ at[Released + 1] \in Nat /\ Boundary(at[Released + 1])
           /\ Granted(sent[Released + 1].size) /\ sent[Released + 1].size \in Nat \ {0}
<1>1. wpc = "idle" /\ Released < Len(sent)
  BY DEF LaidOut, ConsumerAt
<1>2. Released + 1 \in 1..Len(sent)
  BY <1>1, PadCounts
<1> QED BY <1>1, <1>2, PadMessage

\* While it has not consumed the message, its bytes are in place.
LEMMA ReadMessageInPlace ==
    ASSUME Serialised, NEW at, LaidOut(at), rpc # "idle",
           NEW r, NEW size, r = at[Released + 1], size = sent[Released + 1].size
    PROVE  /\ PadOn(r, size)
           /\ HeaderOn(Mod(SlotStart(r, size)), FALSE, size)
           /\ PayloadOn(Mod(SlotStart(r, size)), size, Released + 1)
<1>1. Released + 1 \in Released + 1 .. Len(sent)
  BY ReadMessage, PadCounts
<1> QED BY <1>1 DEF LaidOut, MessagesOn

\* A header that is in place is the one the consumer reads.
LEMMA HeaderOnRead ==
    ASSUME DOMAIN buffer = 0..Capacity - 1,
           NEW off \in Nat, off + HeaderSize <= Capacity, NEW p, NEW n, HeaderOn(off, p, n),
           NEW h \in HeadersAt(off)
    PROVE  h.padded = p /\ h.size = n
<1>1. \A i \in off + 1 .. off + HeaderSize - 1 : i \in DOMAIN buffer
  BY BufferConstants
<1>2. HeaderIntact(off)
  BY <1>1 DEF HeaderOn, HeaderIntact, Header
<1>3. h = [padded |-> p, size |-> n]
  BY <1>2 DEF HeadersAt, HeaderOn, Header
<1> QED BY <1>3

\* A step of the consumer that consumes and commits nothing keeps the invariant if what
\* is said of the consumer does.
LEMMA ConsumerStepKeeps ==
    ASSUME Serialised, NEW at, LaidOut(at), TypeOK', wpc = "idle",
           UNCHANGED <<writeIndex, buffer, wpc, wslot, sent, received>>,
           rpc' = "consumed" <=> rpc = "consumed",
           ConsumerAt(at[Released + 1], sent[Released + 1].size)'
    PROVE  LaidOut(at)'
<1>1. Released' = Released
  BY DEF Released
<1>2. MessagesOn(at)' /\ LayoutOf(at)'
  BY <1>1, PadFrame, LayoutFrame
<1>3. HistoriesIn'
  BY DEF LaidOut, HistoriesIn
<1>4. ProducerAt(at[Len(sent) + 1])'
  BY DEF LaidOut, ProducerAt, Unpublished
<1> QED BY <1>2, <1>3, <1>4 DEF LaidOut

LEMMA PadAcquireRead ==
    ASSUME Serialised, NEW at, LaidOut(at), TypeOK', AcquireRead
    PROVE  LaidOut(at)'
<1>1. /\ rpc = "idle" /\ wpc = "idle" /\ rpc' \in {"idle", "readHeader"}
      /\ readIndex >= writeIndex => rpc' = "idle"
      /\ UNCHANGED <<readIndex, writeIndex, buffer, wpc, wslot, rslot, sent, received>>
  BY DEF AcquireRead, NothingToRead, Serialised, producerVars
<1>2. readIndex = at[Released + 1] /\ writeIndex = at[Len(sent) + 1]
  BY <1>1 DEF LaidOut, ConsumerAt, ProducerAt, Unpublished
<1>3. rpc' # "idle" => Released < Len(sent)
  <2>1. Released = Len(sent) => readIndex = writeIndex /\ readIndex \in Nat
    BY <1>2, PadCounts
  <2>2. Released <= Len(sent) /\ Released \in Nat /\ Len(sent) \in Nat
    BY PadCounts
  <2> QED BY <1>1, <2>1, <2>2
<1>4. Released' = Released
  BY <1>1 DEF Released
<1>5. ConsumerAt(at[Released + 1], sent[Released + 1].size)'
  BY <1>1, <1>2, <1>3, <1>4 DEF ConsumerAt
<1> QED BY <1>1, <1>5, ConsumerStepKeeps

LEMMA PadReadHeader ==
    ASSUME Serialised, NEW at, LaidOut(at), TypeOK', ReadHeader
    PROVE  LaidOut(at)'
<1>0. PICK r, size : r = at[Released + 1] /\ size = sent[Released + 1].size
  OBVIOUS
<1>1. PICK h \in HeadersAt(Mod(readIndex)) :
         /\ rslot' = [data |-> Mod(readIndex) + HeaderSize, size |-> h.size]
         /\ rpc' = IF h.padded THEN "skipPad" ELSE "owned"
  BY DEF ReadHeader, ReadSlotData
<1>2. /\ rpc = "readHeader"
      /\ UNCHANGED <<readIndex, writeIndex, buffer, wpc, wslot, sent, received>>
  BY DEF ReadHeader, producerVars
<1>3. readIndex = r /\ Released < Len(sent)
  BY <1>0, <1>2 DEF LaidOut, ConsumerAt
<1>4. /\ r \in Nat /\ Boundary(r) /\ Granted(size) /\ size \in Nat \ {0} /\ wpc = "idle"
      /\ PadOn(r, size) /\ HeaderOn(Mod(SlotStart(r, size)), FALSE, size)
  BY <1>0, <1>2, ReadMessage, ReadMessageInPlace
<1>5. Mod(r) \in Nat /\ Mod(r) + HeaderSize <= Capacity /\ DOMAIN buffer = 0..Capacity - 1
  BY <1>4, SlotFits, PadCounts
<1>6. CASE Overruns(r, size)
  <2>1. h.padded = TRUE /\ h.size = Capacity - Mod(r) + HeaderSize
    <3>1. HeaderOn(Mod(r), TRUE, Capacity - Mod(r) + HeaderSize)
      BY <1>4, <1>6 DEF PadOn
    <3>2. h \in HeadersAt(Mod(r))
      BY <1>1, <1>3
    <3> QED BY <1>5, <3>1, <3>2, HeaderOnRead
  <2>2. rpc' = "skipPad" /\ rslot'.size = Capacity - Mod(r) + HeaderSize
    BY <1>1, <2>1
  <2>3. Released' = Released
    BY <1>2, <2>2 DEF Released
  <2>4. ConsumerAt(at[Released + 1], sent[Released + 1].size)'
    BY <1>0, <1>2, <1>3, <1>6, <2>2, <2>3 DEF ConsumerAt
  <2> QED BY <1>2, <1>4, <2>2, <2>4, ConsumerStepKeeps
<1>7. CASE ~Overruns(r, size)
  <2>1. SlotStart(r, size) = r /\ HeldIndex(r, size) = r
    BY <1>7 DEF SlotStart, HeldIndex
  <2>2. h.padded = FALSE /\ h.size = size
    <3>1. HeaderOn(Mod(r), FALSE, size)
      BY <1>4, <2>1
    <3>2. h \in HeadersAt(Mod(r))
      BY <1>1, <1>3
    <3> QED BY <1>5, <3>1, <3>2, HeaderOnRead
  <2>3. rpc' = "owned" /\ rslot' = [data |-> Mod(SlotStart(r, size)) + HeaderSize, size |-> size]
    BY <1>1, <1>3, <2>1, <2>2
  <2>4. Released' = Released
    BY <1>2, <2>3 DEF Released
  <2>5. ConsumerAt(at[Released + 1], sent[Released + 1].size)'
    BY <1>0, <1>2, <1>3, <2>1, <2>3, <2>4 DEF ConsumerAt
  <2> QED BY <1>2, <1>4, <2>3, <2>5, ConsumerStepKeeps
<1> QED BY <1>6, <1>7

LEMMA PadSkipPad ==
    ASSUME Serialised, NEW at, LaidOut(at), TypeOK', SkipPad
    PROVE  LaidOut(at)'
<1>0. PICK r, size : r = at[Released + 1] /\ size = sent[Released + 1].size
  OBVIOUS
<1>1. /\ rpc = "skipPad" /\ rpc' = "readFirst" /\ readIndex' = readIndex + rslot.size + HeaderSize
      /\ UNCHANGED <<writeIndex, buffer, wpc, wslot, rslot, sent, received>>
  BY DEF SkipPad, ReadIndexAfterPad, producerVars
<1>2. /\ readIndex = r /\ Released < Len(sent) /\ Overruns(r, size)
      /\ rslot.size = Capacity - Mod(r) + HeaderSize
  BY <1>0, <1>1 DEF LaidOut, ConsumerAt
<1>3. r \in Nat /\ Mod(r) \in Nat /\ wpc = "idle"
  <2>1. r \in Nat /\ wpc = "idle"
    BY <1>0, <1>1, ReadMessage
  <2> QED BY <2>1, ModInBuffer, BufferConstants
<1>4. readIndex' = HeldIndex(r, size)
  BY <1>1, <1>2, <1>3, BufferConstants DEF HeldIndex, LapEnd
<1>5. Released' = Released
  BY <1>1 DEF Released
<1>6. ConsumerAt(at[Released + 1], sent[Released + 1].size)'
  BY <1>0, <1>1, <1>2, <1>4, <1>5 DEF ConsumerAt
<1> QED BY <1>1, <1>3, <1>6, ConsumerStepKeeps

LEMMA PadReadFirst ==
    ASSUME Serialised, NEW at, LaidOut(at), TypeOK', ReadFirst
    PROVE  LaidOut(at)'
<1>0. PICK r, size : r = at[Released + 1] /\ size = sent[Released + 1].size
  OBVIOUS
<1>1. /\ rpc = "readFirst" /\ rpc' = "owned"
      /\ UNCHANGED <<readIndex, writeIndex, buffer, wpc, wslot, sent, received>>
  BY DEF ReadFirst, producerVars
<1>2. PICK h \in HeadersAt(0) : rslot' = [data |-> HeaderSize, size |-> h.size]
  BY DEF ReadFirst
<1>3. readIndex = HeldIndex(r, size) /\ Released < Len(sent) /\ Overruns(r, size)
  BY <1>0, <1>1 DEF LaidOut, ConsumerAt
<1>4. /\ r \in Nat /\ Boundary(r) /\ Granted(size) /\ size \in Nat \ {0} /\ wpc = "idle"
      /\ HeaderOn(Mod(SlotStart(r, size)), FALSE, size)
  BY <1>0, <1>1, ReadMessage, ReadMessageInPlace
<1>5. Mod(SlotStart(r, size)) = 0
  BY <1>3, <1>4, SlotFits
<1>6. h.size = size
  <2>1. DOMAIN buffer = 0..Capacity - 1
    BY PadCounts
  <2>2. 0 \in Nat /\ 0 + HeaderSize <= Capacity
    BY BufferConstants
  <2>3. HeaderOn(0, FALSE, size)
    BY <1>4, <1>5
  <2> QED BY <1>2, <2>1, <2>2, <2>3, HeaderOnRead
<1>7. rslot' = [data |-> Mod(SlotStart(r, size)) + HeaderSize, size |-> size]
  BY <1>2, <1>5, <1>6, BufferConstants
<1>8. Released' = Released
  BY <1>1 DEF Released
<1>9. ConsumerAt(at[Released + 1], sent[Released + 1].size)'
  BY <1>0, <1>1, <1>3, <1>7, <1>8 DEF ConsumerAt
<1> QED BY <1>1, <1>4, <1>9, ConsumerStepKeeps

\* The bytes of a held slot are the payload of the next message.
LEMMA HeldIsNext ==
    ASSUME Serialised, NEW at, LaidOut(at), rpc = "owned"
    PROVE  /\ Released = Len(received) /\ Released + 1 \in 1..Len(sent)
           /\ rslot.size = sent[Released + 1].size
           /\ PayloadOf(rslot) = Released + 1
<1>0. PICK n, r, size, off :
         /\ n = Released + 1 /\ r = at[n] /\ size = sent[n].size
         /\ off = Mod(SlotStart(r, size))
  OBVIOUS
<1>1. Released = Len(received) /\ n \in 1..Len(sent)
  BY <1>0, ReadMessage, PadCounts
<1>2. rslot.data = off + HeaderSize /\ rslot.size = size
  BY <1>0 DEF LaidOut, ConsumerAt
<1>3. /\ r \in Nat /\ Boundary(r) /\ Granted(size) /\ size \in Nat \ {0}
      /\ PayloadOn(off, size, n)
  BY <1>0, ReadMessage, ReadMessageInPlace
<1>4. off \in Nat /\ off + size + HeaderSize <= Capacity /\ DOMAIN buffer = 0..Capacity - 1
  BY <1>0, <1>3, SlotFits, PadCounts
<1>5. SlotBytes(rslot) = off + HeaderSize .. off + HeaderSize + size - 1
  BY <1>2 DEF SlotBytes
<1>6. \A i \in SlotBytes(rslot) : i \in DOMAIN buffer /\ buffer[i] = Payload(n)
  <2>1. \A i \in SlotBytes(rslot) : i \in DOMAIN buffer
    BY <1>3, <1>4, <1>5, BufferConstants
  <2> QED BY <1>3, <1>5, <2>1 DEF PayloadOn
<1>7. off + HeaderSize \in SlotBytes(rslot)
  BY <1>3, <1>4, <1>5, BufferConstants
<1>8. \A k : buffer[off + HeaderSize] = Payload(k) => k = n
  BY <1>6, <1>7 DEF Payload
<1>9. PayloadOf(rslot) = n
  <2> DEFINE P(k) == \A i \in SlotBytes(rslot) : buffer[i] = Payload(k)
  <2>1. \E k \in 1..Len(sent) :
           \A i \in SlotBytes(rslot) : i \in DOMAIN buffer /\ buffer[i] = Payload(k)
    BY <1>1, <1>6
  <2>2. PayloadOf(rslot) = CHOOSE k \in 1..Len(sent) : P(k)
    BY <2>1 DEF PayloadOf
  <2>3. \A k \in 1..Len(sent) : P(k) => k = n
    BY <1>7, <1>8
  <2>4. P(n)
    BY <1>6
  <2> HIDE DEF P
  <2>5. (CHOOSE k \in 1..Len(sent) : P(k)) = n
    BY <1>1, <2>3, <2>4
  <2> QED BY <2>2, <2>5
<1> QED BY <1>0, <1>1, <1>2, <1>9

LEMMA PadConsume ==
    ASSUME Serialised, NEW at, LaidOut(at), TypeOK', Consume
    PROVE  LaidOut(at)' /\ received' = Append(received, sent[Len(received) + 1])
<1>0. PICK n : n = Released + 1
  OBVIOUS
<1>1. /\ rpc = "owned" /\ rpc' = "consumed"
      /\ received' = Append(received, [id |-> PayloadOf(rslot), size |-> rslot.size])
      /\ UNCHANGED <<readIndex, writeIndex, buffer, wpc, wslot, rslot, sent>>
  BY DEF Consume, producerVars
<1>2. /\ Released = Len(received) /\ n \in 1..Len(sent)
      /\ rslot.size = sent[n].size /\ PayloadOf(rslot) = n
  BY <1>0, <1>1, HeldIsNext
<1>3. [id |-> PayloadOf(rslot), size |-> rslot.size] = sent[n]
  BY <1>2, PadMessage
<1>4. /\ Len(received') = n /\ received'[n] = sent[n]
      /\ \A k \in 1..Len(received) : received'[k] = received[k]
      /\ n = Len(received) + 1 /\ Len(received) \in Nat /\ Len(sent) \in Nat
  <2>1. received \in Seq(MessageType) /\ sent[n] \in MessageType /\ Len(sent) \in Nat
    BY <1>2, PadCounts
  <2> QED BY <1>0, <1>1, <1>2, <1>3, <2>1
<1>5. Released' = Released
  BY <1>0, <1>1, <1>2, <1>4 DEF Released
<1>6. MessagesOn(at)' /\ LayoutOf(at)'
  BY <1>1, <1>5, PadFrame, LayoutFrame
<1>7. HistoriesIn'
  <2>1. \A k \in 1..n : received'[k] = sent[k]
    <3> SUFFICES ASSUME NEW k \in 1..n PROVE received'[k] = sent[k]
      OBVIOUS
    <3>1. CASE k = n
      BY <1>4, <3>1
    <3>2. CASE k # n
      <4>1. k \in 1..Len(received)
        BY <1>4, <3>2
      <4> QED BY <1>4, <4>1 DEF LaidOut, HistoriesIn
    <3> QED BY <3>1, <3>2
  <2>2. n > 0 /\ n <= Len(sent)
    BY <1>2, <1>4
  <2> QED BY <1>1, <1>4, <2>1, <2>2 DEF LaidOut, HistoriesIn
<1>8. wpc = "idle" /\ ProducerAt(at[Len(sent) + 1])'
  BY <1>1 DEF LaidOut, ProducerAt, Unpublished
<1>9. ConsumerAt(at[Released + 1], sent[Released + 1].size)'
  BY <1>1, <1>5 DEF LaidOut, ConsumerAt
<1> QED BY <1>1, <1>3, <1>4, <1>6, <1>7, <1>8, <1>9 DEF LaidOut

LEMMA PadCommitRead ==
    ASSUME Serialised, NEW at, LaidOut(at), TypeOK', CommitRead
    PROVE  LaidOut(at)'
<1>0. PICK n, r, size : n = Released + 1 /\ r = at[n] /\ size = sent[n].size
  OBVIOUS
<1>1. /\ rpc = "consumed" /\ rpc' = "idle"
      /\ readIndex' = IF rslot.size = 0 THEN readIndex ELSE ReadIndexAfterCommit
      /\ UNCHANGED <<writeIndex, buffer, wpc, wslot, sent, received>>
  BY DEF CommitRead, producerVars
<1>2. n = Len(received) /\ n \in 1..Len(sent) /\ wpc = "idle"
  BY <1>0, <1>1, ReadMessage, PadCounts
<1>3. /\ readIndex = HeldIndex(r, size) /\ rslot.size = size /\ size \in Nat \ {0}
  <2>1. readIndex = HeldIndex(r, size) /\ rslot.size = size
    BY <1>0, <1>1 DEF LaidOut, ConsumerAt
  <2> QED BY <1>0, <1>1, <2>1, ReadMessage
<1>4. readIndex' = at[n + 1]
  <2>1. readIndex' = EndOf(r, size)
    BY <1>1, <1>3 DEF ReadIndexAfterCommit, EndOf
  <2> QED BY <1>0, <1>2, <2>1 DEF LaidOut, LayoutOf
<1>5. Released' = n
  BY <1>1, <1>2 DEF Released
<1>6. MessagesOn(at)'
  <2>1. \A k \in n + 1 .. Len(sent) : k \in Released + 1 .. Len(sent)
    BY <1>0, PadCounts
  <2> QED BY <1>1, <1>5, <2>1 DEF LaidOut, MessagesOn, PadOn, HeaderOn, PayloadOn
<1>7. HistoriesIn' /\ LayoutOf(at)'
  BY <1>1, LayoutFrame DEF LaidOut, HistoriesIn
<1>8. ProducerAt(at[Len(sent) + 1])'
  BY <1>1, <1>2 DEF LaidOut, ProducerAt, Unpublished
<1>9. ConsumerAt(at[Released + 1], sent[Released + 1].size)'
  BY <1>1, <1>4, <1>5 DEF ConsumerAt
<1> QED BY <1>1, <1>6, <1>7, <1>8, <1>9 DEF LaidOut

(***************************************************************************)
(* The padded queue is a channel.                                          *)
(***************************************************************************)
PaddedInv == \E at \in [Nat -> Nat] : LaidOut(at)

LEMMA PaddedStep ==
    ASSUME Serialised, PaddedInv, TypeOK', [Next]_vars
    PROVE  PaddedInv'
<1>1. PICK at \in [Nat -> Nat] : LaidOut(at)
  BY DEF PaddedInv
<1>2. ~AbandonWrite /\ ~AbandonRead
  <2>1. drops \in 0..0
    BY <1>1 DEF Serialised, LaidOut, TypeOK
  <2> QED BY <2>1 DEF Serialised, AbandonWrite, AbandonRead
<1>3. CASE UNCHANGED vars
  <2> USE DEF vars, producerVars, consumerVars
  <2>1. Released' = Released
    BY <1>3 DEF Released
  <2>2. MessagesOn(at)' /\ LayoutOf(at)'
    BY <1>1, <1>3, <2>1, PadFrame, LayoutFrame
  <2>3. HistoriesIn'
    BY <1>1, <1>3 DEF LaidOut, HistoriesIn
  <2>4. ProducerAt(at[Len(sent) + 1])'
    BY <1>1, <1>3 DEF LaidOut, ProducerAt, PadOn, HeaderOn, PayloadOn
  <2>5. ConsumerAt(at[Released + 1], sent[Released + 1].size)'
    BY <1>1, <1>3, <2>1 DEF LaidOut, ConsumerAt
  <2>6. LaidOut(at)'
    BY <1>1, <1>3, <2>2, <2>3, <2>4, <2>5 DEF LaidOut
  <2> QED BY <1>1, <2>6 DEF PaddedInv
<1>4. CASE ProducerStep
  <2>1. ASSUME NEW size \in Sizes, AcquireWrite(size) PROVE LaidOut(at)'
    BY <1>1, <2>1, PadAcquireWrite
  <2>2. WritePad => LaidOut(at)'
    BY <1>1, PadWritePad
  <2>3. PublishPad => LaidOut(at)'
    BY <1>1, PadPublishPad
  <2>4. WriteHeader => LaidOut(at)'
    BY <1>1, PadWriteHeader
  <2>5. Fill => LaidOut(at)'
    BY <1>1, PadFill
  <2>6. CommitWrite => PaddedInv'
    BY <1>1, PadCommitWrite, PadCommitNothing DEF PaddedInv
  <2> QED BY <1>1, <1>2, <1>4, <2>1, <2>2, <2>3, <2>4, <2>5, <2>6 DEF ProducerStep, PaddedInv
<1>5. CASE ConsumerStep
  <2>1. AcquireRead => LaidOut(at)'
    BY <1>1, PadAcquireRead
  <2>2. ReadHeader => LaidOut(at)'
    BY <1>1, PadReadHeader
  <2>3. SkipPad => LaidOut(at)'
    BY <1>1, PadSkipPad
  <2>4. ReadFirst => LaidOut(at)'
    BY <1>1, PadReadFirst
  <2>5. Consume => LaidOut(at)'
    BY <1>1, PadConsume
  <2>6. CommitRead => LaidOut(at)'
    BY <1>1, PadCommitRead
  <2> QED BY <1>1, <1>2, <1>5, <2>1, <2>2, <2>3, <2>4, <2>5, <2>6 DEF ConsumerStep, PaddedInv
<1> QED BY <1>3, <1>4, <1>5 DEF Next

\* Every granted message takes a line at least, and so there are fewer unread ones than lines.
LEMMA FewerThanLines ==
    ASSUME Serialised, NEW at, LaidOut(at), wpc # "idle"
    PROVE  Len(sent) - Len(received) < Capacity \div kCacheLineSize
<1>0. PICK n, r, w, u, q : /\ n = Len(sent) /\ r = at[Released + 1] /\ w = at[n + 1]
                           /\ u = n - Released /\ q = Capacity \div kCacheLineSize
  OBVIOUS
<1>1. n \in Nat /\ Released \in Nat /\ u \in Nat /\ Len(received) = Released
  <2>1. rpc = "idle"
    BY HeldByProducer
  <2>2. /\ Len(sent) \in Nat /\ Released \in Nat /\ Released <= Len(sent)
        /\ Len(received) = Released
    <3>1. /\ Len(sent) \in Nat /\ Len(received) \in Nat /\ Len(received) <= Len(sent)
          /\ Released \in Nat
          /\ rpc # "consumed" => Released = Len(received)
      BY PadCounts
    <3> QED BY ONLY <2>1, <3>1
  <2>3. n = Len(sent) /\ u = n - Released
    BY ONLY <1>0
  <2> QED BY ONLY <2>2, <2>3
<1>2. r \in Nat /\ w \in Nat /\ w < r + Capacity
  <2>1. at[Released + 1] \in Nat /\ at[Len(sent) + 1] \in Nat
    BY PadIndices
  <2>2. /\ readIndex = at[Released + 1] /\ wslot.size \in Nat
        /\ at[Len(sent) + 1] + wslot.size + HeaderSize < readIndex + Capacity
    BY HeldByProducer
  <2>3. HeaderSize \in Nat /\ Capacity \in Nat
    BY BufferConstants
  <2>4. r = at[Released + 1] /\ w = at[Len(sent) + 1]
    BY ONLY <1>0
  <2>5. r \in Nat /\ w \in Nat /\ w + wslot.size + HeaderSize < r + Capacity
    BY ONLY <2>1, <2>2, <2>4
  <2> QED BY ONLY <2>2, <2>3, <2>5
<1>3. r + kCacheLineSize * u <= w
  <2>1. /\ Released + 1 \in 1..n + 1 /\ n + 1 \in 1..n + 1 /\ Released + 1 <= n + 1
        /\ n + 1 - (Released + 1) = u
    BY <1>0, <1>1
  <2> QED BY <1>0, <2>1 DEF LaidOut, LayoutOf
<1>4. q \in Nat /\ Capacity = kCacheLineSize * q
  <2>1. PICK d \in Nat, e \in 0..kCacheLineSize - 1 :
           /\ Capacity = kCacheLineSize * d + e
           /\ Capacity % kCacheLineSize = e /\ Capacity \div kCacheLineSize = d
    BY Division, BufferConstants
  <2>2. e = 0
    BY <2>1, QueueAssumption
  <2> QED BY <1>0, <2>1, <2>2, BufferConstants
<1>5. kCacheLineSize * u < kCacheLineSize * q /\ kCacheLineSize * u \in Nat
  <2>1. kCacheLineSize * u \in Nat
    BY <1>1, BufferConstants
  <2> QED BY <1>2, <1>3, <1>4, <2>1, BufferConstants
<1>6. CASE q <= u
  <2>1. kCacheLineSize * q <= kCacheLineSize * u
    BY <1>1, <1>4, <1>6, BufferConstants
  <2>2. kCacheLineSize * q \in Nat
    BY <1>4, BufferConstants
  <2> QED BY <1>5, <2>1, <2>2
<1> QED BY <1>0, <1>1, <1>4, <1>6

LEMMA PaddedStepsChannel ==
    ASSUME Serialised, PaddedInv, TypeOK', [Next]_vars
    PROVE  [Channel!Next]_<<sent, received>>
<1>1. PICK at \in [Nat -> Nat] : LaidOut(at)
  BY DEF PaddedInv
<1>2. CASE CommitWrite /\ wslot.size # 0
  <2> DEFINE m == [id |-> Len(sent) + 1, size |-> wslot.size]
  <2>1. /\ Granted(wslot.size) /\ wslot.size \in Nat \ {0} /\ Len(sent) < MaxMessages
        /\ wpc # "idle"
    BY <1>1, <1>2, HeldByProducer DEF CommitWrite
  <2>2. sent' = Append(sent, m) /\ received' = received
    BY <1>2, <2>1 DEF CommitWrite
  <2>3. m \in [id : 1..MaxMessages, size : Sizes]
    <3>1. Len(sent) + 1 \in 1..MaxMessages
      <4>1. Len(sent) \in Nat
        BY ONLY <1>1, PadCounts
      <4>2. Len(sent) < MaxMessages /\ MaxMessages \in Nat
        BY <2>1, BufferConstants
      <4>3. PICK l \in Nat : l = Len(sent)
        BY ONLY <4>1
      <4>4. l < MaxMessages /\ MaxMessages \in Nat
        BY ONLY <4>2, <4>3
      <4>5. l + 1 \in 1..MaxMessages
        BY ONLY <4>4, l \in Nat
      <4> QED BY ONLY <4>3, <4>5
    <3>2. wslot.size \in Sizes
      BY <2>1 DEF Granted
    <3> QED BY <3>1, <3>2
  <2>4. Len(sent) - Len(received) < Capacity \div kCacheLineSize
    BY <1>1, <2>1, FewerThanLines
  <2> HIDE DEF m
  <2>5. Channel!Send(m)
    BY <2>2, <2>4 DEF Channel!Send
  <2> QED BY <2>3, <2>5 DEF Channel!Next
<1>3. CASE Consume
  <2>1. received' = Append(received, sent[Len(received) + 1]) /\ sent' = sent
    BY <1>1, <1>3, PadConsume DEF Consume
  <2>2. Len(received) < Len(sent)
    BY <1>1, <1>3, HeldIsNext, PadCounts DEF Consume
  <2> QED BY <2>1, <2>2 DEF Channel!Receive, Channel!Next
<1>4. CASE CommitWrite /\ wslot.size = 0
  BY <1>4 DEF CommitWrite
<1>5. CASE ~CommitWrite /\ ~Consume
  BY <1>5 DEF Next, ProducerStep, ConsumerStep, AcquireWrite, WritePad, PublishPad, WriteHeader,
         Fill, AbandonWrite, AcquireRead, ReadHeader, SkipPad, ReadFirst,
         CommitRead, AbandonRead, producerVars, consumerVars, vars
<1> QED BY <1>2, <1>3, <1>4, <1>5

\* In every reachable state the messages are laid out one behind the other.
THEOREM PaddedCorrect ==
    ASSUME Serialised
    PROVE  Spec => []PaddedInv
<1>1. Init => PaddedInv
  <2> SUFFICES ASSUME Init PROVE PaddedInv
    OBVIOUS
  <2>1. [k \in Nat |-> 0] \in [Nat -> Nat]
    OBVIOUS
  <2> QED BY <2>1, PadInit DEF PaddedInv
<1>2. PaddedInv /\ TypeOK' /\ [Next]_vars => PaddedInv'
  BY PaddedStep
<1> QED BY TypeCorrect, <1>1, <1>2, PTL DEF Spec

\* With pads too the queue is a channel, if the calls do not overlap: commit_write sends,
\* reading a held slot receives, and writing and skipping pads is invisible.
THEOREM PaddedImplementsChannel ==
    ASSUME Serialised
    PROVE  Spec => ImplementsChannel
<1>1. Init => Channel!Init
  BY DEF Init, Channel!Init
<1>2. PaddedInv /\ TypeOK' /\ [Next]_vars => [Channel!Next]_<<sent, received>>
  BY PaddedStepsChannel
<1> QED BY TypeCorrect, PaddedCorrect, <1>1, <1>2, PTL
        DEF Spec, ImplementsChannel, Channel!Spec, Channel!channelVars

\* The slot acquire_read hands out is the oldest unread message, behind a pad as well.
THEOREM PaddedHeldSlotCorrect ==
    ASSUME Serialised
    PROVE  Spec => []HeldSlotIsNextMessage
<1>1. PaddedInv => HeldSlotIsNextMessage
  <2> SUFFICES ASSUME PaddedInv, rpc = "owned"
               PROVE  /\ Len(received) + 1 <= Len(sent)
                      /\ rslot.size = sent[Len(received) + 1].size
                      /\ PayloadOf(rslot) = Len(received) + 1
    BY DEF HeldSlotIsNextMessage
  <2>1. PICK at \in [Nat -> Nat] : LaidOut(at)
    BY DEF PaddedInv
  <2>2. /\ Released = Len(received) /\ Released + 1 \in 1..Len(sent)
        /\ rslot.size = sent[Released + 1].size
        /\ PayloadOf(rslot) = Released + 1
    BY <2>1, HeldIsNext
  <2>3. Len(received) \in Nat /\ Len(sent) \in Nat
    BY <2>1, PadCounts
  <2> QED BY <2>2, <2>3
<1> QED BY PaddedCorrect, <1>1, PTL

\* acquire_read answers Empty only when every committed message was consumed, also where
\* the indices count pads.
THEOREM PaddedEmptyCorrect ==
    ASSUME Serialised
    PROVE  Spec => EmptyOnlyWhenDrained
<1>1. PaddedInv /\ [Next]_vars =>
        [rresult' = "Empty" /\ rresult # "Empty" => Len(received) = Len(sent)]_vars
  <2> SUFFICES ASSUME PaddedInv, Next, rresult' = "Empty", rresult # "Empty"
               PROVE  Len(received) = Len(sent)
    OBVIOUS
  <2>1. AcquireRead /\ readIndex >= writeIndex
    BY DEF NothingToRead, Next, ProducerStep, ConsumerStep, AcquireWrite, WritePad, PublishPad,
           WriteHeader, Fill, CommitWrite, AbandonWrite, AcquireRead, ReadHeader, SkipPad,
           ReadFirst, Consume, CommitRead, AbandonRead, producerVars, consumerVars
  <2>2. PICK at \in [Nat -> Nat] : LaidOut(at)
    BY DEF PaddedInv
  <2>3. /\ readIndex = at[Released + 1] /\ writeIndex = at[Len(sent) + 1]
        /\ Released = Len(received)
    BY <2>1, <2>2, PadCounts
       DEF AcquireRead, Serialised, LaidOut, ConsumerAt, ProducerAt, Unpublished
  <2>4. /\ Len(sent) \in Nat /\ Len(received) \in Nat /\ Len(received) <= Len(sent)
        /\ readIndex \in Nat /\ writeIndex \in Nat
    BY <2>2, PadCounts
  <2>5. PICK r, n : r = Len(received) + 1 /\ n = Len(sent) + 1
    OBVIOUS
  <2>6. r \in Nat \ {0} /\ n \in Nat \ {0} /\ r <= n
    <3>1. PICK i, j : i = Len(received) /\ j = Len(sent)
      OBVIOUS
    <3>2. i \in Nat /\ j \in Nat /\ i <= j
      BY <2>4, <3>1, Zenon
    <3>3. i + 1 \in Nat \ {0} /\ j + 1 \in Nat \ {0} /\ i + 1 <= j + 1
      BY <3>2
    <3> QED BY <2>5, <3>1, <3>3, Zenon
  <2>7. at[r] + kCacheLineSize * (n - r) <= at[n]
    <3>1. \A j, k \in 1..n : j <= k => at[j] + kCacheLineSize * (k - j) <= at[k]
      BY <2>2, <2>5 DEF LaidOut, LayoutOf
    <3>2. r \in 1..n /\ n \in 1..n
      BY <2>6
    <3> QED BY ONLY <2>6, <3>1, <3>2
  <2>8. readIndex = at[r] /\ writeIndex = at[n]
    BY <2>3, <2>5
  <2>9. CASE r < n
    <3>1. PICK c : c = kCacheLineSize * (n - r)
      OBVIOUS
    <3>2. c \in Nat \ {0}
      <4>1. n - r \in Nat \ {0}
        BY <2>6, <2>9
      <4> QED BY <3>1, <4>1, BufferConstants
    <3>3. readIndex + c <= writeIndex
      BY <2>7, <2>8, <3>1
    <3>4. readIndex >= writeIndex
      BY <2>1
    <3> QED BY <2>4, <3>2, <3>3, <3>4
  <2>10. CASE r = n
    BY <2>4, <2>5, <2>10
  <2> QED BY <2>6, <2>9, <2>10
<1> QED BY PaddedCorrect, <1>1, PTL DEF Spec, EmptyOnlyWhenDrained
=============================================================================
