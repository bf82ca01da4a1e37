------------------------ MODULE SPSCQueueUniformProofs ------------------------
(***************************************************************************)
(* SPSCQueue with messages of one stride is a lossless channel: for every  *)
(* cache line, header and buffer size, every set of message sizes of one   *)
(* stride, any number of messages and dropped slots, and two threads that  *)
(* interleave freely.                                                      *)
(***************************************************************************)
EXTENDS SPSCQueueUniform, SPSCQueueProofs

\* What the proofs use of the constants.
LEMMA ConstantTypes ==
    /\ kCacheLineSize \in Nat \ {0}
    /\ SlotStride \in Nat \ {0} /\ Slots \in Nat \ {0}
    /\ Capacity \in Nat \ {0} /\ SlotStride <= Capacity
    /\ HeaderSize \in 1..SlotStride
    /\ Sizes \subseteq Nat
<1>1. Slots * SlotStride >= SlotStride
  BY UniformAssumption
<1> QED BY <1>1, QueueAssumption, UniformAssumption

LEMMA WholeStrides == Capacity = Slots * SlotStride
BY UniformAssumption

(***************************************************************************)
(* Arithmetic of strides.                                                  *)
(***************************************************************************)

\* A slot starts at a whole number of strides and ends inside the buffer.
LEMMA OffsetInBuffer ==
    ASSUME NEW k \in Nat \ {0}
    PROVE  /\ Offset(k) = SlotStride * ((k - 1) % Slots)
           /\ Offset(k) \in 0 .. Capacity - SlotStride
<1> DEFINE q == (k - 1) \div Slots
           m == (k - 1) % Slots
<1>1. q \in Nat /\ m \in 0..Slots - 1 /\ k - 1 = Slots * q + m
  BY ConstantTypes
<1>2. SlotStride * m \in 0 .. Capacity - SlotStride
  <2>1. SlotStride * m >= 0 /\ SlotStride * m <= SlotStride * (Slots - 1)
    BY ConstantTypes, <1>1
  <2>2. SlotStride * (Slots - 1) = Capacity - SlotStride
    BY ConstantTypes, WholeStrides
  <2> QED BY ConstantTypes, <1>1, <2>1, <2>2
<1>3. SlotStride * (k - 1) = Capacity * q + SlotStride * m
  BY ConstantTypes, WholeStrides, <1>1
<1>4. (Capacity * q + SlotStride * m) % Capacity = SlotStride * m
  BY ConstantTypes, <1>1, <1>2
<1> QED BY ConstantTypes, <1>2, <1>3, <1>4 DEF Offset, Mod

LEMMA OffsetOfNext ==
    ASSUME NEW n \in Nat
    PROVE  Offset(n + 1) = Mod(SlotStride * n)
<1>1. n + 1 - 1 = n
  OBVIOUS
<1> QED BY <1>1 DEF Offset

\* The slots of two messages less than one lap apart do not overlap.
LEMMA OffsetsApart ==
    ASSUME NEW j \in Nat \ {0}, NEW k \in Nat \ {0}, j < k, k - j < Slots
    PROVE  \/ Offset(j) + SlotStride <= Offset(k)
           \/ Offset(k) + SlotStride <= Offset(j)
<1> DEFINE a == (j - 1) % Slots
           b == (k - 1) % Slots
<1>1. a \in Nat /\ b \in Nat /\ a # b
  <2>1. /\ a \in 0..Slots - 1 /\ (j - 1) \div Slots \in Nat
        /\ j - 1 = Slots * ((j - 1) \div Slots) + a
    BY ConstantTypes
  <2>2. /\ b \in 0..Slots - 1 /\ (k - 1) \div Slots \in Nat
        /\ k - 1 = Slots * ((k - 1) \div Slots) + b
    BY ConstantTypes
  <2>3. ASSUME a = b PROVE FALSE
    <3> DEFINE d == (k - 1) \div Slots - (j - 1) \div Slots
    <3>1. d \in Int /\ k - j = Slots * d
      BY ConstantTypes, <2>1, <2>2, <2>3
    <3>2. CASE d >= 1
      <4>1. Slots * d >= Slots
        BY ConstantTypes, <3>1, <3>2
      <4> QED BY ConstantTypes, <3>1, <4>1
    <3>3. CASE d <= 0
      <4>1. Slots * d <= 0
        BY ConstantTypes, <3>1, <3>3
      <4> QED BY ConstantTypes, <3>1, <4>1
    <3> QED BY ConstantTypes, <3>1, <3>2, <3>3
  <2> QED BY ConstantTypes, <2>1, <2>2, <2>3
<1>2. CASE a < b
  <2>1. SlotStride * (b - a) >= SlotStride
    BY ConstantTypes, <1>1, <1>2
  <2>2. SlotStride * b = SlotStride * a + SlotStride * (b - a)
    BY ConstantTypes, <1>1
  <2>3. Offset(j) = SlotStride * a /\ Offset(k) = SlotStride * b
    BY ConstantTypes, OffsetInBuffer
  <2> QED BY ConstantTypes, <1>1, <2>1, <2>2, <2>3
<1>3. CASE b < a
  <2>1. SlotStride * (a - b) >= SlotStride
    BY ConstantTypes, <1>1, <1>3
  <2>2. SlotStride * a = SlotStride * b + SlotStride * (a - b)
    BY ConstantTypes, <1>1
  <2>3. Offset(j) = SlotStride * a /\ Offset(k) = SlotStride * b
    BY ConstantTypes, OffsetInBuffer
  <2> QED BY ConstantTypes, <1>1, <2>1, <2>2, <2>3
<1> QED BY ConstantTypes, <1>1, <1>2, <1>3

\* A committed message fits its stride.
LEMMA CommittedFits ==
    ASSUME NEW size \in Nat, CommittedSize(size)
    PROVE  FitsStride(size)
<1>1. size + HeaderSize \in Nat
  BY ConstantTypes
<1> QED BY ConstantTypes, <1>1, RoundUpBounds DEF CommittedSize, FitsStride

\* commit_write and commit_read move an index that stands at the start of a
\* slot to the start of the next one.
LEMMA CommitAdvancesOneStride ==
    ASSUME NEW k \in Nat, NEW size \in Nat, CommittedSize(size)
    PROVE  RoundUp(SlotStride * k + size + HeaderSize) = SlotStride * (k + 1)
<1> DEFINE n == size + HeaderSize
           L == kCacheLineSize
<1>1. n \in Nat /\ RoundUp(n) = SlotStride
  BY ConstantTypes DEF CommittedSize
<1>2. PICK c \in Nat : SlotStride = c * L
  BY ConstantTypes, <1>1, RoundUpBounds
<1> DEFINE d == (n + L - 1) \div L
           e == (n + L - 1) % L
<1>3. d \in Nat /\ e \in 0..L - 1 /\ n + L - 1 = L * d + e
  BY ConstantTypes, <1>1
<1>4. d * L = SlotStride
  BY ConstantTypes, <1>1 DEF RoundUp
<1>5. SlotStride * k + n + L - 1 = L * (c * k + d) + e
  BY ConstantTypes, <1>1, <1>2, <1>3
<1>6. (L * (c * k + d) + e) \div L = c * k + d
  <2>1. c * k + d \in Nat
    BY ConstantTypes, <1>2, <1>3
  <2> HIDE DEF d, e
  <2> QED BY ConstantTypes, <1>3, <2>1
<1>7. RoundUp(SlotStride * k + n) = (c * k + d) * L
  BY ConstantTypes, <1>5, <1>6 DEF RoundUp
<1>8. (c * k + d) * L = SlotStride * k + SlotStride
  BY ConstantTypes, <1>2, <1>3, <1>4
<1>9. SlotStride * k + size + HeaderSize = SlotStride * k + n
  BY ConstantTypes, <1>1
<1> QED BY ConstantTypes, <1>7, <1>8, <1>9

(***************************************************************************)
(* Where the two sides work.                                               *)
(***************************************************************************)
SlotOf(k) == Offset(k) .. Offset(k) + SlotStride - 1

\* No byte of a slot belongs to the slot of another message of the same lap.
LEMMA SlotsDisjoint ==
    ASSUME NEW j \in Nat \ {0}, NEW k \in Nat \ {0}, j < k, k - j < Slots,
           NEW i \in SlotOf(j)
    PROVE  i \in 0..Capacity - 1 /\ i \notin SlotOf(k)
<1>1. /\ Offset(j) \in 0..Capacity - SlotStride
      /\ Offset(k) \in 0..Capacity - SlotStride
  BY OffsetInBuffer
<1>2. \/ Offset(j) + SlotStride <= Offset(k)
      \/ Offset(k) + SlotStride <= Offset(j)
  BY OffsetsApart
<1> QED BY <1>1, <1>2, ConstantTypes DEF SlotOf

\* The counts the invariant is about are natural numbers.
LEMMA Counts ==
    ASSUME IInv
    PROVE  /\ Len(sent) \in Nat /\ Len(received) \in Nat
           /\ Released \in Nat /\ Released <= Len(received)
           /\ Released <= Len(sent)
           /\ rpc # "consumed" => Released = Len(received)
           /\ rpc = "consumed" => Released + 1 = Len(received)
<1>1. Len(sent) \in Nat /\ Len(received) \in Nat
  BY DEF IInv, TypeOK
<1>2. Len(received) <= Len(sent) /\ (rpc = "consumed" => Len(received) > 0)
  BY DEF IInv, IndicesCountMessages
<1> QED BY <1>1, <1>2 DEF Released

\* The indices address the slot of the next message to write and to read.
LEMMA IndicesAddressSlots ==
    ASSUME IInv
    PROVE  /\ Mod(writeIndex) = Offset(Len(sent) + 1)
           /\ Mod(readIndex) = Offset(Released + 1)
<1>1. writeIndex = SlotStride * Len(sent) /\ readIndex = SlotStride * Released
  BY DEF IInv, IndicesCountMessages
<1> QED BY <1>1, Counts, OffsetOfNext

\* What is known of a message that was committed.
LEMMA CommittedMessage ==
    ASSUME IInv, NEW k \in 1..Len(sent)
    PROVE  /\ sent[k] = [id |-> k, size |-> sent[k].size]
           /\ sent[k].size \in Nat \ {0}
           /\ FitsStride(sent[k].size) /\ CommittedSize(sent[k].size)
<1>1. sent[k] \in MessageType
  <2>1. sent \in Seq(MessageType)
    BY DEF IInv, TypeOK
  <2> QED BY <2>1
<1>2. /\ sent[k].id = k
      /\ FitsStride(sent[k].size) /\ CommittedSize(sent[k].size)
  BY DEF IInv, HistoriesAgree
<1>3. sent[k].size > 0
  BY <1>2 DEF CommittedSize
<1> QED BY <1>1, <1>2, <1>3 DEF MessageType

\* A step that writes only into the slot being produced leaves every unreleased
\* message in place.
LEMMA MessagesUntouched ==
    ASSUME IInv, Unreleased < Slots, sent' = sent, Released' = Released,
           \A i \in 0..Capacity - 1 : i \notin SlotOf(Len(sent) + 1) => buffer'[i] = buffer[i]
    PROVE  MessagesInPlace'
<1> SUFFICES ASSUME NEW k \in Released + 1 .. Len(sent)
             PROVE  /\ HeaderInPlace(Offset(k), sent[k].size)'
                    /\ PayloadInPlace(Offset(k), sent[k].size, k)'
  BY DEF MessagesInPlace
<1>1. /\ k \in Nat \ {0} /\ k \in 1..Len(sent) /\ Len(sent) + 1 \in Nat \ {0}
      /\ k < Len(sent) + 1 /\ Len(sent) + 1 - k < Slots
  BY Counts, ConstantTypes DEF Unreleased
<1>2. /\ HeaderInPlace(Offset(k), sent[k].size)
      /\ PayloadInPlace(Offset(k), sent[k].size, k)
  BY DEF IInv, MessagesInPlace
<1>3. sent[k].size + HeaderSize <= SlotStride /\ sent[k].size \in Nat
  BY <1>1, CommittedMessage DEF FitsStride
<1>4. \A i \in SlotOf(k) : buffer'[i] = buffer[i]
  BY <1>1, SlotsDisjoint
<1>5. Offset(k) \in Nat
  BY <1>1, OffsetInBuffer
<1>6. HeaderInPlace(Offset(k), sent[k].size)'
  <2>1. Offset(k) \in SlotOf(k)
    BY <1>5, ConstantTypes DEF SlotOf
  <2>2. \A i \in Offset(k) + 1 .. Offset(k) + HeaderSize - 1 : i \in SlotOf(k)
    BY <1>5, ConstantTypes DEF SlotOf
  <2>3. buffer'[Offset(k)] = Header(FALSE, sent[k].size)
    BY <1>2, <1>4, <2>1 DEF HeaderInPlace
  <2>4. \A i \in Offset(k) + 1 .. Offset(k) + HeaderSize - 1 : buffer'[i] = HeaderTail
    BY <1>2, <1>4, <2>2 DEF HeaderInPlace
  <2> QED BY <2>3, <2>4 DEF HeaderInPlace, Header, HeaderTail
<1>7. PayloadInPlace(Offset(k), sent[k].size, k)'
  <2>1. \A i \in Offset(k) + HeaderSize .. Offset(k) + HeaderSize + sent[k].size - 1 :
           i \in SlotOf(k)
    <3>1. PICK o \in Nat, z \in Nat : o = Offset(k) /\ z = sent[k].size /\ z + HeaderSize <= SlotStride
      BY ONLY <1>3, <1>5
    <3>2. z + HeaderSize <= SlotStride /\ HeaderSize \in Nat /\ SlotStride \in Nat
      BY ONLY <3>1, ConstantTypes
    <3>3. \A i \in o + HeaderSize .. o + HeaderSize + z - 1 : i \in o .. o + SlotStride - 1
      BY ONLY <3>2, o \in Nat, z \in Nat
    <3> QED BY ONLY <3>1, <3>3 DEF SlotOf
  <2>2. \A i \in Offset(k) + HeaderSize .. Offset(k) + HeaderSize + sent[k].size - 1 :
           buffer[i] = Payload(k)
    BY ONLY <1>2 DEF PayloadInPlace
  <2>3. \A i \in Offset(k) + HeaderSize .. Offset(k) + HeaderSize + sent[k].size - 1 :
           buffer'[i] = Payload(k)
    BY ONLY <1>4, <2>1, <2>2
  <2> QED BY <2>3 DEF PayloadInPlace, Payload
<1> QED BY <1>6, <1>7

(***************************************************************************)
(* The parts of the invariant a step leaves alone.                         *)
(***************************************************************************)
\* A step that moves no index, message or history keeps what is said of them.
LEMMA HistoryFrame ==
    ASSUME IInv, UNCHANGED <<readIndex, writeIndex, buffer, sent, received>>,
           rpc' = "consumed" <=> rpc = "consumed"
    PROVE  /\ Released' = Released /\ Unreleased' = Unreleased
           /\ IndicesCountMessages' /\ MessagesInPlace' /\ HistoriesAgree'
<1>1. Released' = Released /\ Unreleased' = Unreleased
  BY DEF Released, Unreleased
<1>2. IndicesCountMessages'
  BY <1>1 DEF IInv, IndicesCountMessages
<1>3. MessagesInPlace'
  BY <1>1 DEF IInv, MessagesInPlace, HeaderInPlace, PayloadInPlace
<1>4. HistoriesAgree'
  BY DEF IInv, HistoriesAgree
<1> QED BY <1>1, <1>2, <1>3, <1>4

\* Consumer steps leave the producer's slot alone.
LEMMA ProducerFrame ==
    ASSUME IInv, TypeOK', UNCHANGED <<wpc, wslot, buffer, sent>>,
           Unreleased' \in Int, Unreleased \in Int, Unreleased' <= Unreleased
    PROVE  ProducerInSlot'
<1>1. Unreleased < Slots => Unreleased' < Slots
  BY ConstantTypes
<1>2. ProducerInSlot
  BY DEF IInv
<1> QED BY <1>1, <1>2 DEF ProducerInSlot, HeaderInPlace, PayloadInPlace, FitsStride, CommittedSize

\* Producer steps that commit nothing leave the consumer's slot alone.
LEMMA ConsumerFrame ==
    ASSUME IInv, UNCHANGED <<rpc, rslot, sent, received>>
    PROVE  ConsumerInSlot'
<1>1. Released' = Released
  BY DEF Released
<1> QED BY <1>1 DEF IInv, ConsumerInSlot

(***************************************************************************)
(* acquire_write hands out the slot its index names, and never a pad.      *)
(***************************************************************************)
LEMMA AcquiredSlotFits ==
    ASSUME IInv, NEW size \in Sizes, ~Full(size)
    PROVE  /\ Unreleased < Slots
           /\ FitsStride(size)
           /\ size > 0 => CommittedSize(size)
           /\ ~NeedsPad(size)
<1>1. size \in Nat
  BY ConstantTypes
<1>2. Unreleased \in Nat /\ writeIndex - readIndex = SlotStride * Unreleased
  <2>1. writeIndex = SlotStride * Len(sent) /\ readIndex = SlotStride * Released
    BY DEF IInv, IndicesCountMessages
  <2> QED BY <2>1, Counts, ConstantTypes DEF Unreleased
<1>3. SlotStride * Unreleased \in Nat
  BY <1>2, ConstantTypes
<1>4. SlotStride * Unreleased + size + HeaderSize < Capacity
  <2>1. ~(SlotStride * Unreleased + size + HeaderSize >= Capacity)
    BY <1>2 DEF Full
  <2> QED BY <1>1, <1>3, <2>1, ConstantTypes
<1>5. Unreleased < Slots
  <2>1. ASSUME Unreleased >= Slots PROVE FALSE
    <3>1. SlotStride * Unreleased >= Slots * SlotStride
      BY <1>2, <2>1, ConstantTypes
    <3> QED BY <1>1, <1>3, <1>4, <3>1, ConstantTypes, WholeStrides
  <2> QED BY <1>2, <2>1, ConstantTypes
<1>6. size > 0 => CommittedSize(size)
  <2>1. size + HeaderSize < Capacity
    BY <1>1, <1>3, <1>4, ConstantTypes
  <2> QED BY <2>1, UniformAssumption DEF CommittedSize
<1>7. FitsStride(size)
  <2>1. CASE size > 0
    BY <1>1, <1>6, <2>1, CommittedFits
  <2>2. CASE size = 0
    BY <2>2, ConstantTypes DEF FitsStride
  <2> QED BY <1>1, <2>1, <2>2
<1>8. ~NeedsPad(size)
  <2>1. Mod(writeIndex) \in 0..Capacity - SlotStride
    BY Counts, IndicesAddressSlots, OffsetInBuffer
  <2> QED BY <1>1, <1>7, <2>1, ConstantTypes DEF NeedsPad, FitsStride
<1> QED BY <1>5, <1>6, <1>7, <1>8

(***************************************************************************)
(* The invariant is inductive.                                             *)
(***************************************************************************)
LEMMA InvInit == Init => IInv
<1> SUFFICES ASSUME Init PROVE IInv
  OBVIOUS
<1>1. TypeOK
  BY TypeInit
<1>2. Len(sent) = 0 /\ Len(received) = 0 /\ Released = 0 /\ Unreleased = 0
  BY DEF Init, Released, Unreleased
<1>3. IndicesCountMessages
  BY <1>2, ConstantTypes DEF Init, IndicesCountMessages
<1>4. ProducerInSlot /\ ConsumerInSlot
  BY DEF Init, ProducerInSlot, ConsumerInSlot
<1>5. MessagesInPlace /\ HistoriesAgree
  BY <1>2, QueueAssumption DEF MessagesInPlace, HistoriesAgree
<1> QED BY <1>1, <1>3, <1>4, <1>5 DEF IInv

LEMMA InvAcquireWrite ==
    ASSUME IInv, TypeOK', NEW size \in Sizes, AcquireWrite(size)
    PROVE  IInv'
<1> USE DEF AcquireWrite, consumerVars
<1>1. IndicesCountMessages' /\ MessagesInPlace' /\ HistoriesAgree' /\ Unreleased' = Unreleased
  BY HistoryFrame
<1>2. ConsumerInSlot'
  BY ConsumerFrame
<1>3. ProducerInSlot'
  <2>1. CASE wpc' = "idle"
    BY <2>1 DEF ProducerInSlot
  <2>2. CASE wpc' # "idle"
    <3>1. /\ ~Full(size) /\ sent' = sent /\ Len(sent) < MaxMessages
          /\ wpc' = IF NeedsPad(size) THEN "writePad" ELSE "writeHeader"
          /\ wslot' = [data |-> HeaderSize + (IF NeedsPad(size) THEN 0 ELSE Mod(writeIndex)),
                       size |-> size]
      BY <2>2
    <3> HIDE DEF AcquireWrite
    <3>2. /\ Unreleased < Slots /\ FitsStride(size) /\ ~NeedsPad(size)
          /\ size > 0 => CommittedSize(size)
      BY <3>1, AcquiredSlotFits
    <3>3. wpc' = "writeHeader"
      BY <3>1, <3>2
    <3>4. wslot'.size = size /\ wslot'.data = HeaderSize + Offset(Len(sent) + 1)
      BY <3>1, <3>2, IndicesAddressSlots
    <3>5. Offset(Len(sent) + 1) \in Nat
      BY Counts, OffsetInBuffer
    <3>6. wslot'.data = Offset(Len(sent') + 1) + HeaderSize
      BY <3>1, <3>4, <3>5, ConstantTypes
    <3>7. Unreleased' < Slots /\ Len(sent') < MaxMessages
      BY <1>1, <3>1, <3>2
    <3> QED BY <3>2, <3>3, <3>4, <3>6, <3>7 DEF ProducerInSlot, FitsStride, CommittedSize
  <2> QED BY <2>1, <2>2
<1> QED BY <1>1, <1>2, <1>3 DEF IInv

LEMMA InvWriteHeader ==
    ASSUME IInv, TypeOK', WriteHeader
    PROVE  IInv'
<1>0. PICK off : off = Offset(Len(sent) + 1)
  OBVIOUS
<1>1. /\ wpc = "writeHeader" /\ wpc' = "owned"
      /\ WriteHeaderAt(wslot.data - HeaderSize, FALSE, wslot.size)
      /\ UNCHANGED <<readIndex, writeIndex, wslot, rpc, rslot, sent, received>>
  BY DEF WriteHeader, consumerVars
<1>2. /\ Len(sent) < MaxMessages /\ wslot.size \in Sizes
      /\ Unreleased < Slots /\ wslot.data = off + HeaderSize
      /\ FitsStride(wslot.size) /\ (wslot.size > 0 => CommittedSize(wslot.size))
  BY <1>0, <1>1 DEF IInv, ProducerInSlot
<1>3. off \in 0..Capacity - SlotStride /\ wslot.data - HeaderSize = off
  <2>1. off \in 0..Capacity - SlotStride
    BY <1>0, Counts, OffsetInBuffer
  <2> QED BY <1>2, <2>1, ConstantTypes
<1>4. DOMAIN buffer = 0..Capacity - 1
  BY DEF IInv, TypeOK
<1>5. buffer' = [i \in 0..Capacity - 1 |->
                   IF i = off THEN Header(FALSE, wslot.size)
                   ELSE IF i \in off + 1 .. off + HeaderSize - 1 THEN HeaderTail
                   ELSE buffer[i]]
  BY <1>1, <1>3, <1>4 DEF WriteHeaderAt
<1>6. \A i \in 0..Capacity - 1 : i \notin off .. off + SlotStride - 1 => buffer'[i] = buffer[i]
  <2>1. \A i \in off .. off + HeaderSize - 1 : i \in off .. off + SlotStride - 1
    BY <1>3, ConstantTypes
  <2>2. off \in off .. off + HeaderSize - 1
    BY <1>3, ConstantTypes
  <2>3. \A i \in off + 1 .. off + HeaderSize - 1 : i \in off .. off + HeaderSize - 1
    BY <1>3, ConstantTypes
  <2> QED BY <1>5, <2>1, <2>2, <2>3
<1>7. Released' = Released /\ Unreleased' = Unreleased
  BY <1>1 DEF Released, Unreleased
<1>8. MessagesInPlace'
  BY <1>1, <1>2, <1>6, <1>7, <1>0, MessagesUntouched DEF SlotOf
<1>9. ProducerInSlot'
  <2>1. HeaderInPlace(off, wslot.size)'
    <3>1. \A i \in off .. off + HeaderSize - 1 : i \in 0..Capacity - 1
      BY <1>3, ConstantTypes
    <3>2. off \in off .. off + HeaderSize - 1
      BY <1>3, ConstantTypes
    <3>3. \A i \in off + 1 .. off + HeaderSize - 1 :
             i \in off .. off + HeaderSize - 1 /\ i # off
      BY <1>3, ConstantTypes
    <3>4. buffer'[off] = Header(FALSE, wslot.size)
      BY <1>5, <3>1, <3>2
    <3>5. \A i \in off + 1 .. off + HeaderSize - 1 : buffer'[i] = HeaderTail
      BY <1>5, <3>1, <3>3
    <3> QED BY <1>1, <3>4, <3>5 DEF HeaderInPlace, Header, HeaderTail
  <2> QED BY <1>0, <1>1, <1>2, <1>7, <2>1 DEF ProducerInSlot, HeaderInPlace, FitsStride, CommittedSize
<1>10. ConsumerInSlot'
  BY <1>1, ConsumerFrame
<1>11. IndicesCountMessages' /\ HistoriesAgree'
  BY <1>1, <1>7 DEF IInv, IndicesCountMessages, HistoriesAgree
<1> QED BY <1>8, <1>9, <1>10, <1>11 DEF IInv

LEMMA InvFill ==
    ASSUME IInv, TypeOK', Fill
    PROVE  IInv'
<1>0. PICK off, size, n : off = Offset(Len(sent) + 1) /\ size = wslot.size /\ n = Len(sent) + 1
  OBVIOUS
<1> DEFINE bytes == off + HeaderSize .. off + HeaderSize + size - 1
<1>1. /\ wpc = "owned" /\ wpc' = "filled"
      /\ WritePayload(wslot, Len(sent) + 1)
      /\ UNCHANGED <<readIndex, writeIndex, wslot, rpc, rslot, sent, received>>
  BY DEF Fill, consumerVars
<1>2. /\ Len(sent) < MaxMessages /\ size \in Sizes
      /\ Unreleased < Slots /\ wslot.data = off + HeaderSize /\ wslot.size = size
      /\ FitsStride(size) /\ (size > 0 => CommittedSize(size))
      /\ HeaderInPlace(off, size)
  BY <1>0, <1>1 DEF IInv, ProducerInSlot
<1>3. off \in 0..Capacity - SlotStride
  BY <1>0, Counts, OffsetInBuffer
<1>4. DOMAIN buffer = 0..Capacity - 1 /\ size \in Nat
  BY <1>0 DEF IInv, TypeOK, SlotType
<1>5. buffer' = [i \in 0..Capacity - 1 |-> IF i \in bytes THEN Payload(n) ELSE buffer[i]]
  BY <1>0, <1>1, <1>2, <1>4 DEF WritePayload, SlotBytes
<1>6. \A i \in bytes : i \in off .. off + SlotStride - 1 /\ i \in 0..Capacity - 1
  BY <1>2, <1>3, <1>4, ConstantTypes DEF FitsStride
<1>7. \A i \in 0..Capacity - 1 : i \notin off .. off + SlotStride - 1 => buffer'[i] = buffer[i]
  BY <1>5, <1>6
<1>8. Released' = Released /\ Unreleased' = Unreleased
  BY <1>1 DEF Released, Unreleased
<1>9. MessagesInPlace'
  BY <1>1, <1>2, <1>7, <1>8, <1>0, MessagesUntouched DEF SlotOf
<1>10. ProducerInSlot'
  <2>1. HeaderInPlace(off, size)'
    <3>1. \A i \in off .. off + HeaderSize - 1 : i \notin bytes /\ i \in 0..Capacity - 1
      BY <1>3, <1>4, ConstantTypes
    <3>2. \A i \in off .. off + HeaderSize - 1 : buffer'[i] = buffer[i]
      BY <1>5, <3>1
    <3>3. off \in off .. off + HeaderSize - 1
      BY <1>3, ConstantTypes
    <3>4. \A i \in off + 1 .. off + HeaderSize - 1 : i \in off .. off + HeaderSize - 1
      BY <1>3, ConstantTypes
    <3> QED BY <1>1, <1>2, <3>2, <3>3, <3>4 DEF HeaderInPlace, Header, HeaderTail
  <2>2. PayloadInPlace(off, size, n)'
    BY <1>1, <1>5, <1>6 DEF PayloadInPlace, Payload
  <2> QED BY <1>0, <1>1, <1>2, <1>8, <2>1, <2>2
          DEF ProducerInSlot, HeaderInPlace, PayloadInPlace, FitsStride, CommittedSize
<1>11. ConsumerInSlot'
  BY <1>1, ConsumerFrame
<1>12. IndicesCountMessages' /\ HistoriesAgree'
  BY <1>1, <1>8 DEF IInv, IndicesCountMessages, HistoriesAgree
<1> QED BY <1>9, <1>10, <1>11, <1>12 DEF IInv

LEMMA InvCommitWrite ==
    ASSUME IInv, TypeOK', CommitWrite
    PROVE  IInv'
<1>0. PICK n, size, m :
         /\ n = Len(sent) /\ size = wslot.size
         /\ m = [id |-> n + 1, size |-> size]
  OBVIOUS
<1>1. /\ wpc = "filled" /\ wpc' = "idle"
      /\ UNCHANGED <<readIndex, buffer, rpc, rslot, received>>
  BY DEF CommitWrite, consumerVars
<1>2. Released' = Released
  BY <1>1 DEF Released
<1>3. ProducerInSlot'
  BY <1>1 DEF ProducerInSlot
<1>4. CASE size = 0
  <2>1. UNCHANGED <<writeIndex, sent>>
    BY <1>0, <1>4 DEF CommitWrite
  <2> QED BY <1>1, <1>3, <2>1, HistoryFrame, ConsumerFrame DEF IInv
<1>5. CASE size # 0
  <2>1. writeIndex' = RoundUp(writeIndex + size + HeaderSize) /\ sent' = Append(sent, m)
    BY <1>0, <1>5 DEF CommitWrite, WriteIndexAfterCommit
  <2>2. n \in Nat /\ size \in Nat \ {0} /\ sent \in Seq(MessageType)
    BY <1>0, <1>5 DEF IInv, TypeOK, SlotType
  <2>3. /\ Unreleased < Slots /\ FitsStride(size) /\ CommittedSize(size)
        /\ size \in Sizes /\ n < MaxMessages
        /\ HeaderInPlace(Offset(n + 1), size)
        /\ PayloadInPlace(Offset(n + 1), size, n + 1)
    <3>1. size > 0
      BY <2>2
    <3> QED BY <1>0, <1>1, <3>1 DEF IInv, ProducerInSlot
  <2>4. m \in MessageType /\ m.id = n + 1 /\ m.size = size
    BY <1>0, <2>2 DEF MessageType
  <2>5. /\ Len(sent') = n + 1 /\ sent'[n + 1] = m
        /\ \A k \in 1..n : sent'[k] = sent[k]
    BY <1>0, <2>1, <2>2, <2>4
  <2>6. Unreleased' = Unreleased + 1 /\ Unreleased \in Nat
    BY <1>0, <1>2, <2>2, <2>5, Counts DEF Unreleased
  <2>7. IndicesCountMessages'
    <3>1. writeIndex = SlotStride * n
      BY <1>0 DEF IInv, IndicesCountMessages
    <3>2. writeIndex' = SlotStride * (n + 1)
      BY <2>1, <2>2, <2>3, <3>1, CommitAdvancesOneStride
    <3>3. Unreleased' <= Slots
      BY <2>3, <2>6, ConstantTypes
    <3>4. /\ Len(received) <= n /\ Len(received) \in Nat
          /\ rpc = "consumed" => Len(received) > 0
          /\ readIndex = SlotStride * Released
      BY <1>0, Counts DEF IInv, IndicesCountMessages
    <3>5. Len(received) <= n + 1
      BY <2>2, <3>4
    <3> QED BY <1>1, <1>2, <2>5, <3>2, <3>3, <3>4, <3>5 DEF IndicesCountMessages
  <2>8. MessagesInPlace'
    <3> SUFFICES ASSUME NEW k \in Released + 1 .. n + 1
                 PROVE  /\ HeaderInPlace(Offset(k), sent[k].size)'
                        /\ PayloadInPlace(Offset(k), sent[k].size, k)'
      BY <1>2, <2>5 DEF MessagesInPlace
    <3>1. CASE k = n + 1
      BY <1>1, <2>3, <2>4, <2>5, <3>1 DEF HeaderInPlace, PayloadInPlace
    <3>2. CASE k # n + 1
      <4>1. k \in Released + 1 .. Len(sent) /\ k \in 1..n
        BY <1>0, <2>2, <3>2, Counts
      <4>2. /\ HeaderInPlace(Offset(k), sent[k].size)
            /\ PayloadInPlace(Offset(k), sent[k].size, k)
        BY <4>1 DEF IInv, MessagesInPlace
      <4> QED BY <1>1, <2>5, <4>1, <4>2 DEF HeaderInPlace, PayloadInPlace
    <3> QED BY <3>1, <3>2
  <2>9. HistoriesAgree'
    <3>1. \A k \in 1..n + 1 :
             /\ sent'[k].id = k /\ sent'[k].size \in Sizes
             /\ FitsStride(sent'[k].size) /\ CommittedSize(sent'[k].size)
      <4> SUFFICES ASSUME NEW k \in 1..n + 1
                   PROVE  /\ sent'[k].id = k /\ sent'[k].size \in Sizes
                          /\ FitsStride(sent'[k].size) /\ CommittedSize(sent'[k].size)
        OBVIOUS
      <4>1. CASE k = n + 1
        BY <2>3, <2>4, <2>5, <4>1
      <4>2. CASE k # n + 1
        <5>1. k \in 1..Len(sent) /\ sent'[k] = sent[k]
          BY <1>0, <2>2, <2>5, <4>2
        <5> QED BY <5>1 DEF IInv, HistoriesAgree
      <4> QED BY <4>1, <4>2
    <3>2. \A k \in 1..Len(received) : k \in 1..n /\ received[k] = sent[k]
      <4>1. Len(received) <= n /\ Len(received) \in Nat
        BY <1>0, Counts DEF IInv, IndicesCountMessages
      <4> QED BY <2>2, <4>1 DEF IInv, HistoriesAgree
    <3>3. \A k \in 1..Len(received) : received'[k] = sent'[k]
      BY <1>1, <2>5, <3>2
    <3>4. n + 1 <= MaxMessages
      BY <2>2, <2>3, QueueAssumption
    <3> QED BY <1>1, <2>5, <3>1, <3>3, <3>4 DEF HistoriesAgree, FitsStride, CommittedSize
  <2>10. ConsumerInSlot'
    <3>1. rpc \in {"owned", "consumed"} => Released + 1 \in 1..n
      BY <1>0, <2>2, Counts DEF IInv, ConsumerInSlot, IndicesCountMessages
    <3>2. rpc \in {"owned", "consumed"} => sent'[Released + 1] = sent[Released + 1]
      BY <2>5, <3>1
    <3>3. Len(received) < n => Len(received) < n + 1
      BY <2>2, Counts
    <3> QED BY <1>0, <1>1, <1>2, <2>5, <3>2, <3>3 DEF IInv, ConsumerInSlot
  <2> QED BY <1>3, <2>7, <2>8, <2>9, <2>10 DEF IInv
<1> QED BY <1>4, <1>5

LEMMA InvAbandonWrite ==
    ASSUME IInv, TypeOK', AbandonWrite
    PROVE  IInv'
<1>1. wpc' = "idle" /\ UNCHANGED <<readIndex, writeIndex, buffer, rpc, rslot, sent, received>>
  BY DEF AbandonWrite, consumerVars
<1>2. ProducerInSlot'
  BY <1>1 DEF ProducerInSlot
<1> QED BY <1>1, <1>2, HistoryFrame, ConsumerFrame DEF IInv

LEMMA InvProducer == IInv /\ ProducerStep => IInv'
<1> SUFFICES ASSUME IInv, ProducerStep PROVE IInv'
  OBVIOUS
<1>1. TypeOK'
  BY TypeProducer DEF IInv
<1>2. ASSUME NEW size \in Sizes, AcquireWrite(size) PROVE IInv'
  BY <1>1, <1>2, InvAcquireWrite
<1>3. ~WritePad /\ ~PublishPad
  BY DEF IInv, ProducerInSlot, WritePad, PublishPad
<1>4. CASE WriteHeader
  BY <1>1, <1>4, InvWriteHeader
<1>5. CASE Fill
  BY <1>1, <1>5, InvFill
<1>6. CASE CommitWrite
  BY <1>1, <1>6, InvCommitWrite
<1>7. CASE AbandonWrite
  BY <1>1, <1>7, InvAbandonWrite
<1> QED BY <1>2, <1>3, <1>4, <1>5, <1>6, <1>7 DEF ProducerStep

LEMMA InvAcquireRead ==
    ASSUME IInv, TypeOK', AcquireRead
    PROVE  IInv'
<1>1. /\ rpc = "idle" /\ rpc' \in {"idle", "readHeader"}
      /\ readIndex >= writeIndex => rpc' = "idle"
      /\ UNCHANGED <<readIndex, writeIndex, buffer, wpc, wslot, sent, received>>
  BY DEF AcquireRead, NothingToRead, producerVars
<1>2. /\ Released' = Released /\ Unreleased' = Unreleased
      /\ IndicesCountMessages' /\ MessagesInPlace' /\ HistoriesAgree'
  BY <1>1, HistoryFrame
<1>3. ProducerInSlot'
  BY <1>1, <1>2, Counts, ProducerFrame DEF Unreleased
<1>4. Len(received) = Len(sent) => readIndex >= writeIndex
  <2>1. /\ writeIndex = SlotStride * Len(sent) /\ readIndex = SlotStride * Len(received)
        /\ writeIndex \in Nat /\ readIndex \in Nat
    BY <1>1, Counts DEF IInv, IndicesCountMessages, TypeOK
  <2> QED BY <2>1
<1>5. rpc' = "readHeader" => Len(received) < Len(sent)
  BY <1>1, <1>4, Counts DEF IInv, IndicesCountMessages
<1>6. ConsumerInSlot'
  BY <1>1, <1>5 DEF ConsumerInSlot
<1> QED BY <1>2, <1>3, <1>6 DEF IInv

\* The header at the read index is the oldest unreleased message's.
LEMMA HeaderRead ==
    ASSUME IInv, rpc = "readHeader", NEW h \in HeadersAt(Mod(readIndex))
    PROVE  /\ Released + 1 \in 1..Len(sent)
           /\ h.padded = FALSE /\ h.size = sent[Released + 1].size
<1>1. Released + 1 \in 1..Len(sent) /\ Released + 1 \in Released + 1 .. Len(sent)
  BY Counts DEF IInv, ConsumerInSlot
<1>2. HeaderInPlace(Mod(readIndex), sent[Released + 1].size)
  BY <1>1, IndicesAddressSlots DEF IInv, MessagesInPlace
<1>3. /\ buffer[Mod(readIndex)] = Header(FALSE, sent[Released + 1].size)
      /\ HeaderIntact(Mod(readIndex))
  <2>1. Mod(readIndex) \in 0..Capacity - SlotStride
    BY <1>1, IndicesAddressSlots, OffsetInBuffer
  <2>2. \A i \in Mod(readIndex) + 1 .. Mod(readIndex) + HeaderSize - 1 : i \in DOMAIN buffer
    BY <2>1, ConstantTypes DEF IInv, TypeOK
  <2> QED BY <1>2, <2>2 DEF HeaderInPlace, HeaderIntact, Header
<1>4. h = [padded |-> FALSE, size |-> sent[Released + 1].size]
  BY <1>3 DEF HeadersAt, Header
<1> QED BY <1>1, <1>4

LEMMA InvReadHeader ==
    ASSUME IInv, TypeOK', ReadHeader
    PROVE  IInv'
<1>1. PICK h \in HeadersAt(Mod(readIndex)) :
         /\ rslot' = [data |-> Mod(readIndex) + HeaderSize, size |-> h.size]
         /\ rpc' = IF h.padded THEN "skipPad" ELSE "owned"
  BY DEF ReadHeader, ReadSlotData
<1>2. /\ rpc = "readHeader"
      /\ UNCHANGED <<readIndex, writeIndex, buffer, wpc, wslot, sent, received>>
  BY DEF ReadHeader, producerVars
<1>3. h.padded = FALSE /\ h.size = sent[Released + 1].size
  BY <1>2, HeaderRead
<1>4. rpc' = "owned"
  BY <1>1, <1>3
<1>5. /\ Released' = Released /\ Unreleased' = Unreleased
      /\ IndicesCountMessages' /\ MessagesInPlace' /\ HistoriesAgree'
  BY <1>2, <1>4, HistoryFrame
<1>6. ProducerInSlot'
  BY <1>2, <1>5, Counts, ProducerFrame DEF Unreleased
<1>7. rslot' = [data |-> Offset(Released + 1) + HeaderSize, size |-> sent[Released + 1].size]
  BY <1>1, <1>3, IndicesAddressSlots
<1>8. ConsumerInSlot'
  BY <1>2, <1>4, <1>5, <1>7 DEF IInv, ConsumerInSlot
<1> QED BY <1>5, <1>6, <1>8 DEF IInv

\* The bytes of a held slot are the payload of the message it stands for.
LEMMA HeldPayload ==
    ASSUME IInv, rpc = "owned"
    PROVE  /\ Released = Len(received) /\ Released + 1 \in 1..Len(sent)
           /\ rslot.size = sent[Released + 1].size
           /\ PayloadOf(rslot) = Released + 1
<1>0. PICK n, off, size : n = Released + 1 /\ off = Offset(n) /\ size = sent[n].size
  OBVIOUS
<1>1. Released = Len(received) /\ n \in 1..Len(sent) /\ n \in Released + 1 .. Len(sent)
  BY <1>0, Counts DEF IInv, ConsumerInSlot
<1>2. rslot.data = off + HeaderSize /\ rslot.size = size
  BY <1>0 DEF IInv, ConsumerInSlot
<1>3. size \in Nat \ {0} /\ size + HeaderSize <= SlotStride
  BY <1>0, <1>1, CommittedMessage DEF FitsStride
<1>4. off \in 0..Capacity - SlotStride
  BY <1>0, <1>1, OffsetInBuffer
<1>5. DOMAIN buffer = 0..Capacity - 1
  BY DEF IInv, TypeOK
<1>6. \A i \in SlotBytes(rslot) : i \in DOMAIN buffer /\ buffer[i] = Payload(n)
  <2>1. SlotBytes(rslot) = off + HeaderSize .. off + HeaderSize + size - 1
    BY <1>2 DEF SlotBytes
  <2>2. PayloadInPlace(off, size, n)
    BY <1>0, <1>1 DEF IInv, MessagesInPlace
  <2>3. \A i \in SlotBytes(rslot) : i \in DOMAIN buffer
    BY <1>3, <1>4, <1>5, <2>1, ConstantTypes
  <2> QED BY <2>1, <2>2, <2>3 DEF PayloadInPlace
<1>7. off + HeaderSize \in SlotBytes(rslot)
  BY <1>2, <1>3, <1>4, ConstantTypes DEF SlotBytes
<1>8. \A k : buffer[off + HeaderSize] = Payload(k) => k = n
  BY <1>6, <1>7 DEF Payload
<1>9. PayloadOf(rslot) = n
  <2> DEFINE P(k) == \A i \in SlotBytes(rslot) : buffer[i] = Payload(k)
  <2>1. \E k \in 1..Len(sent) :
           \A i \in SlotBytes(rslot) : i \in DOMAIN buffer /\ buffer[i] = Payload(k)
    BY <1>1, <1>6
  <2>2. PayloadOf(rslot) = CHOOSE k \in 1..Len(sent) : P(k)
    BY <2>1 DEF PayloadOf
  <2>3. \A k \in 1..Len(sent) : P(k) => k = n
    BY <1>7, <1>8
  <2>4. P(n)
    BY <1>6
  <2> HIDE DEF P
  <2>5. (CHOOSE k \in 1..Len(sent) : P(k)) = n
    BY <1>1, <2>3, <2>4
  <2> QED BY <2>2, <2>5
<1> QED BY <1>0, <1>1, <1>2, <1>9

LEMMA InvConsume ==
    ASSUME IInv, TypeOK', Consume
    PROVE  IInv'
<1>0. PICK n : n = Released + 1
  OBVIOUS
<1>1. /\ rpc = "owned" /\ rpc' = "consumed"
      /\ received' = Append(received, [id |-> PayloadOf(rslot), size |-> rslot.size])
      /\ UNCHANGED <<readIndex, writeIndex, buffer, wpc, wslot, rslot, sent>>
  BY DEF Consume, producerVars
<1>2. /\ Released = Len(received) /\ n \in 1..Len(sent)
      /\ rslot.size = sent[n].size /\ PayloadOf(rslot) = n
  BY <1>0, <1>1, HeldPayload
<1>3. [id |-> PayloadOf(rslot), size |-> rslot.size] = sent[n]
  BY <1>2, CommittedMessage
<1>4. received \in Seq(MessageType) /\ sent[n] \in MessageType /\ Len(sent) \in Nat
  <2>1. received \in Seq(MessageType) /\ sent \in Seq(MessageType)
    BY DEF IInv, TypeOK
  <2> QED BY <1>2, <2>1
<1>5. /\ Len(received') = n /\ received'[n] = sent[n]
      /\ \A k \in 1..Len(received) : received'[k] = received[k]
      /\ n = Len(received) + 1
  BY <1>0, <1>1, <1>2, <1>3, <1>4
<1>6. Released' = Released /\ Unreleased' = Unreleased
  BY <1>0, <1>1, <1>2, <1>4, <1>5 DEF Released, Unreleased
<1>7. IndicesCountMessages'
  BY <1>1, <1>2, <1>4, <1>5, <1>6 DEF IInv, IndicesCountMessages
<1>8. MessagesInPlace'
  BY <1>1, <1>6 DEF IInv, MessagesInPlace, HeaderInPlace, PayloadInPlace
<1>9. HistoriesAgree'
  <2>1. \A k \in 1..n : received'[k] = sent[k]
    <3> SUFFICES ASSUME NEW k \in 1..n PROVE received'[k] = sent[k]
      OBVIOUS
    <3>1. CASE k = n
      BY <1>5, <3>1
    <3>2. CASE k # n
      <4>1. k \in 1..Len(received)
        BY <1>4, <1>5, <3>2
      <4> QED BY <1>5, <4>1 DEF IInv, HistoriesAgree
    <3> QED BY <3>1, <3>2
  <2> QED BY <1>1, <1>5, <2>1 DEF IInv, HistoriesAgree
<1>10. ProducerInSlot'
  BY <1>1, <1>6, Counts, ProducerFrame DEF Unreleased
<1>11. ConsumerInSlot'
  BY <1>1, <1>6 DEF IInv, ConsumerInSlot
<1> QED BY <1>7, <1>8, <1>9, <1>10, <1>11 DEF IInv

LEMMA InvCommitRead ==
    ASSUME IInv, TypeOK', CommitRead
    PROVE  IInv'
<1>0. PICK n, size : n = Released + 1 /\ size = sent[n].size
  OBVIOUS
<1>1. /\ rpc = "consumed" /\ rpc' = "idle"
      /\ readIndex' = IF rslot.size = 0 THEN readIndex ELSE ReadIndexAfterCommit
      /\ UNCHANGED <<writeIndex, buffer, wpc, wslot, sent, received>>
  BY DEF CommitRead, producerVars
<1>2. n = Len(received) /\ n \in 1..Len(sent) /\ n - 1 = Released /\ Released \in Nat
  BY <1>0, <1>1, Counts DEF IInv, IndicesCountMessages
<1>3. rslot.size = size /\ size \in Nat \ {0} /\ CommittedSize(size)
  <2>1. rslot = [data |-> Offset(n) + HeaderSize, size |-> sent[n].size]
    BY <1>0, <1>1 DEF IInv, ConsumerInSlot
  <2>2. sent[n].size \in Nat \ {0} /\ CommittedSize(sent[n].size)
    BY <1>2, CommittedMessage
  <2> QED BY <1>0, <2>1, <2>2
<1>4. readIndex' = RoundUp(readIndex + size + HeaderSize)
  BY <1>1, <1>3 DEF ReadIndexAfterCommit
<1>5. readIndex' = SlotStride * n
  <2>1. readIndex = SlotStride * Released
    BY DEF IInv, IndicesCountMessages
  <2> QED BY <1>0, <1>2, <1>3, <1>4, <2>1, CommitAdvancesOneStride
<1>6. Released' = n /\ Unreleased' = Unreleased - 1 /\ Unreleased \in Nat
  BY <1>0, <1>1, <1>2, Counts DEF Released, Unreleased
<1>7. IndicesCountMessages'
  BY <1>1, <1>2, <1>5, <1>6, ConstantTypes DEF IInv, IndicesCountMessages
<1>8. MessagesInPlace'
  <2>1. \A k \in n + 1 .. Len(sent) : k \in Released + 1 .. Len(sent)
    BY <1>0, <1>2
  <2> QED BY <1>1, <1>6, <2>1 DEF IInv, MessagesInPlace, HeaderInPlace, PayloadInPlace
<1>9. HistoriesAgree'
  BY <1>1 DEF IInv, HistoriesAgree
<1>10. ProducerInSlot'
  BY <1>1, <1>6, ProducerFrame
<1>11. ConsumerInSlot'
  BY <1>1 DEF ConsumerInSlot
<1> QED BY <1>7, <1>8, <1>9, <1>10, <1>11 DEF IInv

LEMMA InvAbandonRead ==
    ASSUME IInv, TypeOK', AbandonRead
    PROVE  IInv'
<1>1. /\ rpc = "owned" /\ rpc' = "idle"
      /\ UNCHANGED <<readIndex, writeIndex, buffer, wpc, wslot, sent, received>>
  BY DEF AbandonRead, producerVars
<1>2. /\ Released' = Released /\ Unreleased' = Unreleased
      /\ IndicesCountMessages' /\ MessagesInPlace' /\ HistoriesAgree'
  BY <1>1, HistoryFrame
<1>3. ProducerInSlot'
  BY <1>1, <1>2, Counts, ProducerFrame DEF Unreleased
<1>4. ConsumerInSlot'
  BY <1>1 DEF ConsumerInSlot
<1> QED BY <1>2, <1>3, <1>4 DEF IInv

LEMMA InvConsumer == IInv /\ ConsumerStep => IInv'
<1> SUFFICES ASSUME IInv, ConsumerStep PROVE IInv'
  OBVIOUS
<1>1. TypeOK'
  BY TypeConsumer DEF IInv
<1>2. CASE AcquireRead
  BY <1>1, <1>2, InvAcquireRead
<1>3. CASE ReadHeader
  BY <1>1, <1>3, InvReadHeader
<1>4. ~SkipPad /\ ~ReadFirst
  BY DEF IInv, ConsumerInSlot, SkipPad, ReadFirst
<1>5. CASE Consume
  BY <1>1, <1>5, InvConsume
<1>6. CASE CommitRead
  BY <1>1, <1>6, InvCommitRead
<1>7. CASE AbandonRead
  BY <1>1, <1>7, InvAbandonRead
<1> QED BY <1>2, <1>3, <1>4, <1>5, <1>6, <1>7 DEF ConsumerStep

LEMMA InvStutter == IInv /\ UNCHANGED vars => IInv'
<1> SUFFICES ASSUME IInv, UNCHANGED vars PROVE IInv'
  OBVIOUS
<1> USE DEF vars, producerVars, consumerVars
<1>1. TypeOK'
  BY DEF IInv, TypeOK
<1>2. /\ Released' = Released /\ Unreleased' = Unreleased
      /\ IndicesCountMessages' /\ MessagesInPlace' /\ HistoriesAgree'
  BY HistoryFrame
<1>3. ProducerInSlot'
  BY <1>1, <1>2, Counts, ProducerFrame DEF Unreleased
<1>4. ConsumerInSlot'
  BY ConsumerFrame
<1> QED BY <1>1, <1>2, <1>3, <1>4 DEF IInv

\* The queue's indices, slots and histories agree in every reachable state.
THEOREM InvCorrect == Spec => []IInv
<1>1. IInv /\ [Next]_vars => IInv'
  BY InvProducer, InvConsumer, InvStutter DEF Next
<1> QED BY InvInit, <1>1, PTL DEF Spec

(***************************************************************************)
(* What the users of the queue rely on.                                    *)
(***************************************************************************)

\* The slot acquire_read hands out is the oldest unread message, untouched for as
\* long as the consumer holds it.
THEOREM HeldSlotCorrect == Spec => []HeldSlotIsNextMessage
<1>1. IInv => HeldSlotIsNextMessage
  BY HeldPayload, Counts DEF HeldSlotIsNextMessage
<1> QED BY InvCorrect, <1>1, PTL

\* Producer and consumer never access the same byte of the buffer at once.
THEOREM DataRaceFree == Spec => []NoDataRace
<1>1. IInv => NoDataRace
  <2> SUFFICES ASSUME IInv, NEW i, i \in ProducerBytes, i \in ConsumerBytes PROVE FALSE
    BY DEF NoDataRace
  <2>0. PICK n, k : n = Len(sent) + 1 /\ k = Released + 1
    OBVIOUS
  <2>1. wpc \in {"writeHeader", "owned", "filled"}
    BY DEF IInv, ProducerInSlot, ProducerBytes
  <2>2. rpc \in {"readHeader", "owned", "consumed"}
    BY DEF IInv, ConsumerInSlot, ConsumerBytes
  <2>3. /\ n \in Nat \ {0} /\ k \in Nat \ {0} /\ k < n /\ n - k < Slots
        /\ k \in 1..Len(sent)
    <3>1. Unreleased < Slots
      BY <2>1 DEF IInv, ProducerInSlot
    <3>2. Released < Len(sent)
      BY <2>2, Counts DEF IInv, IndicesCountMessages, ConsumerInSlot
    <3> QED BY <2>0, <3>1, <3>2, Counts, ConstantTypes DEF Unreleased
  <2>4. i \in SlotOf(n)
    <3>1. /\ wslot.data = Offset(n) + HeaderSize /\ wslot.size \in Nat
          /\ wslot.size + HeaderSize <= SlotStride
      BY <2>0, <2>1 DEF IInv, TypeOK, SlotType, ProducerInSlot, FitsStride
    <3>2. Offset(n) \in Nat
      BY <2>3, OffsetInBuffer
    <3>3. i \in wslot.data - HeaderSize .. wslot.data + wslot.size - 1
      BY <2>1 DEF ProducerBytes
    <3> QED BY <3>1, <3>2, <3>3, ConstantTypes DEF SlotOf
  <2>5. i \in SlotOf(k)
    <3>1. Offset(k) \in Nat
      BY <2>3, OffsetInBuffer
    <3>2. CASE rpc = "readHeader"
      <4>1. i \in Offset(k) .. Offset(k) + HeaderSize - 1
        BY <2>0, <3>2, IndicesAddressSlots DEF ConsumerBytes
      <4> QED BY <3>1, <4>1, ConstantTypes DEF SlotOf
    <3>3. CASE rpc \in {"owned", "consumed"}
      <4>1. /\ rslot.data = Offset(k) + HeaderSize /\ rslot.size = sent[k].size
        BY <2>0, <3>3 DEF IInv, ConsumerInSlot
      <4>2. sent[k].size \in Nat /\ sent[k].size + HeaderSize <= SlotStride
        BY <2>3, CommittedMessage DEF FitsStride
      <4>3. i \in rslot.data - HeaderSize .. rslot.data + rslot.size - 1
        BY <3>3 DEF ConsumerBytes
      <4> QED BY <3>1, <4>1, <4>2, <4>3, ConstantTypes DEF SlotOf
    <3> QED BY <2>2, <3>2, <3>3
  <2> QED BY <2>3, <2>4, <2>5, SlotsDisjoint
<1> QED BY InvCorrect, <1>1, PTL

\* The indices stay within one lap of each other.
THEOREM IndicesCorrect == Spec => []IndicesWithinOneLap
<1>1. IInv => IndicesWithinOneLap
  <2> SUFFICES ASSUME IInv PROVE IndicesWithinOneLap
    OBVIOUS
  <2>1. writeIndex = SlotStride * Len(sent) /\ readIndex = SlotStride * Released
    BY DEF IInv, IndicesCountMessages
  <2>2. Unreleased \in Nat /\ Unreleased <= Slots
    BY Counts DEF IInv, IndicesCountMessages, Unreleased
  <2>3. writeIndex - readIndex = SlotStride * Unreleased /\ readIndex <= writeIndex
    BY <2>1, Counts, ConstantTypes DEF Unreleased
  <2>4. SlotStride * Unreleased <= Capacity
    BY <2>2, ConstantTypes, WholeStrides
  <2> QED BY <2>3, <2>4 DEF IndicesWithinOneLap
<1> QED BY InvCorrect, <1>1, PTL

\* acquire_read answers Empty only when every committed message was consumed.
THEOREM EmptyCorrect == Spec => EmptyOnlyWhenDrained
<1>1. IInv /\ [Next]_vars =>
        [rresult' = "Empty" /\ rresult # "Empty" => Len(received) = Len(sent)]_vars
  <2> SUFFICES ASSUME IInv, Next, rresult' = "Empty", rresult # "Empty"
               PROVE  Len(received) = Len(sent)
    OBVIOUS
  <2>1. AcquireRead /\ readIndex >= writeIndex
    BY DEF NothingToRead, Next, ProducerStep, ConsumerStep, AcquireWrite, WritePad, PublishPad, WriteHeader,
           Fill, CommitWrite, AbandonWrite, AcquireRead, ReadHeader, SkipPad, ReadFirst,
           Consume, CommitRead, AbandonRead, producerVars, consumerVars
  <2>2. /\ writeIndex = SlotStride * Len(sent) /\ readIndex = SlotStride * Len(received)
        /\ Len(received) <= Len(sent)
    BY <2>1, Counts DEF IInv, IndicesCountMessages, AcquireRead
  <2>3. CASE Len(received) < Len(sent)
    <3>1. SlotStride * Len(received) < SlotStride * Len(sent)
      BY <2>3, Counts, ConstantTypes
    <3>2. SlotStride * Len(received) \in Nat /\ SlotStride * Len(sent) \in Nat
      BY Counts, ConstantTypes
    <3> QED BY <2>1, <2>2, <3>1, <3>2
  <2> QED BY <2>2, <2>3, Counts
<1> QED BY InvCorrect, <1>1, PTL DEF Spec, EmptyOnlyWhenDrained

\* acquire_write answers Full to a satisfiable request only when at most one slot
\* is free.
THEOREM FullCorrect ==
    ASSUME NoUnsatisfiableSize
    PROVE  Spec => FullOnlyWhenOccupied
<1>1. IInv /\ [Next]_vars =>
        [wresult' = "Full" /\ wresult # "Full" => Unreleased >= Slots - 1]_vars
  <2> SUFFICES ASSUME IInv, Next, wresult' = "Full", wresult # "Full"
               PROVE  Unreleased >= Slots - 1
    OBVIOUS
  <2>1. PICK size \in Sizes : ~TooBig(size) /\ Full(size)
    BY DEF Next, ProducerStep, ConsumerStep, AcquireWrite, WritePad, PublishPad, WriteHeader,
           Fill, CommitWrite, AbandonWrite, AcquireRead, ReadHeader, SkipPad, ReadFirst,
           Consume, CommitRead, AbandonRead, producerVars, consumerVars
  <2>2. size \in Nat
    BY ConstantTypes
  <2>3. size + HeaderSize <= SlotStride
    <3>1. size + HeaderSize < Capacity
      BY <2>1, <2>2, ConstantTypes DEF TooBig, NoUnsatisfiableSize
    <3>2. CASE size = 0
      BY <3>2, ConstantTypes
    <3>3. CASE size > 0
      BY <2>2, <3>1, <3>3, UniformAssumption, CommittedFits DEF CommittedSize, FitsStride
    <3> QED BY <2>2, <3>2, <3>3
  <2>4. Unreleased \in Nat /\ writeIndex - readIndex = SlotStride * Unreleased
    <3>1. writeIndex = SlotStride * Len(sent) /\ readIndex = SlotStride * Released
      BY DEF IInv, IndicesCountMessages
    <3> QED BY <3>1, Counts, ConstantTypes DEF Unreleased
  <2>5. SlotStride * Unreleased \in Nat
    BY <2>4, ConstantTypes
  <2>6. SlotStride * Unreleased + SlotStride >= Capacity
    <3>1. SlotStride * Unreleased + size + HeaderSize >= Capacity
      <4>1. readIndex <= writeIndex + size + HeaderSize
        BY <2>2, <2>4, <2>5, ConstantTypes DEF IInv, TypeOK
      <4> QED BY <2>1, <2>2, <2>4, <4>1, ConstantTypes DEF IInv, TypeOK, Full
    <3> QED BY <2>2, <2>3, <2>5, <3>1, ConstantTypes
  <2>7. ASSUME Unreleased + 1 < Slots PROVE FALSE
    <3>1. SlotStride * Unreleased + SlotStride = (Unreleased + 1) * SlotStride
      BY <2>4, ConstantTypes
    <3>2. (Unreleased + 1) * SlotStride < Slots * SlotStride
      BY <2>4, <2>7, ConstantTypes
    <3>3. (Unreleased + 1) * SlotStride \in Nat /\ Slots * SlotStride \in Nat
      BY <2>4, ConstantTypes
    <3> QED BY <2>6, <3>1, <3>2, <3>3, WholeStrides
  <2> QED BY <2>4, <2>7, ConstantTypes
<1> QED BY InvCorrect, <1>1, PTL DEF Spec, FullOnlyWhenOccupied

\* The queue implements the bounded channel: commit_write sends, reading a held
\* slot receives, and every other step of either thread is invisible.
THEOREM QueueImplementsChannel == Spec => ImplementsChannel
<1>1. Init => Channel!Init
  BY DEF Init, Channel!Init
<1>2. Slots <= Capacity \div kCacheLineSize /\ Capacity \div kCacheLineSize \in Nat
  <2>1. Slots * kCacheLineSize <= Capacity
    <3>1. kCacheLineSize <= SlotStride
      BY UniformAssumption
    <3> QED BY <3>1, ConstantTypes, WholeStrides
  <2>2. PICK q \in Nat, r \in 0..kCacheLineSize - 1 :
           Capacity = kCacheLineSize * q + r /\ q = Capacity \div kCacheLineSize
    <3>1. /\ Capacity \div kCacheLineSize \in Nat
          /\ Capacity % kCacheLineSize \in 0..kCacheLineSize - 1
          /\ Capacity = kCacheLineSize * (Capacity \div kCacheLineSize) + (Capacity % kCacheLineSize)
      BY ConstantTypes
    <3> QED BY <3>1
  <2>3. ASSUME Slots >= q + 1 PROVE FALSE
    <3>1. Slots * kCacheLineSize >= (q + 1) * kCacheLineSize
      BY <2>3, ConstantTypes
    <3>2. (q + 1) * kCacheLineSize = kCacheLineSize * q + kCacheLineSize
      BY ConstantTypes
    <3> QED BY <2>1, <2>2, <3>1, <3>2, ConstantTypes
  <2> QED BY <2>2, <2>3, ConstantTypes
<1>3. IInv /\ IInv' /\ CommitWrite => Channel!Next \/ UNCHANGED <<sent, received>>
  <2> SUFFICES ASSUME IInv, CommitWrite, wslot.size # 0 PROVE Channel!Next
    BY DEF CommitWrite
  <2> DEFINE m == [id |-> Len(sent) + 1, size |-> wslot.size]
  <2>1. sent' = Append(sent, m) /\ received' = received
    BY DEF CommitWrite
  <2>2. Unreleased < Slots /\ Len(sent) < MaxMessages /\ wslot.size \in Sizes
    BY DEF CommitWrite, IInv, ProducerInSlot
  <2>3. Len(sent) - Len(received) < Capacity \div kCacheLineSize
    BY <1>2, <2>2, Counts, ConstantTypes DEF Unreleased
  <2>4. m \in [id : 1..MaxMessages, size : Sizes]
    BY <2>2, Counts, QueueAssumption
  <2> HIDE DEF m
  <2>5. Channel!Send(m)
    BY <2>1, <2>3 DEF Channel!Send
  <2> QED BY <2>4, <2>5 DEF Channel!Next
<1>4. IInv /\ Consume => Channel!Receive
  <2> SUFFICES ASSUME IInv, Consume PROVE Channel!Receive
    OBVIOUS
  <2>1. /\ rpc = "owned" /\ sent' = sent
        /\ received' = Append(received, [id |-> PayloadOf(rslot), size |-> rslot.size])
    BY DEF Consume
  <2>2. /\ Released = Len(received) /\ Released + 1 \in 1..Len(sent)
        /\ rslot.size = sent[Released + 1].size /\ PayloadOf(rslot) = Released + 1
    BY <2>1, HeldPayload
  <2>3. sent[Len(received) + 1] = [id |-> PayloadOf(rslot), size |-> rslot.size]
    BY <2>2, CommittedMessage
  <2>4. Len(received) < Len(sent)
    BY <2>2, Counts
  <2> QED BY <2>1, <2>3, <2>4 DEF Channel!Receive
<1>5. IInv /\ IInv' /\ [Next]_vars => [Channel!Next]_<<sent, received>>
  <2> SUFFICES ASSUME IInv, IInv', [Next]_vars
               PROVE  Channel!Next \/ UNCHANGED <<sent, received>>
    OBVIOUS
  <2>1. CASE CommitWrite
    BY <1>3, <2>1
  <2>2. CASE Consume
    BY <1>4, <2>2 DEF Channel!Next
  <2>3. CASE ~CommitWrite /\ ~Consume
    BY <2>3 DEF Next, ProducerStep, ConsumerStep, AcquireWrite, WritePad, PublishPad, WriteHeader,
           Fill, AbandonWrite, AcquireRead, ReadHeader, SkipPad, ReadFirst,
           CommitRead, AbandonRead, producerVars, consumerVars, vars
  <2> QED BY <2>1, <2>2, <2>3
<1> QED BY InvCorrect, <1>1, <1>5, PTL
        DEF Spec, ImplementsChannel, Channel!Spec, Channel!channelVars

=============================================================================
