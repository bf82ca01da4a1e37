------------------------------ MODULE SPSCQueue ------------------------------
(***************************************************************************)
(* csics::queue::SPSCQueue: one producer thread and one consumer thread    *)
(* exchange variable-size messages through a circular byte buffer.         *)
(*                                                                         *)
(* Every access to the memory the threads share (an index or the buffer)   *)
(* is a step of its own; the code between two accesses is local to its     *)
(* thread and belongs to the step before it.  The indices run freely, as   *)
(* in the code, and are reduced modulo the capacity where they address the *)
(* buffer.  Each index has one writer that releases it and one reader that *)
(* acquires it, so interleaving whole accesses loses no behaviour.         *)
(*                                                                         *)
(* A byte of the buffer holds what the properties tell apart: the first    *)
(* byte of a header, another byte of a header, a byte of the payload of    *)
(* message n, or junk.                                                     *)
(***************************************************************************)
EXTENDS Naturals, Sequences

CONSTANTS
    kCacheLineSize,  \* what commits round the indices up to
    HeaderSize,      \* sizeof(QueueSlotHeader)
    Capacity,        \* capacity_: bytes in the buffer
    Sizes,           \* the sizes the producer asks for
    Exclusive,       \* TRUE if the callers never overlap an acquire..commit pair
                     \* of one side with one of the other (one thread, or a mutex)
    MaxMessages,     \* bound: the producer stops after committing this many
    MaxDrops         \* bound: slots dropped without a commit

ASSUME QueueAssumption ==
    /\ kCacheLineSize \in Nat \ {0}
    /\ HeaderSize \in 1..kCacheLineSize
    /\ Capacity \in Nat /\ Capacity >= kCacheLineSize
    /\ Capacity % kCacheLineSize = 0
    /\ Sizes \subseteq Nat
    /\ Exclusive \in BOOLEAN
    /\ MaxMessages \in Nat
    /\ MaxDrops \in Nat

VARIABLES
    readIndex,   \* read_index_
    writeIndex,  \* write_index_
    buffer,      \* buffer_, a function on 0..Capacity-1
    wpc, wslot, wresult,  \* the producer: where it is, its WriteSlot, its last SPSCError
    rpc, rslot, rresult,  \* the consumer, likewise
    drops,       \* slots dropped so far
    sent,        \* history: the messages committed, in order
    received     \* history: what the consumer found in the slots it consumed

producerVars == <<wpc, wslot, wresult>>
consumerVars == <<rpc, rslot, rresult>>
vars == <<readIndex, writeIndex, buffer, producerVars, consumerVars, drops, sent, received>>

-----------------------------------------------------------------------------
(***************************************************************************)
(* The buffer.                                                             *)
(***************************************************************************)
Junk          == [kind |-> "junk", padded |-> FALSE, val |-> 0]
HeaderTail    == [kind |-> "tail", padded |-> FALSE, val |-> 0]
Header(p, n)  == [kind |-> "header", padded |-> p, val |-> n]
Payload(n)    == [kind |-> "payload", padded |-> FALSE, val |-> n]

Cell == [kind : {"junk", "tail", "header", "payload"}, padded : BOOLEAN, val : Nat]

\* memcpy of a QueueSlotHeader to offset off.
WriteHeaderAt(off, p, n) ==
    buffer' = [i \in DOMAIN buffer |->
                 IF i = off THEN Header(p, n)
                 ELSE IF i \in off + 1 .. off + HeaderSize - 1 THEN HeaderTail
                 ELSE buffer[i]]

SlotBytes(slot) == slot.data .. slot.data + slot.size - 1

\* The caller fills the slot with message n.
WritePayload(slot, n) ==
    buffer' = [i \in DOMAIN buffer |->
                 IF i \in SlotBytes(slot) THEN Payload(n) ELSE buffer[i]]

HeaderIntact(off) ==
    /\ buffer[off].kind = "header"
    /\ \A i \in off + 1 .. off + HeaderSize - 1 : i \in DOMAIN buffer /\ buffer[i] = HeaderTail

\* What the consumer may see at off: a header if one is there in full, and any
\* bits if other bytes have been written over it.
HeadersAt(off) ==
    IF HeaderIntact(off)
    THEN {[padded |-> buffer[off].padded, size |-> buffer[off].val]}
    ELSE [padded : BOOLEAN, size : 0..Capacity]

\* Message 0 stands for a payload that is no single message.
PayloadOf(slot) ==
    IF \E n \in 1..Len(sent) : \A i \in SlotBytes(slot) : i \in DOMAIN buffer /\ buffer[i] = Payload(n)
    THEN CHOOSE n \in 1..Len(sent) : \A i \in SlotBytes(slot) : buffer[i] = Payload(n)
    ELSE 0

Mod(i) == i % Capacity

RoundUp(i) == ((i + kCacheLineSize - 1) \div kCacheLineSize) * kCacheLineSize

-----------------------------------------------------------------------------
NoSlot == [data |-> 0, size |-> 0]

ProducerStates == {"idle", "writePad", "publishPad", "writeHeader", "owned", "filled"}
ConsumerStates == {"idle", "readHeader", "skipPad", "readFirst", "owned", "consumed"}

Init ==
    /\ readIndex = 0 /\ writeIndex = 0
    /\ buffer = [i \in 0..Capacity - 1 |-> Junk]
    /\ wpc = "idle" /\ wslot = NoSlot /\ wresult = "None"
    /\ rpc = "idle" /\ rslot = NoSlot /\ rresult = "None"
    /\ drops = 0
    /\ sent = <<>> /\ received = <<>>

(***************************************************************************)
(* acquire_write(slot, size).                                              *)
(***************************************************************************)
TooBig(size) == size > Capacity

\* A slot that would run over the end of the buffer goes to its start instead.
NeedsPad(size) == Mod(writeIndex) + size + HeaderSize > Capacity

\* Faults: the free space is compared without the request; the rest of the
\* buffer is always counted as a pad.
FullIgnoringRequest(size) == writeIndex - readIndex > Capacity

FullCountingTail(size) ==
    writeIndex - readIndex + (Capacity - Mod(writeIndex)) + size + HeaderSize >= Capacity

\* The test against the free space; a pad is not counted, and a reader beyond
\* the writer makes the unsigned difference wrap.
Full(size) ==
    \/ writeIndex - readIndex + size + HeaderSize >= Capacity
    \/ writeIndex + size + HeaderSize < readIndex

\* QueueSlotHeader.size of the pad that skips the rest of the buffer.
PadSize == Capacity - Mod(writeIndex) + HeaderSize

\* Fault: the writer does not count the pad's own header.
WriteIndexAfterPadNoHeader == writeIndex + PadSize

WriteIndexAfterPad == writeIndex + PadSize + HeaderSize

\* From the call to the load of read_index_ and the decisions taken on it.
AcquireWrite(size) ==
    /\ wpc = "idle"
    /\ Len(sent) < MaxMessages
    /\ Exclusive => rpc = "idle"
    /\ \/ /\ TooBig(size)
          /\ wresult' = "TooBig"
          /\ UNCHANGED <<wpc, wslot>>
       \/ /\ ~TooBig(size) /\ Full(size)
          /\ wresult' = "Full"
          /\ UNCHANGED <<wpc, wslot>>
       \/ /\ ~TooBig(size) /\ ~Full(size)
          /\ wresult' = "None"
          /\ wpc' = IF NeedsPad(size) THEN "writePad" ELSE "writeHeader"
          /\ wslot' = [data |-> HeaderSize + (IF NeedsPad(size) THEN 0 ELSE Mod(writeIndex)),
                       size |-> size]
    /\ UNCHANGED <<readIndex, writeIndex, buffer, consumerVars, drops, sent, received>>

WritePad ==
    /\ wpc = "writePad"
    /\ WriteHeaderAt(Mod(writeIndex), TRUE, PadSize)
    /\ wpc' = "publishPad"
    /\ UNCHANGED <<readIndex, writeIndex, wslot, wresult, consumerVars, drops, sent, received>>

\* write_index_.fetch_add: the consumer sees the pad, and the slot behind it is
\* not there yet.
PublishPad ==
    /\ wpc = "publishPad"
    /\ writeIndex' = WriteIndexAfterPad
    /\ wpc' = "writeHeader"
    /\ UNCHANGED <<readIndex, buffer, wslot, wresult, consumerVars, drops, sent, received>>

WriteHeader ==
    /\ wpc = "writeHeader"
    /\ WriteHeaderAt(wslot.data - HeaderSize, FALSE, wslot.size)
    /\ wpc' = "owned"
    /\ UNCHANGED <<readIndex, writeIndex, wslot, wresult, consumerVars, drops, sent, received>>

\* The caller writes its message into the slot.
Fill ==
    /\ wpc = "owned"
    /\ WritePayload(wslot, Len(sent) + 1)
    /\ wpc' = "filled"
    /\ UNCHANGED <<readIndex, writeIndex, wslot, wresult, consumerVars, drops, sent, received>>

(***************************************************************************)
(* commit_write(slot): a slot of size 0 publishes nothing.                 *)
(***************************************************************************)
\* Fault: the index is not rounded up to the next cache line.
WriteIndexAfterCommitUnaligned == writeIndex + wslot.size + HeaderSize

WriteIndexAfterCommit == RoundUp(writeIndex + wslot.size + HeaderSize)

CommitWrite ==
    /\ wpc = "filled"
    /\ IF wslot.size = 0
       THEN UNCHANGED <<writeIndex, sent>>
       ELSE /\ writeIndex' = WriteIndexAfterCommit
            /\ sent' = Append(sent, [id |-> Len(sent) + 1, size |-> wslot.size])
    /\ wpc' = "idle"
    /\ wslot' = NoSlot
    /\ UNCHANGED <<readIndex, buffer, wresult, consumerVars, drops, received>>

\* The slot goes out of scope: the message's constructor threw in try_push, or
\* the caller returned early.
AbandonWrite ==
    /\ wpc \in {"owned", "filled"}
    /\ drops < MaxDrops
    /\ drops' = drops + 1
    /\ wpc' = "idle"
    /\ wslot' = NoSlot
    /\ UNCHANGED <<readIndex, writeIndex, buffer, wresult, consumerVars, sent, received>>

(***************************************************************************)
(* acquire_read(slot).                                                     *)
(***************************************************************************)
\* Faults: the index equal to the writer's still counts as a message; the last
\* message never does.
NothingToReadStrict == readIndex > writeIndex

NothingToReadButOne == readIndex + kCacheLineSize >= writeIndex

NothingToRead == readIndex >= writeIndex

AcquireRead ==
    /\ rpc = "idle"
    /\ Exclusive => wpc = "idle"
    /\ IF NothingToRead
       THEN rresult' = "Empty" /\ UNCHANGED rpc
       ELSE rresult' = "None" /\ rpc' = "readHeader"
    /\ UNCHANGED <<readIndex, writeIndex, buffer, producerVars, rslot, drops, sent, received>>

\* Fault: the free-running index addresses the buffer.
ReadSlotDataUnreduced == readIndex + HeaderSize

ReadSlotData == Mod(readIndex) + HeaderSize

ReadHeader ==
    /\ rpc = "readHeader"
    /\ \E h \in HeadersAt(Mod(readIndex)) :
          /\ rslot' = [data |-> ReadSlotData, size |-> h.size]
          /\ rpc' = IF h.padded THEN "skipPad" ELSE "owned"
    /\ UNCHANGED <<readIndex, writeIndex, buffer, producerVars, rresult, drops, sent, received>>

\* Fault: the reader does not count the pad's own header.
ReadIndexAfterPadNoHeader == readIndex + rslot.size

ReadIndexAfterPad == readIndex + rslot.size + HeaderSize

\* read_index_.fetch_add over the pad.
SkipPad ==
    /\ rpc = "skipPad"
    /\ readIndex' = ReadIndexAfterPad
    /\ rpc' = "readFirst"
    /\ UNCHANGED <<writeIndex, buffer, producerVars, rslot, rresult, drops, sent, received>>

\* The header behind a pad is at the start of the buffer; write_index_ is not
\* looked at again.
ReadFirst ==
    /\ rpc = "readFirst"
    /\ \E h \in HeadersAt(0) : rslot' = [data |-> HeaderSize, size |-> h.size]
    /\ rpc' = "owned"
    /\ UNCHANGED <<readIndex, writeIndex, buffer, producerVars, rresult, drops, sent, received>>

\* The caller reads the message in the slot.
Consume ==
    /\ rpc = "owned"
    /\ received' = Append(received, [id |-> PayloadOf(rslot), size |-> rslot.size])
    /\ rpc' = "consumed"
    /\ UNCHANGED <<readIndex, writeIndex, buffer, producerVars, rslot, rresult, drops, sent>>

(***************************************************************************)
(* commit_read(slot).                                                      *)
(***************************************************************************)
\* Faults: the reader does not round up; it rounds a whole number of lines up too.
ReadIndexAfterCommitUnaligned == readIndex + rslot.size + HeaderSize

ReadIndexAfterCommitExtraLine ==
    ((readIndex + rslot.size + HeaderSize + kCacheLineSize) \div kCacheLineSize) * kCacheLineSize

ReadIndexAfterCommit == RoundUp(readIndex + rslot.size + HeaderSize)

CommitRead ==
    /\ rpc = "consumed"
    /\ readIndex' = IF rslot.size = 0 THEN readIndex ELSE ReadIndexAfterCommit
    /\ rpc' = "idle"
    /\ rslot' = NoSlot
    /\ UNCHANGED <<writeIndex, buffer, producerVars, rresult, drops, sent, received>>

\* The caller peeked: it lets the slot go unread and will acquire it again.
AbandonRead ==
    /\ rpc = "owned"
    /\ drops < MaxDrops
    /\ drops' = drops + 1
    /\ rpc' = "idle"
    /\ rslot' = NoSlot
    /\ UNCHANGED <<readIndex, writeIndex, buffer, producerVars, rresult, sent, received>>

-----------------------------------------------------------------------------
ProducerStep ==
    \/ \E size \in Sizes : AcquireWrite(size)
    \/ WritePad \/ PublishPad \/ WriteHeader \/ Fill \/ CommitWrite \/ AbandonWrite

ConsumerStep ==
    \/ AcquireRead \/ ReadHeader \/ SkipPad \/ ReadFirst
    \/ Consume \/ CommitRead \/ AbandonRead

Next == ProducerStep \/ ConsumerStep

Spec == Init /\ [][Next]_vars

\* The consumer thread keeps polling, as every reader in the tree does, and the
\* producer finishes the operation it is in.
FairSpec ==
    /\ Spec
    /\ WF_vars(ConsumerStep)
    /\ WF_vars(ProducerStep /\ wpc # "idle")

-----------------------------------------------------------------------------
SlotType == [data : 0..Capacity - 1 + HeaderSize, size : Nat]
MessageType == [id : Nat, size : Nat]

\* Types of the variables; in particular an acquired slot starts in the buffer.
TypeOK ==
    /\ readIndex \in Nat /\ writeIndex \in Nat
    /\ buffer \in [0..Capacity - 1 -> Cell]
    /\ wpc \in ProducerStates /\ rpc \in ConsumerStates
    /\ wslot \in SlotType /\ rslot \in SlotType
    /\ wresult \in {"None", "Full", "TooBig"}
    /\ rresult \in {"None", "Empty"}
    /\ drops \in 0..MaxDrops
    /\ sent \in Seq(MessageType) /\ received \in Seq(MessageType)

\* acquire_read's contract (SPSCQueue.hpp:40-45): the slot it hands out is the
\* oldest unread message, committed by the producer, with the size and the bytes
\* the producer gave it, for as long as the consumer holds the slot.
HeldSlotIsNextMessage ==
    rpc = "owned" =>
        LET next == Len(received) + 1 IN
        /\ next <= Len(sent)
        /\ rslot.size = sent[next].size
        /\ PayloadOf(rslot) = next

\* What the producer may write to between acquire_write's decision and
\* commit_write, and what the consumer may read until commit_read, never overlap:
\* no interleaving of plain memory accesses inside the slots is a data race.
ProducerBytes ==
    CASE wpc \in {"writePad", "publishPad"} ->
            Mod(writeIndex) .. Mod(writeIndex) + HeaderSize - 1
      [] wpc \in {"writeHeader", "owned", "filled"} ->
            wslot.data - HeaderSize .. wslot.data + wslot.size - 1
      [] OTHER -> {}

ConsumerBytes ==
    CASE rpc = "readHeader" -> Mod(readIndex) .. Mod(readIndex) + HeaderSize - 1
      [] rpc = "readFirst" -> 0 .. HeaderSize - 1
      [] rpc \in {"owned", "consumed"} ->
            rslot.data - HeaderSize .. rslot.data + rslot.size - 1
      [] OTHER -> {}

NoDataRace == ProducerBytes \cap ConsumerBytes = {}

\* Committed bytes never exceed the buffer, and the reader never passes the
\* writer: the free-running indices stay within one lap of each other.
IndicesWithinOneLap ==
    readIndex <= writeIndex /\ writeIndex - readIndex <= Capacity

\* acquire_read returns Empty only to a consumer that has consumed every message
\* committed so far.
EmptyOnlyWhenDrained ==
    [][rresult' = "Empty" /\ rresult # "Empty" => Len(received) = Len(sent)]_vars

\* Messages committed whose bytes the consumer has not given back yet.
Released == Len(received) - (IF rpc = "consumed" THEN 1 ELSE 0)
Unreleased == Len(sent) - Released

\* The queue as a channel of as many messages as there are lines in the buffer:
\* nothing is lost, duplicated, reordered, altered or invented.
Channel == INSTANCE BoundedChannel WITH
    Message <- [id : 1..MaxMessages, size : Sizes],
    Bound <- Capacity \div kCacheLineSize

ImplementsChannel == Channel!Spec

\* A message that was committed is eventually consumed, in its turn.
EveryMessageReceived ==
    \A n \in 1..MaxMessages : Len(sent) >= n ~> Len(received) >= n
=============================================================================
