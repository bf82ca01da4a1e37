--------------------------- MODULE SPSCQueueUniform ---------------------------
(***************************************************************************)
(* SPSCQueue as its users inside the library rely on it: every message     *)
(* that fits takes the same stride (its header and payload, rounded up to  *)
(* cache lines) and the capacity is a whole number of strides.  Then no    *)
(* slot ever runs over the end of the buffer, no pad is ever written, and  *)
(* two unsynchronised threads may use the queue.                           *)
(***************************************************************************)
EXTENDS SPSCQueue

CONSTANTS
    SlotStride,  \* bytes from the start of one slot to the start of the next
    Slots        \* slots in the buffer

ASSUME UniformAssumption ==
    /\ SlotStride \in Nat \ {0}
    /\ Slots \in Nat \ {0}
    /\ Capacity = Slots * SlotStride
    /\ kCacheLineSize <= SlotStride
    /\ \A size \in Sizes :
          size > 0 /\ size + HeaderSize < Capacity => RoundUp(size + HeaderSize) = SlotStride

\* Where the slot of the k-th message starts.
Offset(k) == Mod(SlotStride * (k - 1))

HeaderInPlace(off, size) ==
    /\ buffer[off] = Header(FALSE, size)
    /\ \A i \in off + 1 .. off + HeaderSize - 1 : buffer[i] = HeaderTail

PayloadInPlace(off, size, n) ==
    \A i \in off + HeaderSize .. off + HeaderSize + size - 1 : buffer[i] = Payload(n)

FitsStride(size) == size + HeaderSize <= SlotStride

CommittedSize(size) == size > 0 /\ RoundUp(size + HeaderSize) = SlotStride

IndicesCountMessages ==
    /\ rpc = "consumed" => Len(received) > 0
    /\ writeIndex = SlotStride * Len(sent)
    /\ readIndex = SlotStride * Released
    /\ Len(received) <= Len(sent)
    /\ Unreleased <= Slots

ProducerInSlot ==
    /\ wpc \notin {"writePad", "publishPad"}
    /\ wpc # "idle" =>
          /\ Len(sent) < MaxMessages
          /\ Unreleased < Slots
          /\ wslot.size \in Sizes
          /\ wslot.data = Offset(Len(sent) + 1) + HeaderSize
          /\ FitsStride(wslot.size)
          /\ wslot.size > 0 => CommittedSize(wslot.size)
    /\ wpc \in {"owned", "filled"} =>
          HeaderInPlace(Offset(Len(sent) + 1), wslot.size)
    /\ wpc = "filled" =>
          PayloadInPlace(Offset(Len(sent) + 1), wslot.size, Len(sent) + 1)

ConsumerInSlot ==
    /\ rpc \notin {"skipPad", "readFirst"}
    /\ rpc \in {"readHeader", "owned"} => Len(received) < Len(sent)
    /\ rpc \in {"owned", "consumed"} =>
          rslot = [data |-> Offset(Released + 1) + HeaderSize,
                   size |-> sent[Released + 1].size]

MessagesInPlace ==
    \A k \in Released + 1 .. Len(sent) :
        /\ HeaderInPlace(Offset(k), sent[k].size)
        /\ PayloadInPlace(Offset(k), sent[k].size, k)

HistoriesAgree ==
    /\ Len(sent) <= MaxMessages
    /\ \A k \in 1..Len(sent) :
          /\ sent[k].id = k /\ sent[k].size \in Sizes
          /\ FitsStride(sent[k].size) /\ CommittedSize(sent[k].size)
    /\ \A k \in 1..Len(received) : received[k] = sent[k]

\* The inductive invariant: the indices count messages in strides, every message
\* that is committed and not released lies untouched in its slot, and each side
\* works on the slot its index names.
IInv ==
    /\ TypeOK
    /\ IndicesCountMessages
    /\ ProducerInSlot
    /\ ConsumerInSlot
    /\ MessagesInPlace
    /\ HistoriesAgree

\* No request falls between the sizes that fit a slot and the sizes that are TooBig:
\* acquire_write answers Full to those forever, even on an empty queue.
NoUnsatisfiableSize == \A size \in Sizes : size <= Capacity => size + HeaderSize < Capacity

\* acquire_write refuses a message that fits only while all slots but at most one
\* are committed and not yet released: capacity is not lost to fragmentation.
FullOnlyWhenOccupied ==
    [][wresult' = "Full" /\ wresult # "Full" => Unreleased >= Slots - 1]_vars
=============================================================================
