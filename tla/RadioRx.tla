------------------------------ MODULE RadioRx ------------------------------
(***************************************************************************)
(* USRPRadioRx: the application's thread that starts, stops, retunes and   *)
(* destroys a receiver, the receive thread that fills the block queue, the *)
(* detached threads that poll the lock of the local oscillator (LO), and   *)
(* the application's reader of the queue.  A step reaches from one access  *)
(* to a shared atomic to the next.                                         *)
(*                                                                         *)
(* The queue is an SPSCQueue of blocks of one length.  QueueBlocks of them *)
(* fit between the start of its buffer and its end (three to seven, by the *)
(* length).  The capacity is seldom a multiple of a block's slot; then the *)
(* writer publishes a pad at the end of each lap before it has written the *)
(* block behind it, and a reader that has caught up passes the pad and is  *)
(* handed that block early (SPSCQueue pads the same way, run               *)
(* spsc_pad_race).  A read is one step, from acquire to commit: a writer   *)
(* that enters the slot a reader holds, which lengths of 121 to 123 allow, *)
(* is left out.  The reader holds its handle until the queue is deleted.   *)
(*                                                                         *)
(* Gain and sample rate are left out: no step depends on them.             *)
(***************************************************************************)
EXTENDS Naturals, Sequences

CONSTANTS
    QueueBlocks,   \* how many blocks the queue holds
    Lengths,       \* the block lengths, in samples, callers ask for
    WholeLengths,  \* those whose slots fill the buffer to its end
    Careful,       \* the application retunes and destroys only when Settled
    MaxTunes,      \* bound: calls of set_center_frequency
    MaxStarts      \* bound: calls of start_stream

ASSUME RadioAssumption ==
    /\ QueueBlocks \in Nat /\ QueueBlocks >= 2
    /\ Lengths \subseteq Nat /\ Careful \in BOOLEAN
    /\ MaxTunes \in Nat \ {0} /\ MaxStarts \in Nat

CHANGE == "BF_CONFIG_CHANGE"
UNLOCKED == "BF_LO_UNLOCKED"
BlockFlags == {CHANGE, UNLOCKED}

VARIABLES
    streaming,     \* streaming_
    stopSignal,    \* stop_signal_
    controlFlags,  \* control_block_flags_
    loLocked,      \* lo_locked_
    blockLen,      \* block_len_
    queue,         \* queue_ is not null
    blocks,        \* the flags of the blocks in the queue, oldest first
    slot,          \* the place of the next block in its lap of the buffer
    pad,           \* the pad before the block under way, if it has one
    first,         \* the flags of the block last completed at the start
    call,          \* where the application is in its call
    rx,            \* where the receive thread is
    flags,         \* its local flags
    filled,        \* the samples in its block
    pollers,       \* how many pollers are polling, and about to report
    hwLocked,      \* the device: its LO is locked
    seen,          \* what the reader has read since the last retune
    tunes, starts, \* calls so far
    destroyed      \* the object is gone

control == <<streaming, stopSignal, queue, blockLen, call, tunes, starts, destroyed>>
receiver == <<rx, flags, filled>>
ring == <<blocks, slot, pad, first>>
vars == <<control, receiver, controlFlags, loLocked, ring, pollers, hwLocked, seen>>

NewRadio ==
    /\ streaming = FALSE /\ stopSignal = FALSE /\ queue = FALSE /\ blockLen = 0
    /\ starts = 0 /\ destroyed = FALSE
    /\ rx = "none" /\ flags = {} /\ filled = 0
    /\ controlFlags = {} /\ loLocked = FALSE
    /\ blocks = <<>> /\ slot = 0 /\ pad = "none" /\ first = {}
    /\ pollers = [polling |-> 0, reporting |-> 0]
    /\ hwLocked = FALSE /\ seen = 0

(* set_configuration tunes, and returns what was asked for.                *)
SetConfiguration == call = "retune" /\ tunes = 1

(* The factory sets the configuration of a new radio before it returns it. *)
Init == NewRadio /\ SetConfiguration

-----------------------------------------------------------------------------
(* The application's calls.                                                *)

(* Since the last retune returned, the reader has read as many blocks as   *)
(* may have been begun before it, and then two without a flag: of two in   *)
(* a row it has read at most one early.                                    *)
Settled == seen = QueueBlocks + 2

(* A stream that runs is asked to stop, and the call waits for its thread. *)
StopFirstSilently(join, ready) ==
    /\ stopSignal' = stopSignal
    /\ call' = IF streaming THEN join ELSE ready

StopFirst(join, ready) ==
    /\ stopSignal' = (stopSignal \/ streaming)
    /\ call' = IF streaming THEN join ELSE ready

CallStop ==
    /\ call = "idle" /\ streaming
    /\ StopFirst("stopJoin", "idle")
    /\ UNCHANGED <<streaming, queue, blockLen, tunes, starts, destroyed, receiver,
                   controlFlags, loLocked, ring, pollers, hwLocked, seen>>

CallStart ==
    /\ call = "idle" /\ starts < MaxStarts
    /\ StopFirst("startJoin", "startReady")
    /\ starts' = starts + 1
    /\ UNCHANGED <<streaming, queue, blockLen, tunes, destroyed, receiver,
                   controlFlags, loLocked, ring, pollers, hwLocked, seen>>

CallDestroy ==
    /\ call = "idle" /\ (Careful => Settled)
    /\ StopFirst("destroyJoin", "destroyReady")
    /\ UNCHANGED <<streaming, queue, blockLen, tunes, starts, destroyed, receiver,
                   controlFlags, loLocked, ring, pollers, hwLocked, seen>>

(* The receive thread has returned; a restart deletes the queue as well.   *)
NotJoined == UNCHANGED rx
Joined == rx = "returned" /\ rx' = "none"

EmptyRing == blocks' = <<>> /\ slot' = 0 /\ pad' = "none" /\ first' = {}

Join ==
    /\ call \in {"stopJoin", "startJoin", "destroyJoin"} /\ Joined
    /\ streaming' = FALSE /\ stopSignal' = FALSE
    /\ call' = CASE call = "stopJoin" -> "idle"
                 [] call = "startJoin" -> "startReady"
                 [] call = "destroyJoin" -> "destroyReady"
    /\ queue' = (queue /\ call # "startJoin")
    /\ IF queue' THEN UNCHANGED ring ELSE EmptyRing
    /\ UNCHANGED <<flags, filled, blockLen, tunes, starts, destroyed,
                   controlFlags, loLocked, pollers, hwLocked, seen>>

(* A new queue; an old one that a stopped stream has left is forgotten.    *)
OpenStream(len) ==
    /\ call = "startReady" /\ call' = "idle"
    /\ blockLen' = len /\ queue' = TRUE /\ EmptyRing
    /\ streaming' = TRUE /\ rx' = "check" /\ flags' = {} /\ filled' = 0
    /\ UNCHANGED <<stopSignal, tunes, starts, destroyed, controlFlags, loLocked, pollers, hwLocked, seen>>

(* uhd_usrp_get_rx_stream fails: HARDWARE_FAILURE and no queue.            *)
OpenFails(len) ==
    /\ call = "startReady" /\ call' = "idle"
    /\ blockLen' = len /\ queue' = FALSE /\ EmptyRing /\ filled' = 0
    /\ UNCHANGED <<streaming, stopSignal, tunes, starts, destroyed, rx, flags,
                   controlFlags, loLocked, pollers, hwLocked, seen>>

Destroy ==
    /\ call = "destroyReady" /\ call' = "gone"
    /\ destroyed' = TRUE /\ queue' = FALSE /\ EmptyRing
    /\ UNCHANGED <<streaming, stopSignal, blockLen, tunes, starts, receiver,
                   controlFlags, loLocked, pollers, hwLocked, seen>>

(* set_center_frequency: the device leaves its old frequency, then the two *)
(* atomics are written, then a poller is started.                          *)
CallTune ==
    /\ call = "idle" /\ tunes < MaxTunes /\ (Careful => Settled)
    /\ call' = "retune" /\ tunes' = tunes + 1
    /\ hwLocked' = FALSE /\ seen' = 0
    /\ UNCHANGED <<streaming, stopSignal, queue, blockLen, starts, destroyed,
                   receiver, controlFlags, loLocked, ring, pollers>>

LockRemembered == loLocked
LockForgotten == FALSE

TuneUnlock ==
    /\ call = "retune" /\ call' = "retuneFlags"
    /\ loLocked' = LockForgotten
    /\ UNCHANGED <<streaming, stopSignal, queue, blockLen, tunes, starts, destroyed,
                   receiver, controlFlags, ring, pollers, hwLocked, seen>>

TuneFlags ==
    /\ call = "retuneFlags" /\ call' = "retunePoller"
    /\ controlFlags' = controlFlags \union {CHANGE, UNLOCKED}
    /\ UNCHANGED <<streaming, stopSignal, queue, blockLen, tunes, starts, destroyed,
                   receiver, loLocked, ring, pollers, hwLocked, seen>>

TunePoller ==
    /\ call = "retunePoller" /\ call' = "idle"
    /\ pollers' = [pollers EXCEPT !.polling = @ + 1]
    /\ UNCHANGED <<streaming, stopSignal, queue, blockLen, tunes, starts, destroyed,
                   receiver, controlFlags, loLocked, ring, hwLocked, seen>>

-----------------------------------------------------------------------------
(* The pollers, the device and the reader.                                 *)

PollSensor ==
    /\ pollers.polling > 0 /\ hwLocked
    /\ pollers' = [polling |-> pollers.polling - 1, reporting |-> pollers.reporting + 1]
    /\ UNCHANGED <<control, receiver, controlFlags, loLocked, ring, hwLocked, seen>>

ReportLock ==
    /\ pollers.reporting > 0
    /\ pollers' = [pollers EXCEPT !.reporting = @ - 1]
    /\ loLocked' = TRUE
    /\ UNCHANGED <<control, receiver, controlFlags, ring, hwLocked, seen>>

DeviceLocks ==
    /\ ~hwLocked /\ hwLocked' = TRUE
    /\ UNCHANGED <<control, receiver, controlFlags, loLocked, ring, pollers, seen>>

Retuning == call \in {"retune", "retuneFlags", "retunePoller"}

(* The reader keeps account of a block with the flags f.                   *)
Observe(f) ==
    seen' = CASE Retuning -> seen
              [] ~Retuning /\ seen < QueueBlocks -> seen + 1
              [] ~Retuning /\ seen >= QueueBlocks ->
                     IF BlockFlags \cap f # {} THEN QueueBlocks
                     ELSE IF Settled THEN seen ELSE seen + 1

ReadBlock ==
    /\ queue /\ blocks # <<>>
    /\ blocks' = Tail(blocks)
    /\ Observe(Head(blocks))
    /\ UNCHANGED <<control, receiver, controlFlags, loLocked, slot, pad, first, pollers, hwLocked>>

(* The reader passes the pad while the block behind it is under way.  It   *)
(* finds the header of the block a lap before, or, once the loop has       *)
(* stored it, that of the block itself, and will not read the block again. *)
HeaderFound == {first} \union (IF rx \in {"clear", "commit"} THEN {flags} ELSE {})

ReadEarly ==
    /\ queue /\ blocks = <<>> /\ pad = "ahead"
    /\ pad' = "passed"
    /\ \E f \in HeaderFound : Observe(f)
    /\ UNCHANGED <<control, receiver, controlFlags, loLocked, blocks, slot, first, pollers, hwLocked>>

-----------------------------------------------------------------------------
(* rx_loop.                                                                *)

CheckStop ==
    /\ rx = "check"
    /\ rx' = IF stopSignal THEN "returned" ELSE "acquire"
    /\ UNCHANGED <<control, flags, filled, controlFlags, loLocked, ring, pollers,
                   hwLocked, seen>>

(* The spin on acquire_write ends when there is room.                      *)
HasRoomForOneMore == Len(blocks) <= QueueBlocks
HasRoom == Len(blocks) < QueueBlocks

(* At the end of a lap the next block is the first of the buffer.          *)
AcquireBlock ==
    /\ rx = "acquire" /\ HasRoom
    /\ rx' = "take" /\ filled' = 0
    /\ slot' = IF slot = QueueBlocks THEN 0 ELSE slot
    /\ pad' = IF slot = QueueBlocks /\ blockLen \notin WholeLengths THEN "ahead" ELSE "none"
    /\ UNCHANGED <<control, flags, controlFlags, loLocked, blocks, first, pollers, hwLocked, seen>>

TakeFlags ==
    /\ rx = "take" /\ rx' = "receive"
    /\ flags' = controlFlags
    /\ controlFlags' = controlFlags \ {CHANGE}
    /\ UNCHANGED <<control, filled, loLocked, ring, pollers, hwLocked, seen>>

(* One uhd_rx_streamer_recv that returns n samples; one that times out     *)
(* returns none and is repeated.                                           *)
Receive(n) ==
    /\ rx = "receive" /\ filled + n <= blockLen
    /\ filled' = filled + n
    /\ UNCHANGED <<control, rx, flags, controlFlags, loLocked, ring, pollers,
                   hwLocked, seen>>

ReceiveSome == \E n \in 1..blockLen : Receive(n)

LockSeenOnChange == CHANGE \in flags /\ loLocked
LockSeen == UNLOCKED \in flags /\ loLocked

(* The block is full: the header is written and lo_locked_ is read.        *)
TestLock ==
    /\ rx = "receive" /\ filled = blockLen
    /\ rx' = IF LockSeen THEN "clear" ELSE "commit"
    /\ UNCHANGED <<control, flags, filled, controlFlags, loLocked, ring, pollers,
                   hwLocked, seen>>

ClearUnlocked ==
    /\ rx = "clear" /\ rx' = "commit"
    /\ controlFlags' = controlFlags \ {UNLOCKED}
    /\ UNCHANGED <<control, flags, filled, loLocked, ring, pollers, hwLocked, seen>>

CommitBlock ==
    /\ rx = "commit" /\ rx' = "check"
    /\ blocks' = IF pad = "passed" THEN blocks ELSE Append(blocks, flags)
    /\ slot' = slot + 1 /\ pad' = "none"
    /\ first' = IF slot = 0 THEN flags ELSE first
    /\ UNCHANGED <<control, flags, filled, controlFlags, loLocked, pollers, hwLocked, seen>>

-----------------------------------------------------------------------------
MakeCall == CallStop \/ CallStart \/ CallDestroy \/ CallTune

GoOnWithCall ==
    \/ Join \/ Destroy \/ TuneUnlock \/ TuneFlags \/ TunePoller
    \/ \E len \in Lengths : OpenStream(len) \/ OpenFails(len)

RxLoop ==
    CheckStop \/ AcquireBlock \/ TakeFlags \/ ReceiveSome \/ TestLock
        \/ ClearUnlocked \/ CommitBlock

Next ==
    \/ MakeCall \/ GoOnWithCall \/ RxLoop
    \/ PollSensor \/ ReportLock \/ DeviceLocks \/ ReadBlock \/ ReadEarly

Spec == Init /\ [][Next]_vars

(* The threads run, a call that has begun goes on, the reader polls its    *)
(* handle, and a device that streams delivers samples.                     *)
FairSpec ==
    /\ Spec
    /\ WF_vars(RxLoop) /\ WF_vars(ReadBlock) /\ WF_vars(GoOnWithCall)
    /\ WF_vars(PollSensor) /\ WF_vars(ReportLock) /\ WF_vars(DeviceLocks)

-----------------------------------------------------------------------------
Calls ==
    {"idle", "stopJoin", "startJoin", "startReady", "destroyJoin", "destroyReady", "gone",
     "retune", "retuneFlags", "retunePoller"}

TypeOK ==
    /\ {streaming, stopSignal, queue, loLocked, hwLocked, destroyed} \subseteq BOOLEAN
    /\ controlFlags \subseteq BlockFlags /\ flags \subseteq BlockFlags
    /\ blockLen \in Lengths \union {0} /\ filled \in 0..blockLen
    /\ blocks \in Seq(SUBSET BlockFlags) /\ Len(blocks) <= QueueBlocks
    /\ slot \in 0..QueueBlocks /\ pad \in {"none", "ahead", "passed"}
    /\ first \subseteq BlockFlags
    /\ call \in Calls /\ seen \in 0..(QueueBlocks + 2)
    /\ rx \in {"none", "check", "acquire", "take", "receive", "clear", "commit", "returned"}
    /\ pollers \in [polling : Nat, reporting : Nat]
    /\ tunes \in 1..MaxTunes /\ starts \in 0..MaxStarts

(* From the return of set_center_frequency until the LO has locked, every   *)
(* block that is begun carries BF_LO_UNLOCKED (RadioRx.hpp:93): neither the *)
(* receive loop's clearing of the flag nor a poller of an earlier retune    *)
(* takes it away.                                                           *)
UnlockFlagKept ==
    ~hwLocked /\ call \notin {"retune", "retuneFlags"} => UNLOCKED \in controlFlags

(* The threads stay within the lifetime of what they use: the receive       *)
(* thread runs only while its queue is there and the stream is on, nothing  *)
(* produces blocks once stop_stream has returned (RadioRx.hpp:35), and      *)
(* neither it nor a poller is left when the object is gone.                 *)
ThreadsWithinLifetime ==
    /\ rx # "none" => queue /\ streaming
    /\ call = "idle" /\ ~streaming => rx = "none"
    /\ destroyed => rx = "none" /\ pollers = [polling |-> 0, reporting |-> 0]

(* A call that stops the stream returns, whatever the receive thread was    *)
(* doing, as long as somebody reads the queue.                              *)
StopReturns == [](call \in {"stopJoin", "startJoin", "destroyJoin"} => <>(rx = "none"))

(* Once the LO has locked, a stream that goes on stops reporting it as      *)
(* unlocked, unless it is retuned.                                          *)
LockReported ==
    []<>(UNLOCKED \notin controlFlags \/ ~hwLocked \/ rx \in {"none", "returned"})
=============================================================================
