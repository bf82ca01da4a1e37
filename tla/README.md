# Verification of libcsics

TLA+ models of the parts of libcsics whose correctness depends on the order of
events: what two threads do to a lock-free queue, what a thread pool does with
tasks while it is destroyed, what a simulation world does with entities that are
created, changed and destroyed while systems run, what a receiver reports while it is
retuned, who owns a message that a client library hands over, which objects live in a
container; and of the parts whose correctness depends on counts at a boundary: stream
encoders, the JSON writer and DIS records. TLC checks the models on small
instances; the theorems are proved by TLAPS for every value of the constants.

Line numbers below are relative to `src/` (the library's headers are under
`include/csics/`, its sources under `src/`).

## 1. The system and its components

| Component | State it keeps | Operations | Used by |
|---|---|---|---|
| `queue/SPSCQueue` | a circular byte buffer, `read_index_` and `write_index_` (free-running, atomic) | `acquire_write`, `commit_write`, `acquire_read`, `commit_read` | radio (blocks), `SPSCMessageQueue` |
| `queue/SPSCMessageQueue` | an `SPSCQueue` with one slot size | `try_push`, `try_pop`, draining destructor | MQTT topics |
| `executor/ThreadPoolExecutor` | worker threads, task queue, mutex, condition variable, stop flag | constructor, `submit`, destructor | applications |
| `executor/SingleThreadedExecutor` | none | `submit` (runs the job), `join` (nothing) | ECS |
| `sim/ecs/SparseSet` | `dense_`, `sparse_`, `entities_` | `insert`, `emplace`, `at`, `contains`, `remove` | ECS world |
| `sim/ecs/StaticWorld`, `WorldContext` | entities, dead ids, generations, one sparse set per component type; per context the deferred entities and actions | `add_entity`, `remove_entity`, `add_component`, `remove_component`, `run`; on a context the same, deferred | simulations |
| `sim/ecs/View` | references to sets | iteration over entities that have all components | systems |
| `radio/USRPRadioRx` | configuration, streaming and stop flags, LO lock flag, the receive thread, a queue | `start_stream`, `stop_stream`, `set_*`, `rx_loop`, LO lock pollers | applications |
| `io/net/MQTTEndpoint` | connection, one message queue per topic under a mutex, pending messages without one | `connect`, `publish`, `subscribe`, `recv`, `poll`; callbacks of the client library's thread | applications |
| `io/net` TCP and UDP endpoints | a descriptor | `bind`, `connect`, `send`, `recv`, `poll` | applications |
| `Buffer`, `String` | storage, size, capacity | container operations, views | everything |
| `io/encdec/Base64Encoder`, `io` compressors | up to two held-over bytes; a codec stream | `encode`, `finish`; `compress_partial`, `compress_buffer`, `finish` | applications |
| `serialization`, `lvc/dis` | a cursor in an output view | writing and reading of records, dispatch of PDUs | applications |
| `dsp`, `em`, `geo`, `linalg` | filter and integrator states, values | numeric formulas | applications |

How they interact: the receive thread of the radio is the producer and the
application the consumer of one `SPSCQueue`, without a lock. The client thread of
the MQTT library pushes into a `SPSCMessageQueue` and the application pops from it,
both under the topics' mutex. A world hands its systems to an executor layer by
layer; the systems call back into the world through their contexts, at once for
`add_entity` and deferred to the end of the layer for everything else.

What is hard: two threads without a lock (queue, radio), threads with a lock and a
condition variable (pool), callbacks (MQTT), calls checked now and made later (ECS
contexts), handles that outlive what they name (ECS generations), containers of
live objects (`Buffer`), and counts at a boundary (queue, encoders, DIS lengths).
`PROJECT.json` lists these hazards at their lines.

What makes each component correct:

- queue: a bounded FIFO channel of messages; a slot that is held is not touched by
  the other side; Full and Empty are answered only when they are true; a message
  that was committed is received;
- pool: an accepted task runs exactly once and in the order of submission, no
  wake-up is lost, the destructor waits for accepted tasks and returns;
- ECS: an id is in use once or free once; each entity has exactly the components
  it was given last, found through its handle; a view yields exactly the entities
  that have its components; no assertion fails;
- radio: blocks carry the flags of the tune they were received under, `stop_stream`
  returns; MQTT: a message is delivered to its topic's queue once, pending messages
  are those without a delivery; `Buffer`: every object is constructed once and
  destroyed once; encoders: the outputs of the calls, joined, are the encoding of
  the inputs, joined.

## 2. Plan

All the components of the table except the numeric ones have a module. In this order:

1. the queue, on which the radio and MQTT are built; the pool; the ECS world; each with its
   proofs (`SPSCQueue`, `ThreadPoolExecutor`, `EcsWorld`);
2. `RadioRx` over a queue of blocks that pads as `SPSCQueue` does, and `MQTTEndpoint` with its
   topics' queues, each with its proofs;
3. `Buffer` against `BufferLists`, the abstract specification of a container, with its
   proofs;
4. `StreamEncoder` on `Base64` and the libraries' contracts, and `Endpoints` as the life of
   descriptors, with their proofs in one module, `IoProofs`; `DisPdu` and `JsonWriter` as
   functions, and `Serialization`, which composes them with `Endpoints`.

Left, in the order of what they would add: what `JsonWriter` and `DisPdu` compute for every
document and PDU (model-checked); the views' zipped references; the remaining forms of
`Deserializer.hpp`; `BufferGuard`.

The pattern of all modules: the code is modelled as it is, and where it is right only for
callers that take care of something, a constant (`Exclusive`, `Careful`, `Once`,
`Discipline`) names what that is. A run checks careful callers; each element is there
because without it the run's properties fail, so what the run shows holds for careful callers only. A hazard that
such an element excludes is listed with a note that says so: the run does not show that the
hazard is met, it shows that nothing else goes wrong.

Three disagreements with what the repository says of itself have a run that is expected to find the
violation (`spsc_pad_race`, `spsc_mixed_sizes`, `ecs_stale_generation`). The others have none; they are
named in section 3, with the element of `Discipline` that stands for them or in the property itself:

- `finish` counts none of the input it takes (ZLIBCompressor.cpp:128, ZSTDCompressor.cpp:133), where Compressor.hpp:30-31
  says "How many bytes were consumed from the input buffer" (`status`);
- `encode` counts what is left, not what was processed, when its output is full (EncodeDecode.hpp:20;
  `room` of the streams);
- the reader of a Transmitter refuses every one of DIS 6, where serde.hpp:1008-1010 says that reading the
  count "doesn't cause any issues" (`single`, and `PduExact` claims nothing else of them);
- a struct of which a field failed is reported Ok (Serializer.hpp:26-43; `renew`);
- blocking and stopping of the queue are announced (SPSCQueue.hpp:24-25) and not implemented.

## 3. Modules

### The queue: `BoundedChannel`, `SPSCQueue`, `SPSCQueueUniform`

`BoundedChannel` is what a queue promises: `received` is a prefix of `sent`, at most
`Bound` messages are under way.

`SPSCQueue` is the code at the level of its accesses to shared memory. `readIndex`
and `writeIndex` are the two atomics, `buffer` maps each byte to what is in it (a
byte of a header, of the payload of message n, or junk). Each side has a program
counter, the slot it holds and the last result. `AcquireWrite` reaches from the call
to the load of the other index and the decision taken on it (SPSCQueue.cpp:66-86);
`WritePad`, `PublishPad`, `WriteHeader` are the writes that follow (88-104); `Fill` is the
caller's; `CommitWrite` is the release (131-141). `AcquireRead`, `ReadHeader`, `SkipPad`,
`ReadFirst`, `Consume` and `CommitRead` are the consumer's (106-151). `AbandonWrite` and
`AbandonRead` drop a slot without a commit. Since each index has one writer, which
releases it, and one reader, which acquires it, interleaving whole accesses loses no
behaviour as long as slots do not overlap in time, which is the property
`NoDataRace`. A header that has been overwritten may be read as anything
(`HeadersAt`).

`Exclusive` says whether the callers keep the two sides apart (one thread, or a mutex
as in MQTT). `SPSCQueueUniform` adds the assumption under which the queue is right
with two threads: all messages take one stride and the capacity is a multiple of it.
That holds where the stride is a power of two, as the capacity is rounded up to one: for the
topics of MQTT, whose messages take one cache line with their header. It does not hold in general: an
`SPSCMessageQueue` of messages of three lines pads, and so does the radio's queue for most block
lengths. Under the topics' mutex a queue that pads is right too (`spsc_padded`); the radio has no mutex,
and `RadioRx` models what its reader is then given.

What the checks show:

- In the uniform regime the queue is correct, also with requests of size 0, too big
  requests and dropped slots.
- With pads and calls that do not overlap (`spsc_padded`) messages of one size are
  neither lost nor altered.
- With pads and two threads (`spsc_pad_race`) a message is received again: the pad is
  published before the header behind it is written.
- With two sizes (`spsc_mixed_sizes`), even without concurrency, a message that is
  unread is overwritten: the free-space test leaves out the pad.

Smaller facts met on the way: a request with `size + header` from the capacity
to a header above it is never `TooBig` and always `Full` (hence `NoUnsatisfiableSize` as
the assumption of `FullCorrect`); a slot of size 0 publishes nothing; a consumer that lets go of
a slot it got behind a pad reads, next time, from the middle of the first slot;
blocking and stopping, which SPSCQueue.hpp:24-25 announces, are not implemented.

### The pool: `ThreadPoolExecutor`, `MCThreadPoolExecutor`

`m_tasks` and `m_stop` are the code's; `wpc` and `current` are each worker's place and
task, `cpc` each client's, `dtor` the destructor's; `accepted`, `started`, `finished`
and `rejected` are history. A critical section of `m_mutex` is one step (`WaitForTask`,
`TakeTask`, `Exit`, `ClientSubmit`, `TaskSubmit`, `Stop`); what the code does after
unlocking is a step of its own (`ClientNotify`, `TaskNotify`, `NotifyAll`). `NotifyOne`
picks any sleeping worker, `SpuriousWakeup` wakes one without cause. A task may submit
one more task (`Child`) and may wait for its future (`Awaiting`).

Assumed: a client is not inside `submit` when the destructor starts (the lifetime
rule of C++; otherwise `notify_one` touches a dead object), there is a worker
(`hardware_concurrency()` may return 0: then nothing runs), and fewer tasks wait for
others than there are workers (otherwise they wait for ever). The mutex is fair
enough that a thread that wants it gets it.

`SingleThreadedExecutor` has no state; it is the order in which `EcsWorld` runs
systems. It is also the only executor the world can take: the `Executor` concept asks
for `join()`, which `ThreadPoolExecutor` lacks.

### The ECS: `SparseSet`, `EcsWorld`, `EcsWorldProofs`, `MCEcsWorld`

`SparseSet` holds the operations of one set as operators on a record of the three
arrays. `EcsWorld` is the world (`entities`, `deadEntities`, `generations`, `sets`) and a run
of it: `BeginLayer` makes the contexts, `ContextAddEntity`, `ContextAddComponent`,
`ContextRemoveComponent` and `ContextDestroyEntity` are a system's calls, `EndSystem` goes
to the next, `EndHook` ends the layer's hook, and `ApplyToNewEntity`, `ApplyAction` and
`NextContext` make the deferred calls in the code's order (World.hpp:163-198). The
direct calls are available outside `run` and in the hook. `failed` is the assertion
that failed, after which nothing happens. `created`, `alive` and `owned` are what the
callers know: their handles, and what each entity was given last.

`remove_entity` leaves the world's sets alone because the code removes from copies of
them (116-118), and `add_entity` gives a recycled id the generation stored for it before
the increment (41). Both are in the model as they are, so the ECS is right only for
callers that take care; `Discipline` names what they take care of:

- `strip`: an entity's components are removed before it is. Without it the next
  entity of that id starts with the old components, and the third cannot find
  those it is given (`ecs_stale_generation`);
- `oneOwner`: an entity is named by one system of a layer, and then not by its hook. Without it
  two deferred `destroy_entity` both pass their check and the second one's removal
  runs into its assertion;
- `buildOnce`: a system that takes a component from an entity it has created in this
  layer gives it none any more: the deferred calls for new entities are made in
  two groups, additions first.

### The radio: `RadioRx`, `RadioRxProofs`

Four kinds of threads share the atomics `streaming_`, `stop_signal_`, `control_block_flags_`
and `lo_locked_`: the application's calls (`call` says where one is; `CallStop`, `CallStart`,
`CallDestroy` and `CallTune` begin one, `Join`, `OpenStream`, `OpenFails`, `Destroy`, `TuneUnlock`,
`TuneFlags` and `TunePoller` go on with it), the receive thread (`CheckStop` to `CommitBlock`, in
the order of `rx_loop`, USRPRadioRx.cpp:191-256), the detached threads that poll the LO's
lock (`PollSensor`, `ReportLock`) and the reader of the queue (`ReadBlock`, `ReadEarly`). A step reaches from
one access to a shared atomic to the next. The device (`DeviceLocks`, `Receive`) is external.

The queue is an `SPSCQueue` of blocks of one length. Its capacity is four blocks rounded up to a power of
two, its slots are a block rounded up to cache lines, and so three to seven of them fit before the end of the buffer
(`QueueBlocks`), seldom exactly (`WholeLengths`: with lines of 64 bytes 80 of the lengths below 3000 samples, such as 41 to 56; neither 256
nor 1024). `blocks` holds the flags of each committed block, oldest first; `slot` is the place of the
next one in its lap. At the end of a lap `AcquireBlock` publishes a pad (`pad = "ahead"`) when the slots do
not fill the buffer. A reader that has caught up passes the pad while the block behind it is under way
and is handed whatever lies at the start of the buffer (`ReadEarly`, `HeaderFound`): the block that was
there a lap before (`first`), or the new one, once the loop has stored its flags. It is then behind that
block, which `CommitBlock` adds to nothing any reader will see. This is what `spsc_pad_race` shows, with the
queue's bytes abstracted to a block's flags. For some lengths a pad leaves room for one block fewer, which
only delays the writer. Left out is a corner of the test against the free space, which does not count the pad: with blocks of 121 to 123
samples (below 3000, no others) it lets the writer begin the block behind a pad in the slot the reader
still holds, as that slot, read behind the pad of a lap before, is counted two headers short.

`Careful` is an application that retunes or destroys the radio only when it is `Settled`: since
`set_center_frequency` returned, it has read as many blocks as the queue may have held, and then two in
a row with neither `BF_LO_UNLOCKED` nor `BF_CONFIG_CHANGE`. One would not do: it may be a block of the lap
before, handed over early, and of two in a row at most one is (with one, TLC finds a poller that outlives
the object). For any other application the flag is lost (the loop reads `lo_locked_` at 247 and clears the flag at
248, and a poller of the previous retune may report in between) and a poller may outlive the object.

Facts met on the way: `stop_stream` waits for the receive thread, which spins while the
queue is full, so it hangs when the reader's own thread calls it; a `start_stream` after a
`stop_stream` forgets the old queue without deleting it; `set_configuration` stores what was
asked for over what the device has answered.

### MQTT: `MQTTEndpoint`, `MQTTEndpointProofs`, `MCMQTTEndpoint`

The application's thread makes the calls (`CallConnect` to `CallPublish`), the client library's
thread makes the callbacks (`ConnectEnds`, `ConnectionLost`, `MessageArrived`, `DeliveryComplete`); a
critical section of `topic_queues_mutex` is one step. Messages are the library's objects; what counts is
who has to free each. `MessageArrived` is `msg_arvd` with its three ends (`Ignore`, `Enqueue`,
`Refuse`); the library offers a message again after a 0. `Erased` and `FreedByErase` are what
`std::erase_if` does with objects whose move assignment frees nothing.

`Discipline`:

- `room`: the application receives before a queue is full; otherwise `Refuse` frees a
  message the library still has;
- `fresh`: `recv` is given a message that holds nothing; otherwise what it held leaks;
- `alone`: nothing is published behind a forwarded message; otherwise the erasure
  assigns over it and it leaks.

None of these is needed for the order of messages or for the pending ones. A delivery may be reported at
any time from the moment the library has given out its token. If `publish` has not stored the message
yet (240-249), the callback finds nothing to erase and the entry stays for ever; `PendingExact` says that this
happens to the messages whose delivery came too `early` (a history variable) and to no others. Two accesses to
`pending_messages` that overlap are a data race, and left out.

`LengthGiven` holds the cases the library may be in: it passes the length of a topic's name or, as its documentation
allows, 0, and then the code cuts the last character off the name (208): the message goes to another
topic's queue, or to none. `misnamed` are the messages that were queued so, and `ReceivedInOrder` speaks of the name a
message was queued under (`NameOf`); that it is the topic's own is not claimed, since it is not so.
`connected` is never reset after a lost connection (165), so
that `connect` is not available again, as in the code.

### Containers: `BufferLists`, `Buffer`, `BufferProofs`, `MCBuffer`

`BufferLists` is what a container promises: each name holds a list, and a call changes its
own. `Buffer` is the code as steps on storages: a cell is raw, holds an object, or holds one that was
moved from; a step that C++ does not define for its cell makes it `Broken`. A run has one `T`,
trivially copyable or not, as most functions differ in this, and one policy. `IsMovedFrom`
is a buffer no list can be read from: for a trivial `T` the code keeps `size_` and `capacity_` after it
has given the storage away.

`Discipline`:

- `sized`: `Buffer(n)` only for a trivial `T`, as its elements are not constructed;
- `swap`: `swap_and_pop` of an inner element only for a trivial `T`, as it assigns to an
  element it has destroyed, and does not destroy the last one (477);
- `moved`: what was moved from is only destroyed or assigned to (545);
- `alias`: an element of the buffer itself is not appended when the buffer has to grow,
  since the old storage is gone when it is copied (656);
- `range`: no empty range is erased, which would move each element behind it to itself.

### Streams: `Base64`, `StreamEncoder`, `IoProofs`

`Base64` holds `encode` and `finish` as functions of input, room and hold-over, and as the
reference (`Encoding`) the encoding of a whole input by its bits, six at a time. What a compressor puts
out is right if it decodes to what was put in (`Decodes`): each code but the end of a frame is the next byte's. `StreamEncoder` is a caller that cuts a
stream at will and trusts the counts of each result, but for the input of a compressor's `finish`, which
is always reported as 0; the compressors' calls take one step per call
of their library, whose documented contract (`Amounts`, `DeflateStops`, `ContinueAdvances`) is
external. Output and input are counted in units; one unit ends a frame.

`Discipline`: `room` (Base64: the output holds every complete group, or none while
bytes are held; otherwise the counts of the result are what is left instead of what was
done, 36), `finish` (a compressor's `finish` has room for all that may come, or zlib none, or zstd no input;
otherwise what the library has taken or written in a call that fills its output is not reported, and no status tells),
`status` (a `finish` that returns `InputBufferFinished` has used all its input, whatever the count says; a caller that goes by
the count, as Compressor.hpp:30-31 has it, gives the input again: ZLIBCompressor.cpp:128, ZSTDCompressor.cpp:133), `fresh`
(after `finish` it is called until it is done, and a zlib stream that has ended is given no
more input; otherwise `compress_buffer` does not return, 87).

### Serialization and sockets: `JsonWriter`, `DisPdu`, `Endpoints`, `Serialization`

`JsonWriter` is the serializer with its stack of states, on documents; `Complete` is the text a
document should have: that of RFC 8259, but for a lone value, which the serializer follows with a comma (`Complete` takes
that from the code). `DisPdu` writes a PDU item by item and reads it member by member: an
item is a member and a width, a byte is one of an item's, so that the reading notices any
byte that is not where the writer put it. `Endpoints` holds the descriptor of each UDP and TCP
endpoint (`internal`), the kernel's open sockets, and what waits in them. `Serialization`
composes them: documents and PDUs are written into views of any room, PDUs are
sent from one endpoint to another, cut at any byte, and dispatched to handlers.

`Discipline`:

- `room`: a document has room for its whole text, or is a list of integers with room for
  its bracket; otherwise the serializer writes past the view or reports Ok for a cut text;
- `renew`: a serializer that gave up is not used again, as its stack is not emptied;
- `typed`: the type of the dead-reckoning parameters is set, otherwise they are not written (324);
- `whole`: a handler of a PDU, which the dispatcher calls without looking at the
  result of the decoding, is given whole ones that the library wrote;
- `single`: a Transmitter has at most one variable parameter. serde.hpp:1012 assigns
  the result of a read, an `Expected`, to the count, which makes it 1 whatever
  was read. Of two parameters, other data are handed over than were sent.

A peer's Transmitters are those the standard allows: of DIS 6 without variable parameters, of DIS 7 with none, one
without data, one with data. Only the third is decoded (exactly); all others are refused, which is what
`PduExact` allows a Transmitter, and no more: serde.hpp:1008-1010 is not right about DIS 6.

`Once` is an application that binds or connects an endpoint once; a second call stores the new
descriptor over the old one, which stays open (UDPEndpointUnix.cpp:58). `TCPEndpoint::connect_`
passes its own structure where the kernel expects a `sockaddr` and never succeeds
(`TcpConnect`).

The Transmitter's writer is not modelled as the library's: it calls a writer for
`RadioType` that does not exist and cannot be instantiated. `PeerSends` is a peer that uses
the layout the reader expects.

## 4. Runs

| Run | Instance | Shows |
|---|---|---|
| `spsc_uniform` | 4 slots of 4 bytes, sizes of which one is 0 and one too big, 5 messages (a lap and a quarter), one dropped slot | nine properties of the uniform regime; liveness |
| `spsc_padded` | 64 bytes, stride 12, 17 messages: pads of different lengths are written and skipped in two laps | refinement of the channel |
| `spsc_pad_race` | 32 bytes, stride 12, two threads, 4 messages | violation |
| `spsc_mixed_sizes` | 16 bytes, sizes 2 and 9, one thread, 6 messages | violation |
| `thread_pool` | 2 workers, 2 clients, 5 tasks: one waits for its child, one only submits it | exactly-once, order, wake-ups, termination |
| `ecs_world` | 3 entities, 2 component types with 2 values, 2 systems and a hook, 1 layer, 4 calls besides creations | six invariants for careful callers |
| `ecs_stale_generation` | 3 entities, 1 type, callers that do not strip | violation |
| `radio_rx` | queue of 3 blocks, blocks of 0 samples that pad and of 2 that do not, early reads, 3 retunes, 2 starts, a careful application | the flag of unlocked blocks, lifetimes of threads; every stop returns, a lock is reported |
| `mqtt_endpoint` | 2 topics, the name of one beginning with the other's, queues of 2, 4 messages, 3 published; names with and without a length, early deliveries | ownership of messages, order per topic, pending messages |
| `buffer` | 2 buffers of up to 3 elements, 2 kinds of `T`, 4 policies | lifetimes of objects, refinement of lists |
| `streams` | streams of up to 5 bytes cut at will, outputs of 0, 3, 4 and 8 units, 3 encoders | the output decodes to the input; calls return |
| `serialization` | documents of two levels with up to two items in every room up to their text's length and one more; 3 types of PDU with lists of up to two (Transmitters of both versions with at most one), in every room, cut at every byte; 4 endpoints, 3 descriptors | texts and PDUs arrive exactly or are refused; each descriptor has one owner |

Why the bounds are enough. The queue's steps depend on the indices modulo the
capacity: five messages in four slots reach every fill level and the wrap-around, with
each side anywhere in its operation, and the theorems cover the rest. In the pool two workers are enough for one to sleep, one to
run and the notifications to cross, and five tasks make the queue longer than the number
of workers. In the ECS three entities and four calls reach the reuse of an id, a
second reuse, two dead ids at once, and a removal from the middle of a set; values and
component types are interchangeable, so the run is reduced by their symmetry.
For the radio, three blocks (the fewest a queue holds) are the one that announces a retune, an unlocked one and one after the
lock, with the receive thread at any place of the lap, and a lap is short enough for the block handed over early to be of the
tune before; three retunes let pollers and flags of one meet those of the next. MQTT's four messages fill one queue and still
arrive for the other; three publications leave an entry on either side of the one that is
erased. Buffers of three elements have a first, an inner and a last one, and grow
from each size under each policy. Five bytes reach each hold-over twice and end in each
padding. A PDU with lists of 0, 1 and 2 elements and of 2 nested ones has every skip and every
count; each room and each cut is tried.

Deadlock is checked in the queue runs only where the consumer polls for ever, and in
`streams` and `serialization`, where callers can always go on; the pool, the radio and the
endpoint are gone after their destructors, and bounded numbers of ECS calls and buffers' elements run out.

Fairness. Queue: weak fairness of the consumer, which polls, and of the operation the
producer is in; a producer need never send. Pool: weak fairness of each worker's step,
of notifications and of the destructor's; clients need never submit, the destructor
need never start. Nothing is assumed about which sleeping worker `notify_one` wakes.
Radio: weak fairness of the receive thread, of a call that has begun, of each poller's
two steps and of the reader, which polls its handle in a thread of its own; the device delivers
samples and its LO locks in the end, as the code itself waits for both without a limit. The
application need never call. Streams: a library that was called returns (`WF_vars(Turn)`); callers
need never call.

## 5. Proofs

`SPSCQueueProofs`: `TypeCorrect`, for every constant, both regimes included; its content
is that no slot starts outside the buffer. Then the queue with pads: `PaddedCorrect`, and from it
`PaddedImplementsChannel`, `PaddedHeldSlotCorrect` and `PaddedEmptyCorrect`, for any capacity and number of
laps. The invariant `PaddedInv` says that there are indices `at` at which the messages were acquired, each
where the commit of the one before has put it (`EndOf`, with the pad and its headers), and that
pads, headers and payloads of unread messages lie untouched. How many slots a lap has and where they start
differs from lap to lap, and so `at` is not a formula: each commit extends it. What makes the
invariant inductive is `Boundary`: an index stands at the start of the buffer or so far behind it
that a message fits before it. Hence, when the test against the free space passes, which does not count
the pad, the reader has left the start of the buffer (`RoomForSlot`). Assumed is `Serialised`: the calls do
not overlap (`spsc_pad_race` shows what happens otherwise), all messages take the same number
of lines (`spsc_mixed_sizes`), slots are committed (one dropped behind a pad leaves the index in
the middle of the first slot), and the first message of a lap takes one lap at most.

`SPSCQueueUniformProofs`: the inductive invariant `IInv` says that the indices are
`SlotStride` times the number of messages committed and released, that each side works
on the slot its index names, and that every message committed and not released lies
in its slot untouched. `HeldSlotIsNextMessage` alone is not inductive: it says nothing of
the messages behind the one that is held. The arithmetic rests on two lemmas: rounding
up from a multiple of the stride adds one stride, and the offsets of two messages less
than a lap apart are at least a stride apart. From `IInv` follow `HeldSlotCorrect`,
`DataRaceFree`, `IndicesCorrect`, `EmptyCorrect`, `FullCorrect` and `QueueImplementsChannel` (every step
of the bytes is a step of the channel or a stutter). Assumed: `QueueAssumption` and
`UniformAssumption`, and for `FullCorrect` that no size is unsatisfiable.

`ThreadPoolExecutorProofs`: `PoolTypeCorrect`, `NoTaskLostCorrect`, `RunsOnceCorrect` and
`NoLostWakeupCorrect`, for any finite set of workers and clients. `NoLostWakeup` is a
count: while somebody sleeps, there are at least as many awake workers and pending
notifications as tasks in the queue. The inductive invariant `PoolInv` they rest on says
that the queue is what was accepted and not started, in order, that no task is
accepted twice, that what was started is finished or held by exactly one worker, and how
far the destructor has come when workers have left; `NoTaskLost` alone does not exclude
that a queued task is also held. The same invariant gives `PoolImplementsChannel`, for
finitely many tasks (the channel's bound is their number): the head of `m_tasks` is the next
accepted task, and no more are accepted than there are, since none is accepted twice.

`EcsWorldProofs`: `EcsTypeCorrect`, `SetsConsistentCorrect` and `IdsPartitionedCorrect`, for any
component types, number of systems, capacity and order of calls, whatever the callers'
`Discipline`. The inductive invariant `EcsInv` joins `TypeOK`, `SetsConsistent`, `IdsPartitioned` and
`CountsBounded`: ids and generations never exceed the number of entities created, so ids stay
within the sets' capacity and generations in their type. The three parts need each
other: a removed id is a new one in the free list only because ids were partitioned
before, and an insertion keeps a set consistent only if the id is within `sparse`. Set
operations are proved first as lemmas on the operators (`InsertFits`, `RemoveFits`), then the
world's (`AddEntityFits`, `RemoveEntityFits`), then one step per action. That these hold without any
discipline shows that the two findings about the world do not corrupt its arrays: the stale
components are whole entries of consistent sets. A second `remove_entity` of the same
entity ends the program at its assertion and is a state without a successor there.

`AssertionsHoldCorrect`, `ComponentsAgreeCorrect` and `ViewExactCorrect` need the callers' care
(`Careful`: all three of `Discipline`) and, in every state, `Room`: no more entities at a time
than the sets have ids, however many there are in all. None of the three properties is inductive:
they speak of the state outside `run`, or of an assertion, and everything that makes them true is
under way while a layer runs. The invariant `AgreeInv` says what that is. An entity is *housed*
if it is alive or the call that destroys it is pending (`Housed`). Its parts:

- `HousesInv`: the entities of the world are the housed ones, and their ids differ;
- `HandlesInv`: every handle in a set is a housed entity's. This is where `strip` is
  needed: an entity that is removed leaves no handle behind (`RemoveFinds`, `FindsNothing`), so the
  next one of its id finds nothing, though its generation is the same the first time;
- `TouchedInv`: an entity that a system has named stays until the calls are made, so a
  recycled id cannot meet a call that is pending under an equal handle;
- `ActionsInv`, `DefsInv`, `BuildInv`: pending calls are about housed entities that only their system
  has named (`oneOwner`); a destruction is the last call about its entity; components of new
  entities are not mixed with other calls about them (`buildOnce`);
- `PlaceInv`: a context has calls pending only until its turn has passed;
- `WillInv`: for each housed entity and component type, the last pending call about it, or the
  set if there is none, gives what the caller asked for last (`Will`).

`IdsFit` (every id handed out has its place) follows from `Room` along the way: a new id is made only
when none is free, and is then the number of entities. Outside `run` the lists are empty, so `WillInv` is what
`ComponentsAgree` says; the numbers of entities and of a view's stops are counted by a bijection
(`PlacesCount`). TLC checked `AgreeInv` on a run before it was proved.

`RadioRxProofs`: `RadioTypeCorrect` for every constant; `UnlockFlagKeptCorrect` and
`LifetimesCorrect` for any queue, block lengths and numbers of calls, assuming `Careful`. The
inductive invariant `RadioInv` has three parts. `TypesInv`: types, a place in the queue and in the lap for the block
under way, and a receive thread only within a stream. `FlagInv`: the blocks the reader has not read yet, the one under way
included (`Unread`), are in order: but for those that may be older than the retune (`Old` of them, counted by what was
read since), a block without `BF_LO_UNLOCKED` is followed by none that has it, and the control flags lack it too (`Ordered`); and
`Evidence` says what an unflagged block tells the reader. Two in a row tell that no block, begun or to come,
is flagged (`Clear`), and so does one, unless the next read may be early: if it was handed over early itself, the reader is
now behind the pad, and the block after it is committed when it is read (`NotEarly`). This is what makes it sound for an
application to conclude from what it has read that a new retune does no harm. `LockInv`: there is at most one
poller, `lo_locked_` is true only when none is left and the device has locked, and the loop is
about to clear the flag only when `lo_locked_` is true and no retune has begun. `UnlockFlagKept` alone is
not inductive: it says nothing about who may still clear the flag. The lemmas on
sequences (`OrderedTake`, `OrderedRead` and so on) say what a new block, a reset and a read do to the order. The
proofs cover every `QueueBlocks` from 2 on and any set of lengths that pad.

`IoProofs`, first half: `EndpointsOwnDescriptors`, for any endpoints and descriptors, assuming
`Once`. The invariant says that no two endpoints have one descriptor, that an endpoint's
descriptor is open and that an open one is some endpoint's; the property counts owners,
which the proof derives in the end.

`IoProofs`, second half: `StreamOutputExact`, for any bytes, length of streams and rooms, and any way of
cutting both, assuming that the four rules of `Discipline` are kept. `OutputExact` speaks of the end of a
stream or of the moments between calls, and says nothing of a call that is under way or of what the
encoder holds; the invariant `StreamInv` does:

- `Base64Inv`: while a stream is encoded, its output is the encoding of its complete groups (`Encoded`) and the
  one or two bytes behind them are held (`Rest`); a stream that is done was encoded as `Encoding` says.
  The lemmas below it say that groups are what the reference says bit by bit (`BitsOfSextets`, `EncodingOfGroups`,
  and with padding `EncodingOfRest`), that encoding may go on after any group (`GoingOn`), and
  then, one function of the code after the other, what a call does (`NoHoldoverExact`, `WithHoldoverExact`,
  `EncodeExact`, `FinishExact`);
- `ProgressInv`: what a compressor has put out, in earlier calls and in this one, decodes to the bytes it
  was given but the last ones, and these are what the library holds over (`ExactSoFar`);
- `CallInv`: the input that is left is the end of what the call was given, and a `finish` has room for all
  that may come, or is one of the two that do nothing that is not reported. This is where `finish` and `status` are
  needed: only then does the caller know what was taken;
- `DoneInv`: a stream that is done holds nothing over and its output ends with the end of a frame. With
  `fresh` no step follows that a caller could take for more of the stream.

The contracts of the libraries enter by `Pass` and `Frame`, which the step of each loop is proved to preserve the invariant
by (`Passing`, `Closing`). That the codes of a longer output are counted on from those of the shorter is a matter of cardinalities
(`DecodesMore`, `DecodesEnd`) and needs no induction.

`MQTTEndpointProofs`, for any topics, capacity and numbers of messages. Each theorem has the
assumption it needs and no other:

- `MQTTTypeCorrect`: none.
- `OwnedOnceCorrect`: `Careful`, that is, `fresh`, `alone` and `room` are in `Discipline`. A delivery
  reported while `publish` stores leaves an entry behind, but frees nothing twice. The inductive invariant `OwnInv` joins the types (`TypesInv`: with them that no sequence holds a
  message twice and no two pending entries have one token), `OneHolder` (the place of a message,
  without counting) and `ForwardInv`: a forwarded message is the last of the pending ones, and
  there is none while `publish` is about to store. This is why `std::erase_if` never assigns over
  one: the entries it moves to the front are the application's own. `OwnedOnce` alone is not
  inductive, as it does not say where among the entries a message is. The lemmas `ErasedOne` and
  `EntriesLeft` say what an erasure leaves, and where; the cardinalities of `Holders` follow in the end.
- `PendingExactCorrect`: none. The invariant `PendingInv` says of each token that it has an entry if and only if
  its message was stored and has no delivery, or one that came early, and no token has two.
- `ReceivedInOrderCorrect`: none. The property speaks of what
  was received and is queued; the invariant `OrderInv` adds the messages that the library still offers:
  they are in order and later than all that arrived and are elsewhere (`OfferedLast`). Only then
  does a hand-over keep a topic's order (`TopicOrder`).

`BufferProofs`, for any finite set of buffers, any values, policies and sizes: `BufferTypeCorrect` and
`LifetimesCorrect`, assuming `LifetimesKept`, and `ImplementsListsCorrect` (every step of the storage is a
step of the lists or a stutter), assuming `ListsKept`; these are the callers' rules of `Discipline`, the
second all five, the first all but `range`: an element moved to itself is still an object, but no
longer the list's element. `LifetimesExact` alone
is not inductive: it says which cells are objects, not what the next operation finds
in them. The invariant `BufferInv` says of each buffer that it is `Stripped` (no storage, no
elements) or `Holding` its list: the list's elements from the first cell on and raw cells behind them; that no
storage belongs to two buffers; and that one in use belongs to somebody. A call touches its
own buffer's storage only, and so the proof has one lemma per operation that says which list the buffer
is left with (`Settles`) and one that settles all others (`SettledKeeps`). That there is a storage to
allocate is a pigeonhole (`StorageLeft`). The powers of two of the policies are a recursive
function; the little that is needed of them (they exist, they grow, one is large enough) is proved
by a least counterexample (`LeastNumber`, from the library's `WFMin`), since an induction is out of reach.
The refinement then maps a buffer to `ListOf`, the objects it holds.

Only model-checked: liveness (outside the prover's reach), and `JsonExact` and `PduExact` of `Serialization`.
A document is nested to any depth and a PDU is read list by list, where the length of one may be misread from
the bytes of another: what `JsonWriter` (whose operators are recursive, as `apply` is) and `DisPdu` compute for
every input would need an induction over data. They are checked for all inputs within the bounds above.

## 6. Not modelled

Listed per component in `PROJECT.json`.

- Numeric code (`dsp`, `em`, `geo`, `linalg`): floating-point arithmetic. Thread priority and pinning:
  system calls without effect on results. `String`, `Types` and other value types: no protocol.
- Queue: the wrap-around of the indices at 2^64 (where `>=` at SPSCQueue.cpp:113 would answer Empty
  wrongly), its move operations. `SPSCMessageQueue` rounds the size it reads by (9): where
  messages fill a cache line exactly this is the size it writes.
- Pool: `hardware_concurrency()` of 0, with which nothing ever runs.
- ECS: views' zipped references and const variants; TLC runs one layer in a behaviour and sets
  with room for all entities (the theorems have neither bound). The order in which a view stops
  at its places is that of the places.
- Radio: gain, sample rate, time stamps and error codes of blocks (an error of one
  `recv` is overwritten by the next), the search for a device.
- MQTT: URIs, credentials, TLS; errors the library reports for a call it accepted.
- `Buffer`: the constructors that convert between policies, which cannot be instantiated,
  policies of a caller's own, and `BufferGuard`.
- Compressors: `ZLIBCompressor::init`, out of reach through `ICompressor`; errors of the
  libraries a correct caller cannot cause.
- JSON: how numbers are formatted (a value's characters are given); bytes above 127, which are
  escaped one by one.
- DIS: the other PDUs; the forms of `Deserializer.hpp` other than the one a PDU uses; lists of more than two
  elements (an 8-bit length is `% 256` in the model, and never reached); the host's byte order in fields that
  are copied as they are.
- Sockets: the addresses `recv` reports (octets and port in reverse order, NetTypes.cpp:27), the content of
  `TCPEndpoint::send` and `recv`, which no connected endpoint ever reaches.
