# TLA+ models of the RIO Connection Server

The server passes messages between clients and servers over Windows Registered
I/O (RIO). It is one process: `_tmain` reads `config.txt`, sets up one buffer
pool, one I/O completion port and one RIO completion queue, creates the
configured services, starts `NUM_THREADS` threads that all run `MainProcess`, and
waits for console keys. This directory holds a model of what those threads do,
the TLC runs that check it on small instances, and TLAPS proofs of what holds for
every instance. File names below are those of `src/RIOConnectionServer/`.

## 1. Inventory

| part | state | operations | talks to |
|---|---|---|---|
| Buffer pool (`BufferManager.cpp`) | `bufferPool`, FIFO `freeBufferIndex`, spin lock `isQueueInUse`; per buffer `socketContext`, `operationType`, `srcType` | `Initialize`, `GetBuffer`, `FreeBuffer` | called by every thread |
| Worker loop (`MainProcess`, with `GetCompletedResults`, `GetInstructions`, `ProcessInstruction`) | per thread `results`, `rioResults`; shared completion port and RIO queue | RIONotify, wait, dequeue, process, accept, quit | pool, services, Windows |
| Service entries (`RIOManager.cpp`, `ConnectionServerService`) | `socketList` (hash from socket handle to `RQ_Handler`), `socketListCriticalSection`, a section per entry, `roundRobinLocation`, `criticalSectionDump` | `AddEntryToService`, `CloseServiceEntry`, `PostReceiveOnTCPService`, SEND, the test of a result | pool, sockets |
| Datagram services | `udpRQ` and its section | `PostReceiveOnUDPService`, initial receives | pool |
| Accepting (`CreateRIOSocket`, `FillAcceptStructures`, `BeginAcceptEx`, `ResetAcceptCall`) | pending AcceptEx calls with their sockets, listening sockets | set-up of a socket, next accept | entries, completion port |
| Routing (`ProcessManager.cpp`) | none that matters (`matchingServerCount` is never used) | `GetInstructions`, `GetManagedInfo` | worker loop |
| Buffer layout (`_tmain` 68-78, `AllocateBufferSpace`) | sizes and offsets | 32-bit arithmetic at start-up | pool |
| Configuration (`ConfigurationManager.cpp`) | list of services | `LoadConfiguration` | start-up |
| Start-up and shutdown (`InitializeRIO`, `CreateIOCP`, `CreateCQ`, `Shutdown`, ...) | handles | run alone, before and after the threads | everything |
| Console and statistics | none | keys post packets, printing | completion port |

What is hard here is in the first three rows. Threads share everything and no
thread owns a connection: two threads can hold two completions of the same
connection, and a third can be adding a connection that got its socket handle. The
locks are of five kinds (the pool's spin lock, the list of services' SRW lock, a
section per socket list, per entry and per completion queue), several are entered
in copies, and pointers into the list are used after its section is left. Wakeups
depend on RIONotify being called at the right places. Receives and accepts are
chains: each one is posted when the last has completed, so that any path that
forgets to post the next one loses it for good. Requests fail late, after their
connection was closed and its handle given to another. Nothing is persisted, and
no message is sent again, so there is no recovery and no retry to model.

What makes each part correct:

- pool: a segment is free or in the hands of one caller, never both, never lost; it
  is handed out clean; calls return; callers cannot tell it from an indivisible FIFO.
- worker loop: no completion is left without a wakeup; packets do not pile up;
  each buffer has one owner on its way round; each receive is outstanding, about to
  be posted again, or lost by a known cause; one quit key ends all threads.
- entries: the list follows the sockets, a socket is closed once, no buffer is lost
  on any of the paths on which a message can fail, sends and closes come to an end,
  the list is changed by one thread at a time, an entry outlives its use, and what
  is done for a connection is done to that connection.
- accepting: a slot is never lost, a socket that was accepted is listed or closed.
- layout: every offset lies in the memory allocated, whatever the configuration (the
  code achieves that below 2^32 bytes).
- start-up and shutdown: services are created as written, a running server has all it
  was configured for, and what is given back rests on nothing that is still open.
- the whole: a message is passed on once at most, to somebody who is there, and neither
  messages nor what a closed connection leaves behind stay in the server for good.

`PROJECT.json` lists the places where one of these could go wrong under `hazards`,
each with the properties that would show it.

## 2. Plan

1. `BufferPool`, `BufferManager`, proofs: done.
2. `WorkerLoop`, proofs: done.
3. `ServiceEntries`, proofs: done.
4. `AcceptPipeline`, proofs: done.
5. `BufferLayout`, `ConfigLoader`, `LifeCycle`, proofs: the main thread; done.
6. `MessageRelay`, `ConnectionServer`, proofs: the parts together; done.

Every safety property the runs check, and both refinements, are proved; what the runs
check of liveness stays with them (§5). What could still be added, in this order:
an action property for the order in which a connection's entry is listed, closed and
forgotten; the finer steps of `ServiceEntries` shown to implement those of
`ConnectionServer` on one service; the address fields of a message in `Instruction
routing`, if the code comes to test them.

## 3. Modules

| module | what it is |
|---|---|
| `BufferPool` | abstract pool: each call is a request, one indivisible effect, a return |
| `BufferManager` | `GetBuffer` and `FreeBuffer`, one action per access to shared memory |
| `MCBufferManager` | instance; the refinement and the liveness properties allow no symmetry |
| `DataFacts` | lemmas about queues, counts of list elements, images and sums over finite sets |
| `BufferManagerProofs` | theorems about `BufferManager` |
| `WorkerLoop` | the threads, the completion port and the RIO queue, datagram traffic |
| `MCWorkerLoop` | instances; threads and buffers symmetric where only invariants are checked |
| `WorkerLoopProofs` | theorems about `WorkerLoop` |
| `ServiceEntries` | the connections of one TCP service, section by section |
| `MCServiceEntries` | instance; threads and buffers symmetric |
| `ServiceEntriesProofs` | theorems about `ServiceEntries` |
| `AcceptPipeline` | creation of the services, accept slots, room in the completion queue |
| `MCAcceptPipeline` | instance with three configurations |
| `AcceptPipelineProofs` | theorems about `AcceptPipeline` |
| `BufferLayout` | the sizes computed at start-up and the segments cut from them, in DWORDs |
| `BufferLayoutProofs` | when the segments lie in the memory |
| `ConfigLoader` | `LoadConfiguration`, a step per line |
| `LifeCycle` | the main thread from the configuration to the destructors |
| `LifeCycleProofs` | theorems about `LifeCycle` |
| `MCLifeCycle` | instance: the files tried |
| `MessageRelay` | abstract server: a message goes to at most one peer, which is connected |
| `ConnectionServer` | workers, queue, connections, accepting and pool in one |
| `MCConnectionServer` | instance |
| `ConnectionServerProofs` | theorems about `ConnectionServer`, and that it implements `MessageRelay` |

**BufferManager.** `isQueueInUse` and `freeBufferIndex` are the code's. `pc` is the
place of each thread in `GetBuffer` or `FreeBuffer`; the compare-and-exchange, the
reading of the size, of the front, the pop, the push and each store of the lock
are steps of their own, so every interleaving of them is explored. `out` is the set of
buffers callers have, which is not in the code: the callers are left open, except
that they free what they have. `Stamp` is a caller writing `socketContext` of a
buffer it has, as `PostReceiveOnTCPService` does.

**WorkerLoop.** `pc` follows `MainProcess`: notify, gqcs, then dequeue, dequeuing,
sorting, process for CK_RIO, accept, or quit. The vector `results` outlives an iteration, as
in the code, so that an empty dequeue, which returns before `results.clear()`,
leaves old results to be gone through again. A dequeue is two steps, copying out
and moving the head, since the critical section it enters is a copy and excludes
nobody; then `Sort` takes the completions of the batch one by one, as the loop of
`GetCompletedResults` does, and each becomes a result or a segment given back.
`Owners(b)` counts the places where a buffer is, over the queues and what each worker
holds (`Held`); the set of threads is finite, or the sum would have no value. The pool is one step per call, which the refinement of `BufferPool`
justifies. Traffic is that of the datagram service: receives of a source, sends on
one destination queue, each with its limit of outstanding requests. RIOReceive and
RIOSend are refused when their queue is full, or for reasons of Windows' own
(`Refused`), which count against the bound of failures. A worker that accepts a
connection may get stuck in a copied section (`Accept`; `ServiceEntries` says when), and
then comes back no more. The variables
`lost`, `used` and `faults` are history: receives lost by cause, how much of the bounded
environment has happened, and how many dequeues were harmful. Windows is modelled
from the calls: RIONotify registers one notification, which fires at once if the
queue is not empty; the port is FIFO; a request counts against its queue until its
completion is dequeued.

**ServiceEntries.** One service, source and destination of its messages.
Connections are numbered; `handle` gives the socket handle each has or had, and a
handle is given out again once its socket is closed, as Windows does. Calls are cut
at each entering and leaving of a section and at each use of shared state. A copy of
a section that a thread was inside of is marked `held` in the copier's `job` and is
never entered. Insert and erase take two steps, and a thread that is in the list
between them is a race (`ListRace`). Where the code's behaviour becomes undefined,
by a race or a dangling address, `Sound` is false and the model stops: what
follows is not described, and the passing runs speak of the behaviours up to there.
The copying of an erased section to the dump (`CloseDump`) is the exception: what it
copies is not used before shutdown, so the model goes on. Initial receives are
posted with RIO_MSG_DEFER and committed together; here each can complete as soon as
it is posted, which only adds behaviours. The address in a message is arbitrary and
chosen when it is read. The list of services never changes after start-up, so its
lock is left out.

**AcceptPipeline.** `services` is the configuration read; `main` creates them one by
one and any error ends the process, as in `_tmain`. A slot is an
`ExtendedOverlapped`: it is `posted`, in the `port`, in the `job` of a worker, or
`lost`. A worker takes a packet, makes the request queue or fails, adds the entry or
gets stuck in a copied section, posts the initial receives of the entry, in which it can
get stuck too (`stuckListed`), and posts the slot again with a new socket or loses it. Closing an entry is two steps, since between `closesocket` and `erase` the handle
can be given out again, to a slot among others. Any call of Windows may fail at any
time. `orphans` is history: the sockets each early return leaves open. Sizes are
unbounded integers here; their width is the subject of `BufferLayout`.

**BufferLayout, ConfigLoader, LifeCycle.** `BufferLayout` has no state: its operators are
the computations of `_tmain` (68-77), `AllocateBufferSpace`, the offsets of
`Initialize` and the division of `FreeBuffer`, with every DWORD taken modulo `Word`.
A number of the file is an `int`, half of which are negative; as the size of a request
queue it is a ULONG (`QueueRoom`), so that a negative one is too large for any queue.
A line of the file is, in `ConfigLoader`, its key and the number `atoi` makes of its
value, with marks for a line without `=` (whose value is its own text, and converts
to 0) and one that ends after `=` (at which `substr` throws). A field no line sets is
`Unset`, and `LifeCycle` puts any of `Garbage` there when `_tmain` goes on, since neither
`RIOMainConfig` nor `ServiceData` initialises its members. `main` in `LifeCycle` is the
place in `_tmain`; any call of Windows can fail there, and each error that is looked at
ends at `exited`. The two that are not looked at, a `NULL` port and a refused
registration of the memory, go on. The workers are two actions, which add entries and
close them, as far as shutdown has to undo them.

**ConnectionServer.** The actions are the calls of `WorkerLoop`, `ServiceEntries` and
`AcceptPipeline` made whole, on one completion port, one RIO queue and one TCP service.
`results` is the code's vector less what has been processed; `old` remembers that the
vector is not empty. A completion carries the connection it is of, and what the code
looks up is the handle in its buffer (`Key`), which may be another connection's by
then. A worker that would copy the section of the list while another is inside is
`stuck` from there on, with its results and, in PostReceive, with the segment it has
just got. RIOReceive may be refused, by a full queue or without a reason; `lost` counts
per connection the receives that found no segment or were refused. `sent` and `received` are history, and with `open` they are the state of
`MessageRelay`. `harmed` ends a behaviour where `WorkerLoop`'s finding begins. The Escape
key is left out: what it starts is in `WorkerLoop` and `LifeCycle`.

Relations: `BufferManager` implements `BufferPool` (checked and proved), and both
`WorkerLoop` and `ServiceEntries` use the pool as `BufferPool` describes it.
`WorkerLoop` abstracts from entries (a SEND is posted or refused), `ServiceEntries`
from how threads are woken (a thread takes one completion at a time).
`AcceptPipeline` has the same entries with their list changed in one step, and
what `WorkerLoop` leaves open about accepts. `LifeCycle` extends `ConfigLoader` and
`BufferLayout`; its `freeBufferIndex` is the pool `BufferManager` starts from.
`ConnectionServer` implements `MessageRelay` (checked and proved).

## 4. Runs

| run | instance | what it shows |
|---|---|---|
| `buffer_pool` | 3 threads, 3 segments | `PoolPartition`, `FreeBuffersClean`, the refinement `ImplementsPool`, `LockReleased` and `SomeCallReturns` under all interleavings. Three threads, so that one can wait while two are in the lock's neighbourhood and the pool runs dry |
| `worker_loop` | 2 threads, 3 receives, 1 send, 4 segments, which is what the code counts for them; one of: an accept, a key, a request that fails or is refused | `NotificationPending`, `NotificationsBounded`, `Ownership`, `ReceiveCredit`, `DropsBounded`, `QuitToken`. With three receives the pool can run dry as often as the bound of `DropsBounded` allows: two receives are lost with two workers, and a third never |
| `worker_loop_progress` | 2 threads, one receive and one send; one accept that succeeds and one that fails | `CompletionsServed`, `QuitReachesAll` |
| `service_entries` | 2 threads, 3 connections, 2 handles, 3 buffers, 2 messages, 1 error, address required or not | `BuffersConserved`, `ListMatchesSockets`, `ClosedOnce`, `StuckHoldsNothing`; three connections on two handles force a handle to be used again, 1 error is enough to close a connection and its other requests then fail unbounded |
| `service_entries_progress` | 2 connections, finite traffic | `SendsAndClosesReturn` |
| `accept_pipeline` | 2 threads, 4 sockets, three configurations | `AcceptsConserved`, `SocketsOwned`, `RoomForClients`, `AcceptsServed`; four sockets are the least with which one listener takes the room of another |
| `connection_server` | 2 workers, 2 handles, 3 segments, 2 receives per connection, batches of 2, one error on an open socket; connections and messages: 2 and 1, or 1 and 2 | `ImplementsRelay`, `SegmentsAccounted`, `ReceivesKept`, `SentInOrder`, `MessagesSettled`, `ClosedConnectionsDrain`. Two connections, one closed, with a message in between make late results meet a handle given out again; two messages of one connection are what can be overtaken; with three segments the pool runs dry and a worker can still get stuck with one |
| `start_up` | 4681 files of at most four lines of eight kinds, 540 whole configurations, 4-bit DWORDs, 2 connections | `ServicesAsWritten`, `SegmentsFit`, `RunningComplete`, `InitialReceivesPosted`, `ShutdownInOrder`. In four bits the products wrap for sizes and counts of one digit, to zero and to other values; a negative number of receives, which is a large ULONG to RIO, is refused |

The runs that are expected to fail, each a finding in `PROJECT.json`:

| run | disagreement |
|---|---|
| `worker_stale_results` | a free segment is one RIO is still sending |
| `worker_no_buffer` | the "number of buffers required to handle all services" is not enough: 1 worker, 1 receive, 1 send, 2 segments; the message that has been dequeued has the segment its receive would need |
| `service_list_race` | the "critical section for modifying the socket list hash" is entered in copies |
| `service_source_closed` | a failed send closes the sender's connection |

Other places where the code does not do what it seems meant to do came up while
modelling. They are in the models, and no run is spent on them:

- `GetCompletedResults` enters a copy of the completion queue's section
  (RIOManager.cpp:471), so that two threads dequeue at once; `faults.overlap` counts it.
- The "buffers required to handle all services" (RIOConnectionServer.cpp:67) are
  none for a datagram service whose SERVICE_MAX_CLIENTS is 0, as in `config.txt`,
  though it takes room in the completion queue and segments like a client. The
  configuration with two services of `MCAcceptPipeline` that has this shape refuses
  its second client; `RoomForClients` counts such a service as over its number.
- GetQueuedCompletionStatus returns FALSE for the packet of a failed AcceptEx too, and
  the worker that takes it prints "Could not call GQCS" and leaves its loop
  (RIOConnectionServer.cpp:241-245): a client that goes away before it is accepted ends
  a worker for good and loses the accept. `GetQueuedCompletionStatus` in `WorkerLoop`
  and `TakePacket` in `AcceptPipeline` do the same; `CompletionsServed` and
  `QuitReachesAll` hold as long as a worker is left.
- SERVICE_MAX_CLIENTS limits nothing: `maxClients` is stored and never read.
- SEND uses the address of an entry after the section that protected it is left
  (714), and `CloseServiceEntry` copies the section of an entry already erased (1525).
- Results of a closed connection pass the test of GetCompletedResults (543) once its
  handle has been given to another connection.
- The round-robin location is set in a copy of the service (1142): it stays 0.
- A configuration line `KEY =` with nothing after it throws out of `substr`
  (ConfigurationManager.cpp:77) two lines before the test for an empty value.
- `_tmain` compares what CreateIOCP returns with INVALID_HANDLE_VALUE
  (RIOConnectionServer.cpp:92), CreateIOCP returns NULL. That no server runs without a
  port (`RunningComplete`) is owed to `GetMainIOCP`, which then gives CreateCQ a handle
  Windows refuses.
- Nobody looks at what RIORegisterBuffer returns (BufferManager.cpp:37). A server whose
  memory was refused comes up, and all its receives fail.
- The list of services is never empty (ConfigurationManager.cpp:166), and the test for
  that (RIOConnectionServer.cpp:61) never true; a file without NEW_SERVICE makes one
  service of memory as it was found.
- The corrections in AllocateBufferSpace (129-135) are never made: rounding down does not
  raise a size, and a DWORD is not above UINT_MAX. So the size wraps in silence, and
  the last segment lies outside the memory (`SegmentsFit`, `LayoutFits`).
- Shutdown "closes all resources" (RIOManager.cpp:1008) but not `socketRIO`, nor the
  sockets of accepts still pending, nor Winsock.
- A stuck worker costs more than itself: it may hold the only CK_RIO packet, so that
  no other worker calls RIONotify until something else wakes one; and the join at the
  end waits for it. `MessagesSettled` and `ClosedConnectionsDrain` except it.
- A message can be passed on before an earlier one of its client, if another worker
  has that one (`SentInOrder` says that this is the only way).
- A connection that is accepted while another of the service is being closed costs
  its worker for good, if it copies the section of the list in between.

Bounds. In `WorkerLoop`, `ServiceEntries` and `ConnectionServer` every unbounded thing outside (accepts,
messages, errors, console keys) is counted against `Bound`;
`AcceptPipeline` needs no such bound, its state is finite with its sockets; the counters inside the models are bounded by
the code itself. Two threads suffice for a race, for a stale pointer and for a
quit that must travel; the pool, where a third waiter matters, is run with three.
Deadlock is checked in the pool and, while no worker is stuck, in the worker loop. In `ServiceEntries`,
`AcceptPipeline` and `ConnectionServer` clients may stop, and a thread may be stuck, so it
is switched off there and `SendsAndClosesReturn`, `AcceptsServed`, `MessagesSettled` and
`ClosedConnectionsDrain` take its place. In `LifeCycle` the main thread really ends.

Fairness. Threads are scheduled by the system again and again: weak fairness of each
thread. Clients, the network and the console are not fair; in `ConnectionServer`
Windows is, in that the requests of a closed socket do end. The spin lock is not
fair either: under weak fairness one of two spinning threads may lose every time,
so the pool only promises that some call returns. Critical sections are not FIFO;
`SendsAndClosesReturn` is therefore checked with finite traffic, where a thread that
waits is the only one left in the end.

Each property has a mutant, a plausible bug in a definition it speaks of
(a lock not given back, a missing free, a RIONotify outside the loop, a quit not
posted again, an unlocked lookup), under which the same run fails.

## 5. Proofs

All proofs hold for any number of threads, buffers and connections, under the
`ASSUME`s of the modules. Where a property counts, what is counted is assumed finite:
threads, sockets, buffers.

`DataFacts` holds the lemmas several of them need. `CountIn(s, K)` is how many elements
of a list are in `K`; the lemmas say what `Append`, `Tail` and a cut do to it. A sum
over a finite set is `SumFunction`, which the library defines by recursion over
subsets. What is proved of sums (`SumType`, `SumOut`, `SumAtMost`, from which the other
forms follow) is proved by a smallest counterexample, a subset of which no proper
subset is one: `SmallestSet` finds it, and takes the place of an induction.

`BufferManagerProofs`:
- `TypeCorrect`, `Partitioned`, `HandsOutClean`: `Spec => []` of `TypeOK`,
  `PoolPartition` and `FreeBuffersClean`. The invariant is
  `IInv = TypeOK /\ LockDiscipline /\ PoolPartition /\ FreeBuffersClean`. None of the
  three is inductive alone: that a pop finds the element seen at the front needs
  `LockDiscipline` (the lock is taken exactly when one thread is between its
  compare-and-exchange and its store, and what that thread read is still so), and
  that a push adds no second copy needs `PoolPartition`.
- `Refinement`: `Spec => Pool!PoolSpec`. The effect of a get is its pop, or the
  answer that there is none; that of a free is its push.

`WorkerLoopProofs`:
- `NoLostWakeup`: `Spec => []NotificationPending`, from `NotificationInv`, which says
  that a registered notification stands over an empty queue, and that it is
  registered unless a packet or a thread is on its way to ask. That second part is
  what is inductive: `NotificationPending` alone says nothing of an empty queue, where the
  next completion must find the notification registered.
- `OneQuitToken`: `Spec => []QuitToken`, from `QuitInv`, which says where the token is
  (at one place of the port and with no worker, or with one worker and not in the
  port) instead of counting: the step that takes a packet moves the places of all
  others (`TailPlaces` in `DataFacts`), and the count follows at the end.
- `NotificationsStayBounded`: `Spec => []NotificationsBounded`. `BoundInv` counts the
  packets of accepts and console keys with those of RIO: a worker that takes one of
  them will call RIONotify too, so that without them the bound is not inductive.
- `TypeCorrect`: `Spec => []TypeOK`, from `StateInv`. `BaseInv` is the shape, and per
  worker what its place implies. That no allowance is overdrawn needs more than the
  shape: `RequestInv` says that what is outstanding is what RIO works on and what is in
  the queue, so that a dequeue cannot take it below zero, and `AcceptInv` counts the
  accepts with their packets and the workers that follow one up.
- `OwnersKeepBuffers`: `Spec => []Ownership`. `OwnInv` adds that one worker at most is in
  a dequeue and that what it has copied out is still at the head of the queue:
  `Owners(b) = 1` alone would let the second step of a dequeue remove other entries than
  those that were copied. Each step moves a buffer from one term of the sum to another.
- `ReceivesAccounted`: `Spec => []ReceiveCredit`, for the receives instead of the buffers.
  A completion counts as a receive by what RIO was asked, a result by the
  `operationType` in its segment, so the proof needs that the two agree (`KnownInv`).
  They could only differ if a worker wrote the field of a segment that is on its way
  elsewhere, and by `OwnersKeepBuffers` it is not (`Nowhere`).
- `DropsStayBounded`: `Spec => []DropsBounded`, for a pool of any size. A receive that
  finds no segment is lost for good, and how many can be lost does not grow with time: as
  soon as one is lost, the receives lost and the segments together are at most the
  receives, the sends and a batch per worker. The step that loses one has
  an empty pool before it, so every segment is with RIO, completed or in the hands of
  a worker (`PlacedInv` says where all segments are, and that no worker holds more
  than a dequeue gave it), and by `ReceiveCredit` the one to be lost is missing from its
  queue. In a pool of the size start-up asks for, at most a batch per worker is lost; with
  a batch per worker more, none, and with less, `worker_no_buffer` shows the first.

`ServiceEntriesProofs`:
- `TypeCorrect`, `StuckThreadsHoldNothing`: `Spec => []` of `TypeOK` and
  `StuckHoldsNothing`, from `TypeInv`: the shape, what the `job` of a thread holds at
  each place (`Jobs`), and that a section is held by a thread exactly while its place is
  inside it (`Sections`). A copy is `held` only by another than the copier, which is
  what keeps a stuck thread out of the sections others wait for.
- `ListCorrect`, `SocketsClosedOnce`: `ListMatchesSockets` and `ClosedOnce`, from `ListInv`.
  It ties a thread that adds to a connection that is open and not listed, with its
  handle, one that closes to an entry that is listed and, until `closesocket`,
  open, and says that neither open nor listed connections share a handle. Both
  halves are needed: a handle is free to be given out when its socket is
  closed, before its entry is erased.
- `BuffersKept`: `BuffersConserved`, from `OwnersInv`, which names the owners (free, on a
  request, completed, in a thread's `msg` or `buf`) and says that no two of them apply.

`AcceptPipelineProofs`:
- `TypeCorrect`, `AcceptsKept`, `SocketsKept`: `TypeOK`, `AcceptsConserved` and
  `SocketsOwned`. `SlotInv` gives every slot one place and each place one slot;
  `SocketInv` gives every open socket one of slot, worker, entry and orphan, and
  these one socket each. A close is two steps, and in between the
  entry (`Erasing`) does not count as an owner, for its handle may have another.
- `RoomSuffices`: `RoomForClients`. By `QueueInv` a request queue belongs to an entry or to
  a worker that is making one, so a service has at most as many as it has
  connections (`QueuesOfClients`), and if none has more than configured, with the new
  one, their rooms add up to what was asked for (`RoomWhileCounted`).

`ConnectionServerProofs`:
- `TypeCorrect`: `TypeOK`. `TypeInv` is the shape with what each worker's place implies;
  that no allowance is overdrawn takes `QueuesKept`, `AcceptsInv` and the pool's
  `free >= 0`.
- `SegmentsKept`: `SegmentsAccounted`, inductive with the finiteness of the sends.
- `ReceivesStayPosted`: `ReceivesKept`, connection by connection (`KeptFor`). `ListInv`, which
  says what the handles of listed connections and of those about to be listed have to
  do with each other, shows that a completion whose handle is found is owed to no
  other connection than that which gets the next receive.
- `MessagesSentInOrder`: `SentInOrder`, from `OrderInv`: the messages of the queue and of
  each worker are in order, no two workers have one message, a message in the queue
  comes after all that are out of it.
- `ServerIsRelay`: `Spec => ImplementsRelay`. A step that passes a message on maps to the
  relay's, since by `OrderInv` a message in a worker's hand has not been sent and its
  destination is taken from the list; every other step changes nothing the relay
  sees, or is a connect, a disconnect or an arrival of its own.

`BufferLayoutProofs`, over the pure operators of `BufferLayout`:
- `LayoutFits`: for every width of a DWORD, every allocation granularity and every
  size and count with memory to lay out, all segments lie in the memory and find
  their own index exactly when the 32-bit product did not wrap, and then there are
  as many as asked for. The last segment
  decides (`LastSound`): an offset that leads back to its index is at least the index
  times the size, so if the last segment fits, the memory holds all of them without
  overlap, and a wrapped product is too small for that.

`LifeCycleProofs`, for any files and any number of connections:
- `MemoryLaidOut`: `Spec => []SegmentsFit`. `LayoutFits` is about numbers; `ConfigInv`
  carries what makes the configuration ones: the loader leaves a field unset or stores
  what `atoi` gave (`LoadInv`), every unset field holds garbage that is some number when
  it is used, and a start-up that goes on has asked for memory that is not of size 0.
  The number of segments is a sum over the services, which is an integer by `SumInt`.
- `ServicesLoaded`: `Spec => []ServicesAsWritten`. The property speaks of a file that has
  been read; `ReadInv` says the same of the lines read so far: each service of the list
  is what its own section says, and the one being read is what its section says when
  it is cut at the line reached. A NEW_SERVICE closes that section (`NewServiceRead`),
  any other line adds to it (`LineRead`).
- `RunsComplete`, `TypeCorrect`: `RunningComplete` and `TypeOK`, from `SetupInv`, which
  says what each place of `_tmain` has behind it, and `CodesInv`, by which there are as
  many codes as services created: the test for a code already in use makes each new
  one add to the set.
- `ReceivesPostedAtStart`: `Spec => []InitialReceivesPosted`, from `PostInv`. A segment is
  free or posted, and the room that was found in the completion queue for the
  datagram services (`TakenSum`) is at most the pool. So while a service still wants
  receives, those posted are fewer than the segments, one is free, and it lies in the
  memory by `LayoutFits`. A negative number of receives does not get that far:
  `SmallIsNatural` shows that a ULONG with room in the queue is the number written.
  Three things meet here that the code keeps in different files, the size of the
  queue, the size of the pool and the size of the memory.
- `ShutdownOrdered`: `Spec => []ShutdownInOrder`, from `ShutdownInv`, three conjuncts
  for three questions. `OrderInv` says at which place of `Shutdown` each thing is
  closed, in both directions for the completion queue; `DumpInv`, that every
  connection that is no longer listed stands in the dump at exactly one place;
  `DeletedInv`, exactly which sections have been deleted at each place. Without
  `DumpInv` the step over the dump could delete a section that closing the sockets has
  deleted, or one twice. The step of the dump turns positions into a count
  (`DumpedOnce`).

What the main thread's theorems assume of the constants: `FilesAssumption` and
`NumbersAssumption` (the numbers of a file are what `atoi` returns, an `int`),
`GarbageAssumption` (so is what uninitialised memory holds in an `int` field), and
`MaxSizeAssumption`: RIO_MAX_CQ_SIZE, 0x8000000, is below half of 2^32.

Only model-checked are the liveness properties, since fairness and ENABLED are out of
reach of the prover: `LockReleased`, `SomeCallReturns`, `CompletionsServed`,
`QuitReachesAll`, `SendsAndClosesReturn`, `AcceptsServed`, `MessagesSettled` and
`ClosedConnectionsDrain`. The four findings are violations, which need no proof.

## 6. Not modelled

- What is printed, and the counters that are printed.
- `NewConnection`, `ConfigureNewSocket`, `SetServiceCQs`: no caller.
- What a `DEQUEUE_COUNT` above the 1000 results a worker has room for does
  (RIOConnectionServer.cpp:218): nothing compares the two.
- Shutdown with a worker that is stuck: the join does not return. `WorkerLoop` stays in
  it, and `QuitReachesAll` excepts the case; the workers of `LifeCycle` do not get stuck.
- The requests of a service that carry none of the traffic of `WorkerLoop`: sends of the
  source and receives of the destination, with the segments counted for them.
- Bytes that are not a number, and numbers beyond an `int`, in the configuration.
- The bytes of messages: only where they go and whether they have an owner.
- Windows, beyond what the calls show; see the comments marked external.
