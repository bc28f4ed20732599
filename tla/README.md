# zrsocket: TLA+ models, model checking and proofs

zrsocket is a C++ network library: event loops over epoll or select, connection
handlers with queued sending, TCP clients and servers, UDP, staged (SEDA)
threads with event queues and timers, lock-free ring queues, message decoders,
HTTP and asynchronous logging. This directory holds TLA+ modules translated
from its source, TLC configurations that check them on small instances, and
TLAPS proofs of what matters most.

`PROJECT.json` lists the components, the runs with their properties, a mutant
for each property (a plausible slip in one action that the property must
catch), the source lines each definition stands for, the hazards, the
disagreements found, and the theorems. Paths below are relative to the
repository; `inc/` abbreviates `src/include/zrsocket/` (the headers, which hold
most of the code) and `lib/` abbreviates `src/src/`.

## 1. Inventory

| Component | Code | State | Operations |
|---|---|---|---|
| SPSC rings | `inc/lockfree_queue.h`, `inc/event_type_queue.h` | slots, `read_index_`, `write_index_` | `push`, `pop(handler)` |
| MPMC, MPSC, SPMC rings | same files | the same, `max_read_index_`, `min_write_index_` | `push`, `pop(handler)` |
| Double-buffer queue | `inc/event_type_queue.h` (`DoubleBufferEventTypeQueue`), `inc/lockfree.h` | two rings, active and standby pointer, mutex | `push`, `pop(handler)`, `swap_buffer` |
| Stage thread | `inc/seda_stage.h`, `inc/seda_stage_thread.h` | its queue, `timedwait_flag_`, condition variable, timer queue | `push_event`, `stop`, `join`, `thread_proc` |
| Stage 2 | `inc/seda_stage2.h`, `inc/seda_stage2_thread.h` | shared queues, one local queue per thread | `push_event`, batched transfer, `stop` |
| Stage timers | `inc/seda_timer_queue.h`, `lib/seda_timer_queue.cpp` | a pool, a free and an active intrusive list | `set`, `cancel`, `update`, `expire` |
| Event loop: queue and wake-up | `inc/event_loop.h`, `inc/event_loop_queue.h`, `inc/epoll_event_loop.h`, `inc/notify_handler.h` | queue, `wakeup_flag_`, eventfd | `loop`, `push_event`, `loop_wakeup`, stop |
| Loop timers | `inc/timer.h`, `inc/timer_queue.h` | a list per interval, timers taken out, mutex | `add_timer`, `delete_timer`, `loop` |
| Select loop | `inc/select_event_loop.h` | descriptor sets, `handlers_`, two tables of operations | add / delete / remove handler, add / set event, `loop` |
| Server connections | `inc/tcpserver.h`, `inc/tcpserver_handler.h`, `inc/object_pool.h`, `inc/epoll_event_loop.h` | the pool, the handlers, epoll's table, the batch | accept, `add_handler`, `delete_handler`, `free_handler` |
| Client connection | `inc/tcpclient.h` | `source_state_`, its handler, the socket | `open`, `close`, `connect`, reconnect |
| Message sending | `inc/message_handler.h` | active and standby send queue, mutex, `event_mask_` | `send`, `handle_write` |
| Message decoders | `inc/fixed_length_message_handler.h`, `inc/length_field_message_handler.h` | the partial message | `decode` |
| HTTP | `inc/http_common.h`, `inc/http_request_handler.h`, `inc/http_response_handler.h` | decoder state, partial fields, the response | `decode`, `encode`, `send` |
| UDP | `inc/udpsource.h`, `inc/udpsource_handler.h` | one socket, send queues, receive threads | `open`, `close`, `send`, `handle_write` |
| Logging | `inc/logging.h`, `inc/lockfree.h`, `lib/logging.cpp` | double buffer, worker thread | `push`, worker loop, `close` |
| Buffers | `inc/byte_buffer.h` | a block and two indices; a counted block | write, read, reserve, assign |
| Conversions, memory | `lib/data_convert.cpp`, `lib/memory.cpp` | none | `itoa`, `atoi`, `memcpy`, `memclear` |
| Base | threads, mutexes, atomics, clocks, OS wrappers, start-up | | |

How they interact:

* **Stages.** Any thread calls `push_event`; it pushes to the stage thread's
  queue under the queue's mutex, and notifies the condition variable if
  `timedwait_flag_` says that the stage thread sleeps. The stage thread alone
  pops, runs the handler on the event in place, swaps the buffers when the
  active one is empty, and sleeps with a timeout when both are. Its handlers set,
  cancel and update timers of the same thread, whose expiry is again a call of
  the handler. In a stage 2 the queues belong to the stage, and its threads
  fetch batches from them.
* **Event loop.** Any thread calls `push_event`; it pushes to the loop's queue
  and calls `loop_wakeup`, which exchanges `wakeup_flag_` with false and, if it
  was true, writes the eventfd. `loop()` clears the flag after `epoll_wait`,
  runs the ready handlers, a bounded number of queued events and the due
  timers, and sets the flag again.
* **Connections.** An accepting thread, or a loop, takes a handler from the
  server's pool and registers it with a loop; that loop, or a thread whose
  `send` failed, deletes it, which closes the descriptor and gives the handler
  back. A client owns one handler; deleting it may connect again.
* **Sending.** Any thread calls `send` on a connection's handler; under the
  handler's mutex it writes to the socket or appends to the standby queue, then
  asks the loop for write events. `handle_write`, in the loop thread, swaps the
  queues under the mutex, writes the active one without it, and gives the write
  events up when nothing is left. UDP sends in the same way.
* **Receiving.** The loop calls `handle_read`, which reads what there is into
  the loop's buffer and gives it to `decode`; that keeps what does not make a
  whole message until the next call.

What is hard: state shared by threads with relaxed atomics, plain fields or a
mutex that covers only part of an operation; notifications sent without the
mutex of the condition; a decision taken under a mutex and carried out after it
is released; objects that return to pools while other threads, or the rest of
an epoll batch, hold pointers to them; operations that a later round applies;
descriptors that the kernel gives out again; intrusive lists changed from a
callback of their own traversal; stop protocols that depend on an event being
accepted; and decoders whose state must survive any cut of the stream.
`PROJECT.json` lists these as hazards, each at its line, with the properties
that would catch it or the reason why none does.

What makes each component correct:

* queues: first-in first-out, nothing lost, duplicated or overwritten while a
  handler reads it, bounds kept, whatever the interleaving;
* stages: what `push_event` accepted is handled, also when a wake-up is lost,
  and a thread whose quit event was accepted ends after it;
* timers: lists well linked, each timer in exactly one of them, no due timer left
  behind, none that fires after its cancellation succeeded;
* event loop: a wake-up is never swallowed, accepted events are handled, a
  stopped loop ends; a select loop does not sleep over a ready handler;
* connections: a handler is in one place, works on the descriptor of its own
  connection, and is returned once; a broken connection is closed and no other
  one; a client's state, descriptor and registration agree;
* sending: bytes leave once and in the order of `send`, and queued bytes wait for a
  write event rather than for luck;
* decoders: the messages delivered do not depend on how the bytes were split;
* logging: bytes written once, whole and in order, whatever the appender does;
* buffers: a block lives as long as it is held, and holds what was written.

## 2. Modules and their correspondence to the code

| Module | Models | Extends |
|---|---|---|
| `BoundedFifo` | abstract: a bounded FIFO whose head a handler works on in place | |
| `SpscQueue` | the three SPSC rings with monotone indexes | |
| `DoubleBufferQueue` | the double-buffer queue, parameterised by its producers and consumer | |
| `MultiQueue`, `MCMultiQueue` | the six rings with a shared end, chosen by `kind` in the initial state | |
| `Mailbox` | abstract: what a stage thread promises to those who push and join | |
| `SedaStageThread` | one stage thread with its pushers and its closer | `DoubleBufferQueue` |
| `SedaStage2` | a stage with shared priority queues, its threads and their closing | |
| `SedaTimerList` | the intrusive list as operators on its links | |
| `SedaTimerQueue` | `SedaTimerQueue` and `SedaLRUTimerQueue` | `SedaTimerList` |
| `EventLoop` | `loop()`, `push_event`, `loop_wakeup`, stop and join | `DoubleBufferQueue` |
| `LoopTimers` | `TimerQueue` and the wait of the loop | `SedaTimerList` |
| `SelectEventLoop` | the select loop with its handlers | |
| `TcpServer` | accept, the pool, registration, the batch, deletion | |
| `TcpClient` | connect, reconnect, open and close against the loop | |
| `MessageHandler` | `send`, `handle_write`, `add_event`, `delete_event` | |
| `UdpHandler`, `UdpSource` | sending datagrams; opening, closing and the receive threads | |
| `Decoders` | `decode` of the fixed-length and the length-field handler | |
| `HttpDecoder`, `HttpExchange`, `MCHttpExchange` | the HTTP state machine as operators; a client and a server using it | `ByteBuffer` |
| `LogWorker` | the logger's workers and appenders | |
| `ByteBuffer`, `Buffers` | `ByteBuffer` as operators on its value; both buffers under any calls | |
| `Conversions`, `Memory` | number printing and reading; `memcpy`, `memclear` | |
| `DoubleBufferQueueProofs` | theorems about the double-buffer queue | that module |
| `MCQueuesProofs`, `MCStagesProofs`, `MCLoopsProofs`, `MCEventsProofs`, `MCConnectionsProofs`, `MCSequentialProofs`, `MCDecodersProofs` | theorems about modules of one run | the run's MC module; stages and events also `DoubleBufferQueueProofs` |
| `MCQueues`, `MCStages`, `MCLoops`, `MCEvents`, `MCConnections`, `MCSequential` | model checking, see section 3 | one module, instances of others |

Composition is by `EXTENDS`: the stage thread and the event loop conjoin an
action of the queue (`PushLock`, `PushUnlock`, `PopBegin`, `PopEnd`, `SwapLock`,
`SwapUnlock`) with what the surrounding code does at that moment, so the queue
used by both is the queue that is proved. The loop timers use the list
operators of the stage timers, because `timer.h` repeats that list; the HTTP
exchange computes with the buffers of `ByteBuffer`.

Variables carry the names of the fields without the trailing underscore. What a
thread has reached inside a call is a program counter (`push_pc`, `loop_pc`,
...) whose values name the next access to shared memory. History variables
are marked as such; no guard of the modelled code reads them.

* **SpscQueue.** `PushCheck`, `PushWrite`, `PushPublish` are the test, the store
  to the slot and the store to `write_index_`; `PopCheck` and `PopAdvance`
  enclose the handler. A call that returns 0 changes nothing, so it needs no
  step.
* **MultiQueue.** One action per load, test, compare-and-swap, slot access and
  publication. The model reproduces two details of the code: the unsigned
  comparison `write_index - read_index < capacity` with a stale left side
  (`Room`), and the retry of `compare_exchange_weak`, which replaces the local
  index by the value found (`PushPublish`, `PopPublish`).
* **DoubleBufferQueue.** A buffer is the sequence of its events. `push` is one
  step at each end of the critical section (nothing shared is touched between);
  `swap_buffer` likewise.
* **SedaStageThread.** `PushReturns`, `LoadFlag`, `StoreFlag`, `Notify` are the
  rest of `push_event`; `SetFlag`, `Wait`, `Timeout`, `ClearFlag` the stage
  thread's sleep. The `timedwait_flag_` store and the wait are separate steps
  and `Notify` wakes only a thread that already waits, so lost wake-ups occur
  in the model as they do in the code.
* **SedaStage2.** Every store to a local ring is a step of its own, because the
  closing thread writes to it as well. `excuse` notes why a quit event may not
  arrive (the queue is full, or both write at once), and `lost` which events
  the transfer has dropped: `free_size()` counts the slot a ring keeps free, so
  with priorities the transfer takes one event more than fits.
* **SedaTimerQueue.** One action per call; calls may come between calls of
  `expire()` or from the handler `expire()` runs (`expire_pc = "handler"`).
  The order of the list's assignments is kept in `RemoveFrom`, `InsertAfter`
  and the others, because what they read depends on it.
* **EventLoop.** One action per step of `loop()`; `times` counts the iterations
  of the bounded queue loop, swaps included. `timed` says whether
  `max_timeout_us_` is not negative.
* **LoopTimers.** Times are relative to the present (`left`, and the age `lag`
  of the loop's timestamp), so that time never ends. Timers that `loop()` has
  taken out are in no queue until they are added again: cancelling one of them,
  or a cyclic timer from its own handler, has no effect, and deleting zeroes
  `interval_`, all of which the model shows. What a queue does under its mutex is
  one step, what `Timer` does without it is not: `interval()` tests `timer_queue_`
  (`TestInterval`) and writes later (`SetInterval`), `cancel_timer()` tests it
  (`CancelTimer`) and reads it again (`DeleteTimer`), and `add_timer()` reads the
  clock before it gets the mutex and wakes the loop after it. If the loop adds a
  CYCLE timer again in between, the write changes the `interval_` of a timer that
  is in a list; `delete_timer()` then looks in another list, returns success and
  leaves the timer where it fires, or empties a list of its only timer, which
  stays queued for good. If `cancel_timer()` finds null the second time, it calls
  through it. Both set `raced`: what the code promises ends there, so the
  properties are stated up to that step, and no step after it is looked at.
  `enabled_` is left out: nothing in the repository calls `enabled(false)`.
* **SelectEventLoop.** The descriptor sets change under the mutex at once; the
  table of operations is applied in the next round (`Copy`, `Apply`). `emplace`
  keeps the older of two operations on one handler (`clash`): after that nothing
  is claimed, and the behaviour is not followed further. `add_event` and
  `remove_handler` do not wake the loop (`unseen`).
* **TcpServer.** Descriptors are reused, lowest first, as the kernel does. Each
  step between two mutex operations or system calls is an action, for the
  accepting thread, the loop and another thread that sends. `accepts` chooses
  accept threads, the loop of the connections or another loop. `DeleteClose` and
  `DeleteClear` are the two assignments of `EventHandler::close()`: between them
  `accept()` may get the descriptor's number again while the closed handler
  still has it (`Clearing`). A handler whose `handle_open()` or `add_handler()`
  failed goes back to the pool without `do_close()`, so that a program which keeps
  what `do_open()` was called on (`live`) may send through a pooled handler.
* **TcpClient.** `Goto` moves a thread through `connect()`, `delete_handler()`,
  `close()`; `caller` says who opens and closes. The ends of a connect (at once,
  in progress, refused, no socket) are all there.
* **MessageHandler, UdpHandler.** `send` and `handle_write` split at every lock
  and unlock, `MessageHandler` also at each access to `event_mask_` and the
  epoll registration. How much the socket takes is `\E n`, zero (`EAGAIN`)
  included. `UdpHandler` keeps the unsigned comparison after `sendmmsg()`
  (`EraseAll`) and the misread result of the overload for a range of addresses
  (`range`, `partial`), which may be called for one address too.
* **UdpSource.** A receive thread is an object with a state and a run of
  `recv_proc()` that finds its object by index; the objects of an earlier
  `open()` stay in the group, so that after `close()` and `open()` the new runs
  find the states of joined threads and end: a source that is opened again
  receives nothing through threads.
* **Decoders.** A byte knows its message and position, so that nothing can be
  mixed up unnoticed; `Receive` gives any number of bytes and `Decode` is one turn
  of the loop.
* **HttpDecoder, HttpExchange.** A character is a token (a word, a number, a
  separator); the decoders are operators that take one token at a time, as the
  code's `switch` does. `excuse` notes the three cases in which an exchange goes
  wrong: a header that leaves less than 32 bytes before Content-Length
  (`reserve()` forgets the data), a reply after a big body, and the length in
  an answer to HEAD, for which the client waits.
* **LogWorker.** One action per block written, per swap, and per access to
  `timedwait_flag_` and the condition, of the worker (`RaiseFlag`, `EnterWait`,
  `Wait`, `LowerFlag`) as of the threads that log (`TestFlag`, `ClearFlag`,
  `Notify`): a log pushed after the swap that failed and before the flag is up
  notifies nobody, one pushed before the wait begins notifies too early. A write
  fails, is short or succeeds; the code takes every positive result for the whole.
* **Buffers.** The calls of `ByteBuffer` are operators, used here under any
  sequence of calls; a `SharedBuffer` writes behind `use_size_` of its block,
  which need not be where its own window ends (`astray`).
* **Conversions, Memory.** One step per pair of digits, digit read, block copied
  or case of a switch. `CopyCases` and `ClearCases` are the two switches of
  `memory.cpp` as written, one entry for each of the 512 cases: how many MOD0 it
  has (the tens) and which of MOD1 to MOD7 follows (the last digit); `CopyMods`
  and `ClearMods` are the widths those macros store.

Modelling assumptions, common to all modules:

* sequential consistency. The code uses volatile fields, relaxed atomics or
  mutexes; the rings that use volatile fields have data races by the letter of
  the language, and the models show their behaviour when compiler and
  processor keep the order of the source;
* 64-bit indexes do not wrap within a run, and capacities are powers of two
  (`init` rounds them up), so that `& (capacity - 1)` is a remainder; memory is
  never short;
* in `MessageHandler` the connection stays healthy: `send` and `handle_write`
  never meet an error of the socket. In `TcpServer` and `TcpClient`, which
  follow the errors, what is read and written is left out;
* in `SedaTimerQueue` the clock does not step back, and the program cancels and
  updates only timers it holds. Timers and stage thread are separate modules
  because they share no state but the thread. The stage thread's `check_timers`
  calls `expire()` of its LRU queues; the call for its sorted queue is commented
  out (`inc/seda_stage_thread.h:165`), so there the model shows the queue's own
  behaviour, not the stage's use of it;
* in `LoopTimers` the program keeps its timers alive and enabled; in `Buffers` it does not
  assign a buffer to itself or read one it has handed on;
* a stage is closed once, by one thread, that does not push events itself;
* in `LogWorker` the lock locks: with `kNULL` the asynchronous worker is a data
  race (the console's synchronous worker always has it);
* in `Conversions` the variable `len` of the build that is not for Windows
  (`lib/data_convert.cpp:639`, `670`), which is not declared there, is the
  number of digits.

## 3. Runs

Each passing run finishes its whole state space. Six modules check several
components each: such a module declares a variable `part`, which its initial
state sets and no step changes, and in a behaviour only the component that
`part` names takes steps, while the variables of the others keep a fixed
initial value. So a run is the disjoint union of its components' state spaces;
the components in one run do not restrict each other, and each property is
stated for its own part.

| Run | Components | Shows |
|---|---|---|
| `queues` | `SpscQueue` | `IInv` (the proved invariant), `NoSlotRace`, `ImplementsFifo`; `EveryEventHandled` while the consumer polls |
| | `MultiQueue` | `IndexesAgree`: no index overtakes another, claimed and published ones differ by the calls in progress; `UnclaimedIntact`: with one producer, no unclaimed event is overwritten |
| | `LogWorker` | `BytesInOrder`: appender, active and standby half together are what was accepted, in order; `Logged`: it is written in the end, also if its notification is lost, and `close()` ends |
| `stages` | `SedaStageThread` | `StageInv` (proved; it contains the queue's `QInv`), `Accounted`, `ImplementsFifo` of its queue, `ImplementsMailbox` with liveness |
| | `SedaStage2` | `EventsInOrder`: every event in one place, each priority in order per thread; `Closes` |
| `loops` | `LoopTimers` | `ListsHold`, `CancelledIsSilent`, `Fires` (for a loop with a timeout), each up to a race of an unlocked test of `timer_queue_` |
| | `SelectEventLoop` | `SetsAgree`, `NeverFreed`, `SleepsWhenIdle` |
| `events` | `EventLoop` | `WakeupArmed`, `EveryEventHandled` (with a timeout), `StopEnds` (with and without) |
| | `MessageHandler` | `InOrder` for senders in any thread, `LoopThreadSendsAreWatched` for senders in the loop thread |
| | `UdpHandler` | `Accounted`: datagrams once, per address in order, lost only where the code erases them; `Watched` |
| | `UdpSource` | `ClosedIsQuiet`: nothing open and no receiver after `close()` |
| `connections` | `TcpServer` | `HandlersOwned` (a descriptor is its handler's but while it is being closed), `ClosedForCause` (deletion by the loop only), `FailedIsClosed` |
| | `TcpClient` | `ClientConsistent` (calls in the loop thread), `Reconnects` |
| `sequential` | `HttpExchange` | `Exchanged`: however cut and pipelined, the messages decoded are those sent |
| | `Decoders` | `Delivered`: the messages sent, in order, none held back |
| | `Conversions`, `Memory` | `Converted`, `Moved`: against the numbers and bytes themselves, for `Memory` through every case of both switches |
| | `SedaTimerQueue` | `ListsIntact`, `NoneLate` over every sequence of calls, nested in the handler or not |
| | `Buffers` | `BuffersHold`: reference counts, and the data of each buffer against what was written |
| `multi_queue_publication`, `timer_interval`, `message_stranded`, `connect_success`, `timers_wait`, `reply_bodies` | one each | violations, see section 5 |

`MCQueues`, `MCStages`, `MCLoops`, `MCEvents`, `MCConnections` extend the module of
their first component and `MCSequential` extends `MCHttpExchange`; so TLC also
evaluates the assumptions on the constants, those of the instances by name.

Bounds, each a named constant:

* `Capacity = 2` for every queue: the smallest ring with a first, a last and a
  wrapping slot; full and empty are both reached, and indexes wrap three times
  with `MaxPush = 6` (`SpscQueue`) and once and a half with `MultiPush = 3`
  (`MultiQueue`, where both ends can have all their calls open at once);
* two producers, two consumers: every race in the code is between two threads
  of one end or one of each end. The stage adds a closer, the event loop a
  stopper;
* `MaxCalls = 3` calls of `push_event`, one more than fills a buffer, so that a push
  finds it full, the quit event is refused, or an event lands behind it;
* stage 2: two threads, batches of one and two, three events: a batch that is
  split over the threads, rings of two and four slots that wrap, and a local
  queue with the one free slot that `free_size()` miscounts;
* stage timers: three timers, two intervals and `MaxClock = 5`: inserting before,
  after and between two timers, an exhausted pool, and two expiries of one
  timer. Loop timers: two timers, one of them cyclic, two intervals, a timestamp
  up to `MaxLag = 1` old, without a bound on time;
* select loop: two handlers and the wake-up handler, three descriptors,
  `MaxAdds = 2` registrations: a handler that is freed and used again while an
  operation on it is pending;
* connections: chunks of one handler and at most two, three connections, three
  descriptors: the third connection reuses handler and descriptor of the first,
  so that a stale batch entry would meet it. Client: three sockets and three
  calls of `open()`;
* three sends of two bytes: a partial write, a queue of two messages, and
  another message queued behind a partly written one. UDP: three sends to one or
  two addresses, two datagrams in a `sendmmsg()`;
* logs of one or two bytes with a buffer of three and blocks of two: a block and
  a rest, a full buffer; two writes that fail or are short;
* decoders: up to three messages of every listed length, cut at every byte;
  HTTP: four requests and five replies chosen for the branches of the encoders (a
  header after which Content-Length has room, one after which it has none and
  `reserve()` forgets the data, one that made the buffer grow), two requests under
  way, cuts at the end, one token and nine before it (a cut of a read of `n`
  bytes is any `n` if the rest arrives in the same way);
* conversions with 17 bits (every branch of the digit ladders and both ends of
  the range), at values around the powers of ten and two; all texts of up to four
  characters. Memory: every size up to 513, that is every case of both switches
  alone and after a round of the loop, and sizes around the second round;
* buffers: two of each kind, three blocks and `MaxCalls = 5` calls of any kind: five
  calls suffice to share a block, grow it, hand it on and drop it.

`CHECK_DEADLOCK FALSE` stands where the system really may stop: when the bounded
number of calls is used up and the consumer, stage or loop thread waits, or has
ended.

Fairness. The operating system runs every thread that can run: weak fairness of
the consumer, the stage threads, the loop threads, the log worker and of a call
once it has begun. `wait_for` and an `epoll_wait` with a timeout return in the
end; an `epoll_wait` without one need not. In `LoopTimers` time passes, and a
handler returns after finitely many calls (strong fairness of its return, as
calls of the handler come in between). Nobody has to push, stop or close, no
peer has to send or to break, and no other handler has to become ready. The
queue's mutex (a spinlock or a mutex) is not fair; weak fairness suffices
because the number of calls in a run is bounded, and the code promises no more:
pushes without end could keep the consumer from its swap. `EveryEventHandled`
of `EventLoop` is stated for a loop with a timeout only. Without one (the
default, -1) an event pushed between the loop's last look at its queue and
`wakeup_flag_.store(true)` waits for another push or another ready handler; that
is the code's behaviour and the reason for the antecedent.

## 4. Theorems

All are checked by TLAPS without any unproved step. They hold for every value of
the constants (the number of threads, the capacities and sizes, and the bounds on
calls and errors, so also for behaviours of any length), from the constants'
named assumptions alone: `SpscAssumption`, `DoubleBufferAssumption`,
`StageAssumption`, `LoopAssumption`, `QueuesAssumption`, `StagesAssumption`,
`LoopsAssumption`, `EventsAssumption`, `ServerAssumption`,
`ConnectionsAssumption` and `SequentialAssumption`, which TLC evaluates in the runs. A theorem that a run
checks on a small instance is proved of the very formula the run checks,
`AllSpec => []P`: `AllSpec` chooses the part (one of the modules) in the initial
state, and each proof module shows first that a step of one part leaves the others'
variables alone. Each part has an inductive invariant, a lemma for the initial
state, one for each action, and the theorems that follow from it.

`MCQueuesProofs`, `DoubleBufferQueueProofs`:

* *SPSC rings*: `Invariance` (`IInv`), `SlotRaceFreedom` (`NoSlotRace`),
  `Refinement` (`ImplementsFifo`). The bounds on the indexes are not inductive by
  themselves: a push that has passed its test writes later, when the consumer has
  moved on. `IInv` adds what each place in a call guarantees (past the test there
  is still room, because only the consumer moves the other index, and only forward)
  and that every slot between the indexes holds an event. Slot races are excluded
  because two indexes less than a capacity apart have different remainders (lemma
  `OffsetsDiffer`). The refinement maps the queue to the slots from `read_index_`
  to `write_index_`: `PushPublish` is the enqueue, `PopCheck` and `PopAdvance`
  begin and end the handling, and `PushWrite` is invisible.
* *Double buffer*: `Invariance` (`QSpec => []QInv`) and `Refinement`
  (`QSpec => ImplementsFifo`). `QInv` ties the mutex to the threads inside
  critical sections and adds that a swap in progress found the active buffer
  empty; without that conjunct the exchange of the buffers would reorder
  events. The refinement maps the queue to the active buffer followed by the
  standby one.
* *Shared rings*: `IndexesStayInAgreement` (`IndexesAgree`) and
  `UnclaimedStayIntact` (`UnclaimedIntact`), for any number of producers and
  consumers. A call that has read an index and not yet exchanged it may be
  arbitrarily late, so `PushPlace` and `PopPlace` state what it still knows: what
  it tested against only grows, hence the room (or the event) it found is there if
  the exchange succeeds. A successful exchange adds one member to the set of calls
  in progress with an index above all of theirs, a publication removes one; the
  cardinality lemmas of the library turn this into the distance of the two
  indexes, which bounds the published one although a call may publish another's
  index (the finding in section 5). With one producer `PushWrite` is to a slot
  that no unclaimed index falls on (`OffsetsDiffer`).
* *Logging*: `BytesStayInOrder` (`BytesInOrder`). The invariant adds that a
  synchronous worker has neither a thread nor buffered bytes, and that the worker
  thread swaps (before and after its wait) only when it has written all of the
  active half; then a swap and an append to the standby half keep the
  concatenation.

`MCStagesProofs`:

* *Stage thread*: `StageInvariance` (`StageInv`), `NothingLost` (`Accounted`),
  `StageImplementsFifo` (`ImplementsFifo`) and `MailboxSafety`
  (`StageMailbox!MSafety`). The lemma `StageUsesQueue` shows that
  each step of the stage is a step of its queue or leaves it alone, so `QInv`
  carries over by the queue's own lemma, and the queue's refinement of
  `BoundedFifo` by its own theorem. `StageInv` adds that from the swap that
  found nothing to the swap after the wait the active buffer stays empty and no
  handler runs, which is what `swap_buffer()` requires of its caller, and that a
  caller holds the mutex exactly while it is inside the queue's push.
  `Accounted` is then inductive relative to `StageInv`: a push appends the same
  event to `accepted` and to the contents, `HandleEnd` moves the head of the
  contents to the end of `handled` (`MoveHead`), and a swap does not change the
  contents because it finds the active buffer empty. `MailboxSafety` is the part
  of `ImplementsMailbox` without fairness: an accepted push maps to `Accept`,
  `HandleEnd` to `Handle` (by `Accounted` the head of the contents is the oldest
  event not handled), `JoinReturns` to `Join`, and every other step, the lost
  wake-ups among them, to a stutter.
* *Stage 2*: `EventsStayInOrder` (`EventsInOrder`): every event in one place, and
  each thread in order. `Stage2Inv` says of the locks that whoever moves a batch
  holds the mutex of that queue and has no more left to move than there is
  (`LockInv`), of a shared queue that it holds, in order, all the events of its
  priority from its first one on (`SharedInv`), and of the batch of a stage without
  priorities that it fits into the ring it found empty (`BatchInv`). While `close()`
  and a thread have not written to one ring at once (`~race`, the property's own
  condition) also: the ring's indexes stay in range and leave one slot free,
  whoever writes has tested for room, the closing thread writes only to a ring
  whose thread is not writing (`RingInv`); what a thread has handled, has in hands,
  has in its ring and is about to write, in this order, ascends within each
  priority (`OrderInv`); and the places partition the events pushed (`PlacesInv`).
  A ring that wraps is compared by `Between`, the sequence from one index to the
  other; `SizeIsFilled`, `PushRing` and `PopRing` are the only lemmas that see the
  remainder, for rings of any number of slots. `Powers` of the assumption stands for
  the powers of 2: the proof needs only that one of them is above each batch size. From a shared queue to a ring an event keeps its
  order because the batch takes the first of all that are left, so that everything
  taken before is older.

`MCEventsProofs`:

* *Event loop*: `WakeupStaysArmed` (`WakeupArmed`). As for the stage thread,
  `LoopUsesQueue` carries the queue's invariant over. The bounds on the counters
  need that `accepted` is `handled` plus the lengths of both buffers, and that a
  push in progress is a call already counted; `Armed` itself is inductive: whoever
  lowers the flag by the exchange is about to write the eventfd, and the loop
  sleeps only after it has raised the flag.
* *Message sending*: `SentInOrder` (`InOrder`) and
  `LoopThreadQueuesNothingBehind` (`LoopThreadSendsAreWatched`).
  `InOrder` becomes inductive with: a sender that writes directly holds the mutex
  and found both queues empty, and the loop swaps only when the active queue is
  empty. The second uses a strengthening of its own (`WatchInv`): if all sends are
  in the loop thread there is one call at a time, so between two calls the mask
  and the registration agree, and within one they differ only at the step between
  the two assignments.
* *UDP*: `DatagramsAreWatched` (`Watched`), `DatagramsAccounted` (`Accounted`) and
  `ClosedStaysQuiet` (`ClosedIsQuiet`). For the first, what a call of the loop
  thread still has to do is added to the invariant: between its queueing and its
  `add_event()` the call is at that step, `handle_write()` deletes the event only
  after it has emptied the queues, and no other call runs in between. The second
  compares the wire followed by both queues (`Whole`) before and after each step,
  by `UdpDataInv`: whoever sends directly holds the mutex and found both queues
  empty, the call that holds it is the last one and nothing of it is known yet
  (`UdpShape`, `UdpContents`), and of a batch being erased what `sendmmsg()` took is
  on the wire (`UdpErasing`). A queue's datagrams are a flattened sequence of
  sequences, which the library computes by a recursive function; `FlattenAppend`
  and `FlattenTail` say what it does at both ends, proved through the least number
  for which they would fail. For the third, the steps of `close()` are tied
  together: while it runs the handler exists, before its first step exactly one
  descriptor is open, and when it joins none is and the loop has forgotten the
  handler; the join ends when every run has.

`MCLoopsProofs`:

* *Select loop*: `SetsAlwaysAgree` (`SetsAgree`), `FreedAreNotCalled` (`NeverFreed`)
  and `SleepsOnlyIdle` (`SleepsWhenIdle`), by `LoopInv`. `handlers_` and what is left
  of a round hold no handler that is back in its pool (`RoundInv`), because freeing
  and leaving `handlers_` are one step of the loop (`OpsInv`: whoever was deleted has
  its operation in one of the two tables). A handler's descriptor is its own and open
  while it has it, and its mask is empty exactly when it is not registered
  (`DescriptorInv`), from which the sets and their counters (cardinalities) follow
  step by step (`SetsInv`); that a new handler and a new descriptor, the least free
  ones, exist is the library's theorem on well-founded orders. For the sleep: before `select()` either
  `wakeup_flag_` is set, so that whoever adds an operation wakes the loop, or it is
  woken already (`WakingInv`), and the copied sets have every bit but those added
  since (`CopiedInv`).

`MCConnectionsProofs`:

* *Server*: `OneOwner` (`HandlersOwned`) and `NoneClosedByMistake`
  (`ClosedForCause`), by `ServerInv`: the list of the pool and the handlers' flags
  agree (`PoolInv`); a handler outside it is being accepted, registered, or being
  closed by one thread (`PlacesInv`); no two handlers work on one descriptor, and
  each is open for the handler's connection until the step that closes it; from
  there to the next step, which clears `fd_`, the handler owns none, and its number
  may be another's (`OwnInv`, `Clearing`; in the loop that also accepts it stays
  unused); epoll names a handler exactly while it is registered, and what the
  batch names was registered when it was taken (`RegisteredInv`, `LoopInvariant`);
  with an accept thread every open descriptor has an owner (`NoneLost`). If only the
  loop closes, the rest of a batch stays registered: a handler leaves only by its
  own entry, which is gone from the batch then (`CauseInv`).
* *Client*: `OneDescriptor` (`ClientConsistent`), by `ClientInv`. Each place of a
  call has its own picture of descriptors, mask and registration, which the code
  passes through between two consistent states; a call begun inside another
  (`free_handler()` that reconnects, a callback that opens or closes) starts from
  the picture of the place where it was called.

`MCSequentialProofs`:

* *Linked lists*: lemmas about the operators of `SedaTimerList`. `Linked(m, l, k, f)`
  says that list `l` is a ring of its head and the `k` different members
  `f[1] .. f[k]`, linked both ways. Each operator is shown to insert one
  member at its place or to take one out, and to leave every link of the other
  lists alone (`Inserted`, `Removed`, `Apart`); `remove()` writes the links at both
  ends twice, and `RemoveFromIs` shows that the second writes repeat the first.
  A walk along the links from a head meets exactly `f` (`ForwardIs`,
  `BackwardIs`), so the number of members and `f` are witnesses that the
  invariant carries along and reachability is not needed.
* *SEDA timer queues*: `TimerListsStayIntact` (`ListsIntact`) and
  `NoTimerIsLeftBehind` (`NoneLate`), by `TimerInv`: there are a sequence of free and
  one of active timers as above, the active ones are those the program holds, and
  the active list ascends by `Key`, which is the expiry time the program asked for
  in the LRU queue and `end_clock_ms_` in the sorted one. In the LRU queue the order comes from
  the clock alone: every timer is appended with the same interval, and an updated
  one too, although `end_clock_ms_` is wrong then (section 5). `expire()` stops at the
  first timer that is not due, and the order says that none behind it is.
* *Buffers*: `BuffersKeepTheirData` (`BuffersHold`), by `BuffersInv`. `Holds` says
  that the cells between two indexes are the bytes of a sequence; there is a lemma for
  each operation on a `ByteBuffer`'s value (`WriteHolds`, `ReadHolds`,
  `BeginHolds`, ...) and for what a write or `realloc()` leaves of the cells
  (`WrittenIs`, `ExtendedIs`). The indexes stay in the block also of a buffer that
  has handed it on, without which a later write of the owner would not be
  covered. A `SharedBuffer` that is not astray keeps its data because what the
  others change lies behind its window (`OtherCellsBehind`). `Counted` says that
  the reference count is the number of holders, that a block is gone exactly when
  nobody holds it, and that `use_size_` is within the block; it passes from step to
  step by `ReleaseCounts`, `HeldCounts`, `NewCounts` and `SameCounts`. That a new
  block exists is the pigeonhole theorem of the library: the assumption gives
  more blocks than `SharedBuffers`.
* *Memory*: `MovedIsAskedFor` (`Moved`), by `MemoryInv`: the bytes below `dest_64`
  are done and `n` more are due. `CopyCasesAreRight` and `ClearCasesAreRight` go
  through the tables, entry by entry: the words and the bytes that case `i` stores
  are `i`; `CaseCovers` says what the stores of a case cover, and `StoresExactly`
  that they leave no gap. The loop of the Windows build is a call of the C
  library and no part of this.

`MCDecodersProofs`:

* *Decoders*: `MessagesAreDelivered` (`Delivered`), by `DecoderInv`: what was
  delivered, what is kept of a message, what is at hand and what has not arrived
  are together the stream (`DecoderSent`), the kept part is a proper beginning of
  the next message and `message_length_` is what its head says, if the head is
  whole (`DecoderExpects`). A message's place in the stream comes from the
  library's `FlattenSeq`, a recursive function whose value at both ends is proved
  by the least number for which it would fail; that a length is read back as it
  was written, in either byte order, from the digits of a number in base 256
  (for fields of one, two and four bytes).

The models change an entry of a function of records by
`[f EXCEPT ![x] = [@ EXCEPT !.a = .., !.b = ..]]`, never by two `![x]` of one
`EXCEPT`, and never by `@` inside both: the version of the prover used here
(1.4.5) translates those forms wrongly. Each lemma was tried with `FALSE` for its goal, under its own hypotheses
and definitions, and refused.

Only model-checked: everything temporal beyond safety (liveness under fairness
is out of the prover's reach), among it the fairness part of
`ImplementsMailbox`; `ListsHold` and `CancelledIsSilent` of the loop timers, whose
`loop()` walks and changes the lists in one step here, as it does under its
mutex; and in the run `sequential` `Exchanged` and `Converted`, which compare
what decoders and recursive functions compute with a reference and need
induction over data.

## 5. Disagreements between code and comments

* **Publication in the shared rings** (`multi_queue_publication`). `push()`
  publishes with `while (!max_read_index_.compare_exchange_weak(write_index,
  write_index + 1))`. A failed exchange stores the value it found into
  `write_index`, so the retry publishes an index that belongs to another
  producer, who may not have written its slot. The comments say that
  `max_read_index_` is updated when the writing is complete. `pop()` gives slots
  back with the same loop. `ClaimsAccounted` shows what still holds: the indexes
  add up, so nothing stays unpublished when all calls have returned.
* **Interval of an updated timer** (`timer_interval`). `update_timer()` calls
  `remove()`, which ends with `timer->init()` and so zeroes `interval_ms_`, and
  then computes the new expiry time from it: an updated timer is due at once.
  `NoneLate` still holds, since a timer can only be too early.
* **A message left without write events** (`message_stranded`). `handle_write()`
  decides under the mutex that nothing is queued and calls `delete_event()`
  after releasing it. A `send()` from another thread in between queues its
  message, finds `WRITE` still in `event_mask_`, and asks for nothing. If only
  handlers in the loop thread send, this cannot happen
  (`LoopThreadSendsAreWatched`).
* **A connect that failed counts as a success** (`connect_success`). The loop
  takes EPOLLOUT on a connecting source for "connect success" without looking
  at the socket's error. The client then believes it is connected until a read
  fails, and `Reconnects` shows that it does try again.
* **Timers of a loop without a timeout** (`timers_wait`).
  `std::min(min_interval, timeout_us)` is -1 for the default `timeout_us`, so the
  loop sleeps past its timers. With a timeout `Fires` holds.
* **Empty replies** (`reply_bodies`). A body that is sent without being copied is
  taken by the send queue; the response's buffer then owns nothing, `write()` on
  it fails silently, and the later replies of the connection have no body.

Further behaviour that the modules show and their properties except by name:

* accept in another loop than the connections' registers a handler before
  `event_loop_` is set, so the connections' loop may call `handle_read()` with a
  null pointer (`Crashed`); accepting in a loop leaks the descriptor when
  `handle_open()` or `add_handler()` fails (`inc/tcpserver_handler.h:45`, `49`);
  an accept thread ends at the first accept that fails, also for want of
  descriptors;
* a handler deleted by another thread in the middle of a batch can be in use for
  the next connection when its turn comes: `ClosedForCause` needs `~sender`;
* `TcpClient` stays CONNECTING for good if no socket could be opened
  (`inc/tcpclient.h:126-131`), and a connect that fails at once inside
  `free_handler()` is not tried again (`refusal`);
* a message for a range of UDP addresses of which some were sent is queued for the
  others but not watched, and one that met EAGAIN at once deletes the handler
  (`partial`);
* a timer's `interval_` may change while it is in a list, and `cancel_timer()` may
  call through a null pointer (`raced`);
* between the two assignments of `EventHandler::close()` a handler has the number
  of a descriptor that may be another connection's (`Clearing`); with accept
  threads a stale batch entry can read from it then;
* a message that is a header only and arrives in pieces is delivered with the
  next byte (`OnlyHead`); a length below the head's is not refused (`Legal`).

## 6. Plan

What could follow, by weight in the system: `Exchanged`, `Converted` and `ListsHold` as theorems; an edge-triggered variant of `MessageHandler`; a run without the assumption that
a program drops a timer when its expire event arrives (`is_active_` stays set);
`SedaStageThread` over a queue that is not double-buffered, whose `pop()`
returns a slot it has already given back; `TcpServer::close()` with its accept
threads.

## 7. Not modelled

* The Windows loop and the vendored wepoll; build files, examples and tests.
* Clocks and OS wrappers: they read the machine. `TscClock`'s sequence lock has
  one writer, at start-up.
* The nano logger, whose `log()` stores nothing yet.
* The formatting of a log, rolling of log files, addresses as text, URIs and
  parameters of HTTP: text without protocol state.
* `EventLoopGroup`: it gives calls on to one of its loops in turn. (Its
  `delete_handler()` calls `delete_event()` of the loop; handlers call their own
  loop instead.)
* `send()` of several iovecs in `MessageHandler` (`inc/message_handler.h:243`):
  it cannot be instantiated as it stands.
* The edge-triggered loop's `add_event()` and `delete_event()`.
* `SedaStage::close()` deleting threads that pushers may still be inside of, and
  `TcpServer::close()`: the memory itself is not modelled, the hazard of the
  first is listed.
* Effects of weak memory beyond interleaving, see the assumptions above.
