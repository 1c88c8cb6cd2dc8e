# TLA+ models of amp-embedded-infra-lib

This directory holds TLA+ models of the parts of amp-embedded-infra-lib whose
correctness depends on interleavings, on the order of events and callbacks, on
how a network cuts its data, or on what power failures and restarts leave behind;
TLC configurations that check them on small instances; and TLAPS proofs, for
every size, about ten of them: the event dispatcher, the queue of the interrupt,
claims, timers, shared pointers, the configuration store, the windows of Sesame,
the requests of ECHO, `std::thread` and `std::lock`.

    tlc -workers 2 -config MCEventDispatcher.cfg EventDispatcher     # a component
    tlc -workers 2 -config MCSesame.cfg MCSesame                     # several, one by one
    tlapm EventDispatcherProofs.tla                                  # the proofs about one

`PROJECT.json` lists the components, the runs, the source lines behind every
definition, the hazards, the findings and the theorems.

## The system

The library supports embedded software that runs on an event dispatcher: one
thread executes short actions, one after the other; interrupts and other threads
only schedule actions. Everything else is built on that.

| Component | State | Operations | What is hard | What makes it correct |
|---|---|---|---|---|
| `infra/event/EventDispatcher`, `...ThreadAware` | ring of (function, flag) slots, push and pop index, ready flag | `Schedule` (any thread), `Run` | lock-free reservation, publication and release of slots; lost wake-ups | actions run once, in order, one at a time, and are all run; no assertion fails |
| `infra/event/QueueForOneReaderOneIrqWriter` | buffer, two pointers, notification flag | `AddFromInterrupt`, `Get`, `StreamReader` | the interrupt sees the reader halfway and the other way round | a stream without loss or change; the reader is always notified |
| `infra/event/ClaimableResource` | queue of claimers, current claim, scheduled flag | `Claim`, `ClaimUrgent`, `Release`, move, destruction, hand-over | the hand-over is scheduled: anything happens before it takes place | one holder; right order; no claim is forgotten |
| `infra/timer`: `TickOnInterruptTimerService`, `TimerService`, `Timer` | tick counters shared with the interrupt, system time, list of timers | tick interrupt, `ProcessTicks`, `Start`, `Cancel` | ticks during processing, counter overflow, timers changed by timers | no tick is lost; never early; due timers are noticed; repeating timers stay in phase |
| `infra/util`: `SharedPtr`, `WeakPtr`, `SharedOptional`; `EventDispatcherWithWeakPtr` | two counts, the object; weak pointers of actions | copy, assign, release, lock, emplace; schedule | destructors that use pointers to the object; actions that outlive it | destroyed once, when nobody refers to it; not used afterwards |
| `services/util/ConfigurationStore` | two flash blobs and a default, RAM copy, locks, pending write | recover, write, erase, lock | power failure at any moment, requests during a write | what was acknowledged survives; recovery finds it; writes find erased flash |
| `services/util/CyclicStore` | ring of flash sectors with status bytes, two addresses, iterators | add, add in parts, clear, recover, read, erase | power failure between any two flash writes; iterators in sectors that are erased | new iterators read what must be there; only the oldest goes; nothing is skipped |
| `services/util`: `SesameCobs`, `SesameWindowed`, `SesameSecured` | frames; windows and five sending states; IVs | request, write, sent, receive, initialize, reset, stop, restart | crossing initializations, restarts, windows used up, resets halfway | messages arrive as sent; buffers are not overrun; both sides stay in step; all is sent in the end |
| `protobuf/echo`: `EchoOnStreams`, `ServiceProxy`, `ServiceForwarder`; `services/util/EchoOnSesame` | queue of proxies, partial messages, readers | request, serialize, receive, execute, done, initialize, reset | callbacks that call each other; packets that end anywhere; proxies that disappear | methods run in order, one at a time, all of them; no request is forgotten |
| `lwip/lwip_cpp/ConnectionLwIp` | pool of send buffers, chain of pbufs, connectors, backlog | send, retry, receive, acknowledge, close, destroy; connect, accept | scheduled callbacks after a connection is lost; a pool shared by all | nothing that is shared is lost; data in order; whoever waits is served |
| `services/network`: `ExclusiveConnection` | claimers, the connection, offers | connect, accept, cancel, close | claims that move between objects | one connection; everybody who waits gets it |
| `services/network`: `HttpClientImpl`, `HttpHeaderParser`, `HttpClientCachedConnection` | what is parsed so far, reader, state of sending; cached client and waiting factories | request, write, receive, body, done; connect, reuse, detach, time out | responses cut anywhere; observers that keep readers or leave halfway | bodies arrive unchanged; responses go to their request; everybody is served |
| `services/network`: `MqttClientImpl`, `MqttMultipleAccess` | queue of operations, notification, two timers; accesses and their claims | connect, publish, subscribe, notification, ping, time-out | acknowledgements behind operations; timers restarted by each other; a client that is lost | each operation ends and is timed; each notification is acknowledged once |
| `osal`: `condition_variable`, `thread`, `lock`, `try_lock` on FreeRTOS and ThreadX | list of entries on stacks; shared thread data; mutexes | wait, notify; join, detach; lock | threads that go on while others use their stack; time-outs against notifications | no notification is lost; data is deleted once; no deadlock |
| containers, streams, syntax, tracers, plugins, BLE, upgrade, hal, console tools, examples | | | sequential and tested, or external | not modelled, see below |

How they interact: interrupts call `AddFromInterrupt` and `SystemTickInterrupt`,
which put at most one action each on the event dispatcher, guarded by an atomic
flag. Everything under `services`, `protobuf` and `lwip` lives on the dispatching
thread and continues in callbacks and scheduled actions. In the models of these
users the event dispatcher is what `ActionQueue` says it is: every scheduled
action is executed once, on one thread. ECHO runs on Sesame, of which the three
layers are stacked; HTTP and MQTT run on connections; accesses to MQTT and
exclusive connections are claims of a `ClaimableResource`, and those two modules are
composed with it.

## The modules

Shared-memory models take one step per access to shared memory (or per operation
on a semaphore), and models of code that runs on the dispatching thread take one
step per call or callback. `PROJECT.json` maps each definition to its lines. A
definition introduced by "A variant with a mistake" is a plausible bug in the
definition that follows it; it is used by no specification, only to show that a
property would catch it.

Many interfaces leave their users more freedom than the code survives. Where that
is so the module has a constant (`Conduct`, a set of named freedoms, or a Boolean
such as `EraseNewest`, `DestroyWhileSending`, `AssignFromWeakPtr`), so that the passing
runs can say what holds without them, and what holds even with them. The findings
say what goes wrong.

**ActionQueue** — what an event dispatcher promises: a bounded FIFO of accepted
actions, one running at a time, with weak fairness on start and finish.

**EventDispatcher** — `EventDispatcherWorkerImpl` with `Idle` and `RequestExecution`
of `EventDispatcherThreadAwareWorker`. `first` and `second` are the two halves of
`scheduledActions`; `stage[c]`, `index[c]`, `action[c]`, `lowest[c]` are where caller
`c` is in `Schedule` and its locals; `runStage` is where `Run` is. `CallSchedule`,
`Reserve`/`RetryReserve` (the compare-exchange), `FillSlot`, `CheckSlotFree`,
`FlagSlot`, `MeasureCapacity`, `StoreCapacity` and `RequestExecution` are the lines of
`Schedule`; `StartAction` to `AdvancePop` are `ExecuteFirstAction` with its
`ExceptionSafePop`. Callers are the threads and the dispatcher itself (an action
that schedules). `pending` is a history variable: the accepted actions in order of
reservation. A failed `really_assert` sets `aborted` and stops everything.
`MaxOutstanding` limits the load: a ring that is too small for its application is a
configuration error, and its consequences are examined in a run of their own.

**QueueForOneReaderOneIrqWriter** — `AddElement`, `AddRange`, `CopyData`, `PublishEnd`,
`NotifyTest`, `NotifyExchange` are the interrupt; `DataAvailable`, `GetElement`,
`AdvanceBegin`, `ConstructReader`, `Extract`, `Rewind`, `Commit`, `ConsumeRest`,
`DestroyReader` the reader. The callback of the application is external; it reads
until the queue is empty, as the users of the class do. **ElementStream** is the
abstract stream that it implements.

**ClaimableResource** — each call is one step. A claim is identified by its
`onGranted`; `arrived` and `urgent` are history and say in which order claims were
made. A destroyed claimer's name can be used again for a new one.

**TickOnInterruptTimerService** — the interrupt is one step (nothing interrupts it).
`StartDuration` reads the clock and `StartDone` sets the trigger time, so that ticks
come in between. `TakeTicks`, `AddTime`, `Expire`, `ActionDone`, `ProgressedDone`,
`CompareTicks`, `StoreScheduled` are `ProcessTicks` with `TimeProgressed` and
`Progressed`; between `Expire` and `ActionDone` the timer's action may start and
cancel timers. The resolution is one tick. `uint32_t` is scaled down to `Word` values
so that overflow is within reach. `elapsed`, `latency`, `handled`, `notBefore` and
`fired` are history.

**SharedPtr** — one `SharedOptional`, the variables that point to its object, and
the actions that keep a `WeakPtr`. `generation` numbers the objects, so that a
pointer to an earlier one can be told from a pointer to the present one. The
destructor is a phase during which the other operations go on (`destructing`).

**ConfigurationStore** — `flash[b]` is erased, torn, or a version of the configuration;
`operation` says which flash operation is in progress, so that `Crash` can leave it
undone, torn or done. A version that `OperationDone` reported is `acknowledged`.
Assumed: no write before recovery ends, and `Erase` is called by nobody but the
recovery of the factory default, which holds for the callers in the repository.

**CyclicStore** — addresses, sectors and blocks as in the code. Every operation holds
a claim from its start to its end, so it is one step: a sequence of flash writes,
which a power failure cuts off anywhere. `kept` is history: what must be in the
store. `Clear` only happens while no iterator is in use. Power failures and
iterators are in separate scenarios: an iterator that has wrapped past the end may move
`startAddress` past newer items with `ErasePrevious`, which is the finding about
iterators that read everything again in another form.

**SesameCobs** — sender, wire and receiver; contents are sequences of 0 and 1, and COBS
is modelled by what it does to them. The layer above requests a message only after
it released the stream of the one before. A message that a reset truncated is
delivered as what it is; the layer above has to cope with it, by design.

**SesameWindowed** — `peer[p]` is a record of the members of one `SesameWindowed`,
`line[p]` the packets on their way to it. The functions of the class are operators
from a record to a record. A packet is its operation, its window and its encoded
size. A callback `Initialized` in which the observer requests a message gives the same
result as the request made right after it. `Restart` is external: the device is reset,
loses what was on its way, and constructs the object again.

**SesameSecured** — both peers, composed with the handshake of `SesameWindowed`. A
message is its IV and whether it is intact. The keys stay the same, readers are
released at once, and a restarted peer's Init arrives within the second that an
integrity failure waits for it.

**EchoSending**, **EchoReceiving** — the two halves of `EchoOnStreams` with
`EchoOnSesame`. A packet is a sequence of units; a message's `kind` says what its
service does with it. Functions that call each other (releasing a reader delivers
the next packet) are operators on a record, so that a call is one step.

**ConnectionLwIp**, **ConnectionLwIpReceiving**, **ConnectionFactoryLwIp** — sending with
the pool of buffers; receiving with the chain of pbufs; connectors and listener. lwIP is
external: it refuses, acknowledges, delivers and loses. `Conduct` of the first: the
connection is destroyed while it waits (`die`), it is lost while a reader keeps it
(`reader`), the observer releases a stream (`writer`) or closes (`nested`) in callbacks.

**ExclusiveConnection**, **MqttMultipleAccess** — composed with `ClaimableResource`:
their claimers are its claimers, and its actions take part in theirs. Left out of the first:
`Abort`, and destroying the listener.

**HttpClient** — request and response of `HttpClientImpl`. Bytes are counted; of a
response each line is two units, so that it can be cut in the middle. One iteration of the loop of
`BodyReceived` is a step. Left out: redirection, connectors, a head of more than 512
bytes, and closing in `StatusAvailable` or `HeaderAvailable`. `Conduct`: `splitStatus`,
`splitEnd`, `reuse`, `keepChunk`, `readEarly`, `close`; each of them leads to a finding.

**HttpClientCachedConnection** — one record, as calls of both sides are nested. Left out:
`Stop`, and a client below that closes later than it is told.

**MqttClient** — client, broker and network. Timers are not timed: they expire only
when the broker is silent. `MaxInFlight` is the number of notifications that the broker sends
before it has an acknowledgement; more than one leads to findings. `Conduct`: `silent`
(in the passing runs), `split`, `cancel`, `quit`.

**ConditionVariable**, **StdThread**, **StdLock** — a step is what a thread does
between two operations on semaphores. The kernel is external.

**MCStorage**, **MCSesame**, **MCEcho**, **MCConnections**, **MCClients**, **MCThreads** —
instances for TLC. All but MCConnections and MCClients extend the module of one component, whose
properties they check as that module states them, and instantiate the others. Each puts components side by side that have no variable in common;
`scenario` is chosen initially and says which instance takes steps, while the others
stay in their initial states. So the states of a run are the sum, not
the product, of those of its scenarios, and each component is given the most general
behaviour of what is around it. A property that is about one scenario says so; one that
does not holds in all of them. A scenario whose name ends in `Any` has every freedom of
`Conduct`; the properties stated of it are those that hold nevertheless.

## The runs

| Run | Instances | States | Shows |
|---|---|---|---|
| `event_dispatcher` | 2 threads and the dispatcher, 2 actions, 2 slots | 152,908 | `AssertsHold`, `RingInv`; refinement of `ActionQueue` including liveness |
| `event_dispatcher_overload` | the same with one call too many | violation | the overflow assertion can pass: finding 1 |
| `irq_queue` | buffer of 4 cells (capacity 3), 2 elements, ranges up to 2 | 90,864 | `ContentsInv`, `ReadInv`, `NotificationInv`; refinement of `ElementStream` |
| `claimable_resource` | 3 claimers, 3 claims | 1,805 | `ClaimsInv`, `OrderInv`, `EventuallyGranted` |
| `timer_service` | 1 single shot and 1 repeating timer, 6 ticks, counter of 6 values, latency 2 | 1,515,410 | `TicksConserved`, `NextTriggerInv`, `DueIsNotified`, `InPhase`, `NeverEarly` |
| `storage` | ConfigurationStore: 3 versions, 2 locks, 2 power failures. CyclicStore: 3 sectors, 6 items of 2 sizes, 2 power failures; or 7 items and an iterator | 110,276 | `WriteTargetErased`, `AcknowledgedNotLost`, `RecoversStored`, `WriteEventuallyDone`; `ContentsInv`, `OldestErased`, `NothingSkipped` |
| `sesame` | windows of 5, messages of 1 and 2; COBS frames of 2, messages of 3, 1 reset; 4 secured messages, 1 restart, 1 damage, or crossing starts | 699,899 | `BufferNotOverrun`, `WindowConserved`, `DeliveredAsSent` |
| `echo` | 3 proxies, 3 parts, 2 initializations, 1 reset; 3 messages in packets of 4, or 2 restarts; windowed messages of the largest size; handshake with 2 restarts; COBS with `Reset` and `Stop` | 56,517 | `RequestsKept`, `MethodsExecuted`; `MessageEventuallySent`, `HandshakeEnds`, `RequestsServed` |
| `connections` | 2 connections on a pool of 2; 4 bytes in pbufs of 2; 3 clients for 2 connectors, 3 peers for a backlog of 2; 2 connectors and 2 offers for one connection | 87,580 | `ResourcesConserved`, `InRightOrder`, `WaitingEnds` |
| `clients` | 2 HTTP requests; 3 factories for 2 hosts; 2 MQTT connections with 2 operations and 2 notifications; 3 accesses | 300,888 | `StatesSound`, `NothingMixedUp` |
| `clients_progress` | smaller instances of the same | 10,420 | `OperationsEnd` |
| `threads` | 3 threads that wait, or 2 with time-outs; 2 thread objects and 2 tasks on either kernel; 2 threads and 3 mutexes; 3 shared and 2 weak pointers, 3 objects | 220,057 | `WaitersServed`, `DeletedOnce`, `NoneHeldWhileWaiting`, `ThreadsEnd` |

Why these bounds suffice: with two slots the ring wraps around at every second
action, and two threads plus the dispatcher give every order of three reservations.
The queue wraps around with elements and ranges on both sides of the end, and is full
and empty. Three claimers allow one that holds, one that is moved and one that waits.
In six ticks, the small counter overflows when nothing limits it, and a repeating
timer misses a period. Two power failures let the second one strike during the recovery from
the first; six items go round three sectors, which hold one large item or two small ones
each, with every rest at the end. Sesame's buffers hold two of the largest messages and one
`ReleaseWindow`, the least that `SplitBuffers = 2` allows, so that windows run out all the
time. A COBS message of three bytes in frames of two ends before, at and after the
end of a frame. IVs of two digits wrap around within four messages. Two connections need more
buffers than the pool has; pbufs of two bytes end in the middle of what is read; more clients and peers come
than there are places. An HTTP head does not fit in one stream, and a body has two
chunks; three factories allow one that is connected, one to the same host and one to another.
Three threads make a list with a first, a last and one in between; a tick counter of two bits has
a largest value that means forever within reach.

`CHECK_DEADLOCK FALSE` stands where the system really ends: after a failed assertion,
after the bounded number of ticks, items, messages or requests, and in handshakes
without messages.

The remaining configurations show findings, and TLC reports a violation for each:
`MCTickOnInterruptTimerServiceRace`, `MCSesameWindowedCrossing`, `MCSesameWindowedRestart`,
`MCCyclicStoreRotation`, `MCCyclicStoreFirst`, `MCEchoReceivingHeader` and `MCMqttClientQueue`.
The others are obtained with the constants given in the
list of findings, on instances of the size that the runs have.

## Fairness

- Threads are scheduled (`WF` on each caller and on `Run`), and actions end: the
  execution model requires actions to be short and not to block.
- An interrupt handler runs to its end, and the reader's callback reads what there is;
  it extracts and commits, however often it rewinds (`SF`).
- Whoever holds a `ClaimableResource` releases it in the end. Urgent claims
  can starve others, so `EventuallyGranted` is about executions in which they stop.
- Flash operations complete. A lock that is never released blocks writes, so
  `WriteEventuallyDone` is about executions in which the store is unlocked again and again.
- The serial line transports, observers finish reading and writing, a
  `SesameInitializer` grants in the end, and a stream that was requested is given.
- lwIP acknowledges what was written and connects or fails; factories answer.
- A broker or a server answers, or the time-out runs (`SF`, as both are disabled and enabled
  by what comes in between); observers end a notification and close connections they are
  done with.
- Threads that can take a mutex again and again get it (`SF` on their steps: the kernels
  serve waiting tasks in order), hold it for a finite time, and clocks tick.

Nothing is assumed of calls by the application: nobody has to claim, write, or send.

## The proofs

Each module of proofs extends the module it is about, and has its inductive invariant
(`IInv`, except for the event dispatcher; `PtrInv` and `ThrInv` for the two that `ThreadsProofs` instantiates
next to `StdLock`, which it extends), one lemma per action or kind of action, and the theorems. Everything is
proved for all values of the constants that satisfy the assumptions named in the module;
the bounds (`MaxElapsed`, `MaxCrashes`, ...) are arbitrary numbers there, so that they
restrict nothing. TLC has checked each inductive invariant on small instances, and evaluates
the assumptions on each run.

| Module | Theorems | Assumed |
|---|---|---|
| `EventDispatcherProofs` | `TypeCorrect`, `RingCorrect`, `NoAssertFails`, `ImplementsActionQueue` | for all but the first: no more actions are outstanding than there are slots |
| `QueueForOneReaderOneIrqWriterProofs` | `ContentsKept`, `ReadsOldest`, `NeverUnnoticed`, `HandsOverInOrder` | a buffer of at least two cells |
| `ClaimableResourceProofs` | `ClaimsAgree`, `GrantedInOrder` | |
| `TickOnInterruptTimerServiceProofs` | `TicksAreConserved`, `FirstIsNext`, `DueTimersNotified`, `RepeatersInPhase`, `NoneExpiresEarly` | finitely many timers; `MaxLatency <= HalfRange`; the clock ends before `TimePoint::max()` |
| `ConfigurationStoreProofs` | `TypeCorrect`, `WritesToErased`, `NothingLost`, `RecoveryDelivers` | |
| `EchoSendingProofs` | `WaitersAreKnown`, `RequestsAreKept` | at most two initializations between resets (finding 6); for the second, that no proxy is destroyed in the middle of its message (finding 6) |
| `SesameWindowedProofs` | `WindowIsConserved`, `BufferIsNotOverrun` | sizes that fit in a `uint16_t`; one of the peers starts (finding 2, crossing) and neither restarts (finding 2, restart) |
| `ThreadsProofs` | `WaitersHoldNothing`, `TriedAreHeld` | finitely many mutexes |
| | `CountsAreRight`, `SharedObjectExists`, `NeverReused` | finitely many pointers; no assignment from a `WeakPtr` (finding 7) |
| | `LastDeletes`, `WorkIsCompleted` | FreeRTOS, threads are joined or detached, not moved, and a joining thread does not preempt (finding 13) |

**Event dispatcher.** Neither "no assertion fails" nor "actions run in order" is inductive. A
caller owns the slot between its reservation and its flag, and nothing in the code
says so; the invariant has to. `RingInv` says that the pending actions lie in
consecutive slots from the front to the push index (`WindowInv`), that each of those
slots is either flagged with its action or owned by exactly one caller that is filling
it (`PendingInv`, `FillingInv`), that no other slot is flagged except the one being
executed (`FlaggedInv`, `RunningInv`), and that a call has an action (`CallInv`). The assumption on the load makes the
window fit in one turn of the ring, where positions and slots correspond one to one
(`AheadInjective`, `AheadShift`). The compare-exchange (`ReserveRing`), the pop
(`StartActionRing`, `ClearFlagRing`, `AdvancePopRing`) and the stores of the caller
(`FillSlotRing`, `FlagSlotRing`) each have a lemma; the assertion at
`EventDispatcher.cpp:26` holds because a filling caller's slot is not flagged. The refinement
of `ActionQueue` (its safety part) maps each step to an accepting, starting or finishing one,
or to a stutter.

**Queue of the interrupt.** The three properties that the run checks are inductive together, with
`ProgressInv`, which says where the reader and the interrupt are with respect to what they have
in hand. The core is arithmetic on positions: what lies between `contentsBegin` and `contentsEnd`
is the stream, wherever it wraps around, and neither a copy into the free cells nor an
advance of one pointer disturbs what the other side relies on. The same invariant gives the
refinement of `ElementStream`: publishing is the step that adds, and each way of consuming
(`Get`, a committed reader, with and without a wrap) is one that removes the oldest.

**Claims.** `ClaimsInv` and `OrderInv` need each other (a move keeps a claim's place because
a claimer is queued once), and `CallbackInv`: a claim's `onGranted` is pending for one claimer
only, and what counts as urgent is outstanding. The order is stated pairwise, so that what inserting at
either end, removing and replacing do to a sequence are lemmas about positions.

**Timers.** `TicksConserved` says that no tick is lost; that the counter never overflows
needs `NotifyInv`: how far it has counted since it was last taken, in each stage of
`ProcessTicks`, which is where `MaxLatency` comes in. `TargetInv` ties what the interrupt
compares with to `nextTrigger`, and that to the first timer (`NextTriggerInv`); with `DueInv` the
three give `DueIsNotified`. `ArmedInv` and `StartInv` are the trigger times in terms of
what was asked for, also between reading the clock and setting the timer; they give `NeverEarly` and
`InPhase`, by lemmas about multiples.

**ConfigurationStore.** What flash holds is known only through what the operation in progress has
found out so far (`PhaseInv`), who may use the store depends on the recovery (`RecoveryInv`), and a
write contains all that was requested before it and no more (`WriteInv`). `VersionInv` says
that whatever recovery could find is not older than what was reported. A power failure may come at any
step, and keeps all of it: it sets back everything but flash and history.

**SharedPtr.** The counts are those of the variables plus those of the actions (`NumberInv`), what an action
keeps is known (`ActionInv`), an object that is shared lives and is not being destructed
(`AliveInv`), and nothing refers to an earlier one (`PresentInv`). Copying, locking and making a
`WeakPtr` are one lemma, `AssignStep`: what is assigned is counted by the pointer it comes from, so that
the memory is not freed in between. It is the assumption of that lemma that assignment from an expired `WeakPtr`
does not meet.

**std::lock.** `Sound` says which mutexes a thread has, in terms of its `unique_lock`s and of where
its call is: those that they own, in the order of the arguments, and after a return those that were
released from them. The arguments are different mutexes, which a rotation keeps (`RotatedDifferent`). That a waiting
thread has none is then the case that there are no `unique_lock`s.

**std::thread.** The data is shared by the thread object and the task, and the invariant distinguishes
whether an object is for the task. If so (`Owned`), both count until they let go, the entry that the task
takes from the list of the condition variable belongs to an object that waits, and the object's owner
deletes task and data. If not (`Unowned`), the task is not there yet, or nobody else will delete it and
it does so itself. That a function returns before its task is deleted, and before `join` does, is then a matter
of where the task can be at the moment that the object's owner gets to the deletion.

**ECHO.** `WaitersKnown` and `StreamHasOwner` say that a waiting proxy is in the queue or is the one whose
stream was requested, and that a stream that comes has an owner or is skipped. They depend on whether a message
is in progress, which the code represents three times: by the serializer, by `partlySent` and by the writer that
has not been released. `MessageInv` and `StreamInv` say how these agree, and when they do not: after an
initialization that dropped a message, `partlySent` is left set, and only a second initialization before the
next message would mistake it for the message of another proxy. That is the reason for the bound of two, and the
conjunct `partlySent /\ methodSerializer = None => initializations >= 2` is where the proof uses it.

**Windows of Sesame.** `Conserved` says of each direction that the window that the sender still has, the bytes underway,
those that the receiver has stored, those it has freed and not announced, and those announced by packets on
their way back add up to the buffer. `WindowConserved` says so once the handshake is done; the inductive form says it from
the beginning, with all of the buffer free until a peer is initialized, and follows the handshake through its three
phases (`InitSent`, `Answered`, `Done`); the answer is itself a packet that takes window.
`MessageSent` is reported after the packet was written, and possibly after the other peer has answered it, so that
the window is added to before it is subtracted from and the `uint16_t` may wrap around: the sum is about
what the subtraction will give (`Free`), and lemmas about remainders say that additions in between
commute with it, also for buffers of more than half of the range. Sums of sizes are numbers of bytes,
cardinalities of sets of pairs, so that adding a packet at the end of a line or taking one from its front is a lemma about finite
sets (`TotalAppend`, `TotalTail`) and no induction is needed. `BufferNotOverrun` follows,
as a stored message is one term of the sum.

Only model-checked:

- all liveness, and with it the second halves of the two refinements, since the prover handles
  neither fairness nor `ENABLED`;
- what recursive definitions over sequences compute, which needs induction
  over data: COBS, IVs, chains of pbufs, packets of ECHO, recovery of the CyclicStore;
- the safety properties of the remaining modules: connections, HTTP and MQTT clients,
  and condition variables.

`NoneHeldWhileWaiting`, `BufferNotOverrun`, `WindowConserved` and `RequestsKept` are checked by the runs `threads`,
`sesame` and `echo` as their modules define them. What is proved of `SharedPtr` and `StdThread` is checked by
the run `threads` as parts of `DeletedOnce`.

## Findings

Each is described, with the line and with the comment, document or test that it
contradicts, in `PROJECT.json`. In short, with what shows it:

1. *Event dispatcher*: the assertion that a slot is free comes after the slot was
   overwritten, and may pass when the ring is too small (`event_dispatcher_overload`).
2. *SesameWindowed*: an `InitResponse` that crosses messages restores the full window
   (`MCSesameWindowedCrossing`); a message that is being sent to a peer that restarts is subtracted
   from the new window (`MCSesameWindowedRestart`).
3. *SesameSecured*: a peer that restarts twice (peer 1 initiates and restarts, 1 restart), or whose counterpart
   is writing (`Writers` not empty, 1 restart), falls out of step, and undamaged
   messages are reported (`NoFalseAlarm`).
4. *Timer*: a tick between the comparison and the store at the end of `ProcessTicks` is
   noticed one tick late (`MCTickOnInterruptTimerServiceRace`); never later than that (`DueIsNotified`).
5. *CyclicStore*: a power failure during rotation leaves what recovery calls corrupt
   (`MCCyclicStoreRotation`); erasing all items leads to two first sectors
   (`MCCyclicStoreFirst`); a second iterator is told of the wrong sector (`NothingSkipped` with two iterators and 5 items);
   `AddressesInRange`, `NewItemAvailable` and `NewItemInNextRead` fail with one iterator and three to
   seven items.
6. *EchoOnStreams*: two initializations drop the request of another proxy
   (`RequestsKept` with `MaxInitialized = 3`); a proxy destroyed halfway is called (`DestroyWhileSending`); half a
   header survives an initialization (`MCEchoReceivingHeader`), as do a forwarder's reader (`Kinds`
   with `"forward"`) and a method that is done later (`ServicesReset = FALSE`).
7. *SharedPtr*: assignment from an expired `WeakPtr` (`AssignFromWeakPtr`).
8. *HttpClientImpl*: a status line cut in two is lost (`NeverAborts` with `splitStatus`); `splitEnd`, `reuse`
   and `readEarly` abort the connection, `keepChunk` never completes (`EventuallyComplete`), `close` uses
   the client after it is gone (`NotUsedAfterClose`).
9. *MqttClientImpl*: acknowledgements overflow the queue (`MCMqttClientQueue`); with
   `MaxInFlight = 2` the wrong notification is acknowledged (`AcksRight`) and streams are nested
   (`StreamsInTurn`); `split` and `quit` crash, `cancel` tells the factory twice.
10. *ConnectionLwIp*: a connection that is destroyed while it waits for a buffer
    (`NeverCrashes` of `ConnectionLwIp` with two connections, `PoolSize = 2`, `MaxStreams = 2`, `MaxWrite = 1`
    and `Conduct = {"die"}`, and `RequestsServed` with `die`); `reader`, `writer` and
    `nested` use what is gone; `DataReceived` without data (`NeverEmpty` with `later`); a reader that does not see new
    data (`ReaderSeesAvailable`); an observer attached to another connection than it was made
    for (`RightConnection` with `later` and `lost`).
11. *ExclusiveConnection* with `several`, `null`, `cancel`; *MqttMultipleAccess* with
    `lostActive`, `lostQueued`, `abandon` (`NeverCrashes`, `OperationsEnd`).
12. *HttpClientCachedConnection*: a connection to another host is used again
    (`RightHost` with `later`, two of three factories for one host); `discard`, `later`, `close` and `content` violate
    `WaitingServed`, `NeverCrashes`, `CloseObeyed` and `NeverCrashes`; an observer that detaches in
    `Attached` leaves the connection open (`IdleClosed` with `close`).
13. *Threads*: a notification without the mutex uses an entry that is gone
    (`NeverCrashes` of `ConditionVariable` with `unlocked`; the same in `thread::join` with `preempt`); `until` and `for` wait
    longer than asked (`WaitsNoLonger`); a moved thread has no data (`move`); on ThreadX the stack of a running
    task is freed (`Port = "ThreadX"`); `lock` returns with its first mutex unlocked (`AllHeld` of `StdLock`).

## Not modelled, and why

Of the modelled components: `ExecuteUntil` (a nested `Run`), `SesameWindowed::Reset` and
`ResetReading`, `SetResolution` and `Jumped` of timers, copies of `LockGuard`, copies of
iterators, an `Erase` called by an application, and what the list of modules says.
`call_once` of `osal` (`stdonce.hpp`) is a few lines, and exchanges `started` only if it is true
already, so that no thread ever calls the function: there is nothing to check beyond that.

A large part of the repository is out of reach of a model, or has nothing that a model would tell
apart: containers (`infra/util`), streams, formatting, JSON, XML and protobuf syntax are sequential
functions on bytes that unit tests cover; code generators (`protoc_echo_plugin` and its Java and C#
counterparts), the console, cucumber, tracers and build tools turn text into text; `hal`, most of
`services/ble` and `osal` are interfaces without behaviour of their own; cryptography, mbed TLS, lwIP
and vendor code are third-party; tests and examples are not the program. That is most of the lines of the
repository, and it is why the map covers a small share of them.

Memory is sequentially consistent in the models, as it is for `std::atomic` with its
default order, which the code uses throughout; the plain memory of a slot is published by
its flag. The dispatcher's pop index and `minCapacity` are plain too, and `Schedule` reads both
from any thread at line 29: all that comes of it is the statistic `minCapacity`, which may be
inaccurate, and for which the assertion at line 30 holds whatever value is read. A repeating timer with a
period of zero divides by zero (`Timer.cpp:163`); the model takes periods above zero.

## Plan

1. Theorems: that `MqttMultipleAccess` and `ExclusiveConnection` use `ClaimableResource` as it
   is specified, so that its theorems hold of their claims; `ListInOrder` and `NotifiedOrTimeout` of
   `ConditionVariable`; `SesameWindowed` when both peers start at once, for a corrected `InitResponse`.
2. `SesameWindowed` with `Reset` and `ResetReading`, and an abstract pair of reliable message
   streams that the layers of Sesame implement.
3. `SystemStateManager`, `AtomicByteQueue`, `DerivedTimerService` with `Jumped`, `Sequencer`; the status
   of an upgrade pack in the boot loader; `ConnectionMbedTls`, `WebSocketServerConnectionObserver`, DNS and mDNS.
