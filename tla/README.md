# Formal models of kiwa

kiwa is a monorepo of test harnesses. Most of its packages are in-process
stand-ins for real services: queues, caches, pools, identity providers,
databases, realtime transports. A user's test suite runs against a stand-in and
believes what it says, so the parts that matter are those that hold state across
`await`s: schedulers, dispatch loops, leases, timers, retry budgets. This
directory models those parts in TLA+, checks them with TLC on small instances
and proves their main invariants with TLAPS.

Everything in kiwa runs on one JavaScript event loop. Between two awaits nothing
else runs, so **an action is the code from one await (or timer callback) to the
next**, and interleaving happens at the awaits only.

## Inventory

| Part | Source | State | Operations | What is hard | What makes it correct |
| --- | --- | --- | --- | --- | --- |
| Resource pool | `packages/core/src/pool.ts` | slots with a flag, a list of waiting resolvers | borrow, release (awaits reset), stopAll (awaits teardown) | release awaits in the middle; reset may reject; stopAll meets waiters | one holder per slot, no leak, no borrower asleep next to a free slot, service in order |
| Anvil pool | `packages/dapp/src/anvil-pool.ts` | the same | the same, but stopAll wakes waiters with a made-up slot | the made-up slot aliases an anvil that is being stopped | the same |
| BullMQ sandbox | `packages/queue/src/sandbox-queue.ts` | Map of jobs, processor, scheduler timer, `inflight` | process, addJob, delay timer, tick, runJob, stop | ticks overlap; a list is taken once and used across awaits; ids are replaced | one run per id, exact retries, nothing after stop, every job settles |
| Data queue | `packages/data/src/queue.ts` | queue, dead letters, dedup index, live Set of consumers, `dispatching` | send, receive, consume/unsubscribe, dispatch, drainDlq | a handler may throw, subscribe, send; entry in flight is in no list | each entry in one place, none lost, exact budget, FIFO |
| Fake clock | `packages/data/src/fake-clock.ts` | now, cron entries | schedule, unschedule, advanceMs | callbacks advance the clock or unschedule | time is monotone, each period fires once |
| RabbitMQ stub | `packages/queue/src/rabbitmq/stub-rabbitmq.ts` | topology, messages with a state, consumers with what they received | publish, get, consume, cancel, ack/nack, reset | handlers run inside the dispatch loop; requeue goes through a timer | prefetch, one holder per message, nothing lost |
| SQS stub | `packages/queue/src/sqs/stub-sqs.ts` | messages, visibility times, receipt handles, dead letters, dedup cache | send, receive (polls), delete, changeVisibility | visibility timeout against a late delete | a handle that expired has no effect |
| Cloudflare Queues | `packages/queue/src/cloudflare-queues/` | messages, consumers, scheduler timer | send, registerConsumer, tick/dispatchBatch, stop | overlapping ticks, stale chunks | a settled message is not delivered again |
| Inngest stub | `packages/queue/src/inngest/stub-inngest.ts` | runs, memoised steps | send, run, retry | retries over memoised steps | a step runs once |
| KeyDB stub, in-memory cache | `packages/cache/src/` | a store per master, replication timers, subscribers with a cursor | set, delete, expire, publish, next, flushAll | replication lag; a `next` that timed out | replicas converge; a subscriber skips nothing |
| Realtime engine | `packages/realtime/src/engine.ts` | connection state, channels, pending queue | subscribe, publish, presence, disconnect, reconnect | sleeps between state changes | what was queued is delivered or dropped and counted |
| ORM pool semantics | `packages/orm/src/semantics/connection-pool.ts` | session state, active handles, wait queue | acquire, wait, idle/statement timeout | sequences of legal calls | terminal sessions stay terminal |
| OAuth 2.1 mock | `packages/auth/src/oauth21/` | codes, access and refresh tokens, rotated tokens | authorize, token, revoke, introspect | replay of a rotated token | a code and a refresh token work once |
| The rest | other `packages/*`, `kiwa-py`, `scripts` | little or none | report formatting, code generation, DOM, HTTP and process helpers | I/O rather than control | - |

Components meet at few points. A test owns one stand-in and calls it; the
stand-in calls back the handler or processor that the test registered, and is
called again from inside that callback or while it is awaited. The anvil pool
copies the core pool. The RabbitMQ "advanced" environment wraps the RabbitMQ
stub. There is no shared state between packages.

`PROJECT.json` lists every component with its status, and under `hazards` the
places, line by line, where a step in the wrong order would bite.

## Modules

| Module | Models | Checked by |
| --- | --- | --- |
| `Pool` | both pools (`kind` tells which) | `MCPool`, proofs in `PoolProofs` |
| `Semaphore` | abstract: a counting semaphore with a first-come first-served line | as a PROPERTY of `Pool`, proof in `PoolProofs` |
| `SandboxQueue` | `createSandboxBullMQEnv` | `MCSandboxQueue`, proofs in `SandboxQueueProofs` |
| `JobLifecycle` | abstract: a worker of concurrency 1 with a retry budget | as a PROPERTY of `SandboxQueue`, proof in `SandboxRefinement` |
| `DataQueue` | `InMemoryQueue` | `MCDataQueue`, proofs in `DataQueueProofs` |
| `Delivery` | abstract: queues with acknowledgements | as a PROPERTY of `DataQueue` and of `RabbitQueue`, proofs in `DataQueueProofs` and `RabbitQueueProofs`; with one tick at a time also of `CloudflareQueue`, proof in `CloudflareQueueProofs` |
| `RabbitQueue` | `createStubRabbitMQEnv`: publish, consume, get, settle, reset and the dispatch loop | `MCRabbitQueue`, proofs in `RabbitQueueProofs` |
| `CloudflareQueue` | `createMiniflareCloudflareQueuesEnv` | `MCCloudflareQueue`, proofs in `CloudflareQueueProofs` |
| `KeyDB` | `createStubKeyDBEnv`, with one channel of its pub/sub | `MCKeyDB`, proofs in `KeyDBProofs` |
| `OneStore` | abstract: one store whose entries expire | as a PROPERTY of `KeyDB`, proof in `KeyDBProofs` |
| `RealtimeEngine` | class `RealtimeEngine` | `MCRealtimeEngine`, proofs in `RealtimeEngineProofs` |

### Pool

`inUse`, `waiters` are the variables of the code; `pc` and `lease` say what each
client does and which slot object it has; `phase` says how far stopAll is.
`BorrowFree`/`BorrowWait` are the two arms of `borrow`. `Release` is the code up
to `await reset`, and `GiveBack`/`HandOver` are the `finally` behind it, without
and with a waiter; a rejected reset takes the same path because it is a
`finally`. `StopCore` and `StopAnvil` differ as the two files do: the core pool
drops its waiters, whose promises then never settle (`pc = "abandoned"`); the
anvil pool resolves them with an object made from `slots[0]`, which is slot
object `Alias` here. `StopAnvilThrows` is the TypeError of a second `stopAll`
with someone waiting. Clients release a lease once; a pool whose clients release
twice does give one slot to two clients, and nothing in the code prevents it.

Properties: `Exclusive`, `InUseIffHeld`, `WorkConserving`; `ResetBetweenLeases` on
steps; `WaiterSettles` for liveness; `ImplementsSemaphore`, refinement of
`Semaphore`. There `inside` are the clients that have a slot (an alias is none),
`line` the waiters, `stage` the phase of stopAll without its detail (`Inside`,
`Stage`), and a hand-over is one step: whoever leaves lets the head of the line in.
That nobody overtakes a waiter and that a waiter holds nothing follow from it.

### SandboxQueue

Job objects are numbered in the order of creation, `store` is the Map from ids
to objects. `tick[t]` is a live call of the async `tick()`: the rest of the list
it took, and whether it awaits a processor. `scheduleTick` is guarded by the
timer only, so `addJob`, `process` or a delay timer can arm a second tick while
the first awaits: `MaxTicks` bounds how many. `RunJob` is `runJob` to its await,
`ProcessorSettles` the code after it, `NextJob`/`TickEnds` the loop. Timers fire
only when no microtask is queued (`NoMicrotask`). The clock is one flag per
object, `due`, because `runAfter <= now` is all that is read. Ids are ordered
numbers, as the code sorts the list by id.

Properties: `OneRunPerId`, `NoLostWakeup`, `RetriesAreCounted`;
`NoStartAfterStop`, `StartOnlyWhenDue` on steps; `JobsSettle` for liveness;
`ImplementsLifecycle`, refinement of `JobLifecycle`, when `Quiet` holds.
`RetriesAreCounted` bounds the attempts from below (a job is not failed before its
budget is used); that ticks which overlap make no attempt too many is said by
`ImplementsLifecycle` for quiet callers, and `CompletedIsFinal` refutes it for others.
`Quiet` is a condition on the callers: they leave a live tick alone and add no
delayed job. Without it the refinement fails, and `CompletedIsFinal` shows why.

### DataQueue

`dispatch()` awaits handlers only. `current` is the entry that the loop has
shifted (it is in no list of the code while a handler runs) and `pos` how far the
iteration over the Set of consumers has come; `dispatching` is up exactly while
`current` is an entry. A handler that settles does one of four things:
`NextHandler`, `Acked`, `NotAcked`, `HandlerThrows`; the action runs on to the
next call of a handler. `done` and `thrown` are history variables.

Properties: `OnePlace`, `LostOnlyByThrow`, `BudgetIsExact`, `ConsumersAreFed`;
`EntriesLeave` for liveness; `ImplementsDelivery`, refinement of `Delivery`. There an
entry waits when it is in `queue`, is held when it is `current`, is dead when it is in
`dlq`, and is gone otherwise, lost by a throw included (`Place`). `Delivery` has every
first delivery in the order of the sends, so `FirstDeliveryInOrder` needs no run of
its own and is a theorem only.

### RabbitQueue

`dispatchToConsumers` is synchronous and calls handlers inside its loop, which
may publish or consume and so start a dispatch within the dispatch. `stack` holds
one frame per dispatch in progress, with the consumer it has come to and the
message whose handler it has called; `Deliver`, `HandlerReturns`, `HandlerThrows`
and `DispatchEnds` move its last frame, and test code runs (`CodeRuns`) when the
stack is empty or a handler has been called. A frame also carries the queues that
the publish which started it has yet to reach, so a throwing handler loses them
as it does in the code. `TimerFires` is the `setTimeout` of `ack` and `nack`, and
runs when the stack is empty. `msg` numbers messages over all queues in the order
of `enqueue`; `by` says who holds one and is in the code the closure `delivery`;
`broken` is a history variable. Which queues a publish may reach is the constant
`Routes`: every publish takes any of them, which is all that declaring, binding and
unbinding between publishes can do to it. What `consume` is given is the constant
`option`; `MayConsume` is its test for exclusive consumers. A delivery is settled at
most once and never by a `noAck` consumer: a second settlement is a channel error in
AMQP, and the stub does not guard against it. `Reset` empties the Maps between two
turns, as tests do in `afterEach`; a message object is then `dropped`, not gone,
because its timers and whoever holds its delivery go on referring to it, and a timer
of such a message still starts a dispatch on the queue of that name.

Properties: `PrefetchHonoured`, `NoLostWakeup`; `SettledIsFinal` on steps;
`MessagesMove` for liveness; `ImplementsDelivery`, refinement of `Delivery`, in which a
message that waits for a requeue waits already, and one that a reset dropped is gone
for its queue, whoever holds its delivery (`Place`); `FreeSlotsAreUsed`, which the
code breaks. `NoLostWakeup` and `MessagesMove` except a queue on which a
handler has thrown out of the dispatch, until the next dispatch there: the code
has nothing that would look at it.

### CloudflareQueue

A tick lists what is pending in the queues that have a consumer and hands the
lists over batch by batch. `ticks` has a slot for each tick that may run: `list` is
what is left to deliver for each queue, `size` the batch size that the loop over the
queue in turn has read, `batch` what the handler in progress was given. Lists and
batches are sets: their order is that of the ids (`Before`), so a chunk is the
`First` of them, and the queues' turns are those of the Map of consumers, which
keeps its order when a consumer is replaced (`IsFirst`). `TimerFires` is `tick()` to
its first `await`, `HandlerSettles` is `transitionAfterHandler` behind that await,
`Resume` (a microtask, so it comes before any timer) the loops up to the next
`await` or the end of the tick. `GoOn` has what both share. As in the sandbox
queue, the timer can be armed while a tick awaits, by a send, a delay or a
registration, and nothing counts ticks: two of them can have one message on their
lists (`shared`).

`ackCalled` and `retryCalled` are variables of one delivery, `decision` belongs to
the message. `call` and `older` are those variables for the latest delivery and
the one before, so that an `ack()` kept by a slow caller and called during the next
delivery is in the model (`LateCall`, `late`). Batches older than that, and those
of a message that is settled, are not used. `Before` is the string comparison of
the ids, which puts msg-10 before msg-9; the instance has ids of one length, and
`InOrder` claims nothing for others. A `maxBatchSize` of 0 is an `Error` in
the loop of `tick()`: it ends, and does not arm the timer.

Properties: `WalksAsDecided` on steps, which is three things (states follow the
documented walk and each delivery is counted, the outcome is the one the handler chose, first deliveries are in
order); `MessagesSettle` for liveness. `Place` and `Letters` are the refinement mapping
to `Delivery`, which no run uses, because two ticks that overlap break it.

### KeyDB

A write makes a version, which stands for a value with its `expiresAt`; `entry`
tells whether its time is over, and `Clock` moves it. `store` is the Map of every
master. With a lag, `Replicate` changes the master it was called on and leaves a
timer in `pending`; all timers have one delay, so they fire in the order of the
calls (`ReplicationFires`). `Get` is a read that deletes what is over; other reads
change nothing. `ExpiryTick` deletes what is over in every store and goes on while
anything is left.

The pub/sub keeps a Set of subscriptions in a Map. `slot` are the subscriptions
ever made, `home` the Set each was added to and `channel` the Set that the Map has
now: `close()` called a second time looks at its own, empty Set and deletes the
entry of the Map, which may be another Set by then (`evicted`). `resolvers` is the
list of waiting `next()` calls, in which one that timed out stays.

Properties: `Converged`, `Captured`; `ExpiredLeave` for liveness;
`SynchronousIsOneStore`: without a lag the cluster is a `OneStore`, as
`types.ts:108` says of it. The value of a key there is what every master shows
(`Agreed`), or `Split` when they differ, which no step of `OneStore` brings about.
`EventualConsistency` and `EverySubsequentPublish` are `Converged` and the first part of
`Captured` without their exceptions, as the docs have them: the code breaks both, and
two theorems say for which callers they hold.

### RealtimeEngine

Every call sleeps for the same `artificialLatencyMs`, so sleepers wake in order:
`latency` is their queue, each with the code it will go on with. Only the backoff
of `reconnect()` has jitter, so it may end at any time (`backoff`). `Subscribe` and
`TrackPresence` begin with `ensureConnected()`, which sleeps when there is no
connection; `ConnectedForSubscribe`/`ConnectedForTrack` are the code behind it and
`Subscribed` the code behind the second sleep of `subscribe()`. `Publish` sleeps,
queues or drops; `Reconnected` is the flush. `channel` is the Map of channels, with
handlers, presence, the timers of the scenario and `scenarioIndex` (`next`);
`ScenarioFires` is a timer of a scenario, which may itself disconnect or reconnect.
`stranded` are the publishes that were queued when `ensureConnected()` made the
connection: it flushes nothing, so they stay and later ones pass them. `ghosts` are
the channels cleared while a `subscribe()` to them slept: it will set their timers
although nobody listens. Handlers do not call the engine while it delivers to them.

Properties: `PublishOrder`, `NoGhostTimers`; `PublishesLeave` for liveness. `Fifo` is
`PublishOrder` without its exception, as the docs have it: the code breaks it, and a
theorem says when it holds.

## Runs

| Run | Question | Bounds | Result |
| --- | --- | --- | --- |
| `pool` | are slots shared safely, in order and without leak or starvation? | 4 clients, 2 slots, both kinds | passes, 9386 states |
| `sandbox_queue` | what survives overlapping ticks, replaced ids, delays and stop? | 2 ids, 3 jobs, 2 attempts, 3 ticks | passes, 168023 states |
| `sandbox_queue_quiet` | with quiet callers, is it a worker of concurrency 1? | 2 ids, 3 jobs, 1 or 2 attempts | passes, 23047 states |
| `sandbox_queue_completed_is_final` | is a completed job never run again? | 2 ids, 3 jobs, 2 ticks | violated (finding) |
| `data_queue` | is an entry in one place, lost only by a throw, retried exactly? | 2 handlers, 1 key, 3 sends, 2 receives | passes, 24608 states |
| `data_queue_every_send` | is every send processed or dead-lettered? | the same | violated (finding) |
| `data_queue_collapse` | do two sends of one key collapse? | the same | violated (finding) |
| `rabbit_queue` | prefetch, order, final settlement, nobody asleep next to a message? | 2 consumers, 2 queues, 2 messages, 2 deliveries before a last one, resets | passes, 389579 states |
| `rabbit_queue_free_slots` | is a consumer that holds fewer than its prefetch given the next message? | 2 consumers with prefetch 2, one exclusive | violated (finding) |
| `cloudflare_queue` | what survives overlapping ticks, late acks, replaced consumers and stop? | 1 queue, 3 registrations, 2 messages, 2 ticks | passes, 273817 states |
| `keydb` | do masters converge, do subscriptions capture every message, do expired keys leave? | 3 masters, 1 key, 3 calls, 2 resolvers | passes, 145278 states |
| `realtime_engine` | are publishes sent in order, are timers cleared, is the queue emptied? | 1 channel, 2 handlers, 1 user, 3 scenario events, queue of 2, 4 calls | passes, 105456 states |

Why the bounds are enough. Four clients and two slots leave two waiters, so that
order among waiters, a hand-over and a newcomer can meet, and stopAll finds more
than one waiter. Three jobs and two ids give a list of two, a job added while
the first runs, and an id that is replaced; three ticks let two overlap and a
third be armed. Three sends with one key give an entry in flight, one waiting
with its key and one behind. In `rabbit_queue` one consumer has prefetch 1 and the
other `noAck`, registered in either order on one queue; two messages fill the
first and leave one, or are one publish that goes on to a second queue; a message
is requeued once, so it may be delivered again to either. In `cloudflare_queue` two messages make two batches of one or one of two, the
second message is delayed, a budget of 2 lets one be retried and then die, and two
ticks are the fewest that can share a message. In `keydb` two calls are two writes
that cross and the third comes after them; a third master is one that made neither
write; subscribe, subscribe again after a close, and publish are also three calls
(`close` and `next` do not count). In `realtime_engine` four calls are a track or
subscribe that connects, a publish queued meanwhile, one sent past it and a
`reconnect`, or a queue of two and a publish that is dropped.

`MaxJobs`, `MaxSends` and `MaxCalls` are the only bounds on histories; `MaxTicks`
bounds how many ticks live at a time, not how many run. `CHECK_DEADLOCK FALSE`
appears where the system really may stop: in `MCPool.cfg` a stopped core pool whose
clients are all abandoned, and in the cfgs of `MCCloudflareQueue`, `MCKeyDB` and
`MCRealtimeEngine` callers who make no more calls when no timer is set.

## Fairness

Each assumption is about the environment the code relies on, never about what
callers choose to do. In `Pool`: a lease is released in the end (tests do that in
`afterEach`), and a reset or teardown settles. In `SandboxQueue`: the event loop
fires timers and runs microtasks, processors settle, the clock goes on. In
`DataQueue`: a handler that was called settles, in whatever way. In `RabbitQueue`:
the synchronous loop runs on, timers fire, and whoever holds a delivery settles
it (a requeue counts only until `MaxDeliveries`). In `CloudflareQueue`: the clock
goes on and delay timers fire, the scheduler timer fires, handlers settle and
microtasks run. In `KeyDB`: replication timers and the expiry tick fire; nobody has
to call `get`. In `RealtimeEngine`: sleeps end; nobody has to call `reconnect`, and
`PublishesLeave` asks for one that sleeps already. All are weak fairness: the steps stay enabled until taken. `WaiterSettles` needs no fairness
on borrow. `EntriesLeave` excludes by its own first disjunct behaviours in which
consumers subscribe for ever: the loop iterates over the live Set, so a handler
that unsubscribes and subscribes again is called again for the same delivery and
`receivedCount` never grows.

## Proofs

`PoolProofs` proves, for any set of clients and any positive size, every safety
property of the `pool` run, `NoBarging` and `WaitersAreBlocked`. The inductive
invariant is `IInv`: types, mutual
exclusion, flags, waiters and work conservation are each the hypothesis that
another needs (handing over a slot keeps `Exclusive` only because a waiter holds
nothing, which is `WaitersAreBlocked`), so none is inductive alone.
`SpecImplementsSemaphore` is the refinement. It has to count: that a permit is free
exactly when a slot is, which `Semaphore` says with cardinalities and the code with
flags, is shown by injections between those who have a slot and the slots they have
(`SpecAtMostSize`). `SpecAliasLate` bounds the exception in it: a made-up slot is seen
in a stopped anvil pool only.

`SandboxQueueProofs` proves, for any ids, attempts and bounds and with any number
of overlapping ticks, every safety property of the `sandbox_queue` run. The
properties themselves are not inductive. The invariant adds that the list of a
tick has distinct ids and only jobs that were due, that an object that waits is
due or has a delay timer that can still find it, and that every pending job has
a timer or a live tick to go on with. Both specifications are parameterised by
constants with the assumptions `PoolAssumption` and `SandboxAssumption`, which
TLC evaluates in the runs.

`SandboxRefinement` proves that the sandbox queue implements `JobLifecycle` when its
callers are quiet (`Quiet`): initial states map to initial states and every step to
a step or a stutter. The invariant behind it, `Alone`, is what quiet callers buy: one
tick at most is live, the timer is not armed next to it, so what its list still holds
waits and is there once. None of that is true without `Quiet`, and the finding about
completed jobs is what goes wrong then; with it, `QuietCompletedIsFinal` derives from
the refinement that a settled job stays as it is and one processor runs at a time.

`DataQueueProofs` proves, for any handlers, keys and budget, every safety property
of the `data_queue` run. Its invariant `IInv` says of the queue, the dead letters,
the entry in flight and what has left (`Sound`): an entry is in one of them and in
one only, the budget is kept, and the entries nobody has seen wait in the order of
their sends. Each part needs another: a count stays within its type only because
what waits has a delivery left, `BudgetIsExact` needs that an entry which is
counted is in no second place, and `FirstDeliveryInOrder` (a theorem that no run
checks, since the refinement below says it as well) is kept by a delivery
only because every unseen entry waits and the head is the oldest of them.
`SendsCollapseOutOfFlight` and `SendsCollapseWhenPolled` say for which callers the
promise of finding 3 holds: those who send no key while an entry of it is in the hands
of a handler, and those who only poll. The invariant there is that what
waits, and what is in flight, has a key of its own and the index knows each of them.
`SpecImplementsDelivery` is the refinement of `Delivery`. One step of the data queue
settles the entry in flight and gives the next one, and after a retry with nothing else
waiting these are one entry; so the proof goes by way of the letters between the two
(`SettledMoves`, `TakenMoves`), and `OnePlace` is what keeps every other letter where
it is.

`RealtimeEngineProofs` proves, for any channels, handlers, users, scenarios and
limit, every safety property of the `realtime_engine` run. `NoGhostTimers` is not
inductive, since the timers are set by a call that wakes up: `Served` adds that a
channel which a sleeping `subscribe()` will come back to is a ghost or has a handler
and a connection. `PublishOrder` speaks of what is sent: `OrderInv` extends it over
the sleepers and the queue, and adds that a queue over a connection is stranded,
which is why only stranded publishes are passed. Two more theorems take the exceptions
away under a condition on the callers: `FifoWhenNothingStrands`, when
`ensureConnected()` never finds publishes in the queue, and `TimersServedUninterrupted`,
when no second sleep of a `subscribe()` is interrupted. What interrupts it
(`Interrupts`) is an `unsubscribe()` of the very handler, by a handle that an earlier
`subscribe()` returned, a `disconnect()` or a `reset()`, and a `disconnect` in the
scenario of any channel. To await one's `subscribe()` before one clears anything keeps
off the first three and not the last: a caller must also script no `disconnect` that
falls into such a sleep. All else may interleave, other channels' scenarios, a
`reconnect()` that ends its backoff and handlers that leave among it. The invariant is
`Joined`: the handler of a `subscribe()` in its second sleep is in its channel still.

`KeyDBProofs` proves, for any masters, keys and calls and with and without a lag,
every safety property of the `keydb` run. `Converged` speaks of keys without
pending replications; `Replicas` adds what the pending ones of a key that nobody
raced have in common: they come from one master, and the last of them brings what
that master shows. That is why the timers may fire in any company. `Captured` needs
two things more: who is open and was not evicted is in the very Set that the Map has
(`Heard`), or a publish would miss it, and what `next()` has returned comes before
all it has still to read (`InOrder`), or the cursor that a resolver moves to the end
could bring a message back. `SpecSynchronousIsOneStore` is the refinement of `OneStore`
without a lag, by the invariant that all masters then hold the same versions but for
those whose time is over, and `MastersAgreeWithoutLag` what a reader of two masters
sees of it. `ClosedOnceAllHear` removes the `evicted` of `Captured`: while nobody closes
a subscription twice, every open one has every message since it was made.
`ConsistentInTurn` removes the `raced` of `Converged`: while nobody writes or deletes a
key over the pending replication of another master's write, and nobody flushes over any,
the masters agree on every key without an exception.

`RabbitQueueProofs` proves, for any consumers, queues, routes and options and however
deep dispatches nest, every safety property of the `rabbit_queue` run.
`NoLostWakeup` speaks of moments when no dispatch runs; the invariant has to say what
holds while they do (`Attended`). Of the dispatches on one queue it follows the
lowest on the stack, which is the last to end and so looks at everything that the
inner ones leave: every consumer it has stepped over is cancelled, or stays full, or a
timer is pending. "Full" is not enough there, since a handler that returns may have
its message acked without a timer when its consumer has `noAck`. So a consumer
`StaysFull` only by messages that are not in a handler's hands (`Pledged`), and the
lowest dispatch, which has none in hand when it steps over somebody, finds the two the
same. `PrefetchHonoured` needs `Listed`, that what a consumer holds is in its
`received`, which is what the code counts; `FirstDeliveryInOrder` needs that a message
nobody was given is ready or has expired (`Good`).
`SpecImplementsDelivery` is the refinement of `Delivery`, with all of its nesting: whatever
runs, one step shifts the messages that are there (`Shifted`) and appends one at most
(`StepShifts`), and `Good` has those of a queue first given in turn.
`FreeSlotsAreUsedWithoutRequeue` proves the promise of finding 4 up to the first
requeue: until then `received` has one entry for each message a consumer was given, so
what it counts is what the consumer holds.

`CloudflareQueueProofs` proves, for any queues, consumers' options and delays and with
any number of ticks that overlap, `TypeOK` and `WalksAsDecided` of the
`cloudflare_queue` run. A message that two ticks did not have on their lists at once
is `Owned`: it is on one list and waits, or in one batch and is delivered, and only
a dead one has been copied. That makes the step of a handler that settles one of the
walk, and, as long as nobody was late, its `decision` the latest call. First
deliveries stay in order because a list that has a message has all those before it
that nobody was given (`InTurn`), and a chunk of it, being the first ones, too
(`ChunkIsClosed`); so the third part of `WalksAsDecided` holds even of shared messages.
`OneTickWalks` shows that overlap is all that goes wrong: in behaviours with one tick at
a time (and no batch size of 0, which would end a tick before its lists are empty)
nothing is ever shared, so every message is `Owned` and keeps to the walk.
Then the queues implement `Delivery`: `OneTickDelivers` in any order, and
`OneTickDeliversInOrder` in that of the sends, when nothing is delayed and the ids
compare as their numbers do. Each condition is needed: with two ticks, with a delay, or
with msg-9 and msg-10 among the messages TLC finds a step that is none of `Delivery`.
`SpecBatchesFill` is about the chunks: by ranks in the order of the ids (`Ranks`), one
has exactly the batch size, or all that is left. The size meant is the one the loop has
read: a consumer that is replaced while a tick goes over its queue is still given
batches of the size of the one before.

Model-checked only: the liveness properties (`WaiterSettles`, `JobsSettle`,
`EntriesLeave`, `MessagesMove`, `MessagesSettle`, `ExpiredLeave`, `PublishesLeave`).
Liveness under fairness is out of reach of the prover.

## Findings

1. A completed job of the BullMQ sandbox can run again. `runJob` looks at
   `inflight` but not at the state of the job, and `scheduleTick` does not see a
   live tick (`sandbox-queue.ts:60`, `:87`). Test `T-QUEUE-SB-701` says it does
   not happen. Trace: two jobs are runnable; while the first runs, a third is
   added, which arms a second tick; that tick completes the second job; the
   first tick then runs it again.
2. An entry of the data queue is lost when a handler throws (`queue.ts:109`),
   where the README and `types.ts:24` promise at-least-once with a dead letter
   queue.
3. Two sends of one key need not collapse (`queue.ts:33`, `:113`), where
   `expectations.ts:8` says they do: the entry in flight is not looked at, and
   its ack frees a key which another entry still carries.
4. A RabbitMQ consumer is passed over while it holds fewer messages than its
   prefetch (`stub-rabbitmq.ts:296`), where `types.ts:85` has prefetch as the
   "max unacked messages the consumer holds at once". `received` has one entry
   for each delivery: a message requeued and delivered again to the same consumer
   counts twice, and one that somebody else holds by now counts as well.

Not counted as findings, because no doc speaks of them: a core pool that is
stopped leaves its waiting borrowers pending for ever; a stopped anvil pool gives
them an anvil that is being stopped; a second stop with a borrower waiting
rejects with a TypeError; a RabbitMQ consumer cancelled inside its handler goes
on receiving, and one with `noAck` whose handler throws leaves its message
unacked for ever; a slot whose reset failed is handed on (test
`T-POOL-014` intends that).

### Where the later modules except what a doc promises

The properties of `cloudflare_queue`, `keydb` and `realtime_engine` have exceptions. The
runs say that nothing goes wrong outside them, and nothing of what happens inside. Each
exception below stands for behaviour of the code that a doc or a comment denies; none has
a violation run. The first three have the promise as a definition, and TLC finds it
violated when it is added as an INVARIANT to the cfg of the module.

- Broadcasts of a channel can be sent out of order (`engine.ts:160`; `stranded` in
  `PublishOrder`; `Fifo`), where `realtime/src/types.ts:62-63` and the package's README
  guarantee FIFO per channel. A publish made while the engine connects is queued,
  `ensureConnected()` flushes nothing, and later publishes pass the queued one.
- KeyDB masters can differ for ever (`stub-keydb.ts:80`; `raced` in `Converged`;
  `EventualConsistency`), where `keydb/types.ts:89-90` says that every master sees every
  write in eventual consistency order, and `:184` that `flushAll` wipes every key on every
  master. A write whose lag a `flushAll` falls into comes back on the other masters;
  after writes of two masters within the lag each has the other's value.
- A second `close()` of a KeyDB subscription takes later subscribers off the channel
  (`stub-keydb.ts:262`; `evicted` in `Captured`; `EverySubsequentPublish`), where
  `keydb/types.ts:175` promises every subsequent publish.
- A Cloudflare message that is acked or dead can be delivered again by a second tick that
  had it on its list, and copied to the dead letters twice
  (`miniflare-cloudflare-queues.ts:89`; `shared` in `WalksAsDecided`), where the comment
  at `:14-16` lets the walk end there.
- An `ack()` through the message of an earlier delivery overrides the `retry()` of the
  present one (`:151`; `late` in `WalksAsDecided`), where `:145-147` says that retry
  always wins.
- msg-10 is delivered before msg-9, as the ids are compared as strings (`:121`; `InOrder`
  is about ids that compare as their numbers do), where `:119-120` claims FIFO.
- A consumer with `maxBatchSize` 0 stops the delivery for the queues behind its own
  (`:251`; `SomeSizeIs0` in `MessagesSettle`), where `:83-84` says that the next tick picks
  up what waits for a consumer.

The proofs say when the promises do hold. Of the findings: for 1
`QuietCompletedIsFinal`, for 3 `SendsCollapseOutOfFlight` and `SendsCollapseWhenPolled`,
for 4 `FreeSlotsAreUsedWithoutRequeue`. Of the exceptions: `FifoWhenNothingStrands`,
`ConsistentInTurn`, `ClosedOnceAllHear`, and for `shared` and the order of the ids
`OneTickWalks` and `OneTickDeliversInOrder`.

Behaviour that a property excepts or that may surprise, where no doc says what should
happen:

- A `next()` that timed out swallows the wake-up of the one behind it (`timedOut`).
- A batch may be larger than the `maxBatchSize` of a consumer registered while the loop
  over its queue was running.
- A publish that was queued stays until a `reconnect()`, which nobody has to call.
- A scripted `disconnect` clears the timers of its own scenario, so a `reconnect`
  scripted behind it does not happen.
- Scenario timers can run on for a channel nobody listens to (`ghosts`;
  `TimersServedUninterrupted` says which steps it takes).

## Plan

The modules named in the first plan are there but for the smaller ones. What is
left, in this order:

1. `TopicMatch`, a pure module: the matcher of the RabbitMQ stub against a
   reference definition, and with it the routes that bindings give a publish.
2. `SqsQueue`: visibility timeout against late deletes.
3. `ConnectionPool`, `RefreshRotation`, `FakeClock`: smaller.

Compositions: `RabbitQueue` with the dead-letter wrapper of `rabbitmq-advanced`;
`FakeClock` driving `DataQueue` consumers.

Every safety property of the passing runs has its theorem, and so have the refinements
of `Semaphore`, `JobLifecycle`, `OneStore` and, by three queues, `Delivery`. What is left
to prove comes with the modules above.

## Not modelled

Bodies, names, wall-clock values, logging and error texts. Helpers that only
read (`waitForJob`, `assert*`, `listJobs`, `size`). Adapters to containers and
child processes, report formatting, code generation and DOM helpers: I/O and
data without control. Misuse that the code does not guard against and callers in
the repository do not show: releasing a lease twice, overlapping calls of
`stopAll`.
