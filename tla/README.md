# Formal models of magnetar

magnetar is a client for Apache Pulsar. Its protocol core (`magnetar-proto`) is
sans-io: a `Connection` is a state machine that takes bytes and timeouts and
yields bytes and events. Two engines drive it, `magnetar-runtime-tokio` (worker
threads, sockets) and `magnetar-runtime-moonpool` (a deterministic,
single-threaded simulation); `magnetar` is the typed façade on top. This
directory holds TLA+ models of that core, TLC configurations that check them on
small instances, and TLAPS proofs of their main invariants for every instance.

Line numbers refer to the commit next to this directory. `PROJECT.json` maps
every definition to the lines it models.

## 1. Inventory

| Component | State it keeps | Operations | Talks to | What makes it correct |
|---|---|---|---|---|
| Publish memory budget (`memory_limit.rs`, `SendFut`) | an atomic byte counter, a mutex-protected map of parked wakers | `try_reserve`, `poll_reserve`, `park`, `cancel_waiter`, `release` on drop | every send of every producer of the client | limit never exceeded; no lost wakeup; a registration never outlives its future; every send that can fit is admitted |
| Consumer flow permits (`consumer.rs`, `receiver_queue.rs`) | `granted_permits`, `permit_balance`, `consumed_since_flow`, the receive queue, chunk buffers | `deliver`, `pop_message`, `maybe_flow`, `initial_flow`, `adjust_receiver_queue`, `begin_seek`, markers | broker through `CommandFlow`; application through `receive` | no permit of the window is lost; the mirror agrees with the broker; the queue stays within its bound |
| Consumer attach and re-attach (`conn.rs`, the subscribe, seek and receive futures) | `initial_grant_due`, the subscribe waiter, `flow_on_subscribe_ack`, `pending_seek`, retry legs | subscribe, ack, retry, `CloseConsumer`, in-place recovery, seek and its re-subscribe, cancel, close, reset, rebuild | broker, supervisor, application futures | exactly one initial flow per attach; the flow owed always has an owner; a closed consumer leaves nothing at the broker |
| Producer send pipeline (`producer.rs`) | `pending`, `pending_index`, the batch builder, the chunk pipeline, sequence ids | queue, flush, receipts, errors, timeouts, snapshot and replay | broker, memory budget, supervisor | receipts resolve the right send exactly once; replay keeps order and sequence ids |
| Acknowledgements (`trackers/`, `consumer.rs`, `conn.rs`) | grouped acks, ack-timeout buckets and their locator, negative-ack timers, the unacked positions of each batch, acks parked under a transaction | ack, cumulative ack, transactional ack, nack, ticks, close | broker, consumer queue | the broker acks only what the application did; nothing delivered is stranded; an acked message is on no timer; a close loses no ack |
| Stall watchdog (`conn.rs`, `consumer.rs`) | progress marks, recovery budget | detect, recover in place, give up | attach | fires on a wedge, never on an idle consumer |
| Handshake, requests, keepalive (`conn.rs`) | `HandshakeState`, request ids, outcomes, ping clock | handshake, challenges, answers, operation timeouts, ping/pong | driver, every future | an outcome is delivered once; a dead peer is noticed |
| Supervised reconnect (`driver.rs`, `supervisor.rs`, `backoff.rs`, `anti_thrash.rs`) | attempt budget, backoff schedule, ring of attaches and drops, the `pending_rebuild` flag, the `no_driver` latch, one shared waker | driver loop, dial, reset, rebuild, cooldown, give up, close | connection, lookups, every handle | redials are bounded in number and rate; a thrashing broker is cooled; a close ends it; nobody waits for a driver that is gone |
| Transactions (`transaction.rs`, `txn.rs`, `stream_consumer.rs`) | the admission gate, participants, the claim of the running call, the canonical EndTxn request and its lease | admit, settle, commit, abort, each cancellable at every await | coordinator, scalable consumers | a commit covers every admitted ack; one decision is asked for; every participant hears the outcome |
| Lookup (`client.rs`, `lookup.rs`) | request, re-issue and retry budgets, redirect depth | lookup, re-issue after a lost session, retry, redirect | supervisor, brokers | returns through reconnects; bounded redirects |
| Pool, failover | dials in flight, cluster health | connect, evict, switch | brokers | one dial per broker |
| Scalable topics (`stream_consumer.rs`, `scalable.rs`, `dag_watch.rs`) | segment DAG, assignment, one child consumer per segment, a receive budget, delivery leases, acknowledgement operations | open, grant, deliver, ack, split, move, resync, seek, close | controller, per-segment consumers, transactions | parents before children; the budget holds; every child, operation and lease has an owner |
| Wire format, schemas, auth, crypto, admin, CLI | – | pure conversions and I/O | – | out of scope here |

What is hard in this code:

- **Lock gaps.** The engine releases the connection mutex between the subscribe
  ack a task has observed and the `initial_flow` it then calls
  (`client.rs:2087`), and between `Connected` and the rebuild of the handles
  (`driver.rs:1673`). On worker threads anything may run there.
- **Three parties grant one window.** The ack, a Failover promotion and the
  subscribing task can all reach `Connection::initial_flow` for the same attach.
- **Superseded requests.** Resets, retries, seeks, broker closes and recoveries
  each re-issue a subscribe; late answers of the replaced one still arrive.
- **Dropped futures.** Any await can be cancelled; each has a drop handler that
  must hand its obligations over.
- **Two ledgers of one quantity.** Broker permits and the client's mirror are
  kept apart by a wire; entries that never reach the application (dead letters,
  undecodable batches, chunks, markers) spend permits too.
- **Sends that move.** A reset takes a send from the pending queue to the
  snapshots, an answered open takes it back; its future's waker has to follow,
  from the op to the slab and back, and so does its place in the order.
- **A lock-free counter with a waiter map** in the memory budget.
- **Actions that run after the lock.** The scalable aggregate decides under its
  mutex and returns actions that spawned tasks execute later, against a state
  that may have moved on.
- **Two trackers for one message.** The unacked timer, the nack timer, the
  grouping window and the batch mask each hold a part of a message's fate.
- **A commit nobody awaits any more.** The call that ends a transaction can be
  dropped at every await, and another one may already be waiting for its claim.
- **Close against reconnect.** The user's close is one value of a state variable
  that the socket, the broker's frames and the supervisor also write.
- **One waker for several tasks.** Lookups and `flush` park on the driver's own
  `Notify`, so a `notify_one` meant for the driver may wake another task.

The full list, each at the line where it bites and with the properties that
cover it, is under `hazards` in `PROJECT.json`.

## 2. Modules

| Module | Models | Extends |
|---|---|---|
| `MemoryLimit` | the publish budget and the send futures that reserve from it | – |
| `MCMemoryLimit` | TLC instance: three sends | `MemoryLimit` |
| `MemoryLimitProofs` | proofs for any set of sends, sizes and limits | `MemoryLimit` |
| `ConsumerPermits` | one consumer's permit ledger and attach protocol, in an open environment | – |
| `ConsumerSession` | that consumer, a broker and two FIFO wires; fairness; end-to-end properties | `ConsumerPermits` |
| `MCConsumerSession` | the module TLC runs; its configurations are the scenarios | `ConsumerSession` |
| `ConsumerSessionProofs` | proofs about the consumer for any receiver queue, either policy and any frame sequence; the session is a behaviour of the open specification, so they hold of it | `ConsumerSession` |
| `ProducerSends` | one producer's send queue, its attach protocol and the send futures, in an open environment | – |
| `ProducerSession` | that producer, a broker with a log and two FIFO wires; fairness; end-to-end properties | `ProducerSends` |
| `PublishPromise` | what a producer promises its application, and nothing else; `ProducerSession` implements it | – |
| `MCProducerSession` | the module TLC runs; its configurations are the scenarios | `ProducerSession` |
| `ProducerSessionProofs` | proofs for any number of sends and disruptions, the refinement of `PublishPromise` included | `ProducerSession` |
| `StreamAggregate` | the aggregate of a scalable stream consumer: its methods as operators on one record | – |
| `StreamConsumer` | the engine around it, the broker and the application | `StreamAggregate` |
| `MCStreamConsumer` | TLC instances: the split of a segment | `StreamConsumer` |
| `StreamAggregateProofs` | what each method of the aggregate does to a sound state | `StreamConsumer` |
| `StreamConsumerProofs` | the runtime's theorems, for any layouts, plans, budgets and disturbances | `StreamAggregateProofs` |
| `AckTrackers` | the trackers behind acks and nacks, as operators | – |
| `AckSession` | one consumer's acknowledgements from the application to the broker | `AckTrackers` |
| `MCAckSession` | TLC instances: a batch of two and a plain message | `AckSession` |
| `AckSessionProofs` | proofs for any entries, batch sizes and bounds | `AckSession` |
| `TransactionEnd` | commit and abort of one transaction, from the gate to the coordinator | – |
| `MCTransactionEnd` | TLC instances: two callers, two consumers | `TransactionEnd` |
| `TransactionEndProofs` | proofs for any callers, consumers and acknowledgements | `TransactionEnd` |
| `Supervisor` | the driver loop, the supervisor around it, a close and a lookup | – |
| `MCSupervisor` | the module TLC runs | `Supervisor` |
| `SupervisorProofs` | proofs for any configuration of backoff and detector | `Supervisor` |

Operators under a comment that starts with "Mutant" are deliberately wrong
variants of the definition that follows them. None is part of a specification; each documents
the defect that the property it is paired with in `PROJECT.json` detects.

### MemoryLimit

A sender is one `Producer::send` call. `pc[s]` is its place in `send`,
`poll_reserve`, `park`, `release`; `used` is the atomic counter, `parked` the
waiter map, `lock` the holder of its mutex. Each action is one atomic access or
one critical section, so the load and the compare-exchange of `try_reserve` are
separate steps, and so are the decrement, the drain and each wake of `release`.
A send's payload size is `Bytes[s]`; `limit` and `policy` are chosen initially.
Which event ends a send (receipt, error, timeout, lost connection) is
irrelevant to the budget: all drop the reservation.

### ConsumerPermits

`c` is a `ConsumerState` record with the source's field names. Each method of
`ConsumerState` that moves a permit is an operator from states to states
(`MaybeFlow`, `Deliver`, `PopMessage`, `InitialFlow`, `BeginSeek`, ...), and an
action is one critical section of the connection mutex: a frame handler
(`Handle...`), one poll of a future (`Receive`, `ObserveSubscribed`,
`GrantInitialFlow`, ...), or a driver step (`Reset`, `Rebuild`,
`RetrySubscribe`, `AdjustTick`, ...). The handlers whose source calls
`maybe_flow` at the end do it in the same action; the marker branch, whose
source returns before, does not.

`window` is a history field: the sum of the initial grant and of the Auto
policy's growths since the last churn boundary. It only serves to state the
ledger invariant.

Abstractions: an entry is a kind and the number of units the broker charged for
it; a queue is its length; a chunked message has two chunks; a request id is a
number below the bound `MaxRequests`; the byte signal of the Auto policy is a
nondeterministic Boolean (it cannot be set with an empty queue). A consumer the
client has removed from its table is one with `closed` set: both ignore every
later frame.

The environment is open: any answer to an outstanding request, any entry and
any broker notification may arrive at any time. What is proved here therefore
holds whatever the broker sends.

### ConsumerSession

Adds the broker, modelled from what the client's code and comments rely on
(these definitions are marked external): a consumer is created without permits
and creation takes time; a flow for a consumer the broker does not hold is
dropped; a subscribe for one it holds is answered and otherwise ignored; a seek
removes the consumer before it is acknowledged; an entry is dispatched while one
permit is left and charges all its members. `outbound` is the client's staging
buffer together with the socket; `inbound` is the way back. A lost transport
empties `inbound`, a reset empties `outbound`.

A disruption (anything that is not the normal course: a lost connection, a
refused subscribe, a seek, a dropped future, a broker-initiated close, ...) is
guarded by `Fault(f)`. A behaviour draws its disruptions from one of the sets
in `Scenarios`, at most `MaxFaults` of them. `SingleThreaded` tells the
executors apart: with `TRUE` nothing of the client runs inside the lock gaps
(moonpool, tokio's `current_thread`), with `FALSE` anything may.

### ProducerSends

`p` is a `ProducerState` record: `pending`, the positions `pending_index` keeps
into it (1-based here, 0 for an absent id), the open batch, the staged
`outbound` frames and the fields of the attach protocol. A send is its sequence
id, counted from 1, and the way `queue_send_reserved` takes for it: into the
open batch, into a new one (`misfit`: another transaction, or over the byte
budget), alone, in chunks, or refused as oversized. A frame is the range of
sequence ids it publishes and its chunk number. `ApplyOne`, `DrainTimedOut`,
`Snapshots`, `ReplaySnapshots`, `ReplayPendingOutbound` are the methods of
`ProducerState`; an action is a frame handler, a driver step, or one poll of a
future.

`fut[q]` is the future of send `q`, `outcomes` the connection's outcome map,
and a waker is where the code puts it: on the pending op the index points at
(`op.waker`, the id of the future it wakes) or in the connection's slab. Wakers
are modelled because the difficult part of this component is to keep them with
the send they belong to.

Times are abstract: a send timeout fails the sends below some sequence id (ops
are queued in time order), a batch becomes due at any time, an open expires at
any time. `known` says that the handle is still in the connection's tables.
The model starts after `create_producer`; a send needs a first attach, as the
application has no producer before it.

### ProducerSession

The broker answers, refuses or ignores a `CommandProducer`; persists and
receipts, or refuses, each `CommandSend` of an attached producer, and discards
those of a producer it does not hold; may close the producer at any time. `log`
is what it took. Disruptions work as in `ConsumerSession`. `InLoop` keeps the
driver's own arms (write, read, timers) out of the gap between `Connected` and
the rebuild: the rebuild runs in the iteration that read `CommandConnected`
(`driver.rs:1657`), and only other tasks, a retry leg for one, get in between.

`PublishPromise` is the abstract specification: sends are accepted in order, get
one verdict, are confirmed only when stored. `ProducerSession` instantiates it
with `Verdict` (a verdict falls when the outcome is recorded; the poll that takes
it later changes nothing) and `Stored` (what the log carries as persisted), and
`KeepsPromise` says that every step is a step of the promise or a stutter.

### StreamAggregate and StreamConsumer

`model` is a `StreamConsumerModel`: the layout, the children by segment with
their phase, permit, barrier counters and incarnation, the acknowledgement
operations, the delivery leases. Every method of the source is an operator from
models to models, `CanX` its error returns, and `Emitted` the list of actions it
returns, read off the difference between two models. `StreamConsumer` runs them:
a step is one locked section of `scalable.rs`, and `tasks` holds what the
sections have returned and nobody has executed yet, so a grant, a close or an
open meets whatever the aggregate has become meanwhile. The control loop, open
tasks, child loops, receive, restore, acknowledgement calls and their
cancellation, transactional acks, seek and close are actions.

Who executes an action matters, so a task says whose it is (`by`). Those of the
control loop, the child loops, open tasks, `spawn_actions`, transaction outcomes
and `finish_close` are tracked in `state.tasks`, and nobody drops them. An
acknowledgement executes what its settlement returned in the application's own
future (`SettleAck`, by `"app"`), which may be dropped while it awaits
`consumer.close()` (`DropClose`). `request_resync`, `negative_acknowledge` and the
cancellation guards unlock before they call `spawn_actions`, which locks again:
their actions are by `"handoff"` until `SpawnActions`, and a close in between
makes it forget them. The ghost `dropped` keeps what was forgotten in either way.
`returned` has the children whose loop met the end of its topic and is gone.
`FinishClose` waits for tracked tasks alone (`Tracked`).

Abstractions: the budget is counted in units (a permit reserves `Frame`,
everything else one); a message is its segment and number; a chunked message has
two chunks; the broker, external, keeps per segment the attached child, its
permits, the frames on their way and the acked set. An entry has one member: a
batch entry's further members and the permits it costs beyond the one it was
granted (`permit_debt`) are left out, and every sum is linear in the members.
`LoopReceive` takes `accept_entry` and `reserve_decompression` in one step: what
comes between can only make the second fail, and both failures resynchronise.
After a failed `consumer.close()` an acknowledgement hands the error to its caller
and an outcome to a retry; neither resynchronises (`CloseFails`).

### AckTrackers and AckSession

A message id is an entry and a position in its batch; a bitset is the set of
unacked positions. `unacked` has the buckets and the locator of the source (or
one deadline per message with a redelivery backoff), because the locator's
indices are where the difficulty is. `AckSession` has one action per entry point
of `Connection` (ack, cumulative, grouped, transactional, nack), the ticks, the
lost connection, the rebuild and the close. `broker.out` is what the broker
regards as delivered, `broker.acked` what it has stored; a redelivery request
makes an entry available again with the positions that are left.
Deadlines are abstract; `LateTick` is a tick that comes after the next bucket
was opened. `Slips` says that a tick evicts empty buckets alone from in front of
others, after which the locator's indices are shifted, and the ghost `exact`
remembers that none did. A transaction is committed
only when all its acks have arrived (`EndTransaction`): that is what
`TransactionEnd` establishes (`CommitMeansAll`).

### TransactionEnd

`gate` is the `AggregateTransaction`, `entry` the `TransactionEntry` of the
client's coordinator, `call[c]` what each caller's commit or abort has reached;
`Start` is `prepare`, up to its unlock: the call keeps what the gate decided
(`saw`), and `PollWait`, the next lock section, goes by that on its first poll and
asks the gate on later ones, as `EndWait::poll` does.
`lease`, `canon` and `request` are the connection's `end_txn_waiters`,
`end_txn_requests` and outcomes. A call can be dropped at each of its awaits
(`DropWait`, `DropRequest`, `DropComplete`, the drop handlers of the source);
`DropRequest` also is the second half of a call that was dropped while another
thread already polls. The coordinator at the broker is external: it takes a
request once, may have timed the transaction out, and may answer into a session
that is gone.

### Supervisor

`pc` is where the driver task is: in the loop on a socket (`driving`), between
two sockets (`dropped`, `cooling`, `resuming`, `backing`, `dialing`), or ending
(`failing`, `latching`, `gone`). `LoopTop` is the top of `driver_loop_inner` up
to its `select!`, and one action follows per arm and outcome: a frame
(`HandleConnected`, `AuthAnswered`, `AuthRefused`, `ReAttachOk`, `Answer`), a
failure (`Disconnect`), a drained write, a timer. `OuterTop`, `Resume`,
`BackingDone`, `DialFails`, `DialConnects` are the sections of
`supervised_driver_loop`, `FailAllPending` and `MarkNoDriver` those of
`spawn_supervised`. `waiters` and `permit` are the `Notify` all tasks share:
`notify_one` goes to the task that has waited longest, `notify_waiters` to all.

Time is discrete and the code's instants are stored as ages, up to `AgeCap`:
every comparison in the code is against a configured duration below it, so
older ages are indistinguishable. Jitter is any whole number of ticks up to a
fifth of the delay. The driver task runs in no time unless it sleeps, dials or
waits. Frames are not told apart: `outbound` and `writing` say whether there is
something to take and to write. Scenarios choose which users exist and whether
the detector is on.

`storm`, `floor`, `quick` and `overtaken` are ghosts: the redials since the last
session that greeted and outlived `drop_grace` (or since a cooldown), the delay
that so many redials have doubled (up to the maximum), the ages of the thrashed
sessions in a row, and that a close came during a dial or lost its state to an
event of the socket.

## 3. Runs

| Run | Instance | What it shows |
|---|---|---|
| `memory_limit` | 3 sends of sizes 2, 1, 1; limits 0, 1, 2; both policies | budget, wakeups, registrations, and progress of blocked sends |
| `consumer_mirror` | Auto queue from 3 up to 5, backlog 6, 3 disruptions: reconnects, promotions, refusals; seeks and abandoned seeks with promotions and refusals; or reconnects, pauses, promotions | one window per attach (`WindowBounded`); the mirror is exact while its target moves (`MirrorExact`) |
| `consumer_liveness` | queue 3, backlog 5, 2 disruptions: reconnect, unload, recovery, promotion, refusal; or seek, abandon, promotion, refusal | the backlog drains (`BacklogDrains`) |
| `consumer_disruptions` | queue 2, batches up to 2, every entry kind, any 2 of 16 disruptions, worker threads | no permit lost, never self-starved, owed grants have owners, closed means released unless a subscribe was cancelled around a reconnect |
| `producer_disruptions` | 3 sends, batched (2 per batch) or in 2 chunks, a send timeout; any 2 of reconnect, unload, refused open, late open, send error, timeout; or of close, flush, unload, send error | no send lost or doubled (`SendsTracked`, without a give-up and without a close around a reconnect), published in order, never to an unattached producer |
| `producer_liveness` | 2 sends by all five ways; any 2 of nine disruptions, give-up and failed lookup included; of close, flush, unload, send error; or of timeout, reconnect, unload | wakers follow their sends (`ParkedIsRegistered`, where no send times out); every send future returns (`SendsResolve`); the session implements `PublishPromise` (`KeepsPromise`) |
| `stream_rebalance` | segment 1 with 2 messages is split into segment 2, which is taken away and given back; strict order, a chunked and a transformed message, one reconnect, a nack and a batch or a cumulative ack | budget and barriers exact, parents before children, acked was seen, and in a quiescent state everything is drained |
| `stream_resync` | the split, after which the new segment is taken away, with one of: a restored delivery, also with a fault, a fault and a close, a close and a dropped call, a seek, a fault and a dropped call, a transactional ack with an unknown outcome or a fault; the second and third end with the resync, the others go on through one rejoin | every child has an owner, or lost it in one of the three ways of observations 32 to 34; every operation has an owner; closed is released |
| `ack_session` | a batch of 2 and a plain message; grouped, cumulative, transactional acks, nacks, timeouts, a reconnect, a close, in seven combinations | nothing over-acked, nothing stranded, no acked message on a timer, a close keeps acks, the subscription drains |
| `transaction_end` | 2 callers with 4 calls, 2 consumers, up to 2 cancellations with a failed ack, a dropped consumer, a lost session, a coordinator time-out or a consumer that fails to hear | commit means all acked; one decision; unknown means a fault; everyone hears; calls return unless their first wait was overtaken (finding 9) |
| `supervisor` | 1 handle, 3 attempts with delays 1, 2, 4, a detector that trips on 2 attaches in 3 ticks; a close and a lookup, a lookup under challenges, a close under challenges, or the detector | redials bounded and slowed (`StormIsBounded`), thrashing cooled (`StormIsCooled`), a remembered close ends the driver, a lookup returns |
| `find_close_overtaken` | the same supervisor with a close and one attempt | expects a violation: finding 1 |

Bounds. A receiver queue of 2 to 4 gives refill thresholds of 1 and 2, so flows
both coalesce and do not. A backlog above the queue size makes at least one
refill necessary. Batches of two against a last single permit reach the
over-dispatch. One chunked message is enough for a duplicate, a straggler and a
sweep, as buffers are independent. Two or three disruptions give every pair (or
triple) of overlaps of the attach protocol's phases; `MaxRequests` is never the
reason a behaviour stops within them. In the memory budget three sends give two
racers and one releaser, and sizes 2 and 1 make a release free room for one or
for two waiters. Three sends give a full batch and an open one, or a batch with
a chunked message behind it, so that replayed, staged and new frames can all be
present when an open is answered; two disruptions give a second reset before
the first one's replay, and a timeout or a late answer on either side of it.
One split is the smallest DAG with an order to keep; budgets of 3 and 4 units
against frames of 2 make two segments compete for one permit. A batch of two is
the smallest that can be acked in part, and the plain message behind it is what
a cumulative ack crosses. Two callers with four calls give a commit, its dropped
twin, a retry and an abort; `MaxRequests` of 4 is never the limit. For the
supervisor, three attempts let the delay double up to its maximum and the budget
run out; a cooldown and a grace on both sides of the backoff put every order of
the timers within reach.

`SendsResolve` excepts a batched send whose frame is gone (`Discarded`): see
finding 6 and observation 10. It needs that no superseded open times out
(observation 31), which takes four disruptions. `SendsTracked` carries the
hypotheses of `TrackedTheorem` (findings 5 and 8 are what happens outside them),
and `ParkedIsRegistered` that no send times out (finding 3) and no producer is
closed around a reset. `ClosedMeansReleased` excepts a subscribe cancelled in a
behaviour that also loses its connection (observation 28). The second half of
`BudgetRespected` is asked without seeks (observation 13), and `OpsHaveOwner` with
one transactional acknowledgement (observation 12).

`AckedIsUntimedWhileExact` is asked until a tick evicts empty buckets alone from
in front of others (finding 7); late ticks, several buckets and every other
eviction are in the run. `CallsReturn` excepts a call whose first poll parks after
the last acknowledgement has settled (`Overtaken`, finding 9).
`CloseIsHonoured` excepts a close that the connection forgets (`overtaken`,
finding 1), and `LookupReturns` a lookup that only its deadline ends
(`Orphaned`, observations 25 and 26). `StormIsCooled` is checked with one handle
per connection (observation 22); `StormIsBounded` counts redials since the last
cooldown, because a cooldown longer than `drop_grace` refills the budget
(observation 21).

`WindowBounded` and `MirrorExact` speak of an attach whose initial grant has
gone out (`InSync`). They are not asked of the in-place re-attach (unload,
recovery): see observation 1 in section 5.

Deadlock checking is off: a session whose backlog is drained, or whose
application has closed the consumer, or whose driver has ended, rightly stops.

### Fairness

`FairSessionSpec` assumes weak fairness of: the broker serving its wire,
creating consumers and dispatching; the driver reading the socket, resetting,
finishing the handshake and rebuilding (`driver.rs`: the supervised loop has no
other exit while its attempt budget lasts, and disruptions are bounded); retry
legs (spawned tasks); the subscribing or seeking task, whose waker the ack
calls; `receive`, on the assumption that the application keeps calling it; and
`resume` of a paused consumer. For the producer: the broker serving its wire;
the driver reading, draining, flushing due batches, expiring opens nobody
answers (`handle_timeout` is on the driver's select) and retrying them; the
supervisor's steps; and a poll of every future that was woken. A parked future
is never polled by fairness: a lost wakeup is a violation. Disruptions are never
forced. `MemoryLimit`
assumes weak fairness of the threads inside the controller and of the drop of a
held reservation (a receipt, the send timeout or the connection's end always
comes), and strong fairness of acquiring the waiter mutex, because
`parking_lot` mutexes hand over eventually; `send` and dropping a future are
not forced.

`AckSession` assumes weak fairness of `Progress`, the disjunction of what the
driver, the broker and a receiving, acknowledging application do without a
disturbance: it is enough that something of it goes on. `TransactionEnd` assumes
it of every running call (its executor polls a woken future), of the clean-up of
a dropped call, of every acknowledgement under way (each ends, in success or
failure), of the coordinator and of the driver reading its answer. Neither
forces a fault, a cancellation or a retry. The stream modules state safety only;
`QuiescentIsDrained` plays the part of a liveness property there.

`Supervisor` assumes weak fairness of the driver task wherever it can run, of
dials (bounded by `connect_timeout`), of timers and time, of the lookup's task
and of the join. Strong fairness is assumed of a write under way: it drains or
fails, `write_one_budget` carries a fixed deadline across iterations, however
often another arm of the select wins. It is assumed of the broker's answer to an
answered challenge or the keepalive that replaces it (the answer has disarmed the
handshake deadline), and of a lookup that is woken while connected and of its
answer: sessions that are lost for ever, each just before the answer, would
otherwise keep a lookup from returning until its re-issues are spent on none of
them. Deadlines (`LookupExpires`) are not forced, so no property leans on them.

## 4. Proofs

`MemoryLimitProofs`, for every finite set of senders, every `Bytes` function and
every set of limits (`SendersAssumption`, `BytesAssumption`,
`LimitsAssumption`, `NoSenderAssumption`):

- `BudgetTheorem`, `WakeupTheorem`, `RegistrationsTheorem`: the three safety
  properties, from `InvariantHolds` (`Spec => []IInv`).
- `IInv` adds to them what they need to be inductive: `LockInv` (only the mutex
  holder is polling), `IdsAreOwned` (a waiter id is owned once and below the
  next id), `AdmittedFits` (an admission decided on a loaded value holds for
  that value: the compare-exchange then transfers it to the counter),
  `RefusedHasRelease` (an attempt refused while the bytes would now fit has a
  release between its decrement and its drain) and `WakersInv`. Without
  `RefusedHasRelease` the step that registers the waker would lose the wakeup.

`ConsumerSessionProofs`, for every receiver queue size, cap, batch size, set of
chunked messages, attempt budget and number of requests, under either policy
and in the open environment:

- `TypeTheorem`: in particular `permit_balance` never goes below zero.
- `WindowTheorem`: `WindowCovered`, no step loses a permit of the window.
- `StarvationTheorem`: `NeverSelfStarved`, with the fixed policy.
- The inductive invariant is `TypeOK /\ Good(c)`. `Good` adds two facts about
  the consumer alone: `Covered`, `WindowCovered` as a predicate of the record;
  `FixedWindow`, under the fixed policy the target is
  `ReceiverQueue` and a non-zero window equals it. Starvation is then excluded
  by arithmetic: with balance zero the refund owed plus the queue is the whole
  window, which is at least the threshold. The proof has one lemma per
  `ConsumerState` method (`MaybeFlowGood`, `DeliverGood`, ...), and the steps
  cite these, one per action.

- `OwnerTheorem`: `OwedGrantHasOwner`, an attach that owes its initial grant
  always has somebody who will make it. Three parties hand this obligation to
  each other (the ack, the subscribing task, a retry leg), and the property is
  not inductive alone. `OwnInv` adds `WaiterWatched` (a registered waiter is
  watched by a task that knows its request, and then the ack does not also owe
  the flow) and `RequestsFresh` (a pending request is older than the next id, and
  a retry's request is no longer pending).

- `SessionRefines` shows that every step of the composed session, whatever
  broker, wires and disruptions do, is a step of `ConsumerPermits` or leaves it
  alone, so the three theorems above hold of the session as well
  (`SessionWindow`, `SessionStarvation`, `SessionOwner`).

`TransactionEndProofs`, for any sets of callers, consumers and acknowledgements
and any bound on requests, calls and faults:

- `CommitTheorem`, `DecisionTheorem`, `FaultTheorem`, `HeardTheorem`: the four
  safety properties of the module, from one inductive invariant.
- The argument runs along the claim. `ClaimInv`: the entry is claimed exactly
  while one call runs. `GateInv`: the gate's pending set is the set of pending
  acks, and a commit is issued only with none pending and none failed. `CallInv`
  and `LeaseInv` tie the place of that call to the state of the gate and to the
  connection's lease; `CanonInv` says that a canonical request exists only once
  the gate has issued it, so the other action can have none; `LinkInv` that at
  most one frame or answer is under way, for a canonical request; `OutcomeInv`,
  `FaultInv` and `HeardInv` carry the verdict from the coordinator to the
  consumers. A dropped call hands over the claim, never the decision.

`AckSessionProofs`, for any entries, batch sizes, bucket counts, bounds and
combinations of disturbances:

- `OverAckTheorem`, `StrandedTheorem`, `UntimedTheorem`, `CloseTheorem`: the four
  safety properties.
- `OverInv`: whatever any tracker, frame or store regards as acked, the
  application has acked; `batch`, the transaction's copy, the group, the frames on
  the wire and the ack sets of entries on their way are all in it, because each
  feeds another. `TimeInv`: over any number of buckets, the locator points at the
  bucket of every tracked id and nothing settled is on a timer, as long as no tick
  slips (`exact`); a late tick is harmless if it evicts a bucket that holds
  something, because the locator is then rebuilt. `LinkInv` orders subscribe, close
  and detachment; `SettledInv` says where an ack that has left can be; `StrandInv`
  where a delivered position can be. The tracker operators are each reduced to
  one relation (`Advances`: what a batch ack may remove and what it sends) that
  composes over the ids of a request.

`SupervisorProofs`, for any backoff, budget and detector configuration:

- `BudgetTheorem`: `StormIsBounded`. `CountInv` bounds the storm by the attempts,
  `FloorInv` keeps the next delay above the doubled floor through the sleep, and
  `StableInv` is the reason a reset of the backoff is seen by the ghost too: a
  socket the supervisor takes for stable had greeted.
- `CooldownTheorem`: `StormIsCooled`, with one handle per connection and
  `drop_within` at most `drop_grace`. Both hypotheses are needed (observations 22
  and 30). `MatchInv` is a matching of the thrashed sessions with the newest
  entries of the detector's ring, in order; `OwnInv` and `CoolInv` say that an
  open entry belongs to the session that just ended and that the matching is
  never complete outside `OuterTop`.

`ProducerSessionProofs`, for any number of sends, requests, attempts, chunks and
disruptions, with or without a send timeout:

- `GateTheorem`: `NeverSentUnattached`, without any hypothesis. `Types` says what
  a send queue is (`Queues`: ops in order, indexed exactly while pending; what a
  reset set aside is older than what is pending; every frame names sends that
  exist). `GateInv` is the attach protocol: the opens on the wire are numbered in
  order and below the next id, no send follows an open, the current open is the
  newest one (`WireInv`, `FreshInv`); a connection that is not up has nothing
  inbound and a closed gate (`DownInv`); and a ready producer, or one whose
  answer is on its way, has no open on the wire and is held by the broker
  (`AttachedInv`).
- `OrderTheorem`: `PublishedInOrder`, without any hypothesis. `InTurn(f, w)` says
  that in the sequence `w` no later frame precedes the first copy of `f`; the
  property is `InTurn` of every frame in the log. What makes it inductive is
  `Order`, over everything a frame can still come from: any frame that a pending op
  or a snapshot keeps for a replay, or that is in `outbound`, in the log or on an
  attached wire, is in turn in the log and, unless the broker has had it, in turn
  on the wire and then in `outbound` (`TurnInv`, `OnTime`); while the gate is open
  and the broker takes, whatever may be replayed is already under way (`SentInv`),
  so that a reattach replays nothing in front of it; `outbound` ascends, and an op
  that is not staged is older than what is (`StageInv`), which is why
  `replay_pending_outbound` may put its frames in front; the open batch is younger
  than every frame (`BatchInv`). `AnswerInv` adds that an attach the client has not
  read yet leaves no send of an earlier attach on the wire. There is one lemma per
  method of `ProducerState` (`QueueSendOrder`, `EmittedOrder`, `SuccessOrder`, ...)
  and one per kind of step (`CalmStep`: nothing is added anywhere).
- `PromiseTheorem`: `KeepsPromise`, unless the supervisor gives up (finding 8 is
  the counterexample with a give-up). Every step of the session is one of few
  kinds: it accepts a send, polls a future, confirms sends that a receipt names,
  fails sends it holds, forgets what it set aside, or the broker stores a frame
  (`LedgerStep`, lemma `SessionSteps`). `LedgerInv` (a send that is held is
  undecided; an outcome waits for a future that is not done) makes each kind a
  step of the promise, and `ReceiptInv` (a receipt names what was persisted)
  makes confirmations sound.
- `TrackedTheorem`: `SendsTracked`, if in addition no behaviour has both a close
  by the application and a lost connection (finding 5 is the counterexample).
  `HandleInv` shows that a rebuild then finds nothing to forget, `TrackedInv` that
  an undecided send is held.

`StreamAggregateProofs` has one lemma per method of `StreamAggregate`: from a
sound model (`Ok`) it leads to a sound model, and to one that has evolved in a
stated way. `Sound` is typing; numbering (generations, sequence numbers and
operation ids are below the next one); the ledger of every child balancing its
barrier; the leases being exactly the deliveries counted; the operations being
exactly the acknowledgements counted; and the phases. `Fits` is the receive
budget. `Goes(m, n, X)` is the evolution: outside `X`, a child keeps its
generation and only moves forward, and a child that appears is fresh and has a
new generation. Arbitration (a loop over the children) is one relation,
`Arbitrated`: each child is as before, or was eligible and has its permit.

`StreamConsumerProofs` builds on it, for every plan of layouts, segment sizes,
budget and bounds:

- `StreamBase`: `Base`, which the others start from: the model is sound, a task
  holds only actions it can still execute, what is registered was issued, and a
  child that is live or retains a message is registered (`Lodged`); the phases of
  model, facade and reconnect agree (`Staged`). Every action is one of few kinds
  of steps (`StepIs`), and the invariants below are shown for the kinds.
- `BudgetFits`: the first half of `BudgetRespected`.
- `BarrierIsExact`: `BarrierExact`, if no message is discarded by the batch mask
  and no transaction ends unknown. Both hypotheses are needed (observations 12 and 13).
  `Stocked` is the inductive part: in an open aggregate a segment retains exactly
  its fresh deliveries in the queue.
- `OperationsHaveOwner`: `OpsHaveOwner`, if there is at most one transactional
  acknowledgement or no rejoin. Two of them and a rejoin violate it: the outcome
  of the transaction meets the authority of the old epoch first and drops the
  current one with it (observation 12). `Handled` says where the call of an operation is,
  `Tidy` that what is parked can still be settled.
- `ClosingReleasesAll`: `ClosedIsReleased`, without any hypothesis. The hard part
  is to know who still holds a consumer at the broker, when a close may fail, be
  dropped with the acknowledgement that executes it, or be forgotten on its way to
  `spawn_actions`. `Unopened`: a generation is opened once, by one action or one
  open task, before it is live, closed or registered. `Linked`: what an open task
  has attached is what the broker holds. `Traced`: what the broker holds is
  registered, or an open task or `finish_close` has it. `Mended`: a closing child is
  registered, so that `close()` will find it, or it rests on an action that cannot
  be lost (`Resorts`): a close of `finish_close`, or a cancel, the dropped ones
  counted. `Ceased`: what `close()` has done by the time it is called and by the time
  it has returned. `Pure`: a task that has to seek has no child to end, so that a
  failed seek, which drops the rest of its task, drops no close. Most actions are
  `Plain`, they leave registrations and broker alone; the others are treated one by
  one. When `close()` has returned, nothing is registered and no task of
  `finish_close` is left, so `Traced` leaves no place for a consumer, and `Mended`
  only children whose cancel was not executed (observation 33).

Recursion in the proved modules is by recursive functions (`Kept`, `Concat`,
`ApplyRange`, and in the stream modules the sums over children and the loops of
arbitration, batch receive and settlement: `Total`, `Issued`, `SettledInOrder`,
`Within`). The library's induction theorems take an operator, which the provers
cannot instantiate; the lemmas `Induction` and `Climb` (a set with zero and every
successor contains the naturals, or those up to a bound) and `Iteration` (a step
function can be iterated) take sets and functions instead, and carry what is
needed.

Only model-checked:

- liveness (`BacklogDrains`, `SendsResolve`, `Drained`, calls and lookups that
  return, the memory budget's progress), and with it everything about fairness
  and `ENABLED`: out of this prover's reach;
- `WindowBounded`, `MirrorExact`: they count permits over both wires, and are
  asked of selected disruptions only (section 3);
- `ClosedMeansReleased`: an argument over both wires and the broker's creations;
- `ParkedIsRegistered`, which needs `pending_index` to be the inverse of `pending`;
- of the stream modules: the second half of `BudgetRespected` and
  `OrderRespected`, `AckedWasSeen`, `EveryChildHasOwner`, `QuiescentIsDrained`;
  the last one is about what can no longer happen, close to liveness.

## 5. Findings

1. `find_close_overtaken` (the run; quoted text in `PROJECT.json`) – a close that
   comes while the supervisor dials is erased by `reset()`: the connection
   handshakes, replays its handles and stays up, and `Client::close` waits in
   join. The same happens to a close whose last write meets a socket error
   (`mark_disconnected` turns `Closing` into `Failed`) or an arriving
   `CommandConnected` or `CommandAuthChallenge`.

The other findings are reproduced by giving a configuration of the module the
constants named here; no run of the project lists them.

2. A refused seek leaves `pending_seek` set, and the queue frozen, with no
   request in flight; a `CloseConsumer` that crosses it is then not answered by a
   re-subscribe (`conn.rs:3146` against `consumer.rs:467`). `ParkedMeansFed` with
   `Scenarios = {{"seek", "refuseSeek", "unload"}}`.
3. A send timeout shortens `pending` from the front and leaves the positions of
   the remaining sends as they were (`producer.rs:806`); the next poll of one of
   them registers its waker on another send's op. The conclusion of
   `ParkedIsRegistered` (its hypothesis excludes this) with
   `MaxSends = 3`, `Ways = {"single"}`, `Scenarios = {{"timeout"}}`.
4. A reset empties `pending` into the snapshots, and a `flush` that is waiting
   returns although nothing was acknowledged (tokio `producer.rs:542` against
   `:516`). `FlushReturns` is enabled after a `Reset` with a send still open.
5. A producer closed around a reset is not rebuilt; its snapshots are dropped with
   no outcome, and the futures of these sends wait for ever (`conn.rs:2166`).
   The conclusion of `SendsTracked` (its hypothesis excludes this) with
   `MaxSends = 1`, `Ways = {"single"}`, `Scenarios = {{"disconnect", "close"}}`.
6. A `CommandSendError` for a batch resolves the send with the lowest id alone
   (`conn.rs:2640`); without a send timeout the others never resolve. This is the
   `Discarded` exception of `SendsResolve`.
7. A late tick evicts an empty bucket with `continue`, so the locator, whose
   indices have just shifted, is not rebuilt (`unacked.rs:153`, the rebuild at
   `:167` is skipped): a later ack misses its message, which is redelivered.
   `AckedIsUntimed` of `MCAckSession` with `Bounds <- LateTickBounds`.
8. A spurious poll of a replayed send puts its waker on the op
   (`conn.rs:5314`), and the waker it had put into the slab while the send was set
   aside stays there; the receipt arm leaves the slab alone when the op has a
   waker (`conn.rs:2612`). A give-up then records a terminal outcome for every
   Send key left in the slab (`conn.rs:1487`): over a receipt that nobody has
   taken yet, or for a future that has returned. `KeepsPromise`
   with `MaxSends = 1`, `Ways = {"single"}`, `SendTimeout = FALSE`,
   `Scenarios = {{"disconnect", "giveup"}}`, `MaxFaults = 3`. The proof of
   `KeepsPromise` failed at this step; the bounds of the runs do not reach it.
9. `prepare` decides under one lock section and `EndWait::poll` registers its waker
   under the next (`transaction.rs:181`, `:434`), going by the decision it was given.
   When the last acknowledgement settles in between, `settle_admission` finds no
   waiter, and the commit or abort parks with nothing left to wake it: until it is
   dropped the claim stays taken, and every other call returns
   `TransactionAlreadyEnding`. `transaction.rs:439` asserts that "a transaction wait
   must retain admitted work" (of the stale count, so it does not fire), and
   `README.md:769` says "Commit waits for every admitted aggregate operation".
   `WaitRetainsWork` of `MCTransactionEnd` with the constants of `TransactionEnd.cfg`.

Observations the model makes and no run lists:

1. After a same-broker close the queue is kept. Popping it accrues a refund that
   `maybe_flow` may send while the re-subscribe is unacknowledged: the broker
   either drops it (consumer not there yet) or adds it to the initial window, so
   more than one window is outstanding until it is drained.
2. A batch dispatched on the last permit makes the documented equality
   "granted window == permit_balance + consumed_since_flow + queue.len()" an
   inequality; the direction that matters, `WindowCovered`, is proved.
3. A seek future dropped before its success is polled leaves the consumer
   detached at the broker with nobody to re-subscribe it (`DropSeek`).
4. On worker threads, a reconnect in the gap between a subscribe ack and the
   task's `initial_flow` (`client.rs:2087`) uses up the new attach's grant on a
   consumer the broker does not hold yet; the ack's own grant is then refused
   and the consumer is attached with no permits. (`ParkedMeansFed` with
   `SingleThreaded = FALSE`, `Scenarios = {{"disconnect"}}`.)
5. `resume` sends no flow: a receive that parked while paused stays parked
   although a refund is due. (`ParkedMeansFed`, `Scenarios = {{"pause"}}`.)
6. The marker branch returns before `maybe_flow`: a window spent on markers is
   not refilled while a receive is parked. (`ParkedMeansFed`,
   `KindsSent = {"marker"}`.)
7. The Auto policy subtracts a counter that includes every refill, so a growth
   may stage no flow while it raises the refill threshold. (`ParkedMeansFed`,
   `AutoPolicy = TRUE`, queue 1 to 4, backlog 6.)
8. A first chunk redelivered after a reconnect meets the buffer of the previous
   attach and is dropped without a debit. (`MirrorExact`,
   `KindsSent = {"chunk"}`, `Scenarios = {{"disconnect"}}`.)
9. A seek acknowledged just before a reset re-subscribes a consumer the rebuild
   has already re-attached.
10. A batch whose frame the broker discarded (it closed the producer while the
   frame was on its way) is not staged again by the in-place re-attach, as
   batched ops carry no replay frames; only a send timeout resolves its sends.
11. A chunked send resolves with the receipt of its first chunk.

Of the stream, ack and transaction modules:

12. The first stale authority of a commit after a resync returns through `?`
    after its entry left `pending_transactions` (`scalable.rs:2572`): with two
    acknowledgements of one transaction and a rejoin between them, the operation
    of the second has no owner left, and its segment's barrier stays up
    (`OpsHaveOwner` with `txnAcks = 2`, `reconnects = 1`, `faults = 1`). An unknown
    outcome resyncs with the queue and the ledger out of step (`:2588`).
13. `negative_acknowledge` does not offer the segment to `try_complete`; a stale
    flow grant after `begin_seek` overcommits the budget by one permit; a
    preallocated arrival discarded as fully acked leaves the barrier one high
    (`Masked` not empty, `stream_consumer.rs:3449`).
14. A late error of a child loop fences a healthy newer incarnation; a chunk that
    arrives at a full budget forces a resync.
15. A cumulative ack stops the timer of the named id only, and a grouped ack stops
    no timer before it is flushed: what is acked may still be redelivered.
16. `reset` clears `batch_ack_tracker` and no other tracker. A duplicate ack of a
    completed batch re-creates its entry. `settle_transactional_acks` is called
    by the scalable engine alone.
17. A call dropped while it tells consumers `Unknown`, and a retry that then
    commits, leave the consumers already told with `Unknown`.
18. A transaction whose outcome is unknown can never be ended again.
19. A marker from before a seek that is handled while `pending_seek` is set breaks
    the mirror (`MirrorExact`, `KindsSent` with `"marker"`, a seek).

Of the supervisor:

20. A slow handshake followed at once by a drop counts as a stable socket:
    `socket_alive_since` starts at the TCP connect.
21. That clock is also read after the cooldown (`driver.rs:1048`), so a cooldown
    longer than `drop_grace` resets the backoff and the budget of the very socket
    it punishes; `supervisor.rs:129` describes the time until the loop returned.
22. With two or more handles per connection a drop is paired with the newest
    attach alone, and the older ones, open for ever, keep the detector from
    tripping. (`StormIsCooled` with `Handles = 2`.)
23. `record_first_op_success`, the reset signal the detector's documentation
    names, has no caller outside tests.
24. A `notify_one` for the driver can be taken by a parked lookup or by `flush`;
    the driver then learns of the work with the next frame or timer.
25. A lookup that passed `fail_if_no_driver` before the latch and registers after
    `fail_all_pending` is resolved by its deadline alone.
26. A failed auth refresh leaves the state `AuthChallenging`: when the supervisor
    then gives up, `is_closed()` is false, and neither `fail_if_no_driver` nor
    `await_reconnect_or_terminal` sees a terminal connection.
27. Answering a challenge sets `Connected` before `CommandConnected` has come and
    disarms the handshake deadline; only the keepalive watches from there.

Met while proving:

28. A retry leg that runs between `Connected` and the rebuild puts two subscribes
    in flight. When the newer one is refused and the older one, superseded,
    succeeds, a cancelled subscribe sends no `CloseConsumer` (`conn.rs:2025`) and
    the broker keeps the consumer. (The conclusion of `ClosedMeansReleased` with
    `SingleThreaded = FALSE`, `MaxAttempts = 2`, `MaxFaults = 4`,
    `MaxRequests = 6`, `Scenarios = {{"cancel", "disconnect", "refuse", "unload"}}`.)
29. A pending transactional ack that a redelivered entry's ack set masks narrows
    the batch tracker (`consumer.rs:2307`); a plain ack of its sibling then
    completes the entry, and an aborted transaction's position is acked at the
    broker. `NeverOverAcked` counts a transactional ack when the application makes
    it, and does not see this.
30. With `drop_within` above `drop_grace` the supervisor does not record a drop
    that the detector would pair, and a streak of thrashed sessions is never
    cooled. (`StormIsCooled` with `DropGrace = 0`, `DropWithin = 1`.)
31. `expire_pending_producer_open` (`conn.rs:5134`) does not ask whether the open
    is the current one: the time-out of a superseded open (observation 28's gap)
    closes the gate of a producer that is attached, its retry leg finds itself
    superseded, and nobody opens the gate again. (`SendsResolve` with
    `MaxSends = 1`, `Ways = {"single"}`, `SendTimeout = FALSE`, `MaxAttempts = 2`,
    `MaxRequests = 8`, `Scenarios = {{"disconnect", "refuse", "silent"}}`,
    `MaxFaults = 4`.)

Of the owners of a stream's children:

32. An acknowledgement executes the actions of its settlement in the caller's
    future, after its guard is disarmed (`scalable.rs:2360`). Dropped while it awaits
    `consumer.close()` (`:1938`), it leaves a child that is `Closing` and registered
    with no consumer at the broker, and forgets the grants behind it. A later
    resync waits for that child to be gone (`:2805`), in vain; `close()` alone
    recovers. (`EveryChildHasOwner` counts what is in `dropped` as owned.)
33. `close()` between the unlock of `request_resync` (`:2737`) and `spawn_actions`
    (`:1624`) loses the `CancelOpen` of a child whose open had failed; `close` itself
    emits none for a child that is `Closing` (`stream_consumer.rs:4515`). The
    record of that child stays in the closed model, which never reaches
    `AggregatePhase::Closed`. Nothing is left at the broker. The same gap lies
    behind `negative_acknowledge` and the cancellation guards, whose actions are
    then those a close supersedes anyway.
34. A child loop returns at the end of its topic (`:2079`), and only `open_child`
    starts one (`:1753`). A seek that finds the segment still active in the applied
    layout, because the seal is published and not yet applied, revives the child:
    its next permit brings frames that nobody reads.

## 6. Not modelled, and the plan

Not modelled inside the covered components: `manual_flow_permits` (a zero
receiver queue), scalable topics' deferred queue, the migration of a topic to
another broker, `unsubscribe`, statistics, delays of the operation retry policy
(only its attempt budget). The components outside the models, with the
reason, are listed in `PROJECT.json`.

Also left out: the byte part of the scalable budget, queue consumers and scalable
producers, the watcher's wire protocol; an immediate (zero-window) ack grouping
and ack receipts; opening a transaction and registering partitions with the
coordinator; redirects of a lookup; the service-URL provider, DNS and TLS of a
dial.

Order of the next modules, by what a defect would cost:

1. `ChunkReassembly`: byte and breadth caps, eviction, expiry.
2. `StallRecovery`: the watchdog over `ConsumerSession`'s recovery action.
3. `Pool` and the redirects of a lookup: one dial per broker, eviction.
4. Cluster failover; the opening of a transaction and its registrations.

Theorems to come: the owners of children in the stream modules, and the permits
at the broker (`BudgetRespected`, second half); `ParkedIsRegistered` without a send
timeout, where `pending_index` is the inverse of `pending`; `WindowBounded` and
`MirrorExact` of a session without in-place re-attach; `ClosedMeansReleased`
under its hypothesis.
