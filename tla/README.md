# Verification of work-distribution-patterns

TLA+ models of the task manager, the executor, the event fan-out, the relays to
the API processes and the transports of all seven patterns of this repository,
the TLC runs that check them on small instances, and TLAPS proofs of what
matters most in Patterns 1, 2, 3, 5, 6 and 7 and in the relay for every instance.
Paths are relative to the repository.

## 1. The system

A user submits a task of one to eight stages over HTTP. The **manager** stores
it and hands it to a **transport**; a **worker** executes it stage by stage and
emits events; the manager's event loop stores the ending and republishes every
event, which reaches the user's pages by SSE. The seven patterns differ in the
transport (`TaskDispatcher` / `TaskConsumer`), in where the rows are kept, and
in how events reach the process that serves the pages.

| Component | State | Operations | What makes it correct |
|---|---|---|---|
| Manager `shared/manager` | none of its own | `Submit`, `runEventLoop`, `runDeadlineLoop` | an ending is stored before it is published; a refused task is failed and never runs; an ended task is never taken back |
| Store `shared/store`, `postgres/` | a row per task | `Create`, `SetStatus`, `SetDispatchedAt` | unconditional writes never take an ending back |
| Executor `shared/executor` | stage index | `Run` | one terminal event per run, events in order |
| Event bridge, SSE hub | live channels | `Publish`, `Subscribe`, end of a subscription | only the user's own tasks, in order |
| P1 `patterns/p01` | two Go channels, worker pool | `Dispatch`, `Receive`, `Emit`, cancel | nothing lost, everything ends, shutdown ends |
| P2 `patterns/p02` | task queue, event queue | `HandleNext`, `HandleEvent`, polling | a failed exchange costs its own task only |
| P3 `patterns/p03` | worker list, busy flags, a channel per connection | `Register`, `Dispatch`, pumps, reconnect | never a task twice, no panic, no worker busy for ever |
| P4 `patterns/p04` | pending tasks, available workers, a stream per worker | `dispatchLoop`, `Connect`, `receiveLoop` | re-queueing neither loses nor doubles, every stream is read |
| P5 `patterns/p05` | JetStream work queue, Postgres, several managers | publish, ack, deadline re-dispatch | every accepted task ends, with bounded repetition |
| P6, P7 `patterns/p06`, `p07` | topics and subscriptions of three brokers | open, dispatch, receive, publish | every API server hears every ending |
| P7 bootstrap | tokens, a revocation list per manager | issue, revoke, retry, renew | renewed in time, revoked within a TTL |
| Relay and page | a subscription per API process, a card per task | reconnect, proxy, sync | a card tells the truth and catches up |

What is hard here: `Submit`, the event loop and (with Postgres) the deadline
loops of several managers write one row; buffers drop some events and must not
drop others; goroutines end on a context that others ignore; connections fail at
each end at a different moment; the manager's idea of a worker outlives the
connection it was about; messages are acknowledged before the work is done; and
timers race the answers they wait for. `PROJECT.json` lists these hazards at
their lines with the properties that would show them.

## 2. Modules

| Module | Models |
|---|---|
| `TaskModel` | `shared/models/task.go`: statuses, events, stage clamp, rank of an event in a run |
| `ManagerCore` | `shared/manager/manager.go`, the store and `SubmitTask`: `Submit` and `runEventLoop`, one step per store, dispatcher or bridge call, and each as one step for the patterns that need no finer grain |
| `ExecutorCore` | `shared/executor/executor.go`: `Run`, one step per `Emit` and per stage select |
| `EventFanout` | `MemoryBridge`, the pump goroutine, `Hub`, `SSEStream` and pages that reconnect |
| `TaskLifecycle` | the abstract promise: recorded once, ended once, told only what is stored and only to the owner |
| `P1Channels` | Pattern 1: the three above with `ChannelDispatcher`, `ChannelConsumer`, the pool and `ctx` |
| `P2Polling` | Pattern 2: `RESTDispatcher`, `RESTConsumer` and HTTP exchanges that fail or come late |
| `P3WebSocket` | Pattern 3: `WebSocketDispatcher`, `WebSocketConsumer`, failing connections, restarted workers |
| `P4Streams` | Pattern 4: `Server` and `Consumer`, streams that break, restarted workers, both ways to submit |
| `P5Nats` | Pattern 5: several managers, each with event and deadline loop, JetStream with redelivery, crashes and stops |
| `P6PubSub` | Patterns 6 and 7: topics and subscriptions as each process's URLs name them, two receive loops per manager, the creation of an API's SQS queue |
| `P7Bootstrap` | tokens, revocation, retries and renewal over a clock |
| `EventRelay` | the API process of Patterns 2 to 5 (`BridgeStream`, SSE client, gRPC client, `NATSBridge`, `RemoteTaskManager`), the managers that publish to it, and the page's cards |
| `CoreProofs` | lemmas about `ManagerCore`, `ExecutorCore`, channels and counted slots, used by every proof below |
| `P1ChannelsProofs`, `P2PollingProofs`, `P3WebSocketProofs`, `P5NatsProofs`, `P6PubSubProofs`, `P7BootstrapProofs`, `EventRelayProofs` | theorems about the module of that name |
| `MC*` | constants and symmetry for TLC |

`P2` to `P6` extend `ManagerCore` and `ExecutorCore`; `EventRelay` extends
`ManagerCore`. Definitions marked "Mutant of X" are wrong versions of X, used
only to see that a property notices the mistake.

### How state and actions correspond

`store`, `req` and `loop` are the rows, the program counter of each `Submit` and
that of `runEventLoop`; `run` is the program counter of each execution. A
buffered channel is a sequence with a capacity constant; a blocking send is a
guard on room, a non-blocking send is `Offer`. A mutex-protected section is one
step. A `select` with several ready cases is a choice, so a timer may win over a
cancelled context. Names, logging, headers and heartbeats are left out; a
timestamp is only set or not set (`P7Bootstrap` keeps the clock). Ids are UUIDs:
each member of `Tasks` is submitted at most once, which bounds every run.
`QueueSize` is taken to be at least one. Variables called history in the modules
are read by properties alone.

* **Pattern 1.** Every goroutine has its steps; `cancel` is the caller's.
* **Pattern 2.** A poll that finds a task is a step that puts it into `answer`;
  the answer arrives or is lost. A POST waits for its answer (`posting`); it may
  fail undelivered, or its client may give up while the handler still waits for
  room (`late`). A process that ends takes its runs along. The deadline is zero:
  nobody sends anything again, so `hit` records which tasks a fault touched.
* **Pattern 3.** A failure cuts both directions of a connection at some prefix of
  what was in flight; each end notices by itself after reading what still
  arrives. A write to a failed connection vanishes or blocks for ever. `Stop` is
  SIGTERM, `Exit` the end of the process. `runConn` closing the channel a run
  sends on would panic, which is again `Exit`. The "ready" message is ignored by
  its receiver and left out.
* **Pattern 4.** `disp` is `dispatchLoop` between its channel operations and its
  map lookup; `handler` the `Connect` handler, which names a worker after the
  number of streams before it registers it, so two may get one name; `rloop`
  holds the receive loops of a process, including those that `Connect` adds each
  time it is called from a receive loop. Down streams, dropped endings, displaced
  ids and the loop's wait for itself are the four things `AcceptedEnds` allows.
* **Pattern 5.** `stream`, `cb`, `tasksCh` are undelivered, unacknowledged and
  received messages. The callback acknowledges after its send into the consumer's
  channel. `stale` says that a dispatch is older than the deadline. `Expire`
  happens when nobody has the task any more (the deadline is far longer than an
  execution); an earlier one is a fault. `scan` is a deadline loop's snapshot and
  its position: it works on what `List` returned, however old.
* **Patterns 6 and 7.** Topic and subscription names are translated from the URL
  of each process per scheme. A NATS subscription exists while its process does,
  a Kafka group keeps its position, an SQS queue stays; creating one takes
  several calls, and a crash may fall between any two. Subscriptions are bags: the
  library promises no order. A deadline re-dispatch is one step here; `P5Nats` has
  its parts. Pattern 7's pub/sub and Postgres files are the same statements as
  Pattern 6's.
* **Bootstrap.** A tick is 500 ms. A request, its answer and the opening of the
  broker connection take any time, a request up to `RequestTimeout` (ten seconds,
  `worker.go:35`), after which its attempt has failed. The clock waits only for a
  handler that runs, a timer that is due and a request whose time is up. The
  handler reads the revocation list and issues the token in two steps, `Revoke`
  may come between. `Refused`, `RequestLost` and `TimesOut` are the three ways an
  attempt fails. Signatures and TLS are left out: the model starts where the
  certificate has been verified.
* **Relay and page.** Three kinds of relay with their own buffers and their own
  way to fail: SSE reconnects, a gRPC stream that ends stays ended for the API,
  NATS loses what is published meanwhile and gives up after its last attempt. A
  card comes from POST /tasks or the index and is changed by events and by the
  answer of one GET; a GET that is rejected or answered without JSON is caught by
  nobody (`SyncFails`). In Pattern 5 each manager has an event loop (`loops`) over
  the one store, and crashes; deadline loop and broker may have a task executed
  again (`SentAgain`), a refused task may be executed too (`DispatchRefused`), and
  `Persist` replaces an ending that is there already. An execution is only its
  two status events here, and whatever sends a task again is one step: `P5Nats`
  has their parts. The gRPC conversion keeps id, user, status and stages and
  loses the dispatch time.

In Patterns 2, 3 and 4 `Submit` and an iteration of `runEventLoop` are single
steps: Pattern 1 checks the interleavings inside them, and there nothing else
touches the row between their calls. In Pattern 5, where other managers do, they
are separate.

## 3. Runs

All runs use one stage per task (five emitted events) and buffers of one or two
slots, so that every buffer is full in many states; the capacities of the code
(64 to 256) only make the same states rarer.

| Run | Instance | Shows |
|---|---|---|
| `p1_dispatch` | 2 tasks, 1 worker, cancel at any time | `TypeOK`, `Custody` (exactly one holder per task), `EndedOnce`, `AcceptedEnds`, `ShutdownEndsLoops` |
| `p1_delivery` | 2 tasks, 1 worker, a page that reconnects | `ToldIsStored`, `OwnTasksOnly`, `SeenInOrder`, and `ImplementsLifecycle`: the process implements `TaskLifecycle` |
| `p2_polling` | 2 tasks, 2 workers, 2 tasks may be hit by faults | `TypeOK`, `Custody` and `AcceptedEnds`: a task is lost or late only by its own faults |
| `p3_links` | 2 tasks, 2 workers, 3 connections, one fails, workers stop | `TypeOK`, `Custody`, `OneTaskPerWorker`, `IdleIsIdle`, `NoSendOnClosed`, `EndedOnce` |
| `p3_live` | 2 tasks, 1 worker, 2 connections, one fails | `AcceptedEnds` unless a connection failed; `BusyReleased`: no registered worker stays busy for ever |
| `p4_streams` | a task by HTTP, one by RPC, 1 worker, one break or restart | `TypeOK`, `Custody`, `StreamHasReader`, `AcceptedEnds` |
| `p4_fleet` | ids used again; 2 workers with 2 tasks, or with 1 task and one break | `Custody`, `OnePlacePerStream` |
| `p4_stranded` (violated) | 1 task, 1 worker, two breaks | `StreamHasReader` |
| `p5_nats` | 1 task, 2 managers, 2 workers, 2 faults | `TypeOK`, `CopiesBounded`, `StaysEnded`, `Recovered` |
| `p6_pubsub` | 1 task, 1 manager, 2 APIs, three schemes, 2 faults | `TypeOK`, `Fanout`, `ToldIsStored`, `Recovered` |
| `p7_bootstrap` | 1 device, 2 managers, TTLs of 4 and 6 ticks, timeout of 5, 18 ticks, 1 fault | `TypeOK`, `RenewedInTime`, `RevokedWindow` |
| `relay` | 1 task, three kinds of relay, 2 managers in Pattern 5, 2 faults | `TypeOK`, `CardTruth`, `Settles` |

**Why these bounds.** Two tasks are needed for one to be refused, or to occupy
the buffer or the worker another one needs. One worker in `p1_dispatch` keeps
liveness within minutes; the safety part of it is proved for any number. In
Patterns 5 and 6 tasks meet only in unbounded broker queues and in different
rows, so one task with several copies of itself is the hard case; two managers
make two deadline loops that see one row, two APIs are what fan-out is about. A
fault bound of two lets a fault fall into the recovery from another; in `relay` the
first repeats an execution and the second breaks what it meets. In
`p7_bootstrap` a hung renewal outlives the short token, as ten seconds outlive the
four-second TTL of `patterns/p07/integration_test.go:77`, and the clock sees five
failed attempts in a row and the renewal after them; requests that are refused
or not answered in time are not counted as faults. A configured TTL of zero
means the default, the 6 ticks. `P4Streams` bounds tasks, processes and breaks
together (`MaxLoad`) because every break adds receive loops. In `p4_fleet` the
bound is four: with both workers there, two tasks and a break are not seen
together, which five would need and which exceeds the time of a run. Breaks
with two tasks are in `p4_streams`, with one worker.

Deadlock is not checked in the runs in which everything submitted may be done
and every goroutine waiting or ended; the liveness properties say what must have
happened by then. Symmetry is used in safety runs only, over sets of
interchangeable model values.

**Fairness.** In Pattern 1 every goroutine of the process (request handlers,
workers, event loop, bridge, pump) is weakly fair: the Go scheduler is
preemptive and channel waiters are served in order. Pages, requests and the
caller's cancel promise nothing. In the other liveness runs less is enough:
tasks, messages, connections and faults are used up, so it is only assumed that
the system does not stop while some step of it (`System`) is possible.
Submissions and faults are outside `System` and never forced; the restart of a
process, the delivery by a broker and the passing of a deadline are inside, as
a supervisor, JetStream and the clock provide them. `p3_live` does not stop
workers: a worker stopped again and again before it dials would satisfy that
assumption for ever.

**Finding.** `p4_stranded`: `Consumer.Connect` starts a receive loop each time it
is called, and the receive loops call it to reconnect and go on. After a second
break two loops dial, and the stream dialled first is registered at the server,
is given a task, and is read by nobody. `PROJECT.json` quotes the comment.

**Sentences of comments and documents that the code does not keep**, met while
modelling and described here without a run of their own:

* `patterns/p05/internal/nats/consumer.go:57` says that NATS redelivers if the
  process crashes before `Receive` returns; the message is acknowledged once it
  is in the buffered channel. The deadline loop recovers the task, as `Recovered`
  of `p5_nats` shows.
* `patterns/p07/internal/app/worker.go:103` speaks of exponential backoff; the
  pauses grow linearly, and `P7Bootstrap` follows the code.
* The repository's README says that the manager "persists non-progress events";
  `runEventLoop` stores endings only, as `shared/models/task.go` says.
* After a cancellation in Pattern 1 a worker can wait for ever in the terminal
  `Emit`, once the events channel is full: `ShutdownEndsLoops` is about the event
  loop, the subscription and the pump.
* `shared/templates/index.html:282` says that a card is brought up to date from
  the server once it is inserted. The fetch has no `catch`, so a rejected one
  leaves the card at "pending" (`unanswered` of `EventRelay`), and a 404 writes
  "undefined" on it.
* Of a task that `Submit` refuses no event tells that its row became "failed": a
  page loaded between `Create` and `SetStatus` keeps showing it as "pending",
  which is why `Settles` is about accepted tasks.
* In Pattern 3 a terminal `Emit` between two connections drops the event, and a
  worker that reconnects while it executes is registered as idle. So `Custody`
  forbids losses, and `OneTaskPerWorker` and `IdleIsIdle` speak, only while no
  connection has failed.

## 4. Proofs

Every theorem holds for any sets of tasks, users, workers, managers and pages
within the named assumptions of its modules, any positive capacities, any stage
counts, and any number of faults.

| Module | Theorem | Says |
|---|---|---|
| `P1ChannelsProofs` | `Inductive`, `TypeCorrect` | `TypeOK` and `CustodyInv` hold always |
| | `CustodyCorrect` | from `Create` to the stored ending a task has exactly one holder |
| | `EndedOnceCorrect` | no step overwrites a stored ending |
| | `ToldIsStoredCorrect` | past the event loop a terminal event agrees with the store |
| | `InductiveOrder` | `RouteInv` and `OrderInv` hold always |
| | `OwnTasksOnlyCorrect` | no page is shown another user's task |
| | `SeenInOrderCorrect` | what a page shows of a task only moves forward |
| | `ImplementsLifecycleCorrect` | Pattern 1 implements `TaskLifecycle` |
| `P2PollingProofs` | `TypeCorrect`, `CustodyCorrect` | a task is never at two places, and a task no fault touched is never lost |
| `P3WebSocketProofs` | `TypeCorrect`, `NoSendOnClosedCorrect` | `Dispatch` never sends on a channel that `readPump` has closed |
| | `EndedOnceCorrect` | no step overwrites a stored ending, whatever connections fail |
| | `CustodyCorrect` | no failure, stop or reconnect doubles a task or its end; while connections last a recorded task has exactly one holder |
| | `OneTaskPerWorkerCorrect` | while connections last a worker has at most one task |
| | `IdleIsIdleCorrect` | while connections last a worker that `Dispatch` finds idle has nothing to do and nothing on its way |
| `P5NatsProofs` | `TypeCorrect`, `StaysEndedCorrect` | no manager takes an ended task back |
| | `CopiesBoundedCorrect` | exactly one execution without a fault; a fault costs at most one per manager |
| `P6PubSubProofs` | `TypeCorrect`, `ToldIsStoredCorrect` | an API hears of an ending after the row has ended |
| | `FanoutCorrect` | every serving API gets what is published, and none gets more than was sent |
| `P7BootstrapProofs` | `TypeCorrect`, `RevokedWindowCorrect` | a revoked device keeps no token for longer than a TTL |
| | `RenewedInTimeCorrect` | for every TTL and timeout a serving worker asks for its next token while its own is valid, unless within the longest pause before it an attempt of its own failed or a token came to be used late; and no request outlives its timeout |
| `EventRelayProofs` | `TypeCorrect`, `CardTruthCorrect` | a card shows only endings the store has had, and the present one unless the task was sent to the workers more than once or executed although refused |

### Assumptions

The proofs use the assumptions the modules name and TLC evaluates:
`UserAssumption`, `ClientUserAssumption`, `FanoutCapAssumption`, `P1Assumption`,
`P2Assumption`, `P3Assumption`, `P5Assumption`, `P6Assumption`, `P7Assumption` and
`RelayAssumption`. They fix the types of capacities, counts and names.
`P3WebSocket` needs finitely many connections (a process dials one after the
other), because `nextIdx` is bounded by the length of the worker list. `P5Nats`
needs finitely many workers and at least one but finitely many managers,
`P6PubSub` finitely many managers: both properties count them. `EventRelay` needs
at least one manager. No theorem has a hypothesis of its own.

How much `RenewedInTime` says depends on the TTL. A token that comes to be used
with less than a second left counts as late, because the code waits a second at
least before it renews. With a TTL of minutes that takes an answer or a broker
that is slow by minutes; with a TTL below a second, which the code accepts, every
token is late, and what remains is that the worker asks again within the longest
pause and a request's timeout. The property speaks of the moment a request is
sent: how long a token can have expired by the time the answer is there is the
timeout, its second conjunct.

### The arguments

**Pattern 1, custody.** `Custody` is not inductive: that a task has one holder
says nothing about what `SetStatus` will find. `CustodyInv` adds what each
goroutine knows: `SubmitInv` ties the program counter of `Submit` to the row
(until `Dispatch` has returned nobody else may have touched it; a refused task
is failed); `OnePlace` says that a task is handed over and pending exactly as
long as it is in the tasks channel, in a worker, or its ending is in the events
channel or in the event loop before the write, and in no two of these;
`NoDuplicates` says it is there once. `EndedOnce` follows because the only
writers of a status, `SubmitFail` and `LoopPersist`, act on tasks that
`CustodyInv` shows to be pending; `ToldIsStored` follows because an event gets
past `LoopPersist` only with the status just stored.

**Pattern 1, who sees what and in which order.** `RouteInv` says that no event is
older than its row, so the look-up in `runEventLoop` always finds the user, and
that what waits for a page carries that page's user. For the order, an event has
a rank, its position in the emissions of a run, and the way of a task's events
to a page is a line of seven places: the page, its channel, the pump, the
bridge's buffer, the loop, the events channel, and what the run is yet to emit.
`OrderInv` says that every rank at a place nearer the page is smaller than every
rank farther away, that each channel holds its ranks in increasing order, and
that a run knows the number of stages its row has. Every step either moves ranks
one place nearer, where they come last (`LineStep`), or drops some. The last
place is needed because without it `Emit` could repeat a rank; it counts a task
that is still queued or being dispatched as about to emit rank 1. Progress
percentages tell the start of a stage from its end for up to eight stages
(`ProgressGrows`), on which the ranks rest.

**Pattern 1 implements `TaskLifecycle`.** `SubmitCreate` is `Record`; the two
writers of an ending are `End`, on rows that `CustodyInv` shows to be pending;
`SSEWrite` of a terminal event is `Tell`: the status is stored by `ToldIsStored`,
the owner is right by `RouteInv`, and nothing was told before because a terminal
event has the highest rank of its task and ranks on a page strictly grow
(`OrderInv`). All other steps leave the three abstract variables unchanged.

**Pattern 2.** `CustodyInv` places every task: it is in one of the queue, an
answer, a run, a late request or the events channel, or it has ended, or a fault
has touched it, and never in two. A POST that its client has given up
is only ever about a task that the fault has touched, which is why dropping it
loses no other task.

**Pattern 3, custody.** `CustodyInv` has four parts. `HubInv`: a connection is in
`p.workers`, once, exactly while its `readPump` reads or releases, and its send
channel is closed only after it has left the list; `NoSendOnClosed` follows.
`WorkerInv`: every worker has a connection of its own from the dial on, and a run
executes the task it is named after. `Attended` holds as long as no connection
has failed (`Lasting`): a worker that holds a task is connected, and one told to
stop has a connection that goes down with it, so no task is lost without a failed
connection. `PlaceInv`: of the eight places a task or its end can be at (the
manager's send channel, the wire, the worker's channel, a run, the worker's send
channel, the wire back, `p.events`, the store) it is at no two, at none twice,
and at none at all only when it has no row or a connection has failed.
`EndedOnce` follows because the loop writes the end it took from `p.events`, which
excludes an ended row. The proof has one lemma per step and kind of place:
a step moves a task from one place to the next, drops it, or leaves it alone
(the counted slots of `CoreProofs`).

**Pattern 3, one task per worker.** Nothing in the worker enforces it; the flag is
on the manager's side, and the task's end comes back through two channels and
the wire. `ServiceInv` follows one connection while connections last: all that is
under way on it, from `Dispatch` to the end that `readPump` takes off the wire,
is about one task; meanwhile `busy` is set and `readPump` reads; and a terminal
`Emit` that waits for room has picked the connection its worker works on.
`Dispatch` finds the flag clear, so nothing is under way there
(`IdleIsIdle`), and what is at a worker is under way on its connection
(`OneTaskPerWorker`). After a failure both are false for the old
connection, which the properties exclude by `Undisturbed`.

**Pattern 5.** Copies alone are not inductive, because several deadline loops may
be about to send the same row. `Budget` bounds the copies together with the
managers that may still send (`Senders`): those whose snapshot still has the
row, and all of them while the row is overdue, except one that has just sent and
not yet stamped. A fault pays for all managers at once. `Undisturbed` says that
without a fault nothing is overdue, so no deadline loop acts; `ExactlyOnce` with
`RequestsInOrder` then gives the equality. `StaysEnded` needs that managers are
sent endings only.

**Patterns 6 and 7.** `StoredInv` says that every message is about a task with a
row and that what an event loop is about to publish has been written.
`FanoutInv` has `Opened`, how far the broker has come with a subscription for
each call `NewAPI` may be at (an SQS queue outlives its process), and
`Balanced`: an ending is at one place at any time, the managers' subscription, a
receive loop, `internalEvents`, the event loop or a subscription of an API, so
what an API got and what may still reach it never exceeds what was sent.

**Bootstrap.** `RevokeInv` adds that a request checked before the last `Revoke`
is issued its token in the tick of that `Revoke`, the race the property is about,
and bounds the expiry of an answer that is still on its way like that of a token
in use. `RenewInv` bounds the moment a timer of a worker is set to, and the
moment a request was sent, by the expiry of its token or by what last disturbed
it plus the longest pause; that of a request also by its timeout.

**Relay.** `ManagerInv` says that an ending is written and recorded in one step
and published after it; `OnceInv` that of a task that is not in `repeated` one
ending at most is ever recorded, by its one execution or by its refusal, so that
what is recorded is what the row has; `RelayInv` that every ending between an
event loop and the page has been recorded, the answer of a GET that is still on
its way included (`PageInv` for the page's part). `CardTruth` needs both halves:
what is on its way may be old, but of a task sent once there is nothing old.

### What is only model-checked

Liveness in every pattern (`AcceptedEnds`, `ShutdownEndsLoops`, `BusyReleased`,
`Recovered`, `Settles`), because fairness and `ENABLED` are outside what the
prover handles, and the invariants of Pattern 4: `TypeOK`, `Custody`,
`StreamHasReader` and `OnePlacePerStream`. `StreamHasReader` is no invariant for
every number of breaks, as `p4_stranded` shows, so a theorem about it would hold
only under the bound of its run; the other three rest on invariants of the same
kind as Pattern 3's but have no proof. Inductions over data and `RECURSIVE`
operators are out of the prover's reach too; no module here needs them.

## 5. Not modelled

* Certificates, signatures and TLS of Pattern 7: cryptography, not control.
* Health probes: they answer from no state of their own.
* Generated protobuf code and the field-by-field converters beyond what they keep
  and lose.
* Flags, environment and wiring of the entry points: they give the constants.
* Errors of Postgres itself and the crash of a manager whose store is in memory
  (Patterns 1 to 4), after which there is nothing left to state.
* What unsubscribing does to a durable JetStream consumer: it is decided in the
  client library.
* Layout and progress bars of the page; the tests and the load generator, which
  were read for what they assert.
