# go-blackbox in TLA+

go-blackbox is a Go framework for services: an application starts a logger,
databases, Redis, MongoDB, an IOC container, a web service, an admin service and
cron, runs until it is told to exit, and stops them in the reverse order. Around
that core it offers building blocks: task queues, message clients, a circuit
breaker, locks, caches, push channels, an event bus, limits, guards, and helpers.

This directory holds TLA+ models of the parts whose correctness depends on
concurrency, failure, order or boundaries, TLC instances that check them, and
proofs for TLAPS. The models are translated from the Go source; where the source
and its documentation disagree, the model follows the source and the
disagreement is recorded in section 7.

1. [The system](#1-the-system)
2. [The modules](#2-the-modules)
3. [The runs](#3-the-runs)
4. [Bounds](#4-bounds) and [fairness](#5-fairness)
5. [The proofs](#6-the-proofs)
6. [Divergences](#7-where-the-code-departs-from-its-documentation)
7. [Not modelled](#8-what-is-not-modelled), [plan](#9-what-would-come-next)

How to use it: `tlc -config RedQueue.cfg RedQueue` checks one instance,
`tlapm RedQueueProofs.tla` checks the proofs of one module.

## 1. The system

For each component: the state it keeps, its operations, what is hard about it,
and what makes it correct. `PROJECT.json` says which are modelled whole.

### Start and stop

| component | state | operations | hard | correct when |
|---|---|---|---|---|
| application lifecycle (`application.starter.go`, `application.lifecycle.go`, `framework/lifecycle/shutdown.go`) | phase, list of shutdown hooks, process and runtime contexts, exit channel | Start and its steps, Exit, WaitExit, shutdown | each step may fail after others opened things; exits race with start-up; the web service may die at any moment; jobs outlive the deadline | users end before what they use; all is released; the first reason is kept; exits and web failures always stop it |
| builder and autoconfiguration (`application.builder.go`, `application.autoconfigure.go`) | what the calls have asked for, the package's logger | Enable…, Set…, AutoConfigure, InitLog, Start | setters of the code and those of AutoConfigure undo each other; a failed InitLog has already closed the old writers | Start sets up what was asked for, and nothing else |
| IOC container (`framework/gbxioc`) | definitions, instances, order of creation, stacks of construction | Register, Get, Start, Shutdown | Start and Get build a singleton at once; cycles; panics in providers | one instance; users destroyed before what they use |
| web server and middleware (`framework/web`) | the server, the chain, the request's context, limiter | the handlers of the baseline, Timeout on its own goroutine | the deadline passes while the chain runs on; order of the checks | nothing is handled that should have been refused; every request returns |
| configuration loader (`framework/config`) | layers of values, the target struct, watcher | LoadToStruct, Watch | reloads read one file alone, into the live struct | environment over project over global over defaults; handlers see valid values only |

### Work in the background

| component | state | operations | hard | correct when |
|---|---|---|---|---|
| Redis task queue (`framework/taskqueue/redqueue`) | list, sorted set, dead letters in Redis | Submit, Consume, RequeueDeadLetter | crash between pop and end; lost replies; cancelled context; two operators | each task in one place or accounted for; retries within the limit; none early; all settle |
| in-process task queue (`framework/taskqueue`) | pending slice, wake channel, count | Submit, Run | the check of the limit and the increment are two steps; panics | no task lost or run twice; workers bounded; Run returns idle |
| audit queue and sink (`framework/audit`) | bounded channel, closed flag, batch | Enqueue, consume, Close | Close during Enqueue, Close called again; sinks that fail half-way | what was accepted is written or counted once the Close that waits has returned |
| alerts (`framework/alert`) | counter and flag per rule name | evaluate | values to and fro; rules of one name | alert and recovery alternate, on evidence |
| cron (`framework/cron`) | tasks, scheduler entries, running marks | Register, RegisterSingleton, Remove, run | removal and re-registration while a run goes on | singletons run once at a time |

### Messages

| component | state | operations | hard | correct when |
|---|---|---|---|---|
| RabbitMQ connection (`framework/mq/connection.go`) | state, link, closed flag | Dial, connect, Channel, Close, watchReconnect | connect dials without the lock; Close races it; drops are seen late | no link leaks; Close stops everyone |
| RabbitMQ producer and consumer | queues and unacknowledged deliveries, retry count in a header | Publish, PublishDelay, process, retry, ack | a link ends between the retry's publication and the ack; queues declared twice; dead letters addressed to nobody | each message waiting, handled, given up after all attempts, or lost where no way back was declared |
| legacy RabbitMQ API (`framework/mq/index.go`) | one shared object, counter of attempts | ReceiveMsg, Recv2, Send, SendDelayMsg, retryMsg | receivers share the connection; errors dropped | messages accounted for; receivers come back or ReceiveMsg ends |
| Kafka (`framework/kafka`) | offsets, group membership | Send, Consume, Close | commit fails or a rebalance comes after the handler; Consume called again on the open reader | at least once, but for what such a call leaves behind |
| MQTT (`framework/mqtt`) | callbacks of the client, session at the broker | Subscribe, Unsubscribe, Publish, Close | drops with clean and kept sessions | session and callbacks agree |
| WebSocket hub (`framework/push/ws`) | clients, rooms, send queues, node id | Handle, Run, Send, Broadcast, Join, Leave, Close, Redis bridge | closed channels; messages between nodes; two locks | Run never panics; rooms isolated; copies from other nodes only |
| SSE (`framework/push/sse`) | clients with queues | SendTo, Broadcast, Close | removal during a send; broadcasts overlap | to subscribers, once; in order where one was sent after another |
| event bus (`framework/event`) | handlers per event | Subscribe, Publish, retry, Redis bridge | closures that look alike; retries on goroutines | a cancellation takes one handler; a successful Publish has run all |
| live streams (`framework/live`) | publishers at the media server | callbacks, KickStream, Record | list and deletion are two calls; forged callbacks; answers that cannot be read | nobody who was refused publishes; a kick ends what it names |
| notifications (`framework/notify`) | channels, window of hits | Register, Allow, Clean, SendAll | all goroutines report errors before anyone reads | window bounded; all errors returned; SendAll returns |

### What admits or counts

| component | state | operations | hard | correct when |
|---|---|---|---|---|
| circuit breaker (`framework/circuit`) | state, window, half-open counter, two clock readings | Execute, allow, record | results arrive states later; panics; boundary of probes | trips on evidence; probes bounded; half-open decides |
| third-party client (`framework/thirdparty`, `httpclient`) | breaker, attempts | Do, doWithBreaker, roundTrip | retry after a lost answer; answers that break off or cannot be decoded; the breaker refuses between retries | each attempt seen once, reported as answered |
| Redis lock (`framework/cache/lock.go`) | key with token and expiry | TryLock, Lock, Unlock, Renew | expiry during work; late Unlock; lost answers | leases exclude each other; Lock returns |
| distributed rate limiter (`framework/ratelimit`) | tokens and time in Redis | AllowN, Reset | the key expires while not full; the time is the caller's | rate and burst held by the time the calls bring |
| online counters (`framework/counter`) | counters by name, peaks | Inc, Dec, Remove, ResetPeak | two create one counter | counts are exact |
| idempotent calls, open API, captcha (`framework/idempotent`, `openapi`, `captcha`) | marks and nonces with expiry, limiters, answers | Check, Release; the gateway's checks; Generate, Verify | Release deletes any mark; requests from the future; concurrent copies | what may be accepted once is accepted once |

### Data and copies of data

| component | state | operations | hard | correct when |
|---|---|---|---|---|
| snowflake identifiers (`framework/database/id`) | last stamp, sequence | NextID | clocks set back; a millisecond's numbers used up | identifiers increase |
| database instances and migrations (`framework/database`) | registry, table of migrations | New, Close, Migrate, Rollback | opening fails after the pool exists; two processes migrate | no pool leaks; the table says what is in the schema |
| permission cache (`framework/rbac`), Redis cache (`framework/cache`) | entries with expiry, local layer | Permissions, HasRole, ClearCache; Get, Set | clear during a load; writes between Redis's answer and the local copy; commands that fail | stale for a bounded time only |
| configuration centre (`framework/configcenter`), language files (`component/i18n`) | cached content, subscribers; messages and file times | Refresh, Subscribe, Close; LoadDir, WatchDir | overlapping refreshes; edits between two looks | copies catch up |
| helpers (`component/util`, `framework/sensitive`, `aop`, `excel`, `upload`, `grayscale`, `database/condition.go`, `database.go`, `component/auth/token`) | none | functions | boundaries, recursion, conversions | results agree with a definition by other means |

Three kinds of interaction matter most. *Shared state under a mutex that is given
up and taken again*: the breaker, the connection, the container and the task queue
act on what they read before. *External stores*: Redis, brokers, databases and media
servers keep the state; each command is atomic and anything may happen between
two. *Goroutines beside the caller's*: the web service of the lifecycle, the chain
of Timeout, the pumps of a client report through channels read later or never.

## 2. The modules

| module | models | actions correspond to |
|---|---|---|
| `AppLifecycle` | `Start`, `buildingService`, the web service's goroutine, `Exit`/`WaitExit`, `shutdown` | one action per step of `buildingService` with its error path; `RunHook` |
| `Builder` | the builder's setters, AutoConfigure, InitLog, and what Start reads of them | one call per step, directly or through AutoConfigure |
| `IocContainer` | `gbxioc` | registration, Get's look at `closed`, its section under `def.mu`, each entry and return of a provider, the beans of Start, OnInit, Shutdown |
| `WebPipeline` | the middleware of the baseline around a handler | one handler of the chain per step, the deadline of Timeout |
| `Settings` | `config/load.go` | LoadToStruct, edits of the file, the callback of Watch |
| `RedQueue` | `redqueue.go` | one action per Redis command, handler outcomes, Cancel, Crash, Restart |
| `TaskQueue` | `taskqueue.go` | the branches of the select, popDue, the wait for a worker, start and end of a task |
| `AuditQueue`, `AlertWatcher`, `CronTasks` | `audit/queue.go`, `alert.go`, `cron/tasks.go` | Enqueue in two steps, flushes, Close and Close again; the evaluation of one rule of a tick; registration and runs |
| `Circuit`, `ThirdParty` | `circuit.go`; `thirdparty/client.go` and the plain client, calling through `Circuit` | `Admit`/`Refuse` are `allow`, `Finish` is `record`; attempts, waits, answers |
| `RedisLock`, `RateBucket`, `NotifyManager`, `Counters` | `cache/lock.go`, `ratelimit`, `notify`, `counter` | one action per script or section under a lock |
| `MqConnection`, `MqConsumer`, `LegacyMq`, `KafkaQueue`, `MqttClient` | `mq`, `kafka`, `mqtt` | one action per section under the mutex, per broker operation and per outcome of a handler |
| `WsHub`, `SseManager`, `EventBus`, `Live` | `push`, `event`, `live` | one action per section under `h.mu` or `roomsMu`, per send of a broadcast, per run and retry of a handler, per callback and per request to the media server |
| `Snowflake`, `RbacCache`, `ConfigCache`, `RedisCache`, `I18n`, `Migrator`, `Databases` | the stores and caches | look-up, load and store as steps of their own; each Redis command of a `Get` or `SetTtl`; first load, fingerprint and reload |
| `IdempotentGuard`, `OpenApi`, `CaptchaStore` | what is accepted once | each check of the gateway is a step |
| `Algorithms` | the helpers, as operators; the one variable is the call that was made | one action per helper chooses its input |

`MC*.tla` are the instances for TLC (`RedQueue` needs none). Most hold several components as *parts*: `part`
names the one that runs and the variables of the others stay as they are, so that
independent components share a run without multiplying their states. Composition is
inside modules where components really meet: `ThirdParty` extends `Circuit` (retries
around the breaker), `MqConnection` contains the loop of `Consumer.Start`,
`AppLifecycle` the web service, `WsHub` several nodes and their Redis channel, `OpenApi` the
gateway with its nonce store and limiters.

A module that holds proofs instantiates the smaller components of its family at its end
and proves about those as well: `AppLifecycle` the container (`Ioc`), the handlers (`Pipe`)
and the builder (`Build`), `TaskQueueProofs` the audit queue, cron and alerts (`A`, `C`, `W`),
`MqConnection` the queues and the other clients (`Q`, `L`, `K`, `M`), `WsHubProofs` SSE, the bus and live streams (`Sse`, `Bus`, `Srs`), and
`Snowflake` the stores, guards and settings. The instances for TLC extend these modules, so
that a run checks the definition its theorem states.

What a deployment chooses once is a variable that `Init` sets and no action changes, where the
properties must hold for each choice: `installed` (which middleware the chain of `WebPipeline`
has), `async` (how `EventBus` publishes) and `signed` (whether the callbacks of `Live` are mounted
behind `CallbackSignature`).

Every module takes sizes and limits as `CONSTANTS`, with a named assumption where
one is needed. *History variables* record what properties count; they feed back into
no guard, except that bounds use them. Definitions marked `Mutant:` are plausible
mistakes in the definition that follows; with the mutant in its place the property
paired with it fails, which shows that the property depends on that line.

Abstractions shared by all: payloads, messages and errors are members of small
sets; logging, metrics, tracing and formatting are left out; a clock is a counter
that all actors of its module read, but for the callers of `RateBucket`, each of which
brings a time of its own; random jitter is left out, since no property
depends on the length of a wait.

## 3. The runs

| run | instance | shows |
|---|---|---|
| `app` | a worker, an application with everything and one with a legacy web service, every step failing at will, a web service that ends with an error or without; a container of two beans that need each other; two requests of eight kinds through the chain, with the baseline and without; three calls of the builder | `ShutdownSound`: resources are closed after their users in exact reverse order, nothing is left but the resource whose own step failed, the first reason is reported. `ExitsAreHeeded`: exit requests and errors of the web service stop the application, requests return. `BeansSound`, `RequestsGuarded`, `BuiltAsAsked` |
| `web_panic` | the chain with the baseline | **violated**: `PanicsAnswered` |
| `redqueue` | two payloads, two consumers that crash, are cancelled and see Redis fail, one operator, a task in the old format | `TaskLedger`: each task in exactly one place or counted. `RetryBudget` exact. `DelayedUntilDue`. `EventuallySettled` |
| `redqueue_shutdown` | one consumer, cancelled in its handler | **violated**: `NoTaskLost` |
| `taskqueue` | two Run loops over one worker; the audit queue with two calls of Close; three alert rules, two of one name; singleton tasks; a hub with one client | `TaskLedger`, `WithinWorkers`, `ReturnedIsIdle`, `TakenInOrder`, `EventuallyExecuted`; `BackgroundSound`: when Close returns nil every entry is settled, unless it is a repeated call beside one that waits or has given up; singletons run alone; `MessagesOnEvidence`: alerts and recoveries alternate; `HubSettles`: a broken connection is taken out and Close ends, but for the deadlock of section 7 |
| `mq` | the connection with a watcher, two consumers, a drop and Close; the queues with and without a named exchange and a way back from the delay queue; the older API with a broker that restarts; a Kafka group whose members call Consume again; an MQTT session | `LinksOwned`, `MessagesKept`, `OtherClientsSound`, `EverythingSettles` |
| `mq_connection_drop` | a drop, nobody calls Close | **violated**: `Reconnects` |
| `push` | one hub with two clients; two nodes behind Redis; SSE with two broadcasts at once; the event bus, synchronous and not, two of its four subscriptions with retries, cancellations called again; live streams with signed callbacks and forged ones | `HubSound`: Run never sends on a closed channel, rooms keep their messages and forget removed clients, copies come from other nodes only. `EventsReachSubscribers`, `ApprovedAndNamed` |
| `ws_bridge` | a message to a room, two nodes | **violated**: `DeliveredOnce` |
| `guards` | three callers of the breaker; clients that retry through it; a lock; a bucket whose callers' clocks differ; a notifier two ask at once; counters | `TrippedOnEvidence`, `ProbesBounded`, `BreakerHalfOpenDecides`, `CallsAgreeWithPartner`, `LeaseExclusive`, `LimitsHeld`, `CountsExact`, `CallersReturn` |
| `stores` | identifiers, caches, migrations, instances, guards of acceptance, settings, helpers | `Increasing`, `StaleForBoundedTime`, `CopiesCatchUp`, `RecordsAgree`, `AcceptedOnce`, `SettingsLayered`, `ComputedRight` |
| `settings_reload` | edits of the project file | **violated**: `LayersKept` |

A property named in an `MC` module is the conjunction of those of its components; the
comment before it names them. `WithinWorkers` (the limit plus the number of loops less
one) and `ProbesBounded` (the limit plus the call that ends the cooldown) state the bound
the code really keeps, and so do others, where a comment promises more (section 7):
`StaleForBoundedTime` (a load that overtakes `ClearCache` brings old grants back for one
lifetime; a value Redis no longer has, or never took, lives on in one process for the local
one), `RetryBudget` (the number of retries; they come at once), `AcceptedOnce` (a request passes
again when its nonce is forgotten; a late `Release` takes the mark of another), `LimitsHeld` (the
rate by the times the calls bring; the window less the longest wait for the lock),
`BeansSound` (one instance but for the runs that Start began beside another),
`OtherClientsSound` (Kafka passes what a new `Consume` leaves behind), `ApprovedAndNamed`
(forged callbacks run handlers where no signature is asked for) and `RequestsGuarded` (no limit
for a body of unknown length where nobody reads that far).

`ComputedRight` states what each helper must be by other means than the helper's: a masked
text contains no word; aspects nest like an onion; `BuildTree` and `FillTree` make one
forest; pages partition the rows; a version is in one range; copies leave protected fields
share nothing and lose no more than the high bits of a number too wide for its field; a condition
has as many marks as arguments, and asks of every field but one whose `in` value has an unknown type; the old and the new database
configuration agree; a DSN is parsed back; raising a ratio takes the new version from
nobody; every row of a sheet is reported once with its own number, and what was exported,
in whatever batches, is imported again.

## 4. Bounds

* `RedQueue`: two submissions meet in the sorted set or stay apart; `MaxRetries` 1 reaches
  both sides of the limit; `MoveLimit` 1 leaves a due task behind; `MaxRequeues` 1 sends one
  letter round again with its old count.
* `TaskQueue`: three tasks over one worker make one wait while another loop takes the third.
* `Circuit`: three callers let a call survive a trip, a cooldown and the half-open period of the
  others; `MaxTime` 5 holds two windows or a trip, a cooldown and a second trip;
  `MaxPanics` 1 is less than the number of probes, which `BreakerHalfOpenDecides` needs.
* `ThirdParty`: three callers of one breaker, two clients with two retries and a plain one, over
  two units of time: one's failures trip the breaker between another's attempts.
* `MqConnection`: a link and its replacement, one drop. `MqConsumer`: two rounds through the
  retry queue, and a drop for each consumer. `LegacyMq`: two receivers share two dials,
  and two faults let a restart take a delayed message behind a failed retry.  `KafkaQueue`: three
  offsets, two faults: a failed message with one behind it that is committed.
* `WsHub`: two nodes and three connections, of which the first part uses the two of one node, which
  let Close come between two sends of one broadcast, and the second part one of each; one
  publication goes round two nodes once; queues of one fill up.
* `AppLifecycle`: `MaxExits` 2 compete for the one place of the exit channel; the number of
  steps is the code's. `IocContainer`: two beans in a cycle and three runs, two getters beside
  Start, which meets a run under way. `WebPipeline`: the second request competes for the one
  token; sizes are within, at and beyond the two limits of a body, the limit of `BodyLimit` beyond
  what is read. `Builder`: three calls in any order have each call undone by each other and a
  third between; its theorem holds for any number.
* `RedisLock`: two callers, two attempts, time for a lease to expire and be taken over.
  `OpenApi`: a window of 2, nonces for exactly two windows as by default, and a request from the
  future, which passes again at the last moment (time 5). `IdempotentGuard`: three calls over two
  lifetimes of the mark, so that the second is robbed by the first and the third let in.
  `RateBucket`: every reading of five units by any call, time for the key to expire between two
  full draws.
* `Snowflake`: two numbers in a millisecond, a clock that may go back by more than it waits.
  Caches: three versions, two concurrent loads, clocks beyond one lifetime and one load; of the
  Redis cache two processes, two values, a local copy that outlives the value in Redis. `I18n`: four
  edits fall before, between and after the first load, the fingerprint and a reload.
* `SseManager`, `EventBus`, `Live`: two messages sent at once to two clients; four subscriptions, two
  of which look alike; two clients over two streams with one kick between them.
* `Algorithms`: texts of four letters, with blanks; forests, sheets of up to four rows and batches
  of one to three; every driver, mode and boundary value of the configuration.

The theorems of section 6 hold without any of these bounds.

## 5. Fairness

Fairness is on what the Go scheduler and the timers provide: a goroutine that can take a
step takes one at last (weak fairness per goroutine), and clocks advance. Beyond this:

* handlers, hooks and protected functions return, an assumption on the business. Where a
  deadline exists (`Timeout`), nothing is assumed of the handler;
* `TaskQueue` has strong fairness of a loop's branch for finished contexts, which competes with
  other ready branches of its select;
* `MqConnection` has strong fairness of a successful dial: a broker that is dialled again and
  again is reached at last. `Reconnects` is violated even so;
* `MqConsumer` has the steps of a consumer that has its link and the timers of the broker. Nothing
  brings back a consumer that has lost its link: its loop waits for a reconnection that does
  not come (`mq_connection_drop`). So a message is promised to settle only where some consumer keeps
  its link at last;
* `RedQueue` too speaks of the consumers that stay in Consume only;
* `I18n` has its ticks and loads, nothing that makes a load succeed;
* `LegacyMq` assumes nothing of the broker: it may stay down for ever, and then `ReceiveMsg` ends;
* `Circuit` assumes that callers come back: without calls a breaker changes no state;
* nothing ever has to fail, crash, be cancelled, be closed, drop or be requested.

`CHECK_DEADLOCK FALSE` is given where the system does stop: an application that has stopped,
loops that have returned, a connection closed for good, clocks at their bound, a helper that
has been called.

## 6. The proofs

`RedQueueProofs`, `TaskQueueProofs`, `GuardsProofs`, `WsHubProofs` and the ends of
`AppLifecycle`, `MqConnection`, `MqConsumer` and `Snowflake` prove, for every value of the
constants that satisfies the assumptions of the modules: limits are naturals, positive where
the code makes them so; the sets of loops, consumers, messages of the broker, requests of the
gateway and nodes are finite; each connection is made to one node; a configuration is one the
builder can make, its business hooks have labels of their own and each store is connected
once; the client's number of retries is not negative; somebody calls the lock; visitors are
finite. One assumption asks of a deployment what the code does not enforce: that of `Snowflake`
that nodes have numbers of their own. No theorem has a hypothesis of its own; where the code lets
something happen that a reader would not expect, the property says so:

| theorem | why it needs more than the property |
|---|---|
| `RedQueue`: `TypeCorrect`, `RetryBudgetAlways`, `DelayedUntilDueAlways` | `RetryBudget` says nothing of the letter an operator holds between reading and pushing it, which returns to the list with its count. `IInv` is `KeysOK /\ ConsumersOK /\ OperatorsOK /\ HistoryOK`: it types each key and each hand with the set of values whose count is within the limit. `DelayedUntilDue` needs from it only that the set is finite and well typed, then looks at the two actions that touch `zset` |
| `RedQueue`: `TaskLedgerAlways` | an equation between counts: what was accepted, put back by an operator or run twice is somewhere or has ended. It is inductive with two facts it rests on (`LedgerInv`): a member of the sorted set occurs once, because `ZADD` replaces its score, and finitely many consumers have a task in hand. Each action takes as many from one place as it puts into another |
| `TaskQueue`: `TypeCorrect`, `WithinWorkersAlways`, `ReturnedIsIdleAlways`, `TakenInOrderAlways`, `TaskLedgerAlways` | `CountInv` bounds `running` plus the loops that have passed the check and not yet counted themselves by `Workers + Cardinality(Runs) - 1`, and `running` by the goroutines from below, which is why it never goes negative. `OrderInv` says that nothing pending is due before the task taken last. `IdleInv` ties a loop's position to its task and its goroutines. `TaskLedger` is kept action by action, a removal from the pending sequence taking exactly one element (`RemoveAtElements`) |
| `Circuit` (in `GuardsProofs`): `TypeCorrect`, `WindowBoundedAlways`, `ProbesBoundedAlways`, `TrippedOnEvidenceAlways` | `HalfOpenCount`: in half-open, `probes = halfOK + 1` and the window is empty, so that closing starts a fresh window. `WindowBounded` (outside open, fewer than `MinRequests` results) is what makes a trip rest on exactly `MinRequests` of them |
| `AppLifecycle`: `ReleasedAlways`, `FirstReasonKeptAlways` | `StopInv`: what is open has a hook that will run, or belongs to the failed step; the runtime context is live only as long as nothing has gone wrong. Cron is the difficulty, being started at `seeds` without a hook, which the last step registers: `SeedsLast` says that whatever was asked for, the steps between cannot fail. `ExitInv`: the channel holds the first request until `WaitExit` takes it |
| `AppLifecycle`: `ShutdownSoundAlways` | `OrderInv`: what is left of the plan is the rest of the steps, a hook is registered no earlier than its step (`SoFar`), so the list rises in their order (`Rising`) with no resource behind what uses it; and the hooks run and still to run are one falling course, which a finished hook does not change. `UsersInv`: a job runs only beside a scheduler, unless the deadline cut the wait short, and the hook of cron is not left before cron has stopped |
| `ThirdParty` (in `GuardsProofs`): `CallsAgreeAlways` | that a client's report agrees with what the partner saw follows from where each attempt is. `CallsInv` says that the requests of different clients and of different attempts have different nonces, on the way too (`RequestsApart`, `SentApart`), that the partner has given no final answer to an earlier attempt of a call that goes on (`AttemptsSeen`), and that a final report has a final answer behind it, which may have broken off or be one that cannot be decoded (`ReportsBacked`): such an answer ends the call with an error, and only one that is lost altogether is asked for again |
| `MqConnection`: `LinksOwnedAlways`, `DialsOnceAlways` | `IInv`: until `Dial` returns the Connection has no link and only `Dial` runs (`Fresh`); afterwards it has one until `Close` (`InUse`). `DialsOnce` follows: the state never leaves connected until `Close`, so `connect` returns at once and no dial takes place after the first - which is why the run `mq_connection_drop` finds `Reconnects` violated |
| `MqConsumer`: `TypeCorrect`, `GivenUpAlways`, `MessageLedgerAlways`, `LostOnTheWayBackAlways` | `IInv` says that a delivery carries no more retries than its message has failed attempts, and that the broker awaits the answer to a delivery exactly as long as the consumer that has it keeps its link. From this, a message is given up only after all its retries. `LedgerInv` counts the copies of a message as numbered pairs, finite in number; every step of a consumer conserves them (`Conserves`). The library leaves the address of dead letters to its caller, so a delayed copy may reach nobody: it has `strayed`, which `DelayReturns` decides. `LostInv`: any other copy is lost only where the retry queue was declared by name, and the lost copies with those about to be sent on are no more than those that strayed and the failed attempts |
| `WsHub`: `TypeCorrect`, `HubSoundAlways` | `IInv` has a part for each part of `HubSound`. `RemovedForGood`: a channel is closed only by the loop, at a client whose readPump has ended, which is not in the hub and is not among those that a broadcast still has to reach. `GhostsLeaving`: who is in a room and not in the hub is on the way out of it, or joined too late. `RoomsKnown`: whatever is on its way - in a queue of the hub, in the hands of a loop or a sender, in Redis - belongs to the room its message was first sent to, and who is to get it has been in that room. `CopiesAccounted`: the copies a client has and those that may still reach it (`InFlight`) are at most one for its own node's first broadcast and one for each publication by another node; every step moves as many as it takes, and only a first broadcast or a publication adds one |
| `RedisLock` (in `GuardsProofs`): `LeaseExclusiveAlways` | `LeaseBacked`: a lease not yet reached rests on a key that is set, carries the token of its holder and expires no earlier. A late `Unlock` or `Renew` of an earlier holder compares tokens, so it changes no key that backs the lease of another; an acquisition needs a free key, which backs no lease. Lost answers and renewals that found nothing need nothing more. It is exclusion of leases, never of work done after one has run out: `Renew` does not tell |
| `RateBucket`, `NotifyManager` (in `GuardsProofs`): `LimitsHeldAlways` | `RateHeld` speaks of pairs of draws only; `BucketInv` adds what is left in the bucket: what has been drawn since any draw, with what is left, is no more than a full bucket and what was refilled (`RoomSince`). A key that expires is one that would have been full, because it lives for twice the time a bucket fills in (`BucketLife`). `LimiterInv`: the limiter remembers every send that still counts, and they are in the order of time; so a span with one send too many would begin within the window (`WindowHasRoom`), less the longest time that a caller waited for `r.mu` after it had read the clock (`waited`). The time of the bucket is what its callers bring: `elapsed` adds up the steps forward from one call to the next, so where one caller's clock lags, the way back counts again |
| `Counters`, `NotifyManager` (in `GuardsProofs`): `CountsExactAlways` | `CountersInv`: until the first `Remove` there is at most one `Counter`, every visitor has looked up that one or none, and its value is the number of those counted (`OneCounter`); afterwards, on every `Counter`, the peak is the highest value. `SendInv`: each goroutine is under way or has reported, and the channel has the errors of those that failed |
| `Snowflake`: `IncreasingAlways`, `IssuedOnceAlways` | `BelowLast`: no identifier lies above `lastStamp` and `sequence`, and each has the number of its node. Every way out of `nextID` issues above them (`IssueAbove`), the clock moves without touching them. That nodes have different numbers is assumed: the code only asks for it |
| `MqConnection`: `MessagesKeptAlways` | the theorems of `MqConsumer` carried over, through the instance, to the property the run checks |
| `LegacyMq`, `KafkaQueue`, `MqttClient` (in `MqConnection`): `OtherClientsSoundAlways` | `AccountedWithoutAcking`: a body a receiver has still to acknowledge is already queued again, delayed or settled, so what it holds then adds nothing to the account; only copies that used all attempts are reported; and delayed copies, which are transient, are dropped only by a fault or for want of a way back (`DroppedForReason`). `ReadersInOrder`: whoever owns the partition, nothing up to where a reader stands is open (`NothingOpen`: neither handled nor passed over) but the message it fetched last, and that one is handled before it is committed. A message is passed over where its handler failed and `Consume` was called again on the reader. For MQTT the property is inductive with the types: the broker's list and the callbacks change together, and only a drop of a clean session parts them |
| `AuditQueue`, `CronTasks` (in `TaskQueueProofs`): `BackgroundSoundAlways` | `QueuedSomewhere` says that a queued entry is in the channel or in the batch, `LeftEmpty` that the consumer leaves both empty and only once the channel is closed, when an `Enqueue` that comes late panics instead of queueing. `FirstWaits`: a closed queue was closed by one call, which waits for the consumer or has stopped waiting; a repeated call (`RepeatedLater`) returns at once, so its nil means something only when the first has returned nil too. `ExecutingMarked`: a singleton that executes has its mark, which `Remove` and `Register` leave alone |
| `AlertWatcher` (in `TaskQueueProofs`): `MessagesOnEvidenceAlways` | the messages speak of samples the watcher does not keep. `CountersCount`: the two counters of a rule count its last samples of one kind, and it is alerting if and only if its last message is an alert. Both hold of a rule whose name no other has (`Alone`), since state is kept by name |
| `RbacCache`, `RedisCache` (in `Snowflake`): `StaleForBoundedTimeAlways` | `CurrentSince(v, t)` says that version `v` was still valid at some time since `t`; an entry holds one that was valid since its ttl and one load before it expires, an answer one since as long before it was asked for. Of the Redis cache, `AnswerOK` says that an answer on its way to the local copy was in Redis when it was read, and `CopyOK` that a copy ends within `LocalTtl` of that moment, plus the time the Get took to keep it, or within `LocalTtl` of the `SetTtl` of its own process that made it (`Founded`) |
| `IdempotentGuard`, `OpenApi`, `CaptchaStore` (in `Snowflake`): `AcceptedOnceAlways` | `MarksKept`: a call that counts has its mark, or its lifetime is over, or a `Release` of an earlier call took the mark (`robbed`). `NoncesKnown`: the nonce of an accepted request is kept for `NonceTTL` from then on; so two copies that passed did so `NonceTTL` apart (`AcceptedApart`), whatever the window and however long a request is under way between two checks; `TokensAccounted`: the requests passed and the tokens left are no more than a burst and what was refilled. `AskedIsGone`: `Verify` takes the answer out whatever it is |
| `Migrator`, `Databases` (in `Snowflake`): `RecordsAgreeAlways` | `AtMigration`: a call at work is at one of the migrations. `OpenersHoldMutex`: the pool of a caller is its own while it opens one, because it does so under `instancesMu`; with it each open pool has one owner, the registry or that caller |
| `Settings` (in `Snowflake`): `SettingsLayeredAlways` | `OverridesSet`: from the first load on, the layer of the environment is what the splitting of its variables gives, and before it nothing is loaded. The reload replaces the layers of the files only |
| `SseManager`, `EventBus` (in `WsHubProofs`): `EventsReachSubscribersAlways` | `SentInOrder` puts the queue of a client behind what it was written: its messages are there once, wanted by it and about to be sent to it by nobody, and none before one that had been sent when its own sending began (`after`, `MessagesStand`); of broadcasts that overlap nothing is said, since they share a read lock. For the bus, a cancellation removes one handler of those that look alike (`LooksLike`), so as many are entered (`Entered`) as are wanted (`Wanted`) unless one is cancelled again. `PublicationsRun`: what a publication has still to run is of the subscriptions it found, in their order within a topic, none twice, and whatever is due is left to run or has succeeded |
| `Live` (in `WsHubProofs`): `ApprovedAndNamedAlways` | `IdsApart`: client identifiers are given out once, so a question, a publisher and the target of a kick are about one publisher. `PassedSoFar`: a client the server still asks about was refused by no callback; forged callbacks do not change that, signed or not, since the server hears their answers not at all. `FoundThere`: what a kick found in the list publishes the stream it names, or nothing any more; an answer that cannot be read is reported as success whatever became of the deletion |
| `IocContainer` (in `AppLifecycle`): `BeansSoundAlways` | `beside` names the runs of a provider that Start began although another was under way (it does not look at `constructing`), and those begun like that afterwards. `OneRun`: of all the others there is at most one, under way or returned, for each singleton. `InstancesKept`: what a provider returned leaves its bean with an instance, which is one that was returned. `Destroying`: from Shutdown on, every bean that had an instance then is destroyed or still to be, in falling order of registration; Start, whose look at `closed` is long past, may build further ones meanwhile |
| `WebPipeline` (in `AppLifecycle`): `RequestsGuardedAlways` | one part for each promise: `AnswersCounted` (who has answered a request: the chain at most once, and the deadline beside it), `BodySearched` (a request behind `BodyLimit` and `SQLGuard` has a body within the limit (`WithinLimit`: or of unknown length, where the limit lies beyond what is read) of which what is left was searched), `Authorised`, and `HandledLast` (a request that is handled was rejected by none and sees the rows of its user only). They rest on facts about the chain: the handlers follow each other in one order, whichever are installed |
| `Builder` (in `AppLifecycle`): `BuiltAsAskedAlways` | `IInv` says of the builder at any time what the property says of the application, field by field (`DatabaseAsked`, `StoresAsked`, `CallbacksAsked`, `ServicesAsked`), of the logger that it writes from its configured level on or its failure is recorded (`LoggerMade`, `LoggerAsked`), and that the outcome fits both. One description of what a call changes (`Follows`) is met by every setter and by each step of `AutoConfigure`, and keeps every part. That the callbacks of one more call come behind those there are (`FlattenSeq` of an appended sequence) is an induction over the calls, made by way of a least counterexample (`LeastNatural`) |

Each proof has the same shape: facts about the operators of the model, one lemma per
action (or group of actions that touch the same variables), `NextIInv`, and a temporal
step that combines them.

Only model-checked:

* every liveness property: liveness under fairness is out of the prover's reach;
* `ComputedRight`: what the helpers of `Algorithms` compute for every input is an induction over
  data, and several are `RECURSIVE`, which the prover cannot be given;
* the copies of `ConfigCache` and `I18n`, whose properties are about catching up.

## 7. Where the code departs from its documentation

Shown by a run:

* **`web_panic`** `Timeout` runs the rest of the chain on a goroutine that recovers nothing
  (`security_middleware.go:77`): with the security baseline a panic of a handler ends the
  process, though `error_handler.go:13` promises a 500. A handler also goes on after the 504.
* **`redqueue_shutdown`** After cancellation `requeue` and `pushDead` use the cancelled
  context; the task whose handler then fails is dropped (`redqueue.go:191`), while
  `redqueue.go:134` describes a graceful exit.
* **`mq_connection_drop`** `connect` returns at once because `state` still says connected
  (`connection.go:112`); after a drop nobody dials again.
* **`ws_bridge`** A node hands what it receives from Redis to `Broadcast` or `BroadcastRoom`
  (`redis_bridge.go:115`), which publish it again as this node's. Two nodes pass a message to and
  fro for ever, though `redis_bridge.go:18` says that the node id avoids that. The model stops
  after `MaxPublishes` laps.
* **`settings_reload`** A reload reads the project file alone (`load.go:228`); what only the global
  file sets is lost, though `load.go:22` describes two layers.

Met while modelling, without a run of their own; each model follows the code.

Start and stop:
* hooks given to `OnShutdown` are registered last (`application.starter.go:296`): a start that
  fails earlier never runs them, though `application.builder.go:330` promises it;
* a database whose migration or registration fails has no hook yet and stays open; `Released`
  excepts it. Components started before one failed are not destroyed;
* "explicit calls win" (`docs/CONFIGURATION_GUIDELINES.md:86`) is true of the web service only:
  `AutoConfigure` replaces the database configuration and the admin service with its routes, and
  `EnableDatabase` forgets the models registered before;
* `AutoConfigure` multiplies the MongoDB timeout by `time.Second`, and the starter does so again;
* `zaplog.Init` closes the old writers and sets the console level before it can fail
  (`log/index.go:42`), though it says that a failure keeps the logger;
* the watcher unmarshals into the live struct before it validates, and keys taken out of the file
  keep their values; a change between `WatchConfig` and `OnConfigChange` is missed;
* `buildSingleton` does not look at `constructing` (`container.go:205`): Start beside a Get whose
  provider is under way runs it a second time, and there are two instances of what `container.go:14`
  calls one for the whole container. Start and a Get that began before Shutdown build beans after it;
* `monitorWebService` ignores a nil result (`application.starter.go:452`), which its comment takes
  for a cancelled context; `Run` also returns nil when the server was closed by other means
  (`web/lifecycle.go:40`, `:82`), and the application then runs on without its web service;
* `SQLGuard` reads the first 4 MB of a body and hands on no more (`security_middleware.go:92`). A body
  of unknown length that exceeds the limit gets 400 instead of the 413 of `:47`, and where that
  limit is 4 MB or more it is cut off and accepted, though `:57` says that it is intercepted.

Background and messages:
* a consumer that crashes after BRPOP loses its task (`redqueue.go:162`; `CHANGELOG.md:298` says
  that tasks survive): counted in `lost`. Equal delayed payloads are one member of the set
  (`merged`); `RequeueDeadLetter` is two commands (`copied`, `removed`). A failed task goes back to
  the list at once (`redqueue.go:204`): the delay of a second that `redqueue.go:3`, `:132`, `:190` and
  `docs/REDQUEUE_GUIDELINES.md:38` promise is nowhere, and all retries are used within an outage of
  moments. `RetryBudget` therefore counts retries and says nothing of when they come;
* a second `Close` of the audit queue returns nil at once (`queue.go:95`), while entries are still
  queued, though `:89` says that Close waits and may be repeated; `Enqueue` panics when Close comes
  between its look at `closed` and its send (`queue.go:83`), where `:70` promises a counted drop;
* `cron.DoOnce` hands over a recurring expression; the Redis sink of the audit queue
  pushes a batch from its end, so that its oldest entry is at the head, where the comment says the
  newest is (`redis_sink.go:39`); alert rules of one name share their state;
* with a named exchange the retry queue of `mq` is declared twice with different arguments
  (`producer.go:144`, `consumer.go:142`): the retry fails and the message is acknowledged. A
  delivery whose handler panics is acknowledged (`panicked`). `PublishDelay` without a routing key
  reaches nobody, and neither do the dead letters of a delay queue whose address nothing is bound
  to (`strayed`). `consumer.go:17` says that a consumer comes back after a drop: it loops, but
  nothing gives it another link;
* the older API uses a nil connection after a failed dial (`index.go:599`), drops the error of a
  failed retry and acknowledges, never resets its counter of attempts (`:516`) and leaves old
  connections open. Its delayed and retried messages are published without a delivery mode
  (`index.go:328`, `:418`), so the durable queues lose them when the broker restarts;
* `Consume` of Kafka returns an error when the handler fails and leaves the offset uncommitted
  (`kafka.go:111`). Called again on the same reader it fetches the next message, and the commit of
  that one passes the failed one too, though `:138` says at least once (`passedOver`); only a new reader
  starts from the committed offset. A consumer cannot be used again after Close; `Send` sets the topic on writer and message;
* `Subscribe` of MQTT with a nil handler drops the messages instead of using the global callback
  that its comment names (`mqtt.go:91`);
* `BroadcastRoom` panics when a client is removed between the look and the send (`panics`); Run
  reads under `h.mu` while `Send` takes it again (`hub.go:141`), and with Close in between both wait
  for ever; once Run has returned nobody takes clients in or out;
* `SendTo` and `Broadcast` of SSE panic in the same way, counted in `panicked`; two broadcasts share a read lock
  (`sse.go:180`), so clients may be sent them in different orders;
* the cancel function of `BridgeEventBus` panics when it is called twice. Two closures made at one
  place of the code are one handler to the event bus (`eventbus.go:145`), and `SubscribeRetry` wraps
  every handler in one such closure: cancelling takes away the first that looks alike, and
  cancelling one subscription a second time takes another away, though `eventbus.go:50` and
  `docs/EVENTBUS_GUIDELINES.md:76` say that the cancel function may be called again;
* handlers of every event (`*`) run before those of the event, whatever was subscribed first, though
  `eventbus.go:86` and `docs/EVENTBUS_GUIDELINES.md:36` promise the order of subscription: the property
  keeps that order within a topic. `SubscribeRetry` retries on an asynchronous bus too, where
  `retry.go:12` says that it does not;
* `live.Provide` mounts the callbacks without a signature check, whatever `CallbackSecret` says
  (`live.go:41`), while `docs/LIVE_GUIDELINES.md:67` and `:77` say that a forged callback gets 403 and
  reaches no handler; it does where the application has not put `NewCallbackSignature` before them.
  `KickClient` reports success for a 2xx that it could not read (`client.go:258`, `:265`).

Guards and stores:
* half-open lets `HalfOpenMaxRequests + 1` calls through; a probe that panics is never recorded
  (`circuit.go:148`), and after all have, the breaker refuses for ever; a success from before the
  trip closes it, too;
* `Renew` reports success for a lock that is lost (`lock.go:116`); `Release` of an idempotent call
  deletes whichever mark it finds (`idempotent.go:59`): when the call outlived its own, that of
  another, beside which a third then runs;
* the bucket takes the time of each caller (`limiter.go:30`, `:77`): one whose clock lags sets it
  back, and the next caller refills the same stretch again. Two callers a distance apart
  who alternate gain that distance at every turn, without limit, though `limiter.go:2` speaks of a
  quota that instances share. The limiter of `notify` reads the clock before it waits for its lock
  (`ratelimit.go:36`), so its window is short by that wait;
* a `Get` of the Redis cache stores locally what Redis answered before it was overwritten, and a `SetTtl`
  that Redis refuses has left its value in the local copy (`redis.go:34`, `:80`);
* `HasRole` without a cache lifetime is always false (`rbac.go:51`); two look-ups can write one map;
* a language file that failed to load is not tried again until it changes (`watch.go:55`; the comment
  says next round); a change between the first load and the first fingerprint (`watch.go:34`) is
  missed until another; `openapi.New` makes a default registry and does not keep it;
* a request from the future passes for twice the window, and the default `NonceTTL` is exactly that
  (`gateway.go:60`): a nonce is forgotten at the moment it expires (`nonce.go:39`), while the check of
  the time still accepts a request of exactly that age, which passes a second time.

Helpers:
* an unknown column of a sheet is not skipped but taken for the first field (`excel.go:208`), on
  import and on export; `ExportName` adds no number to a name of the same second; a failed number
  leaves zero without an error in `ImportWithErrors`;
* `Page` and `PageOn` ignore the filter of the `db` they are given; a limit of fewer than 10
  connections needs the idle limit given as well;
* `in` with a value of an unknown type gives an empty condition without an error
  (`condition.go:98`; its comment speaks of empty slices): alone it leaves the query without any
  condition, beside others an `AND` with nothing, which the database refuses. "is null" without a
  value is ignored;
* `upload.Parse` with `MaxSize` 0, "no limit", reads one byte;
* `DeepCopy` turns a nil map into an empty one, drops keys with nil values, and never ends on a cycle;
  `CopyProperties` narrows integers silently and reports a mismatch after a partial copy;
* nodes of a cycle of parents are in no tree; words with a blank inside never match; a decorated
  function whose error is not its last result loses results.

## 8. What is not modelled

* The code generator and API documentation: text. The generator's record of a table is written
  after its files: a failure in between lets the next call overwrite them without asking.
* Logging, tracing, host monitoring; clients of storage, mail, SMS, search, time-series and
  document stores: one call of a library or a service each, no state over time.
* Validation, error codes, masking, the list of SQL words, RSA: functions of one text, cheaper to
  test than to model. Panic recovery, seeds, `LoadOrStore` and the data scope: a few lines around a
  library or a callback; examples and the build tool.
* Reads without effect (`Stats`, `Pending`, `State`, `Count`, …) and setters used before the start.
* Inside what is modelled: what an open or close call of a resource does within (it may fail, and
  what it leaves is modelled); the delivery mode of the newer message API, whose retried and delayed
  messages are transient too: its broker does not restart; CORS, health probes and static files of the web server; heartbeats
  and formats of push channels; payloads. The notes of the components in `PROJECT.json` say what
  each leaves out.

## 9. What would come next

Proofs: the safety that is left is what the helpers of `Algorithms` compute (section 6); those that
are not `RECURSIVE` could follow `Builder`, whose induction goes by way of a least counterexample. Models: the container as a part of the
lifecycle instead of beside it; an abstract queue with counted losses that `RedQueue`
implements; an abstract lock with leases.
