# Blink in TLA+

Blink is a message bus on RabbitMQ. Its web application turns HTTP requests
into messages and publishes them to a topic exchange; each worker process
consumes one queue, calls an external service for every message, and
acknowledges, rejects or retries it. This directory models the parts of Blink
whose correctness depends on order, failure and time. TLC checks the models on
small instances; TLAPS proves the core results for every value of the constants.

Paths below are relative to the repository (`src/lib/...` is the code's own
`src` directory). `PROJECT.json` maps every definition to its lines.

## 1. The system

| Component | State | Operations | Talks to |
|---|---|---|---|
| `Worker`, `Dequeuer`, `RetryManager`, `InMemoryRetryDelayer` (`src/workers`, `src/lib`) | deliveries in memory, each throttled, in `consume()` or waiting for its retry | `start`, `dequeue`, `executeCallback`, `processCallbackResult`, `processCallbackError`, `retry`, `delayMessageRetry` | the queue, through `RabbitMQBroker` |
| `RabbitMQBroker` (`src/lib/brokers/RabbitMQ`) | none of its own | `publishToRoute`, `subscribe`, `ack`, `nack`, `createQueue` | the channel that is active at the time of the call |
| `RabbitMQConnectionManager`, `ReconnectManager` | `connection`, `channel`, `connected`, `recoveryLock`, `executionLock`, `interrupted` | `connect`, `disconnect`, `recoverActiveChannel`, `reconnect`, `interrupt` | amqplib's connections, by awaits and `'close'` events |
| `RedisRetryDelayer`, `RedisRetriesRepublishTimerTask`, `SkipTimer` | a sorted set in Redis, the timer's lock | `delayMessageRetry`, `tick`, `run`, `republishMessage` | Redis and the queue, from two processes |
| `IdentityService`, `ClientCredentials` (`src/workers/lib`) | the token, a ticker, the count of attempts | `setup`, `renewExpiredToken`, `renewToken`, `reconnect`, `getAuthHeader` | the OAuth server, by requests, timers and events |
| Relay workers (`src/workers`) | none across calls | `consume` | Gambit, Northstar, Customer.io, mail, any URL |
| Web application (`src/web`, `src/app/BlinkWebApp.js`) | none across requests | one handler per endpoint | the exchange |
| Queues (`src/queues`), `BlinkApp` | the registry of queues | `start`, `stop`, `setupQueues` | the broker |

What is hard about it, and what makes each part correct:

* **Delivery.** A worker answers a delivery on whichever channel is active by
  then, which need not be the one it came on. Connections are lost at any
  point, also between two frames; retries wait in memory; processes die.
  Correct: a message is never stored twice, never leaves the broker unless
  its own processing has ended, keeps its retry counter, and ends; the prefetch
  count bounds memory.
* **Connection management.** Three async functions interleave at their awaits,
  and closing handshakes cause the very events that start a recovery.
  Correct: one recovery at a time, no leaked connection, a lost link is
  replaced, and a stop ends and is final.
* **Redis retries.** A message moves between two stores without a transaction,
  and back again by a timer whose ticks do not wait for the removals.
  Correct: one copy while nothing fails, at least one whatever fails.
* **Token.** Renewal takes time and can fail several times in a row.
  Correct: one renewal at a time, and a token the server still accepts.
* **Web and routing.** An unconfirmed publish is answered 202; queues and
  bindings are asserted on start only, thirteen at once on one channel, which a
  single refusal kills; a stop disconnects before the server stops listening.
  Correct: what is accepted is in every queue it is meant for and in no other,
  unless a named fault took it; what is refused has left nothing behind.
* **Relay workers.** Responses are lost and repeated, a status update takes two
  requests, and a process without its channel goes on.
  Correct: what is acked has been done, what could not be done is not given up
  early, a refusal is final, and Gambit and Northstar can tell a repeat from a
  first request.

`PROJECT.json` lists each hazard at its line, with the properties that cover it.

## 2. The modules

| Module | Models |
|---|---|
| `Delivery` | several workers on one queue, with the broker's side of their channels |
| `RetryQueue` | the contract `Delivery` and `Relay` implement: queued, held, put back, settled, retried |
| `DeliveryProofs`, `ConnectionManagerProofs`, `RedisRetryProofs`, `RelayProofs`, `IntakeProofs`, `ClientCredentialsProofs` | theorems about the module each is named for |
| `DeliveryRefinement`, `RelayRefinement` | theorems that the two implement `RetryQueue` |
| `ConnectionManager` | one process's connection manager |
| `RedisRetry` | one queue, its worker, Redis and the republishing timer |
| `ClientCredentials` | the life of one OAuth token |
| `Intake` | web processes, their requests, the exchange and its bindings |
| `Relay` | every worker's `consume()`, with the service it calls |
| `MC...` | the same for TLC, with statements quoted from comments that the code does not keep |

**Delivery.** A channel has two ends: `open`; `half`, dropped by the broker and
not yet noticed, so that what the client writes vanishes; `down`, known to be
gone, so that a call throws. `unacked[w]` is the broker's list of outstanding
deliveries, `tasks[w]` the worker's memory; `gen[w]` counts replaced channels,
so that a stale delivery tag can be told from a current one. The broker's
replies are external: a lost channel requeues what is outstanding, an unknown
tag closes the channel. Each way `consume()` can end is an action: `ProcessTrue`,
`ProcessFalse`, `ProcessError`, `RetryThrows`, `RetryDenied`, `RetryScheduled`.
An answer takes one of three courses (`Settle`): it reaches its delivery, hits
an unknown tag, or is not sent. A delayed retry is `Republish`,
`RepublishCutShort` (the connection goes between nack and publish) or
`RepublishRefused`. `Forms` says what `consume()`'s errors carry on:
`dequeue()` passes amqplib's raw delivery, on which `RetryManager` fails with a
TypeError (`RetryThrows`); unit tests and the retry code pass a `Message`.
Both are checked. `left[w]` remembers which outstanding deliveries `consume()` has
ended on without an answer (`LeaveUnanswered`), after a false result or a
`RetryThrows`: nothing but the end of the channel frees their prefetch slots.

**ConnectionManager.** A call of an async function is a frame: `Main` is
`BlinkApp.start()` and later `stop()`; each recovery is one of `Recovery`. At a
place in `Running` a frame holds the event loop and nothing else may run
(`Quiet`); elsewhere it awaits. `Emit` is a `'close'` event: it calls
`recoverActiveChannel()` synchronously up to its first await. An error of
`close()`, which `disconnect()` ignores, is taken without a turn of the event loop, and
amqplib settles every `close()` once the connection is gone. Promises of
amqplib resolve in a later turn than the frame that resolved them, which is the
place `opened`: a channel that is open and has no listener.

**RedisRetry.** A slot is one of the worker's prefetched deliveries; it is `stuck`
when `consume()` has ended without an answer (a false result, a `retry()` that
throws, a failed `zadd`). `due` holds
the members whose score lies in the past, in order. `run()` publishes what it
read within one turn, so `RepublishMessages` is one action; its `zrem`s are
answered later (`removing`), while the lock is free again. The next read is
behind them on the same connection (`Answered`). The queue has `maxPriority`,
and what the timer publishes goes before what the web does (`Priority`). There
are eleven kinds of fault, each an action or a disjunct of one: a `zadd` that
fails or loses its reply, a `zrem` or a read that fails, a missing or a dead
channel, a process that dies on either side, a connection to Redis that is lost
before its replies are read, so that ioredis sends commands again that have
taken effect (`SaveResent`, `RemoveResent`), and a stop of the timer's app.
`BlinkTimerApp` does not stop its timers: between the emptied registry and the
end of the process `run()` finds no message class for what it reads, discards
it, and removes it from Redis (`TimerAppStops`). `Worker.setup()` passes no Redis
delayer at this commit, and `Message.unpackJson()` (`src/messages/Message.js:193`)
returns a string where it should parse one, so each saved retry would be
discarded by `extractOrDiscardPayload()`; that is the constant `Unusable`. The run
has one message of each kind: the hand-over of the one is checked as its callers
and tests expect it, next to the other, which must not stop it.

**ClientCredentials.** Time passes in units of `tickerInterval`. A chain is a
`renewToken()` call with the attempts and pauses it leads to. `left` is what
the client believes of its token, `valid` what the server grants: the server
starts to count up to `Latency` earlier. No unit passes over a due timer.

**Intake.** A web process asserts the exchange, then all queues at once, then
listens. amqplib sends the RPCs of a channel one at a time, so `pending[p]` is a
sequence; `createQueue()` asks for the bindings of a queue behind the assertions of
the others. A queue that exists with other settings (`Misdeclared`) has its
assertion refused and the channel closed, which `setupQueues()` ignores: the process
then listens, with not one of its queues bound by this start
(`RefusalBindsNothing`). A channel that dies is recovered, also in the middle of a
start, but the RPCs that were pending on it are not asked for again. `wire[p]` is
what was published and not yet read by the broker, in order. Routes are sequences of
words, `Matches` is RabbitMQ's topic match. Queue classes and handlers are tables
translated from `src/queues` and the controllers; `QueueClasses` are those of an
app. That each handler's route reaches just the queues it is meant for is the
assumption `RoutesReach`, which TLC evaluates for the run's classes, and
`AllRoutesReach` in `MCIntake` for all thirteen of them. Handlers have no await
between publishing and answering, so a request is one action. What goes before a
handler (`enforce-https`, basic auth, Twilio's signature, unknown paths) answers
without it: `TurnAway`.

**Relay.** There is one message, published with its queue, for `consume()` keeps
nothing across calls. A process whose channel was lost goes on with its `consume()`
(`cut`), while another one has the message; its answers have no effect, its requests
do. The service is external: it refuses a request, puts it into effect, or fails
with or without effect, and its response can be lost. `known` says whether Gambit
has stored the record a status callback is about. `RetryCount` is what the service
sees of the attempt: Gambit and Northstar are sent `x-blink-retry-count` on repeats
(`getRequestHeaders()`), Customer.io's `identify()` and `FetchWorker`'s targets are
not. `convertible` says whether an update has a user; without one
`CustomerIoUpdateCustomerWorker` ends in a TypeError and the message is rejected.
`CustomerIoEmailUnsubscribedNorthstarWorker` awaits its process's identity service
first (`token`): the first message makes it, all wait for its first request, and if
that fails `getAuthHeader()` throws until a reconnection has succeeded. `consume()`
is given a Message or a raw delivery, as in `Delivery`: the relays need the one,
`CustomerIoTrackEventWorker` needs the other, and each throws a TypeError on the
wrong form, on which the message is rejected (`ConsumeUnreadable`). At this commit
deliveries are raw, so of the two workers that `BlinkWorkerApp` enables only
`customer-io-campaign-signup` works; none of the workers throws a BlinkRetryError on
a raw delivery, so `RetryThrows` of `Delivery` awaits a worker that does.

## 3. The runs

| Run | Shows | Bounds |
|---|---|---|
| `Delivery_safety` | no second copy, no silent loss, memory bounded, stale tags harmless, attempts never reset, `RetryQueue` implemented | 2 workers, 2 messages, prefetch 2, limit 1, 1 loss, 1 crash |
| `Delivery_live` | every message is finished with, stays with a delivery that was left unanswered, is lost behind its nack, or no worker takes anything any more | as above with prefetch 1: all four results, raw deliveries and Messages |
| `ConnectionManager_recovery` | one recovery, clean stop, no orphan; a stop ends, a link is restored | 4 links, 2 recoveries, 2 losses, 1 stop |
| `RedisRetry_handover` | one copy without faults, a bounded number more after each, never none; budget kept; every message ends or waits behind a delivery that was left unanswered, every member leaves Redis | 2 messages, 1 of them unusable, 2 slots, limit 1, batches of 1, 1 fault of eleven kinds |
| `ClientCredentials_renewal` | one guardian, token valid, token renewed | 3 failures in a row, latency 2, pause 3, window 15 |
| `Intake_routing` | the right queues, accepted requests arrive, refused ones leave nothing; a start ends, transit ends | 2 processes, 1 request, 5 handlers, 5 queues, 1 misdeclared, 1 fault of any kind |
| `Relay_outcomes` | acked is done, nothing given up early, repeats to Gambit and Northstar numbered, a refusal is final, only known records updated, `RetryQueue` implemented; all ends | 2 processes, 9 workers, limit 1, 3 statuses, 1 lost channel or crash |
| `Delivery_false`, `Delivery_restart`, `ConnectionManager_reconnects`, `RedisRetry_wedged`, `ClientCredentials_ready` | what a comment promises and the code does not do | the smallest that show it |

Why the bounds are enough. Two workers and two messages are what a wrong requeue, a
wrong tag or a duplicate needs; prefetch 2 lets one delivery wait behind another on
the same channel; with one loss and one crash a message can be redelivered to
another worker while the first still holds it, which is where stale answers come
from. With prefetch 1 one delivery that is left unanswered stops a worker, and two
messages let the other one go round that. `DeliveryProofs` and `DeliveryRefinement`
do without the bounds. Two losses and a stop are enough to have a recovery
interrupted by a further loss and by a stop; the second recovery frame exists to let
`OneRecovery` fail. In `ClientCredentials` the window is the smallest that
`HeaderValid` allows: with one unit less TLC finds an expired token, so the bound
`LongestRenewal` is exact there. With the defaults (60 s, pauses of 10 s) it covers
four failures of 5 s each.

In `RedisRetry` one fault is what each kind takes to put a message between the
stores or to make a second copy. It does not show how many copies one fault can
make: with `RetryLimit = 2` (three minutes) a message is in two deliveries at once
when the worker dies, each with its retry in Redis and not acknowledged, and there
are three copies. That is why `CopiesCounted` and `RetryBudget` count by what a
process has in hand (`InHand`), and why `RedisRetryProofs` proves them without the
bounds.

In `Intake` two processes are what it takes for one to start or stop while the
other serves. Requests meet only in the order of a connection, which no
property needs, so one is enough. The five queues hold both kinds of overlap: a
route that two queues share, and a pattern that takes another queue's
messages; the rest of the table is checked by `AllRoutesReach`. `IntakeProofs` does without
the bounds. In `Relay` limit 1
gives a first and a last attempt, and one fault a second consumer of the same
delivery; of 200 and 204, which only `FetchWorker` tells apart, one is taken.

Every property of a passing run has a mutant: a definition with a plausible bug
(named `Mutant` in a comment), under which TLC finds the property violated.

### Fairness

* `Delivery`: weak fairness of every step of Node, of the broker's deliveries and of
  restarts. None of losses and crashes, of publishing, or of the choice between
  results: `consume()` ends, and may end with false each time. `RepublishCutShort`
  is excluded: no loss must happen.
* `ConnectionManager`: strong fairness per frame, since a frame that runs
  disables the others for a moment again and again. The return of the broker is
  not assumed but a premise of `LinkRestored`; `StopEnds` does without it.
* `RedisRetry`: the timer, Redis, the broker and `consume()` make progress. Of the
  queue only that it delivers something: with priorities a new message can wait
  behind retries, and that it does not do so for ever is for `RetryLimit` to see to.
* `ClientCredentials`: time passes, timers fire, requests end.
* `Intake`: the broker reads and answers, a dead connection is noticed, a start
  goes on. No request, stop, fault or recovery must happen.
* `Relay`: Node and the broker make progress, and every request ends. Node-fetch
  is called without a timeout, so that last part is an assumption about the
  network: a request that never ends holds its delivery for ever. The request
  for a token ends as well; that it ever succeeds is not assumed.

### What the code does not keep

* A false result leaves the delivery outstanding for as long as the worker lives; it
  is not "retried later" (`src/lib/Dequeuer.js:48`). It holds a prefetch slot, as
  does a retry that throws on a raw delivery (line 27). The unit test of `Dequeuer`
  and a comment in `TwilioStatusCallbackRelayBaseWorker.js:37` expect an ack.
* A recovered channel has no consumer: a worker that lived through a RabbitMQ
  restart consumes nothing (`RabbitMQConnectionManager.js:196`).
* `stop()` while a recovery awaits the close of its connection does not
  prevent the recovery from connecting again (`RabbitMQConnectionManager.js:69`).
* A `run()` that rejects leaves `SkipTimer`'s lock set (`SkipTimer.js:66`).
* `IdentityService.ready` resolves without a token when the first request
  fails (`identity-service/index.js:38`).

Some more are conditions of properties that hold: a retry whose connection goes
between nack and publish is lost (`gapLost` in `NoSilentLoss`); a channel that
closes before `enableAutoRecovery()` is not recovered (`unheard` in `LinkRestored`);
a false result, a retry that throws and a failed `zadd` leave the delivery
unanswered (`Stranded` in `Delivery`, `stuck` in `RedisRetry`), and what is
republished on a dead channel vanishes (`vanished`); these are exceptions of the two
`EventuallyDecided`. While a timer app stops it discards the retries that are due
(`discarded`). A `zadd` that is sent again after its member was republished makes a
second copy of its message (`CopiesCounted`). A mail that fails is lost, for
`CustomerIoTrackEventWorker` returns true before it is sent, although its comment
says "We will ACK only after consume succeeded!" (line 63); a missing token has the
message rejected, and so has a `FetchWorker` request that cannot be made, or an
update without a user (`AckedIsApplied`, `KeptUntilAnswered`). Customer.io cannot
tell a repeated update from a first one, for no count is sent with it, nor an old
one from a new one: `RepeatsAreNumbered` is about Gambit and Northstar only. A
refused request is final only until the connection is lost: left unacked, it is
delivered and sent again (`FinalIsLast`). What was written to a connection that is
cut is lost after its 202 (`AcceptedArrives`).

## 4. The proofs

`DeliveryProofs` proves, for any numbers of workers, messages, retries, losses
and crashes, and without assuming the sets finite:

* `TypeCorrect`: `TypeOK` is inductive by itself.
* `InductiveInvariant`: `IInv`, from which follow `OneCopyHolds`,
  `NoSilentLossHolds` and `OwnTagHolds`.
* `MemoryBoundedHolds`, with `MemoryInv` on top of it.

None of the four is inductive. That an ack removes its own message depends on the
tags: a task that outlived its channel must never find its tag in use again for
another delivery. It does not, because only `Worker.start()` subscribes
(`ConsumerIsOriginal`): a recovered channel has no deliveries at all, and on the
first channel tags are not reused (`TagsFresh`). So a task's tag names its own
delivery or none (`OwnTag`), which with `OnePlace` gives the rest. The broker counts
deliveries and never tasks; memory is bounded because each task of a subscribed
worker has an outstanding delivery of its own (`WithinPrefetch`), so there are no
more tasks than deliveries (`NoMoreThanOutstanding`), and after that channel nothing
more comes. The argument is one lemma per action. It also says what a repair has to
heed: a recovery that subscribes again makes stale tags dangerous, and
`MemoryBounded` false, as the mutant `RecoveredResubscribed` shows.

`ConnectionManagerProofs` proves of `ConnectionManager`, for any number of links,
recoveries and losses:

* `TypeCorrect`: `TypeOK` with the turns of the event loop (`Turns`): one frame runs
  at a time, and what a frame that connects waits for is a link.
* `OneRecoveryHolds`: the lock is held from the event that starts a recovery to
  the recovery's end, and while the application starts nothing is listened to
  that could start one (`Locks`).
* `CleanStopHolds` and `NoOrphanHolds`: as long as no stop has met a recovery, one
  frame is at work (`Alone`), so `disconnect()` finds nothing to interrupt and the
  locks are as it left them; and the one connection that lives is the one the manager
  holds, with what each place of the frame has done to it so far (`Links`). A stop
  that does meet a recovery may end connected, which `ConnectionManager_reconnects`
  shows: `CleanStop` is a theorem just for the others.

`RedisRetryProofs` proves of `RedisRetry`, for any number of messages, slots, retries,
members read at once and faults of all eleven kinds:

* `TypeCorrect`, with the shapes `TypeOK` leaves out (`Shapes`): finite stores, a
  message on its way to Redis that may still be retried.
* `AlwaysSomewhereHolds`. A zadd may hit a member whose zrem is on its way, which
  takes the new one along, so "some place is left" is not inductive. It is with
  attempts (`Alive`): for a delivery whose zadd succeeded, and for a member that is being
  removed, the message is alive elsewhere at the attempt these have passed on.
* `CopiesCountedHolds` and `RetryBudgetHolds` are one argument, with weights (`Mode`): a
  place a message is worked on from weighs one, or as many calls of `consume()` as can
  come from it. The weight of all places and what is spent is within a full weight for the
  copy published and a `Share` for each fault. The one fault that costs later than
  it happens is a stop of the timer's app, after which it will restart: `Reserve`
  sets its share aside. That there is exactly one copy without faults is that
  bound and `AlwaysSomewhere` together.

`RelayProofs` proves of `Relay`, for any number of processes, attempts and
faults and any set of statuses:

* `TypeCorrect`: `TypeInv`, which is `TypeOK` with `requests` a sequence, is
  inductive.
* `AckedIsAppliedHolds`: an acknowledged message was put into effect.
* `KeptUntilAnsweredHolds`: no message is given up early.
* `UpdatesOnlyKnownHolds`: no status update without its record.
* `FinalIsLastHolds`: after a final response nothing is asked, without faults.
* `RepeatsAreNumberedHolds`: requests to Gambit or Northstar with one
  `x-blink-retry-count` are bounded by the faults. It is stated of the header
  (`RetryCount`), under `SendsRetryCount`; there the header is the attempt, which is
  what the argument counts.

The invariant `Inv` ties each process to the service: a success it has read was
put into effect (`SuccessIsApplied`), an answer it has read was given
(`AnswersAreGiven`), the attempts it counts are the stored message's while it
holds the delivery (`AttemptIsStored`), and neither it nor a request of a dead
process writes to an unknown record (`OnlyGetsUnknown`). `ConsumeEffect` says
once, for all nine workers, what a step of `consume()` may do: call, return with
a reason, or put the message back. Without faults only the holder works, and after a
final response it holds nothing but that response (`FinalInv`). Repeats
are counted before they happen (`UsesBounded`): the requests of one kind and count that were
sent, those of dead processes, the tasks that will still ask, and the stored message that
will be delivered again make one, and a fault raises the sum by one.

`IntakeProofs` proves of `Intake`, for any processes, requests, faults and queues:

* `TypeCorrect`, with the RPCs of a start being its own queues'.
* `RefusalBindsNothingHolds`: on a start's channel the bindings stand behind all
  assertions (`BindsLast`), and nothing is bound while there is one left
  (`AssertsFirst`), so the assertion that kills the channel finds nothing bound.
* `RightQueuesHolds` and `RefusedLeavesNothingHolds`: whatever is on a connection, in a
  queue or lost was accepted, by the handler that published it (`OnlyAccepted`).
* `AcceptedArrivesHolds`: as long as nothing has failed, a process that serves has
  its channel (`Linked`) and all bindings there are or, while it starts, asks for
  those that are missing (`Bound`), so what it takes off the connection gets to all
  queues (`Arrived`), and a stop ends only with an empty connection.

`RightQueuesHolds` and `AcceptedArrivesHolds` rest on `RoutesReach`, that routes and
handlers fit together. It is a fact about constants, true of the classes in
`src/queues` by evaluation (`AllRoutesReach`) and false of an app that adds an
overlapping route: what the proof adds is that nothing else can go wrong.

`DeliveryRefinement` and `RelayRefinement` prove that `Delivery` and `Relay` implement
`RetryQueue`; the first also that `AttemptsNeverReset`. Each step is matched with a
step of the contract or shown to be invisible to it. In `Delivery` that takes
`IInv`: an answer that hits settles the task's own delivery (`OwnDelivery`), whose
message has no other copy, so the counter of the contract is that one copy's
(`AttemptOfCopy`). In `Relay` it takes `Inv` and that a delayed message is one attempt
ahead of the stored one (`DelayedIsAhead`).

`ClientCredentialsProofs` proves of `ClientCredentials`, for any set of chains, times and
limits:

* `TypeCorrect`: `TypeOK` is inductive by itself.
* `OneGuardianHolds`: inductive once a tick is due only while the ticker is set
  (`GuardInv`).
* `HeaderValidHolds`, by a budget (`BudgetInv`). Of the time since the token came
  into its window, each failure takes at most one latency and each full round of
  attempts one pause; the failures give the number of rounds (`Budget`, `Pauses`).
  `NearlyAgreed` turns what is left by the client's clock into what is left by
  the server's. The run shows that the window it takes is the smallest that does.

The assumptions are the named ASSUMEs of the modules: that parameters are
naturals, that results, statuses and workers are of the known ones, that queues
have names of their own; and `RoutesReach`.

Every invariant and every action property that a run checks is a theorem. Only
model-checked is liveness, which is outside the prover's reach: `EventuallyDecided`,
`StopEnds`, `LinkRestored`, `LeavesRedis`, `Renewed`, `StartEnds`, `TransitEnds` and
`EventuallySettled`; and, since each is refuted by a run, the statements of the `MC`
modules. `RoutesReach` and `AllRoutesReach` are evaluated, not proved.

## 5. Plan

All modules and all safety properties that were planned are there. Left are
contracts: what the Redis hand-over promises the worker (a retry comes back, once
without faults) as an abstract specification that `RedisRetry` implements, and one of
the connection manager's single link, each with its refinement proved from the
invariants above.

## 6. Not modelled

Joi schemas, the conversion of messages to Customer.io events, logging, errors
and configuration have no state. `RedisConnectionManager.connect()` returns
before it connects, and no app calls it: what its client would do, connect again
and send again, is in `RedisRetry`, its PING is not. `start.js` and throng start
processes, and appear as `StartApp`. `extractOrDiscard()`, `unpack()` and
`validate()` of `Dequeuer` have no caller. `purgeQueue()`, `deleteQueue()` and the
management API serve tests. `consumerName` never reaches the broker
(`Queue.subscribe()` reads `consumerTag`), so tags of consumers are generated and
play no part.
