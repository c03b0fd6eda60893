------------------------------ MODULE Delivery ------------------------------
(***************************************************************************)
(* The life of a message from the broker's queue to the end of a worker's  *)
(* consume(): Worker.start(), Dequeuer, RetryManager, InMemoryRetryDelayer *)
(* and the ack / nack / publish calls of RabbitMQBroker, run by several    *)
(* worker processes over channels that can be lost and recovered.          *)
(*                                                                         *)
(* A channel is seen from both ends.  "open": both ends agree.  "half":    *)
(* the broker has dropped it and the client does not know yet, so what the *)
(* client writes vanishes.  "down": the client knows (a closed channel, or *)
(* the `false` that disconnect() leaves), so a call on it throws.  "off":  *)
(* the process is not running.                                             *)
(***************************************************************************)
EXTENDS Integers, FiniteSets

CONSTANTS
  Msg,          \* the messages published to the queue
  Worker,       \* the worker processes that consume it
  CopyId,       \* identities for the copies the broker stores
  Prefetch,     \* config.app.prefetchCount
  RetryLimit,   \* RetryManager.retryLimit
  Results,      \* how consume() can end: a subset of ResultKind
  Forms,        \* what executeCallback() is given: a subset of FormKind
  MaxLoss,      \* bound: connections lost, over all workers
  MaxCrash      \* bound: worker processes that die, over all workers

ResultKind == {"true", "false", "error", "retry"}

\* "raw" is amqplib's delivery, which dequeue() hands on as it came;
\* "Message" is the unpacked Message that RetryManager's methods expect.
FormKind == {"raw", "Message"}

ASSUME PrefetchAssumption == Prefetch \in Nat \ {0}
ASSUME RetryLimitAssumption == RetryLimit \in Nat
ASSUME ResultsAssumption == Results \subseteq ResultKind
ASSUME FormAssumption == Forms \subseteq FormKind
ASSUME BoundsAssumption == MaxLoss \in Nat /\ MaxCrash \in Nat

VARIABLES
  published,    \* messages that have been published
  ready,        \* copies waiting in the queue
  unacked,      \* per worker: deliveries outstanding on its channel
  left,         \* per worker: of those, the ones consume() ended on unanswered
  consuming,    \* per worker: is a consumer registered on its channel?
  nextTag,      \* per worker: the next delivery tag of its channel
  chan,         \* per worker: its channel, from both ends
  gen,          \* per worker: how many channels it has replaced
  boot,         \* per worker: progress of BlinkWorkerApp.start()
  tasks,        \* per worker: the deliveries it holds in memory
  decided,      \* per message: the final results reached for it
  gapLost,      \* messages whose republish never reached the broker
  losses, crashes

broker  == <<ready, unacked, left, consuming>>
link    == <<nextTag, chan, gen, boot>>
history == <<decided, gapLost>>
bounds  == <<losses, crashes>>
vars == <<published, broker, link, tasks, history, bounds>>

Copy     == [id : CopyId, msg : Msg, attempt : 0..RetryLimit]
Delivered == [tag : Nat \ {0}, copy : Copy]
Stage    == {"throttled", "running", "delayed"}
Task     == [tag : Nat \ {0}, gen : Nat, msg : Msg,
             attempt : 0..RetryLimit, stage : Stage]
Decision == {"acked", "rejected", "exhausted"}

Held(w) == {d.copy : d \in unacked[w]}
Live    == ready \cup UNION {Held(w) : w \in Worker}
UsedIds == {c.id : c \in Live}
HasRoom == CopyId \ UsedIds # {}
NewCopy(m, a) == [id |-> CHOOSE i \in CopyId : i \notin UsedIds,
                  msg |-> m, attempt |-> a]

Init ==
  /\ published = {}
  /\ ready = {}
  /\ unacked = [w \in Worker |-> {}]
  /\ left = [w \in Worker |-> {}]
  /\ consuming = [w \in Worker |-> FALSE]
  /\ nextTag = [w \in Worker |-> 1]
  /\ chan = [w \in Worker |-> "off"]
  /\ gen = [w \in Worker |-> 0]
  /\ boot = [w \in Worker |-> "off"]
  /\ tasks = [w \in Worker |-> {}]
  /\ decided = [m \in Msg |-> {}]
  /\ gapLost = {}
  /\ losses = 0
  /\ crashes = 0

-----------------------------------------------------------------------------
(* The broker and the channel *)

\* The web app publishes a fresh message: its retryAttempt is 0.
Publish(m) ==
  /\ m \notin published
  /\ HasRoom
  /\ published' = published \cup {m}
  /\ ready' = ready \cup {NewCopy(m, 0)}
  /\ UNCHANGED <<unacked, left, consuming, link, tasks, history, bounds>>

\* The broker gives up w's channel and puts what is outstanding back.
BrokerDrops(w) ==
  /\ ready' = ready \cup Held(w)
  /\ unacked' = [unacked EXCEPT ![w] = {}]
  /\ left' = [left EXCEPT ![w] = {}]
  /\ consuming' = [consuming EXCEPT ![w] = FALSE]

ConnectionLost(w) ==
  /\ chan[w] = "open"
  /\ losses < MaxLoss
  /\ losses' = losses + 1
  /\ BrokerDrops(w)
  /\ chan' = [chan EXCEPT ![w] = "half"]
  /\ UNCHANGED <<published, nextTag, gen, boot, tasks, history, crashes>>

\* The 'close' event reaches the client: recoverActiveChannel() starts, the
\* channel becomes false, and a start() awaiting the broker's reply rejects.
NoticeClose(w) ==
  /\ chan[w] = "half"
  /\ chan' = [chan EXCEPT ![w] = "down"]
  /\ boot' = [boot EXCEPT ![w] = IF @ = "starting" THEN "failed" ELSE @]
  /\ UNCHANGED <<published, broker, nextTag, gen, tasks, history, bounds>>
\* Mutant: the recovered channel subscribes again, on top of old tasks.
RecoveredResubscribed(w) ==
  /\ chan[w] = "down"
  /\ chan' = [chan EXCEPT ![w] = "open"]
  /\ consuming' = [consuming EXCEPT ![w] = boot[w] = "subscribed"]
  /\ gen' = [gen EXCEPT ![w] = @ + 1]
  /\ nextTag' = [nextTag EXCEPT ![w] = 1]
  /\ UNCHANGED <<published, ready, unacked, left, boot, tasks, history, bounds>>

\* recoverActiveChannel() ends in a new connection and a new channel.
Recovered(w) ==
  /\ chan[w] = "down"
  /\ chan' = [chan EXCEPT ![w] = "open"]
  /\ gen' = [gen EXCEPT ![w] = @ + 1]
  /\ nextTag' = [nextTag EXCEPT ![w] = 1]
  /\ UNCHANGED <<published, broker, boot, tasks, history, bounds>>

-----------------------------------------------------------------------------
(* The worker process *)

\* BlinkWorkerApp.start(): the broker is connected, the queues asserted.
StartApp(w) ==
  /\ chan[w] = "off"
  /\ chan' = [chan EXCEPT ![w] = "open"]
  /\ gen' = [gen EXCEPT ![w] = 0]
  /\ nextTag' = [nextTag EXCEPT ![w] = 1]
  /\ boot' = [boot EXCEPT ![w] = "setup"]
  /\ UNCHANGED <<published, broker, tasks, history, bounds>>

\* Worker.start(), first await: prefetch() on whatever getChannel() returns.
LimitMessagesInMemory(w) ==
  /\ boot[w] = "setup"
  /\ boot' = [boot EXCEPT ![w] = IF chan[w] = "down" THEN "failed" ELSE "starting"]
  /\ UNCHANGED <<published, broker, nextTag, chan, gen, tasks, history, bounds>>

\* Worker.start(), second await: consume() registers Dequeuer.dequeue().
Subscribe(w) ==
  /\ boot[w] = "starting"
  /\ chan[w] = "open"
  /\ boot' = [boot EXCEPT ![w] = "subscribed"]
  /\ consuming' = [consuming EXCEPT ![w] = TRUE]
  /\ UNCHANGED <<published, ready, unacked, left, nextTag, chan, gen, tasks, history, bounds>>

\* The process dies: its memory is gone and the broker drops its channel.
Crash(w) ==
  /\ chan[w] # "off"
  /\ crashes < MaxCrash
  /\ crashes' = crashes + 1
  /\ BrokerDrops(w)
  /\ chan' = [chan EXCEPT ![w] = "off"]
  /\ boot' = [boot EXCEPT ![w] = "off"]
  /\ tasks' = [tasks EXCEPT ![w] = {}]
  /\ UNCHANGED <<published, nextTag, gen, history, losses>>

\* The broker pushes a copy to a consumer that has fewer than Prefetch
\* deliveries outstanding; dequeue() hands it to the throttle.
Deliver(w, c) ==
  /\ consuming[w]
  /\ chan[w] = "open"
  /\ c \in ready
  /\ Cardinality(unacked[w]) < Prefetch
  /\ ready' = ready \ {c}
  /\ unacked' = [unacked EXCEPT ![w] = @ \cup {[tag |-> nextTag[w], copy |-> c]}]
  /\ nextTag' = [nextTag EXCEPT ![w] = @ + 1]
  /\ tasks' = [tasks EXCEPT ![w] = @ \cup
                 {[tag |-> nextTag[w], gen |-> gen[w], msg |-> c.msg,
                   attempt |-> c.attempt, stage |-> "throttled"]}]
  /\ UNCHANGED <<published, left, consuming, chan, gen, boot, history, bounds>>

\* The throttle releases the delivery: executeCallback() calls consume().
ExecuteCallback(w, t) ==
  /\ t \in tasks[w]
  /\ t.stage = "throttled"
  /\ tasks' = [tasks EXCEPT ![w] = (@ \ {t}) \cup {[t EXCEPT !.stage = "running"]}]
  /\ UNCHANGED <<published, broker, link, history, bounds>>

-----------------------------------------------------------------------------
(* ack(message) and nack(message): the delivery's tag on the channel that  *)
(* is active now, which need not be the one the delivery came on.          *)

Outstanding(w, t) == \E d \in unacked[w] : d.tag = t.tag
\* Mutant: ack(message, allUpTo) settles every delivery up to this one.
SettleAllUpTo(w, t) ==
  /\ chan[w] = "open"
  /\ Outstanding(w, t)
  /\ unacked' = [unacked EXCEPT ![w] = {d \in @ : d.tag > t.tag}]
  /\ UNCHANGED <<ready, left, consuming, chan>>

SettleHits(w, t) ==
  /\ chan[w] = "open"
  /\ Outstanding(w, t)
  /\ unacked' = [unacked EXCEPT ![w] = {d \in @ : d.tag # t.tag}]
  /\ UNCHANGED <<ready, left, consuming, chan>>

\* An unknown delivery tag: the broker closes the channel.
SettleUnknownTag(w, t) ==
  /\ chan[w] = "open"
  /\ ~Outstanding(w, t)
  /\ BrokerDrops(w)
  /\ chan' = [chan EXCEPT ![w] = "half"]

\* Written to a dead socket, or thrown by a closed or missing channel.
SettleUnsent(w, t) ==
  /\ chan[w] \in {"half", "down"}
  /\ UNCHANGED <<ready, unacked, left, consuming, chan>>

Settle(w, t) ==
  SettleHits(w, t) \/ SettleUnknownTag(w, t) \/ SettleUnsent(w, t)

Forget(w, t) == tasks' = [tasks EXCEPT ![w] = @ \ {t}]

Decide(t, decision) ==
  /\ decided' = [decided EXCEPT ![t.msg] = @ \cup {decision}]
  /\ UNCHANGED gapLost

\* Neither ack nor nack: the delivery stays outstanding on its channel.
LeaveUnanswered(w, t) ==
  /\ left' = [left EXCEPT ![w] = @ \cup {d \in unacked[w] : d.tag = t.tag}]
  /\ UNCHANGED <<published, ready, unacked, consuming, link, history, bounds>>

Ended(w, t, result) ==
  /\ result \in Results
  /\ t \in tasks[w]
  /\ t.stage = "running"

-----------------------------------------------------------------------------
(* The end of consume() *)

\* processCallbackResult(true): acknowledge.
ProcessTrue(w, t) ==
  /\ Ended(w, t, "true")
  /\ Forget(w, t)
  /\ Settle(w, t)
  /\ Decide(t, "acked")
  /\ UNCHANGED <<published, nextTag, gen, boot, bounds>>

\* processCallbackResult(false): log, and leave the delivery as it is.
ProcessFalse(w, t) ==
  /\ Ended(w, t, "false")
  /\ Forget(w, t)
  /\ LeaveUnanswered(w, t)

\* processCallbackError() of anything but a BlinkRetryError: reject.
ProcessError(w, t) ==
  /\ Ended(w, t, "error")
  /\ Forget(w, t)
  /\ Settle(w, t)
  /\ Decide(t, "rejected")
  /\ UNCHANGED <<published, nextTag, gen, boot, bounds>>

\* RetryManager.retry() calls methods a raw delivery does not have: the
\* TypeError rejects executeCallback()'s promise, which nobody awaits.
RetryThrows(w, t) ==
  /\ Ended(w, t, "retry")
  /\ "raw" \in Forms
  /\ Forget(w, t)
  /\ LeaveUnanswered(w, t)
\* Mutant: one retry too many.
RetryAllowedAtLimit(t) == t.attempt <= RetryLimit

RetryAllowed(t) == t.attempt < RetryLimit
\* Mutant: a denied retry leaves the delivery unanswered.
RetryDeniedUnanswered(w, t) ==
  /\ Ended(w, t, "retry")
  /\ "Message" \in Forms
  /\ ~RetryAllowed(t)
  /\ Forget(w, t)
  /\ UNCHANGED <<published, broker, link, history, bounds>>

RetryDenied(w, t) ==
  /\ Ended(w, t, "retry")
  /\ "Message" \in Forms
  /\ ~RetryAllowed(t)
  /\ Forget(w, t)
  /\ Settle(w, t)
  /\ Decide(t, "exhausted")
  /\ UNCHANGED <<published, nextTag, gen, boot, bounds>>
\* Mutant: incrementRetryAttempt() is forgotten.
NotIncremented(t) == [t EXCEPT !.stage = "delayed"]

Incremented(t) == [[t EXCEPT !.attempt = @ + 1] EXCEPT !.stage = "delayed"]

RetryScheduled(w, t) ==
  /\ Ended(w, t, "retry")
  /\ "Message" \in Forms
  /\ RetryAllowed(t)
  /\ tasks' = [tasks EXCEPT ![w] = (@ \ {t}) \cup {Incremented(t)}]
  /\ UNCHANGED <<published, broker, link, history, bounds>>

-----------------------------------------------------------------------------
(* delayMessageRetry(), after its timeout: nack, then publish, on the same *)
(* channel.                                                                *)

DelayOver(w, t) ==
  /\ t \in tasks[w]
  /\ t.stage = "delayed"
\* Both frames arrive, and the nack removes a delivery of this channel.
Republish(w, t) ==
  /\ DelayOver(w, t)
  /\ chan[w] = "open"
  /\ Outstanding(w, t)
  /\ HasRoom
  /\ unacked' = [unacked EXCEPT ![w] = {d \in @ : d.tag # t.tag}]
  /\ ready' = ready \cup {NewCopy(t.msg, t.attempt)}
  /\ Forget(w, t)
  /\ UNCHANGED <<published, left, consuming, link, history, bounds>>

\* The connection goes between the two frames.
RepublishCutShort(w, t) ==
  /\ DelayOver(w, t)
  /\ chan[w] = "open"
  /\ Outstanding(w, t)
  /\ losses < MaxLoss
  /\ losses' = losses + 1
  /\ ready' = ready \cup {d.copy : d \in {e \in unacked[w] : e.tag # t.tag}}
  /\ unacked' = [unacked EXCEPT ![w] = {}]
  /\ left' = [left EXCEPT ![w] = {}]
  /\ consuming' = [consuming EXCEPT ![w] = FALSE]
  /\ chan' = [chan EXCEPT ![w] = "half"]
  /\ gapLost' = gapLost \cup {t.msg}
  /\ Forget(w, t)
  /\ UNCHANGED <<published, nextTag, gen, boot, decided, crashes>>
\* Mutant: publish, the payload as it came, and only then nack.
PublishedBeforeNack(w, t) ==
  /\ DelayOver(w, t)
  /\ \/ /\ chan[w] = "open" /\ ~Outstanding(w, t) /\ HasRoom
        /\ ready' = ready \cup Held(w) \cup {NewCopy(t.msg, t.attempt - 1)}
        /\ unacked' = [unacked EXCEPT ![w] = {}]
        /\ left' = [left EXCEPT ![w] = {}]
        /\ consuming' = [consuming EXCEPT ![w] = FALSE]
        /\ chan' = [chan EXCEPT ![w] = "half"]
     \/ SettleUnsent(w, t)
  /\ Forget(w, t)
  /\ UNCHANGED <<published, nextTag, gen, boot, history, bounds>>

\* The nack fails (unknown tag: the broker closes the channel and ignores
\* what follows) or is not sent (a throw skips the publish as well).
RepublishRefused(w, t) ==
  /\ DelayOver(w, t)
  /\ SettleUnknownTag(w, t) \/ SettleUnsent(w, t)
  /\ Forget(w, t)
  /\ UNCHANGED <<published, nextTag, gen, boot, history, bounds>>

-----------------------------------------------------------------------------

Retry(w, t) == RetryThrows(w, t) \/ RetryDenied(w, t) \/ RetryScheduled(w, t)

Return(w, t) ==
  ProcessTrue(w, t) \/ ProcessFalse(w, t) \/ ProcessError(w, t) \/ Retry(w, t)

RetryDue(w, t) ==
  Republish(w, t) \/ RepublishCutShort(w, t) \/ RepublishRefused(w, t)

LinkStep(w) ==
  \/ ConnectionLost(w)
  \/ NoticeClose(w)
  \/ Recovered(w)

ProcessStep(w) ==
  \/ StartApp(w)
  \/ LimitMessagesInMemory(w)
  \/ Subscribe(w)
  \/ Crash(w)

TaskStep(w, t) ==
  \/ ExecuteCallback(w, t)
  \/ Return(w, t)
  \/ RetryDue(w, t)

Next ==
  \/ \E m \in Msg : Publish(m)
  \/ \E w \in Worker :
       \/ LinkStep(w)
       \/ ProcessStep(w)
       \/ \E c \in ready : Deliver(w, c)
       \/ \E t \in tasks[w] : TaskStep(w, t)

Spec == Init /\ [][Next]_vars

\* Nothing forces a message to be published, a connection to be lost or a
\* process to die.  Node runs every ready callback and timer, consume()'s
\* promise settles, the process manager restarts a dead process and the
\* reconnect loop tries for ever.
Fairness ==
  \A w \in Worker :
    /\ WF_vars(NoticeClose(w))
    /\ WF_vars(Recovered(w))
    /\ WF_vars(StartApp(w))
    /\ WF_vars(LimitMessagesInMemory(w))
    /\ WF_vars(Subscribe(w))
    /\ WF_vars(\E c \in ready : Deliver(w, c))
    /\ WF_vars(\E t \in tasks[w] : ExecuteCallback(w, t))
    /\ WF_vars(\E t \in tasks[w] : Return(w, t))
    /\ WF_vars(\E t \in tasks[w] : Republish(w, t) \/ RepublishRefused(w, t))

FairSpec == Spec /\ Fairness

-----------------------------------------------------------------------------
(* Properties *)

\* Every variable keeps its type; in particular no retry carries an attempt
\* number above the limit that RetryManager.retryAllowed() enforces.
TypeOK ==
  /\ published \subseteq Msg
  /\ ready \subseteq Copy
  /\ unacked \in [Worker -> SUBSET Delivered]
  /\ left \in [Worker -> SUBSET Delivered]
  /\ consuming \in [Worker -> BOOLEAN]
  /\ nextTag \in [Worker -> Nat \ {0}]
  /\ chan \in [Worker -> {"off", "open", "half", "down"}]
  /\ gen \in [Worker -> Nat]
  /\ boot \in [Worker -> {"off", "setup", "starting", "subscribed", "failed"}]
  /\ tasks \in [Worker -> SUBSET Task]
  /\ decided \in [Msg -> SUBSET Decision]
  /\ gapLost \subseteq Msg
  /\ losses \in 0..MaxLoss
  /\ crashes \in 0..MaxCrash

\* The broker never stores two copies of one message, whatever is retried,
\* requeued or acknowledged late: delayMessageRetry() publishes the new copy
\* only where its nack has just removed the old one.
OneCopy == \A c1, c2 \in Live : c1.msg = c2.msg => c1 = c2

\* A published message leaves the broker only after consume() has finished
\* with that very message (an ack, a reject, a spent retry budget) or in the
\* window between delayMessageRetry()'s nack and its publish.  A late ack,
\* sent with an old channel's tag, never removes somebody else's delivery.
NoSilentLoss ==
  \A m \in published :
    \/ \E c \in Live : c.msg = m
    \/ decided[m] # {}
    \/ m \in gapLost

\* The prefetch count bounds what a worker holds in memory (throttled,
\* running or waiting to be retried), even across lost connections, as
\* Worker.start() means it to.
MemoryBounded == \A w \in Worker : Cardinality(tasks[w]) <= Prefetch

\* While a message stays in the broker its attempt number never goes back:
\* no requeue, retry or restart hands out a fresh retry budget.
AttemptsNeverReset ==
  [][\A c \in Live, d \in Live' : c.msg = d.msg => c.attempt <= d.attempt]_vars

\* The messages nothing in the program answers any more: a false result or a
\* thrown retry() has left them with the broker, outstanding.
Stranded == {d.copy.msg : d \in UNION {left[w] : w \in Worker}}

\* No delivery reaches w: its prefetch count is used up by deliveries that
\* are never answered, its start() has failed, or the channel it subscribed
\* on is gone.
TakesNothing(w) ==
  \/ Cardinality(left[w]) = Prefetch
  \/ boot[w] = "failed"
  \/ boot[w] = "subscribed" /\ ~consuming[w]

\* Every published message is eventually finished with, whatever consume()
\* returns or throws and whether a delivery is handed on raw or unpacked:
\* the throttle, the retry limit and the process manager leave no message
\* going round for ever.  The exceptions: the message is stranded after a
\* false result or a retry on a raw delivery (Dequeuer.js:58-66, 27-30), its
\* republish was lost behind its nack, or every worker takes nothing.
EventuallyDecided ==
  \A m \in Msg :
    m \in published ~>
      \/ decided[m] # {}
      \/ m \in Stranded
      \/ m \in gapLost
      \/ \A w \in Worker : TakesNothing(w)

-----------------------------------------------------------------------------
(* What the broker and the workers together implement *)

QueuedMsgs == {c.msg : c \in ready}
HeldMsgs   == [w \in Worker |-> {c.msg : c \in Held(w)}]
AttemptIn(live) ==
  [m \in Msg |-> LET copies == {c \in live : c.msg = m}
                 IN  IF copies = {} THEN 0 ELSE (CHOOSE c \in copies : TRUE).attempt]
Finished   == {m \in Msg : decided[m] # {}}

Contract == INSTANCE RetryQueue WITH
  queued   <- QueuedMsgs,
  holds    <- HeldMsgs,
  attempt  <- AttemptIn(Live),
  finished <- Finished,
  lost     <- gapLost

\* Every step is a step of the contract or changes nothing it can see: a
\* message is in one place, moves as the contract lets it, and is removed
\* or re-queued with a higher attempt only by the worker that holds it.
ImplementsRetryQueue == Contract!Spec

-----------------------------------------------------------------------------
(* The inductive invariant behind OneCopy, NoSilentLoss, AttemptsNeverReset *)
(* and ImplementsRetryQueue.                                               *)

\* A message is in the queue or outstanding on one channel, once.
OnePlace ==
  /\ \A c1, c2 \in ready : c1.msg = c2.msg => c1 = c2
  /\ \A w \in Worker : \A d \in unacked[w], c \in ready : d.copy.msg # c.msg
  /\ \A w1, w2 \in Worker : \A d1 \in unacked[w1], d2 \in unacked[w2] :
       d1.copy.msg = d2.copy.msg => w1 = w2 /\ d1 = d2

\* Only published messages are stored or worked on.
OnlyPublished ==
  /\ \A c \in ready : c.msg \in published
  /\ \A w \in Worker : \A d \in unacked[w] : d.copy.msg \in published
  /\ \A w \in Worker : \A t \in tasks[w] : t.msg \in published

\* Only the channel worker.start() subscribed on has deliveries, and a
\* worker starts with an empty memory.
ConsumerIsOriginal ==
  \A w \in Worker :
    /\ consuming[w] => chan[w] = "open" /\ boot[w] = "subscribed"
    /\ unacked[w] # {} => consuming[w]
    /\ chan[w] = "off" \/ boot[w] \in {"setup", "starting"} => tasks[w] = {}

\* Tags of a channel with a consumer are used once.
TagsFresh ==
  \A w \in Worker :
    /\ \A d \in unacked[w] : d.tag < nextTag[w]
    /\ \A d1, d2 \in unacked[w] : d1.tag = d2.tag => d1 = d2
    /\ consuming[w] => \A t \in tasks[w] : t.tag < nextTag[w]

\* The tag a task will answer with is that of its own delivery, whichever
\* channel is active by then, and a delayed task is one attempt ahead.
OwnTag ==
  \A w \in Worker : \A t \in tasks[w], d \in unacked[w] :
    t.tag = d.tag =>
      /\ t.msg = d.copy.msg
      /\ t.attempt = d.copy.attempt + (IF t.stage = "delayed" THEN 1 ELSE 0)

IInv ==
  /\ TypeOK
  /\ OnePlace
  /\ OnlyPublished
  /\ ConsumerIsOriginal
  /\ TagsFresh
  /\ OwnTag
  /\ NoSilentLoss

=============================================================================
