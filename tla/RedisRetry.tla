----------------------------- MODULE RedisRetry -----------------------------
(***************************************************************************)
(* Retries that wait in Redis: RedisRetryDelayer moves a message from its  *)
(* queue to a sorted set, ordered by the time it is due, and               *)
(* RedisRetriesRepublishTimerTask, a SkipTimer, moves it back.             *)
(*                                                                         *)
(* The worker's broker link is kept up here (Delivery is about its loss);  *)
(* a slot is one of the Prefetch deliveries the worker holds.              *)
(*                                                                         *)
(* Message.unpackJson() returns the packed string instead of parsing it,   *)
(* so in the code as it stands every message is Unusable.  The set is a    *)
(* constant, so that the hand-over can be checked for an unpackJson() that *)
(* does what its callers and their tests expect, next to messages that     *)
(* cannot be rebuilt.                                                      *)
(*                                                                         *)
(* The connections to Redis are RedisConnectionManager's: ioredis connects *)
(* again for ever, and sends again whatever it has no reply for.           *)
(***************************************************************************)
EXTENDS Naturals, Bags, SequencesExt

CONSTANTS
  Msg,
  Slot,           \* as many as the prefetch count
  RetryLimit,     \* RetryManager.retryLimit
  ProcessLimit,   \* config.redis.settings.retrySetProcessLimit
  Unusable,       \* messages the republisher cannot turn back into messages
  Faults,         \* the kinds of fault that may happen
  MaxFault        \* bound: faults that happen

FaultKind == {"zadd", "zaddReply", "zrem", "read", "channel", "link", "worker", "timer",
              "resentZadd", "resentZrem", "stop"}

ASSUME LimitAssumption == RetryLimit \in Nat /\ ProcessLimit \in Nat \ {0}
ASSUME UnusableAssumption == Unusable \subseteq Msg
ASSUME SlotAssumption == IsFiniteSet(Slot)
ASSUME FaultAssumption == Faults \subseteq FaultKind /\ MaxFault \in Nat

VARIABLES
  published,   \* messages given to the broker
  queue,       \* the bag of items waiting in the queue
  slot,        \* the worker's slots
  saved,       \* members of the sorted set
  due,         \* those whose time has come, in score order
  timer,       \* the timer's lock, and what it is doing
  removing,    \* members whose zrem is on its way
  registry,    \* has the timer's app its queues?
  decided,     \* messages whose processing has ended
  vanished,    \* messages republished over a dead channel
  discarded,   \* messages the republisher could not turn back into messages
  runs,        \* per message: how often consume() was called with it
  faults

redis == <<saved, due>>
app == <<timer, removing, registry>>
history == <<decided, vanished, discarded, runs>>
vars == <<published, queue, slot, redis, app, history, faults>>

\* What is packed for Redis and what the broker stores: a message with its
\* retry counter.
Item == [msg : Msg, attempt : 0..RetryLimit]
Member == {i \in Item : i.attempt > 0}
NoItem == [stage |-> "free"]
Slots == {NoItem} \cup
         [stage : {"running", "saving", "saved", "stuck"}, item : Item]
\* Mutant: the counter is not incremented.
NextSame(i) == i

Next1(i) == [i EXCEPT !.attempt = @ + 1]
Put(items) == queue' = queue (+) SetToBag(items)

\* STANDARD for what the web publishes, HIGH for what the timer does.
Priority(i) == IF i.attempt = 0 THEN 1 ELSE 2

Busy    == {s \in Slot : slot[s] # NoItem}
HeldBag == [i \in {slot[s].item : s \in Busy} |->
              Cardinality({s \in Busy : slot[s].item = i})]

Fault(kind) ==
  /\ kind \in Faults
  /\ faults < MaxFault
  /\ faults' = faults + 1

Init ==
  /\ published = {}
  /\ queue = EmptyBag
  /\ slot = [s \in Slot |-> NoItem]
  /\ saved = {}
  /\ due = <<>>
  /\ timer = "idle"
  /\ removing = {}
  /\ registry = TRUE
  /\ decided = {}
  /\ vanished = {}
  /\ discarded = {}
  /\ runs = [m \in Msg |-> 0]
  /\ faults = 0

-----------------------------------------------------------------------------
(* The queue and the worker *)

Publish(m) ==
  /\ m \notin published
  /\ published' = published \cup {m}
  /\ Put({[msg |-> m, attempt |-> 0]})
  /\ UNCHANGED <<slot, redis, app, history, faults>>

\* A queue with maxPriority delivers nothing while something goes before it.
Deliver(s, i) ==
  /\ slot[s] = NoItem
  /\ BagIn(i, queue)
  /\ \A j \in BagToSet(queue) : Priority(j) <= Priority(i)
  /\ queue' = queue (-) SetToBag({i})
  /\ slot' = [slot EXCEPT ![s] = [stage |-> "running", item |-> i]]
  /\ runs' = [runs EXCEPT ![i.msg] = @ + 1]
  /\ UNCHANGED <<published, redis, app, decided, vanished, discarded, faults>>

\* consume() returns true, throws anything but a BlinkRetryError, or asks for
\* a retry that is not allowed: an ack or a nack ends the delivery.
Finish(s) ==
  /\ slot[s].stage = "running"
  /\ decided' = decided \cup {slot[s].item.msg}
  /\ slot' = [slot EXCEPT ![s] = NoItem]
  /\ UNCHANGED <<published, queue, redis, app, vanished, discarded, runs, faults>>

\* consume() returns false, or asks for a retry of a raw delivery, on which
\* retry() throws: the delivery stays outstanding and nobody answers it.
LeaveUnanswered(s) ==
  /\ slot[s].stage = "running"
  /\ slot' = [slot EXCEPT ![s].stage = "stuck"]
  /\ UNCHANGED <<published, queue, redis, app, history, faults>>
\* Mutant: one retry too many.
RequestRetryAtLimit(s) ==
  /\ slot[s].stage = "running"
  /\ slot[s].item.attempt <= RetryLimit
  /\ slot' = [slot EXCEPT ![s].stage = "saving"]
  /\ UNCHANGED <<published, queue, redis, app, history, faults>>

\* consume() throws a BlinkRetryError and RetryManager allows the retry.
RequestRetry(s) ==
  /\ slot[s].stage = "running"
  /\ slot[s].item.attempt < RetryLimit
  /\ slot' = [slot EXCEPT ![s].stage = "saving"]
  /\ UNCHANGED <<published, queue, redis, app, history, faults>>

\* zadd, at the server.  A member that is already there gets the new score.
SaveMessageToRedis(s) ==
  /\ slot[s].stage = "saving"
  /\ LET i == Next1(slot[s].item) IN
       /\ saved' = saved \cup {i}
       /\ due' = RemoveFirst(due, i)
  /\ slot' = [slot EXCEPT ![s].stage = "saved"]
  /\ UNCHANGED <<published, queue, app, history, faults>>

\* zadd has returned: the original is acknowledged.
AckSaved(s) ==
  /\ slot[s].stage = "saved"
  /\ slot' = [slot EXCEPT ![s] = NoItem]
  /\ UNCHANGED <<published, queue, redis, app, history, faults>>
\* Mutant: delayMessageRetry() acknowledges whatever zadd's result is.
SaveFailsButAcks(s) ==
  /\ \/ slot[s].stage = "saving" /\ Fault("zadd")
     \/ slot[s].stage = "saved" /\ Fault("zaddReply")
  /\ slot' = [slot EXCEPT ![s] = NoItem]
  /\ UNCHANGED <<published, queue, redis, app, history>>

\* zadd rejects, before or after it took effect: delayMessageRetry() returns
\* false and the delivery stays as it is.
SaveFails(s) ==
  /\ \/ slot[s].stage = "saving" /\ Fault("zadd")
     \/ slot[s].stage = "saved" /\ Fault("zaddReply")
  /\ slot' = [slot EXCEPT ![s].stage = "stuck"]
  /\ UNCHANGED <<published, queue, redis, app, history>>

\* The worker's connection to Redis is lost before the replies to its zadds are
\* read: they took effect, and are sent again.
SaveResent ==
  /\ Fault("resentZadd")
  /\ \E s \in Slot : slot[s].stage = "saved"
  /\ slot' = [s \in Slot |-> IF slot[s].stage = "saved"
                             THEN [slot[s] EXCEPT !.stage = "saving"] ELSE slot[s]]
  /\ UNCHANGED <<published, queue, redis, app, history>>

\* The worker process dies; the broker takes its deliveries back.
WorkerCrash ==
  /\ Fault("worker")
  /\ Busy # {}
  /\ queue' = queue (+) HeldBag
  /\ slot' = [s \in Slot |-> NoItem]
  /\ UNCHANGED <<published, redis, app, history>>

-----------------------------------------------------------------------------
(* The timer *)

\* The score of a member lies in the past now.
BecomesDue(i) ==
  /\ i \in saved
  /\ ~Contains(due, i)
  /\ due' = Append(due, i)
  /\ UNCHANGED <<published, queue, slot, saved, app, history, faults>>

\* SkipTimer.tick() finds the lock free and calls run().
Tick ==
  /\ timer = "idle"
  /\ timer' = "reading"
  /\ UNCHANGED <<published, queue, slot, redis, removing, registry, history, faults>>
\* Mutant: an off-by-one LIMIT.
ReadyMessagesButOne == {due[n] : n \in 1..(ProcessLimit - 1) \cap DOMAIN due}

\* getReadyMessages(), behind the zrems sent before it on the same connection.
ReadyMessages == {due[n] : n \in 1..ProcessLimit \cap DOMAIN due}
Answered == timer = "reading" /\ removing = {}

\* What can be turned back into a message, of the class of the queue it is to
\* return to.
Unpacks(i) == i.msg \notin Unusable
ReturnQueueKnown == registry
Republishable == {i \in ReadyMessages : Unpacks(i) /\ ReturnQueueKnown}
MsgsOf(items) == {i.msg : i \in items}
Discard(items) == discarded' = discarded \cup MsgsOf(items)
\* Mutant: what has been republished is not removed.
RepublishAndKeep ==
  /\ Answered
  /\ timer' = "idle"
  /\ Put(Republishable)
  /\ removing' = ReadyMessages \ Republishable
  /\ Discard(removing')
  /\ UNCHANGED <<published, slot, redis, registry, decided, vanished, runs, faults>>
\* Mutant: what was not republished is not removed.
RepublishAndReturn ==
  /\ Answered
  /\ timer' = "idle"
  /\ Put(Republishable)
  /\ removing' = Republishable
  /\ Discard(ReadyMessages \ Republishable)
  /\ UNCHANGED <<published, slot, redis, registry, decided, vanished, runs, faults>>

\* run() republishes all it has read at once and returns: the lock is free
\* while the zrems are on their way.  republishMessage() says false of what it
\* has not republished, and run() removes that too.
RepublishMessages ==
  /\ Answered
  /\ timer' = "idle"
  /\ Put(Republishable)
  /\ removing' = ReadyMessages
  /\ Discard(ReadyMessages \ Republishable)
  /\ UNCHANGED <<published, slot, redis, registry, decided, vanished, runs, faults>>

\* The broker link died unnoticed: what is published goes nowhere.
RepublishVanishes ==
  /\ Answered
  /\ Fault("link")
  /\ timer' = "idle"
  /\ vanished' = vanished \cup MsgsOf(Republishable)
  /\ removing' = ReadyMessages
  /\ Discard(ReadyMessages \ Republishable)
  /\ UNCHANGED <<published, queue, slot, redis, registry, decided, runs>>

\* There is no channel: every publish throws, and its member stays.
RepublishThrows ==
  /\ Answered
  /\ Fault("channel")
  /\ timer' = "idle"
  /\ removing' = ReadyMessages \ Republishable
  /\ Discard(removing')
  /\ UNCHANGED <<published, queue, slot, redis, registry, decided, vanished, runs>>

\* zrangebyscore rejects, run() with it, and tick() never gets to its last
\* lines: the lock stays.
ReadFails ==
  /\ timer = "reading"
  /\ Fault("read")
  /\ timer' = "wedged"
  /\ UNCHANGED <<published, queue, slot, redis, removing, registry, history>>

RemoveProcessedMessage(i) ==
  /\ i \in removing
  /\ removing' = removing \ {i}
  /\ saved' = saved \ {i}
  /\ due' = RemoveFirst(due, i)
  /\ UNCHANGED <<published, queue, slot, timer, registry, history, faults>>

\* zrem rejects; the member stays and is read again.
RemoveFails(i) ==
  /\ i \in removing
  /\ Fault("zrem")
  /\ removing' = removing \ {i}
  /\ UNCHANGED <<published, queue, slot, redis, timer, registry, history>>

\* The timer's connection to Redis is lost before the reply to a zrem is read:
\* it took effect, and is sent again.
RemoveResent(i) ==
  /\ i \in removing
  /\ Fault("resentZrem")
  /\ saved' = saved \ {i}
  /\ due' = RemoveFirst(due, i)
  /\ UNCHANGED <<published, queue, slot, app, history>>

\* stop() empties the registry of queues and waits for the broker link to
\* close; nobody stops the timer, which goes on ticking.
TimerAppStops ==
  /\ Fault("stop")
  /\ registry
  /\ registry' = FALSE
  /\ UNCHANGED <<published, queue, slot, redis, timer, removing, history>>

\* The timer process dies, or ends what stop() began, and is started again.
TimerRestarts ==
  /\ \/ Fault("timer")
     \/ ~registry /\ UNCHANGED faults
  /\ timer' = "idle"
  /\ removing' = {}
  /\ registry' = TRUE
  /\ UNCHANGED <<published, queue, slot, redis, history>>

-----------------------------------------------------------------------------

Consume(s) == Finish(s) \/ LeaveUnanswered(s) \/ RequestRetry(s)
Save(s)    == SaveMessageToRedis(s) \/ AckSaved(s)

Next ==
  \/ \E m \in Msg : Publish(m)
  \/ \E s \in Slot, i \in BagToSet(queue) : Deliver(s, i)
  \/ \E s \in Slot : Consume(s) \/ Save(s) \/ SaveFails(s)
  \/ SaveResent \/ WorkerCrash
  \/ \E i \in saved : BecomesDue(i)
  \/ Tick
  \/ RepublishMessages \/ RepublishVanishes \/ RepublishThrows
  \/ ReadFails
  \/ \E i \in removing : RemoveProcessedMessage(i) \/ RemoveFails(i) \/ RemoveResent(i)
  \/ TimerAppStops \/ TimerRestarts

Spec == Init /\ [][Next]_vars

\* Time passes, the timer ticks, Redis and the broker answer, and consume()
\* settles.  The queue is only assumed to deliver something: its priorities may
\* keep a new message waiting behind retries.  No fault has to happen.
Fairness ==
  /\ WF_vars(\E s \in Slot, i \in Item : Deliver(s, i))
  /\ \A s \in Slot : WF_vars(Consume(s) \/ Save(s))
  /\ \A i \in Member : WF_vars(BecomesDue(i))
  /\ WF_vars(Tick \/ RepublishMessages)
  /\ WF_vars(\E i \in removing : RemoveProcessedMessage(i))

FairSpec == Spec /\ Fairness

-----------------------------------------------------------------------------
(* Properties *)

\* Every variable keeps its type; the due members are members, once each.
TypeOK ==
  /\ published \subseteq Msg
  /\ IsABag(queue) /\ BagToSet(queue) \subseteq Item
  /\ slot \in [Slot -> Slots]
  /\ saved \subseteq Item
  /\ Range(due) \subseteq saved /\ IsInjective(due)
  /\ timer \in {"idle", "reading", "wedged"}
  /\ removing \subseteq Item /\ registry \in BOOLEAN
  /\ decided \subseteq Msg /\ vanished \subseteq Msg /\ discarded \subseteq Msg
  /\ runs \in [Msg -> Nat]
  /\ faults \in 0..MaxFault

\* The places a message can be worked on from: copies in the queue, slots
\* that have not handed it to Redis, if only once the worker is restarted, and
\* members that will be republished.
InQueue(m) ==
  UNION {{i} \X (1..queue[i]) : i \in {j \in BagToSet(queue) : j.msg = m}}
InSlots(m, stages) == {s \in Busy : slot[s].stage \in stages /\ slot[s].item.msg = m}
Waiting(m) == {i \in saved \ removing : i.msg = m}
Pending(m) ==
  Cardinality(InQueue(m)) + Cardinality(InSlots(m, {"running", "saving", "stuck"}))
    + Cardinality(Waiting(m))

\* What one process has in hand at once: a worker its deliveries, the timer the
\* removals of what it has read.
InHand == IF Cardinality(Slot) > ProcessLimit THEN Cardinality(Slot) ELSE ProcessLimit

Usable == published \ Unusable

\* Without faults the hand-overs broker -> Redis -> broker keep exactly one
\* copy of a message alive until it is decided, although zadd and ack,
\* publish and zrem are separate steps and ticks do not wait for the zrems.
\* A fault makes at most as many copies more as a process has in hand: the
\* worker can hold a message in several deliveries, each handed over to Redis
\* and not acknowledged yet, and dies with all of them.
CopiesCounted ==
  \A m \in Usable \ (vanished \cup discarded) :
    LET copies == Pending(m) + (IF m \in decided THEN 1 ELSE 0)
    IN  IF faults = 0 THEN copies = 1 ELSE copies <= 1 + faults * InHand

\* Whatever fails, dies or is sent twice, in either process, a message is
\* never dropped between the two stores: a copy of it is in the queue, in the
\* hands of the worker or in Redis.  It may only vanish on a dead channel or
\* be discarded by a timer that has lost its queues.
AlwaysSomewhere ==
  \A m \in Usable \ (decided \cup vanished \cup discarded) :
    Pending(m) > 0

\* The counter survives packing, Redis and rebuilding: consume() is called
\* with a message at most RetryLimit + 1 times for each copy there has been.
RetryBudget ==
  \A m \in Msg : runs[m] <= (RetryLimit + 1) * (1 + faults * InHand)

\* Every message comes to an end, the new ones behind any retries that go
\* before them: it is decided, unless it vanished on a dead channel or was
\* discarded, a failed read has stopped the timer, or deliveries without an
\* answer are in the way: its own is one, after a false result, a retry() that
\* threw or a failed zadd, or they fill the prefetch count.
EventuallyDecided ==
  \A m \in Msg :
    m \in published ~>
      \/ m \in decided \cup vanished \cup discarded
      \/ timer = "wedged"
      \/ InSlots(m, {"stuck"}) # {}
      \/ \A s \in Slot : slot[s].stage = "stuck"

\* A saved member leaves Redis, behind whatever other members are due and
\* whatever fails, as long as the timer is not stopped by a failed read.
LeavesRedis == \A i \in Member : i \in saved ~> i \notin saved \/ timer = "wedged"

=============================================================================
