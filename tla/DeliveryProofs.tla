--------------------------- MODULE DeliveryProofs ---------------------------
(* Theorems about Delivery, for every number of messages, workers, copies, *)
(* retries, lost connections and crashes.                                  *)
EXTENDS Delivery, FiniteSetTheorems, TLAPS

\* A fresh copy is a copy of the message and attempt it is made for.
LEMMA NewCopyIsCopy ==
  ASSUME NEW m \in Msg, NEW a \in 0..RetryLimit, HasRoom
  PROVE  /\ NewCopy(m, a) \in Copy
         /\ NewCopy(m, a).msg = m
         /\ NewCopy(m, a).attempt = a
BY DEF NewCopy, HasRoom, Copy

\* Dropping a channel keeps the broker's variables in their types.
LEMMA BrokerDropsType ==
  ASSUME TypeOK, NEW w \in Worker, BrokerDrops(w)
  PROVE  /\ ready' \subseteq Copy
         /\ unacked' \in [Worker -> SUBSET Delivered]
         /\ left' \in [Worker -> SUBSET Delivered]
         /\ consuming' \in [Worker -> BOOLEAN]
BY DEF TypeOK, BrokerDrops, Held, Delivered

\* So does an ack or a nack, whatever becomes of it.
LEMMA SettleType ==
  ASSUME TypeOK, NEW w \in Worker, NEW t \in tasks[w], Settle(w, t)
  PROVE  /\ ready' \subseteq Copy
         /\ unacked' \in [Worker -> SUBSET Delivered]
         /\ left' \in [Worker -> SUBSET Delivered]
         /\ consuming' \in [Worker -> BOOLEAN]
         /\ chan' \in [Worker -> {"off", "open", "half", "down"}]
<1>1. CASE SettleHits(w, t)
  BY <1>1 DEF TypeOK, SettleHits
<1>2. CASE SettleUnknownTag(w, t)
  BY <1>2, BrokerDropsType DEF TypeOK, SettleUnknownTag
<1>3. CASE SettleUnsent(w, t)
  BY <1>3 DEF TypeOK, SettleUnsent
<1>. QED  BY <1>1, <1>2, <1>3 DEF Settle

\* Finishing with a task keeps tasks and decided in their types.
LEMMA ForgetType ==
  ASSUME TypeOK, NEW w \in Worker, NEW t \in tasks[w], Forget(w, t)
  PROVE  tasks' \in [Worker -> SUBSET Task]
BY DEF TypeOK, Forget

\* Recording a decision keeps the history well typed.
LEMMA DecideType ==
  ASSUME TypeOK, NEW w \in Worker, NEW t \in tasks[w],
         NEW r \in Decision, Decide(t, r)
  PROVE  decided' \in [Msg -> SUBSET Decision] /\ gapLost' \subseteq Msg
BY DEF TypeOK, Decide, Task

\* A task that may be retried is still a task with one more attempt.
LEMMA IncrementedIsTask ==
  ASSUME NEW t \in Task, RetryAllowed(t)
  PROVE  /\ Incremented(t) \in Task
         /\ Incremented(t).tag = t.tag
         /\ Incremented(t).msg = t.msg
         /\ Incremented(t).attempt = t.attempt + 1
         /\ Incremented(t).stage = "delayed"
<1>1. t.attempt + 1 \in 0..RetryLimit
  BY RetryLimitAssumption DEF Task, RetryAllowed
<1>2. [t EXCEPT !.attempt = t.attempt + 1] \in Task
  BY <1>1 DEF Task
<1>. QED  BY <1>2 DEF Incremented, Task, Stage

\* A fresh system is well typed.
LEMMA TypeInit == Init => TypeOK
BY BoundsAssumption DEF Init, TypeOK

\* No step of Next leaves the types: TypeOK is inductive by itself, since
\* RetryScheduled() only increments what RetryAllowed() has checked.
LEMMA TypeStep == TypeOK /\ [Next]_vars => TypeOK'
<1>. SUFFICES ASSUME TypeOK, [Next]_vars PROVE TypeOK'
  OBVIOUS
<1>1. ASSUME NEW m \in Msg, Publish(m) PROVE TypeOK'
  BY <1>1, NewCopyIsCopy, RetryLimitAssumption
     DEF TypeOK, Publish, link, history, bounds
<1>2. ASSUME NEW w \in Worker, LinkStep(w) PROVE TypeOK'
  <2>1. CASE ConnectionLost(w)
    <3>1. /\ ready' \subseteq Copy
          /\ unacked' \in [Worker -> SUBSET Delivered]
          /\ left' \in [Worker -> SUBSET Delivered]
          /\ consuming' \in [Worker -> BOOLEAN]
      BY <2>1, BrokerDropsType DEF ConnectionLost
    <3>2. chan' \in [Worker -> {"off", "open", "half", "down"}]
      BY <2>1 DEF TypeOK, ConnectionLost
    <3>3. losses' \in 0..MaxLoss
      BY <2>1, BoundsAssumption DEF TypeOK, ConnectionLost
    <3>. QED  BY <2>1, <3>1, <3>2, <3>3 DEF TypeOK, ConnectionLost, history
  <2>2. CASE NoticeClose(w)
    BY <2>2 DEF TypeOK, NoticeClose, broker, history, bounds
  <2>3. CASE Recovered(w)
    BY <2>3 DEF TypeOK, Recovered, broker, history, bounds
  <2>. QED  BY <1>2, <2>1, <2>2, <2>3 DEF LinkStep
<1>3. ASSUME NEW w \in Worker, ProcessStep(w) PROVE TypeOK'
  <2>1. CASE StartApp(w)
    BY <2>1 DEF TypeOK, StartApp, broker, history, bounds
  <2>2. CASE LimitMessagesInMemory(w)
    BY <2>2 DEF TypeOK, LimitMessagesInMemory, broker, history, bounds
  <2>3. CASE Subscribe(w)
    BY <2>3 DEF TypeOK, Subscribe, history, bounds
  <2>4. CASE Crash(w)
    BY <2>4, BrokerDropsType, BoundsAssumption DEF TypeOK, Crash, history
  <2>. QED  BY <1>3, <2>1, <2>2, <2>3, <2>4 DEF ProcessStep
<1>4. ASSUME NEW w \in Worker, NEW c \in ready, Deliver(w, c) PROVE TypeOK'
  <2>1. c \in Copy /\ nextTag[w] \in Nat \ {0} /\ gen[w] \in Nat
    BY DEF TypeOK
  <2>2. [tag |-> nextTag[w], copy |-> c] \in Delivered
    BY <2>1 DEF Delivered
  <2>3. [tag |-> nextTag[w], gen |-> gen[w], msg |-> c.msg,
         attempt |-> c.attempt, stage |-> "throttled"] \in Task
    BY <2>1 DEF Task, Stage, Copy
  <2>. QED
    BY <1>4, <2>1, <2>2, <2>3 DEF TypeOK, Deliver, history, bounds
<1>5. ASSUME NEW w \in Worker, NEW t \in tasks[w], TaskStep(w, t) PROVE TypeOK'
  <2>0. t \in Task
    BY DEF TypeOK
  <2>1. CASE ExecuteCallback(w, t)
    <3>1. [t EXCEPT !.stage = "running"] \in Task
      BY <2>0 DEF Task, Stage
    <3>. QED  BY <2>1, <3>1 DEF TypeOK, ExecuteCallback, broker, link, history, bounds
  <2>2. CASE ProcessTrue(w, t)
    BY <2>2, SettleType, ForgetType, DecideType
       DEF TypeOK, ProcessTrue, Decision, bounds
  <2>3. CASE ProcessFalse(w, t)
    BY <2>3, ForgetType DEF TypeOK, ProcessFalse, LeaveUnanswered, link, history, bounds
  <2>4. CASE ProcessError(w, t)
    BY <2>4, SettleType, ForgetType, DecideType
       DEF TypeOK, ProcessError, Decision, bounds
  <2>5. CASE RetryThrows(w, t)
    BY <2>5, ForgetType DEF TypeOK, RetryThrows, LeaveUnanswered, link, history, bounds
  <2>6. CASE RetryDenied(w, t)
    BY <2>6, SettleType, ForgetType, DecideType
       DEF TypeOK, RetryDenied, Decision, bounds
  <2>7. CASE RetryScheduled(w, t)
    <3>1. Incremented(t) \in Task
      BY <2>0, <2>7, IncrementedIsTask DEF RetryScheduled
    <3>. QED  BY <2>7, <3>1 DEF TypeOK, RetryScheduled, broker, link, history, bounds
  <2>8. CASE Republish(w, t)
    <3>1. NewCopy(t.msg, t.attempt) \in Copy
      BY <2>0, <2>8, NewCopyIsCopy DEF Republish, Task
    <3>. QED  BY <2>8, <3>1, ForgetType DEF TypeOK, Republish, link, history, bounds
  <2>9. CASE RepublishCutShort(w, t)
    <3>1. t.msg \in Msg
      BY <2>0 DEF Task
    <3>2. {d.copy : d \in {e \in unacked[w] : e.tag # t.tag}} \subseteq Copy
      BY DEF TypeOK, Delivered
    <3>3. tasks' \in [Worker -> SUBSET Task]
      BY <2>9, ForgetType DEF RepublishCutShort
    <3>4. losses' \in 0..MaxLoss
      BY <2>9, BoundsAssumption DEF TypeOK, RepublishCutShort
    <3>5. ready' \subseteq Copy /\ gapLost' \subseteq Msg
      BY <2>9, <3>1, <3>2 DEF TypeOK, RepublishCutShort
    <3>6. /\ unacked' \in [Worker -> SUBSET Delivered]
          /\ left' \in [Worker -> SUBSET Delivered]
          /\ consuming' \in [Worker -> BOOLEAN]
          /\ chan' \in [Worker -> {"off", "open", "half", "down"}]
      BY <2>9 DEF TypeOK, RepublishCutShort
    <3>. QED  BY <2>9, <3>3, <3>4, <3>5, <3>6 DEF TypeOK, RepublishCutShort
  <2>10. CASE RepublishRefused(w, t)
    BY <2>10, SettleType, ForgetType
       DEF TypeOK, RepublishRefused, Settle, history, bounds
  <2>. QED
    BY <1>5, <2>1, <2>2, <2>3, <2>4, <2>5, <2>6, <2>7, <2>8, <2>9, <2>10
       DEF TaskStep, Return, Retry, RetryDue
<1>6. CASE UNCHANGED vars
  BY <1>6 DEF TypeOK, vars, broker, link, history, bounds
<1>. QED  BY <1>1, <1>2, <1>3, <1>4, <1>5, <1>6 DEF Next

\* Every state is well typed; in particular every retry counter, in the
\* broker and in memory, stays within RetryManager's limit.
THEOREM TypeCorrect == Spec => []TypeOK
BY TypeInit, TypeStep, PTL DEF Spec

-----------------------------------------------------------------------------
(* What an answer, or the loss of a channel, does to the copies *)

\* Dropping a channel moves copies and loses none of them.
LEMMA DropsKeepLive ==
  ASSUME TypeOK, NEW w \in Worker, BrokerDrops(w)
  PROVE  Live' = Live
<1>1. unacked'[w] = {} /\ \A v \in Worker \ {w} : unacked'[v] = unacked[v]
  BY DEF TypeOK, BrokerDrops
<1>2. ready' = ready \cup Held(w)
  BY DEF BrokerDrops
<1>3. UNION {Held(v) : v \in Worker} = Held(w) \cup UNION {Held(v) : v \in Worker \ {w}}
  OBVIOUS
<1>4. UNION {Held(v)' : v \in Worker} = UNION {Held(v) : v \in Worker \ {w}}
  <2>1. Held(w)' = {}
    BY <1>1 DEF Held
  <2>2. \A v \in Worker \ {w} : Held(v)' = Held(v)
    BY <1>1 DEF Held
  <2>. QED  BY <2>1, <2>2
<1>. QED  BY <1>2, <1>3, <1>4 DEF Live

\* ... and leaves every message in one place.
LEMMA DropsOnePlace ==
  ASSUME IInv, NEW w \in Worker, BrokerDrops(w)
  PROVE  OnePlace'
<1>1. unacked'[w] = {} /\ \A v \in Worker \ {w} : unacked'[v] = unacked[v]
  BY DEF IInv, TypeOK, BrokerDrops
<1>2. \A c \in ready' : c \in ready \/ \E d \in unacked[w] : c = d.copy
  BY DEF BrokerDrops, Held
<1>3. \A c1, c2 \in ready' : c1.msg = c2.msg => c1 = c2
  BY <1>2 DEF IInv, OnePlace
<1>4. \A v \in Worker : \A d \in unacked'[v], c \in ready' : d.copy.msg # c.msg
  BY <1>1, <1>2 DEF IInv, OnePlace
<1>5. \A v1, v2 \in Worker : \A d1 \in unacked'[v1], d2 \in unacked'[v2] :
        d1.copy.msg = d2.copy.msg => v1 = v2 /\ d1 = d2
  BY <1>1 DEF IInv, OnePlace
<1>. QED  BY <1>3, <1>4, <1>5 DEF OnePlace

\* An answer removes one delivery, moves the channel's copies, or is lost.
LEMMA SettleOnePlace ==
  ASSUME IInv, NEW w \in Worker, NEW t \in tasks[w], Settle(w, t)
  PROVE  OnePlace'
<1>1. CASE SettleHits(w, t)
  BY <1>1 DEF IInv, TypeOK, OnePlace, SettleHits
<1>2. CASE SettleUnknownTag(w, t)
  BY <1>2, DropsOnePlace DEF SettleUnknownTag
<1>3. CASE SettleUnsent(w, t)
  BY <1>3 DEF IInv, OnePlace, SettleUnsent
<1>. QED  BY <1>1, <1>2, <1>3 DEF Settle

\* Whatever channel it is sent on, an answer removes no copy but the
\* answering task's own message.
LEMMA SettleRemovesOwn ==
  ASSUME IInv, NEW w \in Worker, NEW t \in tasks[w], Settle(w, t),
         NEW c \in Live
  PROVE  c \in Live' \/ c.msg = t.msg
<1>1. CASE SettleHits(w, t)
  <2>1. CASE c \in ready
    BY <1>1, <2>1 DEF SettleHits, Live
  <2>2. CASE c \notin ready
    <3>1. PICK v \in Worker : \E d \in unacked[v] : c = d.copy
      BY <2>2 DEF Live, Held
    <3>0. PICK d \in unacked[v] : c = d.copy
      BY <3>1
    <3>2. CASE v = w /\ d.tag = t.tag
      BY <3>0, <3>2 DEF IInv, OwnTag
    <3>3. CASE ~(v = w /\ d.tag = t.tag)
      <4>1. d \in unacked'[v]
        BY <1>1, <3>3 DEF IInv, TypeOK, SettleHits
      <4>. QED  BY <3>0, <4>1 DEF Live, Held
    <3>. QED  BY <3>2, <3>3
  <2>. QED  BY <2>1, <2>2
<1>2. CASE SettleUnknownTag(w, t)
  BY <1>2, DropsKeepLive DEF SettleUnknownTag, IInv
<1>3. CASE SettleUnsent(w, t)
  BY <1>3 DEF SettleUnsent, Live, Held
<1>. QED  BY <1>1, <1>2, <1>3 DEF Settle

\* Hence a message that an answer removes has been decided.
LEMMA DecideNoSilentLoss ==
  ASSUME IInv, NEW w \in Worker, NEW t \in tasks[w], Settle(w, t),
         NEW r \in Decision, Decide(t, r), UNCHANGED published
  PROVE  NoSilentLoss'
<1>1. t.msg \in Msg
  BY DEF IInv, TypeOK, Task
<1>2. decided'[t.msg] # {} /\ \A m \in Msg : decided[m] # {} => decided'[m] # {}
  BY <1>1 DEF IInv, TypeOK, Decide
<1>3. gapLost' = gapLost /\ published' = published /\ published \subseteq Msg
  BY DEF Decide, IInv, TypeOK
<1>4. \A c \in Live : c \in Live' \/ c.msg = t.msg
  BY SettleRemovesOwn
<1>. QED  BY <1>2, <1>3, <1>4 DEF IInv, NoSilentLoss

-----------------------------------------------------------------------------
(* Every action keeps the inductive invariant.  A task's answer is safe on *)
(* any channel because only the channel a worker started on has deliveries *)
(* (ConsumerIsOriginal) and their tags are matched to its tasks (OwnTag).  *)

\* A new message enters the queue.
LEMMA PublishKeeps ==
  ASSUME IInv, TypeOK', NEW m \in Msg, Publish(m)
  PROVE  IInv'
<1>1. OnePlace'
  <2>1. NewCopy(m, 0).msg = m
    BY NewCopyIsCopy, RetryLimitAssumption DEF Publish
  <2>2. /\ \A c \in ready : c.msg # m
        /\ \A w \in Worker : \A d \in unacked[w] : d.copy.msg # m
    BY DEF IInv, OnlyPublished, Publish
  <2>3. ready' = ready \cup {NewCopy(m, 0)} /\ unacked' = unacked
    BY DEF Publish
  <2>. QED  BY <2>1, <2>2, <2>3 DEF IInv, OnePlace
<1>2. OnlyPublished'
  BY DEF IInv, TypeOK, Publish, OnlyPublished, link, history, bounds, NewCopy
<1>3. ConsumerIsOriginal'
  BY DEF IInv, TypeOK, Publish, ConsumerIsOriginal, link, history, bounds,
         NewCopy
<1>4. TagsFresh'
  BY DEF IInv, TypeOK, Publish, TagsFresh, link, history, bounds, Copy,
         Delivered, Task, Stage, NewCopy
<1>5. OwnTag'
  BY DEF IInv, TypeOK, Publish, OwnTag, link, history, bounds, Copy, Delivered,
         Task, Stage, NewCopy
<1>6. NoSilentLoss'
  <2>1. ready \subseteq ready' /\ unacked' = unacked
    BY DEF Publish
  <2>2. Live \subseteq Live'
    BY <2>1 DEF Live, Held
  <2>3. \E c \in Live' : c.msg = m
    BY NewCopyIsCopy, RetryLimitAssumption DEF Publish, Live
  <2>. QED  BY <2>2, <2>3 DEF IInv, NoSilentLoss, Publish, history
<1>. QED  BY <1>1, <1>2, <1>3, <1>4, <1>5, <1>6 DEF IInv

\* The broker takes everything outstanding back.
LEMMA ConnectionLostKeeps ==
  ASSUME IInv, TypeOK', NEW w \in Worker, ConnectionLost(w)
  PROVE  IInv'
<1>1. OnePlace'
  BY DropsOnePlace DEF ConnectionLost
<1>2. OnlyPublished'
  BY DEF IInv, TypeOK, ConnectionLost, OnlyPublished, history, BrokerDrops,
         Held
<1>3. ConsumerIsOriginal'
  BY DEF IInv, TypeOK, ConnectionLost, ConsumerIsOriginal, history,
         BrokerDrops, Held
<1>4. TagsFresh'
  BY DEF IInv, TypeOK, ConnectionLost, TagsFresh, history, Copy, Delivered,
         Task, Stage, BrokerDrops, Held
<1>5. OwnTag'
  BY DEF IInv, TypeOK, ConnectionLost, OwnTag, history, Copy, Delivered, Task,
         Stage, BrokerDrops, Held
<1>6. NoSilentLoss'
  BY DropsKeepLive DEF IInv, NoSilentLoss, ConnectionLost, history
<1>. QED  BY <1>1, <1>2, <1>3, <1>4, <1>5, <1>6 DEF IInv

\* The 'close' event changes only what the client knows.
LEMMA NoticeCloseKeeps ==
  ASSUME IInv, TypeOK', NEW w \in Worker, NoticeClose(w)
  PROVE  IInv'
<1>1. OnePlace'
  BY DEF IInv, TypeOK, NoticeClose, OnePlace, broker, history, bounds
<1>2. OnlyPublished'
  BY DEF IInv, TypeOK, NoticeClose, OnlyPublished, broker, history, bounds
<1>3. ConsumerIsOriginal'
  BY DEF IInv, TypeOK, NoticeClose, ConsumerIsOriginal, broker, history,
         bounds
<1>4. TagsFresh'
  BY DEF IInv, TypeOK, NoticeClose, TagsFresh, broker, history, bounds, Copy,
         Delivered, Task, Stage
<1>5. OwnTag'
  BY DEF IInv, TypeOK, NoticeClose, OwnTag, broker, history, bounds, Copy,
         Delivered, Task, Stage
<1>6. NoSilentLoss'
  BY DEF IInv, TypeOK, NoticeClose, NoSilentLoss, broker, history, bounds,
         Live, Held
<1>. QED  BY <1>1, <1>2, <1>3, <1>4, <1>5, <1>6 DEF IInv

\* A recovered channel has no consumer, so its fresh tags name nothing.
LEMMA RecoveredKeeps ==
  ASSUME IInv, TypeOK', NEW w \in Worker, Recovered(w)
  PROVE  IInv'
<1>1. OnePlace'
  BY DEF IInv, TypeOK, Recovered, OnePlace, broker, history, bounds
<1>2. OnlyPublished'
  BY DEF IInv, TypeOK, Recovered, OnlyPublished, broker, history, bounds
<1>3. ConsumerIsOriginal'
  BY DEF IInv, TypeOK, Recovered, ConsumerIsOriginal, broker, history, bounds
<1>4. TagsFresh'
  BY DEF IInv, TypeOK, TagsFresh, ConsumerIsOriginal, Recovered, broker
<1>5. OwnTag'
  BY DEF IInv, TypeOK, Recovered, OwnTag, broker, history, bounds, Copy,
         Delivered, Task, Stage
<1>6. NoSilentLoss'
  BY DEF IInv, TypeOK, Recovered, NoSilentLoss, broker, history, bounds, Live,
         Held
<1>. QED  BY <1>1, <1>2, <1>3, <1>4, <1>5, <1>6 DEF IInv

\* A restarted process has an empty memory and no consumer.
LEMMA StartAppKeeps ==
  ASSUME IInv, TypeOK', NEW w \in Worker, StartApp(w)
  PROVE  IInv'
<1>1. OnePlace'
  BY DEF IInv, TypeOK, StartApp, OnePlace, broker, history, bounds
<1>2. OnlyPublished'
  BY DEF IInv, TypeOK, StartApp, OnlyPublished, broker, history, bounds
<1>3. ConsumerIsOriginal'
  BY DEF IInv, TypeOK, StartApp, ConsumerIsOriginal, broker, history, bounds
<1>4. TagsFresh'
  BY DEF IInv, TypeOK, TagsFresh, ConsumerIsOriginal, StartApp, broker
<1>5. OwnTag'
  BY DEF IInv, TypeOK, StartApp, OwnTag, broker, history, bounds, Copy,
         Delivered, Task, Stage
<1>6. NoSilentLoss'
  BY DEF IInv, TypeOK, StartApp, NoSilentLoss, broker, history, bounds, Live,
         Held
<1>. QED  BY <1>1, <1>2, <1>3, <1>4, <1>5, <1>6 DEF IInv

\* prefetch() comes before the first delivery.
LEMMA LimitMessagesInMemoryKeeps ==
  ASSUME IInv, TypeOK', NEW w \in Worker, LimitMessagesInMemory(w)
  PROVE  IInv'
<1>1. OnePlace'
  BY DEF IInv, TypeOK, LimitMessagesInMemory, OnePlace, broker, history,
         bounds
<1>2. OnlyPublished'
  BY DEF IInv, TypeOK, LimitMessagesInMemory, OnlyPublished, broker, history,
         bounds
<1>3. ConsumerIsOriginal'
  BY DEF IInv, TypeOK, LimitMessagesInMemory, ConsumerIsOriginal, broker,
         history, bounds
<1>4. TagsFresh'
  BY DEF IInv, TypeOK, LimitMessagesInMemory, TagsFresh, broker, history,
         bounds, Copy, Delivered, Task, Stage
<1>5. OwnTag'
  BY DEF IInv, TypeOK, LimitMessagesInMemory, OwnTag, broker, history, bounds,
         Copy, Delivered, Task, Stage
<1>6. NoSilentLoss'
  BY DEF IInv, TypeOK, LimitMessagesInMemory, NoSilentLoss, broker, history,
         bounds, Live, Held
<1>. QED  BY <1>1, <1>2, <1>3, <1>4, <1>5, <1>6 DEF IInv

\* The subscribing process holds no task yet.
LEMMA SubscribeKeeps ==
  ASSUME IInv, TypeOK', NEW w \in Worker, Subscribe(w)
  PROVE  IInv'
<1>1. OnePlace'
  BY DEF IInv, TypeOK, Subscribe, OnePlace, history, bounds
<1>2. OnlyPublished'
  BY DEF IInv, TypeOK, Subscribe, OnlyPublished, history, bounds
<1>3. ConsumerIsOriginal'
  BY DEF IInv, TypeOK, Subscribe, ConsumerIsOriginal, history, bounds
<1>4. TagsFresh'
  BY DEF IInv, TypeOK, TagsFresh, ConsumerIsOriginal, Subscribe, broker
<1>5. OwnTag'
  BY DEF IInv, TypeOK, Subscribe, OwnTag, history, bounds, Copy, Delivered,
         Task, Stage
<1>6. NoSilentLoss'
  BY DEF IInv, TypeOK, Subscribe, NoSilentLoss, history, bounds, Live, Held
<1>. QED  BY <1>1, <1>2, <1>3, <1>4, <1>5, <1>6 DEF IInv

\* A crash drops the channel and the memory together.
LEMMA CrashKeeps ==
  ASSUME IInv, TypeOK', NEW w \in Worker, Crash(w)
  PROVE  IInv'
<1>1. OnePlace'
  BY DropsOnePlace DEF Crash
<1>2. OnlyPublished'
  BY DEF IInv, TypeOK, Crash, OnlyPublished, history, BrokerDrops, Held
<1>3. ConsumerIsOriginal'
  BY DEF IInv, TypeOK, Crash, ConsumerIsOriginal, history, BrokerDrops, Held
<1>4. TagsFresh'
  BY DEF IInv, TypeOK, Crash, TagsFresh, history, Copy, Delivered, Task, Stage,
         BrokerDrops, Held
<1>5. OwnTag'
  BY DEF IInv, TypeOK, Crash, OwnTag, history, Copy, Delivered, Task, Stage,
         BrokerDrops, Held
<1>6. NoSilentLoss'
  BY DropsKeepLive DEF IInv, NoSilentLoss, Crash, history
<1>. QED  BY <1>1, <1>2, <1>3, <1>4, <1>5, <1>6 DEF IInv

\* The new delivery and the new task share a tag nobody else has.
LEMMA DeliverKeeps ==
  ASSUME IInv, TypeOK', NEW w \in Worker, NEW c \in ready, Deliver(w, c)
  PROVE  IInv'
<1>1. OnePlace'
  BY DEF IInv, TypeOK, Deliver, OnePlace, history, bounds
<1>2. OnlyPublished'
  BY DEF IInv, TypeOK, Deliver, OnlyPublished, history, bounds
<1>3. ConsumerIsOriginal'
  BY DEF IInv, TypeOK, Deliver, ConsumerIsOriginal, history, bounds
<1>4. TagsFresh'
  BY DEF IInv, TypeOK, Deliver, TagsFresh, history, bounds, Copy, Delivered,
         Task, Stage
<1>5. OwnTag'
  <2>. DEFINE d0 == [tag |-> nextTag[w], copy |-> c]
              t0 == [tag |-> nextTag[w], gen |-> gen[w], msg |-> c.msg,
                     attempt |-> c.attempt, stage |-> "throttled"]
  <2>1. /\ unacked'[w] = unacked[w] \cup {d0}
        /\ tasks'[w] = tasks[w] \cup {t0}
        /\ \A v \in Worker \ {w} : unacked'[v] = unacked[v] /\ tasks'[v] = tasks[v]
    BY DEF IInv, TypeOK, Deliver
  <2>2. /\ \A d \in unacked[w] : d.tag # nextTag[w]
        /\ \A t \in tasks[w] : t.tag # nextTag[w]
    <3>1. nextTag[w] \in Nat /\ consuming[w]
      BY DEF IInv, TypeOK, Deliver
    <3>. QED  BY <3>1 DEF IInv, TypeOK, TagsFresh, Delivered, Task
  <2>3. c.attempt \in Int
    BY RetryLimitAssumption DEF IInv, TypeOK, Copy
  <2>. SUFFICES ASSUME NEW v \in Worker, NEW t \in tasks'[v],
                       NEW d \in unacked'[v], t.tag = d.tag
                PROVE  /\ t.msg = d.copy.msg
                       /\ t.attempt = d.copy.attempt
                            + (IF t.stage = "delayed" THEN 1 ELSE 0)
    BY DEF OwnTag
  <2>4. CASE v = w /\ t = t0
    BY <2>1, <2>2, <2>3, <2>4
  <2>5. CASE v = w /\ t # t0
    <3>1. t \in tasks[w] /\ d \in unacked[w]
      BY <2>1, <2>2, <2>5
    <3>. QED  BY <3>1, <2>5 DEF IInv, OwnTag
  <2>6. CASE v # w
    BY <2>1, <2>6 DEF IInv, OwnTag
  <2>. QED  BY <2>4, <2>5, <2>6
<1>6. NoSilentLoss'
  <2>1. \A x \in Live : x \in Live'
    <3>1. [tag |-> nextTag[w], copy |-> c] \in unacked'[w]
      BY DEF IInv, TypeOK, Deliver
    <3>2. c \in Live'
      BY <3>1 DEF Live, Held
    <3>3. \A v \in Worker : unacked[v] \subseteq unacked'[v]
      BY DEF IInv, TypeOK, Deliver
    <3>4. \A v \in Worker : Held(v) \subseteq Held(v)'
      BY <3>3 DEF Held
    <3>5. ready \subseteq ready' \cup {c}
      BY DEF Deliver
    <3>. QED  BY <3>2, <3>4, <3>5 DEF Live
  <2>. QED  BY <2>1 DEF IInv, NoSilentLoss, Deliver, history
<1>. QED  BY <1>1, <1>2, <1>3, <1>4, <1>5, <1>6 DEF IInv

\* The throttle changes a stage that no part of the invariant reads.
LEMMA ExecuteCallbackKeeps ==
  ASSUME IInv, TypeOK', NEW w \in Worker, NEW t \in tasks[w], ExecuteCallback(w, t)
  PROVE  IInv'
<1>1. OnePlace'
  BY DEF IInv, TypeOK, ExecuteCallback, OnePlace, broker, link, history,
         bounds
<1>2. OnlyPublished'
  BY DEF IInv, TypeOK, ExecuteCallback, OnlyPublished, broker, link, history,
         bounds, Task, Stage
<1>3. ConsumerIsOriginal'
  BY DEF IInv, TypeOK, ExecuteCallback, ConsumerIsOriginal, broker, link,
         history, bounds
<1>4. TagsFresh'
  BY DEF IInv, TypeOK, ExecuteCallback, TagsFresh, broker, link, history,
         bounds, Copy, Delivered, Task, Stage
<1>5. OwnTag'
  BY DEF IInv, TypeOK, ExecuteCallback, OwnTag, broker, link, history, bounds,
         Copy, Delivered, Task, Stage
<1>6. NoSilentLoss'
  BY DEF IInv, TypeOK, ExecuteCallback, NoSilentLoss, broker, link, history,
         bounds, Live, Held
<1>. QED  BY <1>1, <1>2, <1>3, <1>4, <1>5, <1>6 DEF IInv

\* An ack removes the delivery of the message that was decided.
LEMMA ProcessTrueKeeps ==
  ASSUME IInv, TypeOK', NEW w \in Worker, NEW t \in tasks[w], ProcessTrue(w, t)
  PROVE  IInv'
<1>1. OnePlace'
  BY SettleOnePlace DEF ProcessTrue
<1>2. OnlyPublished'
  BY DEF IInv, TypeOK, ProcessTrue, OnlyPublished, Forget, Ended, bounds,
         Settle, SettleHits, SettleUnknownTag, SettleUnsent, Outstanding,
         BrokerDrops, Held, Decide
<1>3. ConsumerIsOriginal'
  BY DEF IInv, TypeOK, ProcessTrue, ConsumerIsOriginal, Forget, Ended, bounds,
         Settle, SettleHits, SettleUnknownTag, SettleUnsent, Outstanding,
         BrokerDrops, Held, Decide
<1>4. TagsFresh'
  BY DEF IInv, TypeOK, ProcessTrue, TagsFresh, Forget, Ended, bounds, Copy,
         Delivered, Task, Stage, Settle, SettleHits, SettleUnknownTag,
         SettleUnsent, Outstanding, BrokerDrops, Held, Decide
<1>5. OwnTag'
  BY DEF IInv, TypeOK, ProcessTrue, OwnTag, Forget, Ended, bounds, Copy,
         Delivered, Task, Stage, Settle, SettleHits, SettleUnknownTag,
         SettleUnsent, Outstanding, BrokerDrops, Held, Decide
<1>6. NoSilentLoss'
  BY DecideNoSilentLoss DEF ProcessTrue, Decision
<1>. QED  BY <1>1, <1>2, <1>3, <1>4, <1>5, <1>6 DEF IInv

\* A false result forgets the task and leaves the delivery.
LEMMA ProcessFalseKeeps ==
  ASSUME IInv, TypeOK', NEW w \in Worker, NEW t \in tasks[w], ProcessFalse(w, t)
  PROVE  IInv'
<1>1. OnePlace'
  BY DEF IInv, TypeOK, ProcessFalse, LeaveUnanswered, OnePlace, Forget, link,
         history, bounds
<1>2. OnlyPublished'
  BY DEF IInv, TypeOK, ProcessFalse, LeaveUnanswered, OnlyPublished, Forget,
         link, history, bounds
<1>3. ConsumerIsOriginal'
  BY DEF IInv, TypeOK, ProcessFalse, LeaveUnanswered, ConsumerIsOriginal,
         Forget, link, history, bounds
<1>4. TagsFresh'
  BY DEF IInv, TypeOK, ProcessFalse, LeaveUnanswered, TagsFresh, Forget, link,
         history, bounds, Copy, Delivered, Task, Stage
<1>5. OwnTag'
  BY DEF IInv, TypeOK, ProcessFalse, LeaveUnanswered, OwnTag, Forget, link,
         history, bounds, Copy, Delivered, Task, Stage
<1>6. NoSilentLoss'
  BY DEF IInv, TypeOK, ProcessFalse, LeaveUnanswered, NoSilentLoss, Forget,
         link, history, bounds, Live, Held
<1>. QED  BY <1>1, <1>2, <1>3, <1>4, <1>5, <1>6 DEF IInv

\* A reject removes the delivery of the message that was decided.
LEMMA ProcessErrorKeeps ==
  ASSUME IInv, TypeOK', NEW w \in Worker, NEW t \in tasks[w], ProcessError(w, t)
  PROVE  IInv'
<1>1. OnePlace'
  BY SettleOnePlace DEF ProcessError
<1>2. OnlyPublished'
  BY DEF IInv, TypeOK, ProcessError, OnlyPublished, Forget, Ended, bounds,
         Settle, SettleHits, SettleUnknownTag, SettleUnsent, Outstanding,
         BrokerDrops, Held, Decide
<1>3. ConsumerIsOriginal'
  BY DEF IInv, TypeOK, ProcessError, ConsumerIsOriginal, Forget, Ended, bounds,
         Settle, SettleHits, SettleUnknownTag, SettleUnsent, Outstanding,
         BrokerDrops, Held, Decide
<1>4. TagsFresh'
  BY DEF IInv, TypeOK, ProcessError, TagsFresh, Forget, Ended, bounds, Copy,
         Delivered, Task, Stage, Settle, SettleHits, SettleUnknownTag,
         SettleUnsent, Outstanding, BrokerDrops, Held, Decide
<1>5. OwnTag'
  BY DEF IInv, TypeOK, ProcessError, OwnTag, Forget, Ended, bounds, Copy,
         Delivered, Task, Stage, Settle, SettleHits, SettleUnknownTag,
         SettleUnsent, Outstanding, BrokerDrops, Held, Decide
<1>6. NoSilentLoss'
  BY DecideNoSilentLoss DEF ProcessError, Decision
<1>. QED  BY <1>1, <1>2, <1>3, <1>4, <1>5, <1>6 DEF IInv

\* A TypeError in retry() forgets the task and leaves the delivery.
LEMMA RetryThrowsKeeps ==
  ASSUME IInv, TypeOK', NEW w \in Worker, NEW t \in tasks[w], RetryThrows(w, t)
  PROVE  IInv'
<1>1. OnePlace'
  BY DEF IInv, TypeOK, RetryThrows, LeaveUnanswered, OnePlace, Forget, link,
         history, bounds
<1>2. OnlyPublished'
  BY DEF IInv, TypeOK, RetryThrows, LeaveUnanswered, OnlyPublished, Forget,
         link, history, bounds
<1>3. ConsumerIsOriginal'
  BY DEF IInv, TypeOK, RetryThrows, LeaveUnanswered, ConsumerIsOriginal,
         Forget, link, history, bounds
<1>4. TagsFresh'
  BY DEF IInv, TypeOK, RetryThrows, LeaveUnanswered, TagsFresh, Forget, link,
         history, bounds, Copy, Delivered, Task, Stage
<1>5. OwnTag'
  BY DEF IInv, TypeOK, RetryThrows, LeaveUnanswered, OwnTag, Forget, link,
         history, bounds, Copy, Delivered, Task, Stage
<1>6. NoSilentLoss'
  BY DEF IInv, TypeOK, RetryThrows, LeaveUnanswered, NoSilentLoss, Forget,
         link, history, bounds, Live, Held
<1>. QED  BY <1>1, <1>2, <1>3, <1>4, <1>5, <1>6 DEF IInv

\* A spent budget removes the delivery of the message that was decided.
LEMMA RetryDeniedKeeps ==
  ASSUME IInv, TypeOK', NEW w \in Worker, NEW t \in tasks[w], RetryDenied(w, t)
  PROVE  IInv'
<1>1. OnePlace'
  BY SettleOnePlace DEF RetryDenied
<1>2. OnlyPublished'
  BY DEF IInv, TypeOK, RetryDenied, OnlyPublished, Forget, Ended, bounds,
         Settle, SettleHits, SettleUnknownTag, SettleUnsent, Outstanding,
         BrokerDrops, Held, Decide
<1>3. ConsumerIsOriginal'
  BY DEF IInv, TypeOK, RetryDenied, ConsumerIsOriginal, Forget, Ended, bounds,
         Settle, SettleHits, SettleUnknownTag, SettleUnsent, Outstanding,
         BrokerDrops, Held, Decide
<1>4. TagsFresh'
  BY DEF IInv, TypeOK, RetryDenied, TagsFresh, Forget, Ended, bounds, Copy,
         Delivered, Task, Stage, Settle, SettleHits, SettleUnknownTag,
         SettleUnsent, Outstanding, BrokerDrops, Held, Decide
<1>5. OwnTag'
  BY DEF IInv, TypeOK, RetryDenied, OwnTag, Forget, Ended, bounds, Copy,
         Delivered, Task, Stage, Settle, SettleHits, SettleUnknownTag,
         SettleUnsent, Outstanding, BrokerDrops, Held, Decide
<1>6. NoSilentLoss'
  BY DecideNoSilentLoss DEF RetryDenied, Decision
<1>. QED  BY <1>1, <1>2, <1>3, <1>4, <1>5, <1>6 DEF IInv

\* The delayed task is one attempt ahead of its delivery.
LEMMA RetryScheduledKeeps ==
  ASSUME IInv, TypeOK', NEW w \in Worker, NEW t \in tasks[w], RetryScheduled(w, t)
  PROVE  IInv'
<1>1. OnePlace'
  BY DEF IInv, TypeOK, RetryScheduled, OnePlace, Ended, broker, link, history,
         bounds
<1>2. OnlyPublished'
  <2>1. /\ tasks'[w] = (tasks[w] \ {t}) \cup {Incremented(t)}
        /\ \A v \in Worker \ {w} : tasks'[v] = tasks[v]
    BY DEF IInv, TypeOK, RetryScheduled
  <2>2. /\ Incremented(t).tag = t.tag /\ Incremented(t).msg = t.msg
        /\ Incremented(t).attempt = t.attempt + 1
        /\ Incremented(t).stage = "delayed"
    BY IncrementedIsTask DEF IInv, TypeOK, RetryScheduled
  <2>. QED  BY <2>1, <2>2 DEF IInv, OnlyPublished, RetryScheduled, broker
<1>3. ConsumerIsOriginal'
  BY DEF IInv, TypeOK, RetryScheduled, ConsumerIsOriginal, Ended, broker, link,
         history, bounds
<1>4. TagsFresh'
  <2>1. /\ tasks'[w] = (tasks[w] \ {t}) \cup {Incremented(t)}
        /\ \A v \in Worker \ {w} : tasks'[v] = tasks[v]
    BY DEF IInv, TypeOK, RetryScheduled
  <2>2. /\ Incremented(t).tag = t.tag /\ Incremented(t).msg = t.msg
        /\ Incremented(t).attempt = t.attempt + 1
        /\ Incremented(t).stage = "delayed"
    BY IncrementedIsTask DEF IInv, TypeOK, RetryScheduled
  <2>. QED  BY <2>1, <2>2 DEF IInv, TypeOK, TagsFresh, RetryScheduled, broker, link
<1>5. OwnTag'
  <2>1. /\ tasks'[w] = (tasks[w] \ {t}) \cup {Incremented(t)}
        /\ \A v \in Worker \ {w} : tasks'[v] = tasks[v]
    BY DEF IInv, TypeOK, RetryScheduled
  <2>2. /\ Incremented(t).tag = t.tag /\ Incremented(t).msg = t.msg
        /\ Incremented(t).attempt = t.attempt + 1
        /\ Incremented(t).stage = "delayed"
    BY IncrementedIsTask DEF IInv, TypeOK, RetryScheduled
  <2>3. t.stage # "delayed" /\ t.attempt \in Int
    BY RetryLimitAssumption DEF IInv, TypeOK, RetryScheduled, Ended, Task
  <2>. QED  BY <2>1, <2>2, <2>3 DEF IInv, TypeOK, OwnTag, RetryScheduled, broker, Delivered, Copy
<1>6. NoSilentLoss'
  BY DEF IInv, TypeOK, RetryScheduled, NoSilentLoss, Ended, broker, link,
         history, bounds, Live, Held
<1>. QED  BY <1>1, <1>2, <1>3, <1>4, <1>5, <1>6 DEF IInv

\* The nack removes the very copy whose successor is published.
LEMMA RepublishKeeps ==
  ASSUME IInv, TypeOK', NEW w \in Worker, NEW t \in tasks[w], Republish(w, t)
  PROVE  IInv'
<1>1. OnePlace'
  <2>1. PICK d0 \in unacked[w] : d0.tag = t.tag
    BY DEF Republish, Outstanding
  <2>2. d0.copy.msg = t.msg
    BY <2>1 DEF IInv, OwnTag
  <2>3. NewCopy(t.msg, t.attempt).msg = t.msg
    BY NewCopyIsCopy DEF IInv, TypeOK, Task, Republish
  <2>4. /\ ready' = ready \cup {NewCopy(t.msg, t.attempt)}
        /\ unacked'[w] = unacked[w] \ {d0}
        /\ \A v \in Worker \ {w} : unacked'[v] = unacked[v]
    BY <2>1 DEF IInv, TypeOK, TagsFresh, Republish
  <2>5. \A c \in ready : c.msg # t.msg
    BY <2>2 DEF IInv, OnePlace
  <2>6. \A v \in Worker : \A d \in unacked'[v] : d \in unacked[v] /\ d.copy.msg # t.msg
    BY <2>2, <2>4 DEF IInv, OnePlace
  <2>. QED  BY <2>3, <2>4, <2>5, <2>6 DEF IInv, OnePlace
<1>2. OnlyPublished'
  BY DEF IInv, TypeOK, Republish, OnlyPublished, Forget, link, history, bounds,
         NewCopy, Outstanding, DelayOver
<1>3. ConsumerIsOriginal'
  BY DEF IInv, TypeOK, Republish, ConsumerIsOriginal, Forget, link, history,
         bounds, NewCopy, Outstanding, DelayOver
<1>4. TagsFresh'
  BY DEF IInv, TypeOK, Republish, TagsFresh, Forget, link, history, bounds,
         Copy, Delivered, Task, Stage, NewCopy, Outstanding, DelayOver
<1>5. OwnTag'
  BY DEF IInv, TypeOK, Republish, OwnTag, Forget, link, history, bounds, Copy,
         Delivered, Task, Stage, NewCopy, Outstanding, DelayOver
<1>6. NoSilentLoss'
  <2>1. PICK d0 \in unacked[w] : d0.tag = t.tag
    BY DEF Republish, Outstanding
  <2>2. d0.copy.msg = t.msg
    BY <2>1 DEF IInv, OwnTag
  <2>3. NewCopy(t.msg, t.attempt).msg = t.msg
    BY NewCopyIsCopy DEF IInv, TypeOK, Task, Republish
  <2>4. /\ ready' = ready \cup {NewCopy(t.msg, t.attempt)}
        /\ unacked'[w] = unacked[w] \ {d0}
        /\ \A v \in Worker \ {w} : unacked'[v] = unacked[v]
    BY <2>1 DEF IInv, TypeOK, TagsFresh, Republish
  <2>5. \A c \in Live : c \in Live' \/ c.msg = t.msg
    BY <2>2, <2>4 DEF Live, Held
  <2>6. \E c \in Live' : c.msg = t.msg
    BY <2>3, <2>4 DEF Live
  <2>. QED  BY <2>5, <2>6 DEF IInv, NoSilentLoss, Republish, history
<1>. QED  BY <1>1, <1>2, <1>3, <1>4, <1>5, <1>6 DEF IInv

\* The nack's copy goes, the other outstanding ones return to the queue.
LEMMA RepublishCutShortKeeps ==
  ASSUME IInv, TypeOK', NEW w \in Worker, NEW t \in tasks[w], RepublishCutShort(w, t)
  PROVE  IInv'
<1>1. OnePlace'
  <2>1. PICK d0 \in unacked[w] : d0.tag = t.tag
    BY DEF RepublishCutShort, Outstanding
  <2>2. d0.copy.msg = t.msg
    BY <2>1 DEF IInv, OwnTag
  <2>3. /\ ready' = ready \cup {d.copy : d \in {e \in unacked[w] : e.tag # t.tag}}
        /\ unacked'[w] = {}
        /\ \A v \in Worker \ {w} : unacked'[v] = unacked[v]
    BY DEF IInv, TypeOK, RepublishCutShort
  <2>4. \A c \in ready' : c \in ready \/ \E d \in unacked[w] : c = d.copy
    BY <2>3
  <2>. QED  BY <2>3, <2>4 DEF IInv, OnePlace
<1>2. OnlyPublished'
  BY DEF IInv, TypeOK, RepublishCutShort, OnlyPublished, Forget, Outstanding,
         DelayOver
<1>3. ConsumerIsOriginal'
  BY DEF IInv, TypeOK, RepublishCutShort, ConsumerIsOriginal, Forget,
         Outstanding, DelayOver
<1>4. TagsFresh'
  BY DEF IInv, TypeOK, RepublishCutShort, TagsFresh, Forget, Copy, Delivered,
         Task, Stage, Outstanding, DelayOver
<1>5. OwnTag'
  BY DEF IInv, TypeOK, RepublishCutShort, OwnTag, Forget, Copy, Delivered,
         Task, Stage, Outstanding, DelayOver
<1>6. NoSilentLoss'
  <2>1. PICK d0 \in unacked[w] : d0.tag = t.tag
    BY DEF RepublishCutShort, Outstanding
  <2>2. d0.copy.msg = t.msg
    BY <2>1 DEF IInv, OwnTag
  <2>3. /\ ready' = ready \cup {d.copy : d \in {e \in unacked[w] : e.tag # t.tag}}
        /\ unacked'[w] = {}
        /\ \A v \in Worker \ {w} : unacked'[v] = unacked[v]
    BY DEF IInv, TypeOK, RepublishCutShort
  <2>4. \A d \in unacked[w] : d.tag = t.tag => d = d0
    BY <2>1 DEF IInv, TagsFresh
  <2>5. \A c \in Live : c \in Live' \/ c.msg = t.msg
    BY <2>2, <2>3, <2>4 DEF Live, Held
  <2>6. t.msg \in gapLost'
    BY DEF RepublishCutShort
  <2>. QED  BY <2>5, <2>6 DEF IInv, NoSilentLoss, RepublishCutShort
<1>. QED  BY <1>1, <1>2, <1>3, <1>4, <1>5, <1>6 DEF IInv

\* A refused nack removes nothing, and nothing is published.
LEMMA RepublishRefusedKeeps ==
  ASSUME IInv, TypeOK', NEW w \in Worker, NEW t \in tasks[w], RepublishRefused(w, t)
  PROVE  IInv'
<1>1. OnePlace'
  BY SettleOnePlace DEF RepublishRefused, Settle
<1>2. OnlyPublished'
  BY DEF IInv, TypeOK, RepublishRefused, OnlyPublished, Forget, history,
         bounds, Settle, SettleHits, SettleUnknownTag, SettleUnsent,
         Outstanding, BrokerDrops, Held, Decide, DelayOver
<1>3. ConsumerIsOriginal'
  BY DEF IInv, TypeOK, RepublishRefused, ConsumerIsOriginal, Forget, history,
         bounds, Settle, SettleHits, SettleUnknownTag, SettleUnsent,
         Outstanding, BrokerDrops, Held, Decide, DelayOver
<1>4. TagsFresh'
  BY DEF IInv, TypeOK, RepublishRefused, TagsFresh, Forget, history, bounds,
         Copy, Delivered, Task, Stage, Settle, SettleHits, SettleUnknownTag,
         SettleUnsent, Outstanding, BrokerDrops, Held, Decide, DelayOver
<1>5. OwnTag'
  BY DEF IInv, TypeOK, RepublishRefused, OwnTag, Forget, history, bounds, Copy,
         Delivered, Task, Stage, Settle, SettleHits, SettleUnknownTag,
         SettleUnsent, Outstanding, BrokerDrops, Held, Decide, DelayOver
<1>6. NoSilentLoss'
  <2>1. Live \subseteq Live'
    BY DropsKeepLive DEF IInv, RepublishRefused, SettleUnknownTag, SettleUnsent, Live, Held
  <2>. QED  BY <2>1 DEF IInv, NoSilentLoss, RepublishRefused, history
<1>. QED  BY <1>1, <1>2, <1>3, <1>4, <1>5, <1>6 DEF IInv

-----------------------------------------------------------------------------
(* The theorems *)

LEMMA IInvInit == Init => IInv
BY TypeInit
   DEF Init, IInv, OnePlace, OnlyPublished, ConsumerIsOriginal, TagsFresh, OwnTag,
       NoSilentLoss

\* Every step keeps the invariant: one lemma above for each action.
LEMMA IInvStep == IInv /\ [Next]_vars => IInv'
<1>. SUFFICES ASSUME IInv, [Next]_vars PROVE IInv'
  OBVIOUS
<1>0. TypeOK'
  BY TypeStep DEF IInv
<1>1. ASSUME NEW m \in Msg, Publish(m) PROVE IInv'
  BY <1>0, <1>1, PublishKeeps
<1>2. ASSUME NEW w \in Worker, LinkStep(w) PROVE IInv'
  BY <1>0, <1>2, ConnectionLostKeeps, NoticeCloseKeeps, RecoveredKeeps DEF LinkStep
<1>3. ASSUME NEW w \in Worker, ProcessStep(w) PROVE IInv'
  BY <1>0, <1>3, StartAppKeeps, LimitMessagesInMemoryKeeps, SubscribeKeeps, CrashKeeps
     DEF ProcessStep
<1>4. ASSUME NEW w \in Worker, NEW c \in ready, Deliver(w, c) PROVE IInv'
  BY <1>0, <1>4, DeliverKeeps
<1>5. ASSUME NEW w \in Worker, NEW t \in tasks[w], TaskStep(w, t) PROVE IInv'
  BY <1>0, <1>5, ExecuteCallbackKeeps, ProcessTrueKeeps, ProcessFalseKeeps,
     ProcessErrorKeeps, RetryThrowsKeeps, RetryDeniedKeeps, RetryScheduledKeeps,
     RepublishKeeps, RepublishCutShortKeeps, RepublishRefusedKeeps
     DEF TaskStep, Return, Retry, RetryDue
<1>6. CASE UNCHANGED vars
  BY <1>6 DEF vars, broker, link, history, bounds, IInv, TypeOK, OnePlace,
              OnlyPublished, ConsumerIsOriginal, TagsFresh, OwnTag, NoSilentLoss,
              Live, Held
<1>. QED  BY <1>1, <1>2, <1>3, <1>4, <1>5, <1>6 DEF Next

\* The inductive invariant holds in every reachable state.
THEOREM InductiveInvariant == Spec => []IInv
BY IInvInit, IInvStep, PTL DEF Spec

\* Whatever is retried, requeued or acknowledged late, by however many
\* workers, the broker never stores two copies of one message.
THEOREM OneCopyHolds == Spec => []OneCopy
<1>1. IInv => OneCopy
  BY DEF IInv, OnePlace, OneCopy, Live, Held
<1>. QED  BY <1>1, InductiveInvariant, PTL

\* A published message leaves the broker only once consume() has finished
\* with it, or in the gap of a retry that a lost connection cut short.
THEOREM NoSilentLossHolds == Spec => []NoSilentLoss
<1>1. IInv => NoSilentLoss
  BY DEF IInv
<1>. QED  BY <1>1, InductiveInvariant, PTL

\* Whichever channel is active when a task answers, its delivery tag names
\* the task's own delivery or none.
THEOREM OwnTagHolds == Spec => []OwnTag
<1>1. IInv => OwnTag
  BY DEF IInv
<1>. QED  BY <1>1, InductiveInvariant, PTL

-----------------------------------------------------------------------------
(* What a worker holds in memory.  The broker counts deliveries, never     *)
(* tasks: a worker stays within the prefetch count because, while it is    *)
(* subscribed, each of its tasks has an outstanding delivery of its own,   *)
(* and because no delivery ever comes on a channel that replaced another.  *)

\* A worker with these tasks and these deliveries, subscribed or not.
WithinPrefetch(held, outstanding, subscribed) ==
  /\ IsFiniteSet(held) /\ Cardinality(held) <= Prefetch
  /\ IsFiniteSet(outstanding) /\ Cardinality(outstanding) <= Prefetch
  /\ \A t1, t2 \in held : t1.tag = t2.tag => t1 = t2
  /\ subscribed => \A t \in held : \E d \in outstanding : d.tag = t.tag

MemoryInv == \A w \in Worker : WithinPrefetch(tasks[w], unacked[w], consuming[w])

\* Only this worker's memory and channel are touched.
OnlyAt(w) ==
  \A v \in Worker \ {w} :
    /\ tasks'[v] = tasks[v]
    /\ unacked'[v] = unacked[v]
    /\ consuming'[v] = consuming[v]

\* It is enough to look at the worker that acts.
LEMMA MemoryInvAt ==
  ASSUME MemoryInv, NEW w \in Worker, OnlyAt(w),
         WithinPrefetch(tasks'[w], unacked'[w], consuming'[w])
  PROVE  MemoryInv'
<1>. SUFFICES ASSUME NEW v \in Worker
              PROVE  WithinPrefetch(tasks'[v], unacked'[v], consuming'[v])
  BY DEF MemoryInv, WithinPrefetch
<1>1. CASE v = w
  BY <1>1
<1>2. CASE v # w
  BY <1>2 DEF MemoryInv, OnlyAt
<1>. QED  BY <1>1, <1>2

\* Tasks and deliveries may go, as long as no subscribed task loses its own.
LEMMA FewerFits ==
  ASSUME NEW T, NEW U, NEW s, WithinPrefetch(T, U, s),
         NEW T2 \in SUBSET T, NEW U2 \in SUBSET U, NEW s2,
         s2 => \A t \in T2 : \E d \in U2 : d.tag = t.tag
  PROVE  WithinPrefetch(T2, U2, s2)
<1>1. /\ IsFiniteSet(T2) /\ Cardinality(T2) <= Cardinality(T)
      /\ IsFiniteSet(U2) /\ Cardinality(U2) <= Cardinality(U)
  BY FS_Subset DEF WithinPrefetch
<1>2. /\ Cardinality(T) \in Nat /\ Cardinality(T2) \in Nat
      /\ Cardinality(U) \in Nat /\ Cardinality(U2) \in Nat
  BY <1>1, FS_CardinalityType DEF WithinPrefetch
<1>3. Cardinality(T2) <= Prefetch /\ Cardinality(U2) <= Prefetch
  BY <1>1, <1>2, PrefetchAssumption DEF WithinPrefetch
<1>. QED  BY <1>1, <1>3 DEF WithinPrefetch

\* A task may be replaced by one that answers with the same tag.
LEMMA RestagedFits ==
  ASSUME NEW T, NEW U, NEW s, WithinPrefetch(T, U, s),
         NEW t \in T, NEW u, u.tag = t.tag
  PROVE  WithinPrefetch((T \ {t}) \cup {u}, U, s)
<1>. DEFINE rest == T \ {t}
<1>1. IsFiniteSet(rest) /\ Cardinality(rest) = Cardinality(T) - 1
  BY FS_RemoveElement DEF WithinPrefetch
<1>2. u \notin rest
  BY DEF WithinPrefetch
<1>3. /\ IsFiniteSet(rest \cup {u})
      /\ Cardinality(rest \cup {u}) = Cardinality(rest) + 1
  BY <1>1, <1>2, FS_AddElement
<1>4. Cardinality(T) \in Nat
  BY FS_CardinalityType DEF WithinPrefetch
<1>5. Cardinality(rest \cup {u}) <= Prefetch
  BY <1>1, <1>3, <1>4 DEF WithinPrefetch
<1>6. \A t1, t2 \in rest \cup {u} : t1.tag = t2.tag => t1 = t2
  BY DEF WithinPrefetch
<1>7. s => \A x \in rest \cup {u} : \E d \in U : d.tag = x.tag
  BY DEF WithinPrefetch
<1>. QED  BY <1>3, <1>5, <1>6, <1>7 DEF WithinPrefetch

\* Tasks with deliveries of their own are no more than the deliveries.
LEMMA NoMoreThanOutstanding ==
  ASSUME NEW T, NEW U, IsFiniteSet(U),
         \A t1, t2 \in T : t1.tag = t2.tag => t1 = t2,
         \A t \in T : \E d \in U : d.tag = t.tag
  PROVE  IsFiniteSet(T) /\ Cardinality(T) <= Cardinality(U)
<1>. DEFINE own == [t \in T |-> CHOOSE d \in U : d.tag = t.tag]
<1>1. \A t \in T : own[t] \in U /\ own[t].tag = t.tag
  OBVIOUS
<1>2. own \in [T -> U]
  BY <1>1
<1>3. \A t1, t2 \in T : own[t1] = own[t2] => t1 = t2
  BY <1>1
<1>4. own \in Injection(T, U)
  BY <1>2, <1>3 DEF Injection, IsInjective
<1>. QED  BY <1>4, FS_Injection

\* A delivery below the limit, with a tag no task has, brings one task.
LEMMA DeliveredFits ==
  ASSUME NEW T, NEW U, WithinPrefetch(T, U, TRUE), Cardinality(U) < Prefetch,
         NEW t, NEW d, d.tag = t.tag, \A x \in T : x.tag # t.tag
  PROVE  WithinPrefetch(T \cup {t}, U \cup {d}, TRUE)
<1>1. IsFiniteSet(U) /\ Cardinality(U) \in Nat
  BY FS_CardinalityType DEF WithinPrefetch
<1>2. /\ IsFiniteSet(U \cup {d})
      /\ Cardinality(U \cup {d}) = IF d \in U THEN Cardinality(U) ELSE Cardinality(U) + 1
  BY <1>1, FS_AddElement
<1>3. Cardinality(U \cup {d}) \in Nat /\ Cardinality(U \cup {d}) <= Prefetch
  BY <1>1, <1>2, PrefetchAssumption
<1>4. \A t1, t2 \in T \cup {t} : t1.tag = t2.tag => t1 = t2
  BY DEF WithinPrefetch
<1>5. \A x \in T \cup {t} : \E e \in U \cup {d} : e.tag = x.tag
  BY DEF WithinPrefetch
<1>6. IsFiniteSet(T \cup {t}) /\ Cardinality(T \cup {t}) <= Cardinality(U \cup {d})
  BY <1>2, <1>4, <1>5, NoMoreThanOutstanding
<1>7. Cardinality(T \cup {t}) \in Nat
  BY <1>6, FS_CardinalityType
<1>8. Cardinality(T \cup {t}) <= Prefetch
  BY <1>3, <1>6, <1>7, PrefetchAssumption
<1>. QED  BY <1>2, <1>3, <1>4, <1>5, <1>6, <1>8 DEF WithinPrefetch

\* A channel the broker drops has no subscription to keep up with.
LEMMA DropsFit ==
  ASSUME IInv, MemoryInv, NEW w \in Worker,
         OnlyAt(w), tasks'[w] \subseteq tasks[w], unacked'[w] = {}, ~consuming'[w]
  PROVE  MemoryInv'
<1>1. WithinPrefetch(tasks'[w], unacked'[w], consuming'[w])
  BY FewerFits DEF MemoryInv
<1>. QED  BY <1>1, MemoryInvAt

\* A task leaves with its own delivery at most: the others keep theirs.
LEMMA AnswerFits ==
  ASSUME IInv, MemoryInv, NEW w \in Worker, NEW t \in tasks[w],
         OnlyAt(w), tasks'[w] = tasks[w] \ {t}, consuming'[w] = consuming[w],
         \/ unacked'[w] = unacked[w]
         \/ unacked'[w] = {d \in unacked[w] : d.tag # t.tag}
  PROVE  MemoryInv'
<1>1. WithinPrefetch(tasks[w], unacked[w], consuming[w])
  BY DEF MemoryInv
<1>2. \A x \in tasks'[w] : x \in tasks[w] /\ x.tag # t.tag
  BY <1>1 DEF WithinPrefetch
<1>3. consuming'[w] => \A x \in tasks'[w] : \E d \in unacked'[w] : d.tag = x.tag
  BY <1>1, <1>2 DEF WithinPrefetch
<1>4. tasks'[w] \subseteq tasks[w] /\ unacked'[w] \subseteq unacked[w]
  OBVIOUS
<1>5. WithinPrefetch(tasks'[w], unacked'[w], consuming'[w])
  BY <1>1, <1>3, <1>4, FewerFits
<1>. QED  BY <1>5, MemoryInvAt

\* However the broker takes an ack or a nack.
LEMMA SettleFits ==
  ASSUME IInv, MemoryInv, NEW w \in Worker, NEW t \in tasks[w],
         Settle(w, t), Forget(w, t)
  PROVE  MemoryInv'
<1>1. CASE SettleHits(w, t)
  <2>1. /\ OnlyAt(w) /\ tasks'[w] = tasks[w] \ {t} /\ consuming'[w] = consuming[w]
        /\ unacked'[w] = {d \in unacked[w] : d.tag # t.tag}
    BY <1>1 DEF IInv, TypeOK, SettleHits, Forget, OnlyAt
  <2>. QED  BY <2>1, AnswerFits
<1>2. CASE SettleUnknownTag(w, t)
  <2>1. /\ OnlyAt(w) /\ tasks'[w] \subseteq tasks[w]
        /\ unacked'[w] = {} /\ ~consuming'[w]
    BY <1>2 DEF IInv, TypeOK, SettleUnknownTag, BrokerDrops, Forget, OnlyAt
  <2>. QED  BY <2>1, DropsFit
<1>3. CASE SettleUnsent(w, t)
  <2>1. /\ OnlyAt(w) /\ tasks'[w] = tasks[w] \ {t} /\ consuming'[w] = consuming[w]
        /\ unacked'[w] = unacked[w]
    BY <1>3 DEF IInv, TypeOK, SettleUnsent, Forget, OnlyAt
  <2>. QED  BY <2>1, AnswerFits
<1>. QED  BY <1>1, <1>2, <1>3 DEF Settle

\* The steps of the broker's connection and of the process.
LEMMA ProcessStepFits ==
  ASSUME IInv, MemoryInv, NEW w \in Worker, LinkStep(w) \/ ProcessStep(w)
  PROVE  MemoryInv'
<1>1. CASE ConnectionLost(w)
  <2>1. /\ OnlyAt(w) /\ tasks'[w] \subseteq tasks[w]
        /\ unacked'[w] = {} /\ ~consuming'[w]
    BY <1>1 DEF IInv, TypeOK, ConnectionLost, BrokerDrops, OnlyAt
  <2>. QED  BY <2>1, DropsFit
<1>2. CASE Crash(w)
  <2>1. /\ OnlyAt(w) /\ tasks'[w] \subseteq tasks[w]
        /\ unacked'[w] = {} /\ ~consuming'[w]
    BY <1>2 DEF IInv, TypeOK, Crash, BrokerDrops, OnlyAt
  <2>. QED  BY <2>1, DropsFit
<1>3. CASE Subscribe(w)
  <2>1. /\ OnlyAt(w) /\ tasks'[w] = tasks[w] /\ unacked'[w] = unacked[w]
        /\ consuming'[w] = TRUE /\ tasks[w] = {}
    BY <1>3 DEF IInv, TypeOK, ConsumerIsOriginal, Subscribe, OnlyAt
  <2>2. WithinPrefetch(tasks'[w], unacked'[w], consuming'[w])
    BY <2>1, FewerFits DEF MemoryInv
  <2>. QED  BY <2>1, <2>2, MemoryInvAt
<1>4. CASE NoticeClose(w) \/ Recovered(w) \/ StartApp(w) \/ LimitMessagesInMemory(w)
  <2>1. UNCHANGED <<tasks, unacked, consuming>>
    BY <1>4 DEF NoticeClose, Recovered, StartApp, LimitMessagesInMemory, broker
  <2>. QED  BY <2>1 DEF MemoryInv
<1>. QED  BY <1>1, <1>2, <1>3, <1>4 DEF LinkStep, ProcessStep

\* The broker pushes only below the prefetch count, under a fresh tag.
LEMMA DeliverFits ==
  ASSUME IInv, MemoryInv, NEW w \in Worker, NEW c \in ready, Deliver(w, c)
  PROVE  MemoryInv'
<1>. DEFINE d0 == [tag |-> nextTag[w], copy |-> c]
            t0 == [tag |-> nextTag[w], gen |-> gen[w], msg |-> c.msg,
                   attempt |-> c.attempt, stage |-> "throttled"]
<1>1. /\ OnlyAt(w) /\ consuming'[w] = TRUE /\ consuming[w] = TRUE
      /\ tasks'[w] = tasks[w] \cup {t0} /\ unacked'[w] = unacked[w] \cup {d0}
      /\ Cardinality(unacked[w]) < Prefetch
  BY DEF IInv, TypeOK, Deliver, OnlyAt
<1>2. \A x \in tasks[w] : x.tag # t0.tag
  <2>1. nextTag[w] \in Nat /\ tasks[w] \subseteq Task
    BY DEF IInv, TypeOK
  <2>. QED  BY <1>1, <2>1 DEF IInv, TagsFresh, Task
<1>3. WithinPrefetch(tasks[w], unacked[w], TRUE)
  BY <1>1 DEF MemoryInv
<1>4. d0.tag = t0.tag
  OBVIOUS
<1>5. WithinPrefetch(tasks[w] \cup {t0}, unacked[w] \cup {d0}, TRUE)
  <2>. HIDE DEF d0, t0
  <2>. QED  BY <1>1, <1>2, <1>3, <1>4, DeliveredFits
<1>. QED  BY <1>1, <1>5, MemoryInvAt

\* The steps of a task: it changes its stage, is answered, or comes back.
LEMMA TaskStepFits ==
  ASSUME IInv, MemoryInv, NEW w \in Worker, NEW t \in tasks[w], TaskStep(w, t)
  PROVE  MemoryInv'
<1>1. CASE ExecuteCallback(w, t) \/ RetryScheduled(w, t)
  <2>1. PICK u : /\ u.tag = t.tag
                 /\ tasks' = [tasks EXCEPT ![w] = (@ \ {t}) \cup {u}]
                 /\ unacked' = unacked /\ consuming' = consuming
    <3>1. t \in Task
      BY DEF IInv, TypeOK
    <3>2. CASE ExecuteCallback(w, t)
      <4>1. [t EXCEPT !.stage = "running"].tag = t.tag
        BY <3>1 DEF Task
      <4>. QED  BY <3>2, <4>1 DEF ExecuteCallback, broker
    <3>3. CASE RetryScheduled(w, t)
      <4>1. Incremented(t).tag = t.tag
        BY <3>1, <3>3, IncrementedIsTask DEF RetryScheduled
      <4>. QED  BY <3>3, <4>1 DEF RetryScheduled, broker
    <3>. QED  BY <1>1, <3>2, <3>3
  <2>2. /\ OnlyAt(w) /\ tasks'[w] = (tasks[w] \ {t}) \cup {u}
        /\ unacked'[w] = unacked[w] /\ consuming'[w] = consuming[w]
    BY <2>1 DEF IInv, TypeOK, OnlyAt
  <2>3. WithinPrefetch((tasks[w] \ {t}) \cup {u}, unacked[w], consuming[w])
    BY <2>1, RestagedFits DEF MemoryInv
  <2>. QED  BY <2>2, <2>3, MemoryInvAt
<1>2. CASE ProcessFalse(w, t) \/ RetryThrows(w, t)
  <2>1. /\ OnlyAt(w) /\ tasks'[w] = tasks[w] \ {t} /\ consuming'[w] = consuming[w]
        /\ unacked'[w] = unacked[w]
    BY <1>2 DEF IInv, TypeOK, ProcessFalse, RetryThrows, LeaveUnanswered,
                Forget, OnlyAt
  <2>. QED  BY <2>1, AnswerFits
<1>3. CASE \/ ProcessTrue(w, t) \/ ProcessError(w, t)
           \/ RetryDenied(w, t) \/ RepublishRefused(w, t)
  <2>1. Settle(w, t) /\ Forget(w, t)
    BY <1>3 DEF ProcessTrue, ProcessError, RetryDenied, RepublishRefused, Settle
  <2>. QED  BY <2>1, SettleFits
<1>4. CASE Republish(w, t)
  <2>1. /\ OnlyAt(w) /\ tasks'[w] = tasks[w] \ {t} /\ consuming'[w] = consuming[w]
        /\ unacked'[w] = {d \in unacked[w] : d.tag # t.tag}
    BY <1>4 DEF IInv, TypeOK, Republish, Forget, OnlyAt
  <2>. QED  BY <2>1, AnswerFits
<1>5. CASE RepublishCutShort(w, t)
  <2>1. /\ OnlyAt(w) /\ tasks'[w] \subseteq tasks[w]
        /\ unacked'[w] = {} /\ ~consuming'[w]
    BY <1>5 DEF IInv, TypeOK, RepublishCutShort, Forget, OnlyAt
  <2>. QED  BY <2>1, DropsFit
<1>. QED  BY <1>1, <1>2, <1>3, <1>4, <1>5 DEF TaskStep, Return, Retry, RetryDue

LEMMA MemoryInvInit == Init => MemoryInv
<1>. SUFFICES ASSUME Init, NEW w \in Worker
              PROVE  WithinPrefetch(tasks[w], unacked[w], consuming[w])
  BY DEF MemoryInv
<1>1. tasks[w] = {} /\ unacked[w] = {}
  BY DEF Init
<1>2. IsFiniteSet({}) /\ Cardinality({}) = 0
  BY FS_EmptySet
<1>. QED  BY <1>1, <1>2, PrefetchAssumption DEF WithinPrefetch

LEMMA MemoryInvStep == IInv /\ MemoryInv /\ [Next]_vars => MemoryInv'
<1>. SUFFICES ASSUME IInv, MemoryInv, [Next]_vars PROVE MemoryInv'
  OBVIOUS
<1>1. ASSUME NEW m \in Msg, Publish(m) PROVE MemoryInv'
  BY <1>1 DEF Publish, MemoryInv
<1>2. CASE UNCHANGED vars
  BY <1>2 DEF vars, broker, MemoryInv
<1>. QED  BY <1>1, <1>2, ProcessStepFits, DeliverFits, TaskStepFits DEF Next

\* However many deliveries, lost channels and retries there are, no worker
\* ever holds more than Prefetch of them in memory: neither the throttle's
\* queue nor the retries that InMemoryRetryDelayer keeps can grow further.
THEOREM MemoryBoundedHolds == Spec => []MemoryBounded
<1>1. MemoryInv => MemoryBounded
  BY DEF MemoryInv, WithinPrefetch, MemoryBounded
<1>. QED  BY <1>1, InductiveInvariant, MemoryInvInit, MemoryInvStep, PTL DEF Spec

=============================================================================
