-------------------------- MODULE RedisRetryProofs --------------------------
(* Theorems about RedisRetry, for every number of messages, deliveries held *)
(* at once, retries, members read at once and faults.                       *)
EXTENDS RedisRetry, FiniteSetTheorems, SequenceTheorems, TLAPS

-----------------------------------------------------------------------------
(* Sequences and bags *)

\* In a sequence without repetitions the first place of an element is its only one.
LEMMA FirstPlace ==
  ASSUME NEW S, NEW q \in Seq(S), IsInjective(q), NEW k \in 1..Len(q)
  PROVE  RemoveFirst(q, q[k]) = RemoveAt(q, k)
<1> DEFINE I == {j \in 1..Len(q) : q[j] = q[k]}
<1>1. I = {k}
  BY DEF IsInjective
<1>2. SelectInSeq(q, LAMBDA v : v = q[k]) = Min(I)
  BY <1>1 DEF SelectInSeq
<1>3. Min(I) = k
  BY <1>1 DEF Min
<1> QED
  BY <1>2, <1>3 DEF RemoveFirst

\* Removing at a place drops what is there and repeats nothing.
LEMMA RemovedAt ==
  ASSUME NEW S, NEW q \in Seq(S), IsInjective(q), NEW k \in 1..Len(q)
  PROVE  /\ RemoveAt(q, k) \in Seq(S)
         /\ IsInjective(RemoveAt(q, k))
         /\ Range(RemoveAt(q, k)) = Range(q) \ {q[k]}
<1> DEFINE r == RemoveAt(q, k)
<1> DEFINE x == SubSeq(q, 1, k - 1)
           y == SubSeq(q, k + 1, Len(q))
<1>1. r = x \o y
  BY DEF RemoveAt
<1>2. x \in Seq(S) /\ Len(x) = k - 1 /\ \A j \in 1..(k - 1) : x[j] = q[j]
  BY SubSeqProperties
<1>3. y \in Seq(S) /\ Len(y) = Len(q) - k /\ \A j \in 1..(Len(q) - k) : y[j] = q[k + j]
  BY SubSeqProperties
<1> HIDE DEF x, y
<1>4. r \in Seq(S) /\ Len(r) = Len(q) - 1
  BY <1>1, <1>2, <1>3
<1>5. \A j \in 1..Len(r) : r[j] = IF j < k THEN q[j] ELSE q[j + 1]
  <2>1. \A j \in 1..Len(r) : r[j] = IF j <= Len(x) THEN x[j] ELSE y[j - Len(x)]
    BY <1>1, <1>2, <1>3
  <2>. QED  BY <2>1, <1>4, <1>2, <1>3
<1> HIDE DEF r
<1>6. DOMAIN r = 1..Len(r) /\ DOMAIN q = 1..Len(q)
  BY <1>4
<1>7. IsInjective(r)
  <2>1. SUFFICES ASSUME NEW a \in 1..Len(r), NEW b \in 1..Len(r), r[a] = r[b]
                 PROVE  a = b
    BY <1>6 DEF IsInjective
  <2> QED
    <3>1. q \in [1..Len(q) -> S] /\ Len(q) \in Nat
      BY LenProperties
    <3> DEFINE oa == IF a < k THEN a ELSE a + 1
                ob == IF b < k THEN b ELSE b + 1
    <3>3. oa \in 1..Len(q) /\ ob \in 1..Len(q) /\ q[oa] = q[ob]
      BY <1>4, <1>5, <2>1, <3>1
    <3>4. oa = ob
      BY <3>3, <1>6 DEF IsInjective
    <3> QED BY <3>4
<1>8. Range(r) \subseteq Range(q) \ {q[k]}
  <2>1. SUFFICES ASSUME NEW a \in 1..Len(r) PROVE r[a] \in Range(q) \ {q[k]}
    BY <1>6 DEF Range
  <2> QED
    <3> DEFINE oa == IF a < k THEN a ELSE a + 1
    <3>3. oa \in 1..Len(q) /\ r[a] = q[oa] /\ oa # k
      BY <1>4, <1>5
    <3>4. q[oa] # q[k]
      BY <3>3, <1>6 DEF IsInjective
    <3> QED BY <3>3, <3>4, <1>6 DEF Range
<1>9. Range(q) \ {q[k]} \subseteq Range(r)
  <2>1. SUFFICES ASSUME NEW a \in 1..Len(q), a # k PROVE q[a] \in Range(r)
    BY <1>6 DEF Range
  <2>2. CASE a < k
    BY <1>4, <1>5, <1>6, <2>2 DEF Range
  <2>3. CASE a > k
    <3>1. a - 1 \in 1..Len(r) /\ r[a - 1] = q[a]
      BY <1>4, <1>5, <2>3
    <3> QED BY <3>1, <1>6 DEF Range
  <2> QED BY <2>1, <2>2, <2>3
<1> QED
  BY <1>4, <1>7, <1>8, <1>9 DEF r

\* What a zadd or a zrem does to the due members: the member leaves, the others
\* stay, once each.
LEMMA RemovedFirst ==
  ASSUME NEW S, NEW q \in Seq(S), IsInjective(q), NEW e
  PROVE  /\ RemoveFirst(q, e) \in Seq(S)
         /\ IsInjective(RemoveFirst(q, e))
         /\ Range(RemoveFirst(q, e)) = Range(q) \ {e}
<1>1. CASE \E k \in 1..Len(q) : q[k] = e
  <2>1. PICK k \in 1..Len(q) : q[k] = e
    BY <1>1
  <2> QED BY <2>1, FirstPlace, RemovedAt
<1>2. CASE ~ \E k \in 1..Len(q) : q[k] = e
  <2>1. RemoveFirst(q, e) = q
    BY <1>2 DEF RemoveFirst
  <2> QED BY <1>2, <2>1 DEF Range
<1> QED BY <1>1, <1>2

\* How many copies of i bag q holds.
CountIn(i, q) == IF i \in DOMAIN q THEN q[i] ELSE 0

\* Putting one bag into another adds what they hold.
LEMMA BagsAdded ==
  ASSUME NEW p, NEW q, IsABag(p), IsABag(q)
  PROVE  /\ IsABag(p (+) q)
         /\ BagToSet(p (+) q) = BagToSet(p) \cup BagToSet(q)
         /\ \A i : CountIn(i, p (+) q) = CountIn(i, p) + CountIn(i, q)
<1>1. p (+) q = [i \in DOMAIN p \cup DOMAIN q |-> CountIn(i, p) + CountIn(i, q)]
  BY DEF \oplus, CountIn
<1>2. ASSUME NEW i \in DOMAIN p \cup DOMAIN q
      PROVE  CountIn(i, p) + CountIn(i, q) \in {n \in Nat : n > 0}
  BY <1>2 DEF IsABag, CountIn
<1>3. IsABag(p (+) q)
  BY <1>1, <1>2 DEF IsABag
<1>. QED  BY <1>1, <1>3 DEF CountIn, BagToSet

\* A set as a bag holds each of its elements once.
LEMMA SetAsBag ==
  ASSUME NEW S
  PROVE  /\ IsABag(SetToBag(S))
         /\ BagToSet(SetToBag(S)) = S
         /\ \A i : CountIn(i, SetToBag(S)) = IF i \in S THEN 1 ELSE 0
BY DEF IsABag, SetToBag, BagToSet, CountIn

\* Taking an element out of a bag takes one copy of it.
LEMMA OneTaken ==
  ASSUME NEW q, IsABag(q), NEW i \in BagToSet(q)
  PROVE  /\ IsABag(q (-) SetToBag({i}))
         /\ BagToSet(q (-) SetToBag({i})) \subseteq BagToSet(q)
         /\ BagToSet(q) \ {i} \subseteq BagToSet(q (-) SetToBag({i}))
         /\ \A j : CountIn(j, q (-) SetToBag({i})) =
                     IF j = i THEN CountIn(i, q) - 1 ELSE CountIn(j, q)
<1> DEFINE less == [j \in DOMAIN q |-> IF j = i THEN q[j] - 1 ELSE q[j]]
           r == [j \in {k \in DOMAIN q : less[k] > 0} |-> less[j]]
<1>1. q (-) SetToBag({i}) = r
  BY DEF \ominus, SetToBag
<1>2. \A j \in DOMAIN q : q[j] \in Nat /\ q[j] > 0
  BY DEF IsABag
<1>3. IsABag(r)
  BY <1>2 DEF IsABag
<1>4. \A j : CountIn(j, r) = IF j = i THEN CountIn(i, q) - 1 ELSE CountIn(j, q)
  BY <1>2 DEF CountIn, BagToSet
<1>5. DOMAIN q \ {i} \subseteq DOMAIN r
  BY <1>2
<1>. QED  BY <1>1, <1>3, <1>4, <1>5 DEF BagToSet

\* The deliveries of a worker are a finite bag of items.
LEMMA HeldIsBag ==
  ASSUME TypeOK
  PROVE  /\ IsABag(HeldBag)
         /\ BagToSet(HeldBag) \subseteq Item
         /\ IsFiniteSet(BagToSet(HeldBag))
<1>1. Busy \subseteq Slot /\ IsFiniteSet(Busy)
  BY SlotAssumption, FS_Subset DEF Busy
<1>2. \A s \in Busy : slot[s].item \in Item
  BY DEF TypeOK, Slots, Busy
<1>3. ASSUME NEW s \in Busy
      PROVE  Cardinality({z \in Busy : slot[z].item = slot[s].item}) \in {n \in Nat : n > 0}
  <2> DEFINE Z == {z \in Busy : slot[z].item = slot[s].item}
  <2>1. IsFiniteSet(Z) /\ s \in Z
    BY <1>1, FS_Subset
  <2>. QED  BY <2>1, FS_CardinalityType, FS_EmptySet
<1>4. IsABag(HeldBag)
  BY <1>3 DEF HeldBag, IsABag
<1>5. IsFiniteSet({slot[s].item : s \in Busy})
  <2> DEFINE f == [s \in Busy |-> slot[s].item]
             T == {slot[s].item : s \in Busy}
  <2>1. f \in Surjection(Busy, T)
    BY DEF Surjection
  <2>. QED  BY <1>1, <2>1, FS_Surjection
<1>. QED  BY <1>2, <1>4, <1>5 DEF HeldBag, BagToSet

-----------------------------------------------------------------------------
(* Types *)

\* What TypeOK leaves out and its steps need: finite stores, members that have
\* been retried, due in a sequence; a message on its way to Redis may still be
\* retried; no more removals on their way than members read at once.
Shapes ==
  /\ IsFiniteSet(BagToSet(queue))
  /\ saved \subseteq Member /\ IsFiniteSet(saved)
  /\ due \in Seq(Member)
  /\ removing \subseteq Member /\ IsFiniteSet(removing)
  /\ Cardinality(removing) <= ProcessLimit
  /\ \A s \in Slot : slot[s].stage \in {"saving", "saved"} => slot[s].item.attempt < RetryLimit

TypeInv == TypeOK /\ Shapes

\* A slot is free, or holds an item in one of four stages.
LEMMA SlotTyped ==
  ASSUME TypeOK, NEW s \in Slot
  PROVE  \/ slot[s] = NoItem /\ slot[s].stage = "free"
         \/ /\ slot[s].stage \in {"running", "saving", "saved", "stuck"}
            /\ slot[s].item \in Item
            /\ slot[s] = [stage |-> slot[s].stage, item |-> slot[s].item]
            /\ slot[s] # NoItem
<1>1. slot[s] \in Slots
  BY DEF TypeOK
<1>2. CASE slot[s] = NoItem
  BY <1>2 DEF NoItem
<1>3. CASE slot[s] \in [stage : {"running", "saving", "saved", "stuck"}, item : Item]
  <2>1. slot[s].stage # NoItem.stage
    BY <1>3 DEF NoItem
  <2>. QED  BY <1>3, <2>1
<1>. QED  BY <1>1, <1>2, <1>3 DEF Slots

\* A slot with an item that changes its stage is still a slot.
LEMMA StageTyped ==
  ASSUME TypeOK, NEW s \in Slot, slot[s].stage # "free",
         NEW g \in {"running", "saving", "saved", "stuck"}
  PROVE  /\ [slot EXCEPT ![s].stage = g] \in [Slot -> Slots]
         /\ [slot EXCEPT ![s].stage = g][s] = [stage |-> g, item |-> slot[s].item]
         /\ \A z \in Slot \ {s} : [slot EXCEPT ![s].stage = g][z] = slot[z]
<1> DEFINE r == [slot EXCEPT ![s].stage = g]
<1>1. slot \in [Slot -> Slots]
  BY DEF TypeOK
<1>2. slot[s].item \in Item /\ slot[s] = [stage |-> slot[s].stage, item |-> slot[s].item]
  BY SlotTyped
<1>3. r[s] = [slot[s] EXCEPT !.stage = g]
  BY <1>1
<1>4. r[s] = [stage |-> g, item |-> slot[s].item]
  BY <1>2, <1>3
<1>5. r[s] \in Slots
  BY <1>2, <1>4 DEF Slots
<1>6. \A z \in Slot \ {s} : r[z] = slot[z] /\ r[z] \in Slots
  BY <1>1
<1>. QED  BY <1>1, <1>4, <1>5, <1>6

\* A retry that is allowed is a member.
LEMMA NextIsMember ==
  ASSUME NEW i \in Item, i.attempt < RetryLimit
  PROVE  /\ Next1(i) \in Member
         /\ Next1(i).msg = i.msg
         /\ Next1(i).attempt = i.attempt + 1
BY LimitAssumption DEF Item, Member, Next1

\* What has been read is due: finitely many members, no more than the limit.
LEMMA ReadyIsDue ==
  ASSUME TypeInv
  PROVE  /\ ReadyMessages \subseteq saved
         /\ IsFiniteSet(ReadyMessages)
         /\ Cardinality(ReadyMessages) <= ProcessLimit
<1> DEFINE D == 1..ProcessLimit \cap DOMAIN due
           f == [n \in D |-> due[n]]
<1>1. ReadyMessages = {due[n] : n \in D}
  BY DEF ReadyMessages
<1>2. IsFiniteSet(1..ProcessLimit) /\ Cardinality(1..ProcessLimit) = ProcessLimit
  BY FS_Interval, LimitAssumption
<1>3. IsFiniteSet(D) /\ Cardinality(D) <= ProcessLimit
  BY <1>2, FS_Subset
<1>4. f \in Surjection(D, {due[n] : n \in D})
  BY DEF Surjection
<1>5. /\ IsFiniteSet(ReadyMessages) /\ Cardinality(ReadyMessages) <= Cardinality(D)
  BY <1>1, <1>3, <1>4, FS_Surjection
<1>6. ReadyMessages \subseteq saved
  BY <1>1 DEF TypeInv, TypeOK, Range
<1>7. /\ Cardinality(ReadyMessages) \in Nat /\ Cardinality(D) \in Nat
  BY <1>3, <1>5, FS_CardinalityType
<1>. QED  BY <1>3, <1>5, <1>6, <1>7, LimitAssumption

\* A part of what has been read may be removed.
LEMMA PartRemovable ==
  ASSUME TypeInv, NEW R, R \subseteq ReadyMessages
  PROVE  R \subseteq Member /\ IsFiniteSet(R) /\ Cardinality(R) <= ProcessLimit
<1>1. IsFiniteSet(R) /\ Cardinality(R) <= Cardinality(ReadyMessages)
  BY ReadyIsDue, FS_Subset
<1>2. Cardinality(R) \in Nat /\ Cardinality(ReadyMessages) \in Nat
  BY <1>1, ReadyIsDue, FS_CardinalityType
<1>. QED  BY <1>1, <1>2, ReadyIsDue, LimitAssumption DEF TypeInv, Shapes

\* The queue stays a finite bag of items when items are put into it.
LEMMA PutTyped ==
  ASSUME TypeInv, NEW R, R \subseteq Item, IsFiniteSet(R), Put(R)
  PROVE  /\ IsABag(queue') /\ BagToSet(queue') \subseteq Item
         /\ IsFiniteSet(BagToSet(queue'))
<1>1. IsABag(SetToBag(R)) /\ BagToSet(SetToBag(R)) = R
  BY SetAsBag
<1>2. IsABag(queue') /\ BagToSet(queue') = BagToSet(queue) \cup R
  BY <1>1, BagsAdded DEF TypeInv, TypeOK, Put
<1>3. IsFiniteSet(BagToSet(queue) \cup R)
  BY FS_Union DEF TypeInv, Shapes
<1>. QED  BY <1>2, <1>3 DEF TypeInv, TypeOK

\* The due members keep their shape when one of them leaves.
LEMMA LeftTyped ==
  ASSUME TypeInv, NEW i
  PROVE  /\ RemoveFirst(due, i) \in Seq(Member)
         /\ IsInjective(RemoveFirst(due, i))
         /\ Range(RemoveFirst(due, i)) = Range(due) \ {i}
BY RemovedFirst DEF TypeInv, TypeOK, Shapes

\* A fresh system is well typed.
LEMMA TypeInit == Init => TypeInv
<1> SUFFICES ASSUME Init PROVE TypeInv
  OBVIOUS
<1>1. IsABag(queue) /\ BagToSet(queue) = {}
  BY SetAsBag DEF Init, EmptyBag
<1>2. due \in Seq(Member) /\ Range(due) = {} /\ IsInjective(due)
  BY DEF Init, Range, IsInjective
<1>3. \A s \in Slot : slot[s].stage = "free"
  BY DEF Init, NoItem
<1>4. slot \in [Slot -> Slots]
  BY DEF Init, Slots
<1>5. Cardinality({}) = 0 /\ IsFiniteSet({})
  BY FS_EmptySet
<1>6. TypeOK
  BY <1>1, <1>2, <1>4, FaultAssumption DEF Init, TypeOK
<1>7. Shapes
  BY <1>1, <1>2, <1>3, <1>5, LimitAssumption DEF Init, Shapes
<1>. QED  BY <1>6, <1>7 DEF TypeInv

\* So is what the worker and its queue make of it.
LEMMA WorkerTyped ==
  ASSUME TypeInv
  PROVE  /\ \A m \in Msg : Publish(m) => TypeInv'
         /\ \A s \in Slot, i \in BagToSet(queue) : Deliver(s, i) => TypeInv'
         /\ \A s \in Slot : Consume(s) \/ Save(s) \/ SaveFails(s) => TypeInv'
         /\ SaveResent \/ WorkerCrash => TypeInv'
<1>1. ASSUME NEW m \in Msg, Publish(m) PROVE TypeInv'
  <2>1. {[msg |-> m, attempt |-> 0]} \subseteq Item /\ IsFiniteSet({[msg |-> m, attempt |-> 0]})
    <3>1. [msg |-> m, attempt |-> 0] \in Item
      BY LimitAssumption DEF Item
    <3>. QED  BY <3>1, FS_Singleton
  <2>2. /\ IsABag(queue') /\ BagToSet(queue') \subseteq Item
        /\ IsFiniteSet(BagToSet(queue'))
    BY <1>1, <2>1, PutTyped DEF Publish
  <2>. QED  BY <1>1, <2>2 DEF TypeInv, TypeOK, Shapes, Publish, redis, app, history
<1>2. ASSUME NEW s \in Slot, NEW i \in BagToSet(queue), Deliver(s, i) PROVE TypeInv'
  <2>1. /\ IsABag(queue') /\ BagToSet(queue') \subseteq BagToSet(queue)
    BY <1>2, OneTaken DEF TypeInv, TypeOK, Deliver
  <2>2. IsFiniteSet(BagToSet(queue'))
    BY <2>1, FS_Subset DEF TypeInv, Shapes
  <2>3. i \in Item /\ i.msg \in Msg
    BY DEF TypeInv, TypeOK, Item
  <2>4. /\ slot'[s] = [stage |-> "running", item |-> i]
        /\ slot' \in [Slot -> Slots]
        /\ \A z \in Slot \ {s} : slot'[z] = slot[z]
    BY <1>2, <2>3 DEF TypeInv, TypeOK, Deliver, Slots
  <2>5. runs' \in [Msg -> Nat]
    BY <1>2, <2>3 DEF TypeInv, TypeOK, Deliver
  <2>6. TypeOK'
    BY <1>2, <2>1, <2>4, <2>5 DEF TypeInv, TypeOK, Deliver, redis, app
  <2>7. Shapes'
    BY <1>2, <2>2, <2>4 DEF TypeInv, Shapes, Deliver, redis, app
  <2>. QED  BY <2>6, <2>7 DEF TypeInv
<1>3. ASSUME NEW s \in Slot, Finish(s) PROVE TypeInv'
  <2>1. slot' \in [Slot -> Slots] /\ slot'[s] = NoItem
        /\ \A z \in Slot \ {s} : slot'[z] = slot[z]
    BY <1>3 DEF TypeInv, TypeOK, Finish, Slots
  <2>2. slot[s].item \in Item
    BY <1>3, SlotTyped DEF TypeInv, Finish
  <2>3. slot[s].item.msg \in Msg
    BY <2>2 DEF Item
  <2>4. TypeOK'
    BY <1>3, <2>1, <2>3 DEF TypeInv, TypeOK, Finish, redis, app
  <2>5. Shapes'
    BY <1>3, <2>1 DEF TypeInv, Shapes, Finish, redis, app, NoItem
  <2>. QED  BY <2>4, <2>5 DEF TypeInv
<1>4. ASSUME NEW s \in Slot, LeaveUnanswered(s) \/ RequestRetry(s) PROVE TypeInv'
  <2>1. PICK g \in {"saving", "stuck"} :
           /\ slot' = [slot EXCEPT ![s].stage = g] /\ slot[s].stage = "running"
           /\ g = "saving" => slot[s].item.attempt < RetryLimit
    BY <1>4 DEF LeaveUnanswered, RequestRetry
  <2>2. /\ slot' \in [Slot -> Slots] /\ slot'[s] = [stage |-> g, item |-> slot[s].item]
        /\ \A z \in Slot \ {s} : slot'[z] = slot[z]
    BY <2>1, StageTyped DEF TypeInv
  <2>3. UNCHANGED <<published, queue, redis, app, history, faults>>
    BY <1>4 DEF LeaveUnanswered, RequestRetry
  <2>4. TypeOK'
    BY <2>2, <2>3 DEF TypeInv, TypeOK, redis, app, history
  <2>5. Shapes'
    BY <2>1, <2>2, <2>3 DEF TypeInv, Shapes, redis, app, history
  <2>. QED  BY <2>4, <2>5 DEF TypeInv
<1>5. ASSUME NEW s \in Slot, SaveMessageToRedis(s) PROVE TypeInv'
  <2> DEFINE i == Next1(slot[s].item)
  <2>1. slot' \in [Slot -> Slots] /\ slot'[s] = [stage |-> "saved", item |-> slot[s].item]
        /\ \A z \in Slot \ {s} : slot'[z] = slot[z]
    BY <1>5, StageTyped DEF TypeInv, SaveMessageToRedis
  <2>2. slot[s].item \in Item /\ slot[s].item.attempt < RetryLimit
    BY <1>5, SlotTyped DEF TypeInv, Shapes, SaveMessageToRedis
  <2>3. i \in Member /\ i \in Item
    BY <2>2, NextIsMember DEF Member
  <2>4. saved' = saved \cup {i} /\ due' = RemoveFirst(due, i)
    BY <1>5 DEF SaveMessageToRedis
  <2>5. IsFiniteSet(saved')
    BY <2>4, FS_AddElement DEF TypeInv, Shapes
  <2>6. due' \in Seq(Member) /\ IsInjective(due') /\ Range(due') \subseteq saved'
    BY <2>4, LeftTyped DEF TypeInv, TypeOK
  <2>7. TypeOK'
    BY <1>5, <2>1, <2>3, <2>4, <2>6 DEF TypeInv, TypeOK, SaveMessageToRedis, app, history
  <2>8. Shapes'
    BY <1>5, <2>1, <2>2, <2>3, <2>4, <2>5, <2>6 DEF TypeInv, Shapes, SaveMessageToRedis, app, history
  <2>. QED  BY <2>7, <2>8 DEF TypeInv
<1>6. ASSUME NEW s \in Slot, AckSaved(s) PROVE TypeInv'
  <2>1. slot' \in [Slot -> Slots] /\ slot'[s] = NoItem
        /\ \A z \in Slot \ {s} : slot'[z] = slot[z]
    BY <1>6 DEF TypeInv, TypeOK, AckSaved, Slots
  <2>4. TypeOK'
    BY <1>6, <2>1 DEF TypeInv, TypeOK, AckSaved, redis, app, history
  <2>5. Shapes'
    BY <1>6, <2>1 DEF TypeInv, Shapes, AckSaved, redis, app, history, NoItem
  <2>. QED  BY <2>4, <2>5 DEF TypeInv
<1>7. ASSUME NEW s \in Slot, SaveFails(s) PROVE TypeInv'
  <2>1. slot' \in [Slot -> Slots] /\ slot'[s] = [stage |-> "stuck", item |-> slot[s].item]
        /\ \A z \in Slot \ {s} : slot'[z] = slot[z]
    BY <1>7, StageTyped DEF TypeInv, SaveFails
  <2>2. faults' \in 0..MaxFault
    BY <1>7, FaultAssumption DEF TypeInv, TypeOK, SaveFails, Fault
  <2>4. TypeOK'
    BY <1>7, <2>1, <2>2 DEF TypeInv, TypeOK, SaveFails, redis, app, history
  <2>5. Shapes'
    BY <1>7, <2>1 DEF TypeInv, Shapes, SaveFails, redis, app, history
  <2>. QED  BY <2>4, <2>5 DEF TypeInv
<1>8. ASSUME SaveResent PROVE TypeInv'
  <2>1. \A z \in Slot : slot'[z] = IF slot[z].stage = "saved"
                                  THEN [slot[z] EXCEPT !.stage = "saving"] ELSE slot[z]
    BY <1>8 DEF SaveResent
  <2>2. ASSUME NEW z \in Slot
        PROVE  /\ slot'[z] \in Slots
               /\ slot'[z].stage \in {"saving", "saved"} => slot'[z].item.attempt < RetryLimit
    <3>1. CASE slot[z].stage = "saved"
      <4>1. slot[z].item \in Item /\ slot[z] = [stage |-> "saved", item |-> slot[z].item]
        BY <3>1, SlotTyped DEF TypeInv
      <4>2. slot'[z] = [stage |-> "saving", item |-> slot[z].item]
        BY <2>1, <3>1, <4>1
      <4>. QED  BY <3>1, <4>1, <4>2 DEF Slots, TypeInv, Shapes
    <3>2. CASE slot[z].stage # "saved"
      BY <2>1, <3>2 DEF TypeInv, TypeOK, Shapes
    <3>. QED  BY <3>1, <3>2
  <2>3. slot' \in [Slot -> Slots]
    BY <1>8, <2>2 DEF SaveResent
  <2>4. faults' \in 0..MaxFault
    BY <1>8, FaultAssumption DEF TypeInv, TypeOK, SaveResent, Fault
  <2>5. TypeOK'
    BY <1>8, <2>3, <2>4 DEF TypeInv, TypeOK, SaveResent, redis, app, history
  <2>6. Shapes'
    BY <1>8, <2>2 DEF TypeInv, Shapes, SaveResent, redis, app, history
  <2>. QED  BY <2>5, <2>6 DEF TypeInv
<1>9. ASSUME WorkerCrash PROVE TypeInv'
  <2>1. queue' = queue (+) HeldBag /\ slot' = [s \in Slot |-> NoItem]
    BY <1>9 DEF WorkerCrash
  <2>2. IsABag(queue') /\ BagToSet(queue') = BagToSet(queue) \cup BagToSet(HeldBag)
    BY <2>1, HeldIsBag, BagsAdded DEF TypeInv, TypeOK
  <2>3. IsFiniteSet(BagToSet(queue'))
    BY <2>2, HeldIsBag, FS_Union DEF TypeInv, Shapes
  <2>4. faults' \in 0..MaxFault
    BY <1>9, FaultAssumption DEF TypeInv, TypeOK, WorkerCrash, Fault
  <2>5. slot' \in [Slot -> Slots] /\ \A z \in Slot : slot'[z].stage = "free"
    BY <2>1 DEF Slots, NoItem
  <2>6. TypeOK'
    BY <1>9, <2>2, <2>4, <2>5, HeldIsBag DEF TypeInv, TypeOK, WorkerCrash, redis, app, history
  <2>7. Shapes'
    BY <1>9, <2>3, <2>5 DEF TypeInv, Shapes, WorkerCrash, redis, app, history
  <2>. QED  BY <2>6, <2>7 DEF TypeInv
<1>. QED  BY <1>1, <1>2, <1>3, <1>4, <1>5, <1>6, <1>7, <1>8, <1>9 DEF Consume, Save

\* And what the timer makes of it.
LEMMA TimerTyped ==
  ASSUME TypeInv
  PROVE  /\ \A i \in saved : BecomesDue(i) => TypeInv'
         /\ Tick \/ ReadFails \/ TimerAppStops \/ TimerRestarts => TypeInv'
         /\ RepublishMessages \/ RepublishVanishes \/ RepublishThrows => TypeInv'
         /\ \A i \in removing : RemoveProcessedMessage(i) \/ RemoveFails(i) \/ RemoveResent(i)
                               => TypeInv'
<1>0. /\ \A kind : Fault(kind) => faults' \in 0..MaxFault
      /\ IsFiniteSet({}) /\ Cardinality({}) = 0
  BY FaultAssumption, FS_EmptySet DEF TypeInv, TypeOK, Fault
<1>1. ASSUME NEW i \in saved, BecomesDue(i) PROVE TypeInv'
  <2>1. /\ due \in Seq(Member) /\ IsInjective(due) /\ Range(due) \subseteq saved
        /\ i \in Member
    BY DEF TypeInv, TypeOK, Shapes
  <2>2. i \notin Range(due) /\ due' = Append(due, i)
    BY <1>1, <2>1 DEF BecomesDue, Contains, Range
  <2>3. /\ due' \in Seq(Member) /\ Len(due') = Len(due) + 1 /\ due'[Len(due) + 1] = i
        /\ \A n \in 1..Len(due) : due'[n] = due[n]
        /\ DOMAIN due = 1..Len(due) /\ DOMAIN due' = 1..(Len(due) + 1) /\ Len(due) \in Nat
    BY <2>1, <2>2
  <2>4. \A n \in 1..Len(due) : due[n] \in Range(due)
    BY <2>3 DEF Range
  <2>5. Range(due') \subseteq saved
    BY <2>1, <2>3, <2>4 DEF Range
  <2>6. IsInjective(due')
    <3>1. SUFFICES ASSUME NEW a \in DOMAIN due', NEW b \in DOMAIN due', due'[a] = due'[b]
                   PROVE  a = b
      BY DEF IsInjective
    <3>2. CASE a \in 1..Len(due) /\ b \in 1..Len(due)
      BY <2>1, <2>3, <3>1, <3>2 DEF IsInjective
    <3>. QED  BY <2>2, <2>3, <2>4, <3>1, <3>2
  <2>7. TypeOK'
    BY <1>1, <2>5, <2>6 DEF TypeInv, TypeOK, BecomesDue, app, history
  <2>8. Shapes'
    BY <1>1, <2>3 DEF TypeInv, Shapes, BecomesDue, app, history
  <2>. QED  BY <2>7, <2>8 DEF TypeInv
<1>2. CASE Tick
  BY <1>2 DEF TypeInv, TypeOK, Shapes, Tick, redis, app, history
<1>3. CASE ReadFails
  BY <1>0, <1>3 DEF TypeInv, TypeOK, Shapes, ReadFails, redis, app, history
<1>4. CASE TimerAppStops
  BY <1>0, <1>4 DEF TypeInv, TypeOK, Shapes, TimerAppStops, redis, app, history
<1>5. CASE TimerRestarts
  <2>1. faults' \in 0..MaxFault
    BY <1>0, <1>5 DEF TimerRestarts, TypeInv, TypeOK
  <2>2. TypeOK'
    BY <1>5, <2>1 DEF TypeInv, TypeOK, TimerRestarts, redis, app, history
  <2>3. Shapes'
    BY <1>0, <1>5, LimitAssumption DEF TypeInv, Shapes, TimerRestarts, redis, app, history
  <2>. QED  BY <2>2, <2>3 DEF TypeInv
<1>6. /\ Republishable \subseteq ReadyMessages /\ ReadyMessages \subseteq Item
      /\ IsFiniteSet(Republishable) /\ MsgsOf(ReadyMessages) \subseteq Msg
  <2>1. Republishable \subseteq ReadyMessages /\ ReadyMessages \subseteq Item
    BY ReadyIsDue DEF Republishable, TypeInv, TypeOK
  <2>. QED  BY <2>1, ReadyIsDue, FS_Subset DEF MsgsOf, Item
<1>7. ASSUME NEW R, R \subseteq ReadyMessages PROVE MsgsOf(R) \subseteq Msg
  BY <1>6, <1>7 DEF MsgsOf
<1>8. CASE RepublishMessages
  <2>1. Put(Republishable) /\ removing' = ReadyMessages /\ discarded' \subseteq Msg
    BY <1>7, <1>8 DEF RepublishMessages, Discard, TypeInv, TypeOK
  <2>2. /\ IsABag(queue') /\ BagToSet(queue') \subseteq Item
        /\ IsFiniteSet(BagToSet(queue'))
    BY <1>6, <2>1, PutTyped
  <2>3. TypeOK'
    BY <1>6, <1>8, <2>1, <2>2 DEF TypeInv, TypeOK, RepublishMessages, redis
  <2>4. Shapes'
    BY <1>8, <2>1, <2>2, PartRemovable DEF TypeInv, Shapes, RepublishMessages, redis
  <2>. QED  BY <2>3, <2>4 DEF TypeInv
<1>9. CASE RepublishVanishes
  <2>1. removing' = ReadyMessages /\ discarded' \subseteq Msg /\ vanished' \subseteq Msg
    BY <1>6, <1>7, <1>9 DEF RepublishVanishes, Discard, TypeInv, TypeOK
  <2>3. TypeOK'
    BY <1>0, <1>6, <1>9, <2>1 DEF TypeInv, TypeOK, RepublishVanishes, redis
  <2>4. Shapes'
    BY <1>9, <2>1, PartRemovable DEF TypeInv, Shapes, RepublishVanishes, redis
  <2>. QED  BY <2>3, <2>4 DEF TypeInv
<1>10. CASE RepublishThrows
  <2>1. /\ removing' = ReadyMessages \ Republishable
        /\ removing' \subseteq ReadyMessages /\ discarded' \subseteq Msg
    BY <1>6, <1>7, <1>10 DEF RepublishThrows, Discard, TypeInv, TypeOK
  <2>3. TypeOK'
    BY <1>0, <1>6, <1>10, <2>1 DEF TypeInv, TypeOK, RepublishThrows, redis
  <2>4. Shapes'
    BY <1>10, <2>1, PartRemovable DEF TypeInv, Shapes, RepublishThrows, redis
  <2>. QED  BY <2>3, <2>4 DEF TypeInv
<1>11. ASSUME NEW i \in removing
       PROVE  /\ IsFiniteSet(removing \ {i}) /\ IsFiniteSet(saved \ {i})
              /\ Cardinality(removing \ {i}) <= ProcessLimit
              /\ RemoveFirst(due, i) \in Seq(Member) /\ IsInjective(RemoveFirst(due, i))
              /\ Range(RemoveFirst(due, i)) \subseteq saved \ {i}
  <2>1. /\ IsFiniteSet(removing \ {i})
        /\ Cardinality(removing \ {i}) = Cardinality(removing) - 1
    BY FS_RemoveElement DEF TypeInv, Shapes
  <2>2. IsFiniteSet(saved \ {i})
    BY FS_RemoveElement DEF TypeInv, Shapes
  <2>3. Cardinality(removing) \in Nat /\ Cardinality(removing) <= ProcessLimit
    BY FS_CardinalityType DEF TypeInv, Shapes
  <2>. QED  BY <2>1, <2>2, <2>3, LeftTyped, LimitAssumption DEF TypeInv, TypeOK
<1>12. ASSUME NEW i \in removing, RemoveProcessedMessage(i) PROVE TypeInv'
  <2>1. TypeOK'
    BY <1>11, <1>12 DEF TypeInv, TypeOK, RemoveProcessedMessage, history
  <2>2. Shapes'
    BY <1>11, <1>12 DEF TypeInv, Shapes, RemoveProcessedMessage, history
  <2>. QED  BY <2>1, <2>2 DEF TypeInv
<1>13. ASSUME NEW i \in removing, RemoveFails(i) PROVE TypeInv'
  <2>1. TypeOK'
    BY <1>0, <1>11, <1>13 DEF TypeInv, TypeOK, RemoveFails, redis, history
  <2>2. Shapes'
    BY <1>11, <1>13 DEF TypeInv, Shapes, RemoveFails, redis, history
  <2>. QED  BY <2>1, <2>2 DEF TypeInv
<1>14. ASSUME NEW i \in removing, RemoveResent(i) PROVE TypeInv'
  <2>1. TypeOK'
    BY <1>0, <1>11, <1>14 DEF TypeInv, TypeOK, RemoveResent, app, history
  <2>2. Shapes'
    BY <1>11, <1>14 DEF TypeInv, Shapes, RemoveResent, app, history
  <2>. QED  BY <2>1, <2>2 DEF TypeInv
<1>. QED  BY <1>1, <1>2, <1>3, <1>4, <1>5, <1>8, <1>9, <1>10, <1>12, <1>13, <1>14

\* No step leaves the types.
LEMMA TypeStep == TypeInv /\ [Next]_vars => TypeInv'
<1> SUFFICES ASSUME TypeInv, [Next]_vars PROVE TypeInv'
  OBVIOUS
<1>1. CASE Next
  BY <1>1, WorkerTyped, TimerTyped DEF Next
<1>2. CASE UNCHANGED vars
  BY <1>2 DEF TypeInv, TypeOK, Shapes, vars, redis, app, history
<1>. QED  BY <1>1, <1>2

\* The types and shapes are invariants.
LEMMA TypesHold == Spec => []TypeInv
BY TypeInit, TypeStep, PTL DEF Spec

\* Every variable keeps its type; the due members are members, once each,
\* although a zadd of the worker and a zrem of the timer may hit one of them.
THEOREM TypeCorrect == Spec => []TypeOK
BY TypesHold, PTL DEF TypeInv

-----------------------------------------------------------------------------
(* Nothing is dropped between the two stores *)

\* The items a message can still be worked on from, or that await an answer.
\* A slot whose zadd has succeeded and a member that is being removed do not
\* count: they are about to go.
Working == {"running", "saving", "stuck"}
HeldItems == {slot[s].item : s \in {z \in Slot : slot[z].stage \in Working}}
LiveItems == BagToSet(queue) \cup HeldItems \cup (saved \ removing)

AliveIn(L, m, a) == \E i \in L : i.msg = m /\ i.attempt >= a

\* A message is alive; and for each of its places that are about to go, it is
\* alive at the attempt that place has passed on.  The second and third
\* conjunct are what the first needs: a zadd may hit a member whose zrem is on
\* its way, and that zrem takes the new one along.
Alive(m) ==
  /\ AliveIn(LiveItems, m, 0)
  /\ \A s \in Slot : slot[s].stage = "saved" /\ slot[s].item.msg = m
                      => AliveIn(LiveItems, m, slot[s].item.attempt + 1)
  /\ \A i \in removing : i.msg = m => AliveIn(LiveItems, m, i.attempt)

Kept == Usable \ (decided \cup vanished \cup discarded)

\* Whatever is stored anywhere has been published.
Known ==
  /\ \A i \in BagToSet(queue) \cup saved \cup removing : i.msg \in published
  /\ \A s \in Slot : slot[s].stage # "free" => slot[s].item.msg \in published

AliveInv == Known /\ \A m \in Kept : Alive(m)

\* A step keeps a message alive if it keeps what it is alive from, and if the
\* places that are about to go were so before or have passed it on.
LEMMA Carried ==
  ASSUME NEW m, Alive(m),
         \A i \in LiveItems : i.msg = m => i \in LiveItems',
         \A s \in Slot : slot'[s].stage = "saved" /\ slot'[s].item.msg = m
                          => slot'[s] = slot[s],
         \A i \in removing' : i.msg = m => i \in removing \cup LiveItems',
         \A i \in removing' : i \in Item
  PROVE  Alive(m)'
<1>1. ASSUME NEW a, AliveIn(LiveItems, m, a) PROVE AliveIn(LiveItems', m, a)
  BY <1>1 DEF AliveIn
<1>2. AliveIn(LiveItems', m, 0)
  BY <1>1 DEF Alive
<1>3. ASSUME NEW s \in Slot, slot'[s].stage = "saved", slot'[s].item.msg = m
      PROVE  AliveIn(LiveItems', m, slot'[s].item.attempt + 1)
  <2>1. slot'[s] = slot[s]
    BY <1>3
  <2>2. AliveIn(LiveItems, m, slot[s].item.attempt + 1)
    BY <1>3, <2>1 DEF Alive
  <2>3. AliveIn(LiveItems', m, slot[s].item.attempt + 1)
    BY <1>1, <2>2
  <2>. QED  BY <2>1, <2>3
<1>4. ASSUME NEW i \in removing', i.msg = m PROVE AliveIn(LiveItems', m, i.attempt)
  <2>1. CASE i \in removing
    BY <1>1, <1>4, <2>1 DEF Alive
  <2>2. CASE i \in LiveItems'
    <3>1. i.attempt \in Nat
      BY <1>4 DEF Item
    <3>. QED  BY <1>4, <2>2, <3>1 DEF AliveIn
  <2>. QED  BY <1>4, <2>1, <2>2
<1>. QED  BY <1>2, <1>3, <1>4 DEF Alive

\* Freeing a slot changes no other.
LEMMA SlotFreed ==
  ASSUME TypeOK, NEW s \in Slot, slot' = [slot EXCEPT ![s] = NoItem]
  PROVE  slot'[s].stage = "free" /\ \A z \in Slot \ {s} : slot'[z] = slot[z]
BY DEF TypeOK, NoItem

\* So does the change of its stage.
LEMMA StageChanged ==
  ASSUME TypeOK, NEW s \in Slot, slot[s].stage # "free",
         NEW g \in {"running", "saving", "saved", "stuck"}, slot' = [slot EXCEPT ![s].stage = g]
  PROVE  /\ slot'[s].stage = g /\ slot'[s].item = slot[s].item
         /\ \A z \in Slot \ {s} : slot'[z] = slot[z]
<1>1. /\ slot'[s] = [stage |-> g, item |-> slot[s].item]
      /\ \A z \in Slot \ {s} : slot'[z] = slot[z]
  BY StageTyped
<1>. QED  BY <1>1

\* And a delivery, which moves an item from the queue to a slot.
LEMMA ItemDelivered ==
  ASSUME TypeOK, NEW s \in Slot, NEW i \in BagToSet(queue), Deliver(s, i)
  PROVE  /\ slot'[s].stage = "running" /\ slot'[s].item = i
         /\ \A z \in Slot \ {s} : slot'[z] = slot[z]
         /\ BagToSet(queue') \subseteq BagToSet(queue)
         /\ BagToSet(queue) \subseteq BagToSet(queue') \cup {i}
BY OneTaken DEF TypeOK, Deliver

\* What is put into the queue is there, with what was there before.
LEMMA ItemsPut ==
  ASSUME TypeOK, NEW R, Put(R)
  PROVE  BagToSet(queue') = BagToSet(queue) \cup R
BY SetAsBag, BagsAdded DEF TypeOK, Put

\* A dying worker's deliveries are all in the queue again.
LEMMA ItemsReturned ==
  ASSUME TypeOK, WorkerCrash
  PROVE  /\ \A s \in Slot : slot'[s].stage = "free"
         /\ \A s \in Slot : slot[s].stage # "free" => slot[s].item \in BagToSet(queue')
         /\ BagToSet(queue) \subseteq BagToSet(queue')
         /\ \A i \in BagToSet(queue') :
              i \in BagToSet(queue) \/ \E s \in Slot : slot[s].stage # "free" /\ slot[s].item = i
<1>1. BagToSet(queue') = BagToSet(queue) \cup BagToSet(HeldBag)
  BY HeldIsBag, BagsAdded DEF WorkerCrash, TypeOK
<1>2. BagToSet(HeldBag) = {slot[s].item : s \in Busy}
  BY DEF BagToSet, HeldBag
<1>3. \A s \in Slot : s \in Busy <=> slot[s].stage # "free"
  BY SlotTyped DEF Busy
<1>4. \A s \in Slot : slot'[s].stage = "free"
  BY DEF WorkerCrash, NoItem
<1>. QED  BY <1>1, <1>2, <1>3, <1>4 DEF Busy

\* Lost replies put the saved slots back to saving and touch no other.
LEMMA SlotsResent ==
  ASSUME TypeOK, SaveResent, NEW s \in Slot
  PROVE  IF slot[s].stage = "saved"
         THEN slot'[s].stage = "saving" /\ slot'[s].item = slot[s].item
         ELSE slot'[s] = slot[s]
<1>1. CASE slot[s].stage = "saved"
  <2>1. slot[s] = [stage |-> "saved", item |-> slot[s].item]
    BY <1>1, SlotTyped
  <2>2. slot'[s] = [slot[s] EXCEPT !.stage = "saving"]
    BY <1>1 DEF SaveResent
  <2>3. slot'[s] = [stage |-> "saving", item |-> slot[s].item]
    BY <2>1, <2>2
  <2>. QED  BY <1>1, <2>3
<1>2. CASE slot[s].stage # "saved"
  BY <1>2 DEF SaveResent
<1>. QED  BY <1>1, <1>2

\* Nothing that was never published gets into a store.
LEMMA KnownStep == TypeInv /\ Known /\ [Next]_vars => Known'
<1> SUFFICES ASSUME TypeInv, Known, [Next]_vars PROVE Known'
  OBVIOUS
<1>0. TypeOK
  BY DEF TypeInv
<1>1. ASSUME NEW m \in Msg, Publish(m) PROVE Known'
  <2>1. BagToSet(queue') = BagToSet(queue) \cup {[msg |-> m, attempt |-> 0]}
    BY <1>0, <1>1, ItemsPut DEF Publish
  <2>. QED  BY <1>1, <2>1 DEF Known, Publish, redis, app, history
<1>2. ASSUME NEW s \in Slot, NEW i \in BagToSet(queue), Deliver(s, i) PROVE Known'
  <2>1. published' = published /\ saved' = saved /\ removing' = removing
    BY <1>2 DEF Deliver, redis, app
  <2>. QED  BY <1>0, <1>2, <2>1, ItemDelivered DEF Known
<1>3. ASSUME NEW s \in Slot, Finish(s) \/ AckSaved(s) PROVE Known'
  <2>1. /\ slot' = [slot EXCEPT ![s] = NoItem] /\ queue' = queue
        /\ published' = published /\ saved' = saved /\ removing' = removing
    BY <1>3 DEF Finish, AckSaved, redis, app
  <2>2. slot'[s].stage = "free" /\ \A z \in Slot \ {s} : slot'[z] = slot[z]
    BY <1>0, <2>1, SlotFreed
  <2>. QED  BY <2>1, <2>2 DEF Known
<1>4. ASSUME NEW s \in Slot, LeaveUnanswered(s) \/ RequestRetry(s) \/ SaveFails(s) PROVE Known'
  <2>1. /\ queue' = queue /\ slot[s].stage # "free"
        /\ published' = published /\ saved' = saved /\ removing' = removing
        /\ \/ slot' = [slot EXCEPT ![s].stage = "saving"]
           \/ slot' = [slot EXCEPT ![s].stage = "stuck"]
    BY <1>4 DEF LeaveUnanswered, RequestRetry, SaveFails, redis, app
  <2>. QED  BY <1>0, <2>1, StageChanged DEF Known
<1>5. ASSUME NEW s \in Slot, SaveMessageToRedis(s) PROVE Known'
  <2>1. /\ queue' = queue /\ slot[s].stage # "free"
        /\ published' = published /\ removing' = removing
        /\ saved' = saved \cup {Next1(slot[s].item)}
        /\ slot' = [slot EXCEPT ![s].stage = "saved"]
    BY <1>5 DEF SaveMessageToRedis, app
  <2>2. slot[s].item \in Item /\ slot[s].item.attempt < RetryLimit
    BY <1>0, <1>5, SlotTyped DEF TypeInv, Shapes, SaveMessageToRedis
  <2>3. Next1(slot[s].item).msg \in published
    BY <2>1, <2>2, NextIsMember DEF Known
  <2>. QED  BY <1>0, <2>1, <2>3, StageChanged DEF Known
<1>6. CASE SaveResent
  <2>1. /\ queue' = queue
        /\ published' = published /\ saved' = saved /\ removing' = removing
    BY <1>6 DEF SaveResent, redis, app
  <2>. QED  BY <1>0, <1>6, <2>1, SlotsResent DEF Known
<1>7. CASE WorkerCrash
  <2>1. published' = published /\ saved' = saved /\ removing' = removing
    BY <1>7 DEF WorkerCrash, redis, app
  <2>. QED  BY <1>0, <1>7, <2>1, ItemsReturned DEF Known
<1>8. ASSUME NEW i \in saved, BecomesDue(i) PROVE Known'
  BY <1>8 DEF Known, BecomesDue, app
<1>9. CASE Tick \/ ReadFails \/ TimerAppStops \/ TimerRestarts
  BY <1>9 DEF Known, Tick, ReadFails, TimerAppStops, TimerRestarts, redis
<1>10. Republishable \subseteq ReadyMessages /\ ReadyMessages \subseteq saved
  BY ReadyIsDue DEF Republishable
<1>11. CASE RepublishMessages
  <2>1. BagToSet(queue') = BagToSet(queue) \cup Republishable
    BY <1>0, <1>11, ItemsPut DEF RepublishMessages
  <2>. QED  BY <1>10, <1>11, <2>1 DEF Known, RepublishMessages, redis
<1>12. CASE RepublishVanishes \/ RepublishThrows
  BY <1>10, <1>12 DEF Known, RepublishVanishes, RepublishThrows, redis
<1>13. ASSUME NEW i \in removing,
              RemoveProcessedMessage(i) \/ RemoveFails(i) \/ RemoveResent(i)
       PROVE  Known'
  BY <1>13 DEF Known, RemoveProcessedMessage, RemoveFails, RemoveResent, app, redis
<1>14. CASE UNCHANGED vars
  BY <1>14 DEF Known, vars, redis, app, history
<1>. QED  BY <1>1, <1>2, <1>3, <1>4, <1>5, <1>6, <1>7, <1>8, <1>9, <1>11, <1>12, <1>13, <1>14
          DEF Next, Consume, Save

\* The zadd of a retry replaces its slot by a member, unless the zrem of that
\* very member is on its way: then the message is alive elsewhere, as far on.
LEMMA SaveCarries ==
  ASSUME TypeInv, AliveInv, NEW s \in Slot, SaveMessageToRedis(s), NEW m \in Kept
  PROVE  Alive(m)'
<1> DEFINE i == slot[s].item
           k == Next1(i)
<1>0. TypeOK /\ Alive(m)
  BY DEF TypeInv, AliveInv
<1>1. /\ queue' = queue /\ removing' = removing /\ saved' = saved \cup {k}
      /\ slot' = [slot EXCEPT ![s].stage = "saved"] /\ slot[s].stage = "saving"
  BY DEF SaveMessageToRedis, app
<1>2. /\ slot'[s].stage = "saved" /\ slot'[s].item = i
      /\ \A z \in Slot \ {s} : slot'[z] = slot[z]
  BY <1>0, <1>1, StageChanged
<1>3. i \in Item /\ i.attempt < RetryLimit
  BY <1>0, <1>1, SlotTyped DEF TypeInv, Shapes
<1>4. k.msg = i.msg /\ k.attempt = i.attempt + 1 /\ i.attempt \in Nat
  BY <1>3, NextIsMember DEF Item
<1> HIDE DEF i, k
<1>5. ASSUME NEW j \in LiveItems, j # i PROVE j \in LiveItems'
  BY <1>1, <1>2, <1>5 DEF LiveItems, HeldItems, Working
<1>6. \A j \in LiveItems : j.attempt \in Nat
  BY <1>0, SlotTyped DEF LiveItems, HeldItems, Working, TypeOK, Item
<1>7. i.msg = m => AliveIn(LiveItems', m, i.attempt + 1)
  <2>1. HAVE i.msg = m
  <2>2. CASE k \in removing
    <3>1. AliveIn(LiveItems, m, k.attempt)
      BY <1>0, <1>4, <2>1, <2>2 DEF Alive
    <3>2. PICK j \in LiveItems : j.msg = m /\ j.attempt >= k.attempt
      BY <3>1 DEF AliveIn
    <3>3. j # i
      BY <1>4, <1>6, <3>2
    <3>. QED  BY <1>4, <1>5, <3>2, <3>3 DEF AliveIn
  <2>3. CASE k \notin removing
    <3>1. k \in LiveItems'
      BY <1>1, <2>3 DEF LiveItems
    <3>. QED  BY <1>4, <2>1, <3>1 DEF AliveIn
  <2>. QED  BY <2>2, <2>3
<1>8. ASSUME NEW a, a \in Nat, AliveIn(LiveItems, m, a) PROVE AliveIn(LiveItems', m, a)
  <2>1. PICK j \in LiveItems : j.msg = m /\ j.attempt >= a
    BY <1>8 DEF AliveIn
  <2>2. CASE j # i
    BY <1>5, <2>1, <2>2 DEF AliveIn
  <2>3. CASE j = i
    <3>1. PICK j2 \in LiveItems' : j2.msg = m /\ j2.attempt >= i.attempt + 1
      BY <1>7, <2>1, <2>3 DEF AliveIn
    <3>2. j2.attempt \in Int
      BY <1>0, <1>1, <1>2, <1>3, <1>4, SlotTyped, LimitAssumption
         DEF LiveItems, HeldItems, Working, TypeOK, Item, k
    <3>. QED  BY <1>4, <1>8, <2>1, <2>3, <3>1, <3>2 DEF AliveIn
  <2>. QED  BY <2>2, <2>3
<1>9. ASSUME NEW z \in Slot, slot'[z].stage = "saved", slot'[z].item.msg = m
      PROVE  AliveIn(LiveItems', m, slot'[z].item.attempt + 1)
  <2>1. CASE z = s
    BY <1>2, <1>7, <1>9, <2>1
  <2>2. CASE z # s
    <3>1. slot'[z] = slot[z]
      BY <1>2, <2>2
    <3>2. slot[z].item.attempt + 1 \in Nat
      <4>1. slot[z].item \in Item
        BY <1>0, <1>9, <3>1, SlotTyped
      <4>. QED  BY <4>1 DEF Item
    <3>3. AliveIn(LiveItems, m, slot[z].item.attempt + 1)
      BY <1>0, <1>9, <3>1 DEF Alive
    <3>. QED  BY <1>8, <3>1, <3>2, <3>3
  <2>. QED  BY <2>1, <2>2
<1>10. ASSUME NEW j \in removing', j.msg = m PROVE AliveIn(LiveItems', m, j.attempt)
  <2>1. j \in removing /\ j.attempt \in Nat
    BY <1>0, <1>1, <1>10 DEF TypeOK, Item
  <2>. QED  BY <1>0, <1>8, <1>10, <2>1 DEF Alive
<1>11. AliveIn(LiveItems', m, 0)
  BY <1>0, <1>8 DEF Alive
<1>. QED  BY <1>9, <1>10, <1>11 DEF Alive

\* Every step keeps every message alive that is not decided, vanished or
\* discarded by then.
LEMMA AliveStep == TypeInv /\ TypeInv' /\ AliveInv /\ [Next]_vars => AliveInv'
<1> SUFFICES ASSUME TypeInv, TypeInv', AliveInv, [Next]_vars, NEW m \in Kept' PROVE Alive(m)'
  BY KnownStep DEF AliveInv
<1>0. /\ TypeOK /\ Known
      /\ \A i \in removing' : i \in Item
      /\ m \in Kept => Alive(m)
  BY DEF TypeInv, TypeOK, AliveInv
<1>1. ASSUME NEW p \in Msg, Publish(p) PROVE Alive(m)'
  <2> DEFINE i == [msg |-> p, attempt |-> 0]
  <2>1. BagToSet(queue') = BagToSet(queue) \cup {i}
    BY <1>0, <1>1, ItemsPut DEF Publish
  <2>2. /\ slot' = slot /\ saved' = saved /\ removing' = removing
        /\ Kept' \subseteq Kept \cup {p}
    BY <1>1 DEF Publish, redis, app, history, Kept, Usable
  <2>3. CASE m \in Kept
    <3>1. LiveItems \subseteq LiveItems'
      BY <2>1, <2>2 DEF LiveItems, HeldItems
    <3>. QED  BY <1>0, <2>2, <2>3, <3>1, Carried
  <2>4. CASE m \notin Kept
    <3>1. m = p /\ p \notin published
      BY <1>1, <2>2, <2>4 DEF Publish
    <3>2. i \in LiveItems' /\ i.msg = m /\ i.attempt = 0
      BY <2>1, <3>1 DEF LiveItems
    <3>3. AliveIn(LiveItems', m, 0)
      BY <3>2 DEF AliveIn
    <3>4. \A s \in Slot : slot'[s].stage = "saved" => slot'[s].item.msg # m
      BY <1>0, <2>2, <3>1 DEF Known
    <3>5. \A j \in removing' : j.msg # m
      BY <1>0, <2>2, <3>1 DEF Known
    <3>. QED  BY <3>3, <3>4, <3>5 DEF Alive
  <2>. QED  BY <2>3, <2>4
<1>2. ASSUME NEW s \in Slot, NEW i \in BagToSet(queue), Deliver(s, i) PROVE Alive(m)'
  <2>1. /\ saved' = saved /\ removing' = removing /\ m \in Kept /\ slot[s].stage = "free"
    BY <1>2 DEF Deliver, redis, app, Kept, Usable, NoItem
  <2>2. /\ slot'[s].stage = "running" /\ slot'[s].item = i
        /\ \A z \in Slot \ {s} : slot'[z] = slot[z]
        /\ BagToSet(queue) \subseteq BagToSet(queue') \cup {i}
    BY <1>0, <1>2, ItemDelivered
  <2>3. LiveItems \subseteq LiveItems'
    BY <2>1, <2>2 DEF LiveItems, HeldItems, Working
  <2>. QED  BY <1>0, <2>1, <2>2, <2>3, Carried
<1>3. ASSUME NEW s \in Slot, Finish(s) PROVE Alive(m)'
  <2>1. /\ saved' = saved /\ removing' = removing /\ queue' = queue
        /\ m \in Kept /\ m # slot[s].item.msg
    BY <1>3 DEF Finish, redis, app, Kept, Usable
  <2>2. slot'[s].stage = "free" /\ \A z \in Slot \ {s} : slot'[z] = slot[z]
    BY <1>0, <1>3, SlotFreed DEF Finish
  <2>3. \A i \in LiveItems : i.msg = m => i \in LiveItems'
    BY <2>1, <2>2 DEF LiveItems, HeldItems
  <2>. QED  BY <1>0, <2>1, <2>2, <2>3, Carried
<1>4. ASSUME NEW s \in Slot, AckSaved(s) PROVE Alive(m)'
  <2>1. /\ saved' = saved /\ removing' = removing /\ queue' = queue
        /\ m \in Kept /\ slot[s].stage = "saved"
    BY <1>4 DEF AckSaved, redis, app, history, Kept, Usable
  <2>2. slot'[s].stage = "free" /\ \A z \in Slot \ {s} : slot'[z] = slot[z]
    BY <1>0, <1>4, SlotFreed DEF AckSaved
  <2>3. LiveItems \subseteq LiveItems'
    BY <2>1, <2>2 DEF LiveItems, HeldItems, Working
  <2>. QED  BY <1>0, <2>1, <2>2, <2>3, Carried
<1>5. ASSUME NEW s \in Slot, LeaveUnanswered(s) \/ RequestRetry(s) \/ SaveFails(s) PROVE Alive(m)'
  <2>1. /\ saved' = saved /\ removing' = removing /\ queue' = queue
        /\ m \in Kept /\ slot[s].stage # "free"
        /\ \/ slot' = [slot EXCEPT ![s].stage = "saving"]
           \/ slot' = [slot EXCEPT ![s].stage = "stuck"]
    BY <1>5 DEF LeaveUnanswered, RequestRetry, SaveFails, redis, app, history, Kept, Usable
  <2>2. /\ slot'[s].stage \in {"saving", "stuck"} /\ slot'[s].item = slot[s].item
        /\ \A z \in Slot \ {s} : slot'[z] = slot[z]
    BY <1>0, <2>1, StageChanged
  <2>3. LiveItems \subseteq LiveItems'
    BY <2>1, <2>2 DEF LiveItems, HeldItems, Working
  <2>. QED  BY <1>0, <2>1, <2>2, <2>3, Carried
<1>6. ASSUME NEW s \in Slot, SaveMessageToRedis(s) PROVE Alive(m)'
  <2>1. m \in Kept
    BY <1>6 DEF SaveMessageToRedis, history, Kept, Usable
  <2>. QED  BY <1>6, <2>1, SaveCarries
<1>7. CASE SaveResent
  <2>1. /\ saved' = saved /\ removing' = removing /\ queue' = queue /\ m \in Kept
    BY <1>7 DEF SaveResent, redis, app, history, Kept, Usable
  <2>2. LiveItems \subseteq LiveItems'
    BY <1>0, <1>7, <2>1, SlotsResent DEF LiveItems, HeldItems, Working
  <2>3. \A s \in Slot : slot'[s].stage # "saved"
    BY <1>0, <1>7, SlotsResent
  <2>. QED  BY <1>0, <2>1, <2>2, <2>3, Carried
<1>8. CASE WorkerCrash
  <2>1. /\ saved' = saved /\ removing' = removing /\ m \in Kept
    BY <1>8 DEF WorkerCrash, redis, app, history, Kept, Usable
  <2>2. LiveItems \subseteq LiveItems'
    BY <1>0, <1>8, <2>1, ItemsReturned DEF LiveItems, HeldItems, Working
  <2>3. \A s \in Slot : slot'[s].stage # "saved"
    BY <1>0, <1>8, ItemsReturned
  <2>. QED  BY <1>0, <2>1, <2>2, <2>3, Carried
<1>9. CASE Tick \/ ReadFails \/ TimerAppStops \/ (\E i \in saved : BecomesDue(i)) \/ UNCHANGED vars
  <2>1. /\ saved' = saved /\ removing' = removing /\ queue' = queue /\ slot' = slot
        /\ m \in Kept
    BY <1>9 DEF Tick, ReadFails, TimerAppStops, BecomesDue, vars, redis, app, history, Kept, Usable
  <2>2. LiveItems \subseteq LiveItems'
    BY <2>1 DEF LiveItems, HeldItems
  <2>. QED  BY <1>0, <2>1, <2>2, Carried
<1>10. CASE TimerRestarts
  <2>1. /\ saved' = saved /\ removing' = {} /\ queue' = queue /\ slot' = slot
        /\ m \in Kept
    BY <1>10 DEF TimerRestarts, redis, history, Kept, Usable
  <2>2. LiveItems \subseteq LiveItems'
    BY <2>1 DEF LiveItems, HeldItems
  <2>. QED  BY <1>0, <2>1, <2>2, Carried
<1>11. CASE RepublishMessages
  <2>1. /\ saved' = saved /\ removing' = ReadyMessages /\ removing = {} /\ slot' = slot
        /\ m \in Kept /\ m \notin MsgsOf(ReadyMessages \ Republishable)
    BY <1>11 DEF RepublishMessages, Discard, Answered, redis, Kept, Usable
  <2>2. BagToSet(queue') = BagToSet(queue) \cup Republishable
    BY <1>0, <1>11, ItemsPut DEF RepublishMessages
  <2>3. \A i \in ReadyMessages : i.msg = m => i \in LiveItems'
    BY <2>1, <2>2 DEF LiveItems, MsgsOf
  <2>4. \A i \in LiveItems : i.msg = m => i \in LiveItems'
    BY <2>1, <2>2, <2>3 DEF LiveItems, HeldItems
  <2>. QED  BY <1>0, <2>1, <2>3, <2>4, Carried
<1>12. CASE RepublishVanishes
  <2>1. /\ saved' = saved /\ removing' = ReadyMessages /\ removing = {} /\ slot' = slot
        /\ queue' = queue
        /\ m \in Kept /\ m \notin MsgsOf(ReadyMessages \ Republishable) \cup MsgsOf(Republishable)
    BY <1>12 DEF RepublishVanishes, Discard, Answered, redis, Kept, Usable
  <2>2. \A i \in removing' : i.msg # m
    BY <2>1 DEF MsgsOf
  <2>3. \A i \in LiveItems : i.msg = m => i \in LiveItems'
    BY <2>1, <2>2 DEF LiveItems, HeldItems
  <2>. QED  BY <1>0, <2>1, <2>2, <2>3, Carried
<1>13. CASE RepublishThrows
  <2>1. /\ saved' = saved /\ removing' = ReadyMessages \ Republishable /\ removing = {}
        /\ slot' = slot /\ queue' = queue
        /\ m \in Kept /\ m \notin MsgsOf(removing')
    BY <1>13 DEF RepublishThrows, Discard, Answered, redis, Kept, Usable
  <2>2. \A i \in removing' : i.msg # m
    BY <2>1 DEF MsgsOf
  <2>3. \A i \in LiveItems : i.msg = m => i \in LiveItems'
    BY <2>1, <2>2 DEF LiveItems, HeldItems
  <2>. QED  BY <1>0, <2>1, <2>2, <2>3, Carried
<1>14. ASSUME NEW i \in removing,
              RemoveProcessedMessage(i) \/ RemoveFails(i) \/ RemoveResent(i)
       PROVE  Alive(m)'
  <2>1. /\ saved \ removing \subseteq saved' \ removing' /\ removing' \subseteq removing
        /\ slot' = slot /\ queue' = queue /\ m \in Kept
    BY <1>14 DEF RemoveProcessedMessage, RemoveFails, RemoveResent, app, redis, history, Kept, Usable
  <2>2. LiveItems \subseteq LiveItems'
    BY <2>1 DEF LiveItems, HeldItems
  <2>. QED  BY <1>0, <2>1, <2>2, Carried
<1>. QED  BY <1>1, <1>2, <1>3, <1>4, <1>5, <1>6, <1>7, <1>8, <1>9, <1>10, <1>11, <1>12, <1>13,
             <1>14 DEF Next, Consume, Save

\* There is nothing to keep alive at the start.
LEMMA AliveInit == Init => AliveInv
<1> SUFFICES ASSUME Init PROVE AliveInv
  OBVIOUS
<1>1. BagToSet(queue) = {}
  BY SetAsBag DEF Init, EmptyBag
<1>. QED  BY <1>1 DEF Init, AliveInv, Known, Kept, Usable, NoItem

\* The invariant, along every behaviour.
LEMMA AliveHolds == Spec => []AliveInv
BY TypesHold, AliveInit, AliveStep, PTL DEF Spec

\* The three places a message is counted in are finite.
LEMMA PlacesFinite ==
  ASSUME TypeInv, NEW m
  PROVE  /\ IsFiniteSet(InQueue(m)) /\ IsFiniteSet(Waiting(m))
         /\ \A stages : IsFiniteSet(InSlots(m, stages))
         /\ Cardinality(InQueue(m)) \in Nat /\ Cardinality(Waiting(m)) \in Nat
         /\ \A stages : Cardinality(InSlots(m, stages)) \in Nat
<1> DEFINE Q == {j \in BagToSet(queue) : j.msg = m}
           f == [i \in Q |-> {i} \X (1..queue[i])]
           P == {{i} \X (1..queue[i]) : i \in Q}
<1>1. IsFiniteSet(Q)
  BY FS_Subset DEF TypeInv, Shapes
<1>2. f \in Surjection(Q, P)
  BY DEF Surjection
<1>3. IsFiniteSet(P)
  BY <1>1, <1>2, FS_Surjection
<1>4. ASSUME NEW i \in Q PROVE IsFiniteSet({i} \X (1..queue[i]))
  <2>1. queue[i] \in Nat
    BY DEF TypeInv, TypeOK, IsABag, BagToSet
  <2>2. IsFiniteSet(1..queue[i])
    BY <2>1, FS_Interval
  <2>3. IsFiniteSet({i})
    BY FS_Singleton
  <2>. QED  BY <2>2, <2>3, FS_Product
<1>5. IsFiniteSet(InQueue(m))
  BY <1>3, <1>4, FS_UNION DEF InQueue
<1>6. IsFiniteSet(Waiting(m))
  BY FS_Subset DEF Waiting, TypeInv, Shapes
<1>7. \A stages : IsFiniteSet(InSlots(m, stages))
  BY SlotAssumption, FS_Subset DEF InSlots, Busy
<1>. QED  BY <1>5, <1>6, <1>7, FS_CardinalityType

\* A message that is alive somewhere is pending.
LEMMA AliveIsSomewhere == TypeInv /\ AliveInv => AlwaysSomewhere
<1> SUFFICES ASSUME TypeInv, AliveInv, NEW m \in Kept
             PROVE  Pending(m) > 0
  BY DEF AlwaysSomewhere, Kept
<1>1. PICK i \in LiveItems : i.msg = m
  BY DEF AliveInv, Alive, AliveIn
<1>2. /\ InQueue(m) # {} => Cardinality(InQueue(m)) > 0
      /\ InSlots(m, {"running", "saving", "stuck"}) # {}
           => Cardinality(InSlots(m, {"running", "saving", "stuck"})) > 0
      /\ Waiting(m) # {} => Cardinality(Waiting(m)) > 0
  BY PlacesFinite, FS_EmptySet
<1>3. InQueue(m) # {} \/ InSlots(m, {"running", "saving", "stuck"}) # {} \/ Waiting(m) # {}
  <2>1. CASE i \in BagToSet(queue)
    <3>1. queue[i] \in Nat /\ queue[i] > 0
      BY <2>1 DEF TypeInv, TypeOK, IsABag, BagToSet
    <3>2. <<i, 1>> \in InQueue(m)
      BY <1>1, <2>1, <3>1 DEF InQueue
    <3>. QED  BY <3>2
  <2>2. CASE i \in HeldItems
    <3>1. PICK s \in Slot : slot[s].stage \in Working /\ slot[s].item = i
      BY <2>2 DEF HeldItems
    <3>2. s \in Busy
      BY <3>1 DEF Busy, Working, NoItem
    <3>. QED  BY <1>1, <3>1, <3>2 DEF InSlots, Working
  <2>3. CASE i \in saved \ removing
    BY <1>1, <2>3 DEF Waiting
  <2>. QED  BY <2>1, <2>2, <2>3 DEF LiveItems
<1>. QED  BY <1>2, <1>3, PlacesFinite DEF Pending

\* A message is never dropped between the broker and Redis, for any number of
\* deliveries held at once, of faults of any kind, and of retries: until it is
\* decided a copy of it is in the queue, in the hands of the worker or in Redis,
\* unless it vanished on a dead channel or was discarded by a timer without queues.
THEOREM AlwaysSomewhereHolds == Spec => []AlwaysSomewhere
BY TypesHold, AliveHolds, AliveIsSomewhere, PTL

-----------------------------------------------------------------------------
(* Copies and calls *)

\* Both bounds are one argument.  A token is a place a message is worked on
\* from.  To count copies it weighs one; to count calls of consume(), as many
\* as there can still be from that place.
Mode == {"copies", "runs"}
Full(c) == IF c = "copies" THEN 1 ELSE RetryLimit + 1

Token(p) == p = <<p[1], p[2], p[3]>> /\ p[1] \in {"queue", "slot", "redis"} /\ p[2] \in Item

Weight(c, p) ==
  IF c = "copies" THEN 1
  ELSE IF p[1] = "slot" THEN RetryLimit - p[2].attempt ELSE RetryLimit + 1 - p[2].attempt

\* As many units for each token as it weighs.
Units(c, P) == UNION {{p} \X (1..Weight(c, p)) : p \in P}

\* A token weighs a number, the full weight at most.
LEMMA WeightTyped ==
  ASSUME NEW c \in Mode, NEW p, Token(p)
  PROVE  /\ Weight(c, p) \in Nat /\ Full(c) \in Nat \ {0}
         /\ Weight(c, p) <= Full(c)
<1>1. p[2].attempt \in 0..RetryLimit
  BY DEF Token, Item
<1>. QED  BY <1>1, LimitAssumption DEF Mode, Weight, Full

\* The units of finitely many tokens are finitely many.
LEMMA UnitsFinite ==
  ASSUME NEW c \in Mode, NEW P, IsFiniteSet(P), \A p \in P : Token(p)
  PROVE  IsFiniteSet(Units(c, P)) /\ Cardinality(Units(c, P)) \in Nat
<1> DEFINE U == {{p} \X (1..Weight(c, p)) : p \in P}
           f == [p \in P |-> {p} \X (1..Weight(c, p))]
<1>1. f \in Surjection(P, U)
  BY DEF Surjection
<1>2. IsFiniteSet(U)
  BY <1>1, FS_Surjection
<1>3. ASSUME NEW p \in P PROVE IsFiniteSet({p} \X (1..Weight(c, p)))
  <2>1. IsFiniteSet({p})
    BY FS_Singleton
  <2>2. IsFiniteSet(1..Weight(c, p))
    BY WeightTyped, FS_Interval
  <2>. QED  BY <2>1, <2>2, FS_Product
<1>4. IsFiniteSet(UNION U)
  BY <1>2, <1>3, FS_UNION
<1>. QED  BY <1>4, FS_CardinalityType DEF Units

\* One token has as many units as it weighs.
LEMMA OneTokensUnits ==
  ASSUME NEW c \in Mode, NEW p, Token(p)
  PROVE  Cardinality(Units(c, {p})) = Weight(c, p)
<1>1. Units(c, {p}) = {p} \X (1..Weight(c, p))
  BY DEF Units
<1>2. IsFiniteSet({p}) /\ Cardinality({p}) = 1
  BY FS_Singleton
<1>3. IsFiniteSet(1..Weight(c, p)) /\ Cardinality(1..Weight(c, p)) = Weight(c, p)
  BY WeightTyped, FS_Interval
<1>4. Cardinality({p} \X (1..Weight(c, p))) = Cardinality({p}) * Cardinality(1..Weight(c, p))
  BY <1>2, <1>3, FS_Product
<1>5. Weight(c, p) \in Nat
  BY WeightTyped
<1>6. Cardinality({p}) * Cardinality(1..Weight(c, p)) = Weight(c, p)
  BY <1>2, <1>3, <1>5
<1>. QED  BY <1>1, <1>4, <1>6

\* Fewer tokens have fewer units.
LEMMA FewerUnits ==
  ASSUME NEW c \in Mode, NEW P, IsFiniteSet(P), \A p \in P : Token(p), NEW R, R \subseteq P
  PROVE  Cardinality(Units(c, R)) <= Cardinality(Units(c, P))
<1>1. Units(c, R) \subseteq Units(c, P)
  BY DEF Units
<1>. QED  BY <1>1, UnitsFinite, FS_Subset

\* The units of two sets of tokens are at most as many as those of each together.
LEMMA JoinedUnits ==
  ASSUME NEW c \in Mode, NEW P, IsFiniteSet(P), \A p \in P : Token(p),
         NEW R, IsFiniteSet(R), \A p \in R : Token(p)
  PROVE  Cardinality(Units(c, P \cup R)) <= Cardinality(Units(c, P)) + Cardinality(Units(c, R))
<1> DEFINE A == Units(c, P)
           B == Units(c, R)
<1>1. Units(c, P \cup R) = A \cup B
  BY DEF Units
<1>2. IsFiniteSet(A) /\ IsFiniteSet(B) /\ Cardinality(A) \in Nat /\ Cardinality(B) \in Nat
  BY UnitsFinite
<1> HIDE DEF A, B
<1>3. Cardinality(A \cup B) = Cardinality(A) + Cardinality(B) - Cardinality(A \cap B)
  BY <1>2, FS_Union
<1>4. Cardinality(A \cap B) \in Nat
  BY <1>2, FS_Intersection, FS_CardinalityType
<1>5. Cardinality(A \cup B) <= Cardinality(A) + Cardinality(B)
  BY <1>2, <1>3, <1>4
<1>. QED  BY <1>1, <1>5 DEF A, B

\* Without some of the tokens there are fewer units by theirs.
LEMMA UnitsWithoutSome ==
  ASSUME NEW c \in Mode, NEW P, IsFiniteSet(P), \A p \in P : Token(p), NEW R, R \subseteq P
  PROVE  Cardinality(Units(c, P \ R)) + Cardinality(Units(c, R)) = Cardinality(Units(c, P))
<1> DEFINE A == Units(c, P \ R)
           B == Units(c, R)
<1>1. Units(c, P) = A \cup B
  BY DEF Units
<1>2. A \cap B = {}
  BY DEF Units
<1>3. IsFiniteSet(P \ R) /\ IsFiniteSet(R)
  BY FS_Subset
<1>4. IsFiniteSet(A) /\ IsFiniteSet(B) /\ Cardinality(A) \in Nat /\ Cardinality(B) \in Nat
  BY <1>3, UnitsFinite
<1> HIDE DEF A, B
<1>5. Cardinality(A \cup B) = Cardinality(A) + Cardinality(B) - Cardinality(A \cap B)
  BY <1>4, FS_Union
<1>6. Cardinality(A \cap B) = 0
  BY <1>2, FS_EmptySet
<1>7. Cardinality(A \cup B) = Cardinality(A) + Cardinality(B)
  BY <1>4, <1>5, <1>6
<1>. QED  BY <1>1, <1>7 DEF A, B

\* Without a token there are fewer by its weight.
LEMMA UnitsWithout ==
  ASSUME NEW c \in Mode, NEW P, IsFiniteSet(P), \A p \in P : Token(p), NEW p \in P
  PROVE  Cardinality(Units(c, P \ {p})) + Weight(c, p) = Cardinality(Units(c, P))
<1>1. Cardinality(Units(c, P \ {p})) + Cardinality(Units(c, {p})) = Cardinality(Units(c, P))
  BY UnitsWithoutSome
<1>2. Cardinality(Units(c, {p})) = Weight(c, p)
  BY OneTokensUnits
<1>. QED  BY <1>1, <1>2

\* One token in place of another that weighs more.
LEMMA TokenSwapped ==
  ASSUME NEW c \in Mode, NEW P, IsFiniteSet(P), \A p \in P : Token(p),
         NEW a \in P, NEW b, Token(b), NEW R, R \subseteq (P \ {a}) \cup {b}
  PROVE  Cardinality(Units(c, R)) + Weight(c, a) <= Cardinality(Units(c, P)) + Weight(c, b)
<1> DEFINE S == P \ {a}
<1>1. IsFiniteSet(S) /\ IsFiniteSet({b}) /\ IsFiniteSet(S \cup {b}) /\ \A p \in S \cup {b} : Token(p)
  BY FS_Subset, FS_Singleton, FS_AddElement
<1>2. Cardinality(Units(c, R)) <= Cardinality(Units(c, S \cup {b}))
  BY <1>1, FewerUnits
<1>3. Cardinality(Units(c, S \cup {b})) <= Cardinality(Units(c, S)) + Cardinality(Units(c, {b}))
  BY <1>1, JoinedUnits
<1>4. Cardinality(Units(c, {b})) = Weight(c, b)
  BY OneTokensUnits
<1>5. Cardinality(Units(c, S)) + Weight(c, a) = Cardinality(Units(c, P))
  BY UnitsWithout
<1>6. IsFiniteSet(R) /\ \A p \in R : Token(p)
  BY <1>1, FS_Subset
<1>7. /\ Cardinality(Units(c, S)) \in Nat /\ Cardinality(Units(c, S \cup {b})) \in Nat
      /\ Cardinality(Units(c, P)) \in Nat /\ Cardinality(Units(c, R)) \in Nat
  BY <1>1, <1>6, UnitsFinite
<1>8. Weight(c, a) \in Nat /\ Weight(c, b) \in Nat
  BY WeightTyped
<1>. QED  BY <1>2, <1>3, <1>4, <1>5, <1>7, <1>8

\* A few tokens more, each of full weight at most.
LEMMA TokensAdded ==
  ASSUME NEW c \in Mode, NEW P, IsFiniteSet(P), \A p \in P : Token(p),
         NEW B, IsFiniteSet(B), \A p \in B : Token(p),
         NEW n \in Nat, Cardinality(B) <= n, NEW R, R \subseteq P \cup B
  PROVE  Cardinality(Units(c, R)) <= Cardinality(Units(c, P)) + n * Full(c)
<1>1. IsFiniteSet(P \cup B) /\ \A p \in P \cup B : Token(p)
  BY FS_Union
<1>2. Cardinality(Units(c, R)) <= Cardinality(Units(c, P \cup B))
  BY <1>1, FewerUnits
<1>3. Cardinality(Units(c, P \cup B)) <= Cardinality(Units(c, P)) + Cardinality(Units(c, B))
  BY JoinedUnits
<1>4. Cardinality(Units(c, B)) <= Cardinality(B) * Full(c)
  <2>1. Full(c) \in Nat \ {0}
    BY LimitAssumption DEF Full, Mode
  <2>2. Units(c, B) \subseteq B \X (1..Full(c))
    BY <2>1, WeightTyped DEF Units
  <2>3. IsFiniteSet(1..Full(c)) /\ Cardinality(1..Full(c)) = Full(c)
    BY <2>1, FS_Interval
  <2>4. /\ IsFiniteSet(B \X (1..Full(c)))
        /\ Cardinality(B \X (1..Full(c))) = Cardinality(B) * Full(c)
    BY <2>3, FS_Product
  <2>. QED  BY <2>2, <2>4, FS_Subset
<1>5. Cardinality(B) \in Nat /\ Full(c) \in Nat
  BY FS_CardinalityType, LimitAssumption DEF Full, Mode
<1>6. Cardinality(B) * Full(c) <= n * Full(c) /\ n * Full(c) \in Nat /\ Cardinality(B) * Full(c) \in Nat
  BY <1>5
<1>7. IsFiniteSet(R) /\ \A p \in R : Token(p)
  BY <1>1, FS_Subset
<1>8. /\ Cardinality(Units(c, P \cup B)) \in Nat /\ Cardinality(Units(c, B)) \in Nat
      /\ Cardinality(Units(c, P)) \in Nat /\ Cardinality(Units(c, R)) \in Nat
  BY <1>1, <1>7, UnitsFinite
<1>. QED  BY <1>2, <1>3, <1>4, <1>6, <1>8

\* The places message m is worked on from, given the queue, the slots and the
\* members that will be republished: copies in the queue, slots that have not
\* handed it to Redis yet, and those members.
TokensOf(q, sl, left, m) ==
  {p \in {"queue"} \X Item \X Nat : p[2].msg = m /\ p[3] \in 1..CountIn(p[2], q)}
    \cup {<<"slot", sl[s].item, s>> :
            s \in {z \in Slot : sl[z].stage \in {"running", "saving", "stuck"} /\ sl[z].item.msg = m}}
    \cup {<<"redis", i, 0>> : i \in {j \in left : j.msg = m}}

Tokens(m) == TokensOf(queue, slot, saved \ removing, m)

\* Each of them, spelled out.
LEMMA TokenPlaces ==
  ASSUME NEW q, NEW sl, NEW left, NEW m, NEW p
  PROVE  p \in TokensOf(q, sl, left, m) <=>
           \/ \E i \in Item : \E n \in Nat :
                n \in 1..CountIn(i, q) /\ i.msg = m /\ p = <<"queue", i, n>>
           \/ \E s \in Slot : /\ sl[s].stage \in {"running", "saving", "stuck"}
                             /\ sl[s].item.msg = m
                             /\ p = <<"slot", sl[s].item, s>>
           \/ \E i \in left : i.msg = m /\ p = <<"redis", i, 0>>
BY DEF TokensOf

\* They are tokens, finitely many, and as many as are pending.
LEMMA TokensPending ==
  ASSUME TypeInv, NEW m
  PROVE  /\ IsFiniteSet(Tokens(m)) /\ \A p \in Tokens(m) : Token(p)
         /\ Cardinality(Tokens(m)) = Pending(m)
<1> DEFINE InProgress == InSlots(m, {"running", "saving", "stuck"})
           Q == {<<"queue", p[1], p[2]>> : p \in InQueue(m)}
           S == {<<"slot", slot[s].item, s>> : s \in InProgress}
           R == {<<"redis", i, 0>> : i \in Waiting(m)}
<1>0. TypeOK /\ \A s \in Slot : slot[s].stage \in {"running", "saving", "stuck"} => slot[s].item \in Item
  BY SlotTyped DEF TypeInv
<1>1. \A p \in Tokens(m) : Token(p)
  BY <1>0, TokenPlaces DEF Tokens, Token, TypeOK
<1>2. /\ IsFiniteSet(InQueue(m)) /\ IsFiniteSet(InProgress) /\ IsFiniteSet(Waiting(m))
      /\ Cardinality(InQueue(m)) \in Nat /\ Cardinality(InProgress) \in Nat
      /\ Cardinality(Waiting(m)) \in Nat
  BY PlacesFinite
<1>3. IsFiniteSet(Q) /\ Cardinality(Q) = Cardinality(InQueue(m))
  <2> DEFINE f == [p \in InQueue(m) |-> <<"queue", p[1], p[2]>>]
  <2>1. f \in Surjection(InQueue(m), Q)
    BY DEF Surjection
  <2>2. \A p \in InQueue(m) : p = <<p[1], p[2]>>
    BY DEF InQueue
  <2>3. f \in Injection(InQueue(m), Q)
    <3>1. f \in [InQueue(m) -> Q]
      OBVIOUS
    <3>2. ASSUME NEW a \in InQueue(m), NEW b \in InQueue(m), f[a] = f[b] PROVE a = b
      <4>1. a[1] = b[1] /\ a[2] = b[2]
        BY <3>2
      <4>. QED  BY <2>2, <4>1
    <3>. QED  BY <3>1, <3>2 DEF Injection, IsInjective
  <2>. QED  BY <1>2, <2>1, <2>3, FS_Surjection
<1>4. IsFiniteSet(S) /\ Cardinality(S) = Cardinality(InProgress)
  <2> DEFINE f == [s \in InProgress |-> <<"slot", slot[s].item, s>>]
  <2>1. f \in Surjection(InProgress, S)
    BY DEF Surjection
  <2>2. f \in Injection(InProgress, S)
    BY DEF Injection, IsInjective
  <2>. QED  BY <1>2, <2>1, <2>2, FS_Surjection
<1>5. IsFiniteSet(R) /\ Cardinality(R) = Cardinality(Waiting(m))
  <2> DEFINE f == [i \in Waiting(m) |-> <<"redis", i, 0>>]
  <2>1. f \in Surjection(Waiting(m), R)
    BY DEF Surjection
  <2>2. f \in Injection(Waiting(m), R)
    BY DEF Injection, IsInjective
  <2>. QED  BY <1>2, <2>1, <2>2, FS_Surjection
<1>6. Tokens(m) = (Q \cup S) \cup R
  <2>1. {p \in {"queue"} \X Item \X Nat : p[2].msg = m /\ p[3] \in 1..CountIn(p[2], queue)} = Q
    <3>1. ASSUME NEW i \in Item, NEW n \in Nat
          PROVE  <<i, n>> \in InQueue(m) <=> i.msg = m /\ n \in 1..CountIn(i, queue)
      BY DEF InQueue, CountIn, BagToSet
    <3>2. \A x \in InQueue(m) : x = <<x[1], x[2]>> /\ x[1] \in Item /\ x[2] \in Nat
      BY <1>0 DEF InQueue, TypeOK
    <3>3. ASSUME NEW x \in InQueue(m)
          PROVE  /\ <<"queue", x[1], x[2]>> \in {"queue"} \X Item \X Nat
                 /\ x[1].msg = m /\ x[2] \in 1..CountIn(x[1], queue)
      <4>1. x[1] \in Item /\ x[2] \in Nat /\ <<x[1], x[2]>> \in InQueue(m)
        BY <3>2
      <4>. QED  BY <3>1, <4>1
    <3>4. ASSUME NEW p \in {"queue"} \X Item \X Nat, p[2].msg = m,
                 p[3] \in 1..CountIn(p[2], queue)
          PROVE  \E x \in InQueue(m) : p = <<"queue", x[1], x[2]>>
      <4>1. <<p[2], p[3]>> \in InQueue(m)
        BY <3>1, <3>4
      <4>2. p = <<"queue", p[2], p[3]>>
        OBVIOUS
      <4>. QED  BY <4>1, <4>2
    <3>. QED  BY <3>3, <3>4
  <2>2. {z \in Slot : slot[z].stage \in {"running", "saving", "stuck"} /\ slot[z].item.msg = m} = InProgress
    BY <1>0, SlotTyped DEF InSlots, Busy
  <2>3. {j \in saved \ removing : j.msg = m} = Waiting(m)
    BY DEF Waiting
  <2>. QED  BY <2>1, <2>2, <2>3 DEF Tokens, TokensOf
<1>7. Q \cap S = {} /\ (Q \cup S) \cap R = {}
  OBVIOUS
<1> HIDE DEF Q, S, R
<1>8. /\ IsFiniteSet(Q \cup S)
      /\ Cardinality(Q \cup S) = Cardinality(Q) + Cardinality(S) - Cardinality(Q \cap S)
  BY <1>3, <1>4, FS_Union
<1>9. /\ IsFiniteSet((Q \cup S) \cup R)
      /\ Cardinality((Q \cup S) \cup R) =
           Cardinality(Q \cup S) + Cardinality(R) - Cardinality((Q \cup S) \cap R)
  BY <1>5, <1>8, FS_Union
<1>10. Cardinality(Q \cap S) = 0 /\ Cardinality((Q \cup S) \cap R) = 0
  BY <1>7, FS_EmptySet
<1>11. Cardinality(Tokens(m)) =
         Cardinality(InQueue(m)) + Cardinality(InProgress) + Cardinality(Waiting(m))
  BY <1>2, <1>3, <1>4, <1>5, <1>6, <1>8, <1>9, <1>10
<1>. QED  BY <1>1, <1>6, <1>9, <1>11 DEF Pending

\* A copy weighs one.
LEMMA CopiesAreUnits ==
  ASSUME TypeInv, NEW m
  PROVE  Cardinality(Units("copies", Tokens(m))) = Pending(m)
<1>1. Units("copies", Tokens(m)) = Tokens(m) \X {1}
  <2>1. 1..Weight("copies", 0) = {1} /\ \A p : Weight("copies", p) = Weight("copies", 0)
    BY DEF Weight
  <2>. QED  BY <2>1 DEF Units
<1>2. IsFiniteSet({1}) /\ Cardinality({1}) = 1
  BY FS_Singleton
<1>3. IsFiniteSet(Tokens(m)) /\ Cardinality(Tokens(m)) = Pending(m)
  BY TokensPending
<1>4. Cardinality(Tokens(m) \X {1}) = Cardinality(Tokens(m)) * Cardinality({1})
  BY <1>2, <1>3, FS_Product
<1>5. Cardinality(Tokens(m)) \in Nat
  BY <1>3, FS_CardinalityType
<1>6. Cardinality(Tokens(m)) * Cardinality({1}) = Cardinality(Tokens(m))
  BY <1>2, <1>5
<1>. QED  BY <1>1, <1>3, <1>4, <1>6

\* What the tokens of m may cost: a copy that is decided counts on, and so does
\* a call that has been made.
Spent(c, m) == IF c = "runs" THEN runs[m] ELSE IF m \in decided THEN 1 ELSE 0
Load(c, m)  == Cardinality(Units(c, Tokens(m))) + Spent(c, m)

\* What one fault may add: all that a process has in hand.  A timer that has
\* lost its queues is sure to restart, and pays for that in advance.
Share(c)   == InHand * Full(c)
Reserve(c) == IF registry THEN 0 ELSE Share(c)

\* A fault's share is a number, and covers all slots and all removals.
LEMMA SharesTyped ==
  ASSUME NEW c \in Mode
  PROVE  /\ InHand \in Nat \ {0} /\ Cardinality(Slot) <= InHand /\ ProcessLimit <= InHand
         /\ Cardinality(Slot) \in Nat
         /\ Full(c) \in Nat \ {0} /\ Share(c) \in Nat /\ Full(c) <= Share(c)
         /\ \A n \in Nat : n <= InHand => n * Full(c) \in Nat /\ n * Full(c) <= Share(c)
<1>1. Cardinality(Slot) \in Nat
  BY SlotAssumption, FS_CardinalityType
<1>2. InHand \in Nat \ {0} /\ Cardinality(Slot) <= InHand /\ ProcessLimit <= InHand
  BY <1>1, LimitAssumption DEF InHand
<1>3. Full(c) \in Nat \ {0}
  BY LimitAssumption DEF Full, Mode
<1> DEFINE h == InHand
           k == Full(c)
<1>4. h \in Nat \ {0} /\ k \in Nat \ {0}
  BY <1>2, <1>3
<1> HIDE DEF h, k
<1>5. ASSUME NEW n \in Nat, n <= h PROVE n * k \in Nat /\ n * k <= h * k
  BY <1>4, <1>5
<1>6. h * k \in Nat /\ k <= h * k
  <2>1. 1 * k <= h * k
    BY <1>4, <1>5
  <2>. QED  BY <1>4, <2>1
<1>. QED  BY <1>1, <1>2, <1>3, <1>5, <1>6 DEF Share, h, k

\* A step that leaves the load where it is or lower, or raises it by a share.
Steady(c, m) == Load(c, m)' \in Nat /\ Load(c, m)' <= Load(c, m)
Raised(c, m) == Load(c, m)' \in Nat /\ Load(c, m)' <= Load(c, m) + Share(c)

\* A load is a number.
LEMMA LoadTyped ==
  ASSUME TypeInv, NEW c \in Mode, NEW m \in Msg
  PROVE  /\ Spent(c, m) \in Nat /\ Cardinality(Units(c, Tokens(m))) \in Nat
         /\ Load(c, m) \in Nat
<1>1. Spent(c, m) \in Nat
  BY DEF Spent, TypeInv, TypeOK
<1>2. Cardinality(Units(c, Tokens(m))) \in Nat
  BY TokensPending, UnitsFinite
<1>. QED  BY <1>1, <1>2 DEF Load

\* Where no token comes and nothing is spent, the load does not grow.
LEMMA LoadKept ==
  ASSUME TypeInv, NEW c \in Mode, NEW m \in Msg, Tokens(m)' \subseteq Tokens(m),
         Spent(c, m)' = Spent(c, m)
  PROVE  Steady(c, m)
<1> DEFINE R == Tokens(m)'
<1>1. IsFiniteSet(Tokens(m)) /\ \A p \in Tokens(m) : Token(p)
  BY TokensPending
<1>2. IsFiniteSet(R) /\ \A p \in R : Token(p)
  BY <1>1, FS_Subset
<1>3. Cardinality(Units(c, R)) <= Cardinality(Units(c, Tokens(m)))
  BY <1>1, FewerUnits
<1>4. Cardinality(Units(c, R)) \in Nat
  BY <1>2, UnitsFinite
<1>5. Load(c, m)' = Cardinality(Units(c, R)) + Spent(c, m)
  BY DEF Load
<1>. QED  BY <1>3, <1>4, <1>5, LoadTyped DEF Load, Steady, Raised

\* Where a few tokens come, it grows by no more than a fault's share.
LEMMA LoadRaised ==
  ASSUME TypeInv, NEW c \in Mode, NEW m \in Msg,
         NEW B, IsFiniteSet(B), \A p \in B : Token(p), Cardinality(B) <= InHand,
         Tokens(m)' \subseteq Tokens(m) \cup B, Spent(c, m)' = Spent(c, m)
  PROVE  Raised(c, m)
<1> DEFINE R == Tokens(m)'
<1>1. IsFiniteSet(Tokens(m)) /\ \A p \in Tokens(m) : Token(p)
  BY TokensPending
<1>2. IsFiniteSet(R) /\ \A p \in R : Token(p)
  <2>1. IsFiniteSet(Tokens(m) \cup B)
    BY <1>1, FS_Union
  <2>. QED  BY <1>1, <2>1, FS_Subset
<1>3. InHand \in Nat /\ Share(c) \in Nat
  BY SharesTyped
<1>4. Cardinality(Units(c, R)) <= Cardinality(Units(c, Tokens(m))) + InHand * Full(c)
  BY <1>1, <1>3, TokensAdded
<1>5. Cardinality(Units(c, R)) \in Nat
  BY <1>2, UnitsFinite
<1>6. Load(c, m)' = Cardinality(Units(c, R)) + Spent(c, m)
  BY DEF Load
<1>7. Cardinality(Units(c, R)) <= Cardinality(Units(c, Tokens(m))) + Share(c)
  BY <1>4 DEF Share
<1> HIDE DEF R
<1>. QED  BY <1>3, <1>5, <1>6, <1>7, LoadTyped DEF Load, Steady, Raised

\* Where one token takes another's place, it does not grow if what is spent is
\* taken off the weight.
LEMMA LoadMoved ==
  ASSUME TypeInv, NEW c \in Mode, NEW m \in Msg,
         NEW a \in Tokens(m), NEW b, Token(b), Tokens(m)' \subseteq (Tokens(m) \ {a}) \cup {b},
         Spent(c, m)' \in Nat, Weight(c, b) + Spent(c, m)' <= Weight(c, a) + Spent(c, m)
  PROVE  Steady(c, m)
<1> DEFINE R == Tokens(m)'
<1>1. IsFiniteSet(Tokens(m)) /\ \A p \in Tokens(m) : Token(p)
  BY TokensPending
<1>2. IsFiniteSet(R) /\ \A p \in R : Token(p)
  <2>1. IsFiniteSet(Tokens(m) \cup {b})
    BY <1>1, FS_AddElement
  <2>. QED  BY <1>1, <2>1, FS_Subset
<1>3. Cardinality(Units(c, R)) + Weight(c, a) <= Cardinality(Units(c, Tokens(m))) + Weight(c, b)
  BY <1>1, TokenSwapped
<1>4. Cardinality(Units(c, R)) \in Nat
  BY <1>2, UnitsFinite
<1>5. Load(c, m)' = Cardinality(Units(c, R)) + Spent(c, m)'
  BY DEF Load
<1>6. Weight(c, a) \in Nat /\ Weight(c, b) \in Nat
  BY <1>1, WeightTyped
<1> HIDE DEF R
<1>. QED  BY <1>3, <1>4, <1>5, <1>6, LoadTyped DEF Load, Steady, Raised

\* Where one token goes, it does not grow if no more than its weight is spent.
LEMMA LoadSpent ==
  ASSUME TypeInv, NEW c \in Mode, NEW m \in Msg,
         NEW a \in Tokens(m), Tokens(m)' \subseteq Tokens(m) \ {a},
         Spent(c, m)' \in Nat, Spent(c, m)' <= Weight(c, a) + Spent(c, m)
  PROVE  Steady(c, m)
<1> DEFINE R == Tokens(m)'
           P == Tokens(m) \ {a}
<1>1. IsFiniteSet(Tokens(m)) /\ \A p \in Tokens(m) : Token(p)
  BY TokensPending
<1>2. /\ IsFiniteSet(R) /\ \A p \in R : Token(p)
      /\ IsFiniteSet(P) /\ \A p \in P : Token(p)
  BY <1>1, FS_Subset
<1>3. Cardinality(Units(c, R)) <= Cardinality(Units(c, P))
  BY <1>2, FewerUnits
<1>4. Cardinality(Units(c, R)) \in Nat /\ Cardinality(Units(c, P)) \in Nat
  BY <1>2, UnitsFinite
<1>5. Cardinality(Units(c, P)) + Weight(c, a) = Cardinality(Units(c, Tokens(m)))
  BY <1>1, UnitsWithout
<1>6. Load(c, m)' = Cardinality(Units(c, R)) + Spent(c, m)'
  BY DEF Load
<1>7. Weight(c, a) \in Nat
  BY <1>1, WeightTyped
<1> HIDE DEF R, P
<1>. QED  BY <1>3, <1>4, <1>5, <1>6, <1>7, LoadTyped DEF Load, Steady, Raised

\* Tokens come and go as the queue, the slots and the members left change.
LEMMA TokensFrom ==
  ASSUME NEW m, NEW B,
         \A i \in Item, n \in Nat : n \in 1..CountIn(i, queue') /\ i.msg = m
           => n \in 1..CountIn(i, queue) \/ <<"queue", i, n>> \in B,
         \A s \in Slot : slot'[s].stage \in {"running", "saving", "stuck"} /\ slot'[s].item.msg = m
           => \/ slot[s].stage \in {"running", "saving", "stuck"} /\ slot[s].item = slot'[s].item
              \/ <<"slot", slot'[s].item, s>> \in B,
         \A i \in saved' \ removing' : i.msg = m
           => i \in saved \ removing \/ <<"redis", i, 0>> \in B
  PROVE  Tokens(m)' \subseteq Tokens(m) \cup B
<1> SUFFICES ASSUME NEW p \in TokensOf(queue', slot', saved' \ removing', m)
             PROVE  p \in TokensOf(queue, slot, saved \ removing, m) \cup B
  BY DEF Tokens
<1>1. CASE \E i \in Item : \E n \in Nat :
             n \in 1..CountIn(i, queue') /\ i.msg = m /\ p = <<"queue", i, n>>
  BY <1>1, TokenPlaces
<1>2. CASE \E s \in Slot : /\ slot'[s].stage \in {"running", "saving", "stuck"}
                         /\ slot'[s].item.msg = m
                         /\ p = <<"slot", slot'[s].item, s>>
  BY <1>2, TokenPlaces
<1>3. CASE \E i \in saved' \ removing' : i.msg = m /\ p = <<"redis", i, 0>>
  BY <1>3, TokenPlaces
<1>. QED  BY <1>1, <1>2, <1>3, TokenPlaces

\* A delivery moves a token from the queue to a slot; a call of consume() is spent.
LEMMA DeliverLoad ==
  ASSUME TypeInv, NEW s \in Slot, NEW i \in BagToSet(queue), Deliver(s, i),
         NEW c \in Mode, NEW m \in Msg
  PROVE  Steady(c, m)
<1> DEFINE a == <<"queue", i, CountIn(i, queue)>>
           b == <<"slot", i, s>>
<1>1. i \in Item /\ IsABag(queue) /\ CountIn(i, queue) \in Nat /\ CountIn(i, queue) > 0
  BY DEF TypeInv, TypeOK, IsABag, CountIn, BagToSet
<1>2. /\ slot'[s].stage = "running" /\ slot'[s].item = i
      /\ \A z \in Slot \ {s} : slot'[z] = slot[z]
  BY ItemDelivered DEF TypeInv
<1>3. \A j : CountIn(j, queue') = IF j = i THEN CountIn(i, queue) - 1 ELSE CountIn(j, queue)
  BY <1>1, OneTaken DEF Deliver
<1>4. saved' = saved /\ removing' = removing /\ decided' = decided
      /\ runs' = [runs EXCEPT ![i.msg] = @ + 1]
  BY DEF Deliver, redis, app
<1>5. Tokens(m)' \subseteq Tokens(m) \cup {b}
  <2>1. \A j \in Item, n \in Nat : n \in 1..CountIn(j, queue') => n \in 1..CountIn(j, queue)
    BY <1>1, <1>3
  <2>2. \A z \in Slot : \/ slot'[z] = slot[z]
                        \/ <<"slot", slot'[z].item, z>> \in {b}
    BY <1>2
  <2>. QED  BY <1>4, <2>1, <2>2, TokensFrom
<1>6. CASE m # i.msg
  <2>1. b \notin Tokens(m)'
    BY <1>2, <1>6, TokenPlaces DEF Tokens
  <2>2. Spent(c, m)' = Spent(c, m)
    BY <1>1, <1>4, <1>6 DEF Spent, TypeInv, TypeOK
  <2>. QED  BY <1>5, <2>1, <2>2, LoadKept
<1>7. CASE m = i.msg
  <2>1. a \in Tokens(m)
    BY <1>1, <1>7, TokenPlaces DEF Tokens
  <2>2. a \notin Tokens(m)'
    <3>1. CountIn(i, queue) \notin 1..CountIn(i, queue')
      BY <1>1, <1>3
    <3>. QED  BY <3>1, TokenPlaces DEF Tokens
  <2>3. Tokens(m)' \subseteq (Tokens(m) \ {a}) \cup {b}
    BY <1>5, <2>2
  <2>4. Spent(c, m)' \in Nat /\ Spent(c, m)' = Spent(c, m) + (IF c = "runs" THEN 1 ELSE 0)
    BY <1>4, <1>7 DEF Spent, TypeInv, TypeOK, Mode
  <2>5. Token(a) /\ Token(b)
    BY <1>1 DEF Token
  <2>6. Weight(c, b) + (IF c = "runs" THEN 1 ELSE 0) = Weight(c, a)
    BY <1>1, LimitAssumption DEF Weight, Mode, Item
  <2>7. Weight(c, a) \in Nat /\ Weight(c, b) \in Nat /\ Spent(c, m) \in Nat
    BY <2>5, WeightTyped, LoadTyped
  <2>. QED  BY <2>1, <2>3, <2>4, <2>5, <2>6, <2>7, LoadMoved
<1>. QED  BY <1>6, <1>7

\* A decision takes the token of its slot.
LEMMA FinishLoad ==
  ASSUME TypeInv, NEW s \in Slot, Finish(s), NEW c \in Mode, NEW m \in Msg
  PROVE  Steady(c, m)
<1> DEFINE a == <<"slot", slot[s].item, s>>
<1>1. slot'[s].stage = "free" /\ \A z \in Slot \ {s} : slot'[z] = slot[z]
  BY SlotFreed DEF TypeInv, Finish
<1>2. /\ saved' = saved /\ removing' = removing /\ queue' = queue /\ runs' = runs
      /\ slot[s].stage = "running" /\ decided' = decided \cup {slot[s].item.msg}
  BY DEF Finish, redis, app
<1>3. Tokens(m)' \subseteq Tokens(m) \cup {}
  BY <1>1, <1>2, TokensFrom
<1>4. CASE m # slot[s].item.msg
  <2>1. Spent(c, m)' = Spent(c, m)
    BY <1>2, <1>4 DEF Spent
  <2>. QED  BY <1>3, <2>1, LoadKept
<1>5. CASE m = slot[s].item.msg
  <2>1. a \in Tokens(m)
    BY <1>2, <1>5, TokenPlaces DEF Tokens
  <2>2. a \notin Tokens(m)'
    BY <1>1, TokenPlaces DEF Tokens
  <2>3. Tokens(m)' \subseteq Tokens(m) \ {a}
    BY <1>3, <2>2
  <2>4. Token(a)
    BY <2>1, TokensPending
  <2>5. Weight(c, a) \in Nat /\ (c = "copies" => Weight(c, a) = 1)
    BY <2>4, WeightTyped DEF Weight
  <2>6. Spent(c, m)' \in Nat /\ Spent(c, m)' <= Weight(c, a) + Spent(c, m)
    BY <1>2, <2>5 DEF Spent, TypeInv, TypeOK, Mode
  <2>. QED  BY <2>1, <2>3, <2>6, LoadSpent
<1>. QED  BY <1>4, <1>5

\* A zadd moves a token from its slot to Redis, and the counter is up by one.
LEMMA SaveLoad ==
  ASSUME TypeInv, NEW s \in Slot, SaveMessageToRedis(s), NEW c \in Mode, NEW m \in Msg
  PROVE  Steady(c, m)
<1> DEFINE i == slot[s].item
           a == <<"slot", i, s>>
           b == <<"redis", Next1(i), 0>>
<1>1. /\ slot'[s].stage = "saved" /\ slot'[s].item = i
      /\ \A z \in Slot \ {s} : slot'[z] = slot[z]
  BY StageChanged DEF TypeInv, SaveMessageToRedis
<1>2. /\ saved' = saved \cup {Next1(i)} /\ removing' = removing /\ queue' = queue
      /\ slot[s].stage = "saving" /\ decided' = decided /\ runs' = runs
  BY DEF SaveMessageToRedis, app, history
<1>3. i \in Item /\ i.attempt < RetryLimit /\ i.attempt \in Nat
  <2>1. i \in Item /\ i.attempt < RetryLimit
    BY <1>2, SlotTyped DEF TypeInv, Shapes
  <2>. QED  BY <2>1 DEF Item
<1>4. /\ Next1(i) \in Item /\ Next1(i).msg = i.msg /\ Next1(i).attempt = i.attempt + 1
  BY <1>3, NextIsMember DEF Member
<1> HIDE DEF i
<1>5. Tokens(m)' \subseteq Tokens(m) \cup {b}
  <2>1. \A z \in Slot : slot'[z].stage \in {"running", "saving", "stuck"} => slot'[z] = slot[z]
    BY <1>1
  <2>2. \A j \in saved' \ removing' : j \in saved \ removing \/ <<"redis", j, 0>> \in {b}
    BY <1>2
  <2>. QED  BY <1>2, <2>1, <2>2, TokensFrom
<1>6. Spent(c, m)' = Spent(c, m) /\ Spent(c, m) \in Nat
  BY <1>2, LoadTyped DEF Spent
<1>7. CASE m # i.msg
  <2>1. b \notin Tokens(m)'
    BY <1>4, <1>7, TokenPlaces DEF Tokens
  <2>. QED  BY <1>5, <1>6, <2>1, LoadKept
<1>8. CASE m = i.msg
  <2>1. a \in Tokens(m)
    BY <1>2, <1>8, TokenPlaces DEF Tokens, i
  <2>2. a \notin Tokens(m)'
    BY <1>1, TokenPlaces DEF Tokens
  <2>3. Tokens(m)' \subseteq (Tokens(m) \ {a}) \cup {b}
    BY <1>5, <2>2
  <2>4. Token(b) /\ Token(a)
    BY <1>3, <1>4 DEF Token
  <2>5. Weight(c, b) = Weight(c, a)
    BY <1>3, <1>4, LimitAssumption DEF Weight
  <2>6. Weight(c, b) + Spent(c, m)' <= Weight(c, a) + Spent(c, m)
    BY <1>6, <2>4, <2>5, WeightTyped
  <2>. QED  BY <1>6, <2>1, <2>3, <2>4, <2>6, LoadMoved
<1>. QED  BY <1>7, <1>8

\* Steps that add no token at all.
LEMMA QuietLoad ==
  ASSUME TypeInv, NEW c \in Mode, NEW m \in Msg,
         \/ \E s \in Slot : LeaveUnanswered(s) \/ RequestRetry(s) \/ AckSaved(s)
         \/ \E i \in saved : BecomesDue(i)
         \/ Tick \/ ReadFails \/ TimerAppStops
         \/ RepublishVanishes \/ RepublishThrows
         \/ \E i \in removing : RemoveProcessedMessage(i) \/ RemoveResent(i)
         \/ UNCHANGED vars
  PROVE  Steady(c, m)
<1>0. TypeOK
  BY DEF TypeInv
<1>1. queue' = queue /\ decided' = decided /\ runs' = runs
  BY DEF LeaveUnanswered, RequestRetry, AckSaved, BecomesDue, Tick, ReadFails, TimerAppStops,
         RepublishVanishes, RepublishThrows, RemoveProcessedMessage, RemoveResent,
         vars, redis, app, history
<1>2. saved' \ removing' \subseteq saved \ removing
  BY DEF LeaveUnanswered, RequestRetry, AckSaved, BecomesDue, Tick, ReadFails, TimerAppStops,
         RepublishVanishes, RepublishThrows, Answered, RemoveProcessedMessage, RemoveResent,
         vars, redis, app, history
<1>3. \A z \in Slot : slot'[z].stage \in {"running", "saving", "stuck"}
                      => /\ slot[z].stage \in {"running", "saving", "stuck"}
                         /\ slot[z].item = slot'[z].item
  <2>1. ASSUME NEW s \in Slot, LeaveUnanswered(s) \/ RequestRetry(s)
        PROVE  /\ slot'[s].item = slot[s].item /\ slot[s].stage = "running"
               /\ \A z \in Slot \ {s} : slot'[z] = slot[z]
    BY <1>0, <2>1, StageChanged DEF LeaveUnanswered, RequestRetry
  <2>2. ASSUME NEW s \in Slot, AckSaved(s)
        PROVE  slot'[s].stage = "free" /\ \A z \in Slot \ {s} : slot'[z] = slot[z]
    BY <1>0, <2>2, SlotFreed DEF AckSaved
  <2>3. \/ slot' = slot
        \/ \E s \in Slot : LeaveUnanswered(s) \/ RequestRetry(s) \/ AckSaved(s)
    BY DEF BecomesDue, Tick, ReadFails, TimerAppStops, RepublishVanishes, RepublishThrows,
           RemoveProcessedMessage, RemoveResent, vars
  <2>. QED  BY <2>1, <2>2, <2>3
<1>4. Tokens(m)' \subseteq Tokens(m) \cup {}
  BY <1>1, <1>2, <1>3, TokensFrom
<1>5. Spent(c, m)' = Spent(c, m)
  BY <1>1 DEF Spent
<1>. QED  BY <1>4, <1>5, LoadKept

\* A zadd that rejects: the delivery stays, next to the member if that was saved.
LEMMA SaveFailsLoad ==
  ASSUME TypeInv, NEW s \in Slot, SaveFails(s), NEW c \in Mode, NEW m \in Msg
  PROVE  Raised(c, m)
<1> DEFINE b == <<"slot", slot[s].item, s>>
<1>0. TypeOK /\ slot[s].stage \in {"saving", "saved"}
  BY DEF TypeInv, SaveFails
<1>1. /\ slot'[s].item = slot[s].item /\ slot[s].item \in Item
      /\ \A z \in Slot \ {s} : slot'[z] = slot[z]
  BY <1>0, StageChanged, SlotTyped DEF SaveFails
<1>2. queue' = queue /\ saved' = saved /\ removing' = removing /\ decided' = decided /\ runs' = runs
  BY DEF SaveFails, redis, app, history
<1>3. Token(b)
  BY <1>1 DEF Token
<1>4. Tokens(m)' \subseteq Tokens(m) \cup {b}
  BY <1>1, <1>2, TokensFrom
<1>5. IsFiniteSet({b}) /\ Cardinality({b}) = 1
  BY FS_Singleton
<1>6. 1 <= InHand
  BY SlotAssumption, LimitAssumption, FS_CardinalityType DEF InHand
<1>7. Spent(c, m)' = Spent(c, m)
  BY <1>2 DEF Spent
<1>. QED  BY <1>3, <1>4, <1>5, <1>6, <1>7, LoadRaised

\* Replies that are lost: at most all slots save again.
LEMMA ResentLoad ==
  ASSUME TypeInv, SaveResent, NEW c \in Mode, NEW m \in Msg
  PROVE  Raised(c, m)
<1> DEFINE S == {s \in Slot : slot[s].stage = "saved"}
           B == {<<"slot", slot[s].item, s>> : s \in S}
           f == [s \in S |-> <<"slot", slot[s].item, s>>]
<1>0. TypeOK
  BY DEF TypeInv
<1>1. queue' = queue /\ saved' = saved /\ removing' = removing /\ decided' = decided /\ runs' = runs
  BY DEF SaveResent, redis, app, history
<1>2. IsFiniteSet(S) /\ Cardinality(S) <= Cardinality(Slot)
  BY SlotAssumption, FS_Subset
<1>3. f \in Surjection(S, B)
  BY DEF Surjection
<1>4. IsFiniteSet(B) /\ Cardinality(B) <= Cardinality(S)
  BY <1>2, <1>3, FS_Surjection
<1>5. Cardinality(B) <= InHand
  <2>1. Cardinality(S) \in Nat /\ Cardinality(B) \in Nat
    BY <1>2, <1>4, FS_CardinalityType
  <2>. QED  BY <1>2, <1>4, <2>1, SharesTyped
<1>6. \A p \in B : Token(p)
  <2>1. \A s \in S : slot[s].item \in Item
    BY <1>0, SlotTyped
  <2>. QED  BY <2>1 DEF Token
<1>7. \A s \in Slot : \/ s \in S /\ slot'[s].item = slot[s].item
                      \/ slot'[s] = slot[s]
  BY <1>0, SlotsResent
<1>8. \A s \in Slot : \/ <<"slot", slot'[s].item, s>> \in B
                      \/ slot'[s] = slot[s]
  BY <1>7
<1> HIDE DEF B
<1>9. Tokens(m)' \subseteq Tokens(m) \cup B
  BY <1>1, <1>8, TokensFrom
<1>10. Spent(c, m)' = Spent(c, m)
  BY <1>1 DEF Spent
<1>. QED  BY <1>4, <1>5, <1>6, <1>9, <1>10, LoadRaised

\* Removals that are given up: at most all of them are members to republish again.
LEMMA UnremovedLoad ==
  ASSUME TypeInv, NEW c \in Mode, NEW m \in Msg,
         TimerRestarts \/ \E i \in removing : RemoveFails(i)
  PROVE  Raised(c, m)
<1> DEFINE B == {<<"redis", i, 0>> : i \in removing}
           f == [i \in removing |-> <<"redis", i, 0>>]
<1>1. /\ queue' = queue /\ saved' = saved /\ slot' = slot /\ decided' = decided /\ runs' = runs
  BY DEF TimerRestarts, RemoveFails, redis, app, history
<1>2. IsFiniteSet(removing) /\ Cardinality(removing) <= ProcessLimit
  BY DEF TypeInv, Shapes
<1>3. f \in Surjection(removing, B)
  BY DEF Surjection
<1>4. IsFiniteSet(B) /\ Cardinality(B) <= Cardinality(removing)
  BY <1>2, <1>3, FS_Surjection
<1>5. Cardinality(B) <= InHand
  <2>1. Cardinality(removing) \in Nat /\ Cardinality(B) \in Nat
    BY <1>2, <1>4, FS_CardinalityType
  <2>. QED  BY <1>2, <1>4, <2>1, SharesTyped, LimitAssumption
<1>6. \A p \in B : Token(p)
  BY DEF Token, TypeInv, TypeOK
<1>7. \A i \in saved' \ removing' : i \in saved \ removing \/ <<"redis", i, 0>> \in B
  BY <1>1
<1> HIDE DEF B
<1>9. Tokens(m)' \subseteq Tokens(m) \cup B
  BY <1>1, <1>7, TokensFrom
<1>10. Spent(c, m)' = Spent(c, m)
  BY <1>1 DEF Spent
<1>. QED  BY <1>4, <1>5, <1>6, <1>9, <1>10, LoadRaised

\* A worker that dies: at most as many copies come back to the queue as it held.
LEMMA CrashLoad ==
  ASSUME TypeInv, WorkerCrash, NEW c \in Mode, NEW m \in Msg
  PROVE  Raised(c, m)
<1> DEFINE Held(i) == {s \in Busy : slot[s].item = i}
           More(i) == (CountIn(i, queue) + 1)..(CountIn(i, queue) + CountIn(i, HeldBag))
           B == {p \in {"queue"} \X Item \X Nat : p[3] \in More(p[2])}
<1>0. TypeOK /\ IsABag(queue) /\ IsABag(HeldBag)
  BY HeldIsBag DEF TypeInv, TypeOK
<1>1. saved' = saved /\ removing' = removing /\ decided' = decided /\ runs' = runs
  BY DEF WorkerCrash, redis, app, history
<1>2. \A s \in Slot : slot'[s].stage = "free"
  BY <1>0, ItemsReturned
<1>3. \A i : CountIn(i, queue') = CountIn(i, queue) + CountIn(i, HeldBag)
  BY <1>0, BagsAdded DEF WorkerCrash
<1>4. \A i : CountIn(i, queue) \in Nat /\ CountIn(i, HeldBag) \in Nat
  BY <1>0 DEF CountIn, IsABag
<1>5. Busy \subseteq Slot /\ IsFiniteSet(Busy)
  BY SlotAssumption, FS_Subset DEF Busy
<1>6. \A i : IsFiniteSet(Held(i)) /\ Cardinality(Held(i)) \in Nat
  BY <1>5, FS_Subset, FS_CardinalityType
<1>7. \A i : CountIn(i, HeldBag) \in {0, Cardinality(Held(i))}
  BY DEF CountIn, HeldBag
<1> DEFINE g == [i \in Item |-> CHOOSE h \in Bijection(1..Cardinality(Held(i)), Held(i)) : TRUE]
           f == [p \in B |-> g[p[2]][p[3] - CountIn(p[2], queue)]]
<1>8. ASSUME NEW i \in Item PROVE g[i] \in Bijection(1..Cardinality(Held(i)), Held(i))
  <2>1. Bijection(1..Cardinality(Held(i)), Held(i)) # {}
    BY <1>6, FS_CardinalityType DEF ExistsBijection
  <2>. QED  BY <2>1
<1> HIDE DEF g
<1>9. ASSUME NEW p \in B
      PROVE  /\ p[2] \in Item /\ p[3] \in Nat /\ p = <<"queue", p[2], p[3]>>
             /\ p[3] - CountIn(p[2], queue) \in 1..Cardinality(Held(p[2]))
  BY <1>4, <1>6, <1>7
<1>10. ASSUME NEW p \in B PROVE f[p] \in Busy /\ slot[f[p]].item = p[2]
  <2>1. g[p[2]][p[3] - CountIn(p[2], queue)] \in Held(p[2])
    BY <1>8, <1>9 DEF Bijection, Injection
  <2>. QED  BY <2>1
<1>11. f \in Injection(B, Busy)
  <2>1. ASSUME NEW p \in B, NEW q \in B, f[p] = f[q] PROVE p = q
    <3>1. p[2] = q[2]
      <4>1. slot[f[p]].item = p[2] /\ slot[f[q]].item = q[2]
        BY <1>10
      <4> HIDE DEF f
      <4>. QED  BY <2>1, <4>1
    <3> DEFINE x == p[3] - CountIn(p[2], queue)
               y == q[3] - CountIn(p[2], queue)
    <3>2. /\ x \in 1..Cardinality(Held(p[2])) /\ y \in 1..Cardinality(Held(p[2]))
          /\ g[p[2]][x] = g[p[2]][y]
      BY <1>9, <2>1, <3>1
    <3> HIDE DEF x, y
    <3>3. x = y
      BY <1>8, <1>9, <3>2 DEF Bijection, Injection, IsInjective
    <3>4. p[3] = q[3]
      BY <1>4, <1>9, <3>1, <3>3 DEF x, y
    <3>. QED  BY <1>9, <3>1, <3>4
  <2>2. f \in [B -> Busy]
    BY <1>10
  <2>. QED  BY <2>1, <2>2 DEF Injection, IsInjective
<1>12. IsFiniteSet(B) /\ Cardinality(B) <= Cardinality(Busy)
  BY <1>5, <1>11, FS_Injection
<1>13. Cardinality(B) <= InHand
  <2>1. Cardinality(Busy) <= Cardinality(Slot)
    BY <1>5, SlotAssumption, FS_Subset
  <2>2. Cardinality(Busy) \in Nat /\ Cardinality(B) \in Nat
    BY <1>5, <1>12, FS_CardinalityType
  <2>. QED  BY <1>12, <2>1, <2>2, SharesTyped
<1>14. \A p \in B : Token(p)
  BY <1>9 DEF Token
<1>15. \A i \in Item, n \in Nat :
         n \in 1..CountIn(i, queue') => n \in 1..CountIn(i, queue) \/ <<"queue", i, n>> \in B
  BY <1>3, <1>4
<1> HIDE DEF B
<1>16. Tokens(m)' \subseteq Tokens(m) \cup B
  BY <1>1, <1>2, <1>15, TokensFrom
<1>17. Spent(c, m)' = Spent(c, m)
  BY <1>1 DEF Spent
<1>. QED  BY <1>12, <1>13, <1>14, <1>16, <1>17, LoadRaised

\* A tick moves the tokens of what it republishes from Redis to the queue, each
\* with its counter.
LEMMA RepublishLoad ==
  ASSUME TypeInv, RepublishMessages, NEW c \in Mode, NEW m \in Msg
  PROVE  Steady(c, m)
<1> DEFINE G == {i \in Republishable : i.msg = m}
           Copy(i) == <<"queue", i, CountIn(i, queue) + 1>>
           A == {<<"redis", i, 0>> : i \in G}
           B == {Copy(i) : i \in G}
           P == Tokens(m)
           R == Tokens(m)'
<1>0. TypeOK
  BY DEF TypeInv
<1>1. /\ saved' = saved /\ slot' = slot /\ decided' = decided /\ runs' = runs
      /\ removing = {} /\ removing' = ReadyMessages
  BY DEF RepublishMessages, Answered, redis
<1>2. Republishable \subseteq ReadyMessages /\ ReadyMessages \subseteq saved /\ saved \subseteq Item
  BY <1>0, ReadyIsDue DEF Republishable, TypeOK
<1>3. \A i : CountIn(i, queue) \in Nat
  BY <1>0 DEF CountIn, IsABag, TypeOK
<1>4. \A i : CountIn(i, queue') = CountIn(i, queue) + (IF i \in Republishable THEN 1 ELSE 0)
  <2>1. /\ IsABag(SetToBag(Republishable))
        /\ \A i : CountIn(i, SetToBag(Republishable)) = IF i \in Republishable THEN 1 ELSE 0
    BY SetAsBag
  <2>. QED  BY <1>0, <2>1, BagsAdded DEF RepublishMessages, Put, TypeOK
<1>5. A \subseteq P
  BY <1>1, <1>2, TokenPlaces DEF Tokens
<1>6. IsFiniteSet(P) /\ \A p \in P : Token(p)
  BY TokensPending
<1>7. IsFiniteSet(A) /\ IsFiniteSet(P \ A)
  BY <1>5, <1>6, FS_Subset
<1>8. IsFiniteSet(B)
  <2> DEFINE f == [i \in G |-> Copy(i)]
  <2>1. IsFiniteSet(G)
    BY <1>2, ReadyIsDue, FS_Subset
  <2>2. f \in Surjection(G, B)
    BY DEF Surjection
  <2>. QED  BY <2>1, <2>2, FS_Surjection
<1>9. \A p \in B : Token(p)
  BY <1>2, <1>3 DEF Token
<1>10. R \subseteq (P \ A) \cup B
  <2>1. \A i \in Item, n \in Nat : n \in 1..CountIn(i, queue') /\ i.msg = m
          => n \in 1..CountIn(i, queue) \/ <<"queue", i, n>> \in B
    BY <1>3, <1>4
  <2>2. \A i \in saved' \ removing' : i \in saved \ removing
    BY <1>1
  <2> HIDE DEF B
  <2>3. R \subseteq P \cup B
    BY <1>1, <2>1, <2>2, TokensFrom
  <2>4. \A p \in A : p \notin R
    BY <1>1, <1>2, TokenPlaces DEF Tokens
  <2>. QED  BY <2>3, <2>4
<1>11. Cardinality(Units(c, B)) <= Cardinality(Units(c, A))
  <2> DEFINE f == [x \in Units(c, A) |-> <<Copy(x[1][2]), x[2]>>]
  <2>1. \A i \in G : Weight(c, Copy(i)) = Weight(c, <<"redis", i, 0>>)
    BY DEF Weight
  <2>2. ASSUME NEW x \in Units(c, A) PROVE f[x] \in Units(c, B)
    <3>1. PICK i \in G : x \in {<<"redis", i, 0>>} \X (1..Weight(c, <<"redis", i, 0>>))
      BY DEF Units
    <3>2. x[1][2] = i /\ x[2] \in 1..Weight(c, Copy(i))
      BY <2>1, <3>1
    <3>3. f[x] \in {Copy(i)} \X (1..Weight(c, Copy(i)))
      BY <3>2
    <3>. QED  BY <3>3 DEF Units
  <2>3. ASSUME NEW y \in Units(c, B) PROVE \E x \in Units(c, A) : f[x] = y
    <3>1. PICK i \in G : y \in {Copy(i)} \X (1..Weight(c, Copy(i)))
      BY DEF Units
    <3> DEFINE x == <<<<"redis", i, 0>>, y[2]>>
    <3>2. x \in {<<"redis", i, 0>>} \X (1..Weight(c, <<"redis", i, 0>>))
      BY <2>1, <3>1
    <3>3. x \in Units(c, A)
      BY <3>2 DEF Units
    <3>4. f[x] = <<Copy(i), y[2]>>
      BY <3>3
    <3>5. y = <<Copy(i), y[2]>>
      BY <3>1
    <3>6. f[x] = y
      BY <3>4, <3>5
    <3>. QED  BY <3>3, <3>6
  <2>4. f \in Surjection(Units(c, A), Units(c, B))
    <3>1. f \in [Units(c, A) -> Units(c, B)]
      BY <2>2
    <3>. QED  BY <2>3, <3>1 DEF Surjection
  <2>5. IsFiniteSet(Units(c, A))
    BY <1>5, <1>6, <1>7, UnitsFinite
  <2>. QED  BY <2>4, <2>5, FS_Surjection
<1>12. \A p \in (P \ A) \cup B : Token(p)
  BY <1>6, <1>9
<1>13. IsFiniteSet((P \ A) \cup B) /\ IsFiniteSet(R)
  <2>1. IsFiniteSet((P \ A) \cup B)
    BY <1>7, <1>8, FS_Union
  <2>. QED  BY <1>10, <2>1, FS_Subset
<1>14. \A p \in A : Token(p)
  BY <1>5, <1>6
<1> HIDE DEF A, B, P, R
<1>15. Cardinality(Units(c, R)) <= Cardinality(Units(c, (P \ A) \cup B))
  BY <1>10, <1>12, <1>13, FewerUnits
<1>16. Cardinality(Units(c, (P \ A) \cup B)) <= Cardinality(Units(c, P \ A)) + Cardinality(Units(c, B))
  BY <1>6, <1>7, <1>8, <1>9, JoinedUnits
<1>17. Cardinality(Units(c, P \ A)) + Cardinality(Units(c, A)) = Cardinality(Units(c, P))
  BY <1>5, <1>6, UnitsWithoutSome
<1>18. /\ Cardinality(Units(c, R)) \in Nat /\ Cardinality(Units(c, (P \ A) \cup B)) \in Nat
       /\ Cardinality(Units(c, P \ A)) \in Nat /\ Cardinality(Units(c, A)) \in Nat
       /\ Cardinality(Units(c, B)) \in Nat /\ Cardinality(Units(c, P)) \in Nat
  <2>1. (\A p \in R : Token(p)) /\ (\A p \in P \ A : Token(p))
    BY <1>6, <1>10, <1>12
  <2>. QED  BY <1>6, <1>7, <1>8, <1>9, <1>12, <1>13, <1>14, <2>1, UnitsFinite
<1>19. Cardinality(Units(c, R)) <= Cardinality(Units(c, P))
  BY <1>11, <1>15, <1>16, <1>17, <1>18
<1>20. Spent(c, m)' = Spent(c, m) /\ Spent(c, m) \in Nat
  BY <1>1, LoadTyped DEF Spent
<1>21. /\ Load(c, m)' = Cardinality(Units(c, R)) + Spent(c, m)'
       /\ Load(c, m) = Cardinality(Units(c, P)) + Spent(c, m)
  BY DEF Load, P, R
<1>. QED  BY <1>18, <1>19, <1>20, <1>21 DEF Steady

\* A message that is published weighs its full weight; to all others nothing
\* happens.
LEMMA PublishLoad ==
  ASSUME TypeInv, Known, NEW p \in Msg, Publish(p), NEW c \in Mode, NEW m \in Msg
  PROVE  IF m = p THEN Spent(c, m) = 0 => Load(c, m)' \in Nat /\ Load(c, m)' <= Full(c)
                  ELSE Steady(c, m)
<1> DEFINE i == [msg |-> p, attempt |-> 0]
           b == <<"queue", i, 1>>
<1>0. TypeOK
  BY DEF TypeInv
<1>1. /\ saved' = saved /\ slot' = slot /\ decided' = decided /\ runs' = runs
      /\ removing' = removing /\ p \notin published
  BY DEF Publish, redis, app, history
<1>2. i \in Item /\ i.msg = p /\ i.attempt = 0
  BY LimitAssumption DEF Item
<1>3. \A j : CountIn(j, queue') = CountIn(j, queue) + (IF j = i THEN 1 ELSE 0)
  <2>1. /\ IsABag(SetToBag({i}))
        /\ \A j : CountIn(j, SetToBag({i})) = IF j \in {i} THEN 1 ELSE 0
    BY SetAsBag
  <2>2. queue' = queue (+) SetToBag({i}) /\ IsABag(queue)
    BY <1>0 DEF Publish, Put, TypeOK
  <2> HIDE DEF i
  <2>3. \A j : CountIn(j, queue') = CountIn(j, queue) + CountIn(j, SetToBag({i}))
    BY <2>1, <2>2, BagsAdded
  <2>. QED  BY <2>1, <2>3
<1>4. (\A j : CountIn(j, queue) \in Nat) /\ CountIn(i, queue) = 0
  BY <1>0, <1>1, <1>2 DEF CountIn, IsABag, TypeOK, Known, BagToSet
<1> HIDE DEF i
<1>5. Tokens(m)' \subseteq Tokens(m) \cup {b}
  <2>1. \A j \in Item, n \in Nat : n \in 1..CountIn(j, queue')
          => n \in 1..CountIn(j, queue) \/ <<"queue", j, n>> \in {b}
    BY <1>3, <1>4
  <2>. QED  BY <1>1, <2>1, TokensFrom
<1>6. Spent(c, m)' = Spent(c, m)
  BY <1>1 DEF Spent
<1>7. CASE m # p
  <2>1. b \notin Tokens(m)'
    BY <1>2, <1>7, TokenPlaces DEF Tokens
  <2>. QED  BY <1>5, <1>6, <1>7, <2>1, LoadKept
<1>8. CASE m = p
  <2>1. Tokens(m) = {}
    <3>1. \A j \in Item : j.msg = p => CountIn(j, queue) = 0
      BY <1>1 DEF CountIn, Known, BagToSet
    <3>2. \A s \in Slot : slot[s].stage \in {"running", "saving", "stuck"} => slot[s].item.msg # p
      BY <1>1 DEF Known
    <3>3. \A j \in saved \ removing : j.msg # p
      BY <1>1 DEF Known
    <3>4. \A x : x \notin Tokens(m)
      BY <1>8, <3>1, <3>2, <3>3, TokenPlaces DEF Tokens
    <3>. QED  BY <3>4
  <2> DEFINE R == Tokens(m)'
  <2>2. R \subseteq {b} /\ Token(b) /\ IsFiniteSet({b}) /\ IsFiniteSet(R)
    <3>1. R \subseteq {b} /\ Token(b)
      BY <1>2, <1>5, <2>1 DEF Token
    <3>2. IsFiniteSet({b})
      BY FS_Singleton
    <3>. QED  BY <3>1, <3>2, FS_Subset
  <2>3. Cardinality(Units(c, R)) <= Cardinality(Units(c, {b}))
    BY <2>2, FewerUnits
  <2>4. Cardinality(Units(c, {b})) = Weight(c, b) /\ Weight(c, b) \in Nat /\ Weight(c, b) <= Full(c)
    BY <2>2, OneTokensUnits, WeightTyped
  <2>5. Cardinality(Units(c, R)) \in Nat /\ Full(c) \in Nat
    BY <2>2, UnitsFinite, SharesTyped
  <2>6. Load(c, m)' = Cardinality(Units(c, R)) + Spent(c, m)
    BY <1>6 DEF Load
  <2> HIDE DEF R
  <2>. QED  BY <1>8, <2>3, <2>4, <2>5, <2>6
<1>. QED  BY <1>7, <1>8

Bound(c) == Full(c) + faults * Share(c)

\* The load of a published message stays within one copy and a share for each
\* fault; nothing is spent on the others; and it takes a fault to lose the
\* queues.
BudgetInv ==
  /\ registry \/ faults > 0
  /\ \A m \in Msg, c \in Mode : IF m \in published THEN Load(c, m) + Reserve(c) <= Bound(c)
                                                   ELSE Spent(c, m) = 0

\* One fault more allows one share more.
LEMMA BoundsTyped ==
  ASSUME TypeInv, TypeInv', NEW c \in Mode
  PROVE  /\ Bound(c) \in Nat /\ Bound(c)' \in Nat /\ Share(c) \in Nat /\ Share(c)' = Share(c)
         /\ faults' = faults => Bound(c)' = Bound(c)
         /\ faults' = faults + 1 => Bound(c)' = Bound(c) + Share(c)
         /\ Full(c) <= Bound(c)
         /\ faults > 0 => Full(c) + Share(c) <= Bound(c)
<1> DEFINE h == Share(c)
<1>1. h \in Nat /\ Full(c) \in Nat
  BY SharesTyped
<1>2. faults \in Nat /\ faults' \in Nat
  BY FaultAssumption DEF TypeInv, TypeOK
<1>3. Share(c)' = h
  BY DEF Share, InHand, Full
<1>4. Bound(c) = Full(c) + faults * h /\ Bound(c)' = Full(c) + faults' * h
  BY <1>3 DEF Bound
<1> HIDE DEF h
<1>5. \A n \in Nat : n * h \in Nat /\ (n + 1) * h = n * h + h /\ (n > 0 => h <= n * h)
  <2>1. \A n \in Nat : n * h \in Nat /\ (n + 1) * h = n * h + h
    BY <1>1
  <2>2. ASSUME NEW n \in Nat, n > 0 PROVE h <= n * h
    <3>1. n - 1 \in Nat /\ (n - 1) + 1 = n
      BY <2>2
    <3>2. (n - 1) * h \in Nat /\ ((n - 1) + 1) * h = (n - 1) * h + h
      BY <2>1, <3>1
    <3>3. n * h = (n - 1) * h + h
      BY <3>1, <3>2
    <3> DEFINE k == (n - 1) * h
    <3> HIDE DEF k
    <3>4. n * h = k + h /\ k \in Nat
      BY <3>2, <3>3 DEF k
    <3>. QED  BY <1>1, <3>4
  <2>. QED  BY <2>1, <2>2
<1>6. /\ faults * h \in Nat /\ faults' * h \in Nat
      /\ faults' = faults + 1 => faults' * h = faults * h + h
      /\ faults > 0 => h <= faults * h
  BY <1>2, <1>5
<1>. QED  BY <1>1, <1>3, <1>4, <1>6 DEF h

\* What is published grows with Publish only; without a fault the timer's queues
\* stay; and calls and decisions are counted where they are made.
LEMMA Bookkeeping ==
  ASSUME [Next]_vars
  PROVE  /\ published \subseteq published'
         /\ published' = published \/ \E p \in Msg : Publish(p)
         /\ \/ faults' = faults /\ (registry => registry')
            \/ faults' = faults + 1 /\ \E kind : Fault(kind)
         /\ \/ runs' = runs /\ decided' = decided
            \/ \E s \in Slot : Finish(s) \/ \E i \in BagToSet(queue) : Deliver(s, i)
<1>1. published \subseteq published' /\ (published' = published \/ \E p \in Msg : Publish(p))
  BY DEF Next, vars, Publish, Deliver, Consume, Finish, LeaveUnanswered, RequestRetry, Save,
         Fault, app, history, SaveMessageToRedis, AckSaved, SaveFails, SaveResent, WorkerCrash,
         BecomesDue, Tick, RepublishMessages, RepublishVanishes, RepublishThrows, ReadFails,
         RemoveProcessedMessage, RemoveFails, RemoveResent, TimerAppStops, TimerRestarts
<1>2. \/ faults' = faults /\ (registry => registry')
      \/ \E kind : Fault(kind)
  BY DEF Next, vars, Publish, Deliver, Consume, Finish, LeaveUnanswered, RequestRetry, Save,
         app, history, SaveMessageToRedis, AckSaved, SaveFails, SaveResent, WorkerCrash,
         BecomesDue, Tick, RepublishMessages, RepublishVanishes, RepublishThrows, ReadFails,
         RemoveProcessedMessage, RemoveFails, RemoveResent, TimerAppStops, TimerRestarts
<1>3. (\E kind : Fault(kind)) => faults' = faults + 1
  BY DEF Fault
<1>4. \/ runs' = runs /\ decided' = decided
      \/ \E s \in Slot : Finish(s) \/ \E i \in BagToSet(queue) : Deliver(s, i)
  BY DEF Next, vars, Publish, Consume, LeaveUnanswered, RequestRetry, Save, Fault, app, history,
         SaveMessageToRedis, AckSaved, SaveFails, SaveResent, WorkerCrash,
         BecomesDue, Tick, RepublishMessages, RepublishVanishes, RepublishThrows, ReadFails,
         RemoveProcessedMessage, RemoveFails, RemoveResent, TimerAppStops, TimerRestarts
<1>. QED  BY <1>1, <1>2, <1>3, <1>4

\* Nothing is spent on a message before it is published.
LEMMA UnspentStep ==
  ASSUME TypeInv, Known, [Next]_vars, NEW c \in Mode, NEW m \in Msg,
         m \notin published', Spent(c, m) = 0
  PROVE  Spent(c, m)' = 0
<1>0. TypeOK /\ m \notin published
  BY Bookkeeping DEF TypeInv
<1>1. ASSUME NEW s \in Slot, NEW i \in BagToSet(queue), Deliver(s, i) PROVE Spent(c, m)' = Spent(c, m)
  <2>1. i.msg # m /\ i.msg \in Msg
    BY <1>0 DEF Known, TypeOK, Item
  <2>2. runs'[m] = runs[m] /\ decided' = decided
    BY <1>0, <1>1, <2>1 DEF Deliver, TypeOK
  <2>. QED  BY <2>2 DEF Spent
<1>2. ASSUME NEW s \in Slot, Finish(s) PROVE Spent(c, m)' = Spent(c, m)
  <2>1. slot[s].item.msg # m
    BY <1>0, <1>2 DEF Known, Finish
  <2>. QED  BY <1>2, <2>1 DEF Finish, Spent
<1>3. CASE runs' = runs /\ decided' = decided
  BY <1>3 DEF Spent
<1>. QED  BY <1>1, <1>2, <1>3, Bookkeeping

\* A step raises the load of a published message by a share at most, and only
\* with a fault or with what was set aside for the timer's restart.
LEMMA LoadStep ==
  ASSUME TypeInv, Known, [Next]_vars, NEW c \in Mode, NEW m \in Msg, m \in published
  PROVE  /\ m \in published'
         /\ \/ Steady(c, m) /\ faults' = faults /\ registry' = registry
            \/ Steady(c, m) /\ faults' = faults + 1
            \/ Raised(c, m) /\ faults' = faults + 1 /\ registry' = registry
            \/ Raised(c, m) /\ registry' /\ (faults' = faults + 1 \/ (~registry /\ faults' = faults))
<1>1. ASSUME NEW p \in Msg, Publish(p)
      PROVE  m \in published' /\ faults' = faults /\ registry' = registry /\ Steady(c, m)
  <2>1. p # m
    BY <1>1 DEF Publish
  <2>. QED  BY <1>1, <2>1, PublishLoad DEF Publish, app
<1>2. ASSUME NEW s \in Slot, NEW i \in BagToSet(queue), Deliver(s, i)
      PROVE  published' = published /\ faults' = faults /\ registry' = registry /\ Steady(c, m)
  BY <1>2, DeliverLoad DEF Deliver, app
<1>3. ASSUME NEW s \in Slot, Consume(s) \/ Save(s)
      PROVE  published' = published /\ faults' = faults /\ registry' = registry /\ Steady(c, m)
  <2>1. published' = published /\ faults' = faults /\ registry' = registry
    BY <1>3 DEF Consume, Save, Finish, LeaveUnanswered, RequestRetry, SaveMessageToRedis,
                AckSaved, app
  <2>. QED  BY <1>3, <2>1, FinishLoad, SaveLoad, QuietLoad DEF Consume, Save
<1>4. ASSUME NEW s \in Slot, SaveFails(s)
      PROVE  published' = published /\ faults' = faults + 1 /\ registry' = registry /\ Raised(c, m)
  BY <1>4, SaveFailsLoad DEF SaveFails, Fault, app
<1>5. CASE SaveResent \/ WorkerCrash
  <2>1. published' = published /\ faults' = faults + 1 /\ registry' = registry
    BY <1>5 DEF SaveResent, WorkerCrash, Fault, app
  <2>. QED  BY <1>5, <2>1, ResentLoad, CrashLoad
<1>6. CASE (\E i \in saved : BecomesDue(i)) \/ Tick \/ UNCHANGED vars
  <2>1. published' = published /\ faults' = faults /\ registry' = registry
    BY <1>6 DEF BecomesDue, Tick, vars, app
  <2>. QED  BY <1>6, <2>1, QuietLoad
<1>7. CASE RepublishMessages
  <2>1. published' = published /\ faults' = faults /\ registry' = registry
    BY <1>7 DEF RepublishMessages
  <2>. QED  BY <1>7, <2>1, RepublishLoad
<1>8. CASE RepublishVanishes \/ RepublishThrows \/ ReadFails \/ TimerAppStops
  <2>1. published' = published /\ faults' = faults + 1
    BY <1>8 DEF RepublishVanishes, RepublishThrows, ReadFails, TimerAppStops, Fault
  <2>. QED  BY <1>8, <2>1, QuietLoad
<1>9. CASE TimerRestarts
  <2>1. /\ published' = published /\ registry'
        /\ faults' = faults + 1 \/ (~registry /\ faults' = faults)
    <3>1. Fault("timer") \/ (~registry /\ faults' = faults)
      BY <1>9 DEF TimerRestarts
    <3>2. published' = published /\ registry'
      BY <1>9 DEF TimerRestarts
    <3>. QED  BY <3>1, <3>2 DEF Fault
  <2>. QED  BY <1>9, <2>1, UnremovedLoad
<1>10. ASSUME NEW i \in removing, RemoveProcessedMessage(i) \/ RemoveResent(i)
       PROVE  /\ published' = published /\ Steady(c, m)
              /\ faults' = faults + 1 \/ (faults' = faults /\ registry' = registry)
  <2>1. /\ published' = published
        /\ faults' = faults + 1 \/ (faults' = faults /\ registry' = registry)
    BY <1>10 DEF RemoveProcessedMessage, RemoveResent, Fault, app
  <2>. QED  BY <1>10, <2>1, QuietLoad
<1>11. ASSUME NEW i \in removing, RemoveFails(i)
       PROVE  published' = published /\ faults' = faults + 1 /\ registry' = registry /\ Raised(c, m)
  BY <1>11, UnremovedLoad DEF RemoveFails, Fault
<1>. QED  BY <1>1, <1>2, <1>3, <1>4, <1>5, <1>6, <1>7, <1>8, <1>9, <1>10, <1>11 DEF Next

\* What is set aside changes with the queues only.
LEMMA ReserveTyped ==
  ASSUME TypeInv, TypeInv', NEW c \in Mode
  PROVE  /\ Reserve(c) = (IF registry THEN 0 ELSE Share(c))
         /\ Reserve(c)' = (IF registry' THEN 0 ELSE Share(c))
         /\ Reserve(c) \in Nat /\ Reserve(c)' \in Nat
BY BoundsTyped DEF Reserve

\* Every step keeps the loads within their bounds.
LEMMA BudgetStep == TypeInv /\ TypeInv' /\ Known /\ BudgetInv /\ [Next]_vars => BudgetInv'
<1> SUFFICES ASSUME TypeInv, TypeInv', Known, BudgetInv, [Next]_vars PROVE BudgetInv'
  OBVIOUS
<1>1. registry' \/ faults' > 0
  <2>1. faults \in Nat
    BY FaultAssumption DEF TypeInv, TypeOK
  <2>. QED  BY <2>1, Bookkeeping DEF BudgetInv
<1>2. ASSUME NEW c \in Mode, NEW m \in Msg, m \notin published' PROVE Spent(c, m)' = 0
  <2>1. m \notin published
    BY <1>2, Bookkeeping
  <2>. QED  BY <1>2, <2>1, UnspentStep DEF BudgetInv
<1>3. ASSUME NEW c \in Mode, NEW m \in Msg, m \in published'
      PROVE  Load(c, m)' + Reserve(c)' <= Bound(c)'
  <2>1. CASE m \in published
    <3>1. Load(c, m) + Reserve(c) <= Bound(c) /\ Load(c, m) \in Nat
      BY <2>1, LoadTyped DEF BudgetInv
    <3>2. registry \in BOOLEAN /\ registry' \in BOOLEAN
      BY DEF TypeInv, TypeOK
    <3>. QED  BY <2>1, <3>1, <3>2, LoadStep, BoundsTyped, ReserveTyped DEF Steady, Raised
  <2>2. CASE m \notin published
    <3>1. PICK p \in Msg : Publish(p)
      BY <1>3, <2>2, Bookkeeping
    <3>2. m = p /\ faults' = faults /\ registry' = registry
      BY <1>3, <2>2, <3>1 DEF Publish, app
    <3>3. Load(c, m)' \in Nat /\ Load(c, m)' <= Full(c)
      BY <2>2, <3>1, <3>2, PublishLoad DEF BudgetInv
    <3>4. registry \/ faults > 0
      BY DEF BudgetInv
    <3>5. Full(c) \in Nat
      BY SharesTyped
    <3>. QED  BY <3>2, <3>3, <3>4, <3>5, BoundsTyped, ReserveTyped
  <2>. QED  BY <2>1, <2>2
<1>. QED  BY <1>1, <1>2, <1>3 DEF BudgetInv

\* Nothing is loaded at the start.
LEMMA BudgetInit == Init => BudgetInv
BY DEF Init, BudgetInv, Spent

\* The bounds, along every behaviour.
LEMMA BudgetHolds == Spec => []BudgetInv
<1>1. AliveInv => Known
  BY DEF AliveInv
<1>. QED  BY <1>1, TypesHold, AliveHolds, BudgetInit, BudgetStep, PTL DEF Spec

\* The loads bound the copies and the calls.
LEMMA LoadsBound ==
  ASSUME TypeInv, BudgetInv, NEW m \in Msg
  PROVE  /\ m \in published => Pending(m) + (IF m \in decided THEN 1 ELSE 0) <= 1 + faults * InHand
         /\ runs[m] <= (RetryLimit + 1) * (1 + faults * InHand)
         /\ Pending(m) \in Nat
<1>0. /\ InHand \in Nat /\ faults \in Nat /\ RetryLimit + 1 \in Nat
      /\ runs[m] \in Nat /\ Pending(m) \in Nat
  <2>1. InHand \in Nat
    BY SharesTyped DEF Mode
  <2>2. faults \in Nat /\ runs[m] \in Nat
    BY FaultAssumption DEF TypeInv, TypeOK
  <2>3. Pending(m) \in Nat
    BY TokensPending, FS_CardinalityType
  <2>. QED  BY <2>1, <2>2, <2>3, LimitAssumption
<1>1. "copies" \in Mode /\ "runs" \in Mode
  BY DEF Mode
<1>2. ASSUME NEW c \in Mode PROVE Reserve(c) \in Nat /\ Load(c, m) \in Nat
  BY SharesTyped, LoadTyped DEF Reserve
<1>3. CASE m \in published
  <2>1. ASSUME NEW c \in Mode PROVE Load(c, m) <= Full(c) + faults * Share(c)
    <3>1. Load(c, m) + Reserve(c) <= Bound(c)
      BY <1>3 DEF BudgetInv
    <3>2. Full(c) + faults * Share(c) \in Nat
      <4>1. Full(c) \in Nat /\ Share(c) \in Nat
        BY SharesTyped
      <4>. QED  BY <1>0, <4>1
    <3>. QED  BY <1>2, <3>1, <3>2 DEF Bound
  <2>2. Pending(m) + (IF m \in decided THEN 1 ELSE 0) <= 1 + faults * InHand
    <3>1. Load("copies", m) = Pending(m) + (IF m \in decided THEN 1 ELSE 0)
      BY CopiesAreUnits DEF Load, Spent
    <3>2. Full("copies") = 1 /\ Share("copies") = InHand
      BY <1>0 DEF Full, Share
    <3>. QED  BY <1>1, <2>1, <3>1, <3>2
  <2>3. runs[m] <= (RetryLimit + 1) * (1 + faults * InHand)
    <3> DEFINE u == Cardinality(Units("runs", Tokens(m)))
               k == RetryLimit + 1
    <3>1. Load("runs", m) = u + runs[m] /\ u \in Nat
      BY <1>1, LoadTyped DEF Load, Spent
    <3>2. Full("runs") = k /\ Share("runs") = InHand * k
      BY DEF Full, Share
    <3>3. u + runs[m] <= k + faults * (InHand * k)
      BY <1>1, <2>1, <3>1, <3>2
    <3> HIDE DEF u, k
    <3>4. k \in Nat
      BY <1>0 DEF k
    <3>5. k * (1 + faults * InHand) = k + faults * (InHand * k) /\ faults * (InHand * k) \in Nat
      BY <1>0, <3>4
    <3>6. runs[m] <= k * (1 + faults * InHand)
      BY <1>0, <3>1, <3>3, <3>4, <3>5
    <3>. QED  BY <3>6 DEF k
  <2>. QED  BY <1>0, <2>2, <2>3
<1>4. CASE m \notin published
  <2>1. runs[m] = 0
    BY <1>1, <1>4 DEF BudgetInv, Spent
  <2>2. (RetryLimit + 1) * (1 + faults * InHand) \in Nat
    BY <1>0
  <2>. QED  BY <1>0, <1>4, <2>1, <2>2
<1>. QED  BY <1>3, <1>4

\* Without a fault the bound is one, and the message is alive: there is exactly one.
LEMMA LoadsCount == TypeInv /\ AliveInv /\ BudgetInv => CopiesCounted
<1> SUFFICES ASSUME TypeInv, AliveInv, BudgetInv, NEW m \in Usable \ (vanished \cup discarded)
             PROVE  LET copies == Pending(m) + (IF m \in decided THEN 1 ELSE 0)
                    IN  IF faults = 0 THEN copies = 1 ELSE copies <= 1 + faults * InHand
  BY DEF CopiesCounted
<1> DEFINE copies == Pending(m) + (IF m \in decided THEN 1 ELSE 0)
<1>1. m \in Msg /\ m \in published
  BY DEF Usable, TypeInv, TypeOK
<1>2. copies <= 1 + faults * InHand /\ Pending(m) \in Nat
  BY <1>1, LoadsBound
<1>3. ASSUME faults = 0 PROVE copies = 1
  <2>1. copies <= 1
    <3>1. 0 * InHand = 0
      BY SharesTyped DEF Mode
    <3>. QED  BY <1>2, <1>3, <3>1
  <2>2. CASE m \in decided
    BY <1>2, <2>1, <2>2
  <2>3. CASE m \notin decided
    <3>1. Pending(m) > 0
      BY <2>3, AliveIsSomewhere DEF AlwaysSomewhere
    <3>. QED  BY <1>2, <2>1, <2>3, <3>1
  <2>. QED  BY <2>2, <2>3
<1>. QED  BY <1>2, <1>3

\* The hand-overs broker -> Redis -> broker keep exactly one copy of a message
\* alive as long as nothing fails, and every fault makes at most as many more
\* as a worker holds deliveries, or the timer removes members, at once.
THEOREM CopiesCountedHolds == Spec => []CopiesCounted
BY TypesHold, AliveHolds, BudgetHolds, LoadsCount, PTL

\* The retry counter survives all hand-overs: each copy of a message is worth
\* RetryLimit + 1 calls of consume(), wherever it has been.
THEOREM RetryBudgetHolds == Spec => []RetryBudget
<1>1. TypeInv /\ BudgetInv => RetryBudget
  BY LoadsBound DEF RetryBudget
<1>. QED  BY <1>1, TypesHold, BudgetHolds, PTL

=============================================================================
