------------------------- MODULE DeliveryRefinement -------------------------
(***************************************************************************)
(* Delivery implements RetryQueue, for any number of workers, messages,    *)
(* retries, losses and crashes: every step of the workers, channels and    *)
(* timers is a step of the contract or changes nothing the contract sees.  *)
(* The argument uses IInv of DeliveryProofs: an answer settles its own     *)
(* delivery or none, and a message has one copy.                           *)
(***************************************************************************)
EXTENDS DeliveryProofs

-----------------------------------------------------------------------------
(* The retry counter of a message, read off its copy *)

LEMMA AttemptOfCopy ==
  ASSUME NEW live, \A c1, c2 \in live : c1.msg = c2.msg => c1 = c2,
         NEW c \in live, c.msg \in Msg
  PROVE  AttemptIn(live)[c.msg] = c.attempt
<1>1. {e \in live : e.msg = c.msg} = {c}
  OBVIOUS
<1>2. (CHOOSE e \in {c} : TRUE) = c
  OBVIOUS
<1>3. QED
  BY <1>1, <1>2 DEF AttemptIn

LEMMA AttemptOfNone ==
  ASSUME NEW live, NEW m \in Msg, \A c \in live : c.msg # m
  PROVE  AttemptIn(live)[m] = 0
<1>1. {e \in live : e.msg = m} = {}
  OBVIOUS
<1>2. QED
  BY <1>1 DEF AttemptIn

LEMMA AttemptAgrees ==
  ASSUME NEW l1, NEW l2, NEW m \in Msg,
         {c \in l1 : c.msg = m} = {c \in l2 : c.msg = m}
  PROVE  AttemptIn(l1)[m] = AttemptIn(l2)[m]
<1> DEFINE F(copies) == IF copies = {} THEN 0 ELSE (CHOOSE c \in copies : TRUE).attempt
<1>1. /\ AttemptIn(l1)[m] = F({c \in l1 : c.msg = m})
      /\ AttemptIn(l2)[m] = F({c \in l2 : c.msg = m})
  BY DEF AttemptIn
<1> HIDE DEF F
<1>2. QED
  BY <1>1

\* Only m's own counter changes when only m's copies do.
LEMMA AttemptExcept ==
  ASSUME NEW l1, NEW l2, NEW m \in Msg,
         \A c \in l1 \cup l2 : c.msg # m => (c \in l1 <=> c \in l2)
  PROVE  AttemptIn(l2) = [AttemptIn(l1) EXCEPT ![m] = AttemptIn(l2)[m]]
<1>1. \A x \in Msg \ {m} : AttemptIn(l2)[x] = AttemptIn(l1)[x]
  <2> SUFFICES ASSUME NEW x \in Msg \ {m}
               PROVE  AttemptIn(l2)[x] = AttemptIn(l1)[x]
    OBVIOUS
  <2>1. {c \in l2 : c.msg = x} = {c \in l1 : c.msg = x}
    OBVIOUS
  <2>2. QED
    BY <2>1, AttemptAgrees
<1>2. /\ AttemptIn(l1) = [x \in Msg |-> AttemptIn(l1)[x]]
      /\ AttemptIn(l2) = [x \in Msg |-> AttemptIn(l2)[x]]
  BY DEF AttemptIn
<1>3. QED
  BY <1>1, <1>2

LEMMA AttemptGone ==
  ASSUME NEW l1, NEW l2, NEW m \in Msg,
         \A c \in l1 \cup l2 : c.msg # m => (c \in l1 <=> c \in l2),
         \A c \in l2 : c.msg # m
  PROVE  AttemptIn(l2) = [AttemptIn(l1) EXCEPT ![m] = 0]
<1>1. AttemptIn(l2) = [AttemptIn(l1) EXCEPT ![m] = AttemptIn(l2)[m]]
  BY AttemptExcept
<1>2. AttemptIn(l2)[m] = 0
  BY AttemptOfNone
<1>3. QED
  BY <1>1, <1>2

-----------------------------------------------------------------------------
(* The copies of a message *)

LEMMA LiveIsOne ==
  ASSUME IInv
  PROVE  \A c1, c2 \in Live : c1.msg = c2.msg => c1 = c2
BY DEF IInv, OnePlace, Live, Held

LEMMA LiveIsOneNext ==
  ASSUME IInv'
  PROVE  \A c1, c2 \in Live' : c1.msg = c2.msg => c1 = c2
BY DEF IInv, OnePlace, Live, Held

LEMMA LiveTyped ==
  ASSUME IInv, NEW c \in Live
  PROVE  /\ c \in Copy /\ c.msg \in published
         /\ c.attempt \in 0..RetryLimit
<1>1. c \in Copy
  BY DEF IInv, TypeOK, Live, Held, Delivered
<1>2. c.msg \in published
  BY DEF IInv, OnlyPublished, Live, Held
<1>3. QED
  BY <1>1, <1>2 DEF Copy

\* The delivery that an answer settles is the task's own, and w's only one of
\* that message.
LEMMA OwnDelivery ==
  ASSUME IInv, NEW w \in Worker, NEW t \in tasks[w], Outstanding(w, t)
  PROVE  \E d \in unacked[w] :
           /\ d.tag = t.tag
           /\ d.copy.msg = t.msg /\ t.msg \in published /\ t.msg \in Msg
           /\ t.attempt = d.copy.attempt + (IF t.stage = "delayed" THEN 1 ELSE 0)
           /\ {e \in unacked[w] : e.tag # t.tag} = unacked[w] \ {d}
           /\ d.copy \in Live
           /\ \A c \in ready : c.msg # t.msg
           /\ \A v \in Worker : \A e \in unacked[v] : e.copy.msg = t.msg => v = w /\ e = d
<1>1. PICK d \in unacked[w] : d.tag = t.tag
  BY DEF Outstanding
<1>2. /\ d.copy.msg = t.msg
      /\ t.attempt = d.copy.attempt + (IF t.stage = "delayed" THEN 1 ELSE 0)
  BY <1>1 DEF IInv, OwnTag
<1>3. {e \in unacked[w] : e.tag # t.tag} = unacked[w] \ {d}
  BY <1>1 DEF IInv, TagsFresh
<1>4. d.copy \in Live
  BY DEF Live, Held
<1>5. t.msg \in published /\ published \subseteq Msg
  BY DEF IInv, OnlyPublished, TypeOK
<1>6. /\ \A c \in ready : c.msg # t.msg
      /\ \A v \in Worker : \A e \in unacked[v] : e.copy.msg = t.msg => v = w /\ e = d
  BY <1>2 DEF IInv, OnePlace
<1>7. QED
  BY <1>1, <1>2, <1>3, <1>4, <1>5, <1>6

\* A channel that is dropped: everything on it is put back.
LEMMA DropsPutBack ==
  ASSUME IInv, NEW w \in Worker, BrokerDrops(w)
  PROVE  /\ QueuedMsgs' = QueuedMsgs \cup HeldMsgs[w]
         /\ HeldMsgs' = [HeldMsgs EXCEPT ![w] = {}]
         /\ Live' = Live
<1>1. /\ unacked'[w] = {} /\ \A v \in Worker \ {w} : unacked'[v] = unacked[v]
      /\ ready' = ready \cup Held(w)
  BY DEF IInv, TypeOK, BrokerDrops
<1>2. QueuedMsgs' = QueuedMsgs \cup HeldMsgs[w]
  BY <1>1 DEF QueuedMsgs, HeldMsgs
<1>3. Held(w)' = {} /\ \A v \in Worker \ {w} : Held(v)' = Held(v)
  BY <1>1 DEF Held
<1>4. HeldMsgs' = [HeldMsgs EXCEPT ![w] = {}]
  BY <1>3 DEF HeldMsgs
<1>5. QED
  BY <1>2, <1>4, DropsKeepLive DEF IInv

\* A nack that hits: the task's own copy is gone, and nothing else.
LEMMA HitRemoves ==
  ASSUME IInv, NEW w \in Worker, NEW t \in tasks[w], Outstanding(w, t),
         unacked' = [unacked EXCEPT ![w] = {d \in @ : d.tag # t.tag}]
  PROVE  /\ HeldMsgs' = [HeldMsgs EXCEPT ![w] = @ \ {t.msg}]
         /\ t.msg \in HeldMsgs[w] /\ t.msg \in Msg
         /\ \A c \in ready : c.msg # t.msg
         /\ \A v \in Worker : \A c \in Held(v)' : c.msg # t.msg
         /\ \A c : c.msg # t.msg => \A v \in Worker : c \in Held(v)' <=> c \in Held(v)
<1>1. PICK d \in unacked[w] :
           /\ d.copy.msg = t.msg /\ t.msg \in Msg
           /\ {e \in unacked[w] : e.tag # t.tag} = unacked[w] \ {d}
           /\ \A c \in ready : c.msg # t.msg
           /\ \A v \in Worker : \A e \in unacked[v] : e.copy.msg = t.msg => v = w /\ e = d
  BY OwnDelivery
<1>2. /\ unacked'[w] = unacked[w] \ {d}
      /\ \A v \in Worker \ {w} : unacked'[v] = unacked[v]
  BY <1>1 DEF IInv, TypeOK
<1>3. \A v \in Worker : \A c \in Held(v)' : c.msg # t.msg
  BY <1>1, <1>2 DEF Held
<1>4. \A c : c.msg # t.msg => \A v \in Worker : c \in Held(v)' <=> c \in Held(v)
  BY <1>1, <1>2 DEF Held
<1>5. t.msg \in HeldMsgs[w]
  BY <1>1 DEF HeldMsgs, Held
<1>6. HeldMsgs'[w] = HeldMsgs[w] \ {t.msg}
  BY <1>3, <1>4 DEF HeldMsgs
<1>7. \A v \in Worker \ {w} : HeldMsgs'[v] = HeldMsgs[v]
  BY <1>2 DEF HeldMsgs, Held
<1>8. QED
  BY <1>1, <1>3, <1>4, <1>5, <1>6, <1>7 DEF HeldMsgs

-----------------------------------------------------------------------------
(* The steps, as the contract sees them *)

LEMMA Unseen ==
  ASSUME UNCHANGED <<published, ready, unacked, history>>
  PROVE  UNCHANGED Contract!vars /\ Live' = Live
<1>1. \A w \in Worker : Held(w)' = Held(w)
  BY DEF Held
<1>2. Live' = Live
  BY <1>1 DEF Live
<1>3. QED
  BY <1>1, <1>2 DEF Contract!vars, QueuedMsgs, HeldMsgs, Finished, history

LEMMA PublishRefines ==
  ASSUME IInv, NEW m \in Msg, Publish(m)
  PROVE  /\ Contract!Publish(m)
         /\ \A d \in Live' : d \in Live \/ (d.msg = m /\ m \notin published)
<1>1. /\ ready' = ready \cup {NewCopy(m, 0)} /\ NewCopy(m, 0).msg = m
      /\ NewCopy(m, 0).attempt = 0
      /\ unacked' = unacked /\ published' = published \cup {m} /\ m \notin published
      /\ UNCHANGED history
  BY DEF Publish, NewCopy
<1>2. \A w \in Worker : Held(w)' = Held(w)
  BY <1>1 DEF Held
<1>3. Live' = Live \cup {NewCopy(m, 0)}
  BY <1>1, <1>2 DEF Live
<1>4. \A c \in Live : c.msg # m
  BY <1>1, LiveTyped
<1>5. AttemptIn(Live)[m] = 0
  BY <1>4, AttemptOfNone
<1>6. AttemptIn(Live')[m] = 0
  <2>1. \A c1, c2 \in Live' : c1.msg = c2.msg => c1 = c2
    BY <1>1, <1>3, <1>4, LiveIsOne
  <2>2. NewCopy(m, 0) \in Live'
    BY <1>3
  <2>3. QED
    BY <1>1, <2>1, <2>2, AttemptOfCopy
<1>7. AttemptIn(Live') = AttemptIn(Live)
  <2>1. PICK l1, l2 : l1 = Live /\ l2 = Live'
    OBVIOUS
  <2>2. \A c \in l1 \cup l2 : c.msg # m => (c \in l1 <=> c \in l2)
    BY <1>1, <1>3, <2>1
  <2>3. AttemptIn(l2) = [AttemptIn(l1) EXCEPT ![m] = AttemptIn(l2)[m]]
    BY <2>2, AttemptExcept
  <2>4. AttemptIn(l2)[m] = AttemptIn(l1)[m]
    BY <1>5, <1>6, <2>1
  <2>5. AttemptIn(l1) = [x \in Msg |-> AttemptIn(l1)[x]]
    BY DEF AttemptIn
  <2>6. AttemptIn(l2) = AttemptIn(l1)
    BY <2>3, <2>4, <2>5
  <2>7. QED
    BY <2>1, <2>6
<1>8. /\ QueuedMsgs' = QueuedMsgs \cup {m} /\ HeldMsgs' = HeldMsgs
      /\ Finished' = Finished /\ gapLost' = gapLost
  BY <1>1, <1>2 DEF QueuedMsgs, HeldMsgs, Finished, history
<1>9. AttemptIn(Live)' = AttemptIn(Live)
  BY <1>7 DEF AttemptIn
<1>10. QED
  BY <1>1, <1>3, <1>8, <1>9 DEF Contract!Publish

LEMMA DeliverRefines ==
  ASSUME IInv, NEW w \in Worker, NEW c \in ready, Deliver(w, c)
  PROVE  Contract!Take(w, c.msg) /\ Live' = Live
<1>1. /\ ready' = ready \ {c}
      /\ unacked'[w] = unacked[w] \cup {[tag |-> nextTag[w], copy |-> c]}
      /\ \A v \in Worker \ {w} : unacked'[v] = unacked[v]
      /\ UNCHANGED <<published, history>>
  BY DEF IInv, TypeOK, Deliver
<1>2. /\ Held(w)' = Held(w) \cup {c}
      /\ \A v \in Worker \ {w} : Held(v)' = Held(v)
  <2>1. PICK d : d = [tag |-> nextTag[w], copy |-> c]
    OBVIOUS
  <2>2. d.copy = c /\ unacked'[w] = unacked[w] \cup {d}
    BY <1>1, <2>1
  <2>3. {e.copy : e \in unacked[w] \cup {d}} = {e.copy : e \in unacked[w]} \cup {c}
    BY <2>2
  <2>4. Held(w)' = Held(w) \cup {c}
    BY <2>2, <2>3 DEF Held
  <2>5. QED
    BY <1>1, <2>4 DEF Held
<1>3. Live' = Live
  <2>1. \A x : (\E v \in Worker : x \in Held(v)')
               <=> (\E v \in Worker : x \in Held(v)) \/ x = c
    BY <1>2
  <2>2. \A x : x \in Live' <=> x \in Live
    BY <1>1, <2>1 DEF Live
  <2>3. QED
    BY <2>2
<1>4. QueuedMsgs' = QueuedMsgs \ {c.msg}
  BY <1>1 DEF IInv, OnePlace, QueuedMsgs
<1>5. HeldMsgs' = [HeldMsgs EXCEPT ![w] = @ \cup {c.msg}]
  <2>1. /\ HeldMsgs'[w] = HeldMsgs[w] \cup {c.msg}
        /\ \A v \in Worker \ {w} : HeldMsgs'[v] = HeldMsgs[v]
    BY <1>2 DEF HeldMsgs
  <2>2. QED
    BY <2>1 DEF HeldMsgs
<1>6. c.msg \in QueuedMsgs
  BY DEF QueuedMsgs
<1>7. Finished' = Finished /\ gapLost' = gapLost /\ AttemptIn(Live)' = AttemptIn(Live)
  BY <1>1, <1>3 DEF Finished, history, AttemptIn
<1>8. QED
  BY <1>1, <1>3, <1>4, <1>5, <1>6, <1>7 DEF Contract!Take

\* The end of a consume(): on its own channel the answer settles its message,
\* on any other it comes too late.
LEMMA SettleRefines ==
  ASSUME IInv, IInv', NEW w \in Worker, NEW t \in tasks[w], Settle(w, t),
         NEW r \in Decision, Decide(t, r), UNCHANGED published
  PROVE  /\ Contract!Settle(w, t.msg) \/ Contract!SettleLate(w, t.msg)
         /\ Live' \subseteq Live
<1>1. t.msg \in Msg /\ t.msg \in published
  BY DEF IInv, TypeOK, OnlyPublished, Task
<1>2. Finished' = Finished \cup {t.msg} /\ gapLost' = gapLost
  BY <1>1 DEF Decide, Finished, IInv, TypeOK
<1>3. CASE SettleHits(w, t)
  <2>1. /\ HeldMsgs' = [HeldMsgs EXCEPT ![w] = @ \ {t.msg}] /\ t.msg \in HeldMsgs[w]
        /\ \A c \in ready : c.msg # t.msg
        /\ \A v \in Worker : \A c \in Held(v)' : c.msg # t.msg
        /\ \A c : c.msg # t.msg => \A v \in Worker : c \in Held(v)' <=> c \in Held(v)
    BY <1>3, HitRemoves DEF SettleHits
  <2>2. ready' = ready /\ QueuedMsgs' = QueuedMsgs
    BY <1>3 DEF SettleHits, QueuedMsgs
  <2>3. /\ \A c : c.msg # t.msg => (c \in Live <=> c \in Live')
        /\ \A c \in Live' : c.msg # t.msg
    BY <2>1, <2>2 DEF Live
  <2>4. AttemptIn(Live') = [AttemptIn(Live) EXCEPT ![t.msg] = 0]
    <3>1. PICK l1, l2 : l1 = Live /\ l2 = Live'
      OBVIOUS
    <3>2. /\ \A c \in l1 \cup l2 : c.msg # t.msg => (c \in l1 <=> c \in l2)
          /\ \A c \in l2 : c.msg # t.msg
      BY <2>3, <3>1
    <3>3. AttemptIn(l2) = [AttemptIn(l1) EXCEPT ![t.msg] = 0]
      BY <1>1, <3>2, AttemptGone
    <3>4. QED
      BY <3>1, <3>3
  <2>5. AttemptIn(Live)' = [AttemptIn(Live) EXCEPT ![t.msg] = 0]
    BY <2>4 DEF AttemptIn
  <2>6. Contract!Settle(w, t.msg)
    BY <1>2, <2>1, <2>2, <2>5 DEF Contract!Settle
  <2>7. QED
    BY <2>3, <2>6
<1>4. CASE SettleUnknownTag(w, t)
  <2>1. /\ QueuedMsgs' = QueuedMsgs \cup HeldMsgs[w]
        /\ HeldMsgs' = [HeldMsgs EXCEPT ![w] = {}]
        /\ Live' = Live
    BY <1>4, DropsPutBack DEF SettleUnknownTag
  <2>2. AttemptIn(Live)' = AttemptIn(Live)
    BY <2>1 DEF AttemptIn
  <2>3. QED
    BY <1>1, <1>2, <2>1, <2>2 DEF Contract!SettleLate
<1>5. CASE SettleUnsent(w, t)
  <2>1. /\ QueuedMsgs' = QueuedMsgs /\ HeldMsgs' = HeldMsgs
        /\ Live' = Live
    BY <1>5 DEF SettleUnsent, QueuedMsgs, HeldMsgs, Live, Held
  <2>2. AttemptIn(Live)' = AttemptIn(Live)
    BY <2>1 DEF AttemptIn
  <2>3. QED
    BY <1>1, <1>2, <2>1, <2>2 DEF Contract!SettleLate
<1>6. QED
  BY <1>3, <1>4, <1>5 DEF Settle

LEMMA RepublishRefines ==
  ASSUME IInv, IInv', NEW w \in Worker, NEW t \in tasks[w], Republish(w, t)
  PROVE  /\ Contract!Retry(w, t.msg)
         /\ \A d \in Live' : d \in Live \/ \A c \in Live : c.msg = d.msg => c.attempt <= d.attempt
<1> DEFINE new == NewCopy(t.msg, t.attempt)
<1>1. PICK d0 \in unacked[w] :
           /\ d0.copy.msg = t.msg
           /\ t.attempt = d0.copy.attempt + 1
           /\ d0.copy \in Live
  BY OwnDelivery DEF Republish, DelayOver
<1>2. /\ HeldMsgs' = [HeldMsgs EXCEPT ![w] = @ \ {t.msg}]
      /\ t.msg \in HeldMsgs[w] /\ t.msg \in Msg
      /\ \A c \in ready : c.msg # t.msg
      /\ \A v \in Worker : \A c \in Held(v)' : c.msg # t.msg
      /\ \A c : c.msg # t.msg => \A v \in Worker : c \in Held(v)' <=> c \in Held(v)
  BY HitRemoves DEF Republish
<1>3. new.msg = t.msg /\ new.attempt = t.attempt
  BY DEF NewCopy
<1>4. ready' = ready \cup {new} /\ UNCHANGED <<published, history>>
  BY DEF Republish
<1> HIDE DEF new
<1>5. QueuedMsgs' = QueuedMsgs \cup {t.msg}
  BY <1>3, <1>4 DEF QueuedMsgs
<1>6. /\ \A c : c.msg # t.msg => (c \in Live <=> c \in Live')
      /\ \A c \in Live' : c.msg = t.msg => c = new
      /\ new \in Live'
  BY <1>2, <1>3, <1>4 DEF Live
<1>7. AttemptIn(Live)[t.msg] = d0.copy.attempt
  BY <1>1, <1>2, AttemptOfCopy, LiveIsOne
<1>8. AttemptIn(Live')[t.msg] = t.attempt
  BY <1>2, <1>3, <1>6, AttemptOfCopy, LiveIsOneNext
<1>9. t.attempt \in 0..RetryLimit /\ d0.copy.attempt \in 0..RetryLimit
  BY <1>1, LiveTyped DEF IInv, TypeOK, Task
<1>10. AttemptIn(Live') = [AttemptIn(Live) EXCEPT ![t.msg] = t.attempt]
  BY <1>2, <1>6, <1>8, AttemptExcept
<1>11. AttemptIn(Live)' = [AttemptIn(Live) EXCEPT ![t.msg] = @ + 1]
  <2>1. AttemptIn(Live)' = AttemptIn(Live')
    BY DEF AttemptIn
  <2>2. t.attempt = AttemptIn(Live)[t.msg] + 1
    BY <1>1, <1>7
  <2>3. QED
    BY <1>10, <2>1, <2>2
<1>12. AttemptIn(Live)[t.msg] < RetryLimit
  BY <1>1, <1>7, <1>9, RetryLimitAssumption
<1>13. Contract!Retry(w, t.msg)
  BY <1>2, <1>4, <1>5, <1>11, <1>12 DEF Contract!Retry, Finished, history
<1>14. ASSUME NEW d \in Live', NEW c \in Live, c.msg = d.msg, d \notin Live
       PROVE  c.attempt <= d.attempt
  <2>1. d = new /\ d.msg = t.msg
    BY <1>3, <1>6, <1>14
  <2>2. c = d0.copy
    BY <1>1, <1>14, <2>1, LiveIsOne
  <2>3. QED
    BY <1>1, <1>3, <1>9, <2>1, <2>2
<1>15. QED
  BY <1>13, <1>14

\* The copy vanishes with the connection; the rest of what w held is put back.
LEMMA RepublishCutShortRefines ==
  ASSUME IInv, NEW w \in Worker, NEW t \in tasks[w], RepublishCutShort(w, t)
  PROVE  Contract!LoseInRetry(w, t.msg) /\ Live' \subseteq Live
<1>1. PICK d0 \in unacked[w] :
           /\ d0.copy.msg = t.msg /\ t.msg \in Msg
           /\ {e \in unacked[w] : e.tag # t.tag} = unacked[w] \ {d0}
           /\ \A c \in ready : c.msg # t.msg
           /\ \A v \in Worker : \A e \in unacked[v] : e.copy.msg = t.msg => v = w /\ e = d0
  BY OwnDelivery DEF RepublishCutShort
<1>2. /\ ready' = ready \cup {d.copy : d \in unacked[w] \ {d0}}
      /\ unacked'[w] = {} /\ \A v \in Worker \ {w} : unacked'[v] = unacked[v]
      /\ gapLost' = gapLost \cup {t.msg} /\ UNCHANGED <<published, decided>>
  BY <1>1 DEF RepublishCutShort, IInv, TypeOK
<1>3. Held(w)' = {} /\ \A v \in Worker \ {w} : Held(v)' = Held(v)
  BY <1>2 DEF Held
<1>4. HeldMsgs' = [HeldMsgs EXCEPT ![w] = {}] /\ t.msg \in HeldMsgs[w]
  <2>1. HeldMsgs' = [HeldMsgs EXCEPT ![w] = {}]
    BY <1>3 DEF HeldMsgs
  <2>2. t.msg \in HeldMsgs[w]
    BY <1>1 DEF HeldMsgs, Held
  <2>3. QED
    BY <2>1, <2>2
<1>5. QueuedMsgs' = QueuedMsgs \cup (HeldMsgs[w] \ {t.msg})
  <2>1. \A m : m \in HeldMsgs[w] <=> \E d \in unacked[w] : d.copy.msg = m
    BY DEF HeldMsgs, Held
  <2>2. \A m : m \in HeldMsgs[w] \ {t.msg}
                <=> \E d \in unacked[w] \ {d0} : d.copy.msg = m
    BY <1>1, <2>1
  <2>3. \A m : m \in QueuedMsgs'
                <=> m \in QueuedMsgs \/ \E d \in unacked[w] \ {d0} : d.copy.msg = m
    BY <1>2 DEF QueuedMsgs
  <2>4. QED
    BY <2>2, <2>3
<1>6. /\ \A c \in Live' : c.msg # t.msg
      /\ Live' \subseteq Live
  BY <1>1, <1>2, <1>3 DEF Live, Held
<1>7. \A c \in Live : c.msg # t.msg => c \in Live'
  BY <1>1, <1>2, <1>3 DEF Live, Held
<1>8. AttemptIn(Live') = [AttemptIn(Live) EXCEPT ![t.msg] = 0]
  <2>1. PICK l1, l2 : l1 = Live /\ l2 = Live'
    OBVIOUS
  <2>2. /\ \A c \in l1 \cup l2 : c.msg # t.msg => (c \in l1 <=> c \in l2)
        /\ \A c \in l2 : c.msg # t.msg
    BY <1>6, <1>7, <2>1
  <2>3. AttemptIn(l2) = [AttemptIn(l1) EXCEPT ![t.msg] = 0]
    BY <1>1, <2>2, AttemptGone
  <2>4. QED
    BY <2>1, <2>3
<1>9. AttemptIn(Live)' = [AttemptIn(Live) EXCEPT ![t.msg] = 0]
  BY <1>8 DEF AttemptIn
<1>10. QED
  BY <1>2, <1>4, <1>5, <1>6, <1>9 DEF Contract!LoseInRetry, Finished

LEMMA DropsRefine ==
  ASSUME IInv, NEW w \in Worker, BrokerDrops(w), UNCHANGED <<published, history>>
  PROVE  Contract!PutBack(w) /\ Live' = Live
<1>1. /\ QueuedMsgs' = QueuedMsgs \cup HeldMsgs[w]
      /\ HeldMsgs' = [HeldMsgs EXCEPT ![w] = {}]
      /\ Live' = Live
  BY DropsPutBack
<1>2. AttemptIn(Live)' = AttemptIn(Live) /\ Finished' = Finished
  BY <1>1 DEF AttemptIn, Finished, history
<1>3. QED
  BY <1>1, <1>2 DEF Contract!PutBack, history

LEMMA RepublishRefusedRefines ==
  ASSUME IInv, NEW w \in Worker, NEW t \in tasks[w], RepublishRefused(w, t)
  PROVE  /\ Contract!PutBack(w) \/ UNCHANGED Contract!vars
         /\ Live' = Live
<1>1. UNCHANGED <<published, history>>
  BY DEF RepublishRefused
<1>2. CASE SettleUnknownTag(w, t)
  BY <1>1, <1>2, DropsRefine DEF SettleUnknownTag
<1>3. CASE SettleUnsent(w, t)
  <2>1. UNCHANGED <<published, ready, unacked, history>>
    BY <1>1, <1>3 DEF SettleUnsent
  <2>2. QED
    BY <2>1, Unseen
<1>4. QED
  BY <1>2, <1>3 DEF RepublishRefused

\* What the step of a task, a worker or a channel never does to a message's
\* copies: an attempt number goes back only in a copy that is not there yet.
NoneReset == \A c \in Live, d \in Live' : c.msg = d.msg => c.attempt <= d.attempt

LEMMA NotReset ==
  ASSUME IInv,
         \A d \in Live' : d \in Live \/ \A c \in Live : c.msg = d.msg => c.attempt <= d.attempt
  PROVE  NoneReset
<1> SUFFICES ASSUME NEW c \in Live, NEW d \in Live', c.msg = d.msg
             PROVE  c.attempt <= d.attempt
  BY DEF NoneReset
<1>1. CASE d \in Live
  <2>1. c = d /\ c.attempt \in 0..RetryLimit
    BY <1>1, LiveIsOne, LiveTyped
  <2>2. QED
    BY <2>1
<1>2. QED
  BY <1>1

LEMMA TaskStepRefines ==
  ASSUME IInv, IInv', NEW w \in Worker, NEW t \in tasks[w], TaskStep(w, t)
  PROVE  [Contract!Next]_(Contract!vars) /\ NoneReset
<1>1. t.msg \in Msg
  BY DEF IInv, TypeOK, Task
<1>2. CASE ExecuteCallback(w, t) \/ ProcessFalse(w, t) \/ RetryThrows(w, t) \/ RetryScheduled(w, t)
  <2>1. UNCHANGED <<published, ready, unacked, history>>
    BY <1>2 DEF ExecuteCallback, ProcessFalse, RetryThrows, LeaveUnanswered,
              RetryScheduled, broker
  <2>2. QED
    BY <2>1, Unseen, NotReset
<1>3. CASE ProcessTrue(w, t) \/ ProcessError(w, t) \/ RetryDenied(w, t)
  <2>1. PICK r \in Decision : Decide(t, r)
    BY <1>3 DEF ProcessTrue, ProcessError, RetryDenied, Decision
  <2>2. Settle(w, t) /\ UNCHANGED published
    BY <1>3 DEF ProcessTrue, ProcessError, RetryDenied
  <2>3. /\ Contract!Settle(w, t.msg) \/ Contract!SettleLate(w, t.msg)
        /\ Live' \subseteq Live
    BY <2>1, <2>2, SettleRefines
  <2>4. Contract!Next
    BY <1>1, <2>3 DEF Contract!Next
  <2>5. QED
    BY <2>3, <2>4, NotReset
<1>4. CASE Republish(w, t)
  <2>1. Contract!Next
    BY <1>1, <1>4, RepublishRefines DEF Contract!Next
  <2>2. QED
    BY <1>4, <2>1, RepublishRefines, NotReset
<1>5. CASE RepublishCutShort(w, t)
  <2>1. Contract!LoseInRetry(w, t.msg) /\ Live' \subseteq Live
    BY <1>5, RepublishCutShortRefines
  <2>2. Contract!Next
    BY <1>1, <2>1 DEF Contract!Next
  <2>3. QED
    BY <2>1, <2>2, NotReset
<1>6. CASE RepublishRefused(w, t)
  <2>1. /\ Contract!PutBack(w) \/ UNCHANGED Contract!vars
        /\ Live' = Live
    BY <1>6, RepublishRefusedRefines
  <2>2. [Contract!Next]_(Contract!vars)
    BY <2>1 DEF Contract!Next
  <2>3. QED
    BY <2>1, <2>2, NotReset
<1>7. QED
  BY <1>2, <1>3, <1>4, <1>5, <1>6 DEF TaskStep, Return, Retry, RetryDue

LEMMA StepRefines ==
  ASSUME IInv, IInv', [Next]_vars
  PROVE  [Contract!Next]_(Contract!vars) /\ NoneReset
<1>1. CASE UNCHANGED vars
  <2>1. UNCHANGED <<published, ready, unacked, history>>
    BY <1>1 DEF vars, broker
  <2>2. QED
    BY <2>1, Unseen, NotReset
<1>2. ASSUME NEW m \in Msg, Publish(m)
      PROVE  [Contract!Next]_(Contract!vars) /\ NoneReset
  <2>1. /\ Contract!Publish(m)
        /\ \A d \in Live' : d \in Live \/ (d.msg = m /\ m \notin published)
    BY <1>2, PublishRefines
  <2>2. \A d \in Live' : d \in Live \/ \A c \in Live : c.msg # d.msg
    BY <2>1, LiveTyped
  <2>3. Contract!Next
    BY <2>1 DEF Contract!Next
  <2>4. QED
    BY <2>2, <2>3, NotReset
<1>3. ASSUME NEW w \in Worker,
             NoticeClose(w) \/ Recovered(w) \/ StartApp(w) \/ LimitMessagesInMemory(w) \/ Subscribe(w)
      PROVE  [Contract!Next]_(Contract!vars) /\ NoneReset
  <2>1. UNCHANGED <<published, ready, unacked, history>>
    BY <1>3 DEF NoticeClose, Recovered, StartApp, LimitMessagesInMemory, Subscribe, broker
  <2>2. QED
    BY <2>1, Unseen, NotReset
<1>4. ASSUME NEW w \in Worker, ConnectionLost(w) \/ Crash(w)
      PROVE  [Contract!Next]_(Contract!vars) /\ NoneReset
  <2>1. BrokerDrops(w) /\ UNCHANGED <<published, history>>
    BY <1>4 DEF ConnectionLost, Crash
  <2>2. Contract!PutBack(w) /\ Live' = Live
    BY <2>1, DropsRefine
  <2>3. Contract!Next
    BY <2>2 DEF Contract!Next
  <2>4. QED
    BY <2>2, <2>3, NotReset
<1>5. ASSUME NEW w \in Worker, NEW c \in ready, Deliver(w, c)
      PROVE  [Contract!Next]_(Contract!vars) /\ NoneReset
  <2>1. Contract!Take(w, c.msg) /\ Live' = Live
    BY <1>5, DeliverRefines
  <2>2. c.msg \in Msg
    BY DEF IInv, TypeOK, Copy
  <2>3. Contract!Next
    BY <2>1, <2>2 DEF Contract!Next
  <2>4. QED
    BY <2>1, <2>3, NotReset
<1>6. QED
  BY <1>1, <1>2, <1>3, <1>4, <1>5, TaskStepRefines DEF Next, LinkStep, ProcessStep

-----------------------------------------------------------------------------
(* The theorems *)

LEMMA InitRefines == Init => Contract!Init
<1> SUFFICES ASSUME Init PROVE Contract!Init
  OBVIOUS
<1>1. QueuedMsgs = {} /\ HeldMsgs = [w \in Worker |-> {}] /\ Finished = {}
  BY DEF Init, QueuedMsgs, HeldMsgs, Held, Finished
<1>2. Live = {}
  BY DEF Init, Live, Held
<1>3. \A m \in Msg : AttemptIn(Live)[m] = 0
  BY <1>2, AttemptOfNone
<1>4. AttemptIn(Live) = [m \in Msg |-> 0]
  BY <1>3 DEF AttemptIn
<1>5. QED
  BY <1>1, <1>4 DEF Init, Contract!Init

\* Delivery implements RetryQueue whatever the numbers of workers, messages,
\* copies and retries and however often connections are lost and processes
\* die: consume()'s answers, delayMessageRetry()'s nack and publish and the
\* broker's re-queueing only ever do to a message what the contract allows.
THEOREM ImplementsRetryQueueHolds == Spec => ImplementsRetryQueue
<1>1. Init => Contract!Init
  BY InitRefines
<1>2. IInv /\ IInv' /\ [Next]_vars => [Contract!Next]_(Contract!vars)
  BY StepRefines
<1>3. Spec => []IInv
  BY InductiveInvariant
<1>4. QED
  BY <1>1, <1>2, <1>3, PTL DEF Spec, ImplementsRetryQueue, Contract!Spec

\* The retry counter a message carries never goes back while the broker has
\* it, for every value of the constants: a requeued copy keeps its own, and
\* the copy delayMessageRetry() publishes is one attempt ahead of the copy
\* that its nack has removed.
THEOREM AttemptsNeverResetHolds == Spec => AttemptsNeverReset
<1>1. IInv /\ IInv' /\ [Next]_vars
        => [\A c \in Live, d \in Live' : c.msg = d.msg => c.attempt <= d.attempt]_vars
  BY StepRefines DEF NoneReset
<1>2. Spec => []IInv
  BY InductiveInvariant
<1>3. QED
  BY <1>1, <1>2, PTL DEF Spec, AttemptsNeverReset

=============================================================================
