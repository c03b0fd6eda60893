-------------------------- MODULE RelayRefinement --------------------------
(***************************************************************************)
(* Relay implements RetryQueue, for any number of processes, attempts and  *)
(* faults: whatever a service answers, a worker's consume() does to its    *)
(* message what the contract of the queue allows.                          *)
(***************************************************************************)
EXTENDS RelayProofs

-----------------------------------------------------------------------------
(* The steps, as the contract sees them *)

LEMMA MovesRefine ==
  ASSUME CountInv, TypeInv', Moves
  PROVE  [Contract!Next]_(Contract!vars)
<1> DEFINE held == [p \in Process |-> IF Holds(p) THEN {"m"} ELSE {}]
           count == [m \in {"m"} |-> IF place \in {"acked", "dropped"} THEN 0 ELSE attempts]
<1>1. CASE UNCHANGED queue
  BY <1>1 DEF queue, Holds, Contract!vars
<1>2. CASE place = "unpublished" /\ place' = "queued" /\ UNCHANGED <<holder, attempts>>
  <2>1. held' = held /\ count' = count
    BY <1>2 DEF Holds
  <2>2. Contract!Publish("m")
    BY <1>2, <2>1 DEF Contract!Publish
  <2>3. QED
    BY <2>2 DEF Contract!Next
<1>3. ASSUME NEW p \in Process,
             place = "queued", place' = "held", holder' = p, attempts' = attempts
      PROVE  Contract!Next
  <2>1. held' = [held EXCEPT ![p] = @ \cup {"m"}] /\ count' = count
    BY <1>3 DEF Holds
  <2>2. Contract!Take(p, "m")
    BY <1>3, <2>1 DEF Contract!Take
  <2>3. QED
    BY <2>2 DEF Contract!Next
<1>4. ASSUME NEW p \in Process, Holds(p),
             place' \in {"acked", "dropped"}, holder' = Nobody, attempts' = attempts
      PROVE  Contract!Next
  <2>1. /\ held' = [held EXCEPT ![p] = @ \ {"m"}]
        /\ count' = [count EXCEPT !["m"] = 0]
    BY <1>4 DEF Holds
  <2>2. Contract!Settle(p, "m")
    BY <1>4, <2>1 DEF Contract!Settle, Holds
  <2>3. QED
    BY <2>2 DEF Contract!Next
<1>5. ASSUME NEW p \in Process, Holds(p),
             place' = "queued", holder' = Nobody, attempts' = attempts
      PROVE  Contract!Next
  <2>1. held' = [held EXCEPT ![p] = {}] /\ count' = count
    BY <1>5 DEF Holds
  <2>2. Contract!PutBack(p)
    BY <1>5, <2>1 DEF Contract!PutBack, Holds
  <2>3. QED
    BY <2>2 DEF Contract!Next
<1>6. ASSUME NEW p \in Process, Holds(p), place' = "queued", holder' = Nobody,
             attempts < RetryLimit, attempts' = attempts + 1
      PROVE  Contract!Next
  <2>1. /\ held' = [held EXCEPT ![p] = @ \ {"m"}]
        /\ count' = [count EXCEPT !["m"] = @ + 1]
    BY <1>6 DEF Holds
  <2>2. Contract!Retry(p, "m")
    BY <1>6, <2>1 DEF Contract!Retry, Holds
  <2>3. QED
    BY <2>2 DEF Contract!Next
<1>7. QED
  BY <1>1, <1>2, <1>3, <1>4, <1>5, <1>6 DEF Moves

LEMMA InitRefines == Init => Contract!Init
BY DEF Init, Contract!Init, Holds, Idle

-----------------------------------------------------------------------------
(* The theorem *)

\* Relay implements RetryQueue: answers, retries, lost channels and dying
\* processes move the one message and its counter as the contract lets them,
\* with a delayed message exactly one attempt ahead (RetryManager.retry,
\* RetryDelayer), whatever the service and the identity service do.
THEOREM ImplementsRetryQueueHolds == Spec => ImplementsRetryQueue
<1>1. Init => CountInv /\ Contract!Init
  BY InitInv, InitAhead, InitRefines DEF CountInv
<1>2. CountInv /\ [Next]_vars => CountInv' /\ [Contract!Next]_(Contract!vars)
  <2>1. SUFFICES ASSUME CountInv, [Next]_vars
                 PROVE  CountInv' /\ [Contract!Next]_(Contract!vars)
    OBVIOUS
  <2>2. Inv' /\ TypeInv'
    BY <2>1, StepInv DEF CountInv, Inv
  <2>3. QED
    BY <2>1, <2>2, StepMoves, MovesRefine DEF CountInv
<1>3. QED
  BY <1>1, <1>2, PTL DEF Spec, ImplementsRetryQueue, Contract!Spec
=============================================================================
