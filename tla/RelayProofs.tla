---------------------------- MODULE RelayProofs ----------------------------
(***************************************************************************)
(* Theorems about Relay, for any number of processes, attempts and faults. *)
(* First that every variable keeps its type; then what a consume() and a   *)
(* return do, in one lemma each; then the inductive invariant, a lemma for *)
(* each kind of step, and the properties that follow from it.  Two more    *)
(* need facts of their own: that nothing follows a final response, and how *)
(* often a service is asked with the same count.                           *)
(***************************************************************************)
EXTENDS Relay, FiniteSetTheorems, TLAPS

Served == [op : {"get", "write"}, count : 0..RetryLimit,
           response : Response \cup {Unreachable}]

\* TypeOK, with `requests` a sequence.
TypeInv ==
  /\ place \in {"unpublished", "queued", "held", "acked", "dropped"}
  /\ holder \in Process \cup {Nobody}
  /\ holder # Nobody <=> place = "held"
  /\ attempts \in 0..RetryLimit
  /\ cut \in [Process -> BOOLEAN]
  /\ task \in [Process -> Task]
  /\ token \in [Process -> {"none", "asked", "missing", "held"}]
  /\ tokenFailed \in BOOLEAN
  /\ orphans \in Seq(Request)
  /\ requests \in Seq(Served)
  /\ applied \in 0..Len(requests)
  /\ mail \in {"none", "sending", "sent", "failed"}
  /\ faults \in 0..MaxFault

-----------------------------------------------------------------------------
(* What a task looks like at each place *)

LEMMA TaskAtStart ==
  ASSUME NEW t \in Task, t.at \in {"start", "auth", "delay"}
  PROVE  t.attempt \in 0..RetryLimit
BY DEF Task, Idle

LEMMA TaskCalling ==
  ASSUME NEW t \in Task, t.at = "calling"
  PROVE  t.attempt \in 0..RetryLimit /\ t.op \in {"get", "write"}
BY DEF Task, Idle

LEMMA TaskAnswered ==
  ASSUME NEW t \in Task, t.at = "answered"
  PROVE  /\ t.attempt \in 0..RetryLimit
         /\ t.op \in {"get", "write"}
         /\ t.response \in Response \cup {Unreachable}
BY DEF Task, Idle

LEMMA TaskBuilt ==
  ASSUME NEW n \in 0..RetryLimit, NEW op \in {"get", "write"},
         NEW r \in Response \cup {Unreachable}
  PROVE  /\ Idle \in Task
         /\ [at |-> "start", attempt |-> n] \in Task
         /\ [at |-> "auth", attempt |-> n] \in Task
         /\ [at |-> "delay", attempt |-> n] \in Task
         /\ [at |-> "calling", attempt |-> n, op |-> op] \in Task
         /\ [at |-> "answered", attempt |-> n, op |-> op, response |-> r] \in Task
BY DEF Task, Idle

LEMMA CountTyped ==
  ASSUME NEW n \in 0..RetryLimit
  PROVE  RetryCount(n) \in 0..RetryLimit
BY LimitAssumption DEF RetryCount

\* However consume() returns, the queue and the task keep their types.
LEMMA ReturnTyped ==
  ASSUME TypeInv, NEW p \in Process, NEW result, Return(p, result),
         task[p].at \in {"start", "auth", "answered"}
  PROVE  /\ place' \in {"unpublished", "queued", "held", "acked", "dropped"}
         /\ holder' \in Process \cup {Nobody}
         /\ holder' # Nobody <=> place' = "held"
         /\ attempts' \in 0..RetryLimit
         /\ task' \in [Process -> Task]
<1>1. task[p].attempt \in 0..RetryLimit
  BY TaskAtStart, TaskAnswered DEF TypeInv
<1>2. Idle \in Task
  BY DEF Task
<1>3. ASSUME NEW end \in {"acked", "dropped"}, Answer(p, end)
      PROVE  /\ place' \in {"unpublished", "queued", "held", "acked", "dropped"}
             /\ holder' \in Process \cup {Nobody}
             /\ holder' # Nobody <=> place' = "held"
             /\ attempts' \in 0..RetryLimit
             /\ task' \in [Process -> Task]
  BY <1>2, <1>3 DEF Answer, TypeInv, Holds
<1>4. CASE LeaveUnacked(p)
  BY <1>2, <1>4 DEF LeaveUnacked, TypeInv, queue
<1>5. CASE Retry(p)
  <2>1. CASE task[p].attempt >= RetryLimit
    BY <1>3, <1>5, <2>1 DEF Retry
  <2>2. CASE ~(task[p].attempt >= RetryLimit)
    <3>1. task[p].attempt + 1 \in 0..RetryLimit
      BY <1>1, <2>2, LimitAssumption
    <3>2. [at |-> "delay", attempt |-> task[p].attempt + 1] \in Task
      BY <3>1 DEF Task
    <3>3. QED
      BY <1>5, <2>2, <3>2 DEF Retry, TypeInv, queue
  <2>3. QED
    BY <2>1, <2>2
<1>6. QED
  BY <1>3, <1>4, <1>5 DEF Return

\* A call is typed as well.
LEMMA CallTyped ==
  ASSUME TypeInv, NEW p \in Process, NEW op \in {"get", "write"}, Call(p, op),
         task[p].at \in {"start", "auth", "answered"}
  PROVE  task' \in [Process -> Task] /\ UNCHANGED <<queue, mail>>
<1>1. task[p].attempt \in 0..RetryLimit
  BY TaskAtStart, TaskAnswered DEF TypeInv
<1>2. [at |-> "calling", attempt |-> task[p].attempt, op |-> op] \in Task
  BY <1>1 DEF Task
<1>3. QED
  BY <1>2 DEF Call, TypeInv

\* What a service gets is recorded, and it acts at most once on it.
LEMMA ServeTyped ==
  ASSUME TypeInv, NEW op \in {"get", "write"}, NEW n \in 0..RetryLimit,
         NEW r \in Response \cup {Unreachable}, Serve(op, n, r)
  PROVE  /\ requests' \in Seq(Served)
         /\ Len(requests') = Len(requests) + 1
         /\ requests' = Append(requests, [op |-> op, count |-> n, response |-> r])
         /\ applied' \in 0..Len(requests')
         /\ applied' >= applied
         /\ known' = known
<1>1. [op |-> op, count |-> n, response |-> r] \in Served
  BY DEF Served
<1>2. /\ requests' = Append(requests, [op |-> op, count |-> n, response |-> r])
      /\ known' = known
  BY DEF Serve
<1>3. requests' \in Seq(Served) /\ Len(requests') = Len(requests) + 1
  BY <1>1, <1>2 DEF TypeInv
<1>4. applied' \in {applied, applied + 1}
  BY DEF Serve
<1>5. applied \in 0..Len(requests) /\ Len(requests) \in Nat
  BY DEF TypeInv
<1>6. QED
  BY <1>2, <1>3, <1>4, <1>5

LEMMA InitTyped == Init => TypeInv
<1> SUFFICES ASSUME Init PROVE TypeInv
  OBVIOUS
<1>2. Idle \in Task
  BY DEF Task
<1>3. /\ cut \in [Process -> BOOLEAN]
      /\ task \in [Process -> Task]
      /\ token \in [Process -> {"none", "asked", "missing", "held"}]
      /\ tokenFailed \in BOOLEAN
  BY <1>2 DEF Init
<1>4. orphans \in Seq(Request) /\ requests \in Seq(Served) /\ applied \in 0..Len(requests)
  BY DEF Init
<1>5. QED
  BY <1>3, <1>4, NobodyAssumption, LimitAssumption DEF Init, TypeInv

\* A consume() that starts either calls or returns.
LEMMA ConsumeTyped ==
  ASSUME TypeInv, NEW p \in Process, Consume(p)
  PROVE  TypeInv'
<1>1. ASSUME NEW result, Return(p, result), task[p].at \in {"start", "auth", "answered"},
             UNCHANGED <<cut, auth, orphans, service, faults>>,
             mail' \in {"none", "sending", "sent", "failed"}
      PROVE  TypeInv'
  BY <1>1, ReturnTyped DEF TypeInv, service, auth
<1>2. ASSUME NEW op \in {"get", "write"}, Call(p, op), task[p].at \in {"start", "auth", "answered"},
             UNCHANGED <<cut, auth, orphans, service, faults>>
      PROVE  TypeInv'
  BY <1>2, CallTyped DEF TypeInv, service, queue, auth
<1>3. mail \in {"none", "sending", "sent", "failed"}
  BY DEF TypeInv
<1>4. CASE ConsumeUnreadable(p)
  BY <1>1, <1>3, <1>4 DEF ConsumeUnreadable
<1>5. CASE ConsumeFetch(p) \/ ConsumeBroadcast(p)
           \/ ConsumeSmsStatusActive(p) \/ ConsumeSmsInbound(p) \/ ConsumeStatusCallback(p)
  BY <1>2, <1>5 DEF ConsumeFetch, ConsumeBroadcast,
     ConsumeSmsStatusActive, ConsumeSmsInbound, ConsumeStatusCallback, Consuming,
     RelayMessage, GetMessageToUpdate
<1>6. CASE ConsumeCampaignSignup(p)
  BY <1>1, <1>2, <1>3, <1>6 DEF ConsumeCampaignSignup, Consuming, RelayMessage
<1>60. CASE ConsumeUpdateCustomer(p)
  BY <1>1, <1>2, <1>3, <1>60 DEF ConsumeUpdateCustomer, Consuming
<1>7. CASE ConsumeEmailUnsubscribed(p)
  <2>1. task[p].attempt \in 0..RetryLimit
    BY <1>7, TaskAtStart DEF ConsumeEmailUnsubscribed, TypeInv
  <2>2. [at |-> "auth", attempt |-> task[p].attempt] \in Task
    BY <2>1, TaskBuilt, LimitAssumption DEF Task
  <2>3. task' \in [Process -> Task]
    BY <1>7, <2>2 DEF ConsumeEmailUnsubscribed, TypeInv
  <2>4. token' \in [Process -> {"none", "asked", "missing", "held"}]
    BY <1>7 DEF ConsumeEmailUnsubscribed, GetIdentityService, TypeInv
  <2>5. QED
    BY <1>7, <2>3, <2>4 DEF ConsumeEmailUnsubscribed, TypeInv, queue, service
<1>71. CASE GetAuthHeader(p)
  <2>1. task[p].at \in {"start", "auth", "answered"}
    BY <1>71 DEF GetAuthHeader
  <2>2. CASE UpdateUserById(p)
    BY <1>2, <1>71, <2>1, <2>2 DEF GetAuthHeader, UpdateUserById
  <2>3. CASE Return(p, "error") /\ mail' = mail
    BY <1>1, <1>3, <1>71, <2>1, <2>3 DEF GetAuthHeader
  <2>4. QED
    BY <1>71, <2>2, <2>3 DEF GetAuthHeader
<1>8. CASE ConsumeTrackEvent(p)
  BY <1>1, <1>8 DEF ConsumeTrackEvent, Consuming
<1>9. CASE WriteReturns(p)
  BY <1>1, <1>3, <1>9 DEF WriteReturns
<1>10. CASE GetReturns(p)
  BY <1>1, <1>2, <1>3, <1>10 DEF GetReturns, UpdateMessage
<1>11. CASE RetryDue(p)
  <2>1. task[p].attempt \in 0..RetryLimit /\ Idle \in Task
    BY <1>11, TaskAtStart DEF TypeInv, RetryDue, Task
  <2>2. QED
    BY <1>11, <2>1 DEF RetryDue, TypeInv, Holds, queue, service, auth
<1>12. QED
  BY <1>4, <1>5, <1>6, <1>60, <1>7, <1>71, <1>8, <1>9, <1>10, <1>11 DEF Consume

LEMMA StepTyped == TypeInv /\ [Next]_vars => TypeInv'
<1> SUFFICES ASSUME TypeInv, [Next]_vars PROVE TypeInv'
  OBVIOUS
<1>2. ASSUME NEW p \in Process, Deliver(p) PROVE TypeInv'
  <2>1. [at |-> "start", attempt |-> attempts] \in Task
    BY DEF TypeInv, Task
  <2>2. QED
    BY <1>2, <2>1, NobodyAssumption DEF Deliver, TypeInv, service, auth
<1>3. ASSUME NEW p \in Process, ServeCall(p) PROVE TypeInv'
  <2>1. task[p].attempt \in 0..RetryLimit /\ task[p].op \in {"get", "write"}
    BY <1>3, TaskCalling DEF ServeCall, TypeInv, auth
  <2>2. PICK r \in Response \cup {Unreachable} :
          /\ Serve(task[p].op, RetryCount(task[p].attempt), r)
          /\ task' = [task EXCEPT ![p] = [at |-> "answered", attempt |-> @.attempt,
                                          op |-> @.op, response |-> r]]
    BY <1>3 DEF ServeCall
  <2>3. [at |-> "answered", attempt |-> task[p].attempt, op |-> task[p].op,
         response |-> r] \in Task
    BY <2>1 DEF Task
  <2>4. task' \in [Process -> Task]
    BY <2>2, <2>3 DEF TypeInv
  <2>5. requests' \in Seq(Served) /\ applied' \in 0..Len(requests')
    BY <2>1, <2>2, ServeTyped, CountTyped
  <2>6. QED
    BY <1>3, <2>4, <2>5 DEF ServeCall, TypeInv, queue, auth
<1>4. ASSUME NEW p \in Process, NotReached(p) PROVE TypeInv'
  <2>1. task[p].attempt \in 0..RetryLimit /\ task[p].op \in {"get", "write"}
    BY <1>4, TaskCalling DEF NotReached, TypeInv, auth
  <2>2. [at |-> "answered", attempt |-> task[p].attempt, op |-> task[p].op,
         response |-> Unreachable] \in Task
    BY <2>1 DEF Task
  <2>3. QED
    BY <1>4, <2>2 DEF NotReached, TypeInv, queue, service, auth
<1>5. ASSUME NEW p \in Process, LoseChannel(p) PROVE TypeInv'
  BY <1>5, LimitAssumption DEF LoseChannel, Fault, Requeue, Holds, TypeInv, service, auth
<1>6. ASSUME NEW p \in Process, Crash(p) PROVE TypeInv'
  <2>1. task' \in [Process -> Task]
    BY <1>6 DEF Crash, TypeInv, Task
  <2>2. orphans' \in Seq(Request)
    <3>1. CASE task[p].at = "calling"
      <4>1. task[p].attempt \in 0..RetryLimit /\ task[p].op \in {"get", "write"}
        BY <3>1, TaskCalling DEF TypeInv
      <4>2. [op |-> task[p].op, count |-> RetryCount(task[p].attempt)] \in Request
        BY <4>1, CountTyped DEF Request
      <4>3. QED
        BY <1>6, <3>1, <4>2 DEF Crash, TypeInv
    <3>2. CASE task[p].at # "calling"
      BY <1>6, <3>2 DEF Crash, TypeInv
    <3>3. QED
      BY <3>1, <3>2
  <2>3. QED
    BY <1>6, <2>1, <2>2, LimitAssumption DEF Crash, Fault, Requeue, Holds, TypeInv, service
<1>61. ASSUME NEW p \in Process, TokenAnswered(p) \/ TokenReconnected(p) PROVE TypeInv'
  BY <1>61 DEF TokenAnswered, TokenReconnected, TypeInv, queue, service
<1>62. CASE Publish
  BY <1>62, NobodyAssumption DEF Publish, TypeInv, auth, service
<1>7. CASE ServeOrphan
  <2>1. PICK r \in Response : Serve(Head(orphans).op, Head(orphans).count, r)
    BY <1>7 DEF ServeOrphan
  <2>2. Head(orphans) \in Request
    BY <1>7 DEF ServeOrphan, TypeInv, auth
  <2>3. requests' \in Seq(Served) /\ applied' \in 0..Len(requests')
    BY <2>1, <2>2, ServeTyped DEF Request
  <2>4. orphans' \in Seq(Request)
    BY <1>7 DEF ServeOrphan, TypeInv, auth
  <2>5. QED
    BY <1>7, <2>3, <2>4 DEF ServeOrphan, TypeInv, queue, auth
<1>8. CASE BecomesKnown
  BY <1>8 DEF BecomesKnown, TypeInv, queue, auth
<1>9. CASE MailResult
  BY <1>9 DEF MailResult, TypeInv, queue, service, auth
<1>10. CASE UNCHANGED vars
  BY <1>10 DEF vars, TypeInv, queue, service, auth
<1>11. QED
  BY <1>2, <1>3, <1>4, <1>5, <1>6, <1>61, <1>62, <1>7, <1>8, <1>9,
     <1>10, ConsumeTyped
  DEF Next, CallEnds

LEMMA TypedIsTypeOK == TypeInv => TypeOK
<1> SUFFICES ASSUME TypeInv PROVE TypeOK
  OBVIOUS
<1>1. \A i \in DOMAIN requests : requests[i] \in Served
  BY DEF TypeInv
<1>2. \A i \in DOMAIN requests :
        /\ requests[i].response \in Response \cup {Unreachable}
        /\ requests[i].op \in {"get", "write"}
        /\ requests[i].count \in 0..RetryLimit
  BY <1>1 DEF Served
<1>3. QED
  BY <1>2 DEF TypeInv, TypeOK

\* Types hold for any number of processes, attempts and faults.
THEOREM TypeCorrect == Spec => []TypeOK
<1>1. Init => TypeInv
  BY InitTyped
<1>2. TypeInv /\ [Next]_vars => TypeInv'
  BY StepTyped
<1>3. QED
  BY <1>1, <1>2, TypedIsTypeOK, PTL DEF Spec

-----------------------------------------------------------------------------
(* What consume() does to the message's queue and to its own task *)

\* The task a return leaves is over or waits for a retry, and only the process
\* that holds the delivery moves it.
LEMMA ReturnEffect ==
  ASSUME TypeInv, NEW p \in Process, NEW result, Return(p, result)
  PROVE  /\ attempts' = attempts
         /\ \/ task' = [task EXCEPT ![p] = Idle]
            \/ /\ task' = [task EXCEPT ![p] = [at |-> "delay", attempt |-> @.attempt + 1]]
               /\ UNCHANGED queue
         /\ \/ UNCHANGED queue
            \/ Holds(p) /\ place' = "acked" /\ holder' = Nobody /\ result = "true"
            \/ /\ Holds(p) /\ place' = "dropped" /\ holder' = Nobody
               /\ \/ result = "error"
                  \/ result = "retry" /\ task[p].attempt >= RetryLimit
         /\ Holds(p) /\ task'[p] = Idle /\ UNCHANGED queue => result = "false"
<1>0. task \in [Process -> Task]
  BY DEF TypeInv
<1>1. ASSUME NEW end \in {"acked", "dropped"}, Answer(p, end)
      PROVE  /\ attempts' = attempts
             /\ task' = [task EXCEPT ![p] = Idle]
             /\ \/ UNCHANGED queue /\ ~Holds(p)
                \/ Holds(p) /\ place' = end /\ holder' = Nobody /\ ~UNCHANGED queue
  BY <1>1 DEF Answer, Holds, queue
<1>2. CASE result = "true" /\ Answer(p, "acked")
  BY <1>1, <1>2
<1>3. CASE result = "false" /\ LeaveUnacked(p)
  BY <1>3 DEF LeaveUnacked, queue
<1>4. CASE result = "error" /\ Answer(p, "dropped")
  BY <1>1, <1>4
<1>5. CASE result = "retry" /\ Retry(p)
  <2>1. CASE task[p].attempt >= RetryLimit
    BY <1>1, <1>5, <2>1 DEF Retry
  <2>2. CASE ~(task[p].attempt >= RetryLimit)
    <3>1. /\ task' = [task EXCEPT ![p] = [at |-> "delay", attempt |-> @.attempt + 1]]
          /\ UNCHANGED queue
      BY <1>5, <2>2 DEF Retry
    <3>2. task'[p] # Idle
      BY <1>0, <3>1 DEF Idle
    <3>3. QED
      BY <3>1, <3>2 DEF queue
  <2>3. QED
    BY <2>1, <2>2
<1>6. QED
  BY <1>2, <1>3, <1>4, <1>5 DEF Return

\* Only a response of 200 or 204 makes consume() return true.
LEMMA TrueIsSuccess ==
  ASSUME NEW r \in Response \cup {Unreachable}, Result(r) = "true"
  PROVE  r.status \in {200, 204}
BY DEF Result, FetchResult, IdentifyResult, RelayResult, LogFetchFailureAndRetry,
   HandleResponse, ShouldRetry, LogResponse,
   LogSuccess, LogSuppressedRetry, LogUnprocessableEntity, LogAndRetry, LogUnreachableAndRetry

LEMMA RelayTrueIsSuccess ==
  ASSUME NEW r \in Response \cup {Unreachable}, RelayResult(r) = "true"
  PROVE  r.status \in {200, 204}
BY DEF RelayResult, LogFetchFailureAndRetry, HandleResponse, ShouldRetry, LogResponse,
   LogSuccess, LogSuppressedRetry, LogUnprocessableEntity, LogAndRetry, LogUnreachableAndRetry

\* Only a response that refuses the message makes it return false.
LEMMA FalseIsRefusal ==
  ASSUME NEW r \in Response \cup {Unreachable}, worker \notin {"fetch", "update"},
         RelayResult(r) = "false" \/ Result(r) = "false"
  PROVE  Refuses(r)
<1>1. RelayResult(r) = "false"
  BY DEF Result
<1>2. r # Unreachable /\ HandleResponse(r) = "false"
  BY <1>1 DEF RelayResult, LogFetchFailureAndRetry, LogUnreachableAndRetry
<1>3. r.suppress \/ r.status \in {200, 204, 422}
  BY <1>2 DEF HandleResponse, ShouldRetry, CheckRetrySuppress, IsAllowedHttpStatus,
     LogAndRetry
<1>4. r.suppress \/ r.status = 422
  BY <1>2, <1>3 DEF HandleResponse, ShouldRetry, CheckRetrySuppress, IsAllowedHttpStatus,
     LogResponse, LogSuccess, LogAndRetry
<1>5. QED
  BY <1>2, <1>4 DEF Refuses

\* Only a status update looks a record up first.
GetsForStatus ==
  \A p \in Process :
    task[p].at \in {"calling", "answered"} /\ task[p].op = "get" => worker = "status"

\* Only an email's unsubscription awaits a token, and a token that is missing
\* is one whose request has failed.
TokenForUnsubscribed ==
  \A p \in Process :
    /\ task[p].at = "auth" => worker = "unsubscribed"
    /\ token[p] = "missing" => tokenFailed

\* consume() goes on to wait for the token.
Asks(p) ==
  /\ task' = [task EXCEPT ![p] = [at |-> "auth", attempt |-> @.attempt]]
  /\ task[p].at = "start"
  /\ worker = "unsubscribed"
  /\ UNCHANGED <<queue, mail>>

\* What a process may ask the service for next.
Calls(p) ==
  \E op \in {"get", "write"} :
    /\ task' = [task EXCEPT ![p] = [at |-> "calling", attempt |-> @.attempt, op |-> op]]
    /\ task[p].at \in {"start", "auth", "answered"}
    /\ UNCHANGED <<queue, mail>>
    /\ op = "get" => worker = "status"
    /\ op = "write" /\ worker = "status" =>
         task[p].at = "answered" /\ task[p].response.found
    /\ task[p].at = "answered" => task[p].op = "get" /\ op = "write"

\* Why consume() acknowledges a message, and why it does not keep one.
MayAck(p) ==
  \/ /\ task[p].at = "answered" /\ task[p].op = "write"
     /\ task[p].response.status \in {200, 204}
  \/ worker = "signup" /\ fromSms
  \/ worker = "track" /\ mail' # "none"
MayGiveUp(p) ==
  \/ /\ task[p].at \in {"start", "auth", "answered"}
     /\ task[p].attempt >= RetryLimit
  \/ task[p].at = "answered" /\ Refuses(task[p].response)
  \/ ~Readable
  \/ ~convertible
  \/ worker = "unsubscribed" /\ tokenFailed
  \/ worker = "fetch"

Returns(p) ==
  /\ task[p].at \in {"start", "auth", "answered"}
  /\ attempts' = attempts
  /\ \/ task' = [task EXCEPT ![p] = Idle]
     \/ /\ task' = [task EXCEPT ![p] = [at |-> "delay", attempt |-> @.attempt + 1]]
        /\ UNCHANGED queue
  /\ \/ UNCHANGED queue
     \/ Holds(p) /\ place' = "acked" /\ holder' = Nobody /\ MayAck(p)
     \/ Holds(p) /\ place' = "dropped" /\ holder' = Nobody /\ MayGiveUp(p)
  /\ Holds(p) /\ task'[p] = Idle /\ UNCHANGED queue => MayGiveUp(p)

Requeues(p) ==
  /\ task[p].at = "delay"
  /\ task' = [task EXCEPT ![p] = Idle]
  /\ \/ UNCHANGED queue /\ ~Holds(p)
     \/ /\ Holds(p) /\ place' = "queued" /\ holder' = Nobody
        /\ attempts' = task[p].attempt

\* consume() calls, returns, or puts the message back after the delay.
LEMMA ConsumeEffect ==
  ASSUME TypeInv, GetsForStatus, TokenForUnsubscribed, NEW p \in Process, Consume(p)
  PROVE  /\ UNCHANGED <<config, cut, tokenFailed, orphans, service, faults>>
         /\ \A q \in Process : token'[q] = "missing" => token[q] = "missing"
         /\ mail # "none" => mail' # "none"
         /\ Calls(p) \/ Returns(p) \/ Requeues(p) \/ Asks(p)
<1>1. ASSUME NEW result, Return(p, result),
             task[p].at \in {"start", "auth", "answered"},
             result = "true" => MayAck(p),
             result \in {"false", "error"} => MayGiveUp(p)
      PROVE  Returns(p)
  <2>1. result = "retry" /\ task[p].attempt >= RetryLimit => MayGiveUp(p)
    BY <1>1 DEF MayGiveUp
  <2>2. QED
    BY <1>1, <2>1, ReturnEffect DEF Returns
<1>2. ASSUME NEW op \in {"get", "write"}, Call(p, op),
             task[p].at \in {"start", "auth", "answered"},
             op = "get" => worker = "status",
             op = "write" /\ worker = "status" =>
               task[p].at = "answered" /\ task[p].response.found,
             task[p].at = "answered" => task[p].op = "get" /\ op = "write"
      PROVE  Calls(p)
  BY <1>2 DEF Calls, Call
<1>3. CASE ConsumeUnreadable(p)
  <2>1. Returns(p)
    BY <1>1, <1>3 DEF ConsumeUnreadable, MayGiveUp
  <2>2. QED
    BY <1>3, <2>1 DEF ConsumeUnreadable, auth
<1>4. CASE ConsumeFetch(p) \/ ConsumeBroadcast(p)
           \/ ConsumeSmsStatusActive(p) \/ ConsumeSmsInbound(p) \/ ConsumeStatusCallback(p)
  BY <1>2, <1>4 DEF ConsumeFetch, ConsumeBroadcast,
     ConsumeSmsStatusActive, ConsumeSmsInbound, ConsumeStatusCallback, Consuming, Call,
     RelayMessage, GetMessageToUpdate, auth
<1>5. CASE ConsumeCampaignSignup(p)
  <2>1. CASE fromSms
    <3>1. MayAck(p)
      BY <1>5, <2>1 DEF MayAck, ConsumeCampaignSignup, Consuming
    <3>2. QED
      BY <1>1, <1>5, <2>1, <3>1 DEF ConsumeCampaignSignup, Consuming, auth
  <2>2. CASE ~fromSms
    BY <1>2, <1>5, <2>2 DEF ConsumeCampaignSignup, Consuming, RelayMessage, Call, auth
  <2>3. QED
    BY <2>1, <2>2
<1>50. CASE ConsumeUpdateCustomer(p)
  <2>1. CASE convertible
    BY <1>2, <1>50, <2>1 DEF ConsumeUpdateCustomer, Consuming, Call, auth
  <2>2. CASE ~convertible
    <3>1. MayGiveUp(p)
      BY <2>2 DEF MayGiveUp
    <3>2. QED
      BY <1>1, <1>50, <2>2, <3>1 DEF ConsumeUpdateCustomer, Consuming, auth
  <2>3. QED
    BY <2>1, <2>2
<1>6. CASE ConsumeEmailUnsubscribed(p)
  <2>1. Asks(p)
    BY <1>6 DEF ConsumeEmailUnsubscribed, Asks
  <2>2. \A q \in Process : token'[q] = "missing" => token[q] = "missing"
    BY <1>6 DEF ConsumeEmailUnsubscribed, GetIdentityService, TypeInv
  <2>3. QED
    BY <1>6, <2>1, <2>2 DEF ConsumeEmailUnsubscribed
<1>61. CASE GetAuthHeader(p)
  <2>1. worker = "unsubscribed" /\ task[p].at = "auth"
    BY <1>61 DEF GetAuthHeader, TokenForUnsubscribed
  <2>2. CASE UpdateUserById(p)
    BY <1>2, <1>61, <2>1, <2>2 DEF GetAuthHeader, UpdateUserById, Call, auth
  <2>3. CASE token[p] = "missing" /\ Return(p, "error") /\ mail' = mail
    <3>1. MayGiveUp(p)
      BY <2>1, <2>3 DEF MayGiveUp, TokenForUnsubscribed
    <3>2. Returns(p)
      BY <1>1, <2>1, <2>3, <3>1
    <3>3. QED
      BY <1>61, <2>3, <3>2 DEF GetAuthHeader, auth
  <2>4. QED
    BY <1>61, <2>2, <2>3 DEF GetAuthHeader
<1>7. CASE ConsumeTrackEvent(p)
  <2>1. MayAck(p)
    BY <1>7 DEF MayAck, ConsumeTrackEvent, Consuming
  <2>2. QED
    BY <1>1, <1>7, <2>1 DEF ConsumeTrackEvent, Consuming, auth
<1>8. CASE WriteReturns(p)
  <2>1. task[p].response \in Response \cup {Unreachable}
    BY <1>8, TaskAnswered DEF TypeInv, WriteReturns
  <2>2. Result(task[p].response) = "true" => MayAck(p)
    BY <1>8, <2>1, TrueIsSuccess DEF WriteReturns, MayAck
  <2>3. worker = "update" => Result(task[p].response) \notin {"false", "error"}
    BY DEF Result, IdentifyResult
  <2>4. worker \notin {"update", "fetch"} => Result(task[p].response) # "error"
    BY <2>1 DEF Result, RelayResult, LogFetchFailureAndRetry, HandleResponse, LogResponse,
       LogSuccess, LogSuppressedRetry, LogUnprocessableEntity, LogAndRetry,
       LogUnreachableAndRetry
  <2>5. Result(task[p].response) \in {"false", "error"} => MayGiveUp(p)
    BY <1>8, <2>1, <2>3, <2>4, FalseIsRefusal DEF WriteReturns, MayGiveUp
  <2>6. QED
    BY <1>1, <1>8, <2>2, <2>5 DEF WriteReturns, auth
<1>9. CASE GetReturns(p)
  <2> DEFINE r == task[p].response
  <2>1. r \in Response \cup {Unreachable}
    BY <1>9, TaskAnswered DEF TypeInv, GetReturns
  <2>2. \/ RelayResult(r) # "true" /\ Return(p, RelayResult(r)) /\ mail' = mail
        \/ r.found /\ Call(p, "write")
        \/ Return(p, "retry") /\ mail' = mail
    BY <1>9 DEF GetReturns, ParseMessageIdFromBody, UpdateMessage
  <2>3. RelayResult(r) # "error"
    BY <2>1 DEF RelayResult, LogFetchFailureAndRetry, HandleResponse, LogResponse,
       LogSuccess, LogSuppressedRetry, LogUnprocessableEntity, LogAndRetry,
       LogUnreachableAndRetry
  <2>4. CASE RelayResult(r) # "true" /\ Return(p, RelayResult(r)) /\ mail' = mail
    <3>1. worker = "status"
      BY <1>9 DEF GetReturns, GetsForStatus
    <3>2. RelayResult(r) = "false" => MayGiveUp(p)
      BY <1>9, <2>1, <3>1, FalseIsRefusal DEF GetReturns, MayGiveUp
    <3>3. Returns(p)
      BY <1>1, <1>9, <2>3, <2>4, <3>2 DEF GetReturns
    <3>4. QED
      BY <1>9, <2>4, <3>3 DEF GetReturns, auth
  <2>5. CASE r.found /\ Call(p, "write")
    BY <1>2, <1>9, <2>5 DEF GetReturns, Call, auth
  <2>6. CASE Return(p, "retry") /\ mail' = mail
    BY <1>1, <1>9, <2>6 DEF GetReturns, auth
  <2>7. QED
    BY <2>2, <2>4, <2>5, <2>6
<1>10. CASE RetryDue(p)
  BY <1>10 DEF RetryDue, Requeues, Holds, auth
<1>11. QED
  BY <1>3, <1>4, <1>5, <1>50, <1>6, <1>61, <1>7, <1>8, <1>9, <1>10 DEF Consume

-----------------------------------------------------------------------------
(* The inductive invariant *)

\* A success that consume() has read, or is about to, was put into effect.
SuccessIsApplied ==
  \A p \in Process :
    task[p].at = "answered" /\ task[p].op = "write" /\ task[p].response.status \in {200, 204} =>
      applied > 0

\* Every answer that consume() reads is one the service gave.
AnswersAreGiven ==
  \A p \in Process :
    task[p].at = "answered" =>
      \/ task[p].response = Unreachable
      \/ \E i \in DOMAIN requests : requests[i].response = task[p].response

\* consume() counts attempts from the stored message.
AttemptIsStored ==
  \A p \in Process :
    Holds(p) /\ task[p].at \in {"start", "auth", "calling", "answered"} => task[p].attempt = attempts

\* Nobody has a write for a record that the service does not know.
OnlyGetsUnknown ==
  worker = "status" /\ ~known =>
    /\ \A p \in Process :
         /\ task[p].at \in {"calling", "answered"} => task[p].op = "get"
         /\ task[p].at = "answered" => ~task[p].response.found
    /\ \A i \in DOMAIN orphans : orphans[i].op = "get"

Inv ==
  /\ TypeInv
  /\ GetsForStatus
  /\ TokenForUnsubscribed
  /\ SuccessIsApplied
  /\ AnswersAreGiven
  /\ AttemptIsStored
  /\ OnlyGetsUnknown
  /\ AckedIsApplied
  /\ KeptUntilAnswered
  /\ UpdatesOnlyKnown

LEMMA InitInv == Init => Inv
<1> SUFFICES ASSUME Init PROVE Inv
  OBVIOUS
<1>1. TypeInv
  BY InitTyped
<1>2. \A p \in Process : task[p] = Idle
  BY DEF Init
<1>3. GetsForStatus /\ SuccessIsApplied /\ AnswersAreGiven /\ AttemptIsStored
      /\ TokenForUnsubscribed
  BY <1>2 DEF Init, GetsForStatus, TokenForUnsubscribed, SuccessIsApplied, AnswersAreGiven, AttemptIsStored, Idle
<1>4. OnlyGetsUnknown /\ UpdatesOnlyKnown
  BY <1>2 DEF Init, OnlyGetsUnknown, UpdatesOnlyKnown, Idle
<1>5. AckedIsApplied /\ KeptUntilAnswered
  BY DEF Init, AckedIsApplied, KeptUntilAnswered, Parked
<1>6. QED
  BY <1>1, <1>3, <1>4, <1>5 DEF Inv

\* What has been a reason to give up remains one.
Excused ==
  \/ attempts = RetryLimit
  \/ Refused
  \/ ~Readable
  \/ ~convertible
  \/ worker = "unsubscribed" /\ tokenFailed
  \/ worker = "fetch"

\* A reason consume() has is one of the message's.
LEMMA GiveUpIsExcused ==
  ASSUME Inv, NEW p \in Process, MayGiveUp(p), Holds(p)
  PROVE  Excused
<1>1. CASE task[p].at \in {"start", "auth", "answered"} /\ task[p].attempt >= RetryLimit
  <2>1. task[p].attempt = attempts
    BY <1>1 DEF Inv, AttemptIsStored
  <2>2. attempts \in 0..RetryLimit
    BY DEF Inv, TypeInv
  <2>3. QED
    BY <1>1, <2>1, <2>2, LimitAssumption DEF Excused
<1>2. CASE task[p].at = "answered" /\ Refuses(task[p].response)
  <2>1. PICK i \in DOMAIN requests : requests[i].response = task[p].response
    BY <1>2 DEF Inv, AnswersAreGiven, Refuses
  <2>2. QED
    BY <1>2, <2>1 DEF Excused, Refused
<1>3. QED
  BY <1>1, <1>2 DEF MayGiveUp, Excused

LEMMA ConsumeInv ==
  ASSUME Inv, TypeInv', NEW p \in Process, Consume(p)
  PROVE  Inv'
<1>1. /\ UNCHANGED <<config, cut, tokenFailed, orphans, service, faults>>
      /\ \A q \in Process : token'[q] = "missing" => token[q] = "missing"
      /\ mail # "none" => mail' # "none"
      /\ Calls(p) \/ Returns(p) \/ Requeues(p) \/ Asks(p)
  BY ConsumeEffect DEF Inv
<1>2. \A q \in Process : q # p => task'[q] = task[q]
  BY <1>1 DEF Calls, Returns, Requeues, Asks, Inv, TypeInv
<1>3. task'[p].at \in {"calling", "idle", "delay", "auth"}
  BY <1>1 DEF Calls, Returns, Requeues, Asks, Inv, TypeInv, Idle
<1>4. ASSUME Calls(p)
      PROVE  /\ task'[p].at = "calling"
             /\ task'[p].attempt = task[p].attempt
             /\ task'[p].op \in {"get", "write"}
             /\ task[p].at \in {"start", "auth", "answered"}
             /\ UNCHANGED <<queue, mail>>
             /\ task'[p].op = "get" => worker = "status"
             /\ task'[p].op = "write" /\ worker = "status" =>
                  task[p].at = "answered" /\ task[p].response.found
  BY <1>4 DEF Calls, Inv, TypeInv
<1>41. ASSUME Asks(p)
       PROVE  /\ task'[p].at = "auth"
              /\ task'[p].attempt = task[p].attempt
              /\ task[p].at = "start"
              /\ worker = "unsubscribed"
              /\ UNCHANGED <<queue, mail>>
  BY <1>41 DEF Asks, Inv, TypeInv
<1>5. ASSUME Returns(p) \/ Requeues(p) PROVE task'[p].at \in {"idle", "delay"}
  BY <1>5 DEF Returns, Requeues, Inv, TypeInv, Idle
<1>6. GetsForStatus' /\ TokenForUnsubscribed'
  BY <1>1, <1>2, <1>4, <1>41, <1>5 DEF Inv, GetsForStatus, TokenForUnsubscribed, config
<1>7. SuccessIsApplied'
  BY <1>1, <1>2, <1>3 DEF Inv, SuccessIsApplied, service
<1>8. AnswersAreGiven'
  BY <1>1, <1>2, <1>3 DEF Inv, AnswersAreGiven, service
<1>9. AttemptIsStored'
  <2>1. SUFFICES ASSUME NEW q \in Process, Holds(q)',
                        task'[q].at \in {"start", "auth", "calling", "answered"}
                 PROVE  task'[q].attempt = attempts'
    BY DEF AttemptIsStored
  <2>2. UNCHANGED queue
    BY <1>1, <1>4, <1>41, <2>1, NobodyAssumption DEF Returns, Requeues, Holds, queue
  <2>3. Holds(q) /\ attempts' = attempts
    BY <2>1, <2>2 DEF Holds, queue
  <2>4. CASE q = p
    BY <1>1, <1>4, <1>41, <1>5, <2>1, <2>3, <2>4 DEF Inv, AttemptIsStored
  <2>5. CASE q # p
    BY <1>2, <2>1, <2>3, <2>5 DEF Inv, AttemptIsStored
  <2>6. QED
    BY <2>4, <2>5
<1>10. OnlyGetsUnknown'
  <2>1. SUFFICES ASSUME worker = "status", ~known
                 PROVE  /\ \A q \in Process :
                             /\ task'[q].at \in {"calling", "answered"} => task'[q].op = "get"
                             /\ task'[q].at = "answered" => ~task'[q].response.found
                        /\ \A i \in DOMAIN orphans : orphans[i].op = "get"
    BY <1>1 DEF OnlyGetsUnknown, config, service
  <2>2. QED
    BY <1>1, <1>2, <1>4, <1>41, <1>5, <2>1 DEF Inv, OnlyGetsUnknown
<1>11. UpdatesOnlyKnown'
  BY <1>1 DEF Inv, UpdatesOnlyKnown, config, service
<1>12. AckedIsApplied'
  <2>1. SUFFICES ASSUME place' = "acked"
                 PROVE  \/ applied > 0
                        \/ worker = "signup" /\ fromSms
                        \/ worker = "track" /\ mail' # "none"
    BY <1>1 DEF AckedIsApplied, config, service
  <2>2. CASE place = "acked"
    BY <1>1, <2>2 DEF Inv, AckedIsApplied
  <2>3. CASE place # "acked"
    <3>1. MayAck(p)
      BY <1>1, <1>4, <1>41, <2>1, <2>3 DEF Returns, Requeues, queue
    <3>2. QED
      BY <3>1 DEF MayAck, Inv, SuccessIsApplied
  <2>4. QED
    BY <2>2, <2>3
<1>13. KeptUntilAnswered'
  <2>1. attempts' = attempts /\ Excused => Excused'
    BY <1>1 DEF Excused, Refused, Refuses, Readable, config, service
  <2>2. SUFFICES ASSUME (place = "dropped" \/ Parked)' PROVE Excused'
    BY DEF KeptUntilAnswered, Excused
  <2>3. CASE UNCHANGED queue
    <3>1. place' = place /\ holder' = holder /\ attempts' = attempts
      BY <2>3 DEF queue
    <3>2. CASE place = "dropped" \/ Parked
      BY <2>1, <3>1, <3>2 DEF Inv, KeptUntilAnswered, Excused
    <3>3. CASE ~(place = "dropped" \/ Parked)
      <4>1. place = "held" /\ task'[holder] = Idle /\ task[holder] # Idle
        BY <2>2, <3>1, <3>3 DEF Parked
      <4>2. holder \in Process
        BY <4>1 DEF Inv, TypeInv
      <4>3. Holds(p) /\ task'[p] = Idle
        BY <1>2, <4>1, <4>2 DEF Holds
      <4>4. MayGiveUp(p)
        <5>1. ~Calls(p)
          BY <1>4, <4>3 DEF Idle
        <5>11. ~Asks(p)
          BY <1>41, <4>3 DEF Idle
        <5>2. ~Requeues(p)
          BY <3>1, <4>1, <4>3 DEF Requeues
        <5>3. QED
          BY <1>1, <2>3, <4>3, <5>1, <5>11, <5>2 DEF Returns
      <4>5. QED
        BY <2>1, <3>1, <4>3, <4>4, GiveUpIsExcused
    <3>4. QED
      BY <3>2, <3>3
  <2>4. CASE ~UNCHANGED queue
    <3>1. Holds(p) /\ MayGiveUp(p) /\ attempts' = attempts
      BY <1>1, <1>4, <1>41, <2>2, <2>4 DEF Returns, Requeues, Parked
    <3>2. QED
      BY <2>1, <3>1, GiveUpIsExcused
  <2>5. QED
    BY <2>3, <2>4
<1>14. QED
  BY <1>6, <1>7, <1>8, <1>9, <1>10, <1>11, <1>12, <1>13 DEF Inv

-----------------------------------------------------------------------------
(* The other steps *)

\* A step that leaves the queue and the service alone, and no task in a worse
\* place, keeps everything.
LEMMA QuietInv ==
  ASSUME Inv, TypeInv', UNCHANGED <<config, queue, requests, applied, task, orphans>>,
         \A q \in Process : token'[q] = "missing" => tokenFailed',
         tokenFailed => tokenFailed',
         known => known', mail # "none" => mail' # "none"
  PROVE  Inv'
<1>1. GetsForStatus' /\ SuccessIsApplied' /\ AnswersAreGiven' /\ AttemptIsStored'
      /\ TokenForUnsubscribed'
  BY DEF Inv, GetsForStatus, TokenForUnsubscribed, SuccessIsApplied, AnswersAreGiven, AttemptIsStored, Holds,
     config, queue
<1>2. OnlyGetsUnknown' /\ UpdatesOnlyKnown'
  BY DEF Inv, OnlyGetsUnknown, UpdatesOnlyKnown, config
<1>3. AckedIsApplied'
  BY DEF Inv, AckedIsApplied, config, queue
<1>4. KeptUntilAnswered'
  BY DEF Inv, KeptUntilAnswered, Parked, Refused, Refuses, Readable, config, queue
<1>5. QED
  BY <1>1, <1>2, <1>3, <1>4 DEF Inv

LEMMA DeliverInv ==
  ASSUME Inv, TypeInv', NEW p \in Process, Deliver(p)
  PROVE  Inv'
<1>1. /\ \A q \in Process : q # p => task'[q] = task[q]
      /\ task'[p].at = "start" /\ task'[p].attempt = attempts
      /\ place' = "held" /\ holder' = p /\ attempts' = attempts
      /\ UNCHANGED <<config, auth, orphans, service, mail>>
  BY DEF Deliver, Inv, TypeInv
<1>2. GetsForStatus' /\ TokenForUnsubscribed' /\ SuccessIsApplied' /\ AnswersAreGiven'
  BY <1>1 DEF Inv, GetsForStatus, TokenForUnsubscribed, SuccessIsApplied, AnswersAreGiven,
     config, service, auth
<1>3. AttemptIsStored'
  BY <1>1 DEF AttemptIsStored, Holds
<1>4. OnlyGetsUnknown' /\ UpdatesOnlyKnown'
  BY <1>1 DEF Inv, OnlyGetsUnknown, UpdatesOnlyKnown, config, service
<1>5. AckedIsApplied' /\ KeptUntilAnswered'
  BY <1>1 DEF AckedIsApplied, KeptUntilAnswered, Parked, Idle
<1>6. QED
  BY <1>2, <1>3, <1>4, <1>5 DEF Inv

\* A request the service has taken puts nothing out of effect and takes no
\* answer back.
LEMMA RequestsGrow ==
  ASSUME TypeInv, NEW e, requests' = Append(requests, e), config' = config
  PROVE  /\ \A i \in DOMAIN requests : i \in DOMAIN requests' /\ requests'[i] = requests[i]
         /\ \A i \in DOMAIN requests' : i \in DOMAIN requests \/ requests'[i] = e
         /\ Len(requests') \in DOMAIN requests' /\ requests'[Len(requests')] = e
         /\ Refused => Refused'
<1>1. requests \in Seq(Served)
  BY DEF TypeInv
<1>2. /\ \A i \in DOMAIN requests : i \in DOMAIN requests' /\ requests'[i] = requests[i]
      /\ \A i \in DOMAIN requests' : i \in DOMAIN requests \/ requests'[i] = e
      /\ Len(requests') \in DOMAIN requests' /\ requests'[Len(requests')] = e
  BY <1>1
<1>3. Refused => Refused'
  BY <1>2 DEF Refused, Refuses, config
<1>4. QED
  BY <1>2, <1>3

\* The delivery of a process that lost its channel or died is another's.
LEMMA RequeueInv ==
  ASSUME Inv, TypeInv', NEW p \in Process, Requeue(p),
         \/ task' = task /\ orphans' = orphans
         \/ /\ task' = [task EXCEPT ![p] = Idle]
            /\ orphans' = IF task[p].at = "calling"
                            THEN Append(orphans, [op |-> task[p].op,
                                                  count |-> RetryCount(task[p].attempt)])
                            ELSE orphans,
         \A q \in Process : token'[q] = "missing" => token[q] = "missing",
         UNCHANGED <<config, tokenFailed, service, mail>>
  PROVE  Inv'
<1>1. /\ \A q \in Process : q # p => task'[q] = task[q]
      /\ \A q \in Process : task'[q] = task[q] \/ task'[q].at = "idle"
  BY DEF Inv, TypeInv, Idle
<1>2. /\ attempts' = attempts
      /\ \/ place' = "queued" /\ holder' = Nobody
         \/ ~Holds(p) /\ place' = place /\ holder' = holder
  BY DEF Requeue
<1>3. GetsForStatus' /\ TokenForUnsubscribed' /\ SuccessIsApplied' /\ AnswersAreGiven'
  BY <1>1 DEF Inv, GetsForStatus, TokenForUnsubscribed, SuccessIsApplied, AnswersAreGiven, config, service
<1>4. AttemptIsStored'
  BY <1>1, <1>2 DEF Inv, AttemptIsStored, Holds
<1>5. OnlyGetsUnknown'
  <2>1. SUFFICES ASSUME worker = "status", ~known
                 PROVE  /\ \A q \in Process :
                             /\ task'[q].at \in {"calling", "answered"} => task'[q].op = "get"
                             /\ task'[q].at = "answered" => ~task'[q].response.found
                        /\ \A i \in DOMAIN orphans' : orphans'[i].op = "get"
    BY DEF OnlyGetsUnknown, config, service
  <2>2. /\ \A q \in Process : task[q].at \in {"calling", "answered"} => task[q].op = "get"
        /\ \A q \in Process : task[q].at = "answered" => ~task[q].response.found
        /\ \A i \in DOMAIN orphans : orphans[i].op = "get"
    BY <2>1 DEF Inv, OnlyGetsUnknown
  <2>3. orphans \in Seq(Request)
    BY DEF Inv, TypeInv
  <2>4. \A i \in DOMAIN orphans' : orphans'[i].op = "get"
    <3>1. CASE orphans' = orphans
      BY <2>2, <3>1
    <3>2. CASE /\ task[p].at = "calling"
               /\ orphans' = Append(orphans, [op |-> task[p].op,
                                             count |-> RetryCount(task[p].attempt)])
      <4>1. task[p].op = "get"
        BY <2>2, <3>2
      <4>2. orphans' = Append(orphans, [op |-> "get", count |-> RetryCount(task[p].attempt)])
        BY <3>2, <4>1
      <4>3. QED
        BY <2>2, <2>3, <4>2
    <3>3. QED
      BY <3>1, <3>2
  <2>5. QED
    BY <1>1, <2>2, <2>4
<1>6. UpdatesOnlyKnown' /\ AckedIsApplied'
  BY <1>2 DEF Inv, UpdatesOnlyKnown, AckedIsApplied, config, service
<1>7. KeptUntilAnswered'
  <2>1. (place = "dropped" \/ Parked)' => place = "dropped" \/ Parked
    BY <1>1, <1>2 DEF Parked, Holds, Inv, TypeInv
  <2>2. QED
    BY <1>2, <2>1 DEF Inv, KeptUntilAnswered, Refused, Refuses, Readable, config, service
<1>8. QED
  BY <1>3, <1>4, <1>5, <1>6, <1>7 DEF Inv

\* An answer that a task gets says what the service did.
LEMMA AnsweredInv ==
  ASSUME Inv, TypeInv', NEW p \in Process, task[p].at = "calling",
         NEW r \in Response \cup {Unreachable},
         task' = [task EXCEPT ![p] = [at |-> "answered", attempt |-> @.attempt,
                                      op |-> @.op, response |-> r]],
         Serve(task[p].op, RetryCount(task[p].attempt), r) \/ (UNCHANGED service /\ r = Unreachable),
         UNCHANGED <<config, queue, auth, orphans, mail>>
  PROVE  Inv'
<1>1. /\ \A q \in Process : q # p => task'[q] = task[q]
      /\ task'[p].at = "answered" /\ task'[p].op = task[p].op
      /\ task'[p].attempt = task[p].attempt /\ task'[p].response = r
  BY DEF Inv, TypeInv
<1>2. task[p].attempt \in 0..RetryLimit /\ task[p].op \in {"get", "write"}
  BY TaskCalling DEF Inv, TypeInv
<1> DEFINE e == [op |-> task[p].op, count |-> RetryCount(task[p].attempt), response |-> r]
<1>3. /\ \/ requests' = Append(requests, e)
         \/ UNCHANGED service /\ r = Unreachable
      /\ applied' >= applied
      /\ known' = known
  <2>1. RetryCount(task[p].attempt) \in 0..RetryLimit
    BY <1>2, CountTyped
  <2>2. applied \in Nat
    BY DEF Inv, TypeInv
  <2>3. QED
    BY <1>2, <2>1, <2>2, ServeTyped DEF Inv, service
<1>4. /\ \A i \in DOMAIN requests : i \in DOMAIN requests' /\ requests'[i] = requests[i]
      /\ \A i \in DOMAIN requests' : i \in DOMAIN requests \/ requests'[i] = e
      /\ Refused => Refused'
      /\ r # Unreachable => \E i \in DOMAIN requests' : requests'[i].response = r
  <2>1. CASE requests' = Append(requests, e)
    <3>1. config' = config
      BY DEF config
    <3>2. QED
      BY <2>1, <3>1, RequestsGrow DEF Inv
  <2>2. CASE UNCHANGED service /\ r = Unreachable
    BY <2>2 DEF service, Refused, Refuses, config
  <2>3. QED
    BY <1>3, <2>1, <2>2
<1>5. GetsForStatus' /\ TokenForUnsubscribed'
  BY <1>1 DEF Inv, GetsForStatus, TokenForUnsubscribed, config, auth
<1>6. SuccessIsApplied'
  <2>1. applied \in Nat /\ applied' \in Nat
    BY DEF Inv, TypeInv
  <2>2. task[p].op = "write" /\ r.status \in {200, 204} => applied' > 0
    <3>1. Unreachable.status \notin {200, 204}
      BY DEF Unreachable
    <3>2. CASE Serve(task[p].op, RetryCount(task[p].attempt), r)
      <4>1. task[p].op = "write" /\ r.status \in {200, 204} => applied' = applied + 1
        BY <3>2 DEF Serve
      <4>2. QED
        BY <2>1, <4>1
    <3>3. QED
      BY <3>1, <3>2
  <2>3. applied > 0 => applied' > 0
    BY <1>3, <2>1
  <2>4. QED
    BY <1>1, <2>2, <2>3 DEF Inv, SuccessIsApplied
<1>7. AnswersAreGiven'
  <2>1. ASSUME NEW x, \E i \in DOMAIN requests : requests[i].response = x
        PROVE  \E i \in DOMAIN requests' : requests'[i].response = x
    BY <1>4, <2>1
  <2>2. QED
    BY <1>1, <1>4, <2>1 DEF Inv, AnswersAreGiven
<1>8. AttemptIsStored'
  BY <1>1 DEF Inv, AttemptIsStored, Holds, queue
<1>9. OnlyGetsUnknown' /\ UpdatesOnlyKnown'
  <2>1. CASE worker = "status" /\ ~known
    <3>1. task[p].op = "get"
      BY <2>1 DEF Inv, OnlyGetsUnknown
    <3>2. ~r.found
      BY <2>1 DEF Serve, Unreachable
    <3>3. OnlyGetsUnknown'
      BY <1>1, <2>1, <3>1, <3>2 DEF Inv, OnlyGetsUnknown
    <3>4. \A i \in DOMAIN requests : requests[i].op # "write"
      BY <2>1 DEF Inv, UpdatesOnlyKnown
    <3>5. QED
      BY <1>4, <3>1, <3>3, <3>4 DEF UpdatesOnlyKnown
  <2>2. CASE ~(worker = "status" /\ ~known)
    BY <1>3, <2>2 DEF OnlyGetsUnknown, UpdatesOnlyKnown, config
  <2>3. QED
    BY <2>1, <2>2
<1>10. AckedIsApplied'
  <2>1. applied \in Nat /\ applied' \in Nat
    BY DEF Inv, TypeInv
  <2>2. QED
    BY <1>3, <2>1 DEF Inv, AckedIsApplied, config, queue
<1>11. KeptUntilAnswered'
  <2>1. (place = "dropped" \/ Parked)' => place = "dropped" \/ Parked
    BY <1>1 DEF Parked, queue, Idle, Inv, TypeInv
  <2>2. QED
    BY <1>4, <2>1 DEF Inv, KeptUntilAnswered, Readable, config, queue, auth
<1>12. QED
  BY <1>5, <1>6, <1>7, <1>8, <1>9, <1>10, <1>11 DEF Inv

\* The request of a process that died still takes effect.
LEMMA ServeOrphanInv ==
  ASSUME Inv, TypeInv', ServeOrphan
  PROVE  Inv'
<1>1. PICK r \in Response : Serve(Head(orphans).op, Head(orphans).count, r)
  BY DEF ServeOrphan
<1>2. Head(orphans) \in Request /\ orphans \in Seq(Request) /\ orphans # <<>>
  BY DEF ServeOrphan, Inv, TypeInv
<1> DEFINE e == [op |-> Head(orphans).op, count |-> Head(orphans).count, response |-> r]
<1>3. /\ requests' = Append(requests, e)
      /\ applied' >= applied
      /\ known' = known
  BY <1>1, <1>2, ServeTyped DEF Inv, Request
<1>4. /\ \A i \in DOMAIN requests : i \in DOMAIN requests' /\ requests'[i] = requests[i]
      /\ \A i \in DOMAIN requests' : i \in DOMAIN requests \/ requests'[i] = e
      /\ Refused => Refused'
  BY <1>3, RequestsGrow DEF Inv, ServeOrphan, config
<1>5. applied > 0 => applied' > 0
  BY <1>3 DEF Inv, TypeInv
<1>6. GetsForStatus' /\ SuccessIsApplied' /\ AttemptIsStored' /\ AckedIsApplied'
      /\ TokenForUnsubscribed'
  BY <1>5 DEF Inv, GetsForStatus, TokenForUnsubscribed, auth, SuccessIsApplied, AttemptIsStored, AckedIsApplied, Holds,
     ServeOrphan, config, queue
<1>7. AnswersAreGiven'
  <2>1. ASSUME NEW x, \E i \in DOMAIN requests : requests[i].response = x
        PROVE  \E i \in DOMAIN requests' : requests'[i].response = x
    BY <1>4, <2>1
  <2>2. QED
    BY <2>1 DEF Inv, AnswersAreGiven, ServeOrphan
<1>8. OnlyGetsUnknown' /\ UpdatesOnlyKnown'
  <2>1. CASE worker = "status" /\ ~known
    <3>1. \A i \in DOMAIN orphans : orphans[i].op = "get"
      BY <2>1 DEF Inv, OnlyGetsUnknown
    <3>2. Head(orphans).op = "get"
      BY <1>2, <3>1
    <3>3. \A i \in DOMAIN Tail(orphans) : Tail(orphans)[i].op = "get"
      BY <1>2, <3>1
    <3>4. OnlyGetsUnknown'
      BY <2>1, <3>3 DEF Inv, OnlyGetsUnknown, ServeOrphan
    <3>5. \A i \in DOMAIN requests : requests[i].op # "write"
      BY <2>1 DEF Inv, UpdatesOnlyKnown
    <3>6. QED
      BY <1>4, <3>2, <3>4, <3>5 DEF UpdatesOnlyKnown
  <2>2. CASE ~(worker = "status" /\ ~known)
    BY <1>3, <2>2 DEF OnlyGetsUnknown, UpdatesOnlyKnown, ServeOrphan, config
  <2>3. QED
    BY <2>1, <2>2
<1>9. KeptUntilAnswered'
  BY <1>4 DEF Inv, KeptUntilAnswered, Parked, Readable, ServeOrphan, config, queue, auth
<1>10. QED
  BY <1>6, <1>7, <1>8, <1>9 DEF Inv

LEMMA PublishInv ==
  ASSUME Inv, TypeInv', Publish
  PROVE  Inv'
<1>1. /\ place = "unpublished" /\ place' = "queued"
      /\ UNCHANGED <<config, task, auth, orphans, service, mail>>
  BY DEF Publish
<1>2. GetsForStatus' /\ TokenForUnsubscribed' /\ SuccessIsApplied' /\ AnswersAreGiven'
  BY <1>1 DEF Inv, GetsForStatus, TokenForUnsubscribed, SuccessIsApplied, AnswersAreGiven,
     config, service, auth
<1>3. OnlyGetsUnknown' /\ UpdatesOnlyKnown'
  BY <1>1 DEF Inv, OnlyGetsUnknown, UpdatesOnlyKnown, config, service
<1>4. AttemptIsStored' /\ AckedIsApplied' /\ KeptUntilAnswered'
  BY <1>1 DEF AttemptIsStored, AckedIsApplied, KeptUntilAnswered, Parked, Holds
<1>5. QED
  BY <1>2, <1>3, <1>4 DEF Inv

LEMMA StepInv == Inv /\ [Next]_vars => Inv'
<1> SUFFICES ASSUME Inv, [Next]_vars PROVE Inv'
  OBVIOUS
<1>1. TypeInv'
  BY StepTyped DEF Inv
<1>2. ASSUME NEW p \in Process, Deliver(p) PROVE Inv'
  BY <1>1, <1>2, DeliverInv
<1>3. ASSUME NEW p \in Process, Consume(p) PROVE Inv'
  BY <1>1, <1>3, ConsumeInv
<1>4. ASSUME NEW p \in Process, CallEnds(p) PROVE Inv'
  <2>1. task[p].at = "calling" /\ UNCHANGED <<config, queue, auth, orphans, mail>>
    BY <1>4 DEF CallEnds, ServeCall, NotReached
  <2>2. CASE ServeCall(p)
    BY <1>1, <2>1, <2>2, AnsweredInv DEF ServeCall
  <2>3. CASE NotReached(p)
    BY <1>1, <2>1, <2>3, AnsweredInv DEF NotReached
  <2>4. QED
    BY <1>4, <2>2, <2>3 DEF CallEnds
<1>5. ASSUME NEW p \in Process, LoseChannel(p) \/ Crash(p) PROVE Inv'
  <2>1. \A q \in Process : token'[q] = "missing" => token[q] = "missing"
    BY <1>5 DEF LoseChannel, Crash, auth, Inv, TypeInv
  <2>2. QED
    BY <1>1, <1>5, <2>1, RequeueInv DEF LoseChannel, Crash, auth
<1>6. CASE ServeOrphan
  BY <1>1, <1>6, ServeOrphanInv
<1>7. ASSUME \/ BecomesKnown \/ MailResult \/ UNCHANGED vars
             \/ \E p \in Process : TokenAnswered(p) \/ TokenReconnected(p)
      PROVE  Inv'
  <2>1. UNCHANGED <<config, queue, requests, applied, task, orphans>>
    BY <1>7 DEF BecomesKnown, MailResult, TokenAnswered, TokenReconnected, vars, service
  <2>2. (known => known') /\ (mail # "none" => mail' # "none")
    BY <1>7 DEF BecomesKnown, MailResult, TokenAnswered, TokenReconnected, vars, service
  <2>3. /\ \A q \in Process : token'[q] = "missing" => tokenFailed'
        /\ tokenFailed => tokenFailed'
    <3>1. CASE UNCHANGED auth
      BY <3>1 DEF auth, Inv, TokenForUnsubscribed
    <3>2. CASE \E p \in Process : TokenAnswered(p) \/ TokenReconnected(p)
      BY <3>2 DEF TokenAnswered, TokenReconnected, Inv, TypeInv, TokenForUnsubscribed
    <3>3. QED
      BY <1>7, <3>1, <3>2 DEF BecomesKnown, MailResult, vars
  <2>4. QED
    BY <1>1, <2>1, <2>2, <2>3, QuietInv
<1>8. CASE Publish
  BY <1>1, <1>8, PublishInv
<1>9. QED
  BY <1>2, <1>3, <1>4, <1>5, <1>6, <1>7, <1>8 DEF Next

LEMMA Invariance == Spec => []Inv
<1>1. QED
  BY InitInv, StepInv, PTL DEF Spec

-----------------------------------------------------------------------------
(* Theorems *)

\* An acknowledged message was put into effect, for any number of processes,
\* attempts and faults (handleResponse, processCallbackResult).
THEOREM AckedIsAppliedHolds == Spec => []AckedIsApplied
<1>1. Inv => AckedIsApplied
  BY DEF Inv
<1>2. QED
  BY <1>1, Invariance, PTL

\* No message is given up before its retries are used up, unless a service
\* refused it or it cannot be relayed at all (logAndRetry, RetryManager.retry).
THEOREM KeptUntilAnsweredHolds == Spec => []KeptUntilAnswered
<1>1. Inv => KeptUntilAnswered
  BY DEF Inv
<1>2. QED
  BY <1>1, Invariance, PTL

\* No status update goes to a record that the service does not have, also
\* from a process that died (parseMessageIdFromBody).
THEOREM UpdatesOnlyKnownHolds == Spec => []UpdatesOnlyKnown
<1>1. Inv => UpdatesOnlyKnown
  BY DEF Inv
<1>2. QED
  BY <1>1, Invariance, PTL

-----------------------------------------------------------------------------
(* A message that waits for its retry is one attempt ahead of the broker's *)

DelayedIsAhead ==
  \A p \in Process : Holds(p) /\ task[p].at = "delay" => task[p].attempt = attempts + 1

CountInv == Inv /\ DelayedIsAhead

\* A step that leaves the queue alone and puts no task into a delay.
LEMMA DelaysKept ==
  ASSUME CountInv, UNCHANGED queue,
         \A q \in Process : task'[q].at = "delay" => task'[q] = task[q]
  PROVE  DelayedIsAhead'
BY DEF CountInv, DelayedIsAhead, Holds, queue

\* A step that takes the message from whoever holds it.
LEMMA DelaysDropped ==
  ASSUME TypeInv', place' # "held"
  PROVE  DelayedIsAhead'
BY DEF DelayedIsAhead, Holds

\* What a step does to the message's place and counter.
Moves ==
  \/ UNCHANGED queue
  \/ place = "unpublished" /\ place' = "queued" /\ UNCHANGED <<holder, attempts>>
  \/ \E p \in Process :
       place = "queued" /\ place' = "held" /\ holder' = p /\ attempts' = attempts
  \/ \E p \in Process :
       Holds(p) /\ place' \in {"acked", "dropped"} /\ holder' = Nobody /\ attempts' = attempts
  \/ \E p \in Process :
       Holds(p) /\ place' = "queued" /\ holder' = Nobody /\ attempts' = attempts
  \/ \E p \in Process :
       /\ Holds(p) /\ place' = "queued" /\ holder' = Nobody
       /\ attempts < RetryLimit /\ attempts' = attempts + 1

LEMMA ConsumeMoves ==
  ASSUME CountInv, TypeInv', NEW p \in Process, Consume(p)
  PROVE  Moves /\ DelayedIsAhead'
<1>1. Calls(p) \/ Returns(p) \/ Requeues(p) \/ Asks(p)
  BY ConsumeEffect DEF CountInv, Inv
<1>2. task \in [Process -> Task]
  BY DEF CountInv, Inv, TypeInv
<1>3. CASE Calls(p) \/ Asks(p)
  <2>1. UNCHANGED queue /\ \A q \in Process : task'[q].at = "delay" => task'[q] = task[q]
    BY <1>2, <1>3 DEF Calls, Asks
  <2>2. QED
    BY <2>1, DelaysKept DEF Moves
<1>4. CASE Returns(p) /\ task' = [task EXCEPT ![p] = Idle]
  <2>1. \A q \in Process : task'[q].at = "delay" => task'[q] = task[q]
    BY <1>2, <1>4 DEF Idle
  <2>2. CASE UNCHANGED queue
    BY <2>1, <2>2, DelaysKept DEF Moves
  <2>3. CASE Holds(p) /\ place' \in {"acked", "dropped"} /\ holder' = Nobody
    BY <1>4, <2>3, DelaysDropped DEF Moves, Returns
  <2>4. QED
    BY <1>4, <2>2, <2>3 DEF Returns
<1>5. CASE /\ task' = [task EXCEPT ![p] = [at |-> "delay", attempt |-> @.attempt + 1]]
           /\ UNCHANGED queue /\ task[p].at \in {"start", "auth", "answered"}
  <2>1. Holds(p) => task[p].attempt = attempts
    BY <1>5 DEF CountInv, Inv, AttemptIsStored
  <2>2. /\ task'[p].attempt = task[p].attempt + 1
        /\ \A q \in Process \ {p} : task'[q] = task[q]
    BY <1>2, <1>5
  <2>3. DelayedIsAhead'
    BY <1>5, <2>1, <2>2 DEF CountInv, DelayedIsAhead, Holds, queue
  <2>4. QED
    BY <1>5, <2>3 DEF Moves
<1>6. CASE Requeues(p)
  <2>1. \A q \in Process : task'[q].at = "delay" => task'[q] = task[q]
    BY <1>2, <1>6 DEF Requeues, Idle
  <2>2. CASE UNCHANGED queue
    BY <2>1, <2>2, DelaysKept DEF Moves
  <2>3. CASE Holds(p) /\ place' = "queued" /\ holder' = Nobody /\ attempts' = task[p].attempt
    <3>1. attempts' = attempts + 1
      BY <1>6, <2>3 DEF Requeues, CountInv, DelayedIsAhead
    <3>2. attempts < RetryLimit
      BY <3>1, LimitAssumption DEF TypeInv, CountInv, Inv
    <3>3. QED
      BY <2>3, <3>1, <3>2, DelaysDropped DEF Moves
  <2>4. QED
    BY <1>6, <2>2, <2>3 DEF Requeues
<1>7. QED
  BY <1>1, <1>3, <1>4, <1>5, <1>6 DEF Returns

LEMMA RequeueMoves ==
  ASSUME CountInv, TypeInv', NEW p \in Process, Requeue(p),
         \A q \in Process : task'[q].at = "delay" => task'[q] = task[q]
  PROVE  Moves /\ DelayedIsAhead'
<1>1. CASE Holds(p)
  BY <1>1, DelaysDropped DEF Requeue, Moves
<1>2. CASE ~Holds(p)
  <2>1. UNCHANGED queue
    BY <1>2 DEF Requeue, queue
  <2>2. QED
    BY <2>1, DelaysKept DEF Moves
<1>3. QED
  BY <1>1, <1>2

LEMMA StepMoves == CountInv /\ TypeInv' /\ [Next]_vars => Moves /\ DelayedIsAhead'
<1> SUFFICES ASSUME CountInv, TypeInv', [Next]_vars PROVE Moves /\ DelayedIsAhead'
  OBVIOUS
<1>0. task \in [Process -> Task]
  BY DEF CountInv, Inv, TypeInv
<1>1. CASE Publish
  <2>1. place = "unpublished" /\ place' = "queued" /\ UNCHANGED <<holder, attempts>>
    BY <1>1 DEF Publish
  <2>2. QED
    BY <2>1, DelaysDropped DEF Moves
<1>2. ASSUME NEW p \in Process, Deliver(p) PROVE Moves /\ DelayedIsAhead'
  <2>1. /\ place = "queued" /\ place' = "held" /\ holder' = p /\ attempts' = attempts
        /\ task'[p].at = "start"
    BY <1>0, <1>2 DEF Deliver
  <2>2. QED
    BY <2>1 DEF Moves, DelayedIsAhead, Holds
<1>3. ASSUME NEW p \in Process, Consume(p) PROVE Moves /\ DelayedIsAhead'
  BY <1>3, ConsumeMoves
<1>4. ASSUME NEW p \in Process, CallEnds(p) \/ TokenAnswered(p) \/ TokenReconnected(p)
      PROVE  Moves /\ DelayedIsAhead'
  <2>1. UNCHANGED queue /\ \A q \in Process : task'[q].at = "delay" => task'[q] = task[q]
    BY <1>0, <1>4 DEF CallEnds, ServeCall, NotReached, TokenAnswered, TokenReconnected
  <2>2. QED
    BY <2>1, DelaysKept DEF Moves
<1>5. ASSUME NEW p \in Process, LoseChannel(p) \/ Crash(p) PROVE Moves /\ DelayedIsAhead'
  <2>1. Requeue(p) /\ \A q \in Process : task'[q].at = "delay" => task'[q] = task[q]
    BY <1>0, <1>5 DEF LoseChannel, Crash, config, Idle
  <2>2. QED
    BY <2>1, RequeueMoves
<1>6. CASE ServeOrphan \/ BecomesKnown \/ MailResult \/ UNCHANGED vars
  <2>1. UNCHANGED <<queue, task>>
    BY <1>6 DEF ServeOrphan, BecomesKnown, MailResult, vars
  <2>2. QED
    BY <2>1, DelaysKept DEF Moves
<1>7. QED
  BY <1>1, <1>2, <1>3, <1>4, <1>5, <1>6 DEF Next

LEMMA InitAhead == Init => DelayedIsAhead
BY DEF Init, DelayedIsAhead, Holds, Idle

-----------------------------------------------------------------------------
(* Nothing follows a final response *)

\* The message has been settled, or the holder has left it, or is about to
\* end it with what it has read.
Ended ==
  \/ place \in {"acked", "dropped"}
  \/ /\ place = "held"
     /\ \/ task[holder] = Idle
        \/ task[holder].at = "answered" /\ Final(task[holder])

\* Without faults only the holder works, and nothing follows a final response.
FinalInv ==
  faults = 0 =>
    /\ orphans = <<>>
    /\ \A p \in Process : task[p] # Idle => Holds(p)
    /\ \A i \in DOMAIN requests : Final(requests[i]) => i = Len(requests) /\ Ended

\* A final response makes consume() acknowledge or leave the message.
LEMMA FinalResults ==
  ASSUME NEW r \in Response, NEW op \in {"get", "write"},
         Final([op |-> op, response |-> r])
  PROVE  /\ op = "write" => Result(r) \in {"true", "false"}
         /\ op = "get" /\ worker = "status" => RelayResult(r) = "false"
<1>1. r # Unreachable
  <2>1. r.status \in Status
    BY DEF Response
  <2>2. r.status # 0
    BY <2>1, StatusAssumption
  <2>3. QED
    BY <2>2 DEF Unreachable
<1>2. Refuses(r) \/ (op = "write" /\ r.status \in {200, 204})
  BY DEF Final
<1>3. CASE worker = "fetch"
  BY <1>1, <1>3 DEF Result, FetchResult
<1>4. CASE worker = "update"
  BY <1>1, <1>2, <1>4 DEF Refuses, Result, IdentifyResult
<1>5. CASE worker \notin {"fetch", "update"}
  <2>1. RelayResult(r) = HandleResponse(r) /\ Result(r) = RelayResult(r)
    BY <1>1, <1>5 DEF RelayResult, Result
  <2>2. r.suppress \/ r.status \in {200, 204, 422}
    BY <1>2, <1>5 DEF Refuses
  <2>3. HandleResponse(r) \in {"true", "false"}
    BY <2>2 DEF HandleResponse, ShouldRetry, CheckRetrySuppress, IsAllowedHttpStatus,
       LogSuppressedRetry, LogResponse, LogSuccess, LogUnprocessableEntity
  <2>4. op = "get" => r.suppress \/ r.status = 422
    BY <1>2, <1>5 DEF Refuses
  <2>5. op = "get" => HandleResponse(r) = "false"
    BY <2>4 DEF HandleResponse, ShouldRetry, CheckRetrySuppress, IsAllowedHttpStatus,
       LogSuppressedRetry, LogResponse, LogSuccess, LogUnprocessableEntity
  <2>6. QED
    BY <2>1, <2>3, <2>5
<1>6. QED
  BY <1>3, <1>4, <1>5

\* So does the consume() of a task that has such a response.
LEMMA FinalEnds ==
  ASSUME TypeInv, GetsForStatus, NEW p \in Process, Consume(p), Holds(p),
         task[p].at = "answered", Final(task[p])
  PROVE  place' = "acked" \/ (task'[p] = Idle /\ UNCHANGED queue)
<1> DEFINE r == task[p].response
<1>0. task \in [Process -> Task]
  BY DEF TypeInv
<1>1. task[p].op \in {"get", "write"} /\ r \in Response \cup {Unreachable}
  BY <1>0, TaskAnswered
<1>2. r # Unreachable
  BY <1>1 DEF Final, Refuses, Unreachable
<1>3. Final([op |-> task[p].op, response |-> r])
  BY DEF Final
<1>4. ASSUME Return(p, "true") \/ Return(p, "false")
      PROVE  place' = "acked" \/ (task'[p] = Idle /\ UNCHANGED queue)
  BY <1>0, <1>4 DEF Return, Answer, LeaveUnacked
<1>5. CASE task[p].op = "write"
  <2>1. WriteReturns(p)
    BY <1>5 DEF Consume, WriteReturns, GetReturns, RetryDue, ConsumeUnreadable, ConsumeFetch,
       ConsumeUpdateCustomer, ConsumeBroadcast, ConsumeSmsStatusActive, ConsumeSmsInbound,
       ConsumeCampaignSignup, ConsumeEmailUnsubscribed, GetAuthHeader, ConsumeStatusCallback,
       ConsumeTrackEvent, Consuming
  <2>2. Result(r) \in {"true", "false"}
    BY <1>1, <1>2, <1>3, <1>5, FinalResults
  <2>3. QED
    BY <1>4, <2>1, <2>2 DEF WriteReturns
<1>6. CASE task[p].op = "get"
  <2>1. GetReturns(p)
    BY <1>6 DEF Consume, WriteReturns, GetReturns, RetryDue, ConsumeUnreadable, ConsumeFetch,
       ConsumeUpdateCustomer, ConsumeBroadcast, ConsumeSmsStatusActive, ConsumeSmsInbound,
       ConsumeCampaignSignup, ConsumeEmailUnsubscribed, GetAuthHeader, ConsumeStatusCallback,
       ConsumeTrackEvent, Consuming
  <2>2. RelayResult(r) = "false"
    BY <1>1, <1>2, <1>3, <1>6, FinalResults DEF GetsForStatus
  <2>3. Return(p, "false")
    BY <2>1, <2>2 DEF GetReturns
  <2>4. QED
    BY <1>4, <2>3
<1>7. QED
  BY <1>1, <1>5, <1>6

LEMMA ConsumeFinal ==
  ASSUME Inv, TypeInv', FinalInv, NEW p \in Process, Consume(p)
  PROVE  FinalInv'
<1>1. /\ UNCHANGED <<config, orphans, service, faults>>
      /\ Calls(p) \/ Returns(p) \/ Requeues(p) \/ Asks(p)
  BY ConsumeEffect DEF Inv
<1>2. UNCHANGED <<worker, requests>>
  BY <1>1 DEF config, service
<1>3. SUFFICES ASSUME faults = 0
               PROVE  /\ orphans' = <<>>
                      /\ \A q \in Process : task'[q] # Idle => Holds(q)'
                      /\ \A i \in DOMAIN requests : Final(requests[i])' => i = Len(requests) /\ Ended'
  BY <1>1, <1>2 DEF FinalInv
<1>4. /\ orphans = <<>>
      /\ \A q \in Process : task[q] # Idle => Holds(q)
      /\ \A i \in DOMAIN requests : Final(requests[i]) => i = Len(requests) /\ Ended
  BY <1>3 DEF FinalInv
<1>5. /\ task \in [Process -> Task]
      /\ task[p] # Idle
  BY <1>1 DEF Inv, TypeInv, Calls, Returns, Requeues, Asks, Idle
<1>6. Holds(p) /\ \A q \in Process \ {p} : task[q] = Idle /\ task'[q] = Idle
  BY <1>1, <1>4, <1>5 DEF Holds, Calls, Returns, Requeues, Asks
<1>7. task'[p] = Idle \/ UNCHANGED queue
  BY <1>1, <1>5 DEF Calls, Returns, Requeues, Asks
<1>8. \A q \in Process : task'[q] # Idle => Holds(q)'
  BY <1>6, <1>7 DEF Holds, queue
<1>9. ASSUME NEW i \in DOMAIN requests, Final(requests[i])'
      PROVE  i = Len(requests) /\ Ended'
  <2>1. Final(requests[i])
    BY <1>1, <1>9 DEF Final, Refuses, config, service
  <2>2. i = Len(requests) /\ Ended
    BY <1>4, <2>1
  <2>3. task[p].at = "answered" /\ Final(task[p])
    BY <1>5, <1>6, <2>2 DEF Ended, Holds
  <2>4. place' = "acked" \/ (task'[p] = Idle /\ UNCHANGED queue)
    BY <1>6, <2>3, FinalEnds DEF Inv
  <2>5. Ended'
    BY <1>6, <2>4 DEF Ended, Holds, queue
  <2>6. QED
    BY <2>2, <2>5
<1>10. QED
  BY <1>1, <1>4, <1>8, <1>9

\* What a task has been answered is the last request of all.
LEMMA CallEndsFinal ==
  ASSUME Inv, TypeInv', FinalInv, NEW p \in Process, CallEnds(p)
  PROVE  FinalInv'
<1>1. /\ task[p].at = "calling" /\ UNCHANGED <<config, queue, orphans, faults>>
  BY DEF CallEnds, ServeCall, NotReached
<1>2. SUFFICES ASSUME faults = 0
               PROVE  /\ orphans' = <<>>
                      /\ \A q \in Process : task'[q] # Idle => Holds(q)'
                      /\ \A i \in DOMAIN requests' :
                           Final(requests[i])' => i = (Len(requests))' /\ Ended'
  BY <1>1 DEF FinalInv
<1>3. /\ orphans = <<>>
      /\ \A q \in Process : task[q] # Idle => Holds(q)
      /\ \A i \in DOMAIN requests : Final(requests[i]) => i = Len(requests) /\ Ended
  BY <1>2 DEF FinalInv
<1>4. /\ task \in [Process -> Task] /\ requests \in Seq(Served)
      /\ task[p] # Idle
  BY <1>1 DEF Inv, TypeInv, Idle
<1>5. Holds(p) /\ ~Ended
  BY <1>1, <1>3, <1>4 DEF Holds, Ended
<1>6. \A i \in DOMAIN requests : ~Final(requests[i])
  BY <1>3, <1>5
<1>7. PICK r \in Response \cup {Unreachable} :
        /\ task' = [task EXCEPT ![p] = [at |-> "answered", attempt |-> @.attempt,
                                        op |-> @.op, response |-> r]]
        /\ \/ requests' = Append(requests, [op |-> task[p].op, count |-> RetryCount(task[p].attempt),
                                            response |-> r])
           \/ requests' = requests
  BY DEF CallEnds, ServeCall, NotReached, Serve, service
<1>8. /\ \A q \in Process \ {p} : task'[q] = task[q]
      /\ task'[p].at = "answered" /\ task'[p].op = task[p].op /\ task'[p].response = r
  BY <1>4, <1>7
<1>9. \A q \in Process : task'[q] # Idle => Holds(q)'
  BY <1>1, <1>3, <1>5, <1>8 DEF Holds, queue
<1>91. \A x : Final(x)' <=> Final(x)
  BY <1>1 DEF Final, Refuses, config
<1>10. ASSUME NEW i \in DOMAIN requests', Final(requests'[i])
       PROVE  i = Len(requests') /\ Ended'
  <2>2. CASE requests' = requests
    BY <1>6, <1>10, <2>2
  <2>3. CASE requests' = Append(requests, [op |-> task[p].op, count |-> RetryCount(task[p].attempt),
                                           response |-> r])
    <3>1. i = Len(requests') /\ requests'[i].op = task[p].op /\ requests'[i].response = r
      BY <1>4, <1>6, <1>10, <2>3
    <3>2. Final(task'[p])
      BY <1>8, <1>10, <3>1 DEF Final
    <3>3. task'[holder'].at = "answered" /\ Final(task'[holder']) /\ place' = "held"
      BY <1>1, <1>5, <1>8, <3>2 DEF Holds, queue
    <3>4. Ended'
      BY <1>91, <3>3 DEF Ended
    <3>5. QED
      BY <3>1, <3>4
  <2>4. QED
    BY <1>7, <2>2, <2>3
<1>11. QED
  BY <1>1, <1>3, <1>9, <1>91, <1>10

LEMMA StepFinal == Inv /\ TypeInv' /\ FinalInv /\ [Next]_vars => FinalInv'
<1> SUFFICES ASSUME Inv, TypeInv', FinalInv, [Next]_vars PROVE FinalInv'
  OBVIOUS
<1>0. task \in [Process -> Task] /\ faults \in Nat
  BY LimitAssumption DEF Inv, TypeInv
<1>1. ASSUME UNCHANGED <<config, place, holder, task, orphans, requests, faults>>
      PROVE  FinalInv'
  BY <1>1 DEF FinalInv, Ended, Final, Refuses, Holds, config
<1>2. ASSUME place \in {"unpublished", "queued"}, UNCHANGED <<config, orphans, requests, faults>>,
             \A p \in Process : task'[p] # Idle => task[p] # Idle \/ Holds(p)'
      PROVE  FinalInv'
  BY <1>2 DEF FinalInv, Ended, Final, Refuses, Holds, config
<1>3. CASE Publish
  BY <1>2, <1>3 DEF Publish, service
<1>4. ASSUME NEW p \in Process, Deliver(p) PROVE FinalInv'
  <2>1. \A q \in Process : task'[q] # Idle => task[q] # Idle \/ Holds(q)'
    BY <1>0, <1>4 DEF Deliver, Holds
  <2>2. QED
    BY <1>2, <1>4, <2>1 DEF Deliver, service
<1>5. ASSUME NEW p \in Process, Consume(p) PROVE FinalInv'
  BY <1>5, ConsumeFinal
<1>6. ASSUME NEW p \in Process, CallEnds(p) PROVE FinalInv'
  BY <1>6, CallEndsFinal
<1>7. ASSUME NEW p \in Process, LoseChannel(p) \/ Crash(p) PROVE FinalInv'
  BY <1>0, <1>7 DEF LoseChannel, Crash, Fault, FinalInv
<1>8. CASE ServeOrphan
  BY <1>8 DEF ServeOrphan, FinalInv
<1>9. ASSUME \/ BecomesKnown \/ MailResult \/ UNCHANGED vars
             \/ \E p \in Process : TokenAnswered(p) \/ TokenReconnected(p)
      PROVE  FinalInv'
  BY <1>1, <1>9 DEF BecomesKnown, MailResult, TokenAnswered, TokenReconnected, vars, queue,
     service
<1>10. QED
  BY <1>3, <1>4, <1>5, <1>6, <1>7, <1>8, <1>9 DEF Next

\* Without a fault a service is not asked again once it has put the message
\* into effect or refused it, and has said so: consume() acknowledges or leaves
\* the message then (shouldRetry, checkRetrySuppress).
THEOREM FinalIsLastHolds == Spec => []FinalIsLast
<1>1. Init => FinalInv
  BY DEF Init, FinalInv
<1>2. FinalInv => FinalIsLast
  BY DEF FinalInv, FinalIsLast
<1>3. Inv /\ Inv' => TypeInv'
  BY DEF Inv
<1>4. QED
  BY <1>1, <1>2, <1>3, Invariance, StepFinal, PTL DEF Spec

-----------------------------------------------------------------------------
(* Requests with the same count *)

\* A sum that only a fault raises: the requests of one kind and one count that
\* a service has got, those in transit, and those still to come.
Same(r, op, n) == r.op = op /\ r.count = n

Those(s, op, n) == {i \in DOMAIN s : Same(s[i], op, n)}
Sent(op, n) == Those(requests, op, n)
Orphaned(op, n) == Those(orphans, op, n)

\* Tasks with such a request in transit or still to come.
Asking(op, n) ==
  {p \in Process :
     /\ \/ task[p].at \in {"start", "auth"}
        \/ task[p].at = "calling" /\ (op = "write" \/ task[p].op = op)
        \/ task[p].at = "answered" /\ op = "write" /\ task[p].op = "get"
     /\ task[p].attempt = n}

\* Will the stored message be delivered with that attempt once more?
Stored(n) ==
  IF \/ place \in {"unpublished", "queued"} /\ attempts <= n
     \/ place = "held" /\ attempts < n
  THEN 1 ELSE 0

\* Only a fault makes one request more of what has been asked for.
UsesBounded ==
  \A op \in {"get", "write"}, n \in 0..RetryLimit :
    /\ IsFiniteSet(Asking(op, n))
    /\ Cardinality(Sent(op, n)) + Cardinality(Orphaned(op, n))
         + Cardinality(Asking(op, n)) + Stored(n) <= faults + 1

RepeatInv == CountInv /\ (SendsRetryCount => UsesBounded)

LEMMA FiniteIndices ==
  ASSUME NEW S, NEW s \in Seq(S), NEW T \in SUBSET DOMAIN s
  PROVE  IsFiniteSet(T) /\ Cardinality(T) \in Nat
<1>1. DOMAIN s = 1..Len(s) /\ Len(s) \in Nat
  OBVIOUS
<1>2. IsFiniteSet(DOMAIN s)
  BY <1>1, FS_Interval
<1>3. QED
  BY <1>2, FS_Subset, FS_CardinalityType

LEMMA SentAndOrphaned ==
  ASSUME TypeInv, NEW op, NEW n
  PROVE  /\ IsFiniteSet(Sent(op, n)) /\ Cardinality(Sent(op, n)) \in Nat
         /\ IsFiniteSet(Orphaned(op, n)) /\ Cardinality(Orphaned(op, n)) \in Nat
<1>1. requests \in Seq(Served) /\ orphans \in Seq(Request)
  BY DEF TypeInv
<1>2. Sent(op, n) \in SUBSET DOMAIN requests /\ Orphaned(op, n) \in SUBSET DOMAIN orphans
  BY DEF Sent, Orphaned, Those
<1>3. QED
  BY <1>1, <1>2, FiniteIndices

\* A request more, of one kind.
LEMMA AppendCounts ==
  ASSUME NEW S, NEW s \in Seq(S), NEW e \in S, NEW op, NEW n
  PROVE  Cardinality(Those(Append(s, e), op, n))
           = Cardinality(Those(s, op, n)) + (IF Same(e, op, n) THEN 1 ELSE 0)
<1> DEFINE old == {i \in DOMAIN s : Same(s[i], op, n)}
           new == {i \in DOMAIN Append(s, e) : Same(Append(s, e)[i], op, n)}
<1>1. /\ DOMAIN Append(s, e) = DOMAIN s \cup {Len(s) + 1} /\ Len(s) + 1 \notin DOMAIN s
      /\ \A i \in DOMAIN s : Append(s, e)[i] = s[i]
      /\ Append(s, e)[Len(s) + 1] = e
  OBVIOUS
<1>2. new = IF Same(e, op, n) THEN old \cup {Len(s) + 1} ELSE old
  BY <1>1
<1>3. old \in SUBSET DOMAIN s
  OBVIOUS
<1>4. IsFiniteSet(old) /\ Cardinality(old) \in Nat
  BY <1>3, FiniteIndices
<1>5. Len(s) + 1 \notin old
  BY <1>1
<1> HIDE DEF old, new
<1>6. Cardinality(new) = Cardinality(old) + (IF Same(e, op, n) THEN 1 ELSE 0)
  <2>1. Cardinality(old \cup {Len(s) + 1}) = Cardinality(old) + 1
    BY <1>4, <1>5, FS_AddElement
  <2>2. QED
    BY <1>2, <1>4, <2>1
<1>7. QED
  BY <1>6 DEF old, new, Those

\* The first one is gone.
LEMMA TailCounts ==
  ASSUME NEW S, NEW s \in Seq(S), s # <<>>, NEW op, NEW n
  PROVE  Cardinality(Those(Tail(s), op, n)) = Cardinality(Those(s, op, n))
               - (IF Same(Head(s), op, n) THEN 1 ELSE 0)
<1> DEFINE old == {i \in DOMAIN s : Same(s[i], op, n)}
           new == {i \in DOMAIN Tail(s) : Same(Tail(s)[i], op, n)}
           f == [i \in new |-> i + 1]
<1>1. /\ Tail(s) \in Seq(S) /\ Len(s) \in Nat /\ Len(Tail(s)) = Len(s) - 1
      /\ DOMAIN s = 1..Len(s) /\ DOMAIN Tail(s) = 1..(Len(s) - 1)
      /\ \A i \in DOMAIN Tail(s) : Tail(s)[i] = s[i + 1]
      /\ Head(s) = s[1] /\ 1 \in DOMAIN s
  OBVIOUS
<1>2. new \in SUBSET DOMAIN Tail(s) /\ old \in SUBSET DOMAIN s
  OBVIOUS
<1>3. IsFiniteSet(new) /\ IsFiniteSet(old) /\ Cardinality(old) \in Nat
  BY <1>1, <1>2, FiniteIndices
<1>4. \A i \in old \ {1} : i - 1 \in new /\ f[i - 1] = i
  BY <1>1
<1>5. f \in [new -> old \ {1}]
  BY <1>1
<1>6. \A i, j \in new : f[i] = f[j] => i = j
  BY <1>1
<1>7. f \in Bijection(new, old \ {1})
  BY <1>4, <1>5, <1>6 DEF Bijection, Injection, IsInjective, Surjection
<1>8. Cardinality(old \ {1}) = Cardinality(new)
  <2> HIDE DEF old, new, f
  <2>1. ExistsBijection(new, old \ {1})
    BY <1>7 DEF ExistsBijection
  <2>2. QED
    BY <1>3, <2>1, FS_Bijection
<1>9. 1 \in old <=> Same(Head(s), op, n)
  BY <1>1
<1> HIDE DEF old, new, f
<1>10. Cardinality(new) = Cardinality(old) - (IF Same(Head(s), op, n) THEN 1 ELSE 0)
  <2>1. Cardinality(old \ {1}) = IF 1 \in old THEN Cardinality(old) - 1 ELSE Cardinality(old)
    BY <1>3, FS_RemoveElement
  <2>2. QED
    BY <1>3, <1>8, <1>9, <2>1
<1>11. QED
  BY <1>10 DEF old, new, Those

-----------------------------------------------------------------------------
(* The steps *)

Uses(op, n) ==
  Cardinality(Sent(op, n)) + Cardinality(Orphaned(op, n))
    + Cardinality(Asking(op, n)) + Stored(n)

LEMMA UsesKept ==
  ASSUME TypeInv, TypeInv', UsesBounded, faults' >= faults,
         NEW op \in {"get", "write"}, NEW n \in 0..RetryLimit,
         IsFiniteSet(Asking(op, n)'),
         Uses(op, n)' <= Uses(op, n) + (faults' - faults)
  PROVE  Uses(op, n)' <= faults' + 1
<1>1. faults \in Nat /\ faults' \in Nat
  BY LimitAssumption DEF TypeInv
<1>2. IsFiniteSet(Asking(op, n)) /\ Uses(op, n) <= faults + 1
  BY DEF UsesBounded, Uses
<1>3. Cardinality(Asking(op, n)) \in Nat /\ Cardinality(Asking(op, n)') \in Nat
  BY <1>2, FS_CardinalityType
<1>4. /\ Cardinality(Sent(op, n)) \in Nat /\ Cardinality(Orphaned(op, n)) \in Nat
  BY SentAndOrphaned
<1>5. /\ Cardinality(Sent(op, n)') \in Nat /\ Cardinality(Orphaned(op, n)') \in Nat
  <2>1. requests' \in Seq(Served) /\ orphans' \in Seq(Request)
    BY DEF TypeInv
  <2>2. Sent(op, n)' \in SUBSET DOMAIN requests' /\ Orphaned(op, n)' \in SUBSET DOMAIN orphans'
    BY DEF Sent, Orphaned, Those
  <2>3. QED
    BY <2>1, <2>2, FiniteIndices
<1>6. Uses(op, n) \in Int /\ Uses(op, n)' \in Int
  BY <1>3, <1>4, <1>5 DEF Uses, Stored
<1>7. QED
  BY <1>1, <1>2, <1>6

\* The parts of the sum are numbers.
LEMMA UsesParts ==
  ASSUME TypeInv, UsesBounded, NEW op \in {"get", "write"}, NEW n \in 0..RetryLimit
  PROVE  /\ IsFiniteSet(Asking(op, n)) /\ Cardinality(Asking(op, n)) \in Nat
         /\ Cardinality(Sent(op, n)) \in Nat /\ Cardinality(Orphaned(op, n)) \in Nat
         /\ Stored(n) \in {0, 1}
<1>1. IsFiniteSet(Asking(op, n))
  BY DEF UsesBounded
<1>2. QED
  BY <1>1, FS_CardinalityType, SentAndOrphaned DEF Stored

\* No request is sent, and no task has one more to send.
LEMMA QuietUses ==
  ASSUME TypeInv, UsesBounded, NEW op \in {"get", "write"}, NEW n \in 0..RetryLimit,
         UNCHANGED <<requests, orphans>>, faults' \in Nat,
         Asking(op, n)' \subseteq Asking(op, n),
         Stored(n)' <= Stored(n) + (faults' - faults)
  PROVE  IsFiniteSet(Asking(op, n)') /\ Uses(op, n)' <= Uses(op, n) + (faults' - faults)
<1>1. Sent(op, n)' = Sent(op, n) /\ Orphaned(op, n)' = Orphaned(op, n)
  BY DEF Sent, Orphaned
<1>2. /\ IsFiniteSet(Asking(op, n)') /\ Cardinality(Asking(op, n)') \in Nat
      /\ Cardinality(Asking(op, n)') <= Cardinality(Asking(op, n))
  BY UsesParts, FS_Subset, FS_CardinalityType
<1>3. faults \in Nat /\ Stored(n)' \in {0, 1}
  BY LimitAssumption DEF TypeInv, Stored
<1>4. QED
  BY <1>1, <1>2, <1>3, UsesParts DEF Uses

\* A task that has sent its request has one less to send.
LEMMA AskingShrinks ==
  ASSUME TypeInv, UsesBounded, NEW op \in {"get", "write"}, NEW n \in 0..RetryLimit,
         NEW p \in Process, p \in Asking(op, n),
         Asking(op, n)' \subseteq Asking(op, n) \ {p}
  PROVE  /\ IsFiniteSet(Asking(op, n)') /\ Cardinality(Asking(op, n)') \in Nat
         /\ Cardinality(Asking(op, n)') + 1 <= Cardinality(Asking(op, n))
<1>1. IsFiniteSet(Asking(op, n)) /\ Cardinality(Asking(op, n)) \in Nat
  BY UsesParts
<1>2. /\ IsFiniteSet(Asking(op, n) \ {p})
      /\ Cardinality(Asking(op, n) \ {p}) = Cardinality(Asking(op, n)) - 1
  BY <1>1, FS_RemoveElement
<1>3. /\ IsFiniteSet(Asking(op, n)') /\ Cardinality(Asking(op, n)') \in Nat
      /\ Cardinality(Asking(op, n)') <= Cardinality(Asking(op, n) \ {p})
  BY <1>2, FS_Subset, FS_CardinalityType
<1>4. QED
  BY <1>1, <1>2, <1>3

\* A delivery takes the message from the queue and gives it to a task.
LEMMA DeliverUses ==
  ASSUME TypeInv, UsesBounded, NEW op \in {"get", "write"}, NEW n \in 0..RetryLimit,
         NEW p \in Process, Deliver(p)
  PROVE  IsFiniteSet(Asking(op, n)') /\ Uses(op, n)' <= Uses(op, n)
<1>1. /\ task \in [Process -> Task] /\ attempts \in Nat /\ task[p] = Idle
      /\ task' = [task EXCEPT ![p] = [at |-> "start", attempt |-> attempts]]
      /\ place = "queued" /\ place' = "held" /\ attempts' = attempts
      /\ UNCHANGED <<requests, orphans>>
  BY LimitAssumption DEF TypeInv, Deliver, service
<1>2. Sent(op, n)' = Sent(op, n) /\ Orphaned(op, n)' = Orphaned(op, n)
  BY <1>1 DEF Sent, Orphaned
<1>3. p \notin Asking(op, n)
  BY <1>1 DEF Asking, Idle
<1>4. Asking(op, n)' = IF attempts = n THEN Asking(op, n) \cup {p} ELSE Asking(op, n)
  BY <1>1 DEF Asking, Idle
<1>5. Stored(n)' = IF attempts = n THEN Stored(n) - 1 ELSE Stored(n)
  BY <1>1 DEF Stored
<1>6. /\ IsFiniteSet(Asking(op, n) \cup {p})
      /\ Cardinality(Asking(op, n) \cup {p}) = Cardinality(Asking(op, n)) + 1
  BY <1>3, UsesParts, FS_AddElement
<1>7. CASE attempts = n
  BY <1>2, <1>4, <1>5, <1>6, <1>7, UsesParts DEF Uses
<1>8. CASE attempts # n
  BY <1>2, <1>4, <1>5, <1>8, UsesParts DEF Uses
<1>9. QED
  BY <1>7, <1>8

\* The service takes the request of a task.
LEMMA ServeUses ==
  ASSUME TypeInv, SendsRetryCount, UsesBounded, NEW op \in {"get", "write"}, NEW n \in 0..RetryLimit,
         NEW p \in Process, ServeCall(p)
  PROVE  IsFiniteSet(Asking(op, n)') /\ Uses(op, n)' <= Uses(op, n)
<1> DEFINE o == task[p].op
           k == task[p].attempt
<1>1. /\ task \in [Process -> Task] /\ requests \in Seq(Served) /\ task[p].at = "calling"
      /\ o \in {"get", "write"} /\ k \in 0..RetryLimit
  BY TaskCalling DEF TypeInv, ServeCall
<1>2. PICK r \in Response \cup {Unreachable} :
        /\ task' = [task EXCEPT ![p] = [at |-> "answered", attempt |-> @.attempt,
                                        op |-> @.op, response |-> r]]
        /\ requests' = Append(requests, [op |-> o, count |-> k, response |-> r])
  BY DEF ServeCall, Serve, RetryCount
<1> DEFINE e == [op |-> o, count |-> k, response |-> r]
<1>3. e \in Served
  BY <1>1 DEF Served
<1>4. Orphaned(op, n)' = Orphaned(op, n) /\ Stored(n)' = Stored(n)
  BY DEF ServeCall, Orphaned, Stored, queue
<1>5. Cardinality(Sent(op, n)') = Cardinality(Sent(op, n)) + (IF Same(e, op, n) THEN 1 ELSE 0)
  <2> HIDE DEF e
  <2>1. requests' = Append(requests, e)
    BY <1>2 DEF e
  <2>2. QED
    BY <1>1, <1>3, <2>1, AppendCounts DEF Sent
<1>6. Asking(op, n)' \subseteq Asking(op, n)
  BY <1>1, <1>2 DEF Asking
<1>7. CASE Same(e, op, n)
  <2>1. p \in Asking(op, n) /\ Asking(op, n)' \subseteq Asking(op, n) \ {p}
    BY <1>1, <1>2, <1>6, <1>7 DEF Same, Asking
  <2>2. /\ IsFiniteSet(Asking(op, n)') /\ Cardinality(Asking(op, n)') \in Nat
        /\ Cardinality(Asking(op, n)') + 1 <= Cardinality(Asking(op, n))
    BY <2>1, AskingShrinks
  <2>3. Cardinality(Sent(op, n)') = Cardinality(Sent(op, n)) + 1
    BY <1>5, <1>7, UsesParts
  <2>4. QED
    BY <1>4, <2>2, <2>3, UsesParts DEF Uses
<1>8. CASE ~Same(e, op, n)
  <2>1. /\ IsFiniteSet(Asking(op, n)') /\ Cardinality(Asking(op, n)') \in Nat
        /\ Cardinality(Asking(op, n)') <= Cardinality(Asking(op, n))
    BY <1>6, UsesParts, FS_Subset, FS_CardinalityType
  <2>2. Cardinality(Sent(op, n)') = Cardinality(Sent(op, n))
    BY <1>5, <1>8, UsesParts
  <2>3. QED
    BY <1>4, <2>1, <2>2, UsesParts DEF Uses
<1>9. QED
  BY <1>7, <1>8

\* The request of a task whose process dies stays in transit.
LEMMA CrashUses ==
  ASSUME TypeInv, SendsRetryCount, UsesBounded, NEW op \in {"get", "write"}, NEW n \in 0..RetryLimit,
         NEW p \in Process, Crash(p)
  PROVE  IsFiniteSet(Asking(op, n)') /\ Uses(op, n)' <= Uses(op, n) + 1
<1>1. /\ task \in [Process -> Task] /\ orphans \in Seq(Request) /\ requests' = requests
      /\ task' = [task EXCEPT ![p] = Idle] /\ faults' = faults + 1 /\ faults \in Nat
  BY LimitAssumption DEF TypeInv, Crash, Fault, service
<1>2. Asking(op, n)' \subseteq Asking(op, n) \ {p}
  BY <1>1 DEF Asking, Idle
<1>3. Stored(n)' \in {0, 1} /\ Sent(op, n)' = Sent(op, n)
  BY <1>1 DEF Stored, Sent
<1>4. /\ IsFiniteSet(Asking(op, n)') /\ Cardinality(Asking(op, n)') \in Nat
      /\ Cardinality(Asking(op, n)') <= Cardinality(Asking(op, n))
  BY <1>2, UsesParts, FS_Subset, FS_CardinalityType
<1>5. CASE task[p].at # "calling"
  <2>1. Orphaned(op, n)' = Orphaned(op, n)
    BY <1>5 DEF Crash, Orphaned
  <2>2. QED
    BY <1>3, <1>4, <2>1, UsesParts DEF Uses
<1>6. CASE task[p].at = "calling"
  <2> DEFINE e == [op |-> task[p].op, count |-> task[p].attempt]
  <2>1. e \in Request
    BY <1>1, <1>6, TaskCalling DEF Request
  <2>2. Cardinality(Orphaned(op, n)')
          = Cardinality(Orphaned(op, n)) + (IF Same(e, op, n) THEN 1 ELSE 0)
    <3>1. orphans' = Append(orphans, e)
      BY <1>6 DEF Crash, RetryCount
    <3> HIDE DEF e
    <3>2. QED
      BY <1>1, <2>1, <3>1, AppendCounts DEF Orphaned
  <2>3. CASE Same(e, op, n)
    <3>1. p \in Asking(op, n)
      BY <1>6, <2>3 DEF Same, Asking
    <3>2. Cardinality(Asking(op, n)') + 1 <= Cardinality(Asking(op, n))
      BY <1>2, <3>1, AskingShrinks
    <3>3. Cardinality(Orphaned(op, n)') = Cardinality(Orphaned(op, n)) + 1
      BY <2>2, <2>3, UsesParts
    <3>4. QED
      BY <1>3, <1>4, <3>2, <3>3, UsesParts DEF Uses
  <2>4. CASE ~Same(e, op, n)
    <3>1. Cardinality(Orphaned(op, n)') = Cardinality(Orphaned(op, n))
      BY <2>2, <2>4, UsesParts
    <3>2. QED
      BY <1>3, <1>4, <3>1, UsesParts DEF Uses
  <2>5. QED
    BY <2>3, <2>4
<1>7. QED
  BY <1>5, <1>6

\* The service takes a request of a process that died.
LEMMA OrphanUses ==
  ASSUME TypeInv, UsesBounded, NEW op \in {"get", "write"}, NEW n \in 0..RetryLimit,
         ServeOrphan
  PROVE  IsFiniteSet(Asking(op, n)') /\ Uses(op, n)' <= Uses(op, n)
<1> DEFINE q == Head(orphans)
<1>1. /\ requests \in Seq(Served) /\ orphans \in Seq(Request) /\ orphans # <<>>
      /\ q \in Request /\ orphans' = Tail(orphans)
  BY DEF TypeInv, ServeOrphan
<1>2. PICK r \in Response :
        requests' = Append(requests, [op |-> q.op, count |-> q.count, response |-> r])
  BY DEF ServeOrphan, Serve
<1> DEFINE e == [op |-> q.op, count |-> q.count, response |-> r]
<1>3. e \in Served /\ (Same(e, op, n) <=> Same(q, op, n))
  BY <1>1 DEF Served, Request, Same
<1>4. Asking(op, n)' = Asking(op, n) /\ Stored(n)' = Stored(n)
  BY DEF ServeOrphan, Asking, Stored, queue
<1>5. Cardinality(Sent(op, n)') = Cardinality(Sent(op, n)) + (IF Same(e, op, n) THEN 1 ELSE 0)
  <2>1. requests' = Append(requests, e)
    BY <1>2
  <2>2. e \in Served
    BY <1>3
  <2> HIDE DEF e, q
  <2>3. QED
    BY <1>1, <2>1, <2>2, AppendCounts DEF Sent
<1>6. Cardinality(Orphaned(op, n)')
        = Cardinality(Orphaned(op, n)) - (IF Same(q, op, n) THEN 1 ELSE 0)
  <2>1. Cardinality(Those(Tail(orphans), op, n))
          = Cardinality(Those(orphans, op, n)) - (IF Same(Head(orphans), op, n) THEN 1 ELSE 0)
    BY <1>1, TailCounts
  <2>2. QED
    BY <1>1, <2>1 DEF Orphaned
<1> HIDE DEF e, q
<1>7. QED
  BY <1>3, <1>4, <1>5, <1>6, UsesParts DEF Uses

\* What consume() does sends nothing, and puts a message back only with its
\* next attempt.
LEMMA ConsumeUses ==
  ASSUME CountInv, TypeInv', UsesBounded, NEW op \in {"get", "write"}, NEW n \in 0..RetryLimit,
         NEW p \in Process, Consume(p)
  PROVE  IsFiniteSet(Asking(op, n)') /\ Uses(op, n)' <= Uses(op, n) + (faults' - faults)
<1>1. /\ UNCHANGED <<requests, orphans, faults>>
      /\ Calls(p) \/ Returns(p) \/ Requeues(p) \/ Asks(p)
  BY ConsumeEffect DEF CountInv, Inv, service
<1>2. task \in [Process -> Task] /\ faults \in Nat /\ attempts \in Nat
  BY LimitAssumption DEF CountInv, Inv, TypeInv
<1>3. Asking(op, n)' \subseteq Asking(op, n)
  <2>1. CASE Calls(p)
    BY <1>2, <2>1 DEF Calls, Asking
  <2>2. CASE Asks(p)
    BY <1>2, <2>2 DEF Asks, Asking
  <2>3. CASE Returns(p) \/ Requeues(p)
    BY <1>2, <2>3 DEF Returns, Requeues, Asking, Idle
  <2>4. QED
    BY <1>1, <2>1, <2>2, <2>3
<1>4. Stored(n)' <= Stored(n)
  <2>1. CASE UNCHANGED queue
    BY <2>1 DEF Stored, queue
  <2>2. CASE place' \in {"acked", "dropped"}
    BY <2>2 DEF Stored
  <2>3. CASE /\ Holds(p) /\ place' = "queued"
             /\ task[p].at = "delay" /\ attempts' = task[p].attempt
    <3>1. place = "held" /\ attempts' = attempts + 1
      BY <2>3 DEF CountInv, DelayedIsAhead, Holds
    <3>2. QED
      BY <1>2, <2>3, <3>1 DEF Stored
  <2>4. QED
    BY <1>1, <2>1, <2>2, <2>3 DEF Calls, Asks, Returns, Requeues
<1>5. Stored(n)' <= Stored(n) + (faults' - faults)
  BY <1>1, <1>2, <1>4 DEF Stored
<1>6. QED
  BY <1>1, <1>2, <1>3, <1>5, QuietUses DEF CountInv, Inv

LEMMA StepUses ==
  ASSUME CountInv, TypeInv', SendsRetryCount, UsesBounded, [Next]_vars
  PROVE  UsesBounded'
<1>0. TypeInv /\ faults \in Nat /\ faults' \in Nat /\ attempts \in Nat
      /\ task \in [Process -> Task]
  BY LimitAssumption DEF CountInv, Inv, TypeInv
<1>1. faults' \in {faults, faults + 1}
  BY <1>0, ConsumeEffect DEF CountInv, Inv, Next, Publish, Deliver, CallEnds, ServeCall,
     NotReached, TokenAnswered, TokenReconnected, LoseChannel, Crash, Fault, ServeOrphan,
     BecomesKnown, MailResult, vars
<1>2. SUFFICES ASSUME NEW op \in {"get", "write"}, NEW n \in 0..RetryLimit
               PROVE  IsFiniteSet(Asking(op, n)')
                      /\ Uses(op, n)' <= Uses(op, n) + (faults' - faults)
  BY <1>0, <1>1, UsesKept DEF UsesBounded, Uses
<1>4. ASSUME UNCHANGED <<task, requests, orphans>>, Stored(n)' <= Stored(n) + (faults' - faults)
      PROVE  IsFiniteSet(Asking(op, n)') /\ Uses(op, n)' <= Uses(op, n) + (faults' - faults)
  <2>1. Asking(op, n)' = Asking(op, n)
    BY <1>4 DEF Asking
  <2>2. QED
    BY <1>0, <1>4, <2>1, QuietUses
<1>5. Stored(n) \in {0, 1} /\ Stored(n)' \in {0, 1}
  BY DEF Stored
<1>6. Uses(op, n) \in Int
  BY <1>0, UsesParts DEF Uses
<1>7. CASE Publish
  <2>1. Stored(n)' = Stored(n)
    BY <1>7 DEF Publish, Stored
  <2>2. QED
    BY <1>0, <1>4, <1>5, <1>7, <2>1 DEF Publish, service
<1>8. ASSUME NEW p \in Process, Deliver(p)
      PROVE  IsFiniteSet(Asking(op, n)') /\ Uses(op, n)' <= Uses(op, n) + (faults' - faults)
  <2>1. IsFiniteSet(Asking(op, n)') /\ Uses(op, n)' <= Uses(op, n) /\ faults' = faults
    BY <1>0, <1>8, DeliverUses DEF Deliver
  <2>2. QED
    BY <1>0, <1>6, <2>1
<1>9. ASSUME NEW p \in Process, Consume(p)
      PROVE  IsFiniteSet(Asking(op, n)') /\ Uses(op, n)' <= Uses(op, n) + (faults' - faults)
  BY <1>9, ConsumeUses
<1>10. ASSUME NEW p \in Process, ServeCall(p)
       PROVE  IsFiniteSet(Asking(op, n)') /\ Uses(op, n)' <= Uses(op, n) + (faults' - faults)
  <2>1. IsFiniteSet(Asking(op, n)') /\ Uses(op, n)' <= Uses(op, n) /\ faults' = faults
    BY <1>0, <1>10, ServeUses DEF ServeCall
  <2>2. QED
    BY <1>0, <1>6, <2>1
<1>11. ASSUME NEW p \in Process, NotReached(p)
       PROVE  IsFiniteSet(Asking(op, n)') /\ Uses(op, n)' <= Uses(op, n) + (faults' - faults)
  <2>1. Asking(op, n)' \subseteq Asking(op, n)
    BY <1>0, <1>11 DEF NotReached, Asking
  <2>2. Stored(n)' = Stored(n) /\ UNCHANGED <<requests, orphans, faults>>
    BY <1>11 DEF NotReached, Stored, queue, service
  <2>3. QED
    BY <1>0, <1>5, <2>1, <2>2, QuietUses
<1>12. ASSUME NEW p \in Process, LoseChannel(p)
       PROVE  IsFiniteSet(Asking(op, n)') /\ Uses(op, n)' <= Uses(op, n) + (faults' - faults)
  <2>1. faults' = faults + 1 /\ UNCHANGED <<task, requests, orphans>>
    BY <1>12 DEF LoseChannel, Fault, service
  <2>2. QED
    BY <1>0, <1>4, <1>5, <2>1
<1>13. ASSUME NEW p \in Process, Crash(p)
       PROVE  IsFiniteSet(Asking(op, n)') /\ Uses(op, n)' <= Uses(op, n) + (faults' - faults)
  <2>1. IsFiniteSet(Asking(op, n)') /\ Uses(op, n)' <= Uses(op, n) + 1 /\ faults' = faults + 1
    BY <1>0, <1>13, CrashUses DEF Crash, Fault
  <2>2. QED
    BY <1>0, <1>6, <2>1
<1>14. CASE ServeOrphan
  <2>1. IsFiniteSet(Asking(op, n)') /\ Uses(op, n)' <= Uses(op, n) /\ faults' = faults
    BY <1>0, <1>14, OrphanUses DEF ServeOrphan
  <2>2. QED
    BY <1>0, <1>6, <2>1
<1>15. ASSUME \/ BecomesKnown \/ MailResult \/ UNCHANGED vars
              \/ \E p \in Process : TokenAnswered(p) \/ TokenReconnected(p)
       PROVE  IsFiniteSet(Asking(op, n)') /\ Uses(op, n)' <= Uses(op, n) + (faults' - faults)
  <2>1. UNCHANGED <<queue, task, requests, orphans, faults>>
    BY <1>15 DEF BecomesKnown, MailResult, TokenAnswered, TokenReconnected, vars, service
  <2>2. Stored(n)' = Stored(n)
    BY <2>1 DEF Stored, queue
  <2>3. QED
    BY <1>0, <1>4, <1>5, <2>1, <2>2
<1>16. QED
  BY <1>7, <1>8, <1>9, <1>10, <1>11, <1>12, <1>13, <1>14, <1>15 DEF Next, CallEnds

LEMMA InitUses == Init => UsesBounded
<1> SUFFICES ASSUME Init, NEW op \in {"get", "write"}, NEW n \in 0..RetryLimit
             PROVE  /\ IsFiniteSet(Asking(op, n))
                    /\ Cardinality(Sent(op, n)) + Cardinality(Orphaned(op, n))
                         + Cardinality(Asking(op, n)) + Stored(n) <= faults + 1
  BY DEF UsesBounded
<1>1. Asking(op, n) = {} /\ Sent(op, n) = {} /\ Orphaned(op, n) = {}
  BY DEF Init, Asking, Sent, Orphaned, Those, Idle
<1>2. Stored(n) \in {0, 1} /\ faults = 0
  BY DEF Init, Stored
<1>3. QED
  BY <1>1, <1>2, FS_EmptySet

LEMMA WorkerKept ==
  ASSUME Inv, [Next]_vars
  PROVE  SendsRetryCount' = SendsRetryCount
<1>1. ASSUME NEW p \in Process, Consume(p) PROVE config' = config
  BY <1>1, ConsumeEffect DEF Inv
<1>2. config' = config
  BY <1>1 DEF Next, Publish, Deliver, CallEnds, ServeCall, NotReached, TokenAnswered,
     TokenReconnected, LoseChannel, Crash, ServeOrphan, BecomesKnown, MailResult, vars
<1>3. QED
  BY <1>2 DEF config, SendsRetryCount

\* Gambit and Northstar get two requests with the same count only after a
\* fault, and never more of them than there were faults and one.  The theorem
\* says nothing of Customer.io, which is sent no count
\* (getRequestHeaders, incrementRetryAttempt).
THEOREM RepeatsAreNumberedHolds == Spec => []RepeatsAreNumbered
<1>1. Init => RepeatInv
  BY InitInv, InitAhead, InitUses DEF RepeatInv, CountInv
<1>2. RepeatInv /\ [Next]_vars => RepeatInv'
  <2>1. SUFFICES ASSUME RepeatInv, [Next]_vars PROVE RepeatInv'
    OBVIOUS
  <2>2. Inv' /\ TypeInv'
    BY <2>1, StepInv DEF RepeatInv, CountInv, Inv
  <2>3. SendsRetryCount' = SendsRetryCount
    BY <2>1, WorkerKept DEF RepeatInv, CountInv
  <2>4. QED
    BY <2>1, <2>2, <2>3, StepMoves, StepUses DEF RepeatInv, CountInv
<1>3. RepeatInv => RepeatsAreNumbered
  <2>1. SUFFICES ASSUME RepeatInv, SendsRetryCount, NEW i \in DOMAIN requests
                 PROVE  Repeats(requests[i].op, requests[i].count) <= faults + 1
    BY DEF RepeatsAreNumbered
  <2>2. TypeInv /\ faults \in Nat
    BY <2>1, LimitAssumption DEF RepeatInv, CountInv, Inv, TypeInv
  <2>3. requests[i].op \in {"get", "write"} /\ requests[i].count \in 0..RetryLimit
    <3>1. requests[i] \in Served
      BY <2>1, <2>2 DEF TypeInv
    <3>2. QED
      BY <3>1 DEF Served
  <2>4. ASSUME NEW op \in {"get", "write"}, NEW n \in 0..RetryLimit
        PROVE  Repeats(op, n) <= faults + 1
    <3>1. Repeats(op, n) = Cardinality(Sent(op, n))
      BY DEF Repeats, Sent, Those, Same
    <3>2. Uses(op, n) <= faults + 1
      BY <2>1 DEF RepeatInv, UsesBounded, Uses
    <3>3. QED
      BY <2>1, <2>2, <3>1, <3>2, UsesParts DEF RepeatInv, Uses
  <2>5. QED
    BY <2>3, <2>4
<1>4. QED
  BY <1>1, <1>2, <1>3, PTL DEF Spec
=============================================================================
