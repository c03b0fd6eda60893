------------------------------- MODULE Relay -------------------------------
(***************************************************************************)
(* What the workers make of a delivery: requests to an external service,   *)
(* what its responses decide, and what a retry repeats.                    *)
(*                                                                         *)
(* consume() keeps nothing across calls and messages share nothing here,   *)
(* so there is one message.  Several processes run its worker: one whose   *)
(* channel was lost goes on with a message another one has by then.  How   *)
(* a delivery is answered in detail is the matter of Delivery; an answer   *)
(* of a process that lost the delivery has no effect.  The identity        *)
(* service of a process gets its token as ClientCredentials has it.        *)
(***************************************************************************)
EXTENDS Naturals, FiniteSets, Sequences

CONSTANTS
  Process,    \* processes of the message's worker
  Nobody,
  Workers,    \* the workers the message may be for
  Status,     \* HTTP statuses services answer with
  RetryLimit,
  MaxFault    \* bound: lost channels and crashes

ASSUME NobodyAssumption == Nobody \notin Process
ASSUME LimitAssumption == RetryLimit \in Nat /\ MaxFault \in Nat
ASSUME StatusAssumption == Status \subseteq Nat \ {0}

GambitPosts == {"signup", "broadcast", "sms-active", "sms-inbound"}
ASSUME WorkersAssumption ==
  Workers \subseteq GambitPosts \cup {"status", "unsubscribed", "update", "fetch", "track"}

VARIABLES
  worker,     \* the worker of the message's queue
  form,       \* what consume() is given: a Message, or amqplib's delivery
  fromSms,    \* is it a signup that Gambit made itself?
  convertible, \* if a customer is to be updated: has the payload a user?
  place,      \* where the message is
  holder,     \* the process it is delivered to and not answered by
  attempts,   \* the retry counter of the stored message
  cut,        \* per process: was its channel lost since it started?
  task,       \* per process: its consume() of the message
  token,      \* per process: what its identity service has got
  tokenFailed, \* has a first request for a token failed?
  orphans,    \* requests in transit of processes that died
  known,      \* has the service the record a status update is for?
  requests,   \* what the service got, and what it answered
  applied,    \* how often it put the message into effect
  mail,       \* the mail made of the message
  faults

config  == <<worker, form, fromSms, convertible>>
auth    == <<token, tokenFailed>>
queue   == <<place, holder, attempts>>
service == <<known, requests, applied>>
vars == <<config, queue, cut, task, auth, orphans, service, mail, faults>>

Idle == [at |-> "idle"]
Unreachable == [status |-> 0, suppress |-> FALSE, found |-> FALSE]
Response == [status : Status, suppress : BOOLEAN, found : BOOLEAN]

Init ==
  /\ worker \in Workers
  /\ form \in {"Message", "raw"}
  /\ fromSms \in (IF worker = "signup" THEN BOOLEAN ELSE {FALSE})
  /\ convertible \in (IF worker = "update" THEN BOOLEAN ELSE {TRUE})
  /\ place = "unpublished"
  /\ holder = Nobody
  /\ attempts = 0
  /\ cut = [p \in Process |-> FALSE]
  /\ task = [p \in Process |-> Idle]
  /\ token = [p \in Process |-> "none"]
  /\ tokenFailed = FALSE
  /\ orphans = <<>>
  /\ known \in (IF worker = "status" THEN BOOLEAN ELSE {TRUE})
  /\ requests = <<>>
  /\ applied = 0
  /\ mail = "none"
  /\ faults = 0

-----------------------------------------------------------------------------
(* What a response decides: consume() returns true or false, or throws a   *)
(* BlinkRetryError ("retry") or any other error ("error").                 *)

IsAllowedHttpStatus(status) == status \in {200, 204, 422}
\* Mutant: the header is compared with "True".
CheckNoSuppress(response) == FALSE

\* x-blink-retry-suppress
CheckRetrySuppress(response) == response.suppress

ShouldRetry(response) ==
  ~CheckRetrySuppress(response) /\ ~IsAllowedHttpStatus(response.status)
LogSuccess             == "true"
LogSuppressedRetry     == "false"
LogUnprocessableEntity == "false"
LogAndRetry            == "retry"
\* Mutant: what cannot be processed counts as success, to be acknowledged.
LogUnprocessableAsSuccess(status) ==
  IF status \in {200, 204, 422} THEN LogSuccess ELSE LogUnprocessableEntity

LogResponse(status) ==
  IF status \in {200, 204} THEN LogSuccess ELSE LogUnprocessableEntity

\* The base workers of Northstar and Gambit have it in common.
HandleResponse(response) ==
  CASE ShouldRetry(response) -> LogAndRetry
    [] ~ShouldRetry(response) /\ CheckRetrySuppress(response) -> LogSuppressedRetry
    [] OTHER -> LogResponse(response.status)
\* Mutant: logs, but throws nothing.
LogFetchFailure == "false"

LogFetchFailureAndRetry == "retry"

\* logUnreachableNorthstarAndRetry(), logUnreachableGambitConversationsAndRetry()
LogUnreachableAndRetry == LogFetchFailureAndRetry

RelayResult(response) ==
  IF response = Unreachable THEN LogUnreachableAndRetry ELSE HandleResponse(response)

\* fetch() rejects with an error of its own.
FetchResult(response) ==
  CASE response = Unreachable -> "error"
    [] response.status = 200 -> "true"
    [] OTHER -> "false"

\* cioClient.identify() resolves on success only.
IdentifyResult(response) == IF response.status \in {200, 204} THEN "true" ELSE "retry"

Result(response) ==
  CASE worker = "fetch" -> FetchResult(response)
    [] worker = "update" -> IdentifyResult(response)
    [] OTHER -> RelayResult(response)

-----------------------------------------------------------------------------
(* Answers *)

Holds(p) == place = "held" /\ holder = p

Answer(p, end) ==
  /\ task' = [task EXCEPT ![p] = Idle]
  /\ IF Holds(p) THEN place' = end /\ holder' = Nobody ELSE UNCHANGED <<place, holder>>
  /\ attempts' = attempts

\* Neither acknowledged nor rejected.
LeaveUnacked(p) ==
  /\ task' = [task EXCEPT ![p] = Idle]
  /\ UNCHANGED queue
\* Mutant: the limit is compared after the increment.
RetryAtLimit(p) ==
  IF task[p].attempt > RetryLimit
    THEN Answer(p, "dropped")
    ELSE /\ task' = [task EXCEPT ![p] = [at |-> "delay", attempt |-> @.attempt + 1]]
         /\ UNCHANGED queue

\* Mutant: the message goes back as it came, without the new attempt.
RetryUncounted(p) ==
  IF task[p].attempt >= RetryLimit
    THEN Answer(p, "dropped")
    ELSE /\ task' = [task EXCEPT ![p] = [at |-> "delay", attempt |-> @.attempt]]
         /\ UNCHANGED queue

\* RetryManager.retry()
Retry(p) ==
  IF task[p].attempt >= RetryLimit
    THEN Answer(p, "dropped")
    ELSE /\ task' = [task EXCEPT ![p] = [at |-> "delay", attempt |-> @.attempt + 1]]
         /\ UNCHANGED queue

Return(p, result) ==
  \/ result = "true" /\ Answer(p, "acked")
  \/ result = "false" /\ LeaveUnacked(p)
  \/ result = "error" /\ Answer(p, "dropped")
  \/ result = "retry" /\ Retry(p)

Publish ==
  /\ place = "unpublished"
  /\ place' = "queued"
  /\ UNCHANGED <<config, holder, attempts, cut, task, auth, orphans, service, mail, faults>>

Deliver(p) ==
  /\ place = "queued"
  /\ task[p] = Idle
  /\ ~cut[p]
  /\ place' = "held"
  /\ holder' = p
  /\ task' = [task EXCEPT ![p] = [at |-> "start", attempt |-> attempts]]
  /\ UNCHANGED <<config, attempts, cut, auth, orphans, service, mail, faults>>

RetryDue(p) ==
  /\ task[p].at = "delay"
  /\ task' = [task EXCEPT ![p] = Idle]
  /\ IF Holds(p)
       THEN place' = "queued" /\ holder' = Nobody /\ attempts' = task[p].attempt
       ELSE UNCHANGED queue
  /\ UNCHANGED <<config, cut, auth, orphans, service, mail, faults>>

-----------------------------------------------------------------------------
(* What a request says of its message: Gambit and Northstar are sent       *)
(* x-blink-retry-count, Customer.io and what FetchWorker asks are not.     *)

SendsRetryCount == worker \notin {"update", "fetch"}
\* Mutant: the header is left out.
NoRetryCount(attempt) == 0

\* The count that the service sees, 0 for a request without the header.
RetryCount(attempt) == IF SendsRetryCount THEN attempt ELSE 0

-----------------------------------------------------------------------------
(* The workers, one consume() each *)

\* A raw delivery has neither getData() nor getRequestId(), a Message no
\* `content`: a TypeError, also out of the handlers that log an error.
Readable == form = IF worker = "track" THEN "raw" ELSE "Message"

Consuming(p, names) ==
  /\ task[p].at = "start"
  /\ worker \in names
  /\ Readable
  /\ UNCHANGED <<config, cut, auth, orphans, service, faults>>

ConsumeUnreadable(p) ==
  /\ task[p].at = "start"
  /\ ~Readable
  /\ Return(p, "error")
  /\ UNCHANGED <<config, cut, auth, orphans, service, mail, faults>>

\* The request is in transit until the service takes it or cannot be reached.
Call(p, op) ==
  /\ task' = [task EXCEPT ![p] = [at |-> "calling", attempt |-> @.attempt, op |-> op]]
  /\ UNCHANGED <<queue, mail>>

\* Requests to Gambit.
RelayMessage(p)       == Call(p, "write")
GetMessageToUpdate(p) == Call(p, "get")
UpdateMessage(p)      == Call(p, "write")
\* A request to Northstar.
UpdateUserById(p)     == Call(p, "write")

ConsumeFetch(p) == Consuming(p, {"fetch"}) /\ Call(p, "write")

\* Without a user fromUser() throws, and so does what the handler does then:
\* it logs the user's id, and goes on to a customer that is not there.
ConsumeUpdateCustomer(p) ==
  /\ Consuming(p, {"update"})
  /\ IF convertible THEN Call(p, "write") ELSE Return(p, "error") /\ mail' = mail

ConsumeBroadcast(p) == Consuming(p, {"broadcast"}) /\ RelayMessage(p)

ConsumeSmsStatusActive(p) == Consuming(p, {"sms-active"}) /\ RelayMessage(p)

ConsumeSmsInbound(p) == Consuming(p, {"sms-inbound"}) /\ RelayMessage(p)

ConsumeCampaignSignup(p) ==
  /\ Consuming(p, {"signup"})
  /\ IF fromSms THEN Return(p, "true") /\ mail' = mail ELSE RelayMessage(p)

\* The process's first message makes its identity service, which asks for a
\* token; every message awaits the end of that.
GetIdentityService(p) ==
  token' = IF token[p] = "none" THEN [token EXCEPT ![p] = "asked"] ELSE token

ConsumeEmailUnsubscribed(p) ==
  /\ task[p].at = "start"
  /\ worker = "unsubscribed"
  /\ Readable
  /\ GetIdentityService(p)
  /\ task' = [task EXCEPT ![p] = [at |-> "auth", attempt |-> @.attempt]]
  /\ UNCHANGED <<config, queue, cut, tokenFailed, orphans, service, mail, faults>>

\* Without a token getAuthHeader() throws a TypeError, outside of the try.
GetAuthHeader(p) ==
  /\ task[p].at = "auth"
  /\ \/ token[p] = "held" /\ UpdateUserById(p)
     \/ token[p] = "missing" /\ Return(p, "error") /\ mail' = mail
  /\ UNCHANGED <<config, cut, auth, orphans, service, faults>>

\* setup() resolves whether or not its request has got a token.
TokenAnswered(p) ==
  /\ token[p] = "asked"
  /\ \/ token' = [token EXCEPT ![p] = "held"] /\ tokenFailed' = tokenFailed
     \/ token' = [token EXCEPT ![p] = "missing"] /\ tokenFailed' = TRUE
  /\ UNCHANGED <<config, queue, cut, task, orphans, service, mail, faults>>

\* reconnect() asks again until it has one.
TokenReconnected(p) ==
  /\ token[p] = "missing"
  /\ token' = [token EXCEPT ![p] = "held"]
  /\ UNCHANGED <<config, queue, cut, task, tokenFailed, orphans, service, mail, faults>>

ConsumeStatusCallback(p) == Consuming(p, {"status"}) /\ GetMessageToUpdate(p)

\* Returns true without awaiting the mail, whose callback does nothing.
ConsumeTrackEvent(p) ==
  /\ Consuming(p, {"track"})
  /\ mail' = "sending"
  /\ Return(p, "true")

MailResult ==
  /\ mail = "sending"
  /\ mail' \in {"sent", "failed"}
  /\ UNCHANGED <<config, queue, cut, task, auth, orphans, service, faults>>
\* Mutant: takes an empty array.
ParseAnyBody(response) == response.status = 200

ParseMessageIdFromBody(response) == response.found

\* The last, or only, request of consume() has returned.
WriteReturns(p) ==
  /\ task[p].at = "answered"
  /\ task[p].op = "write"
  /\ Return(p, Result(task[p].response))
  /\ UNCHANGED <<config, cut, auth, orphans, service, mail, faults>>

\* TwilioStatusCallbackRelayBaseWorker: only when the message was found comes
\* the update.
GetReturns(p) ==
  /\ task[p].at = "answered"
  /\ task[p].op = "get"
  /\ LET response == task[p].response
         result == RelayResult(response) IN
       CASE result # "true" -> Return(p, result) /\ mail' = mail
         [] result = "true" /\ ParseMessageIdFromBody(response) -> UpdateMessage(p)
         [] OTHER -> Return(p, "retry") /\ mail' = mail
  /\ UNCHANGED <<config, cut, auth, orphans, service, faults>>

-----------------------------------------------------------------------------
(* The service *)

\* A request is refused, put into effect, or fails with or without effect.
\* Its response may be lost, and a body may be no JSON.
Serve(op, count, response) ==
  /\ response.found => op = "get" /\ response.status = 200 /\ known
  /\ requests' = Append(requests, [op |-> op, count |-> count, response |-> response])
  /\ CASE op = "get" \/ response.status = 422 -> applied' = applied
       [] op = "write" /\ response.status \in {200, 204} -> applied' = applied + 1
       [] OTHER -> applied' \in {applied, applied + 1}
  /\ known' = known

ServeCall(p) ==
  /\ task[p].at = "calling"
  /\ \E response \in Response \cup {Unreachable} :
       /\ Serve(task[p].op, RetryCount(task[p].attempt), response)
       /\ task' = [task EXCEPT ![p] = [at |-> "answered", attempt |-> @.attempt,
                                       op |-> @.op, response |-> response]]
  /\ UNCHANGED <<config, queue, cut, auth, orphans, mail, faults>>

NotReached(p) ==
  /\ task[p].at = "calling"
  /\ task' = [task EXCEPT ![p] = [at |-> "answered", attempt |-> @.attempt,
                                  op |-> @.op, response |-> Unreachable]]
  /\ UNCHANGED <<config, queue, cut, auth, orphans, service, mail, faults>>

ServeOrphan ==
  /\ orphans # <<>>
  /\ \E response \in Response :
       Serve(Head(orphans).op, Head(orphans).count, response)
  /\ orphans' = Tail(orphans)
  /\ UNCHANGED <<config, queue, cut, task, auth, mail, faults>>

\* Twilio may call back before Gambit has stored the message.
BecomesKnown ==
  /\ ~known
  /\ known' = TRUE
  /\ UNCHANGED <<config, queue, cut, task, auth, orphans, requests, applied, mail, faults>>

-----------------------------------------------------------------------------
(* Faults *)

Fault == faults < MaxFault /\ faults' = faults + 1

Requeue(p) ==
  /\ IF Holds(p) THEN place' = "queued" /\ holder' = Nobody ELSE UNCHANGED <<place, holder>>
  /\ attempts' = attempts

\* The broker takes the delivery back; consume() goes on.  The process has no
\* consumer any more until it is restarted.
LoseChannel(p) ==
  /\ ~cut[p]
  /\ Fault
  /\ Requeue(p)
  /\ cut' = [cut EXCEPT ![p] = TRUE]
  /\ UNCHANGED <<config, task, auth, orphans, service, mail>>

Crash(p) ==
  /\ Fault
  /\ Requeue(p)
  /\ cut' = [cut EXCEPT ![p] = FALSE]
  /\ orphans' = IF task[p].at = "calling"
                  THEN Append(orphans, [op |-> task[p].op, count |-> RetryCount(task[p].attempt)])
                  ELSE orphans
  /\ task' = [task EXCEPT ![p] = Idle]
  /\ token' = [token EXCEPT ![p] = "none"]
  /\ UNCHANGED <<config, tokenFailed, service, mail>>

-----------------------------------------------------------------------------

Consume(p) ==
  \/ ConsumeUnreadable(p) \/ ConsumeFetch(p) \/ ConsumeUpdateCustomer(p)
  \/ ConsumeBroadcast(p) \/ ConsumeSmsStatusActive(p) \/ ConsumeSmsInbound(p)
  \/ ConsumeCampaignSignup(p) \/ ConsumeEmailUnsubscribed(p) \/ GetAuthHeader(p)
  \/ ConsumeStatusCallback(p) \/ ConsumeTrackEvent(p)
  \/ WriteReturns(p) \/ GetReturns(p) \/ RetryDue(p)
CallEnds(p) == ServeCall(p) \/ NotReached(p)

Next ==
  \/ Publish
  \/ \E p \in Process :
       \/ Deliver(p) \/ Consume(p) \/ CallEnds(p)
       \/ TokenAnswered(p) \/ TokenReconnected(p)
       \/ LoseChannel(p) \/ Crash(p)
  \/ ServeOrphan \/ BecomesKnown \/ MailResult

Spec == Init /\ [][Next]_vars

\* Node and the broker make progress, and a request ends some time: fetch() has
\* no timeout, so this is the network's promise.
FairSpec ==
  Spec /\ \A p \in Process :
            /\ WF_vars(Deliver(p)) /\ WF_vars(Consume(p))
            /\ WF_vars(CallEnds(p)) /\ WF_vars(TokenAnswered(p))

-----------------------------------------------------------------------------
(* Properties *)

Parked == place = "held" /\ task[holder] = Idle
Settled == place \in {"acked", "dropped"} \/ Parked

Request == [op : {"get", "write"}, count : 0..RetryLimit]
Task ==
  {Idle} \cup [at : {"start", "auth", "delay"}, attempt : 0..RetryLimit]
  \cup [at : {"calling"}, op : {"get", "write"}, attempt : 0..RetryLimit]
  \cup [at : {"answered"}, op : {"get", "write"}, attempt : 0..RetryLimit,
        response : Response \cup {Unreachable}]

\* Every variable keeps its type: no attempt passes the limit, and the message
\* is held by a process just when it is neither queued nor finished with.
TypeOK ==
  /\ place \in {"unpublished", "queued", "held", "acked", "dropped"}
  /\ holder \in Process \cup {Nobody}
  /\ holder # Nobody <=> place = "held"
  /\ attempts \in 0..RetryLimit
  /\ cut \in [Process -> BOOLEAN]
  /\ task \in [Process -> Task]
  /\ token \in [Process -> {"none", "asked", "missing", "held"}]
  /\ tokenFailed \in BOOLEAN
  /\ orphans \in Seq(Request)
  /\ \A i \in DOMAIN requests :
       /\ requests[i].response \in Response \cup {Unreachable}
       /\ requests[i].op \in {"get", "write"}
       /\ requests[i].count \in 0..RetryLimit
  /\ applied \in 0..Len(requests)
  /\ mail \in {"none", "sending", "sent", "failed"}
  /\ faults \in 0..MaxFault

\* An ack is the end of the work: the service has put an acknowledged message
\* into effect, whichever of its responses were lost and whoever else has the
\* message - but for a signup that Gambit made itself, and but for a mail,
\* which has only been handed over (handleResponse, processCallbackResult).
AckedIsApplied ==
  place = "acked" =>
    \/ applied > 0
    \/ worker = "signup" /\ fromSms
    \/ worker = "track" /\ mail # "none"

\* The service has refused the message for good, as far as the code can tell;
\* of Customer.io's answers it takes none so.
Refuses(response) ==
  /\ response # Unreachable
  /\ worker # "update"
  /\ IF worker = "fetch" THEN response.status # 200
                         ELSE response.status = 422 \/ response.suppress
Refused == \E i \in DOMAIN requests : Refuses(requests[i].response)

\* A message that a service could not be reached for, or failed on, is neither
\* rejected nor left unacknowledged before its retries are used up.  Not so
\* with a message consume() cannot read, with an update without a user, with
\* FetchWorker, and with the messages that await a token whose request fails,
\* in any process (logFetchFailureAndRetry, logAndRetry, RetryManager.retry).
KeptUntilAnswered ==
  (place = "dropped" \/ Parked) =>
    \/ attempts = RetryLimit
    \/ Refused
    \/ ~Readable
    \/ ~convertible
    \/ worker = "unsubscribed" /\ tokenFailed
    \/ worker = "fetch"

Repeats(op, count) ==
  Cardinality({i \in DOMAIN requests : requests[i].op = op /\ requests[i].count = count})

\* x-blink-retry-count tells Gambit and Northstar repeated requests from first
\* ones: they get two with the same count only if a channel was lost or a
\* process died.  Customer.io is sent no count and cannot tell
\* (getRequestHeaders, incrementRetryAttempt).
RepeatsAreNumbered ==
  SendsRetryCount =>
    \A i \in DOMAIN requests : Repeats(requests[i].op, requests[i].count) <= faults + 1

\* A response that ends the work: a refusal, or a success of the last request.
Final(request) ==
  \/ Refuses(request.response)
  \/ request.op = "write" /\ request.response.status \in {200, 204}
\* What a service has put into effect or refused, and has said so, it is not
\* asked again, as long as no channel is lost and no process dies
\* (shouldRetry, checkRetrySuppress).
FinalIsLast ==
  faults = 0 => \A i \in DOMAIN requests : Final(requests[i]) => i = Len(requests)

\* A status update goes only to a record that the service has
\* (parseMessageIdFromBody).
UpdatesOnlyKnown ==
  worker = "status" => \A i \in DOMAIN requests : requests[i].op = "write" => known

\* However often a service fails, and also when it never has the record of a
\* status update: a message is finished with, or left to an answer of the
\* service, unless no process consumes any more.
EventuallySettled ==
  place # "unpublished" /\ ~Settled ~> Settled \/ \A p \in Process : cut[p]

\* All this is what the contract of a queue with retries allows: a service
\* that fails, repeated requests and late answers of a process that lost the
\* message put it back, count an attempt or end it, never twice and never
\* with a counter that was reset.
Contract == INSTANCE RetryQueue WITH
  Msg       <- {"m"},
  Worker    <- Process,
  published <- IF place = "unpublished" THEN {} ELSE {"m"},
  queued    <- IF place = "queued" THEN {"m"} ELSE {},
  holds     <- [p \in Process |-> IF Holds(p) THEN {"m"} ELSE {}],
  attempt   <- [m \in {"m"} |-> IF place \in {"acked", "dropped"} THEN 0 ELSE attempts],
  finished  <- IF place \in {"acked", "dropped"} THEN {"m"} ELSE {},
  lost      <- {}
ImplementsRetryQueue == Contract!Spec
=============================================================================
