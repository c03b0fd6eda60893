------------------------------- MODULE Intake -------------------------------
(***************************************************************************)
(* The way in: web processes assert the topology when they start, turn     *)
(* requests into messages and publish them, unconfirmed, to one topic      *)
(* exchange, which copies each message to the queues bound to its route.   *)
(*                                                                         *)
(* amqplib sends the RPCs of a channel one at a time, in order: those of   *)
(* thirteen concurrent createQueue() calls form one queue.  The handlers   *)
(* of BlinkWebApp have no await between reading a request and answering    *)
(* it, so each is one step.  RabbitMQ's side is external.                  *)
(***************************************************************************)
EXTENDS Naturals, FiniteSets, SequencesExt

CONSTANTS
  Web,        \* web processes
  Request,
  Served,     \* names of the handlers that get requests
  QueueClasses,\* the queue classes of the app: AllClasses, or for TLC some
  Misdeclared,\* queues that may exist already, with other settings
  MaxFault,   \* bound: cut connections, crashes and lost brokers
  MayStop     \* does the application call stop()?

ASSUME FaultAssumption == MaxFault \in Nat /\ MayStop \in BOOLEAN

-----------------------------------------------------------------------------
(* Queues and their routes.  A route is a sequence of words. *)

QueueClass(name, routes) ==
  [name |-> name, routes |-> <<<<name>>>> \o routes]

CustomerIoCampaignSignupPostQ ==
  QueueClass("customer-io-campaign-signup-post", <<<<"signup-post", "user", "event">>>>)
CustomerIoCampaignSignupPostReviewQ ==
  QueueClass("customer-io-campaign-signup-post-review",
             <<<<"signup-post-review", "user", "event">>>>)
CustomerIoCampaignSignupQ ==
  QueueClass("customer-io-campaign-signup", <<<<"signup", "user", "event">>>>)
CustomerIoGambitBroadcastQ ==
  QueueClass("customer-io-gambit-broadcast", <<>>)
CustomerIoUpdateCustomerQ ==
  QueueClass("customer-io-update-customer", <<<<"create", "user", "event">>>>)
CustomerIoSmsStatusActiveQ ==
  QueueClass("customer-io-sms-status-active",
             <<<<"sms-status-active", "customer-io", "webhook">>>>)
FetchQ ==
  QueueClass("fetch", <<>>)
GambitCampaignSignupRelayQ ==
  QueueClass("gambit-campaign-signup-relay", <<<<"signup", "user", "event">>>>)
QuasarCustomerIoEmailActivityQ ==
  QueueClass("quasar-customer-io-email-activity", <<<<"*", "event", "quasar">>>>)
QuasarCustomerIoEmailUnsubscribedQ ==
  QueueClass("quasar-customer-io-email-unsubscribed",
             <<<<"email-unsubscribed", "event", "quasar">>>>)
TwilioSmsInboundGambitRelayQ ==
  QueueClass("twilio-sms-inbound-gambit-relay", <<<<"sms-inbound", "twilio", "webhook">>>>)
TwilioSmsOutboundErrorRelayQ ==
  QueueClass("twilio-sms-outbound-error-relay",
             <<<<"sms-outbound-error", "twilio", "webhook">>>>)
TwilioSmsOutboundStatusRelayQ ==
  QueueClass("twilio-sms-outbound-status-relay",
             <<<<"sms-outbound-status", "twilio", "webhook">>>>)

\* discoverQueueClasses()
AllClasses == <<
  CustomerIoCampaignSignupPostQ, CustomerIoCampaignSignupPostReviewQ,
  CustomerIoCampaignSignupQ, CustomerIoGambitBroadcastQ,
  CustomerIoUpdateCustomerQ, CustomerIoSmsStatusActiveQ, FetchQ,
  GambitCampaignSignupRelayQ, QuasarCustomerIoEmailActivityQ,
  QuasarCustomerIoEmailUnsubscribedQ, TwilioSmsInboundGambitRelayQ,
  TwilioSmsOutboundErrorRelayQ, TwilioSmsOutboundStatusRelayQ >>

\* Queues have names of their own, and routes of at least a word.
ASSUME ClassesAssumption ==
  /\ QueueClasses \in Seq([name : STRING, routes : Seq(Seq(STRING) \ {<<>>})])
  /\ \A i, j \in DOMAIN QueueClasses :
       QueueClasses[i].name = QueueClasses[j].name => i = j

Queue == {c.name : c \in ToSet(QueueClasses)}
ASSUME MisdeclaredAssumption == Misdeclared \subseteq Queue

DeclaredBindings ==
  UNION {{<<c.name, route>> : route \in ToSet(c.routes)} : c \in ToSet(QueueClasses)}

-----------------------------------------------------------------------------
(* Handlers.  A handler publishes to a route, or by Queue.publish() to a    *)
(* queue it finds in the registry; none publishes more than once.           *)

ToRoute(name, route) == [name |-> name, route |-> route, registry |-> FALSE]
ToQueue(name, queue) == [name |-> name, route |-> <<queue>>, registry |-> TRUE]

\* A Twilio status that is neither an error nor `delivered` is published
\* nowhere.
EventHandlers == {
  ToRoute("user-create", <<"create", "user", "event">>),
  ToRoute("user-signup", <<"signup", "user", "event">>),
  ToRoute("user-signup-post", <<"signup-post", "user", "event">>),
  ToRoute("user-signup-post-review", <<"signup-post-review", "user", "event">>),
  ToRoute("quasar-relay", <<"*", "event", "quasar">>)}
WebHookHandlers == {
  ToRoute("customerio-email-activity", <<"*", "event", "quasar">>),
  ToRoute("customerio-email-unsubscribed", <<"email-unsubscribed", "event", "quasar">>),
  ToQueue("customerio-gambit-broadcast", "customer-io-gambit-broadcast"),
  ToRoute("customerio-sms-status-active", <<"sms-status-active", "customer-io", "webhook">>),
  ToRoute("twilio-sms-inbound", <<"sms-inbound", "twilio", "webhook">>)}
TwilioStatusHandlers == {
  ToRoute("twilio-sms-outbound-error", <<"sms-outbound-error", "twilio", "webhook">>),
  ToRoute("twilio-sms-outbound-delivered", <<"sms-outbound-status", "twilio", "webhook">>),
  ToRoute("twilio-sms-outbound-other", <<>>)}
ToolHandlers == {ToQueue("fetch", "fetch")}

AllHandlers ==
  EventHandlers \cup WebHookHandlers \cup TwilioStatusHandlers \cup ToolHandlers
Handlers == {h \in AllHandlers : h.name \in Served}

Matches(pattern, key) ==
  /\ Len(pattern) = Len(key)
  /\ \A i \in DOMAIN key : pattern[i] \in {"*", key[i]}

\* The queues whose consumers a request is meant for, as the integration tests
\* of the controllers and the workers name them.
MeantFor == [name \in {h.name : h \in AllHandlers} |->
  CASE name = "user-create" -> {"customer-io-update-customer"}
    [] name = "user-signup" -> {"customer-io-campaign-signup",
                                "gambit-campaign-signup-relay"}
    [] name = "user-signup-post" -> {"customer-io-campaign-signup-post"}
    [] name = "user-signup-post-review" -> {"customer-io-campaign-signup-post-review"}
    [] name \in {"quasar-relay", "customerio-email-activity"} ->
         {"quasar-customer-io-email-activity"}
    [] name = "customerio-email-unsubscribed" ->
         {"quasar-customer-io-email-activity", "quasar-customer-io-email-unsubscribed"}
    [] name = "customerio-gambit-broadcast" -> {"customer-io-gambit-broadcast"}
    [] name = "customerio-sms-status-active" -> {"customer-io-sms-status-active"}
    [] name = "twilio-sms-inbound" -> {"twilio-sms-inbound-gambit-relay"}
    [] name = "twilio-sms-outbound-error" -> {"twilio-sms-outbound-error-relay"}
    [] name = "twilio-sms-outbound-delivered" -> {"twilio-sms-outbound-status-relay"}
    [] name = "twilio-sms-outbound-other" -> {}
    [] name = "fetch" -> {"fetch"}]
MeantQueues(h) == MeantFor[h.name] \cap Queue

\* The routes that the queues declare and those that the controllers publish
\* to fit together: TLC evaluates it, for all of them in MCIntake.
ASSUME RoutesReach ==
  \A h \in Handlers :
    {q \in Queue : \E b \in DeclaredBindings : b[1] = q /\ Matches(b[2], h.route)}
      = MeantQueues(h)

VARIABLES
  phase,      \* per web process: where BlinkWebApp.start() and stop() are
  chan,       \* per web process: its active channel
  pending,    \* per web process: RPCs not yet answered
  wire,       \* per web process: requests whose messages are in transit
  exchange,   \* does the topic exchange exist?
  bindings,   \* the queues' bindings to the exchange
  queues,     \* queues that exist
  misfits,    \* queues that exist with settings of their own
  stored,     \* per queue: requests whose message is in it
  answer,     \* per request: how it was answered
  handler,    \* per request: the handler that took it
  lost,       \* requests whose messages vanished with a connection or a broker
  refused,    \* per web process: was an assertion refused in its last start?
  mine,       \* per web process: bindings made by its last start
  faults

process == <<phase, chan, pending, wire>>
broker  == <<exchange, bindings, queues, misfits, stored>>
history == <<refused, mine>>
vars == <<process, broker, answer, handler, lost, history, faults>>

NoHandler == [name |-> "none", route |-> <<>>, registry |-> FALSE]

Rpc(op, queue, route) == [op |-> op, queue |-> queue, route |-> route]
ExchangeRpc == Rpc("exchange", "", <<>>)
AssertRpcs == [i \in DOMAIN QueueClasses |-> Rpc("assert", QueueClasses[i].name, <<>>)]
\* Mutant: the queues share one array of routes.
BindRpcsShared(q) ==
  LET shared == FlattenSeq([i \in DOMAIN QueueClasses |-> QueueClasses[i].routes])
  IN  [i \in DOMAIN shared |-> Rpc("bind", q, shared[i])]

BindRpcs(q) ==
  LET c == CHOOSE d \in ToSet(QueueClasses) : d.name = q
  IN  [i \in DOMAIN c.routes |-> Rpc("bind", q, c.routes[i])]

Init ==
  /\ phase = [p \in Web |-> "down"]
  /\ chan = [p \in Web |-> "closed"]
  /\ pending = [p \in Web |-> <<>>]
  /\ wire = [p \in Web |-> <<>>]
  /\ exchange = FALSE
  /\ bindings = {}
  /\ misfits \in {{}} \cup {{q} : q \in Misdeclared}
  /\ queues = misfits
  /\ stored = [q \in Queue |-> {}]
  /\ answer = [r \in Request |-> "none"]
  /\ handler = [r \in Request |-> NoHandler]
  /\ lost = {}
  /\ refused = [p \in Web |-> FALSE]
  /\ mine = [p \in Web |-> {}]
  /\ faults = 0

-----------------------------------------------------------------------------
(* Start: connect, assert the exchange, then all queues, then listen *)

\* broker.connect() gets as far as assertExchanges().
Start(p) ==
  /\ phase[p] = "down"
  /\ phase' = [phase EXCEPT ![p] = "setup"]
  /\ chan' = [chan EXCEPT ![p] = "open"]
  /\ pending' = [pending EXCEPT ![p] = <<ExchangeRpc>>]
  /\ refused' = [refused EXCEPT ![p] = FALSE]
  /\ mine' = [mine EXCEPT ![p] = {}]
  /\ UNCHANGED <<wire, broker, answer, handler, lost, faults>>

Serves(p, op) ==
  /\ chan[p] = "open"
  /\ pending[p] # <<>>
  /\ Head(pending[p]).op = op

\* setupQueues() calls create() on every queue in one turn of the event loop.
AssertExchange(p) ==
  /\ Serves(p, "exchange")
  /\ exchange' = TRUE
  /\ pending' = [pending EXCEPT ![p] = AssertRpcs]
  /\ UNCHANGED <<phase, chan, wire, bindings, queues, misfits, stored, answer,
                 handler, lost, history, faults>>
\* Mutant: a queue's bindings are asked for before the next assertion.
AssertQueueThenBind(p) ==
  /\ Serves(p, "assert")
  /\ LET q == Head(pending[p]).queue IN
       /\ q \notin misfits
       /\ queues' = queues \cup {q}
       /\ pending' = [pending EXCEPT ![p] = BindRpcs(q) \o Tail(@)]
  /\ UNCHANGED <<phase, chan, wire, exchange, bindings, misfits, stored, answer,
                 handler, lost, history, faults>>

\* createQueue() asks for its bindings when its assertQueue() has returned:
\* behind the assertions of the other queues.
AssertQueue(p) ==
  /\ Serves(p, "assert")
  /\ LET q == Head(pending[p]).queue IN
       /\ q \notin misfits
       /\ queues' = queues \cup {q}
       /\ pending' = [pending EXCEPT ![p] = Tail(@) \o BindRpcs(q)]
  /\ UNCHANGED <<phase, chan, wire, exchange, bindings, misfits, stored, answer,
                 handler, lost, history, faults>>

\* RabbitMQ closes the channel, and amqplib rejects what is pending on it.
\* assertQueue() and bindQueue() return false, which setupQueues() ignores.
ChannelKilled(p) ==
  /\ chan' = [chan EXCEPT ![p] = "closed"]
  /\ pending' = [pending EXCEPT ![p] = <<>>]

AssertRefused(p) ==
  /\ Serves(p, "assert")
  /\ Head(pending[p]).queue \in misfits
  /\ ChannelKilled(p)
  /\ refused' = [refused EXCEPT ![p] = TRUE]
  /\ UNCHANGED <<phase, wire, broker, answer, handler, lost, mine, faults>>

\* Exchange and queue exist: they were asserted on this connection, and a
\* broker that loses them loses its connections.
BindQueue(p) ==
  /\ Serves(p, "bind")
  /\ LET b == <<Head(pending[p]).queue, Head(pending[p]).route>> IN
       /\ bindings' = bindings \cup {b}
       /\ mine' = [mine EXCEPT ![p] = @ \cup {b}]
  /\ pending' = [pending EXCEPT ![p] = Tail(@)]
  /\ UNCHANGED <<phase, chan, wire, exchange, queues, misfits, stored, answer,
                 handler, lost, refused, faults>>
\* Mutant: the server listens without awaiting setupQueues().
ListenAtOnce(p) ==
  /\ phase[p] = "setup"
  /\ phase' = [phase EXCEPT ![p] = "listening"]
  /\ UNCHANGED <<chan, pending, wire, broker, answer, handler, lost, history, faults>>

\* Mutant: assertQueue() rethrows, and start() never gets to listen.
ListenIfAsserted(p) ==
  /\ phase[p] = "setup"
  /\ pending[p] = <<>>
  /\ ~refused[p]
  /\ phase' = [phase EXCEPT ![p] = "listening"]
  /\ UNCHANGED <<chan, pending, wire, broker, answer, handler, lost, history, faults>>

\* Every create() has returned, with whatever result.
Listen(p) ==
  /\ phase[p] = "setup"
  /\ pending[p] = <<>>
  /\ phase' = [phase EXCEPT ![p] = "listening"]
  /\ UNCHANGED <<chan, pending, wire, broker, answer, handler, lost, history, faults>>

-----------------------------------------------------------------------------
(* Requests *)

BoundTo(key) == {q \in Queue : \E b \in bindings : b[1] = q /\ Matches(b[2], key)}

Serving(p) == phase[p] \in {"listening", "stopping"}

Answered(r, h, a) ==
  /\ answer[r] = "none"
  /\ handler' = [handler EXCEPT ![r] = h]
  /\ answer' = [answer EXCEPT ![r] = a]

\* publish() throws on a closed or closing channel and on `false`, and stop()
\* empties the registry.
CanPublish(p, h) ==
  /\ chan[p] \in {"open", "cut"}
  /\ h.registry => phase[p] = "listening"
\* Mutant: published before it is validated.
RejectPublished(p, r, h) ==
  /\ Serving(p)
  /\ Answered(r, h, "refused")
  /\ wire' = [wire EXCEPT ![p] = Append(@, r)]
  /\ UNCHANGED <<phase, chan, pending, broker, lost, history, faults>>

\* The middleware before the handlers: a redirect to https, a body that cannot
\* be parsed, an unknown path, no or wrong credentials, no signature of Twilio.
TurnAway(p, r) ==
  /\ Serving(p)
  /\ Answered(r, NoHandler, "refused")
  /\ UNCHANGED <<process, broker, lost, history, faults>>

\* validate() throws: 422.
RejectInvalid(p, r, h) ==
  /\ Serving(p)
  /\ Answered(r, h, "refused")
  /\ UNCHANGED <<process, broker, lost, history, faults>>

\* publishToRoute(), then sendOK(): 201, 202 or 204.  What is written to a
\* connection that is cut, vanishes.
Accept(p, r, h) ==
  /\ Serving(p)
  /\ h.route # <<>>
  /\ CanPublish(p, h)
  /\ Answered(r, h, "queued")
  /\ IF chan[p] = "open"
       THEN wire' = [wire EXCEPT ![p] = Append(@, r)] /\ lost' = lost
       ELSE lost' = lost \cup {r} /\ wire' = wire
  /\ UNCHANGED <<phase, chan, pending, broker, history, faults>>

\* "Message queued", although there is none.
AcceptUnpublished(p, r, h) ==
  /\ Serving(p)
  /\ h.route = <<>>
  /\ Answered(r, h, "queued")
  /\ UNCHANGED <<process, broker, lost, history, faults>>
\* Mutant: what cannot be published is kept for the recovered channel.
FailButKeep(p, r, h) ==
  /\ Serving(p)
  /\ h.route # <<>>
  /\ ~CanPublish(p, h)
  /\ Answered(r, h, "refused")
  /\ wire' = [wire EXCEPT ![p] = Append(@, r)]
  /\ UNCHANGED <<phase, chan, pending, broker, lost, history, faults>>

\* publishToRoute() or the look-up of the queue throws: 400.
FailToPublish(p, r, h) ==
  /\ Serving(p)
  /\ h.route # <<>>
  /\ ~CanPublish(p, h)
  /\ Answered(r, h, "refused")
  /\ UNCHANGED <<process, broker, lost, history, faults>>

\* The broker takes the next message off the connection.  One that matches no
\* binding is returned, and nothing listens for returned messages.
Route(p) ==
  /\ chan[p] \in {"open", "closing"}
  /\ wire[p] # <<>>
  /\ exchange
  /\ LET r == Head(wire[p]) IN
       stored' = [q \in Queue |->
         IF q \in BoundTo(handler[r].route) THEN stored[q] \cup {r} ELSE stored[q]]
  /\ wire' = [wire EXCEPT ![p] = Tail(@)]
  /\ UNCHANGED <<phase, chan, pending, exchange, bindings, queues, misfits, answer,
                 handler, lost, history, faults>>

VanishWire(ps) ==
  /\ lost' = lost \cup UNION {ToSet(wire[p]) : p \in ps}
  /\ wire' = [p \in Web |-> IF p \in ps THEN <<>> ELSE wire[p]]

\* A publish to an exchange that is gone closes the channel; what was written
\* behind it is ignored.
RouteRefused(p) ==
  /\ chan[p] \in {"open", "closing"}
  /\ wire[p] # <<>>
  /\ ~exchange
  /\ VanishWire({p})
  /\ ChannelKilled(p)
  /\ UNCHANGED <<phase, broker, answer, handler, history, faults>>

-----------------------------------------------------------------------------
(* Connections, and the end of a process *)

Fault ==
  /\ faults < MaxFault
  /\ faults' = faults + 1

Cut(p) ==
  /\ chan[p] \in {"open", "closing"}
  /\ Fault
  /\ chan' = [chan EXCEPT ![p] = "cut"]
  /\ VanishWire({p})
  /\ UNCHANGED <<phase, pending, broker, answer, handler, history>>

\* amqplib finds the connection closed and rejects the pending RPCs; what is
\* left of the start fails one after the other.
NoticeCut(p) ==
  /\ chan[p] = "cut"
  /\ ChannelKilled(p)
  /\ UNCHANGED <<phase, wire, broker, answer, handler, lost, history, faults>>

\* recoverActiveChannel(), as a whole: see ConnectionManager.  It listens from
\* connect() on, also while the queues are set up: what was pending on the old
\* channel has been rejected, and is not asked for again.
Recover(p) ==
  /\ chan[p] = "closed"
  /\ phase[p] \in {"setup", "listening"}
  /\ chan' = [chan EXCEPT ![p] = "open"]
  /\ UNCHANGED <<phase, pending, wire, broker, answer, handler, lost, history, faults>>

Crash(p) ==
  /\ phase[p] # "down"
  /\ Fault
  /\ phase' = [phase EXCEPT ![p] = "down"]
  /\ VanishWire({p})
  /\ ChannelKilled(p)
  /\ UNCHANGED <<broker, answer, handler, history>>

\* The broker comes back empty.
BrokerLost ==
  /\ Fault
  /\ exchange' = FALSE
  /\ bindings' = {}
  /\ queues' = {}
  /\ misfits' = {}
  /\ stored' = [q \in Queue |-> {}]
  /\ lost' = lost \cup UNION (Range(stored) \cup {ToSet(wire[p]) : p \in Web})
  /\ wire' = [p \in Web |-> <<>>]
  /\ chan' = [p \in Web |-> IF chan[p] \in {"open", "closing"} THEN "cut" ELSE chan[p]]
  /\ UNCHANGED <<phase, pending, answer, handler, history>>
\* Mutant: the channel is dropped without awaiting its close.
StopAtOnce(p) ==
  /\ MayStop
  /\ phase[p] = "listening"
  /\ phase' = [phase EXCEPT ![p] = "stopping"]
  /\ chan' = [chan EXCEPT ![p] = "closed"]
  /\ UNCHANGED <<pending, wire, broker, answer, handler, lost, history, faults>>

\* super.stop(): the registry is emptied, and disconnect() sends a close frame
\* behind what was published.  The server goes on accepting requests.
Stop(p) ==
  /\ MayStop
  /\ phase[p] = "listening"
  /\ phase' = [phase EXCEPT ![p] = "stopping"]
  /\ chan' = [chan EXCEPT ![p] = IF @ = "open" THEN "closing" ELSE @]
  /\ UNCHANGED <<pending, wire, broker, answer, handler, lost, history, faults>>

\* disconnect() returns when the broker has answered the close frame, or the
\* connection is gone; then the server is closed.
Stopped(p) ==
  /\ phase[p] = "stopping"
  /\ chan[p] \in {"closing", "closed"}
  /\ wire[p] = <<>>
  /\ phase' = [phase EXCEPT ![p] = "stopped"]
  /\ chan' = [chan EXCEPT ![p] = "closed"]
  /\ UNCHANGED <<pending, wire, broker, answer, handler, lost, history, faults>>

Startup(p) == \/ AssertExchange(p) \/ AssertQueue(p) \/ AssertRefused(p)
              \/ BindQueue(p) \/ Listen(p)
Handle(p, r, h) == \/ RejectInvalid(p, r, h) \/ Accept(p, r, h)
                   \/ AcceptUnpublished(p, r, h) \/ FailToPublish(p, r, h)
Link(p) == NoticeCut(p) \/ Recover(p)
Transit(p) == Route(p) \/ RouteRefused(p)

Next ==
  \/ \E p \in Web : \/ Start(p) \/ Startup(p) \/ Link(p) \/ Transit(p)
                    \/ Cut(p) \/ Crash(p) \/ Stop(p) \/ Stopped(p)
  \/ \E p \in Web, r \in Request :
       TurnAway(p, r) \/ \E h \in Handlers : Handle(p, r, h)
  \/ BrokerLost

Spec == Init /\ [][Next]_vars

\* A process that runs gets on with its start; the broker reads and answers;
\* a lost connection is noticed.  No fault, start, request or stop must happen.
FairSpec ==
  Spec /\ \A p \in Web : /\ WF_vars(Startup(p)) /\ WF_vars(NoticeCut(p))
                         /\ WF_vars(Transit(p))

-----------------------------------------------------------------------------
(* Properties *)

PendingRpc ==
  {ExchangeRpc} \cup {Rpc("assert", q, <<>>) : q \in Queue}
    \cup {Rpc("bind", b[1], b[2]) : b \in DeclaredBindings}

\* Every variable keeps its type; what is in transit was accepted.
TypeOK ==
  /\ phase \in [Web -> {"down", "setup", "listening", "stopping", "stopped"}]
  /\ chan \in [Web -> {"open", "cut", "closing", "closed"}]
  /\ pending \in [Web -> Seq(PendingRpc)]
  /\ wire \in [Web -> Seq({r \in Request : answer[r] = "queued"})]
  /\ exchange \in BOOLEAN
  /\ bindings \subseteq DeclaredBindings
  /\ queues \subseteq Queue
  /\ misfits \subseteq Misdeclared
  /\ stored \in [Queue -> SUBSET Request]
  /\ answer \in [Request -> {"none", "queued", "refused"}]
  /\ handler \in [Request -> Handlers \cup {NoHandler}]
  /\ lost \subseteq Request
  /\ refused \in [Web -> BOOLEAN]
  /\ mine \in [Web -> SUBSET DeclaredBindings]
  /\ faults \in 0..MaxFault

Reached(r) == {q \in Queue : r \in stored[q]}
InTransit(r) == \E p \in Web : r \in ToSet(wire[p])

\* Routing: whatever is refused, lost or restarted, no queue gets a message
\* that is meant for the worker of another one (src/queues, the routes of the
\* controllers).
RightQueues ==
  \A r \in Request : Reached(r) # {} => Reached(r) \subseteq MeantQueues(handler[r])

\* A start that listens and a stop that flushes: as long as no assertion is
\* refused and nothing fails, a request answered 2xx is in transit from a
\* process that has not stopped, or in every queue it is meant for - also when
\* it came in while other processes started or this one stopped.
AcceptedArrives ==
  (faults = 0 /\ misfits = {}) =>
    \A r \in Request : answer[r] = "queued" =>
      \/ \E p \in Web : Serving(p) /\ r \in ToSet(wire[p])
      \/ Reached(r) = MeantQueues(handler[r])

\* sendError(): a client that is told 4xx, and tries again, makes no second
\* copy, since nothing of its request is or gets anywhere.
RefusedLeavesNothing ==
  \A r \in Request : answer[r] = "refused" =>
    ~InTransit(r) /\ Reached(r) = {} /\ r \notin lost

\* One queue declared with other settings takes all down: a start whose
\* assertion was refused has bound no queue at all, for the bindings wait
\* behind the assertions on the channel that dies.
RefusalBindsNothing == \A p \in Web : refused[p] => mine[p] = {}

\* Whatever its assertions come to, a start ends: create() never hangs.
StartEnds == \A p \in Web : phase[p] = "setup" ~> phase[p] # "setup"

\* What was written to a connection is taken off it or vanishes with it, also
\* while the channel is being closed.
TransitEnds == \A r \in Request : InTransit(r) ~> ~InTransit(r)
=============================================================================
