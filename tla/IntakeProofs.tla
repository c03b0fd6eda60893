---------------------------- MODULE IntakeProofs ----------------------------
(***************************************************************************)
(* Theorems about Intake, for any number of processes, requests and        *)
(* faults, and any queues whose routes fit those of the handlers.  First   *)
(* what the RPCs of a start are; then that every variable keeps its type;  *)
(* then one invariant for each property.                                   *)
(***************************************************************************)
EXTENDS Intake, TLAPS

-----------------------------------------------------------------------------
(* The RPCs of a start *)

LEMMA ClassFacts ==
  /\ Len(QueueClasses) \in Nat
  /\ DOMAIN QueueClasses = 1..Len(QueueClasses)
  /\ \A i \in DOMAIN QueueClasses :
       /\ QueueClasses[i] \in [name : STRING, routes : Seq(Seq(STRING) \ {<<>>})]
       /\ QueueClasses[i].name \in Queue
<1> DEFINE C == [name : STRING, routes : Seq(Seq(STRING) \ {<<>>})]
<1>1. QueueClasses \in Seq(C)
  BY ClassesAssumption
<1> HIDE DEF C
<1>2. /\ Len(QueueClasses) \in Nat
      /\ DOMAIN QueueClasses = 1..Len(QueueClasses)
      /\ \A i \in DOMAIN QueueClasses : QueueClasses[i] \in C
  BY <1>1
<1>3. \A i \in DOMAIN QueueClasses : QueueClasses[i].name \in Queue
  BY DEF Queue, ToSet
<1>4. QED
  BY <1>2, <1>3, Zenon DEF C

LEMMA RoutesAreWords ==
  ASSUME NEW b \in DeclaredBindings
  PROVE  b[1] \in Queue /\ b[2] \in Seq(STRING) /\ b[2] # <<>> /\ b = <<b[1], b[2]>>
<1>1. PICK c \in ToSet(QueueClasses) : b \in {<<c.name, route>> : route \in ToSet(c.routes)}
  BY DEF DeclaredBindings
<1>2. PICK i \in DOMAIN QueueClasses : c = QueueClasses[i]
  BY <1>1 DEF ToSet
<1>3. PICK route \in ToSet(c.routes) : b = <<c.name, route>>
  BY <1>1
<1>4. c.routes \in Seq(Seq(STRING) \ {<<>>})
  BY <1>2, ClassFacts
<1>5. PICK j \in DOMAIN c.routes : route = c.routes[j]
  BY <1>3 DEF ToSet
<1>6. route \in Seq(STRING) \ {<<>>}
  BY <1>4, <1>5
<1>7. c.name \in Queue
  BY <1>2, ClassFacts
<1>8. QED
  BY <1>3, <1>6, <1>7

LEMMA PendingKinds ==
  ASSUME NEW x \in PendingRpc
  PROVE  \/ x = ExchangeRpc /\ x.op = "exchange"
         \/ x.op = "assert" /\ x.queue \in Queue
         \/ x.op = "bind" /\ <<x.queue, x.route>> \in DeclaredBindings
<1>1. CASE x = ExchangeRpc
  BY <1>1 DEF ExchangeRpc, Rpc
<1>2. ASSUME NEW q \in Queue, x = Rpc("assert", q, <<>>)
      PROVE  x.op = "assert" /\ x.queue \in Queue
  BY <1>2 DEF Rpc
<1>3. ASSUME NEW b \in DeclaredBindings, x = Rpc("bind", b[1], b[2])
      PROVE  x.op = "bind" /\ <<x.queue, x.route>> \in DeclaredBindings
  <2>1. x.op = "bind" /\ x.queue = b[1] /\ x.route = b[2]
    BY <1>3 DEF Rpc
  <2>2. b = <<b[1], b[2]>>
    BY RoutesAreWords
  <2>3. QED
    BY <2>1, <2>2, Zenon
<1>4. QED
  BY <1>1, <1>2, <1>3 DEF PendingRpc

LEMMA AssertRpcsTyped ==
  /\ AssertRpcs \in Seq(PendingRpc)
  /\ \A i \in DOMAIN AssertRpcs : AssertRpcs[i].op = "assert"
  /\ \A q \in Queue : \E i \in DOMAIN AssertRpcs : AssertRpcs[i] = Rpc("assert", q, <<>>)
<1>1. \A i \in DOMAIN QueueClasses : AssertRpcs[i] = Rpc("assert", QueueClasses[i].name, <<>>)
  BY DEF AssertRpcs
<1>2. DOMAIN AssertRpcs = 1..Len(QueueClasses)
  BY ClassFacts DEF AssertRpcs
<1>3. \A i \in DOMAIN QueueClasses : AssertRpcs[i] \in PendingRpc
  BY <1>1, ClassFacts DEF PendingRpc
<1>4. AssertRpcs \in Seq(PendingRpc)
  BY <1>2, <1>3, ClassFacts DEF AssertRpcs
<1>5. \A q \in Queue : \E i \in DOMAIN QueueClasses : QueueClasses[i].name = q
  BY DEF Queue, ToSet
<1>6. QED
  BY <1>1, <1>2, <1>4, <1>5, ClassFacts DEF Rpc

\* A queue's bindings are asked for one by one, and no others are.
LEMMA BindRpcsTyped ==
  ASSUME NEW q \in Queue
  PROVE  /\ BindRpcs(q) \in Seq(PendingRpc)
         /\ \A i \in DOMAIN BindRpcs(q) : BindRpcs(q)[i].op = "bind"
         /\ \A b \in DeclaredBindings : b[1] = q =>
              \E i \in DOMAIN BindRpcs(q) : BindRpcs(q)[i] = Rpc("bind", b[1], b[2])
<1> DEFINE c == CHOOSE d \in ToSet(QueueClasses) : d.name = q
<1>1. \E d \in ToSet(QueueClasses) : d.name = q
  BY DEF Queue
<1>2. c \in ToSet(QueueClasses) /\ c.name = q
  BY <1>1
<1>3. PICK k \in DOMAIN QueueClasses : c = QueueClasses[k]
  BY <1>2 DEF ToSet
<1>4. c.routes \in Seq(Seq(STRING) \ {<<>>})
  BY <1>3, ClassFacts
<1>5. BindRpcs(q) = [i \in DOMAIN c.routes |-> Rpc("bind", q, c.routes[i])]
  BY DEF BindRpcs
<1> HIDE DEF c
<1>6. \A i \in DOMAIN c.routes : <<q, c.routes[i]>> \in DeclaredBindings
  BY <1>2 DEF DeclaredBindings, ToSet
<1>7. \A i \in DOMAIN c.routes : Rpc("bind", q, c.routes[i]) \in PendingRpc
  <2> SUFFICES ASSUME NEW i \in DOMAIN c.routes
               PROVE  Rpc("bind", q, c.routes[i]) \in PendingRpc
    OBVIOUS
  <2>1. <<q, c.routes[i]>> \in DeclaredBindings
    BY <1>6
  <2> DEFINE b == <<q, c.routes[i]>>
  <2>2. Rpc("bind", b[1], b[2]) \in PendingRpc
    BY <2>1 DEF PendingRpc
  <2>3. QED
    BY <2>2
<1>8. DOMAIN c.routes = 1..Len(c.routes) /\ Len(c.routes) \in Nat
  BY <1>4
<1>9. BindRpcs(q) \in Seq(PendingRpc)
  BY <1>5, <1>7, <1>8
<1>10. \A i \in DOMAIN BindRpcs(q) : BindRpcs(q)[i].op = "bind"
  BY <1>5 DEF Rpc
<1>11. ASSUME NEW b \in DeclaredBindings, b[1] = q
       PROVE  \E i \in DOMAIN BindRpcs(q) : BindRpcs(q)[i] = Rpc("bind", b[1], b[2])
  <2>1. PICK d \in ToSet(QueueClasses) : b \in {<<d.name, route>> : route \in ToSet(d.routes)}
    BY DEF DeclaredBindings
  <2>2. PICK route \in ToSet(d.routes) : b = <<d.name, route>>
    BY <2>1
  <2>3. PICK m \in DOMAIN QueueClasses : d = QueueClasses[m]
    BY <2>1 DEF ToSet
  <2>4. QueueClasses[m].name = QueueClasses[k].name
    BY <1>2, <1>3, <1>11, <2>2, <2>3
  <2>5. d = c
    BY <1>3, <2>3, <2>4, ClassesAssumption
  <2>6. PICK i \in DOMAIN c.routes : route = c.routes[i]
    BY <2>2, <2>5 DEF ToSet
  <2>7. QED
    BY <1>5, <1>11, <2>2, <2>6
<1>12. QED
  BY <1>9, <1>10, <1>11

-----------------------------------------------------------------------------
(* Types *)

\* The sequence without its head, and with one element or another more.
LEMMA TailTyped ==
  ASSUME NEW S, NEW s \in Seq(S), s # <<>>
  PROVE  /\ Head(s) \in S /\ Head(s) = s[1]
         /\ Tail(s) \in Seq(S)
         /\ Len(Tail(s)) = Len(s) - 1 /\ Len(s) \in Nat \ {0}
         /\ \A i \in DOMAIN Tail(s) : i + 1 \in DOMAIN s /\ Tail(s)[i] = s[i + 1]
OBVIOUS

LEMMA MembersOf ==
  ASSUME NEW S, NEW s \in Seq(S)
  PROVE  ToSet(s) \subseteq S
BY DEF ToSet

LEMMA ToSetTail ==
  ASSUME NEW S, NEW s \in Seq(S), s # <<>>
  PROVE  ToSet(s) = {Head(s)} \cup ToSet(Tail(s))
<1>1. /\ DOMAIN s = 1..Len(s) /\ Len(s) \in Nat \ {0}
      /\ DOMAIN Tail(s) = 1..(Len(s) - 1)
      /\ Head(s) = s[1]
      /\ \A i \in DOMAIN Tail(s) : Tail(s)[i] = s[i + 1]
  OBVIOUS
<1>2. ASSUME NEW i \in DOMAIN s
      PROVE  s[i] = Head(s) \/ \E j \in DOMAIN Tail(s) : Tail(s)[j] = s[i]
  <2>1. CASE i = 1
    BY <1>1, <2>1
  <2>2. CASE i # 1
    <3>1. i - 1 \in DOMAIN Tail(s) /\ Tail(s)[i - 1] = s[i]
      BY <1>1, <2>2
    <3>2. QED
      BY <3>1
  <2>3. QED
    BY <2>1, <2>2
<1>3. ASSUME NEW j \in DOMAIN Tail(s)
      PROVE  \E i \in DOMAIN s : s[i] = Tail(s)[j]
  <2>1. j + 1 \in DOMAIN s /\ Tail(s)[j] = s[j + 1]
    BY <1>1
  <2>2. QED
    BY <2>1
<1>4. 1 \in DOMAIN s
  BY <1>1
<1>5. \A x \in ToSet(s) : x \in {Head(s)} \cup ToSet(Tail(s))
  BY <1>2 DEF ToSet
<1>6. \A x \in ToSet(Tail(s)) : x \in ToSet(s)
  BY <1>3 DEF ToSet
<1>7. Head(s) \in ToSet(s)
  BY <1>1, <1>4 DEF ToSet
<1>8. QED
  BY <1>5, <1>6, <1>7

LEMMA ToSetAppend ==
  ASSUME NEW S, NEW s \in Seq(S), NEW x
  PROVE  ToSet(Append(s, x)) = ToSet(s) \cup {x}
<1>1. /\ DOMAIN s = 1..Len(s) /\ Len(s) \in Nat
      /\ DOMAIN Append(s, x) = 1..(Len(s) + 1)
      /\ \A i \in DOMAIN s : Append(s, x)[i] = s[i]
      /\ Append(s, x)[Len(s) + 1] = x
  OBVIOUS
<1>2. \A i \in DOMAIN Append(s, x) : i \in DOMAIN s \/ i = Len(s) + 1
  BY <1>1
<1>3. Len(s) + 1 \in DOMAIN Append(s, x) /\ DOMAIN s \subseteq DOMAIN Append(s, x)
  BY <1>1
<1>4. QED
  BY <1>1, <1>2, <1>3 DEF ToSet

Accepted == {r \in Request : answer[r] = "queued"}

LEMMA InitTyped == Init => TypeOK
<1> SUFFICES ASSUME Init PROVE TypeOK
  OBVIOUS
<1>1. misfits \subseteq Misdeclared
  BY DEF Init
<1>2. faults \in 0..MaxFault
  BY FaultAssumption DEF Init
<1>3. /\ phase \in [Web -> {"down", "setup", "listening", "stopping", "stopped"}]
      /\ chan \in [Web -> {"open", "cut", "closing", "closed"}]
      /\ exchange \in BOOLEAN
  BY DEF Init
<1>8. \A S : <<>> \in Seq(S)
  OBVIOUS
<1>9. /\ pending \in [Web -> Seq(PendingRpc)]
      /\ wire \in [Web -> Seq(Accepted)]
  BY <1>8 DEF Init
<1>4. /\ bindings \subseteq DeclaredBindings
      /\ stored \in [Queue -> SUBSET Request]
      /\ answer \in [Request -> {"none", "queued", "refused"}]
      /\ handler \in [Request -> Handlers \cup {NoHandler}]
      /\ lost \subseteq Request
  BY DEF Init
<1>5. /\ refused \in [Web -> BOOLEAN]
      /\ mine \in [Web -> SUBSET DeclaredBindings]
  BY DEF Init
<1>6. queues \subseteq Queue
  BY <1>1, MisdeclaredAssumption DEF Init
<1>7. QED
  BY <1>1, <1>2, <1>3, <1>4, <1>5, <1>6, <1>9 DEF TypeOK, Accepted

LEMMA SeqMonotone ==
  ASSUME NEW S, NEW T, S \subseteq T
  PROVE  Seq(S) \subseteq Seq(T)
OBVIOUS

\* Typed, but for what is in transit and for the answers.
LEMMA StartTyped ==
  ASSUME TypeOK, NEW p \in Web, Start(p) \/ Startup(p)
  PROVE  TypeOK'
<1> USE DEF TypeOK, process, broker, history, PendingRpc
<1>a. pending[p] # <<>> =>
        /\ Head(pending[p]) \in PendingRpc
        /\ Tail(pending[p]) \in Seq(PendingRpc)
  BY TailTyped
<1>b. <<>> \in Seq(PendingRpc) /\ <<ExchangeRpc>> \in Seq(PendingRpc)
  OBVIOUS
<1> HIDE DEF PendingRpc
<1>1. CASE Start(p)
  BY <1>1, <1>b DEF Start
<1>2. CASE AssertExchange(p)
  BY <1>2, AssertRpcsTyped DEF AssertExchange
<1>3. CASE AssertQueue(p)
  <2> DEFINE q == Head(pending[p]).queue
  <2>1. q \in Queue
    BY <1>3, <1>a, PendingKinds DEF AssertQueue, Serves
  <2>2. Tail(pending[p]) \o BindRpcs(q) \in Seq(PendingRpc)
    BY <1>3, <1>a, <2>1, BindRpcsTyped DEF AssertQueue, Serves
  <2>3. queues' \subseteq Queue /\ pending' \in [Web -> Seq(PendingRpc)]
    BY <1>3, <2>1, <2>2 DEF AssertQueue
  <2>4. QED
    BY <1>3, <2>3 DEF AssertQueue
<1>4. CASE AssertRefused(p)
  BY <1>4, <1>b DEF AssertRefused, ChannelKilled
<1>5. CASE BindQueue(p)
  <2> DEFINE b == <<Head(pending[p]).queue, Head(pending[p]).route>>
  <2>2. b \in DeclaredBindings
    BY <1>5, <1>a, PendingKinds DEF BindQueue, Serves
  <2>3. bindings' = bindings \cup {b} /\ mine' = [mine EXCEPT ![p] = @ \cup {b}]
    BY <1>5 DEF BindQueue
  <2> HIDE DEF b
  <2>4. bindings' \subseteq DeclaredBindings /\ mine' \in [Web -> SUBSET DeclaredBindings]
    BY <2>2, <2>3
  <2>5. pending' \in [Web -> Seq(PendingRpc)]
    BY <1>5, <1>a DEF BindQueue, Serves
  <2>6. QED
    BY <1>5, <2>4, <2>5 DEF BindQueue
<1>6. CASE Listen(p)
  BY <1>6 DEF Listen
<1>7. QED
  BY <1>1, <1>2, <1>3, <1>4, <1>5, <1>6 DEF Startup

\* An answer leaves what was accepted before accepted.
LEMMA HandleTyped ==
  ASSUME TypeOK, NEW p \in Web, NEW r \in Request,
         TurnAway(p, r) \/ \E h \in Handlers : Handle(p, r, h)
  PROVE  /\ TypeOK'
         /\ Accepted \subseteq Accepted'
<1>1. PICK h \in Handlers \cup {NoHandler}, a \in {"queued", "refused"} :
        /\ Answered(r, h, a)
        /\ \/ UNCHANGED <<wire, lost>>
           \/ a = "queued" /\ wire' = [wire EXCEPT ![p] = Append(@, r)] /\ UNCHANGED lost
           \/ a = "queued" /\ lost' = lost \cup {r} /\ UNCHANGED wire
        /\ UNCHANGED <<phase, chan, pending, broker, history, faults>>
  BY DEF TurnAway, Handle, RejectInvalid, Accept, AcceptUnpublished, FailToPublish,
         process
<1>2. /\ answer[r] = "none"
      /\ answer' = [answer EXCEPT ![r] = a]
      /\ handler' = [handler EXCEPT ![r] = h]
  BY <1>1 DEF Answered
<1>3. /\ answer' \in [Request -> {"none", "queued", "refused"}]
      /\ handler' \in [Request -> Handlers \cup {NoHandler}]
  BY <1>1, <1>2 DEF TypeOK
<1>4. Accepted \subseteq Accepted'
  BY <1>1, <1>2 DEF Accepted, TypeOK
<1>5. wire \in [Web -> Seq(Accepted)]
  BY DEF TypeOK, Accepted
<1>6. wire \in [Web -> Seq(Accepted')]
  BY <1>4, <1>5, SeqMonotone
<1>7. a = "queued" => r \in Accepted'
  BY <1>2 DEF TypeOK, Accepted
<1>8. wire' \in [Web -> Seq(Accepted')]
  <2>1. CASE UNCHANGED wire
    BY <1>6, <2>1
  <2>2. CASE a = "queued" /\ wire' = [wire EXCEPT ![p] = Append(@, r)]
    <3>1. Append(wire[p], r) \in Seq(Accepted')
      BY <1>6, <1>7, <2>2
    <3>2. QED
      BY <1>6, <2>2, <3>1
  <2>3. QED
    BY <1>1, <2>1, <2>2
<1>9. lost' \subseteq Request
  BY <1>1 DEF TypeOK
<1>10. TypeOK'
  BY <1>1, <1>3, <1>8, <1>9 DEF TypeOK, Accepted, broker, history
<1>11. QED
  BY <1>4, <1>10

\* Steps of the broker and of the network.
LEMMA LinkTyped ==
  ASSUME TypeOK,
         \/ BrokerLost
         \/ \E p \in Web : \/ Link(p) \/ Transit(p) \/ Cut(p) \/ Crash(p)
                           \/ Stop(p) \/ Stopped(p)
  PROVE  TypeOK' /\ UNCHANGED <<answer, handler>>
<1>a. UNCHANGED <<answer, handler>>
  BY DEF BrokerLost, Link, Recover, NoticeCut, Transit, Route, RouteRefused, Cut, Crash,
         Stop, Stopped
<1>b. Accepted' = Accepted
  BY <1>a DEF Accepted
<1>c. wire \in [Web -> Seq(Accepted)] /\ Accepted \subseteq Request
  BY DEF TypeOK, Accepted
<1>d. \A p \in Web : ToSet(wire[p]) \subseteq Request
  BY <1>c, MembersOf
<1>e. \A S : <<>> \in Seq(S)
  OBVIOUS
<1>f. ASSUME NEW ps \in SUBSET Web, VanishWire(ps)
      PROVE  wire' \in [Web -> Seq(Accepted)] /\ lost' \subseteq Request
  BY <1>c, <1>d, <1>e, <1>f DEF VanishWire, TypeOK
<1>g. ASSUME Fault
      PROVE  faults' \in 0..MaxFault
  BY <1>g, FaultAssumption DEF Fault, TypeOK
<1>1. CASE BrokerLost
  <2>1. wire' \in [Web -> Seq(Accepted)]
    BY <1>1, <1>e DEF BrokerLost
  <2>2. lost' \subseteq Request
    BY <1>1, <1>d DEF BrokerLost, TypeOK, Range
  <2>3. faults' \in 0..MaxFault
    BY <1>1, <1>g DEF BrokerLost
  <2>4. chan' \in [Web -> {"open", "cut", "closing", "closed"}]
    BY <1>1 DEF BrokerLost, TypeOK
  <2>5. QED
    BY <1>1, <1>b, <2>1, <2>2, <2>3, <2>4 DEF BrokerLost, TypeOK, Accepted, history
<1>2. ASSUME NEW p \in Web, Link(p)
      PROVE  TypeOK'
  <2>1. pending' \in [Web -> Seq(PendingRpc)] /\ UNCHANGED wire
    <3>1. CASE NoticeCut(p)
      BY <1>e, <3>1 DEF NoticeCut, ChannelKilled, TypeOK
    <3>2. CASE Recover(p)
      BY <3>2 DEF Recover, TypeOK
    <3>3. QED
      BY <1>2, <3>1, <3>2 DEF Link
  <2>2. wire' \in [Web -> Seq(Accepted)]
    BY <1>c, <2>1
  <2>3. CASE NoticeCut(p)
    BY <1>b, <2>1, <2>2, <2>3 DEF NoticeCut, ChannelKilled, TypeOK, Accepted, broker, history
  <2>4. CASE Recover(p)
    BY <1>b, <2>1, <2>2, <2>4 DEF Recover, TypeOK, Accepted, broker, history
  <2>5. QED
    BY <1>2, <2>3, <2>4 DEF Link
<1>3. ASSUME NEW p \in Web, Route(p)
      PROVE  TypeOK'
  <2>1. wire' \in [Web -> Seq(Accepted)]
    BY <1>3, <1>c, TailTyped DEF Route
  <2>2. Head(wire[p]) \in Request
    BY <1>3, <1>c, TailTyped DEF Route
  <2>3. stored' \in [Queue -> SUBSET Request]
    BY <1>3, <2>2 DEF Route, TypeOK
  <2>4. QED
    BY <1>3, <1>b, <2>1, <2>3 DEF Route, TypeOK, Accepted, history
<1>4. ASSUME NEW p \in Web, RouteRefused(p)
      PROVE  TypeOK'
  BY <1>4, <1>b, <1>e, <1>f DEF RouteRefused, ChannelKilled, TypeOK, Accepted, broker, history
<1>5. ASSUME NEW p \in Web, Cut(p)
      PROVE  TypeOK'
  BY <1>5, <1>b, <1>f, <1>g DEF Cut, TypeOK, Accepted, broker, history
<1>6. ASSUME NEW p \in Web, Crash(p)
      PROVE  TypeOK'
  BY <1>6, <1>b, <1>e, <1>f, <1>g DEF Crash, ChannelKilled, TypeOK, Accepted, broker, history
<1>7. ASSUME NEW p \in Web, Stop(p) \/ Stopped(p)
      PROVE  TypeOK'
  BY <1>7, <1>a, <1>b, <1>c DEF Stop, Stopped, TypeOK, Accepted, broker, history
<1>8. QED
  BY <1>a, <1>1, <1>2, <1>3, <1>4, <1>5, <1>6, <1>7 DEF Transit

LEMMA TypeStep == TypeOK /\ [Next]_vars => TypeOK'
<1> SUFFICES ASSUME TypeOK, [Next]_vars PROVE TypeOK'
  OBVIOUS
<1>1. CASE Next
  BY <1>1, StartTyped, HandleTyped, LinkTyped DEF Next
<1>2. CASE UNCHANGED vars
  BY <1>2 DEF vars, process, broker, history, TypeOK
<1>3. QED
  BY <1>1, <1>2

\* Every variable keeps its type: what is in transit was accepted, and the
\* RPCs of a start are those of its own queues.
THEOREM TypeCorrect == Spec => []TypeOK
BY InitTyped, TypeStep, PTL DEF Spec

-----------------------------------------------------------------------------
(* A refused assertion binds nothing *)

\* The bindings wait behind the assertions.
BindsLast ==
  \A p \in Web : \A i, j \in DOMAIN pending[p] :
    i < j /\ pending[p][i].op = "bind" => pending[p][j].op = "bind"

\* A start has bound nothing as long as it has something to assert, or when
\* its channel died of an assertion.
AssertsFirst ==
  \A p \in Web :
    /\ (\E i \in DOMAIN pending[p] : pending[p][i].op # "bind") => mine[p] = {}
    /\ refused[p] => mine[p] = {} /\ pending[p] = <<>>

StartInv == TypeOK /\ BindsLast /\ AssertsFirst

\* What the broker's reply to one RPC does to the others.
LEMMA RepliesKeepOrder ==
  ASSUME StartInv, NEW p \in Web, AssertQueue(p) \/ BindQueue(p)
  PROVE  BindsLast' /\ AssertsFirst'
<1> DEFINE s == pending[p]
<1>1. /\ s \in Seq(PendingRpc) /\ s # <<>>
      /\ pending \in [Web -> Seq(PendingRpc)] /\ mine \in [Web -> SUBSET DeclaredBindings]
  BY DEF StartInv, TypeOK, AssertQueue, BindQueue, Serves
<1>2. ~refused[p] /\ refused' = refused
  BY <1>1 DEF StartInv, AssertsFirst, AssertQueue, BindQueue, history
<1>3. /\ Head(s) = s[1] /\ 1 \in DOMAIN s
      /\ DOMAIN s = 1..Len(s) /\ Len(s) \in Nat \ {0}
      /\ Tail(s) \in Seq(PendingRpc)
      /\ Len(Tail(s)) = Len(s) - 1
      /\ DOMAIN Tail(s) = 1..(Len(s) - 1)
      /\ \A i \in DOMAIN Tail(s) : i + 1 \in DOMAIN s /\ Tail(s)[i] = s[i + 1]
  BY <1>1
<1>4. \A i, j \in DOMAIN s : i < j /\ s[i].op = "bind" => s[j].op = "bind"
  BY DEF StartInv, BindsLast
<1>5. \A i, j \in DOMAIN Tail(s) :
        i < j /\ Tail(s)[i].op = "bind" => Tail(s)[j].op = "bind"
  BY <1>3, <1>4
<1>6. \A w \in Web \ {p} : pending'[w] = pending[w] /\ mine'[w] = mine[w]
  BY <1>1 DEF AssertQueue, BindQueue, history
<1>7. CASE AssertQueue(p)
  <2> DEFINE b == BindRpcs(Head(s).queue)
  <2>1. Head(s).op = "assert" /\ Head(s).queue \in Queue
    <3>1. Head(s) \in PendingRpc /\ Head(s).op = "assert"
      BY <1>1, <1>7 DEF AssertQueue, Serves
    <3>2. QED
      BY <3>1, PendingKinds
  <2>2. b \in Seq(PendingRpc) /\ \A i \in DOMAIN b : b[i].op = "bind"
    BY <2>1, BindRpcsTyped
  <2>3. pending'[p] = Tail(s) \o b /\ mine' = mine
    BY <1>1, <1>7 DEF AssertQueue, history
  <2> HIDE DEF b
  <2>4. /\ DOMAIN (Tail(s) \o b) = 1..(Len(Tail(s)) + Len(b))
        /\ \A i \in DOMAIN Tail(s) : (Tail(s) \o b)[i] = Tail(s)[i]
        /\ \A i \in DOMAIN (Tail(s) \o b) :
             i \notin DOMAIN Tail(s) =>
               i - Len(Tail(s)) \in DOMAIN b /\ (Tail(s) \o b)[i] = b[i - Len(Tail(s))]
    BY <1>3, <2>2
  <2>5. \A i, j \in DOMAIN pending'[p] :
          i < j /\ pending'[p][i].op = "bind" => pending'[p][j].op = "bind"
    <3> SUFFICES ASSUME NEW i \in DOMAIN (Tail(s) \o b), NEW j \in DOMAIN (Tail(s) \o b),
                        i < j, (Tail(s) \o b)[i].op = "bind"
                 PROVE  (Tail(s) \o b)[j].op = "bind"
      BY <2>3
    <3>1. CASE j \in DOMAIN Tail(s)
      <4>1. i \in DOMAIN Tail(s)
        BY <1>3, <2>4, <3>1
      <4>2. QED
        BY <1>5, <2>4, <3>1, <4>1
    <3>2. CASE j \notin DOMAIN Tail(s)
      BY <2>2, <2>4, <3>2
    <3>3. QED
      BY <3>1, <3>2
  <2>6. mine[p] = {}
    BY <1>3, <2>1 DEF StartInv, AssertsFirst
  <2>7. BindsLast'
    BY <1>6, <2>5 DEF StartInv, BindsLast
  <2>8. AssertsFirst'
    BY <1>2, <1>6, <2>3, <2>6 DEF StartInv, AssertsFirst
  <2>9. QED
    BY <2>7, <2>8
<1>8. CASE BindQueue(p)
  <2>1. pending'[p] = Tail(s) /\ Head(s).op = "bind"
    BY <1>1, <1>8 DEF BindQueue, Serves
  <2>2. \A i \in DOMAIN Tail(s) : Tail(s)[i].op = "bind"
    <3> SUFFICES ASSUME NEW i \in DOMAIN Tail(s) PROVE Tail(s)[i].op = "bind"
      OBVIOUS
    <3>1. i + 1 \in DOMAIN s /\ 1 < i + 1 /\ Tail(s)[i] = s[i + 1]
      BY <1>3
    <3>2. QED
      BY <1>3, <1>4, <2>1, <3>1
  <2>3. BindsLast'
    <3>1. \A i, j \in DOMAIN pending'[p] :
            i < j /\ pending'[p][i].op = "bind" => pending'[p][j].op = "bind"
      BY <1>5, <2>1
    <3>2. QED
      BY <1>6, <3>1 DEF StartInv, BindsLast
  <2>4. AssertsFirst'
    BY <1>2, <1>6, <2>1, <2>2 DEF StartInv, AssertsFirst
  <2>5. QED
    BY <2>3, <2>4
<1>9. QED
  BY <1>7, <1>8

LEMMA StartInvStep == StartInv /\ [Next]_vars => StartInv'
<1> SUFFICES ASSUME StartInv, [Next]_vars PROVE BindsLast' /\ AssertsFirst'
  BY TypeStep DEF StartInv
<1> USE DEF StartInv
<1>a. /\ pending \in [Web -> Seq(PendingRpc)] /\ mine \in [Web -> SUBSET DeclaredBindings]
      /\ refused \in [Web -> BOOLEAN]
  BY DEF TypeOK
<1>1. ASSUME UNCHANGED <<pending, mine, refused>>
      PROVE  BindsLast' /\ AssertsFirst'
  BY <1>1 DEF BindsLast, AssertsFirst
<1>2. ASSUME NEW p \in Web, pending' = [pending EXCEPT ![p] = <<>>], mine' = mine,
             \A w \in Web \ {p} : refused'[w] = refused[w],
             refused'[p] => mine[p] = {}
      PROVE  BindsLast' /\ AssertsFirst'
  <2>1. pending'[p] = <<>> /\ DOMAIN pending'[p] = {}
    BY <1>a, <1>2
  <2>2. \A w \in Web \ {p} : pending'[w] = pending[w] /\ refused'[w] = refused[w]
    BY <1>a, <1>2
  <2>3. BindsLast'
    BY <2>1, <2>2 DEF BindsLast
  <2>4. QED
    BY <1>2, <2>1, <2>2, <2>3 DEF AssertsFirst
<1>3. ASSUME NEW p \in Web, Start(p)
      PROVE  BindsLast' /\ AssertsFirst'
  <2>1. /\ pending'[p] = <<ExchangeRpc>> /\ mine'[p] = {} /\ ~refused'[p]
        /\ \A w \in Web \ {p} : /\ pending'[w] = pending[w] /\ mine'[w] = mine[w]
                                 /\ refused'[w] = refused[w]
    BY <1>a, <1>3 DEF Start
  <2>2. DOMAIN <<ExchangeRpc>> = {1}
    OBVIOUS
  <2>3. QED
    BY <2>1, <2>2 DEF BindsLast, AssertsFirst
<1>4. ASSUME NEW p \in Web, AssertExchange(p)
      PROVE  BindsLast' /\ AssertsFirst'
  <2>1. Head(pending[p]).op = "exchange" /\ pending[p] # <<>>
    BY <1>4 DEF AssertExchange, Serves
  <2>2. 1 \in DOMAIN pending[p] /\ pending[p][1].op # "bind"
    BY <1>a, <2>1
  <2>3. mine[p] = {} /\ ~refused[p]
    BY <2>1, <2>2 DEF AssertsFirst
  <2>4. /\ pending'[p] = AssertRpcs /\ mine' = mine /\ refused' = refused
        /\ \A w \in Web \ {p} : pending'[w] = pending[w]
    BY <1>a, <1>4 DEF AssertExchange, history
  <2>5. QED
    BY <2>3, <2>4, AssertRpcsTyped DEF BindsLast, AssertsFirst
<1>5. ASSUME NEW p \in Web, AssertRefused(p)
      PROVE  BindsLast' /\ AssertsFirst'
  <2>1. Head(pending[p]).op = "assert" /\ pending[p] # <<>>
    BY <1>5 DEF AssertRefused, Serves
  <2>2. 1 \in DOMAIN pending[p] /\ pending[p][1].op # "bind"
    BY <1>a, <2>1
  <2>3. mine[p] = {}
    BY <2>2 DEF AssertsFirst
  <2>4. refused' = [refused EXCEPT ![p] = TRUE] /\ mine' = mine
    BY <1>5 DEF AssertRefused
  <2>5. \A w \in Web \ {p} : refused'[w] = refused[w]
    BY <1>a, <2>4
  <2>6. QED
    BY <1>2, <1>5, <2>3, <2>4, <2>5 DEF AssertRefused, ChannelKilled
<1>6. ASSUME NEW p \in Web, Startup(p)
      PROVE  BindsLast' /\ AssertsFirst'
  <2>1. CASE Listen(p)
    BY <1>1, <2>1 DEF Listen, history
  <2>2. QED
    BY <1>4, <1>5, <1>6, <2>1, RepliesKeepOrder DEF Startup
<1>7. ASSUME NEW p \in Web, NEW r \in Request,
             TurnAway(p, r) \/ \E h \in Handlers : Handle(p, r, h)
      PROVE  BindsLast' /\ AssertsFirst'
  <2>1. UNCHANGED <<pending, mine, refused>>
    BY <1>7 DEF TurnAway, Handle, RejectInvalid, Accept, AcceptUnpublished,
                FailToPublish, process, history
  <2>2. QED
    BY <1>1, <2>1
<1>8. ASSUME NEW p \in Web, Link(p) \/ Transit(p)
      PROVE  BindsLast' /\ AssertsFirst'
  <2>1. \/ UNCHANGED <<pending, mine, refused>>
        \/ pending' = [pending EXCEPT ![p] = <<>>] /\ UNCHANGED <<mine, refused>>
    BY <1>8 DEF Link, NoticeCut, Recover, Transit, Route, RouteRefused, ChannelKilled, history
  <2>2. refused[p] => mine[p] = {}
    BY DEF AssertsFirst
  <2>3. QED
    BY <1>1, <1>2, <2>1, <2>2
<1>9. ASSUME NEW p \in Web, Cut(p) \/ Crash(p) \/ Stop(p) \/ Stopped(p)
      PROVE  BindsLast' /\ AssertsFirst'
  <2>1. \/ UNCHANGED <<pending, mine, refused>>
        \/ pending' = [pending EXCEPT ![p] = <<>>] /\ UNCHANGED <<mine, refused>>
    BY <1>9 DEF Cut, Crash, Stop, Stopped, ChannelKilled, history
  <2>2. refused[p] => mine[p] = {}
    BY DEF AssertsFirst
  <2>3. QED
    BY <1>1, <1>2, <2>1, <2>2
<1>10. CASE BrokerLost \/ UNCHANGED vars
  BY <1>1, <1>10 DEF BrokerLost, vars, process, history
<1>11. QED
  BY <1>3, <1>6, <1>7, <1>8, <1>9, <1>10 DEF Next

\* The code behaviour is createQueue() under setupQueues(): one queue that is
\* refused leaves all queues of that start unbound, whichever it is.
THEOREM RefusalBindsNothingHolds == Spec => []RefusalBindsNothing
<1>1. Init => StartInv
  <2> SUFFICES ASSUME Init PROVE BindsLast /\ AssertsFirst
    BY InitTyped DEF StartInv
  <2>1. \A p \in Web : pending[p] = <<>> /\ mine[p] = {} /\ DOMAIN pending[p] = {}
    BY DEF Init
  <2>2. QED
    BY <2>1 DEF BindsLast, AssertsFirst
<1>2. StartInv => RefusalBindsNothing
  BY DEF StartInv, AssertsFirst, RefusalBindsNothing
<1>3. QED
  BY <1>1, <1>2, StartInvStep, PTL DEF Spec

-----------------------------------------------------------------------------
(* What is refused leaves nothing, and nothing reaches a wrong queue *)

\* A message, wherever it is, was accepted, by the handler that published it.
OnlyAccepted ==
  /\ \A q \in Queue : stored[q] \subseteq Accepted
  /\ lost \subseteq Accepted
  /\ \A r \in Accepted : handler[r] \in Handlers

RouteInv == TypeOK /\ OnlyAccepted /\ RightQueues

LEMMA WiresAreAccepted ==
  ASSUME TypeOK
  PROVE  \A p \in Web : wire[p] \in Seq(Accepted) /\ ToSet(wire[p]) \subseteq Accepted
<1>1. \A p \in Web : wire[p] \in Seq(Accepted)
  BY DEF TypeOK, Accepted
<1>2. QED
  BY <1>1, MembersOf

\* The bindings there are lead to no queue that a request is not meant for, and
\* all of them together lead to each that it is meant for.
LEMMA BoundIsMeant ==
  ASSUME NEW h \in Handlers, bindings \subseteq DeclaredBindings
  PROVE  /\ BoundTo(h.route) \subseteq MeantQueues(h)
         /\ DeclaredBindings \subseteq bindings => BoundTo(h.route) = MeantQueues(h)
BY RoutesReach DEF BoundTo

\* An answer: only its own request is affected, and that is in no queue.
LEMMA HandleRoutes ==
  ASSUME RouteInv, NEW p \in Web, NEW r \in Request,
         TurnAway(p, r) \/ \E h \in Handlers : Handle(p, r, h)
  PROVE  OnlyAccepted' /\ RightQueues'
<1>1. PICK h \in Handlers \cup {NoHandler}, a \in {"queued", "refused"} :
        /\ Answered(r, h, a)
        /\ a = "queued" => h \in Handlers
        /\ lost' = lost \/ (a = "queued" /\ lost' = lost \cup {r})
        /\ UNCHANGED stored
  BY DEF TurnAway, Handle, RejectInvalid, Accept, AcceptUnpublished, FailToPublish,
         process, broker
<1>2. /\ answer[r] = "none"
      /\ answer' = [answer EXCEPT ![r] = a]
      /\ handler' = [handler EXCEPT ![r] = h]
  BY <1>1 DEF Answered
<1>3. /\ answer \in [Request -> {"none", "queued", "refused"}]
      /\ handler \in [Request -> Handlers \cup {NoHandler}]
  BY DEF RouteInv, TypeOK
<1>4. /\ \A x \in Request \ {r} : answer'[x] = answer[x] /\ handler'[x] = handler[x]
      /\ answer'[r] = a /\ handler'[r] = h
  BY <1>2, <1>3
<1>5. r \notin Accepted /\ Accepted \subseteq Accepted'
  BY <1>2, <1>4 DEF Accepted
<1>6. a = "queued" => r \in Accepted'
  BY <1>4 DEF Accepted
<1>7. OnlyAccepted'
  <2>1. \A q \in Queue : stored'[q] \subseteq Accepted'
    BY <1>1, <1>5 DEF RouteInv, OnlyAccepted
  <2>2. lost' \subseteq Accepted'
    BY <1>1, <1>5, <1>6 DEF RouteInv, OnlyAccepted
  <2>3. ASSUME NEW x \in Accepted'
        PROVE  handler'[x] \in Handlers
    BY <1>1, <1>4, <2>3 DEF RouteInv, OnlyAccepted, Accepted
  <2>4. QED
    BY <2>1, <2>2, <2>3 DEF OnlyAccepted
<1>8. RightQueues'
  <2>1. Reached(r) = {}
    BY <1>5 DEF RouteInv, OnlyAccepted, Reached
  <2>2. \A x \in Request : Reached(x)' = Reached(x)
    BY <1>1 DEF Reached
  <2>3. \A x \in Request \ {r} : MeantQueues(handler'[x]) = MeantQueues(handler[x])
    BY <1>4
  <2>4. QED
    BY <2>1, <2>2, <2>3 DEF RouteInv, RightQueues
<1>9. QED
  BY <1>7, <1>8

\* What the broker routes, it routes by its bindings.
LEMMA RouteRoutes ==
  ASSUME RouteInv, NEW p \in Web, Route(p), NEW x, x = Head(wire[p])
  PROVE  /\ OnlyAccepted' /\ RightQueues'
         /\ x \in Accepted
         /\ \A r \in Request \ {x} : Reached(r)' = Reached(r)
         /\ Reached(x)' = Reached(x) \cup BoundTo(handler[x].route)
<1>1. x \in Accepted /\ Accepted \subseteq Request
  <2>1. wire[p] \in Seq(Accepted) /\ wire[p] # <<>>
    BY WiresAreAccepted DEF RouteInv, Route
  <2>2. Accepted \subseteq Request
    BY DEF Accepted
  <2>3. QED
    BY <2>1, <2>2
<1>2. /\ stored' = [q \in Queue |->
           IF q \in BoundTo(handler[x].route) THEN stored[q] \cup {x} ELSE stored[q]]
      /\ UNCHANGED <<answer, handler, lost>>
  BY DEF Route
<1>3. Accepted' = Accepted
  BY <1>2 DEF Accepted
<1>4. handler[x] \in Handlers
  BY <1>1 DEF RouteInv, OnlyAccepted
<1>5. BoundTo(handler[x].route) \subseteq MeantQueues(handler[x])
  BY <1>4, BoundIsMeant DEF RouteInv, TypeOK
<1>6. \A r \in Request \ {x} : Reached(r)' = Reached(r)
  BY <1>2 DEF Reached
<1>7. Reached(x)' = Reached(x) \cup BoundTo(handler[x].route)
  <2>1. BoundTo(handler[x].route) \subseteq Queue
    BY DEF BoundTo
  <2>2. \A q \in Queue : x \in stored'[q] <=> x \in stored[q] \/ q \in BoundTo(handler[x].route)
    BY <1>2
  <2>3. QED
    BY <2>1, <2>2 DEF Reached
<1>8. OnlyAccepted'
  BY <1>1, <1>2, <1>3 DEF RouteInv, OnlyAccepted
<1>9. RightQueues'
  <2>1. ASSUME NEW r \in Request
        PROVE  Reached(r)' \subseteq MeantQueues(handler'[r])
    <3>1. Reached(r) \subseteq MeantQueues(handler[r])
      BY DEF RouteInv, RightQueues
    <3>2. MeantQueues(handler'[r]) = MeantQueues(handler[r])
      BY <1>2
    <3>3. \/ Reached(r)' = Reached(r)
          \/ r = x /\ Reached(r)' = Reached(x) \cup BoundTo(handler[x].route)
      BY <1>6, <1>7
    <3>4. QED
      BY <1>5, <3>1, <3>2, <3>3
  <2>2. QED
    BY <2>1 DEF RightQueues
<1>10. QED
  BY <1>1, <1>6, <1>7, <1>8, <1>9

LEMMA RouteInvStep == RouteInv /\ [Next]_vars => RouteInv'
<1> SUFFICES ASSUME RouteInv, [Next]_vars PROVE OnlyAccepted' /\ RightQueues'
  BY TypeStep DEF RouteInv
<1>1. ASSUME UNCHANGED <<stored, answer, handler>>, lost' \subseteq Accepted
      PROVE  OnlyAccepted' /\ RightQueues'
  <2>1. Accepted' = Accepted /\ \A r \in Request : Reached(r)' = Reached(r)
    BY <1>1 DEF Accepted, Reached
  <2>2. QED
    BY <1>1, <2>1 DEF RouteInv, OnlyAccepted, RightQueues
<1>2. lost \subseteq Accepted
  BY DEF RouteInv, OnlyAccepted
<1>3. ASSUME NEW ps \in SUBSET Web, VanishWire(ps)
      PROVE  lost' \subseteq Accepted
  BY <1>2, <1>3, WiresAreAccepted DEF VanishWire, RouteInv
<1>4. ASSUME NEW p \in Web, Start(p) \/ Startup(p) \/ Link(p) \/ Stop(p) \/ Stopped(p)
      PROVE  OnlyAccepted' /\ RightQueues'
  <2>1. UNCHANGED <<stored, answer, handler, lost>>
    BY <1>4 DEF Start, Startup, AssertExchange, AssertQueue, AssertRefused, BindQueue,
                Listen, Link, NoticeCut, Recover, Stop, Stopped, broker
  <2>2. QED
    BY <1>1, <1>2, <2>1
<1>5. ASSUME NEW p \in Web, NEW r \in Request,
             TurnAway(p, r) \/ \E h \in Handlers : Handle(p, r, h)
      PROVE  OnlyAccepted' /\ RightQueues'
  BY <1>5, HandleRoutes
<1>6. ASSUME NEW p \in Web, Transit(p)
      PROVE  OnlyAccepted' /\ RightQueues'
  <2>1. CASE Route(p)
    BY <2>1, RouteRoutes
  <2>2. CASE RouteRefused(p)
    BY <1>1, <1>3, <2>2 DEF RouteRefused, broker
  <2>3. QED
    BY <1>6, <2>1, <2>2 DEF Transit
<1>7. ASSUME NEW p \in Web, Cut(p) \/ Crash(p)
      PROVE  OnlyAccepted' /\ RightQueues'
  <2>1. VanishWire({p}) /\ UNCHANGED <<stored, answer, handler>>
    BY <1>7 DEF Cut, Crash, broker
  <2>2. QED
    BY <1>1, <1>3, <2>1
<1>8. CASE BrokerLost
  <2>1. /\ stored' = [q \in Queue |-> {}] /\ UNCHANGED <<answer, handler>>
        /\ lost' = lost \cup UNION (Range(stored) \cup {ToSet(wire[p]) : p \in Web})
    BY <1>8 DEF BrokerLost
  <2>2. stored \in [Queue -> SUBSET Request]
    BY DEF RouteInv, TypeOK
  <2>3. lost' \subseteq Accepted
    BY <1>2, <2>1, <2>2, WiresAreAccepted DEF RouteInv, OnlyAccepted, Range
  <2>4. Accepted' = Accepted /\ \A r \in Request : Reached(r)' = {}
    BY <2>1 DEF Accepted, Reached
  <2>5. QED
    BY <2>1, <2>3, <2>4 DEF RouteInv, OnlyAccepted, RightQueues
<1>9. CASE UNCHANGED vars
  BY <1>1, <1>2, <1>9 DEF vars, broker
<1>10. QED
  BY <1>4, <1>5, <1>6, <1>7, <1>8, <1>9 DEF Next

LEMMA RouteInvAlways == Spec => []RouteInv
<1>1. Init => RouteInv
  <2> SUFFICES ASSUME Init PROVE OnlyAccepted /\ RightQueues
    BY InitTyped DEF RouteInv
  <2>1. Accepted = {} /\ \A r \in Request : Reached(r) = {}
    BY DEF Init, Accepted, Reached
  <2>2. QED
    BY <2>1 DEF Init, OnlyAccepted, RightQueues
<1>2. QED
  BY <1>1, RouteInvStep, PTL DEF Spec

\* The routes of src/queues and of the controllers: whatever is refused, lost
\* or restarted, no queue gets a message meant for another worker.
THEOREM RightQueuesHolds == Spec => []RightQueues
<1>1. RouteInv => RightQueues
  BY DEF RouteInv
<1>2. QED
  BY <1>1, RouteInvAlways, PTL

\* sendError(): of a request answered 4xx nothing is in a queue, on a
\* connection or lost, whatever happens to its process.
THEOREM RefusedLeavesNothingHolds == Spec => []RefusedLeavesNothing
<1>1. RouteInv => RefusedLeavesNothing
  <2> SUFFICES ASSUME RouteInv, NEW r \in Request, answer[r] = "refused"
               PROVE  ~InTransit(r) /\ Reached(r) = {} /\ r \notin lost
    BY DEF RefusedLeavesNothing
  <2>1. r \notin Accepted
    BY DEF Accepted
  <2>2. QED
    BY <2>1, WiresAreAccepted DEF RouteInv, OnlyAccepted, InTransit, Reached
<1>2. QED
  BY <1>1, RouteInvAlways, PTL

-----------------------------------------------------------------------------
(* What is accepted arrives, if nothing fails *)

Calm == faults = 0 /\ misfits = {}

\* Where a process has a channel, and where it has something on it.
Linked(p) ==
  /\ phase[p] \in {"setup", "listening"} => chan[p] = "open"
  /\ phase[p] = "stopping" => chan[p] = "closing"
  /\ phase[p] \in {"down", "setup", "stopped"} => wire[p] = <<>>

\* A binding is there, or this start will ask for it.
Wanted(p, b) ==
  \/ b \in bindings
  \/ Rpc("assert", b[1], <<>>) \in ToSet(pending[p])
  \/ Rpc("bind", b[1], b[2]) \in ToSet(pending[p])

Bound(p) ==
  /\ phase[p] = "setup" =>
       \/ pending[p] = <<ExchangeRpc>>
       \/ exchange /\ \A b \in DeclaredBindings : Wanted(p, b)
  /\ Serving(p) => exchange /\ DeclaredBindings \subseteq bindings

OnItsWay(r) == \E p \in Web : Serving(p) /\ r \in ToSet(wire[p])
Arrived == \A r \in Accepted : OnItsWay(r) \/ Reached(r) = MeantQueues(handler[r])

CalmInv == RouteInv /\ (Calm => (\A p \in Web : Linked(p) /\ Bound(p)) /\ Arrived)

LEMMA ToSetConcat ==
  ASSUME NEW S, NEW s \in Seq(S), NEW t \in Seq(S)
  PROVE  ToSet(s) \subseteq ToSet(s \o t) /\ ToSet(t) \subseteq ToSet(s \o t)
<1>1. /\ DOMAIN (s \o t) = 1..(Len(s) + Len(t))
      /\ DOMAIN s = 1..Len(s) /\ DOMAIN t = 1..Len(t)
      /\ Len(s) \in Nat /\ Len(t) \in Nat
      /\ \A i \in DOMAIN s : (s \o t)[i] = s[i]
  OBVIOUS
<1>2. ASSUME NEW i \in DOMAIN t
      PROVE  Len(s) + i \in DOMAIN (s \o t) /\ (s \o t)[Len(s) + i] = t[i]
  BY <1>1
<1>3. ASSUME NEW i \in DOMAIN s
      PROVE  i \in DOMAIN (s \o t)
  BY <1>1
<1>4. QED
  BY <1>1, <1>2, <1>3 DEF ToSet

\* Nothing that is a fault has happened before, nor happens now.
LEMMA CalmBefore ==
  ASSUME TypeOK, [Next]_vars, Calm'
  PROVE  Calm /\ ~Fault
<1>1. faults \in Nat
  BY FaultAssumption DEF TypeOK
<1>2. ~Fault
  BY <1>1 DEF Fault, Calm
<1>3. CASE UNCHANGED vars
  BY <1>2, <1>3 DEF vars, broker, Calm
<1>4. ASSUME NEW p \in Web, Start(p) \/ Startup(p)
      PROVE  UNCHANGED <<faults, misfits>>
  BY <1>4 DEF Start, Startup, AssertExchange, AssertQueue, AssertRefused, BindQueue, Listen, broker
<1>5. ASSUME NEW p \in Web, NEW r \in Request,
             TurnAway(p, r) \/ \E h \in Handlers : Handle(p, r, h)
      PROVE  UNCHANGED <<faults, misfits>>
  BY <1>5 DEF TurnAway, Handle, RejectInvalid, Accept, AcceptUnpublished, FailToPublish, broker
<1>6. ASSUME NEW p \in Web, Link(p) \/ Transit(p) \/ Stop(p) \/ Stopped(p)
      PROVE  UNCHANGED <<faults, misfits>>
  BY <1>6 DEF Link, NoticeCut, Recover, Transit, Route, RouteRefused, Stop, Stopped, broker
<1>7. \A p \in Web : ~Cut(p) /\ ~Crash(p)
  BY <1>2 DEF Cut, Crash
<1>8. ~BrokerLost
  BY <1>2 DEF BrokerLost
<1>9. CASE Next
  BY <1>2, <1>4, <1>5, <1>6, <1>7, <1>8, <1>9 DEF Next, Calm
<1>10. QED
  BY <1>3, <1>9

CalmState == TypeOK /\ OnlyAccepted /\ RightQueues /\ Calm /\ Arrived
               /\ \A p \in Web : Linked(p) /\ Bound(p)

\* A start: what it wants, it keeps wanting until it has it.
LEMMA StartCalm ==
  ASSUME CalmState, NEW p \in Web, Start(p) \/ Startup(p)
  PROVE  (\A w \in Web : Linked(w)' /\ Bound(w)') /\ Arrived'
<1>a. /\ phase \in [Web -> {"down", "setup", "listening", "stopping", "stopped"}]
      /\ chan \in [Web -> {"open", "cut", "closing", "closed"}]
      /\ pending \in [Web -> Seq(PendingRpc)]
  BY DEF CalmState, TypeOK
<1>b. Linked(p) /\ Bound(p)
  BY DEF CalmState
<1>c. UNCHANGED <<wire, stored, answer, handler>>
  BY DEF Start, Startup, AssertExchange, AssertQueue, AssertRefused, BindQueue, Listen, broker
<1>d. \A w \in Web \ {p} :
        phase'[w] = phase[w] /\ chan'[w] = chan[w] /\ pending'[w] = pending[w]
  BY <1>a DEF Start, Startup, AssertExchange, AssertQueue, AssertRefused, BindQueue,
              Listen, ChannelKilled
<1>e. bindings \subseteq bindings' /\ (exchange => exchange')
  <2>1. CASE AssertExchange(p)
    BY <2>1 DEF AssertExchange
  <2>2. CASE BindQueue(p)
    BY <2>2 DEF BindQueue
  <2>3. CASE Start(p) \/ AssertQueue(p) \/ AssertRefused(p) \/ Listen(p)
    <3>1. UNCHANGED <<bindings, exchange>>
      BY <2>3 DEF Start, AssertQueue, AssertRefused, Listen, broker
    <3>2. QED
      BY <3>1
  <2>4. QED
    BY <2>1, <2>2, <2>3 DEF Startup
<1>f. ASSUME NEW w \in Web \ {p}
      PROVE  Linked(w)' /\ Bound(w)'
  BY <1>c, <1>d, <1>e DEF CalmState, Linked, Bound, Wanted, Serving
<1>g. \A w \in Web : Serving(w) => Serving(w)'
  BY <1>a, <1>d DEF Start, Startup, AssertExchange, AssertQueue, AssertRefused, BindQueue,
                   Listen, Serving
<1>h. Arrived'
  <2>1. Accepted' = Accepted /\ \A r \in Request : Reached(r)' = Reached(r)
    BY <1>c DEF Accepted, Reached
  <2>2. \A r \in Request : OnItsWay(r) => OnItsWay(r)'
    BY <1>c, <1>g DEF OnItsWay
  <2>3. QED
    BY <1>c, <2>1, <2>2 DEF CalmState, Arrived, Accepted
<1>1. CASE Start(p)
  BY <1>1, <1>a, <1>b, <1>c, <1>f, <1>h DEF Start, Linked, Bound, Serving
<1>2. ASSUME phase' = phase, chan' = chan,
             phase[p] = "setup" => exchange' /\ \A b \in DeclaredBindings : Wanted(p, b)'
      PROVE  Linked(p)' /\ Bound(p)'
  BY <1>2, <1>b, <1>c, <1>e DEF Linked, Bound, Serving
<1>3. CASE AssertExchange(p)
  <2>1. phase' = phase /\ chan' = chan /\ exchange' /\ pending'[p] = AssertRpcs
    BY <1>3, <1>a DEF AssertExchange
  <2>2. \A b \in DeclaredBindings : Rpc("assert", b[1], <<>>) \in ToSet(AssertRpcs)
    BY RoutesAreWords, AssertRpcsTyped DEF ToSet
  <2>3. QED
    BY <1>2, <1>f, <1>h, <2>1, <2>2 DEF Wanted
<1>4. CASE AssertQueue(p)
  <2> DEFINE q == Head(pending[p]).queue
             rest == Tail(pending[p])
  <2>1. /\ Head(pending[p]) \in PendingRpc /\ Head(pending[p]).op = "assert"
        /\ pending[p] # <<>> /\ rest \in Seq(PendingRpc)
    BY <1>4, <1>a DEF AssertQueue, Serves
  <2>2. q \in Queue
    BY <2>1, PendingKinds
  <2>3. BindRpcs(q) \in Seq(PendingRpc)
    BY <2>2, BindRpcsTyped
  <2>4. /\ phase' = phase /\ chan' = chan /\ UNCHANGED <<bindings, exchange>>
        /\ pending'[p] = rest \o BindRpcs(q)
    BY <1>4, <1>a DEF AssertQueue
  <2>5. pending[p] # <<ExchangeRpc>>
    <3>1. Head(<<ExchangeRpc>>) = ExchangeRpc
      OBVIOUS
    <3>2. ExchangeRpc.op = "exchange"
      BY DEF ExchangeRpc, Rpc
    <3>3. QED
      BY <2>1, <3>1, <3>2
  <2>6. ToSet(pending[p]) = {Head(pending[p])} \cup ToSet(rest)
    BY <1>a, <2>1, ToSetTail
  <2>7. ToSet(rest) \subseteq ToSet(pending'[p]) /\ ToSet(BindRpcs(q)) \subseteq ToSet(pending'[p])
    BY <2>1, <2>3, <2>4, ToSetConcat
  <2>8. ASSUME NEW b \in DeclaredBindings, Wanted(p, b)
        PROVE  Wanted(p, b)'
    <3>1. CASE Rpc("assert", b[1], <<>>) = Head(pending[p])
      <4>1. b[1] = q
        BY <3>1 DEF Rpc
      <4>2. Rpc("bind", b[1], b[2]) \in ToSet(BindRpcs(q))
        BY <2>2, <4>1, BindRpcsTyped DEF ToSet
      <4>3. QED
        BY <2>7, <4>2 DEF Wanted
    <3>2. CASE Rpc("bind", b[1], b[2]) = Head(pending[p])
      BY <2>1, <3>2 DEF Rpc
    <3>3. QED
      BY <2>4, <2>6, <2>7, <2>8, <3>1, <3>2 DEF Wanted
  <2>9. QED
    BY <1>2, <1>b, <1>f, <1>h, <2>4, <2>5, <2>8 DEF Bound
<1>5. CASE AssertRefused(p)
  BY <1>5 DEF AssertRefused, CalmState, Calm
<1>6. CASE BindQueue(p)
  <2> DEFINE b0 == <<Head(pending[p]).queue, Head(pending[p]).route>>
             rest == Tail(pending[p])
  <2>1. /\ Head(pending[p]) \in PendingRpc /\ Head(pending[p]).op = "bind"
        /\ pending[p] # <<>> /\ rest \in Seq(PendingRpc)
    BY <1>6, <1>a DEF BindQueue, Serves
  <2>2. /\ phase' = phase /\ chan' = chan /\ exchange' = exchange
        /\ bindings' = bindings \cup {b0} /\ pending'[p] = rest
    BY <1>6, <1>a DEF BindQueue
  <2>3. pending[p] # <<ExchangeRpc>>
    <3>1. Head(<<ExchangeRpc>>) = ExchangeRpc
      OBVIOUS
    <3>2. ExchangeRpc.op = "exchange"
      BY DEF ExchangeRpc, Rpc
    <3>3. QED
      BY <2>1, <3>1, <3>2
  <2>4. ToSet(pending[p]) = {Head(pending[p])} \cup ToSet(rest)
    BY <1>a, <2>1, ToSetTail
  <2>5. ASSUME NEW b \in DeclaredBindings, Wanted(p, b)
        PROVE  Wanted(p, b)'
    <3>1. CASE Rpc("bind", b[1], b[2]) = Head(pending[p])
      <4>1. b0 = <<b[1], b[2]>>
        BY <3>1 DEF Rpc
      <4>2. b \in bindings'
        BY <2>2, <4>1, RoutesAreWords
      <4>3. QED
        BY <4>2 DEF Wanted
    <3>2. CASE Rpc("assert", b[1], <<>>) = Head(pending[p])
      BY <2>1, <3>2 DEF Rpc
    <3>3. QED
      BY <2>2, <2>4, <2>5, <3>1, <3>2 DEF Wanted
  <2>6. QED
    BY <1>2, <1>b, <1>f, <1>h, <2>2, <2>3, <2>5 DEF Bound
<1>7. CASE Listen(p)
  <2>1. /\ phase[p] = "setup" /\ pending[p] = <<>> /\ phase'[p] = "listening"
        /\ UNCHANGED <<chan, bindings, exchange>>
    BY <1>7, <1>a DEF Listen, broker
  <2>2. ToSet(pending[p]) = {} /\ pending[p] # <<ExchangeRpc>>
    BY <2>1 DEF ToSet
  <2>3. exchange /\ DeclaredBindings \subseteq bindings
    BY <1>b, <2>1, <2>2 DEF Bound, Wanted
  <2>4. QED
    BY <1>b, <1>c, <1>f, <1>h, <2>1, <2>3 DEF Linked, Bound, Serving
<1>8. QED
  BY <1>1, <1>3, <1>4, <1>5, <1>6, <1>7 DEF Startup

\* A request: what is answered 2xx is on its way, or meant for no queue.
LEMMA HandleCalm ==
  ASSUME CalmState, NEW p \in Web, NEW r \in Request,
         TurnAway(p, r) \/ \E h \in Handlers : Handle(p, r, h)
  PROVE  (\A w \in Web : Linked(w)' /\ Bound(w)') /\ Arrived'
<1>1. Linked(p) /\ Bound(p) /\ Serving(p)
  BY DEF CalmState, TurnAway, Handle, RejectInvalid, Accept, AcceptUnpublished, FailToPublish
<1>2. PICK h \in Handlers \cup {NoHandler}, a \in {"queued", "refused"} :
        /\ Answered(r, h, a)
        /\ \/ a = "refused" /\ UNCHANGED wire
           \/ a = "queued" /\ h \in Handlers /\ h.route = <<>> /\ UNCHANGED wire
           \/ /\ a = "queued" /\ chan[p] = "open"
              /\ wire' = [wire EXCEPT ![p] = Append(@, r)]
        /\ UNCHANGED <<phase, chan, pending, bindings, exchange, stored>>
  <2>1. CASE TurnAway(p, r)
    BY <2>1 DEF TurnAway, process, broker
  <2>2. ASSUME NEW h \in Handlers, Handle(p, r, h), ~Accept(p, r, h)
        PROVE  \E a \in {"queued", "refused"} :
                 /\ Answered(r, h, a)
                 /\ a = "refused" \/ h.route = <<>>
                 /\ UNCHANGED <<process, broker>>
    BY <2>2 DEF Handle, RejectInvalid, AcceptUnpublished, FailToPublish
  <2>3. ASSUME NEW h \in Handlers, Accept(p, r, h)
        PROVE  /\ Answered(r, h, "queued") /\ chan[p] = "open"
               /\ wire' = [wire EXCEPT ![p] = Append(@, r)]
               /\ UNCHANGED <<phase, chan, pending, bindings, exchange, stored>>
    BY <1>1, <2>3 DEF Accept, CanPublish, Linked, Serving, broker
  <2>4. QED
    BY <2>1, <2>2, <2>3 DEF process, broker
<1>3. /\ answer[r] = "none"
      /\ answer' = [answer EXCEPT ![r] = a]
      /\ handler' = [handler EXCEPT ![r] = h]
  BY <1>2 DEF Answered
<1>4. /\ answer \in [Request -> {"none", "queued", "refused"}]
      /\ handler \in [Request -> Handlers \cup {NoHandler}]
      /\ wire \in [Web -> Seq(Accepted)]
  BY DEF CalmState, TypeOK, Accepted
<1>5. /\ \A x \in Request \ {r} : answer'[x] = answer[x] /\ handler'[x] = handler[x]
      /\ answer'[r] = a /\ handler'[r] = h
  BY <1>3, <1>4
<1>6. \A w \in Web \ {p} : wire'[w] = wire[w]
  BY <1>2, <1>4
<1>7. \A w \in Web : Linked(w)' /\ Bound(w)'
  BY <1>1, <1>2, <1>6 DEF CalmState, Linked, Bound, Wanted, Serving
<1>8. ASSUME NEW w \in Web
      PROVE  ToSet(wire[w]) \subseteq ToSet(wire'[w])
  <2>1. wire'[w] = wire[w] \/ wire'[w] = Append(wire[w], r)
    BY <1>2, <1>4
  <2>2. wire[w] \in Seq(Accepted)
    BY <1>4
  <2>3. QED
    BY <2>1, <2>2, ToSetAppend
<1>9. \A x \in Request : Reached(x)' = Reached(x) /\ (OnItsWay(x) => OnItsWay(x)')
  BY <1>2, <1>8 DEF Reached, OnItsWay, Serving
<1>10. ASSUME NEW x \in Accepted'
       PROVE  OnItsWay(x)' \/ Reached(x)' = MeantQueues(handler'[x])
  <2>1. CASE x # r
    BY <1>5, <1>9, <1>10, <2>1 DEF CalmState, Arrived, Accepted
  <2>2. CASE x = r /\ UNCHANGED wire
    <3>1. h \in Handlers /\ h.route = <<>>
      <4>1. a = "queued"
        BY <1>5, <1>10, <2>2 DEF Accepted
      <4>2. r \notin ToSet(wire[p])
        BY <1>3, WiresAreAccepted DEF Accepted, CalmState
      <4>3. ~(wire' = [wire EXCEPT ![p] = Append(@, r)])
        BY <1>4, <2>2, <4>2, ToSetAppend
      <4>4. QED
        BY <1>2, <4>1, <4>3
    <3>2. MeantQueues(h) = {}
      <4>1. \A b \in DeclaredBindings : ~Matches(b[2], h.route)
        BY <3>1, RoutesAreWords DEF Matches
      <4>2. QED
        BY <3>1, <4>1, RoutesReach
    <3>3. Reached(r) = {}
      BY <1>3 DEF CalmState, OnlyAccepted, Accepted, Reached
    <3>4. QED
      BY <1>5, <1>9, <1>10, <2>2, <3>2, <3>3
  <2>3. CASE x = r /\ wire' = [wire EXCEPT ![p] = Append(@, r)]
    <3>1. r \in ToSet(wire'[p])
      BY <1>4, <2>3, ToSetAppend
    <3>2. QED
      BY <1>1, <1>2, <2>3, <3>1 DEF OnItsWay, Serving
  <2>4. QED
    BY <1>2, <2>1, <2>2, <2>3
<1>11. QED
  BY <1>7, <1>10 DEF Arrived

\* The broker and the stop: a message taken off a connection reaches all its
\* queues, for its process has bound them before it served.
LEMMA LinkCalm ==
  ASSUME CalmState, NEW p \in Web, Link(p) \/ Transit(p) \/ Stop(p) \/ Stopped(p)
  PROVE  (\A w \in Web : Linked(w)' /\ Bound(w)') /\ Arrived'
<1>a. /\ phase \in [Web -> {"down", "setup", "listening", "stopping", "stopped"}]
      /\ chan \in [Web -> {"open", "cut", "closing", "closed"}]
      /\ pending \in [Web -> Seq(PendingRpc)]
      /\ wire \in [Web -> Seq(Accepted)]
  BY DEF CalmState, TypeOK, Accepted
<1>b. Linked(p) /\ Bound(p)
  BY DEF CalmState
<1>c. wire[p] # <<>> => exchange /\ DeclaredBindings \subseteq bindings /\ Serving(p)
  BY <1>a, <1>b DEF Linked, Bound, Serving
<1>1. ASSUME UNCHANGED <<wire, stored, answer, handler>>,
             \A w \in Web : wire[w] # <<>> => (Serving(w) => Serving(w)')
      PROVE  Arrived'
  <2>1. Accepted' = Accepted /\ \A r \in Request : Reached(r)' = Reached(r)
    BY <1>1 DEF Accepted, Reached
  <2>2. \A r \in Request : OnItsWay(r) => OnItsWay(r)'
    BY <1>1 DEF OnItsWay, ToSet
  <2>3. QED
    BY <1>1, <2>1, <2>2 DEF CalmState, Arrived, Accepted
<1>2. CASE NoticeCut(p)
  <2>1. /\ phase' = phase /\ UNCHANGED <<wire, stored, answer, handler, bindings, exchange>>
        /\ phase[p] \notin {"setup", "listening", "stopping"}
        /\ \A w \in Web \ {p} : chan'[w] = chan[w] /\ pending'[w] = pending[w]
    BY <1>2, <1>a, <1>b DEF NoticeCut, ChannelKilled, Linked, broker
  <2>2. \A w \in Web : Linked(w)' /\ Bound(w)'
    BY <2>1 DEF CalmState, Linked, Bound, Wanted, Serving
  <2>3. QED
    BY <1>1, <2>1, <2>2 DEF Serving
<1>3. CASE Recover(p)
  BY <1>3, <1>b DEF Recover, Serving, Linked
<1>4. CASE Route(p)
  <2>1. PICK x : x = Head(wire[p])
    OBVIOUS
  <2>2. /\ wire[p] # <<>> /\ wire' = [wire EXCEPT ![p] = Tail(@)]
        /\ UNCHANGED <<phase, chan, pending, bindings, exchange, answer, handler>>
    BY <1>4 DEF Route
  <2>3. /\ x \in Accepted
        /\ \A r \in Request \ {x} : Reached(r)' = Reached(r)
        /\ Reached(x)' = Reached(x) \cup BoundTo(handler[x].route)
    BY <1>4, <2>1, RouteRoutes DEF CalmState, RouteInv
  <2>4. Reached(x)' = MeantQueues(handler[x])
    <3>1. handler[x] \in Handlers /\ x \in Request
      BY <2>3 DEF CalmState, OnlyAccepted, Accepted
    <3>2. BoundTo(handler[x].route) = MeantQueues(handler[x])
      BY <1>c, <2>2, <3>1, BoundIsMeant DEF CalmState, TypeOK
    <3>3. Reached(x) \subseteq MeantQueues(handler[x])
      BY <3>1 DEF CalmState, RightQueues
    <3>4. QED
      BY <2>3, <3>2, <3>3
  <2>5. \A w \in Web : ToSet(wire[w]) \ {x} \subseteq ToSet(wire'[w])
    <3>1. ToSet(wire[p]) = {Head(wire[p])} \cup ToSet(Tail(wire[p]))
      BY <1>a, <2>2, ToSetTail
    <3>2. QED
      BY <1>a, <2>1, <2>2, <3>1
  <2>6. Accepted' = Accepted
    BY <2>2 DEF Accepted
  <2>7. ASSUME NEW r \in Accepted
        PROVE  OnItsWay(r)' \/ Reached(r)' = MeantQueues(handler'[r])
    <3>1. CASE r = x
      BY <2>2, <2>4, <3>1
    <3>2. CASE r # x
      <4>1. OnItsWay(r) => OnItsWay(r)'
        BY <2>2, <2>5, <3>2 DEF OnItsWay, Serving
      <4>2. QED
        BY <2>2, <2>3, <2>7, <3>2, <4>1 DEF CalmState, Arrived, Accepted
    <3>3. QED
      BY <3>1, <3>2
  <2>8. \A w \in Web \ {p} : wire'[w] = wire[w]
    BY <1>a, <2>2
  <2>9. \A w \in Web : Linked(w)' /\ Bound(w)'
    BY <1>b, <1>c, <2>2, <2>8 DEF CalmState, Linked, Bound, Wanted, Serving
  <2>10. QED
    BY <2>6, <2>7, <2>9 DEF Arrived
<1>5. CASE RouteRefused(p)
  BY <1>5, <1>c DEF RouteRefused
<1>6. CASE Stop(p) \/ Stopped(p)
  <2>1. /\ UNCHANGED <<wire, stored, answer, handler, bindings, exchange, pending>>
        /\ \A w \in Web \ {p} : phase'[w] = phase[w] /\ chan'[w] = chan[w]
    BY <1>6, <1>a DEF Stop, Stopped, broker
  <2>2. \/ phase[p] = "listening" /\ phase'[p] = "stopping" /\ chan'[p] = "closing"
        \/ phase[p] = "stopping" /\ phase'[p] = "stopped" /\ wire[p] = <<>>
    BY <1>6, <1>a, <1>b DEF Stop, Stopped, Linked
  <2>3. \A w \in Web : Linked(w)' /\ Bound(w)'
    BY <1>b, <2>1, <2>2 DEF CalmState, Linked, Bound, Wanted, Serving
  <2>4. \A w \in Web : wire[w] # <<>> => (Serving(w) => Serving(w)')
    BY <2>1, <2>2 DEF Serving
  <2>5. QED
    BY <1>1, <2>1, <2>3, <2>4
<1>7. QED
  BY <1>2, <1>3, <1>4, <1>5, <1>6 DEF Link, Transit

LEMMA CalmInvStep == CalmInv /\ [Next]_vars => CalmInv'
<1> SUFFICES ASSUME CalmInv, [Next]_vars, Calm'
             PROVE  (\A p \in Web : Linked(p)' /\ Bound(p)') /\ Arrived'
  BY RouteInvStep DEF CalmInv
<1>1. CalmState /\ ~Fault
  BY CalmBefore DEF CalmInv, CalmState, RouteInv
<1>2. CASE UNCHANGED vars
  <2>1. Accepted' = Accepted /\ \A r \in Request : Reached(r)' = Reached(r) /\ OnItsWay(r)' = OnItsWay(r)
    BY <1>2 DEF vars, process, broker, Accepted, Reached, OnItsWay, Serving
  <2>2. Arrived'
    BY <1>1, <1>2, <2>1 DEF CalmState, Arrived, vars, Accepted
  <2>3. \A p \in Web : Linked(p)' /\ Bound(p)'
    BY <1>1, <1>2 DEF CalmState, vars, process, broker, Linked, Bound, Wanted, Serving
  <2>4. QED
    BY <2>2, <2>3
<1>3. \A p \in Web : ~Cut(p) /\ ~Crash(p)
  BY <1>1 DEF Cut, Crash
<1>4. ~BrokerLost
  BY <1>1 DEF BrokerLost
<1>5. CASE Next
  BY <1>1, <1>3, <1>4, <1>5, StartCalm, HandleCalm, LinkCalm DEF Next
<1>6. QED
  BY <1>2, <1>5

\* Answered 2xx is in transit or in every queue it is meant for: the start of
\* BlinkWebApp binds before it listens, its stop flushes before it ends.
THEOREM AcceptedArrivesHolds == Spec => []AcceptedArrives
<1>1. Init => CalmInv
  <2> SUFFICES ASSUME Init
               PROVE  RouteInv /\ (\A p \in Web : Linked(p) /\ Bound(p)) /\ Arrived
    BY DEF CalmInv
  <2>1. Accepted = {} /\ \A r \in Request : Reached(r) = {}
    BY DEF Init, Accepted, Reached
  <2>2. RouteInv
    BY <2>1, InitTyped DEF Init, RouteInv, OnlyAccepted, RightQueues
  <2>3. Arrived
    BY <2>1 DEF Arrived
  <2>4. QED
    BY <2>2, <2>3 DEF Init, Linked, Bound, Serving
<1>2. CalmInv => AcceptedArrives
  BY DEF CalmInv, Calm, Arrived, OnItsWay, Accepted, AcceptedArrives
<1>3. QED
  BY <1>1, <1>2, CalmInvStep, PTL DEF Spec

=============================================================================
