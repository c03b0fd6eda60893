----------------------------- MODULE MCDelivery -----------------------------
(* Delivery for TLC: the symmetry of its messages and of its workers, and  *)
(* what the repository's comments and tests say of it, to be refuted.      *)
EXTENDS Delivery, TLC

Symmetry == Permutations(Msg) \cup Permutations(Worker)

\* Dequeuer.processCallbackResult(): "if the result is false, leave
\* unacked, so we retry later" (src/lib/Dequeuer.js:48).
LeftUnackedIsRetried ==
  \A w \in Worker, m \in Msg :
    (\E d \in left[w] : d.copy.msg = m) ~> ~(\E d \in left[w] : d.copy.msg = m)

\* enableAutoRecovery(): "we want the connection to be persistent. Useful
\* for living through RabbitMQ restarts" (RabbitMQConnectionManager.js:196):
\* a worker whose channel has been replaced consumes again.
LivesThroughRestarts ==
  \A w \in Worker :
    (boot[w] = "subscribed" /\ chan[w] = "down") ~> (boot[w] = "off" \/ consuming[w])
=============================================================================
