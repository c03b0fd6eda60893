----------------------------- MODULE RetryQueue -----------------------------
(***************************************************************************)
(* What the delivery path promises to whoever publishes a message, without *)
(* channels, tags, tasks or timers.  A published message is in the queue   *)
(* or held by one worker, never both, until a worker has finished with it. *)
(* A retry returns it to the queue with one more attempt on its counter,   *)
(* at most RetryLimit times; whatever else returns it leaves the counter.  *)
(* A message may be given up early in one way only: lost while a retry of  *)
(* it was being republished.                                               *)
(***************************************************************************)
EXTENDS Naturals

CONSTANTS Msg, Worker, RetryLimit

VARIABLES
  published,    \* messages given to the broker
  queued,       \* messages waiting
  holds,        \* per worker: messages delivered to it and outstanding
  attempt,      \* per message: its retry counter, 0 once it is gone
  finished,     \* messages whose processing has ended at least once
  lost          \* messages that disappeared while being republished

vars == <<published, queued, holds, attempt, finished, lost>>

Init ==
  /\ published = {}
  /\ queued = {}
  /\ holds = [w \in Worker |-> {}]
  /\ attempt = [m \in Msg |-> 0]
  /\ finished = {}
  /\ lost = {}

Publish(m) ==
  /\ m \notin published
  /\ published' = published \cup {m}
  /\ queued' = queued \cup {m}
  /\ UNCHANGED <<holds, attempt, finished, lost>>

Take(w, m) ==
  /\ m \in queued
  /\ queued' = queued \ {m}
  /\ holds' = [holds EXCEPT ![w] = @ \cup {m}]
  /\ UNCHANGED <<published, attempt, finished, lost>>

\* Worker w loses its channel: all it holds goes back, unchanged.
PutBack(w) ==
  /\ queued' = queued \cup holds[w]
  /\ holds' = [holds EXCEPT ![w] = {}]
  /\ UNCHANGED <<published, attempt, finished, lost>>

\* w is done with m, and its answer removes m from the queue.
Settle(w, m) ==
  /\ m \in holds[w]
  /\ holds' = [holds EXCEPT ![w] = @ \ {m}]
  /\ attempt' = [attempt EXCEPT ![m] = 0]
  /\ finished' = finished \cup {m}
  /\ UNCHANGED <<published, queued, lost>>

\* w is done with m, but its answer is not the broker's any more: nothing
\* is removed, and at worst w loses its channel.
SettleLate(w, m) ==
  /\ m \in published
  /\ finished' = finished \cup {m}
  /\ \/ /\ queued' = queued \cup holds[w]
        /\ holds' = [holds EXCEPT ![w] = {}]
     \/ UNCHANGED <<queued, holds>>
  /\ UNCHANGED <<published, attempt, lost>>

Retry(w, m) ==
  /\ m \in holds[w]
  /\ attempt[m] < RetryLimit
  /\ holds' = [holds EXCEPT ![w] = @ \ {m}]
  /\ queued' = queued \cup {m}
  /\ attempt' = [attempt EXCEPT ![m] = @ + 1]
  /\ UNCHANGED <<published, finished, lost>>

LoseInRetry(w, m) ==
  /\ m \in holds[w]
  /\ queued' = queued \cup (holds[w] \ {m})
  /\ holds' = [holds EXCEPT ![w] = {}]
  /\ attempt' = [attempt EXCEPT ![m] = 0]
  /\ lost' = lost \cup {m}
  /\ UNCHANGED <<published, finished>>

Next ==
  \/ \E m \in Msg : Publish(m)
  \/ \E w \in Worker : PutBack(w)
  \/ \E w \in Worker, m \in Msg :
       Take(w, m) \/ Settle(w, m) \/ SettleLate(w, m) \/ Retry(w, m) \/ LoseInRetry(w, m)

Spec == Init /\ [][Next]_vars
=============================================================================
