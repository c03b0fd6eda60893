---------------------------- MODULE MCRedisRetry ----------------------------
(* RedisRetry for TLC, and what a comment says of it.                      *)
EXTENDS RedisRetry

\* "When time has come, special Redis Retry Redelivery Worker will republish
\* it back to the `queue`" (RedisRetryDelayer.js:30-31): no member is stuck.
EverySavedLeaves == \A i \in Member : i \in saved ~> i \notin saved
=============================================================================
