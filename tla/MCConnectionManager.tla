------------------------ MODULE MCConnectionManager ------------------------
(* ConnectionManager for TLC, and what its comments say of it.             *)
EXTENDS ConnectionManager

\* "Lock auto recovery to prevent auto-reconnect during disconnection"
\* (RabbitMQConnectionManager.js:69): a stopped application is offline.
StopPreventsReconnect == pc[Main] = "stopped" => ~connected
=============================================================================
