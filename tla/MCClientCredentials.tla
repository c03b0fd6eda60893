-------------------------- MODULE MCClientCredentials --------------------------
(* ClientCredentials for TLC, and what its callers say of it.              *)
EXTENDS ClientCredentials

\* "Check to make sure the strategy.setup has completed setting up"
\* (identity-service/index.js:38): getAuthHeader() goes on with a token.
ReadyMeansToken == ready => held
=============================================================================
