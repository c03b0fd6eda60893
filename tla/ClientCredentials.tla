--------------------------- MODULE ClientCredentials ---------------------------
(***************************************************************************)
(* The OAuth token that IdentityService hands to the workers' Northstar    *)
(* calls: fetched by setup(), watched by a ticker, renewed ahead of its    *)
(* expiry, and fetched again, with pauses, for as long as that fails.      *)
(*                                                                         *)
(* Time passes in units of tickerInterval.  A chain is a call of           *)
(* renewToken() with the calls that its 'token-error' events lead to.      *)
(***************************************************************************)
EXTENDS Integers

CONSTANTS
  Chain,                 \* identities of chains
  Lifetime,              \* expires_in of the tokens the server grants
  RenewWindow,
  ReconnectWaitPeriod,
  MaxReconnectAttempts,
  Latency,               \* bound: how long a request takes
  MaxFailures            \* bound: failures in a row

ASSUME TimesAssumption ==
  /\ RenewWindow \in Nat /\ Lifetime \in Nat /\ RenewWindow < Lifetime
  /\ ReconnectWaitPeriod \in Nat \ {0} /\ Latency \in Nat
ASSUME AttemptsAssumption == MaxReconnectAttempts \in Nat /\ MaxFailures \in Nat

VARIABLES
  ready,               \* has the promise of setup() resolved?
  held,                \* is there a token?
  left,                \* until its expires_at
  valid,               \* until the server refuses it
  ticker,              \* is the interval timer set?
  tickDue,             \* has its time come?
  reconnectAttempts,
  chain,               \* per chain: a request and its age, or a pause
  failures             \* failures since the last success

token == <<held, left, valid>>
vars == <<ready, token, ticker, tickDue, reconnectAttempts, chain, failures>>

Idle == [stage |-> "idle", time |-> 0]
Request == [stage |-> "request", time |-> 0]
Pause == [stage |-> "pause", time |-> ReconnectWaitPeriod]
ChainState == {Idle} \cup [stage : {"request"}, time : 0..Latency]
                     \cup [stage : {"pause"}, time : 0..ReconnectWaitPeriod]

Active == {c \in Chain : chain[c] # Idle}

\* IdentityService's constructor has called setup().
Init ==
  /\ ready = FALSE
  /\ held = FALSE /\ left = 0 /\ valid = 0
  /\ ticker = FALSE /\ tickDue = FALSE
  /\ reconnectAttempts = 0
  /\ failures = 0
  /\ \E c \in Chain : chain = [d \in Chain |-> IF d = c THEN Request ELSE Idle]

Down(n) == IF n > 0 THEN n - 1 ELSE 0

\* No unit passes over a timer that is due or an answer that is overdue.
Older(s) ==
  CASE s.stage = "idle"    -> s
    [] s.stage = "request" -> [s EXCEPT !.time = @ + 1]
    [] s.stage = "pause"   -> [s EXCEPT !.time = @ - 1]

TimePasses ==
  /\ ~tickDue
  /\ \A c \in Chain : Older(chain[c]) \in ChainState
  /\ chain' = [c \in Chain |-> Older(chain[c])]
  /\ left' = Down(left)
  /\ valid' = Down(valid)
  /\ tickDue' = ticker
  /\ UNCHANGED <<ready, held, ticker, reconnectAttempts, failures>>
\* Mutant: the renewal is started with the ticker still set.
RenewedWithTicker ==
  /\ tickDue
  /\ tickDue' = FALSE
  /\ IF left < RenewWindow
       THEN \E c \in Chain : chain[c] = Idle /\ chain' = [chain EXCEPT ![c] = Request]
       ELSE UNCHANGED chain
  /\ UNCHANGED <<ready, token, ticker, reconnectAttempts, failures>>

\* Mutant: the token is renewed when it has expired.
RenewedTooLate ==
  /\ tickDue
  /\ tickDue' = FALSE
  /\ IF left = 0
       THEN /\ ticker' = FALSE
            /\ \E c \in Chain : chain[c] = Idle /\ chain' = [chain EXCEPT ![c] = Request]
       ELSE UNCHANGED <<ticker, chain>>
  /\ UNCHANGED <<ready, token, reconnectAttempts, failures>>

\* The ticker fires.  clearTicker() takes effect before anything else runs.
RenewExpiredToken ==
  /\ tickDue
  /\ tickDue' = FALSE
  /\ IF left < RenewWindow
       THEN /\ ticker' = FALSE
            /\ \E c \in Chain : chain[c] = Idle /\ chain' = [chain EXCEPT ![c] = Request]
       ELSE UNCHANGED <<ticker, chain>>
  /\ UNCHANGED <<ready, token, reconnectAttempts, failures>>

\* What the server still grants of a token that old.
Remaining(age) == IF age < Lifetime THEN Lifetime - age ELSE 0

\* Mutant: setTicker() is not called again.
TokenSetUnwatched(c) ==
  /\ chain[c].stage = "request"
  /\ chain' = [chain EXCEPT ![c] = Idle]
  /\ ready' = TRUE
  /\ held' = TRUE
  /\ left' = Lifetime
  /\ \E age \in 0..chain[c].time : valid' = Remaining(age)
  /\ ticker' = ~held
  /\ reconnectAttempts' = 0
  /\ failures' = 0
  /\ UNCHANGED tickDue

\* renewToken() has a token: setToken(), and the 'token-set' listener.
\* The server counts from the moment it granted it, the client from now.
TokenSet(c) ==
  /\ chain[c].stage = "request"
  /\ chain' = [chain EXCEPT ![c] = Idle]
  /\ ready' = TRUE
  /\ held' = TRUE
  /\ left' = Lifetime
  /\ \E age \in 0..chain[c].time : valid' = Remaining(age)
  /\ ticker' = TRUE
  /\ reconnectAttempts' = 0
  /\ failures' = 0
  /\ UNCHANGED tickDue
\* Mutant: one attempt too many before the pause.
TokenErrorAtLimit(c) ==
  /\ chain[c].stage = "request"
  /\ failures < MaxFailures
  /\ failures' = failures + 1
  /\ ready' = TRUE
  /\ IF reconnectAttempts <= MaxReconnectAttempts
       THEN /\ reconnectAttempts' = reconnectAttempts + 1
            /\ chain' = [chain EXCEPT ![c] = Request]
       ELSE /\ chain' = [chain EXCEPT ![c] = Pause]
            /\ UNCHANGED reconnectAttempts
  /\ UNCHANGED <<token, ticker, tickDue>>

\* renewToken() fails: the 'token-error' listener calls reconnect().  The
\* promise of the call that failed resolves nevertheless.
TokenError(c) ==
  /\ chain[c].stage = "request"
  /\ failures < MaxFailures
  /\ failures' = failures + 1
  /\ ready' = TRUE
  /\ IF reconnectAttempts < MaxReconnectAttempts
       THEN /\ reconnectAttempts' = reconnectAttempts + 1
            /\ chain' = [chain EXCEPT ![c] = Request]
       ELSE /\ chain' = [chain EXCEPT ![c] = Pause]
            /\ UNCHANGED reconnectAttempts
  /\ UNCHANGED <<token, ticker, tickDue>>

PauseOver(c) ==
  /\ chain[c].stage = "pause"
  /\ chain[c].time = 0
  /\ reconnectAttempts' = 0
  /\ chain' = [chain EXCEPT ![c] = Request]
  /\ UNCHANGED <<ready, token, ticker, tickDue, failures>>

Next ==
  \/ TimePasses
  \/ RenewExpiredToken
  \/ \E c \in Chain : TokenSet(c) \/ TokenError(c) \/ PauseOver(c)

Spec == Init /\ [][Next]_vars

\* Time passes and timers fire; a request is answered within Latency, since
\* time does not pass without it.
Fairness ==
  /\ WF_vars(TimePasses)
  /\ WF_vars(RenewExpiredToken)
  /\ \A c \in Chain : WF_vars(TokenSet(c) \/ TokenError(c)) /\ WF_vars(PauseOver(c))

FairSpec == Spec /\ Fairness

-----------------------------------------------------------------------------
(* Properties *)

\* Every variable keeps its type; the server never honours a token longer
\* than the client believes it does.
TypeOK ==
  /\ ready \in BOOLEAN /\ held \in BOOLEAN
  /\ left \in 0..Lifetime /\ valid \in 0..left
  /\ ticker \in BOOLEAN /\ tickDue \in BOOLEAN
  /\ reconnectAttempts \in 0..MaxReconnectAttempts
  /\ chain \in [Chain -> ChainState]
  /\ failures \in 0..MaxFailures

\* Either the ticker watches the token or exactly one chain is renewing it:
\* clearTicker(), setTicker() and reconnect() neither start two renewals
\* side by side nor leave a token that nobody will renew.
OneGuardian ==
  IF ticker THEN Active = {} ELSE \E c \in Chain : Active = {c}

\* The longest a renewal can take, with all the failures and pauses allowed.
LongestRenewal ==
  (MaxFailures + 1) * Latency
    + (MaxFailures \div (MaxReconnectAttempts + 1)) * ReconnectWaitPeriod

\* The token getAuthHeader() hands out, once there is one, is one the server
\* accepts, if the renew window covers the longest renewal, and the time
\* the client's clock runs behind the server's.
HeaderValid == held /\ LongestRenewal + Latency + 1 < RenewWindow => valid > 0

\* A token that comes into its renew window is replaced.
Renewed == held /\ left < RenewWindow ~> left >= RenewWindow

=============================================================================
