----------------------- MODULE ClientCredentialsProofs -----------------------
(***************************************************************************)
(* Theorems about ClientCredentials, for all times and limits: what keeps  *)
(* a token watched, and how far its expiry can come near.  The argument    *)
(* for HeaderValid is a budget: of the time since the renewal began, every *)
(* failure takes at most a request's latency, and every full round of      *)
(* attempts one pause.                                                     *)
(***************************************************************************)
EXTENDS ClientCredentials, TLAPS

USE DEF token

Attempts == MaxReconnectAttempts + 1

LEMMA States ==
  /\ Request \in ChainState /\ Request # Idle
  /\ Pause \in ChainState /\ Pause # Idle
  /\ Idle \in ChainState
  /\ \A s \in ChainState :
       /\ s = Idle <=> s.stage = "idle"
       /\ s.stage = "request" => s.time \in 0..Latency
       /\ s.stage = "pause" => s.time \in 0..ReconnectWaitPeriod
       /\ s.stage \in {"idle", "request", "pause"}
BY TimesAssumption DEF ChainState, Request, Pause, Idle

LEMMA OlderStates ==
  ASSUME NEW s \in ChainState, Older(s) \in ChainState
  PROVE  /\ Older(s).stage = s.stage
         /\ s.stage = "request" => Older(s).time = s.time + 1
         /\ s.stage = "pause" => Older(s).time = s.time - 1
         /\ Older(s) = Idle <=> s = Idle
BY TimesAssumption DEF ChainState, Older, Idle

-----------------------------------------------------------------------------
(* Types *)

LEMMA InitTyped == Init => TypeOK
<1> SUFFICES ASSUME Init PROVE TypeOK
  OBVIOUS
<1>1. chain \in [Chain -> ChainState]
  BY States DEF Init
<1>2. ready \in BOOLEAN /\ held \in BOOLEAN /\ ticker \in BOOLEAN /\ tickDue \in BOOLEAN
  BY DEF Init
<1>3. left = 0 /\ valid = 0 /\ reconnectAttempts = 0 /\ failures = 0
  BY DEF Init
<1>4. left \in 0..Lifetime /\ valid \in 0..left
  BY <1>3, TimesAssumption
<1>5. reconnectAttempts \in 0..MaxReconnectAttempts /\ failures \in 0..MaxFailures
  BY <1>3, AttemptsAssumption
<1>6. QED
  BY <1>1, <1>2, <1>4, <1>5 DEF TypeOK

LEMMA StepTyped == TypeOK /\ [Next]_vars => TypeOK'
<1> SUFFICES ASSUME TypeOK, [Next]_vars PROVE TypeOK'
  OBVIOUS
<1> USE TimesAssumption, AttemptsAssumption
<1>1. CASE TimePasses
  BY <1>1 DEF TimePasses, TypeOK, Down
<1>2. CASE RenewExpiredToken
  BY <1>2, States DEF RenewExpiredToken, TypeOK
<1>3. ASSUME NEW c \in Chain, TokenSet(c) PROVE TypeOK'
  <2>1. PICK age \in 0..chain[c].time : valid' = Remaining(age)
    BY <1>3 DEF TokenSet
  <2>2. chain[c].time \in 0..Latency
    BY <1>3, States DEF TokenSet, TypeOK
  <2>3. left' = Lifetime /\ valid' \in 0..left'
    BY <1>3, <2>1, <2>2 DEF TokenSet, Remaining
  <2>4. QED
    BY <1>3, <2>3, States DEF TokenSet, TypeOK
<1>4. ASSUME NEW c \in Chain, TokenError(c) PROVE TypeOK'
  BY <1>4, States DEF TokenError, TypeOK
<1>5. ASSUME NEW c \in Chain, PauseOver(c) PROVE TypeOK'
  BY <1>5, States DEF PauseOver, TypeOK
<1>6. CASE UNCHANGED vars
  BY <1>6 DEF vars, TypeOK
<1>7. QED
  BY <1>1, <1>2, <1>3, <1>4, <1>5, <1>6 DEF Next

\* Every variable keeps its type, whatever the times and limits: above all, the
\* server never honours a token longer than its expires_at, set by the client's
\* clock when the token arrives, says.
THEOREM TypeCorrect == Spec => []TypeOK
<1>1. QED
  BY InitTyped, StepTyped, PTL DEF Spec

-----------------------------------------------------------------------------
(* One guardian *)

\* Only the ticker makes a tick due.
GuardInv == TypeOK /\ OneGuardian /\ (tickDue => ticker)

LEMMA InitGuard == Init => GuardInv
<1> SUFFICES ASSUME Init PROVE GuardInv
  OBVIOUS
<1>1. PICK c \in Chain : chain = [d \in Chain |-> IF d = c THEN Request ELSE Idle]
  BY DEF Init
<1>2. Active = {c}
  BY <1>1, States DEF Active
<1>3. QED
  BY <1>2, InitTyped DEF Init, GuardInv, OneGuardian

\* A chain takes its turns by itself, and ends with the ticker set.
LEMMA ChainsTurn ==
  ASSUME GuardInv, NEW c \in Chain, chain[c] # Idle, NEW s,
         chain' = [chain EXCEPT ![c] = s],
         IF s = Idle THEN ticker' ELSE ticker' = ticker
  PROVE  OneGuardian' /\ ticker = FALSE
<1>1. chain \in [Chain -> ChainState]
  BY DEF GuardInv, TypeOK
<1>2. ticker = FALSE /\ Active = {c}
  BY DEF GuardInv, OneGuardian, Active, TypeOK
<1>3. Active' = IF s = Idle THEN {} ELSE {c}
  BY <1>1, <1>2 DEF Active
<1>4. QED
  BY <1>2, <1>3 DEF OneGuardian

LEMMA StepGuard == GuardInv /\ [Next]_vars => GuardInv'
<1> SUFFICES ASSUME GuardInv, [Next]_vars PROVE GuardInv'
  OBVIOUS
<1>0. TypeOK' /\ TypeOK /\ chain \in [Chain -> ChainState]
  BY StepTyped DEF GuardInv, TypeOK
<1>1. CASE TimePasses
  <2>1. \A c \in Chain : chain'[c] = Idle <=> chain[c] = Idle
    BY <1>0, <1>1, OlderStates DEF TimePasses
  <2>2. Active' = Active
    BY <2>1 DEF Active
  <2>3. QED
    BY <1>0, <1>1, <2>2 DEF TimePasses, GuardInv, OneGuardian
<1>2. CASE RenewExpiredToken
  <2>1. CASE left < RenewWindow
    <3>1. PICK c \in Chain : chain[c] = Idle /\ chain' = [chain EXCEPT ![c] = Request]
      BY <1>2, <2>1 DEF RenewExpiredToken
    <3>2. Active = {} /\ ticker' = FALSE /\ tickDue' = FALSE
      BY <1>2, <2>1 DEF RenewExpiredToken, GuardInv, OneGuardian
    <3>3. Active' = {c}
      BY <1>0, <3>1, <3>2, States DEF Active
    <3>4. QED
      BY <1>0, <3>2, <3>3 DEF GuardInv, OneGuardian
  <2>2. CASE ~(left < RenewWindow)
    BY <1>0, <1>2, <2>2 DEF RenewExpiredToken, GuardInv, OneGuardian, Active
  <2>3. QED
    BY <2>1, <2>2
<1>3. ASSUME NEW c \in Chain, TokenSet(c) PROVE GuardInv'
  BY <1>0, <1>3, ChainsTurn, States DEF TokenSet, GuardInv
<1>4. ASSUME NEW c \in Chain, TokenError(c) PROVE GuardInv'
  <2>1. chain[c] # Idle /\ \E s \in {Request, Pause} : chain' = [chain EXCEPT ![c] = s]
    BY <1>0, <1>4, States DEF TokenError
  <2>2. OneGuardian'
    BY <1>4, <2>1, ChainsTurn, States DEF TokenError
  <2>3. QED
    BY <1>0, <1>4, <2>2 DEF TokenError, GuardInv
<1>5. ASSUME NEW c \in Chain, PauseOver(c) PROVE GuardInv'
  <2>1. chain[c] # Idle
    BY <1>0, <1>5, States DEF PauseOver
  <2>2. OneGuardian'
    BY <1>5, <2>1, ChainsTurn, States DEF PauseOver
  <2>3. QED
    BY <1>0, <1>5, <2>2 DEF PauseOver, GuardInv
<1>6. CASE UNCHANGED vars
  BY <1>0, <1>6 DEF vars, GuardInv, OneGuardian, Active
<1>7. QED
  BY <1>1, <1>2, <1>3, <1>4, <1>5, <1>6 DEF Next

\* At any moment either the ticker watches the token or exactly one call of
\* renewToken() or one pause of reconnect() is under way: the listeners of
\* 'token-set' and 'token-error' hand the token from one to the other.
THEOREM OneGuardianHolds == Spec => []OneGuardian
<1>1. GuardInv => OneGuardian
  BY DEF GuardInv
<1>2. QED
  BY <1>1, InitGuard, StepGuard, PTL DEF Spec

-----------------------------------------------------------------------------
(* The budget of a renewal *)

\* The server's clock is ahead of the client's by what a request takes.
NearlyAgreed == valid + Latency >= left

\* A watched token has not come into its renew window, or the tick is due.
Watched ==
  ticker => /\ held
            /\ failures = 0 /\ reconnectAttempts = 0
            /\ left >= RenewWindow - 1
            /\ ~tickDue => left >= RenewWindow

\* Since the renewal began there have been p pauses, the present one included,
\* and no more time has passed than the requests that failed, these pauses and
\* the present request can take.
Budget(s, p) ==
  /\ failures = p * Attempts + (IF s.stage = "request" THEN reconnectAttempts ELSE 0)
  /\ held => left + failures * Latency + p * ReconnectWaitPeriod
               + (IF s.stage = "request" THEN s.time ELSE -s.time) >= RenewWindow - 1
InBudget == \A c \in Active : \E p \in Nat : Budget(chain[c], p)

BudgetInv == GuardInv /\ NearlyAgreed /\ Watched /\ InBudget

LEMMA OneMore ==
  ASSUME NEW n \in Nat, NEW k \in Nat
  PROVE  /\ n * k \in Nat
         /\ (n + 1) * k = n * k + k
         /\ 0 * k = 0
OBVIOUS

LEMMA InitBudget == Init => BudgetInv
<1> SUFFICES ASSUME Init PROVE BudgetInv
  OBVIOUS
<1>1. left = 0 /\ valid = 0 /\ failures = 0 /\ reconnectAttempts = 0
  BY DEF Init
<1>2. ~held /\ ~ticker
  BY DEF Init
<1>3. \A c \in Active : chain[c] = Request
  BY DEF Init, Active
<1>4. Budget(Request, 0)
  BY <1>1, <1>2, AttemptsAssumption, OneMore DEF Budget, Request, Attempts
<1>5. InBudget
  BY <1>3, <1>4 DEF InBudget
<1>6. NearlyAgreed
  BY <1>1, TimesAssumption DEF NearlyAgreed
<1>7. QED
  BY <1>2, <1>5, <1>6, InitGuard DEF BudgetInv, Watched

\* The only chain that is active makes its step.
LEMMA OnlyChain ==
  ASSUME GuardInv, NEW c \in Chain, chain[c] # Idle, NEW s,
         chain' = [chain EXCEPT ![c] = s],
         s = Idle \/ \E p \in Nat : Budget(s, p)'
  PROVE  InBudget'
<1>1. Active = {c} /\ chain \in [Chain -> ChainState]
  BY DEF GuardInv, OneGuardian, Active, TypeOK
<1>2. \A d \in Active' : d = c /\ chain'[d] = s /\ s # Idle
  BY <1>1 DEF Active
<1>3. QED
  BY <1>2 DEF InBudget

\* The two clocks stay as near as they were.
LEMMA LaterStill ==
  ASSUME NEW v \in Nat, NEW l \in Nat, v + Latency >= l
  PROVE  Down(v) + Latency >= Down(l)
BY TimesAssumption DEF Down

LEMMA TimeBudget ==
  ASSUME BudgetInv, TypeOK', TimePasses
  PROVE  NearlyAgreed' /\ Watched' /\ InBudget'
<1>0. /\ left \in Nat /\ valid \in Nat /\ failures \in Nat /\ reconnectAttempts \in Nat
      /\ chain \in [Chain -> ChainState]
  BY TimesAssumption, AttemptsAssumption DEF BudgetInv, GuardInv, TypeOK
<1>1. /\ left' = Down(left) /\ valid' = Down(valid) /\ ~tickDue /\ tickDue' = ticker
      /\ UNCHANGED <<held, ticker, reconnectAttempts, failures>>
      /\ \A c \in Chain : chain'[c] = Older(chain[c]) /\ Older(chain[c]) \in ChainState
  BY <1>0 DEF TimePasses
<1>2. left' \in Nat /\ left' >= left - 1 /\ valid' >= valid - 1 /\ (left > 0 => left' = left - 1)
      /\ (left = 0 => left' = 0) /\ valid' \in Nat
  BY <1>0, <1>1 DEF Down
<1>3. NearlyAgreed'
  <2>1. valid + Latency >= left
    BY DEF BudgetInv, NearlyAgreed
  <2>2. valid' + Latency >= left'
    BY <1>0, <1>1, <2>1, LaterStill
  <2>3. QED
    BY <2>2 DEF NearlyAgreed
<1>4. Watched'
  <2> SUFFICES ASSUME ticker'
               PROVE  /\ held' /\ failures' = 0 /\ reconnectAttempts' = 0
                      /\ left' >= RenewWindow - 1 /\ tickDue'
    BY DEF Watched
  <2>1. ticker /\ held /\ failures = 0 /\ reconnectAttempts = 0 /\ left >= RenewWindow
    BY <1>1 DEF BudgetInv, Watched
  <2>2. left' >= RenewWindow - 1
    BY <1>0, <1>2, <2>1, TimesAssumption
  <2>3. QED
    BY <1>1, <2>1, <2>2
<1>5. ASSUME NEW c \in Active' PROVE \E p \in Nat : Budget(chain[c], p)'
  <2>1. c \in Active
    BY <1>0, <1>1, <1>5, OlderStates DEF Active
  <2>2. PICK p \in Nat : Budget(chain[c], p)
    BY <2>1 DEF BudgetInv, InBudget
  <2> DEFINE s == chain[c]
  <2>3. /\ s \in ChainState /\ s # Idle /\ chain'[c].stage = s.stage
        /\ s.stage = "request" => s.time \in Nat /\ chain'[c].time = s.time + 1
        /\ s.stage = "pause" => s.time \in Nat /\ chain'[c].time = s.time - 1
        /\ s.stage \in {"request", "pause"}
    BY <1>0, <1>1, <2>1, OlderStates, States DEF Active
  <2>4. failures * Latency \in Nat /\ p * ReconnectWaitPeriod \in Nat /\ p * Attempts \in Nat
    BY <1>0, OneMore, TimesAssumption, AttemptsAssumption DEF Attempts
  <2>5. failures' = p * Attempts + (IF chain'[c].stage = "request" THEN reconnectAttempts' ELSE 0)
    BY <1>1, <2>2, <2>3 DEF Budget
  <2>6. held' => left' + failures' * Latency + p * ReconnectWaitPeriod
               + (IF chain'[c].stage = "request" THEN chain'[c].time ELSE -chain'[c].time)
                   >= RenewWindow - 1
    <3> HIDE DEF s
    <3>1. held => left + failures * Latency + p * ReconnectWaitPeriod
               + (IF s.stage = "request" THEN s.time ELSE -s.time) >= RenewWindow - 1
      BY <2>2 DEF Budget, s
    <3>2. CASE s.stage = "request"
      BY <1>0, <1>1, <1>2, <2>3, <2>4, <3>1, <3>2, TimesAssumption
    <3>3. CASE s.stage = "pause"
      BY <1>0, <1>1, <1>2, <2>3, <2>4, <3>1, <3>3, TimesAssumption
    <3>4. QED
      BY <2>3, <3>2, <3>3
  <2>7. QED
    BY <2>5, <2>6 DEF Budget
<1>6. QED
  BY <1>3, <1>4, <1>5 DEF InBudget

LEMMA RenewBudget ==
  ASSUME BudgetInv, RenewExpiredToken
  PROVE  NearlyAgreed' /\ Watched' /\ InBudget'
<1>0. /\ left \in Nat /\ chain \in [Chain -> ChainState]
  BY TimesAssumption DEF BudgetInv, GuardInv, TypeOK
<1>1. /\ tickDue /\ ticker /\ Active = {} /\ ~tickDue'
      /\ held /\ failures = 0 /\ reconnectAttempts = 0 /\ left >= RenewWindow - 1
      /\ UNCHANGED <<held, left, valid, failures, reconnectAttempts>>
  BY DEF RenewExpiredToken, BudgetInv, GuardInv, OneGuardian, Watched
<1>2. NearlyAgreed'
  BY <1>1 DEF BudgetInv, NearlyAgreed
<1>3. CASE left < RenewWindow
  <2>1. ~ticker'
    BY <1>3 DEF RenewExpiredToken
  <2>2. PICK c \in Chain : chain' = [chain EXCEPT ![c] = Request]
    BY <1>3 DEF RenewExpiredToken
  <2>3. \A d \in Active' : chain'[d] = Request
    BY <1>0, <1>1, <2>2 DEF Active
  <2>4. Budget(Request, 0)'
    <3>1. 0 * Attempts = 0 /\ 0 * ReconnectWaitPeriod = 0 /\ 0 * Latency = 0
      BY OneMore, TimesAssumption, AttemptsAssumption DEF Attempts
    <3>2. Request.stage = "request" /\ Request.time = 0
      BY DEF Request
    <3>3. QED
      BY <1>0, <1>1, <3>1, <3>2, TimesAssumption DEF Budget
  <2>5. InBudget'
    BY <2>3, <2>4 DEF InBudget
  <2>6. QED
    BY <1>2, <2>1, <2>5 DEF Watched
<1>4. CASE ~(left < RenewWindow)
  <2>1. UNCHANGED <<ticker, chain>> /\ left >= RenewWindow
    BY <1>0, <1>4, TimesAssumption DEF RenewExpiredToken
  <2>2. Active' = {}
    BY <1>1, <2>1 DEF Active
  <2>3. QED
    BY <1>1, <1>2, <2>1, <2>2 DEF Watched, InBudget
<1>5. QED
  BY <1>3, <1>4

LEMMA TokenSetBudget ==
  ASSUME BudgetInv, NEW c \in Chain, TokenSet(c)
  PROVE  NearlyAgreed' /\ Watched' /\ InBudget'
<1>1. /\ chain[c] \in ChainState /\ chain[c].stage = "request"
      /\ chain[c].time \in 0..Latency /\ chain[c] # Idle
  BY States DEF BudgetInv, GuardInv, TypeOK, TokenSet
<1>2. PICK age \in 0..chain[c].time : valid' = Remaining(age)
  BY DEF TokenSet
<1>3. /\ left' = Lifetime /\ held' /\ failures' = 0 /\ reconnectAttempts' = 0
      /\ chain' = [chain EXCEPT ![c] = Idle]
  BY DEF TokenSet
<1>4. NearlyAgreed'
  BY <1>1, <1>2, <1>3, TimesAssumption DEF NearlyAgreed, Remaining
<1>5. InBudget'
  BY <1>1, <1>3, OnlyChain DEF BudgetInv
<1>6. left' >= RenewWindow
  BY <1>3, TimesAssumption
<1>7. left' >= RenewWindow - 1
  BY <1>3, TimesAssumption
<1>8. QED
  BY <1>3, <1>4, <1>5, <1>6, <1>7 DEF Watched

LEMMA TokenErrorBudget ==
  ASSUME BudgetInv, NEW c \in Chain, TokenError(c)
  PROVE  NearlyAgreed' /\ Watched' /\ InBudget'
<1>1. /\ chain[c] \in ChainState /\ chain[c].stage = "request"
      /\ chain[c].time \in 0..Latency /\ chain[c] # Idle
  BY States DEF BudgetInv, GuardInv, TypeOK, TokenError
<1>2. c \in Active
  BY <1>1 DEF Active
<1>3. ~ticker /\ UNCHANGED <<held, left, valid, ticker, tickDue>>
  BY <1>2 DEF BudgetInv, GuardInv, OneGuardian, TokenError
<1>4. /\ left \in Nat /\ failures \in Nat /\ failures' = failures + 1
      /\ reconnectAttempts \in 0..MaxReconnectAttempts
  BY TimesAssumption, AttemptsAssumption DEF BudgetInv, GuardInv, TypeOK, TokenError
<1>5. PICK p \in Nat : Budget(chain[c], p)
  BY <1>2 DEF BudgetInv, InBudget
<1>6. /\ failures * Latency \in Nat /\ (failures + 1) * Latency = failures * Latency + Latency
      /\ p * ReconnectWaitPeriod \in Nat
      /\ (p + 1) * ReconnectWaitPeriod = p * ReconnectWaitPeriod + ReconnectWaitPeriod
      /\ p * Attempts \in Nat /\ (p + 1) * Attempts = p * Attempts + Attempts
  BY <1>4, OneMore, TimesAssumption, AttemptsAssumption DEF Attempts
<1>7. /\ failures = p * Attempts + reconnectAttempts
      /\ held => left + failures * Latency + p * ReconnectWaitPeriod + chain[c].time
                   >= RenewWindow - 1
  BY <1>1, <1>5 DEF Budget
<1>8. NearlyAgreed' /\ Watched'
  BY <1>3 DEF BudgetInv, NearlyAgreed, Watched
<1>9. CASE reconnectAttempts < MaxReconnectAttempts
  <2>1. reconnectAttempts' = reconnectAttempts + 1 /\ chain' = [chain EXCEPT ![c] = Request]
    BY <1>9 DEF TokenError
  <2>2. failures' = p * Attempts + reconnectAttempts'
    BY <1>4, <1>6, <1>7, <2>1
  <2>3. held' => left' + failures' * Latency + p * ReconnectWaitPeriod + 0 >= RenewWindow - 1
    BY <1>1, <1>3, <1>4, <1>6, <1>7, TimesAssumption
  <2>4. Request.stage = "request" /\ Request.time = 0
    BY DEF Request
  <2>5. Budget(Request, p)'
    BY <2>2, <2>3, <2>4 DEF Budget
  <2>6. QED
    BY <1>1, <1>8, <2>1, <2>5, OnlyChain DEF BudgetInv
<1>10. CASE ~(reconnectAttempts < MaxReconnectAttempts)
  <2>1. reconnectAttempts = MaxReconnectAttempts /\ chain' = [chain EXCEPT ![c] = Pause]
    BY <1>4, <1>10, AttemptsAssumption DEF TokenError
  <2>2. failures' = (p + 1) * Attempts + 0
    BY <1>4, <1>6, <1>7, <2>1, AttemptsAssumption DEF Attempts
  <2>3. held' => left' + failures' * Latency + (p + 1) * ReconnectWaitPeriod
                   + (-ReconnectWaitPeriod) >= RenewWindow - 1
    BY <1>1, <1>3, <1>4, <1>6, <1>7, TimesAssumption
  <2>4. Pause.stage = "pause" /\ Pause.time = ReconnectWaitPeriod
    BY DEF Pause
  <2>5. Budget(Pause, p + 1)'
    BY <2>2, <2>3, <2>4 DEF Budget
  <2>6. \E q \in Nat : Budget(Pause, q)'
    BY <2>5
  <2>7. QED
    BY <1>1, <1>8, <2>1, <2>6, OnlyChain DEF BudgetInv
<1>11. QED
  BY <1>9, <1>10

LEMMA PauseOverBudget ==
  ASSUME BudgetInv, NEW c \in Chain, PauseOver(c)
  PROVE  NearlyAgreed' /\ Watched' /\ InBudget'
<1>1. /\ chain[c].stage = "pause" /\ chain[c].time = 0 /\ chain[c] # Idle
      /\ chain' = [chain EXCEPT ![c] = Request]
      /\ reconnectAttempts' = 0 /\ UNCHANGED <<held, left, valid, ticker, tickDue, failures>>
  BY States DEF BudgetInv, GuardInv, TypeOK, PauseOver
<1>2. c \in Active
  BY <1>1 DEF Active
<1>3. ~ticker
  BY <1>2 DEF BudgetInv, GuardInv, OneGuardian
<1>4. left \in Nat /\ failures \in Nat
  BY TimesAssumption, AttemptsAssumption DEF BudgetInv, GuardInv, TypeOK
<1>5. PICK p \in Nat : Budget(chain[c], p)
  BY <1>2 DEF BudgetInv, InBudget
<1>6. failures * Latency \in Nat /\ p * ReconnectWaitPeriod \in Nat /\ p * Attempts \in Nat
  BY <1>4, OneMore, TimesAssumption, AttemptsAssumption DEF Attempts
<1>7. Request.stage = "request" /\ Request.time = 0
  BY DEF Request
<1>8. Budget(Request, p)'
  BY <1>1, <1>4, <1>5, <1>6, <1>7, TimesAssumption DEF Budget
<1>9. QED
  BY <1>1, <1>3, <1>8, OnlyChain DEF BudgetInv, NearlyAgreed, Watched

LEMMA StepBudget == BudgetInv /\ [Next]_vars => BudgetInv'
<1> SUFFICES ASSUME BudgetInv, [Next]_vars PROVE BudgetInv'
  OBVIOUS
<1>1. GuardInv'
  BY StepGuard DEF BudgetInv
<1>2. CASE UNCHANGED vars
  <2>1. NearlyAgreed' /\ Watched'
    BY <1>2 DEF vars, BudgetInv, NearlyAgreed, Watched
  <2>2. InBudget'
    BY <1>2 DEF vars, BudgetInv, InBudget, Budget, Active
  <2>3. QED
    BY <1>1, <2>1, <2>2 DEF BudgetInv
<1>3. CASE TimePasses
  BY <1>1, <1>3, TimeBudget DEF BudgetInv, GuardInv
<1>4. CASE RenewExpiredToken
  BY <1>1, <1>4, RenewBudget DEF BudgetInv
<1>5. ASSUME NEW c \in Chain, TokenSet(c) \/ TokenError(c) \/ PauseOver(c)
      PROVE  BudgetInv'
  BY <1>1, <1>5, TokenSetBudget, TokenErrorBudget, PauseOverBudget DEF BudgetInv
<1>6. QED
  BY <1>2, <1>3, <1>4, <1>5 DEF Next

\* As many pauses as there are full rounds of attempts in the failures.
LEMMA Pauses ==
  ASSUME NEW p \in Nat, NEW n \in Nat, NEW k \in Nat \ {0}, p * k <= n
  PROVE  p <= n \div k
<1>1. /\ n \div k \in Int
      /\ n \div k >= 0
  OBVIOUS
<1>2. n % k \in 0..(k - 1)
  OBVIOUS
<1>3. n = k * (n \div k) + (n % k)
  OBVIOUS
<1> DEFINE q == n \div k
           r == n % k
<1>4. q \in Nat /\ r \in Nat /\ r < k /\ n = k * q + r
  BY <1>1, <1>2, <1>3
<1> HIDE DEF q, r
<1>5. (q + 1) * k = k * q + k
  BY <1>4
<1>6. ASSUME p >= q + 1 PROVE FALSE
  <2>1. p * k >= (q + 1) * k
    BY <1>4, <1>6
  <2>2. QED
    BY <1>4, <1>5, <2>1
<1>7. p <= q
  BY <1>4, <1>6
<1>8. QED
  BY <1>7 DEF q

LEMMA Monotone ==
  ASSUME NEW m \in Nat, NEW n \in Nat, NEW k \in Nat, m <= n
  PROVE  m * k <= n * k
OBVIOUS

LEMMA RenewalLength ==
  /\ LongestRenewal \in Nat
  /\ \A p \in Nat :
       failures \in Nat /\ failures <= MaxFailures /\ p * Attempts <= failures
         => failures * Latency + p * ReconnectWaitPeriod + Latency <= LongestRenewal
<1> DEFINE rounds == MaxFailures \div Attempts
<1>1. Attempts \in Nat \ {0}
  BY AttemptsAssumption DEF Attempts
<1>2. rounds \in Nat
  BY <1>1, AttemptsAssumption, Pauses
<1>3. LongestRenewal = (MaxFailures + 1) * Latency + rounds * ReconnectWaitPeriod
  BY DEF LongestRenewal, Attempts
<1> HIDE DEF rounds
<1>4. /\ MaxFailures * Latency \in Nat
      /\ (MaxFailures + 1) * Latency = MaxFailures * Latency + Latency
      /\ rounds * ReconnectWaitPeriod \in Nat
  BY <1>2, OneMore, TimesAssumption, AttemptsAssumption
<1>5. ASSUME NEW p \in Nat, failures \in Nat, failures <= MaxFailures, p * Attempts <= failures
      PROVE  failures * Latency + p * ReconnectWaitPeriod + Latency <= LongestRenewal
  <2>1. p <= rounds
    <3>1. p * Attempts <= MaxFailures
      BY <1>1, <1>5, OneMore, AttemptsAssumption
    <3>2. QED
      BY <1>1, <3>1, Pauses, AttemptsAssumption DEF rounds
  <2>2. failures * Latency <= MaxFailures * Latency
    BY <1>5, Monotone, TimesAssumption, AttemptsAssumption
  <2>3. p * ReconnectWaitPeriod <= rounds * ReconnectWaitPeriod
    BY <1>2, <2>1, Monotone, TimesAssumption
  <2>4. failures * Latency \in Nat /\ p * ReconnectWaitPeriod \in Nat
    BY <1>5, OneMore, TimesAssumption
  <2>5. QED
    BY <1>3, <1>4, <2>2, <2>3, <2>4, TimesAssumption
<1>6. LongestRenewal \in Nat
  BY <1>3, <1>4, TimesAssumption
<1>7. QED
  BY <1>5, <1>6

LEMMA BudgetSuffices == BudgetInv => HeaderValid
<1> SUFFICES ASSUME BudgetInv, held, LongestRenewal + Latency + 1 < RenewWindow
             PROVE  valid > 0
  BY DEF HeaderValid
<1>1. /\ left \in Nat /\ valid \in Nat /\ failures \in Nat /\ failures <= MaxFailures
      /\ reconnectAttempts \in Nat /\ chain \in [Chain -> ChainState]
  BY TimesAssumption, AttemptsAssumption DEF BudgetInv, GuardInv, TypeOK
<1>2. valid + Latency >= left
  BY DEF BudgetInv, NearlyAgreed
<1>3. LongestRenewal \in Nat
  BY RenewalLength
<1>4. left + LongestRenewal >= RenewWindow - 1
  <2>1. CASE ticker
    BY <1>1, <1>3, <2>1, TimesAssumption DEF BudgetInv, Watched
  <2>2. CASE ~ticker
    <3>1. PICK c \in Chain : c \in Active
      BY <2>2 DEF BudgetInv, GuardInv, OneGuardian
    <3>2. PICK p \in Nat : Budget(chain[c], p)
      BY <3>1 DEF BudgetInv, InBudget
    <3>3. /\ chain[c].stage \in {"request", "pause"}
          /\ chain[c].stage = "request" => chain[c].time \in 0..Latency
          /\ chain[c].stage = "pause" => chain[c].time \in 0..ReconnectWaitPeriod
      BY <1>1, <3>1, States DEF Active
    <3>4. p * Attempts \in Nat /\ failures * Latency \in Nat /\ p * ReconnectWaitPeriod \in Nat
      BY <1>1, OneMore, TimesAssumption, AttemptsAssumption DEF Attempts
    <3>5. p * Attempts <= failures
      BY <1>1, <3>2, <3>4 DEF Budget
    <3>6. failures * Latency + p * ReconnectWaitPeriod + Latency <= LongestRenewal
      BY <1>1, <3>5, RenewalLength
    <3>7. left + failures * Latency + p * ReconnectWaitPeriod
            + (IF chain[c].stage = "request" THEN chain[c].time ELSE -chain[c].time)
              >= RenewWindow - 1
      BY <3>2 DEF Budget
    <3>8. QED
      BY <1>1, <1>3, <3>3, <3>4, <3>6, <3>7, TimesAssumption
  <2>3. QED
    BY <2>1, <2>2
<1>5. QED
  BY <1>1, <1>2, <1>3, <1>4, TimesAssumption

\* If the renew window covers the longest renewal, getAuthHeader() never gives a
\* header the server refuses, once there has been a token: however the failures
\* and the pauses of reconnect() fall into the window.
THEOREM HeaderValidHolds == Spec => []HeaderValid
<1>1. QED
  BY InitBudget, StepBudget, BudgetSuffices, PTL DEF Spec
=============================================================================
