SPECIFICATION Spec
CONSTANTS
  Chain = {1, 2}
  Lifetime = 10
  RenewWindow = 8
  ReconnectWaitPeriod = 2
  MaxReconnectAttempts = 1
  Latency = 1
  MaxFailures = 2
INVARIANTS ReadyMeansToken
