SPECIFICATION FairSpec
CONSTANTS
  Chain = {1, 2}
  Lifetime = 20
  RenewWindow = 15
  ReconnectWaitPeriod = 3
  MaxReconnectAttempts = 1
  Latency = 2
  MaxFailures = 3
INVARIANTS TypeOK OneGuardian HeaderValid
PROPERTIES Renewed
