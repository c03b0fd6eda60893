SPECIFICATION FairSpec
CONSTANTS
  m1 = m1
  w1 = w1
  Msg = {m1}
  Worker = {w1}
  CopyId = {1, 2}
  Prefetch = 1
  RetryLimit = 0
  Results = {"true"}
  Forms = {"Message"}
  MaxLoss = 1
  MaxCrash = 0
PROPERTIES LivesThroughRestarts
CHECK_DEADLOCK FALSE
