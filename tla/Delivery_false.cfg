SPECIFICATION FairSpec
CONSTANTS
  m1 = m1
  m2 = m2
  w1 = w1
  Msg = {m1, m2}
  Worker = {w1}
  CopyId = {1, 2}
  Prefetch = 1
  RetryLimit = 0
  Results = {"true", "false"}
  Forms = {"Message"}
  MaxLoss = 0
  MaxCrash = 0
PROPERTIES LeftUnackedIsRetried
CHECK_DEADLOCK FALSE
