SPECIFICATION Spec
CONSTANTS
  m1 = m1
  m2 = m2
  w1 = w1
  w2 = w2
  Msg = {m1, m2}
  Worker = {w1, w2}
  CopyId = {1, 2, 3}
  Prefetch = 2
  RetryLimit = 1
  Results = {"true", "false", "retry"}
  Forms = {"raw", "Message"}
  MaxLoss = 1
  MaxCrash = 1
SYMMETRY Symmetry
INVARIANTS TypeOK OneCopy NoSilentLoss MemoryBounded OwnTag
PROPERTIES AttemptsNeverReset ImplementsRetryQueue
CHECK_DEADLOCK FALSE
