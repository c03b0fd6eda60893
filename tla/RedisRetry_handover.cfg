SPECIFICATION FairSpec
CONSTANTS
  m1 = m1
  m2 = m2
  s1 = s1
  s2 = s2
  Msg = {m1, m2}
  Slot = {s1, s2}
  RetryLimit = 1
  ProcessLimit = 1
  Unusable = {m2}
  Faults = {"zadd", "zaddReply", "zrem", "read", "channel", "link", "worker", "timer",
            "resentZadd", "resentZrem", "stop"}
  MaxFault = 1
INVARIANTS TypeOK CopiesCounted AlwaysSomewhere RetryBudget
PROPERTIES EventuallyDecided LeavesRedis
CHECK_DEADLOCK FALSE
