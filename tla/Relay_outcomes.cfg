SPECIFICATION FairSpec
CONSTANTS
  p1 = p1
  p2 = p2
  Nobody = Nobody
  Process = {p1, p2}
  Workers = {"signup", "broadcast", "sms-active", "sms-inbound", "status",
    "unsubscribed", "update", "fetch", "track"}
  Status = {200, 422, 500}
  RetryLimit = 1
  MaxFault = 1
INVARIANTS TypeOK AckedIsApplied KeptUntilAnswered RepeatsAreNumbered FinalIsLast UpdatesOnlyKnown
PROPERTIES EventuallySettled ImplementsRetryQueue
CHECK_DEADLOCK FALSE
