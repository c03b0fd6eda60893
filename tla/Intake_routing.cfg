SPECIFICATION FairSpec
CONSTANTS
  p1 = p1
  p2 = p2
  r1 = r1
  Web = {p1, p2}
  Request = {r1}
  Served = {"user-signup", "customerio-email-activity",
    "customerio-email-unsubscribed", "twilio-sms-outbound-other", "fetch"}
  QueueClasses <- FiveClasses
  Misdeclared = {"gambit-campaign-signup-relay"}
  MaxFault = 1
  MayStop = TRUE
INVARIANTS TypeOK RightQueues AcceptedArrives RefusedLeavesNothing RefusalBindsNothing
PROPERTIES StartEnds TransitEnds
CHECK_DEADLOCK FALSE
