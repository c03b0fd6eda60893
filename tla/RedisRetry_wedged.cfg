SPECIFICATION FairSpec
CONSTANTS
  m1 = m1
  m2 = m2
  s1 = s1
  s2 = s2
  Msg = {m1}
  Slot = {s1}
  RetryLimit = 1
  ProcessLimit = 1
  Unusable = {}
  Faults = {"read"}
  MaxFault = 1
PROPERTIES EverySavedLeaves
CHECK_DEADLOCK FALSE
