SPECIFICATION Spec
CONSTANTS
  Link = {1, 2, 3}
  Recovery = {r1, r2}
  NoLink = none
  Main = main
  r1 = r1
  r2 = r2
  none = none
  main = main
  MaxLoss = 1
  MayStop = TRUE
INVARIANTS StopPreventsReconnect
CHECK_DEADLOCK FALSE
