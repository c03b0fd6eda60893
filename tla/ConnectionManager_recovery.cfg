SPECIFICATION FairSpec
CONSTANTS
  Link = {1, 2, 3, 4}
  Recovery = {r1, r2}
  NoLink = none
  Main = main
  r1 = r1
  r2 = r2
  none = none
  main = main
  MaxLoss = 2
  MayStop = TRUE
INVARIANTS TypeOK OneRecovery CleanStop NoOrphan
PROPERTIES StopEnds LinkRestored
CHECK_DEADLOCK FALSE
