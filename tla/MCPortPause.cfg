SPECIFICATION FairSpec
CONSTANTS
  first = first
  second = second
  Launches <- MCLaunches
  Ticks = 2
  MaxSignals <- MCMaxSignals
INVARIANTS PausePrecedesExit
CHECK_DEADLOCK FALSE
