SPECIFICATION FairSpec
CONSTANTS
  first = first
  second = second
  Launches <- MCLaunches
  Ticks = 2
  MaxSignals <- MCMaxSignals
INVARIANTS GamesAreOwned FinishedOnce StatusIsTheGames SignalsOwnChild
PROPERTIES KillIsLast LaunchesEnd
CHECK_DEADLOCK FALSE
