SPECIFICATION FairSpec
CONSTANTS
  a = a
  Clickers <- MCClickers
  Back = b
  LastMove = 9
INVARIANTS LiveTouchIsTracked BackFollowsPad
PROPERTIES ClickIsWhole EveryTouchEnds
