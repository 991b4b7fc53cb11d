SPECIFICATION FairSpec
CONSTANTS
  Size <- MCSize
  Slots = 4
  Locator = 3
  Period = 2
  Handlers <- MCHandler
  MaxBuffers = 5
  MaxCreates = 2
INVARIANTS NothingLost IndexCounts CallbackMatchesContext
PROPERTIES ClearedIsSilent RefinesBufferQueue EveryBufferFinishes
CHECK_DEADLOCK FALSE
