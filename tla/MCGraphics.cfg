SPECIFICATION FairSpec
CONSTANTS
  Threads = {t1, t2}
  Contexts = {c1, c2}
  Period = 2
  Lateness = 1
  Horizon = 3
INVARIANTS AllShared BindingIsKnown ReadyIsAnnounced
PROPERTIES FlipsAreSpaced RawReadyComes
CHECK_DEADLOCK FALSE
