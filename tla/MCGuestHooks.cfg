SPECIFICATION FairSpec
CONSTANTS
  Modules = {unity, il2cpp}
  Threads = {UnityMain, worker}
  Loader = UnityMain
  Il2cpp = il2cpp
  Depth = 2
  Budget = 2
  Groups <- MCGroups
  Wholes <- MCWholes
  Builds <- MCBuilds
  Slots = 8
INVARIANTS OwnState InstalledIsWhole NoHelperSurvives
PROPERTIES IntroEnds InstallEnds
CHECK_DEADLOCK FALSE
