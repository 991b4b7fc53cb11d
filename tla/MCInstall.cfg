SPECIFICATION FairSpec
CONSTANTS
  old = old
  new = new
  newer = newer
  bad = bad
  copied = copied
  NoTree = NoTree
  Torn = Torn
  Count = 2
  Versions <- MCVersions
  Good <- MCGood
  Sources <- MCSources
  Initial <- MCInitial
  MaxTx = 2
  MaxFaults = 1
  Touched <- MCTouched
  MaxDamage = 1
INVARIANTS ReadyMeansWhole RollbackNeverStuck CalmRunHeals
PROPERTIES RefinesAtomicInstall InterruptedIsResolved
