SPECIFICATION Spec
CONSTANTS
  old = old
  new = new
  newer = newer
  bad = bad
  copied = copied
  NoTree = NoTree
  Torn = Torn
  Count = 2
  Versions <- MCVersions
  Good <- MCGood
  Sources <- MCSources
  Initial <- MCInstalled
  MaxTx = 1
  MaxFaults = 0
  Touched <- MCCopied
  MaxDamage = 1
PROPERTIES PartialNeverInstalled
