SPECIFICATION GameTimeSpec
CONSTANTS
  One = 1000
  Scales <- MCScales
  Overrides <- MCOverrides
  Short = 13
  Long = 26
  Shot = 2
  Window = 2
  Threshold = 4
INVARIANT ShorterRules
PROPERTY PaceIsIntended
