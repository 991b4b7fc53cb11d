SPECIFICATION Spec
CONSTANTS
  Keys = {k1, k2}
  ScalarTypes <- MCScalarTypes
  Scalars = {zero, one}
  Zero = zero
  Strings = {s1}
  MaxRecords = 1
  MaxFile = 1
  MaxGeneration = 3
  MaxDamage = 0
INVARIANT CommitIsDurable
