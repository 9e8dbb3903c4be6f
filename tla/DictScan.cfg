CONSTANTS
  Key = {1, 2, 3}
  Val = {v1}
  NULL = NULL
  Hash <- Hash4
  Width = 3
  InitialSize = 1
  ForceRatio = 1
  Sizes = {4, 8}
  MaxSteps = 1
  Iter = {}
  Calls = {"add", "delete", "replace", "find", "random", "expand", "resize", "rehash", "switch", "empty", "release", "scan"}
  During = {}
SPECIFICATION FairSpec
INVARIANTS ScanCompleteUnlessSkewed LoadBounded
PROPERTIES RehashEnds ScanEnds
