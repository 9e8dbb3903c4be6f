CONSTANTS
  Key = {1, 2}
  Val = {v1}
  NULL = NULL
  Hash <- Hash4
  Width = 4
  InitialSize = 4
  ForceRatio = 5
  Sizes = {16}
  MaxSteps = 1
  Iter = {}
  Calls = {"add", "find", "expand", "resize", "scan"}
  During = {}
SPECIFICATION Spec
INVARIANT ScanComplete
