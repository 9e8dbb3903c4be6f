CONSTANTS
  Key = {1, 2, 3}
  Val = {v1}
  NULL = NULL
  Hash <- Hash4
  Width = 4
  InitialSize = 4
  ForceRatio = 5
  Sizes = {7}
  MaxSteps = 1
  Iter = {i1}
  Calls = {"add", "delete", "deleteCurrent", "find", "expand", "resize", "rehash", "empty", "safe", "unsafe"}
  During = {"add", "deleteCurrent", "find", "expand", "resize"}
SPECIFICATION DictMapSpec
INVARIANTS TypeOK OneHome RehashInBounds IteratorExact NextNotFreed IteratorsCounted
PROPERTY ImplementsMap
