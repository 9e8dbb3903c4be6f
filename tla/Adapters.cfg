CONSTANTS
  v1 = v1
  v2 = v2
  NULL = NULL
  Thread = {th1, th2}
  Main = th1
  Key = {1, 2, 3, 4, 5, 6, 7, 8, 9, 10}
  Val = {v1, v2}
  Adds <- Added
  NByte = 12
  MaxPrefix = 2
  Size4 = 3
  Size16 = 4
  Size48 = 5
  Shrink16 = 2
  Shrink48 = 3
  Shrink256 = 4
  Hash <- Hashes
  InitialBuckets = 1
  Threshold = 1
  MaxBuckets = 16
  Rising = {6, 7, 8, 9, 10}
SPECIFICATION Spec
INVARIANTS RbTreeSound HashTableSound
PROPERTY KeepsContract
