CONSTANTS
  r1 = r1
  r2 = r2
  w1 = w1
  d1 = d1
  d2 = d2
  NULL = NULL
  Thread = {r1}
  May <- MayAll
  Key <- KeysSeq
  NBits = 4
  Bit <- MCBit
  Val = {v1, v2}
  Node = {n1, n2, n3, n4}
  Str = {s1, s2, s3, s4, s5}
SPECIFICATION Spec
SYMMETRY Blocks
INVARIANTS TypeOK TreeHoldsMap CriticalBits
PROPERTY ImplementsMap
