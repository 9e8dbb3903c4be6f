CONSTANTS
  r1 = r1
  r2 = r2
  w1 = w1
  d1 = d1
  d2 = d2
  NULL = NULL
  Thread = {r1, d1}
  May <- MayByName
  Key <- Keys2
  NBits = 2
  Bit <- MCBit
  Val = {v1}
  Node = {n1, n2}
  Str = {s1, s2, s3}
SPECIFICATION Spec
SYMMETRY Blocks
INVARIANT NoFreedRead
