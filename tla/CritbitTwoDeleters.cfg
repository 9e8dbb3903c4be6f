CONSTANTS
  r1 = r1
  r2 = r2
  w1 = w1
  d1 = d1
  d2 = d2
  NULL = NULL
  Thread = {d1, d2}
  May <- MayByName
  Key <- Keys3
  NBits = 2
  Bit <- MCBit
  Val = {v1}
  Node = {n1, n2, n3}
  Str = {s1, s2, s3, s4}
SPECIFICATION Spec
SYMMETRY Blocks
INVARIANT DeletersApart
