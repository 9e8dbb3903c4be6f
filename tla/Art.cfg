CONSTANTS
  NULL = NULL
  NByte = 12
  MaxPrefix = 2
  MaxLen = 6
  Size4 = 3
  Size16 = 4
  Size48 = 5
  Shrink16 = 2
  Shrink48 = 3
  Shrink256 = 4
  Key <- Keys
  Query <- Queries
  v1 = v1
  v2 = v2
  Val = {v1, v2}
  Adds <- Added
  Junk = {1}
SPECIFICATION Spec
INVARIANTS SearchExact PathsAgree NodesFit IterExact IterPrefixExact DestroyFreesAll
