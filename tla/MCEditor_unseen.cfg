SPECIFICATION Spec
CONSTANTS
  a = a
  b = b
  n = n
  o = o
  i1 = i1
  i2 = i2
  i3 = i3
  v = v
  w = w
  NoVal = NoVal
  NoUser = NoUser
  None = None
  Users = {a, b}
  Ids = {i1, i2}
  Names = {n, o}
  Values = {v, w}
  Admins = {a, b}
  Hasty = {}
  Starts <- MCTwo
  Required = {TRUE}
  MaxLog = 4
  MaxEdits = 3
  MaxRolls = 0
  MaxBreaks = 0
PROPERTY UnseenChangesBlock
CHECK_DEADLOCK FALSE
