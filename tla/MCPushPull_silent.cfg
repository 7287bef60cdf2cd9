SPECIFICATION Spec
CONSTANTS
  a = a
  b = b
  n = n
  o = o
  i1 = i1
  i2 = i2
  i3 = i3
  i4 = i4
  v = v
  w = w
  NoVal = NoVal
  NoUser = NoUser
  None = None
  Users = {a, b}
  Ids = {i1, i2, i3}
  Names = {n}
  Values = {v, w}
  Relative = {}
  Starts <- MCBoth
  MaxLog = 3
  MaxEdits = 3
CHECK_DEADLOCK FALSE
PROPERTY NoSilentOverwrite
