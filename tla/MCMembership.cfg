SPECIFICATION MCSpec
CONSTANTS
  u1 = u1
  u2 = u2
  u3 = u3
  i1 = i1
  i2 = i2
  o1 = o1
  o2 = o2
  o3 = o3
  o4 = o4
  t1 = t1
  t2 = t2
  p1 = p1
  x1 = x1
  x2 = x2
  User = {u1, u2}
  Founders = {u1}
  Joining = {u2}
  Kinds = {"provision", "remove"}
  Invitation = {i1, i2}
  Op = {o1, o2}
  Tx = {t1, t2}
  Project = {p1}
  Device = {x1, x2}
  UserOf <- DeviceOwner
  MaxEpoch = 2
  Free = free
  None = none
SYMMETRY Symmetry
INVARIANTS Types LastOwner
PROPERTIES ChangesWereDecided ActivatedHoldsKeys
CHECK_DEADLOCK FALSE
