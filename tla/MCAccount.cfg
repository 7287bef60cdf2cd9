SPECIFICATION MCSpec
CONSTANTS
  w1 = w1
  w2 = w2
  w3 = w3
  w4 = w4
  k1 = k1
  c1 = c1
  c2 = c2
  o1 = o1
  o2 = o2
  o3 = o3
  o4 = o4
  o5 = o5
  d0 = d0
  d1 = d1
  d2 = d2
  e1 = e1
  t1 = t1
  t2 = t2
  user = user
  p1 = p1
  m1 = m1
  torn = torn
  Wrappers = {w1, w2, w3, w4}
  Keys = {k1}
  Ciphertexts = {c1, c2}
  Ops = {o1, o2, o3, o4, o5}
  Devices = {d0}
  EstablishTypes = {"RECOVERY_CODE"}
  Tx = {t1, t2}
  Free = free
  None = none
SYMMETRY Symmetry
INVARIANTS Safety DevicesSafe RecoverySafe
PROPERTIES NeverLockedOut EnvelopesKept NeverActiveAgain
CHECK_DEADLOCK FALSE
