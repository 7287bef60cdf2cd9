SPECIFICATION FairSpec
CONSTANTS
  d1 = d1
  d2 = d2
  d3 = d3
  k1 = k1
  k2 = k2
  k3 = k3
  k4 = k4
  k5 = k5
  k6 = k6
  u1 = u1
  u2 = u2
  Device = {d1}
  User = {u1}
  UserOf <- OneUser
  Cli = {d1}
  Unlocked = {d1}
  Admin = {u1}
  Key = {k1, k2, k3, k4, k5, k6}
  MaxEpoch = 2
  MaxFaults = 0
  None = none
PROPERTIES ValuesStayReadable
