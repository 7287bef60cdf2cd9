SPECIFICATION MCSpec
CONSTANTS
  x1 = x1
  d1 = d1
  d2 = d2
  t1 = t1
  t2 = t2
  t3 = t3
  k1 = k1
  k2 = k2
  k3 = k3
  k4 = k4
  k5 = k5
  k6 = k6
  owner = owner
  mate = mate
  None = none
  Transfers = {x1}
  Devices = {d1, d2}
  Tx = {t1, t2, t3}
  Free = free
  Clis = {d1}
  Holders = {d1}
  Key = {k1, k2, k3, k4, k5, k6}
  MaxEpoch = 2
  MaxFaults = 1
  Users = {owner, mate}
  OwnerOf <- MCOwnerOf
  Skews <- MCSkews
  Founder = d1
  Returns = {mate, d2}
  Slow = TRUE
  MaxTime = 2
  MaxLog = 1
INVARIANTS Safety EpochKeysAgree LegitimateVerifies
PROPERTIES SettledOnce KeysReachEveryone EverybodyReads
CHECK_DEADLOCK FALSE
