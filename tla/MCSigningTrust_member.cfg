SPECIFICATION Spec
CONSTANTS
  owner = owner
  mate = mate
  d1 = d1
  d2 = d2
  None = None
  Users = {owner, mate}
  Devices = {d1, d2}
  OwnerOf <- MCOwnerOf
  Skews <- MCTrue
  Founder = d1
  Returns = {mate}
  Slow = FALSE
  MaxTime = 5
  MaxLog = 2
INVARIANT HistoryVerifies
CHECK_DEADLOCK FALSE
