SPECIFICATION MCSpec
CONSTANTS
  p1 = p1
  Readers = {c1, pg}
  Pages = {pg}
  Machine <- MCMachine
  Reader = reader
  Owners = {{NoOwner, reader, other}}
  NoOwner = NoOwner
  Limit = 1
  MaxSyncObjects = 8
  MaxSyncPages = 3
  MaxLog = 4
  MaxRestores = 1
  MaxArchives = 1
  MaxRemovals = 1
  MaxSyncs = 2
  Procs = {p1, p2}
  Envs = {e1, e2}
  Ops = {1, 2}
  MaxAttempts = 3
  MaxChanges = 2
  MaxFaults = 2
  MaxRefusals = 1
  MaxOthers = 1
  Nobody = nobody
  None = none
INVARIANTS OneTerminalSafe OneTerminalReports FailsForAReason
PROPERTIES JournalSettles HeadContinuity
CHECK_DEADLOCK FALSE
