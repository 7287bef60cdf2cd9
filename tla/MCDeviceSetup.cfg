SPECIFICATION StageSpec
CONSTANTS
  cmd1 = cmd1
  cmd2 = cmd2
  tab1 = tab1
  tab2 = tab2
  browser = browser
  Nothing = nothing
  Device = {d1, d2, d3, d4, d5, d6, d7, d8}
  Proc = {cmd1, cmd2, tab1, tab2}
  Installation = {cmd1, cmd2, browser}
  Cli = {cmd1, cmd2}
  Home <- MCHome
  Modes = {"login", "enroll", "recover", "web"}
  MaxFaults = 8
  MaxCrashes = 2
  MaxRevokes = 1
  MaxTries = 2
  Envs = {e1, e2}
  MaxChanges = 2
  MaxMoves = 1
  MaxLost = 1
  Expiry = 7
  Interval = 2
  SlowDown = 1
  Deadline = 1
  RetryBase = 1
  RetryMax = 2
  RetryAfter = 3
  MaxAttempts = 2
  Lag = 1
  MaxMissed = 2
INVARIANTS SetUpsAreSafe SessionsFit LoginIsPatient
PROPERTIES StoredAsReported RefreshesGoForward SettledAtLast
CHECK_DEADLOCK FALSE
