SPECIFICATION MCSpec
CONSTANTS
  a = a
  b = b
  n = n
  o = o
  i1 = i1
  i2 = i2
  i3 = i3
  v = v
  w = w
  NoVal = NoVal
  NoUser = NoUser
  None = None
  Users = {a, b}
  Ids = {i1, i2}
  Names = {n, o}
  Values = {v, w}
  Admins = {a, b}
  Hasty = {a, b}
  Starts <- MCOne
  Required = {TRUE}
  MaxLog = 3
  MaxEdits = 2
  MaxRolls = 1
  MaxBreaks = 1
INVARIANTS Types AdditionsReachReaders SavedWasPublished
PROPERTIES EveryDraftSurvives ChangesAreSeen OverwritesAreReviewed LaterAdditionsStay
CHECK_DEADLOCK FALSE
