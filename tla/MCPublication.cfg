SPECIFICATION Spec
CONSTANTS
  e1 = e1
  e2 = e2
  r1 = r1
  r2 = r2
  r3 = r3
  r4 = r4
  o1 = o1
  o2 = o2
  o3 = o3
  a1 = a1
  t1 = t1
  t2 = t2
  Envs = {e1, e2}
  Revs = {r1, r2, r3, r4}
  Ops = {o1, o2, o3}
  Actors = {a1}
  Tx = {t1, t2}
  Free = free
  None = none
  MaxEpoch = 2
SYMMETRY Symmetry
INVARIANT Safety
PROPERTIES CommitsAreCurrent HistorySpec
