SPECIFICATION Spec
CONSTANTS
  o1 = o1
  o2 = o2
  cmd = cmd
  rev = rev
  desc = desc
  t1 = t1
  t2 = t2
  Ops = {o1, o2}
  Objects = {cmd, rev}
  Command = cmd
  Tx = {t1, t2}
  Free = free
  Quota = 2
SYMMETRY Symmetry
INVARIANTS Safety PublishedObjectsKept QuotaRespected
