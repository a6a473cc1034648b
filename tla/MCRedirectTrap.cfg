CONSTANTS
  t1 = t1  t2 = t2
  f = f
  Task = {t1, t2}
  Site = {f}
  StaticSite = {f}
  Offset = 1
  MaxTarget = 1
SPECIFICATION Spec
INVARIANTS
  NoTornCode
