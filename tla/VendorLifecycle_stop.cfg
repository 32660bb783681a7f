SPECIFICATION FairSpec
CONSTANTS
  t1 = t1
  t2 = t2
  n1 = n1
  p1 = p1
  Task = {t1, t2}
  Nsfs = {n1}
  Proc = {p1}
  InitPid = {n1, p1}
  MaxLive = 1
  MaxMounts = 1
  MaxKept = 1
  FirstInitMayFail = FALSE
INVARIANTS
  TypeOK
  ObjectsHeld
  RefsBacked
  GuardsHold
  EndsClean
PROPERTIES
  StopEnds
