SPECIFICATION Spec
CONSTANTS
  Task = {t, p}
  Caller = {t}
  Ns = {A}
  InitNs = InitNs
  NULL = NULL
  File = {f}
  Width = 2
  OverflowId = 2
  BaseExtents = 1
  MaxExtents = 3
  Arg = {0, 2, 3}
  Pointers <- MCPointers
  Text <- MCText
CHECK_DEADLOCK FALSE
INVARIANTS
  TypeOK
  LookupRight
  GettersRight
  SettersRight
  SetgroupsSafe
PROPERTIES
  MapStable
