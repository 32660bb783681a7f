SPECIFICATION FairSpec
CONSTANTS
  plain = plain
  exempt = exempt
  c1 = c1
  c2 = c2
  NoOne = NoOne
  Hook = {plain, exempt}
  Exempt = {exempt}
  NoReturn = {plain}
  Call = {c1, c2}
  MaxActive = 1
  MaxOrphans = 2
  MaxPins = 1
  InitMayFail = FALSE
INVARIANTS
  TypeOK
  Accounting
  QuiescedDrained
  RetprobeOutlivesCalls
PROPERTIES
  ImplementsLifetime
  RemoveTerminates
