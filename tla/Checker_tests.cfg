SPECIFICATION Spec
CONSTANT Order <- AllTests
INVARIANTS
  TypeOK
  Reported
  PipesInStep
  NothingLeft
  VerdictRight
PROPERTY
  TestEnds
