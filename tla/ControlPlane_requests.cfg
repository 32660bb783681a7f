SPECIFICATION FairSpec
CONSTANTS
  Writer = {w1, w2}
  Unloader = {u1, u2}
  Reloader = {}
  MaxMounts = 2
  MaxCalls = 2
  HandoffTries = 1
  ResDelete = FALSE
  LateThreads = FALSE
INVARIANTS
  QuiesceOwned
PROPERTIES
  UnloadEnds
