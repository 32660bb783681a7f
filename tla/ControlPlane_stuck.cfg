SPECIFICATION FairSpec
CONSTANTS
  Writer = {w1}
  Unloader = {u1}
  Reloader = {}
  MaxMounts = 1
  MaxCalls = 1
  HandoffTries = 1
  ResDelete = FALSE
  LateThreads = FALSE
PROPERTIES
  TransitionEnds
