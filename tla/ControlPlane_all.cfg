SPECIFICATION Spec
CONSTANTS
  Writer = {w1, w2}
  Unloader = {u1}
  Reloader = {r1}
  MaxMounts = 1
  MaxCalls = 1
  HandoffTries = 2
  ResDelete = TRUE
  LateThreads = FALSE
SYMMETRY Symmetry
INVARIANTS
  TypeOK
  LifecycleExact
  LaunchUnloaded
PROPERTY
  DrainQuiesced
