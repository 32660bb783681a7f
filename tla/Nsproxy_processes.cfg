SPECIFICATION Spec
CONSTANTS
  a = a
  b = b
  c = c
  g1 = g1
  g2 = g2
  n1 = n1
  n2 = n2
  n3 = n3
  f1 = f1
  KInit = KInit
  VInit = VInit
  NULL = NULL
  Task = {a, b}
  Tgid = {g1, g2}
  TgidOf <- TwoProcesses
  First = {a}
  Ns = {n1, n2, n3}
  Foreign = {f1}
  ExitVia = "exit_task_namespaces"
  AtomicFails = TRUE
  MaxLeaks = 1
  MaxDeferred = 2
SYMMETRY NsSymmetry
INVARIANTS
  TypeOK
  CountsBacked
  ModuleUnused
PROPERTIES
  ImplementsService
CHECK_DEADLOCK FALSE
