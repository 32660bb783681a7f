SPECIFICATION FairSpec
CONSTANTS
  a = a
  b = b
  c = c
  g1 = g1
  g2 = g2
  n1 = n1
  n2 = n2
  n3 = n3
  f1 = f1
  KInit = KInit
  VInit = VInit
  NULL = NULL
  Task = {a, b}
  Tgid = {g1}
  TgidOf <- TwoThreads
  First = {a}
  Ns = {n1, n2}
  Foreign = {f1}
  ExitVia = "exit_task_namespaces"
  AtomicFails = FALSE
  MaxLeaks = 0
  MaxDeferred = 2
PROPERTIES
  ExitedProxiesDrain
CHECK_DEADLOCK FALSE
