SPECIFICATION Spec
CONSTANTS
  Task = {a, b}
  Cred = {c1, c2, c3}
  Ns = {n1, n2}
  File = {f}
  InitNs = InitNs
  NULL = NULL
  MaxLeaks = 1
  MaxRcu = 1
INVARIANTS
  TypeOK
  MemorySafe
  BooksExact
  NamespacesDrain
PROPERTY
  ImplementsService
SYMMETRY Symmetry
CHECK_DEADLOCK FALSE
