CONSTANTS
  None = None
  Master = Master
  n1 = n1
  n2 = n2
  c1 = c1
  c2 = c2
  Server = {n1, n2}
  Client = {c1, c2}
  Rack <- OneRack
  BlockSize = 2
  TermWidth = 4
  BlockCount = 2
  WriteLease = 1
  RecoverLease = 2
  RecoverAndWriteInterval = 0
  Budgets <- CrashBudgets
SPECIFICATION Spec
CHECK_DEADLOCK FALSE
SYMMETRY Symmetry
INVARIANTS
  UsersHoldReferences
  ReadableDataExists
  RestartLoadsWhatWasServed
PROPERTIES
  NodeVersionsGrow
