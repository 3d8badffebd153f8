SPECIFICATION Spec
CONSTANTS
  Proc = {p1, p2}
  Thread = {t1, t2, t3}
  RootProc = p1
  RootThread = t1
  a = a
  b = b
  Ip = {a}
  Stacks <- OneStack
  Ops <- MallocOnly
  IndexMax = 7
  UserControl = FALSE
  Threaded = TRUE
  Exits = FALSE
  MaxCalls = 2
  MaxForks = 1
  None = None
INVARIANTS HooksDoNotThrow
CHECK_DEADLOCK FALSE
