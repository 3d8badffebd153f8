SPECIFICATION FairSpec
CONSTANTS
  Proc = {p1, p2}
  Thread = {t1, t2, t3}
  RootProc = p1
  RootThread = t1
  a = a
  b = b
  Ip = {a}
  Stacks <- OneStack
  Ops <- MallocOnly
  IndexMax = 7
  UserControl = FALSE
  Threaded = TRUE
  Exits = FALSE
  MaxCalls = 1
  MaxForks = 1
  None = None
PROPERTIES ChildGetsFlag
CHECK_DEADLOCK FALSE
