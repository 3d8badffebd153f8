SPECIFICATION Spec
CONSTANTS
  Proc = {p1, p2}
  Thread = {t1, t2, t3}
  RootProc = p1
  RootThread = t1
  a = a
  b = b
  Ip = {a, b}
  Stacks <- TwoStacks
  Ops <- ReallocAndFree
  IndexMax = 2
  UserControl = TRUE
  Threaded = TRUE
  Exits = TRUE
  MaxCalls = 1
  MaxForks = 1
  None = None
INVARIANTS TypeOK MutualExclusion ReallocPaired RecordsResolve
CHECK_DEADLOCK FALSE
SYMMETRY Symmetry
