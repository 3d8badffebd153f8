SPECIFICATION FairSpec
CONSTANTS
  Proc = {p1, p2}
  Thread = {t1, t2}
  RootProc = p1
  RootThread = t1
  a = a
  b = b
  Ip = {a, b}
  Stacks <- TwoStacks
  Ops <- ReallocOnly
  IndexMax = 7
  UserControl = FALSE
  Threaded = FALSE
  Exits = TRUE
  MaxCalls = 2
  MaxForks = 1
  None = None
INVARIANTS TableComplete NothingLost Survives
PROPERTIES FileGrows ForkReturns ExitReturns HookReturns
