SPECIFICATION Spec
CONSTANTS
  Thread = {t1, t2}
  Ops = {"single", "realloc"}
  Lengths = {1, 3}
  BucketSize = 3
  Durations = {1}
  MaxCalls = 3
  MaxForks = 1
  None = None
SYMMETRY Symmetry
INVARIANTS BufferFits RecordsKept HeaderHonest EmptyOnlyFirst TimesExact NeverLate CallsKeepTheirOrder
