SPECIFICATION Spec
CONSTANTS
  Traces <- MCTraces
  Rhythms <- MCRhythms
  Addresses = {1, 2}
  MaxRecords = 6
  DHalf = 3
  LookAhead = 4
  MapLen = 1
  Percent = 2
  Word = 256
INVARIANTS ClocksAgree DensityCounts LivesUntilFreed
