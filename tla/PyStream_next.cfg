SPECIFICATION PySpec
CONSTANTS
  MaxRecords = 7
  MaxPeriod = 3
  Periods = {0, 1, 2, 3}
  Word = 256
  MaxOpens = 2
  Throw = Throw
  None = None
PROPERTY NextIsGuarded
