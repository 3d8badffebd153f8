SPECIFICATION Spec
CONSTANTS
  Calls <- MCCalls
  CmdLength = 1
  CmdLengths = {0, 2}
  MaxRecords = 3
  MaxForks = 1
  PageSize = 2
  Addresses = {2, 4, 5, 6}
  Times = {2}
  None = None
INVARIANTS RecordsFound HeaderHonest OverlapsFound 
