CONSTANTS
  a = a
  b = b
  TalkSessions = {a, b}
  MaxTail = 1
  SliceSize = 1
  PageSize = 1
  MaxRecords = 3
  MaxSteps = 3
SPECIFICATION TalkSpec
INVARIANTS
  RowsOfOpenSession
CHECK_DEADLOCK FALSE
