CONSTANTS
  s1 = s1
  s2 = s2
  c1 = c1
  d1 = d1
  any = any
  unnamed = unnamed
  Senders = {s1, s2}
  Clients = {c1}
  Devices = {d1}
  AnyDevice = any
  Unnamed = unnamed
  Kinds = {}
  ReplayDepth = 1
  MaxConnections = 3
  MaxFrames = 0
  MaxRequests = 0
SPECIFICATION FairSpec
INVARIANTS
  RosterCurrent
PROPERTIES
  DepartedDisappear
CHECK_DEADLOCK FALSE
