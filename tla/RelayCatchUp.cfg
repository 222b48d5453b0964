CONSTANTS
  s1 = s1
  c1 = c1
  d1 = d1
  any = any
  unnamed = unnamed
  Senders = {s1}
  Clients = {c1}
  Devices = {d1}
  AnyDevice = any
  Unnamed = unnamed
  Kinds = {"sessions", "control", "snapshot", "events"}
  ReplayDepth = 2
  MaxConnections = 2
  MaxFrames = 4
  MaxRequests = 0
SPECIFICATION Spec
SYMMETRY Symmetry
INVARIANTS
  TypeOK
  
PROPERTIES
  ListsNeverGoBack
CHECK_DEADLOCK FALSE
