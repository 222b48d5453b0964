CONSTANTS
  s1 = s1
  c1 = c1
  c2 = c2
  d1 = d1
  any = any
  unnamed = unnamed
  Senders = {s1}
  Clients = {c1, c2}
  Devices = {d1}
  AnyDevice = any
  Unnamed = unnamed
  Kinds = {}
  ReplayDepth = 1
  MaxConnections = 3
  MaxFrames = 0
  MaxRequests = 2
SPECIFICATION Spec
SYMMETRY Symmetry
INVARIANTS
  PendingSafe
  AtMostOneAnswer
CHECK_DEADLOCK FALSE
