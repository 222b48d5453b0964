CONSTANTS
  s1 = s1
  Sessions = {s1}
  MaxFollows = 1
  MaxFailures = 2
  MaxLists = 1
  MaxFaults = 0
  MaxRequests = 0
  MaxStops = 1
SPECIFICATION Spec
INVARIANTS
  StopCloses
