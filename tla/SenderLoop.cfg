CONSTANTS
  s1 = s1
  Sessions = {s1}
  MaxFollows = 1
  MaxFailures = 2
  MaxLists = 2
  MaxFaults = 1
  MaxRequests = 0
  MaxStops = 1
SPECIFICATION FairSpec

  
INVARIANTS
  TypeOK
  CacheIsPublished
