CONSTANTS
  s1 = s1
  s2 = s2
  s3 = s3
  Sessions = {s1, s2, s3}
  MaxFollows = 2
  MaxFailures = 2
  MaxLists = 1
  MaxFaults = 2
  MaxRequests = 3
  MaxStops = 0
SPECIFICATION Spec
SYMMETRY Symmetry
INVARIANTS
  NoOrphanFollow
  FollowsAreOpen
  FollowsWereAsked
  SubscribedOnThisMux
  ClientIdOfThisMux
