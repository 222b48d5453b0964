CONSTANTS
  c1 = c1
  c2 = c2
  w1 = w1
  w2 = w2
  p1 = p1
  p2 = p2
  Conns = {c1, c2}
  HostMaxStarts = 2
  Passphrases = {p1, p2}
  Writers = {w1, w2}
  NumberMod = 3
  MaxTunnels = 2
  MaxFrames = 4
  MuxMessages = 3
  MaxFragments = 3
  MuxMaxMessage = 2
  PumpBudget = 2
  MaxPings = 1
  MaxMuxes = 2
  Requests = {"r1", "r2"}
  MaxOutages = 2
  RelayClients = {"k1", "k2"}
  MaxPresses = 3
  MaxFaults = 2
  MaxPushed = 2
SPECIFICATION LinksSpec
INVARIANTS
  LinksTypeOK
  NothingHalfOpen
  
  DeliveredInOrder
  RefusedForCause
  MessagesAreWhole
  AnswersAreTrue
  OneLinkInOrder
PROPERTIES
  WaitingIsAnswered
  StopIsHonoured
  MessagesArrive
  EveryRequestAnswered
  ClientRecovers
CHECK_DEADLOCK FALSE
