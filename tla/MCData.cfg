CONSTANTS
  w1 = w1
  w2 = w2
  w3 = w3
  s1 = s1
  s2 = s2
  a = a
  b = b
  Depth = 4
  MaxOffered = 30
  Workspaces = {w1, w2, w3}
  MaxWorkspaces = 2
  MaxViews = 2
  MaxRegistryChanges = 4
  MaxOpens = 2
  ListSessions = {s1, s2}
  MaxVersions = 2
  MaxListChanges = 4
  MaxTunnels = 2
  TalkSessions = {a, b}
  MaxTail = 1
  SliceSize = 1
  PageSize = 1
  MaxRecords = 3
  MaxSteps = 3
  Programs = {"server", "sender"}
  Keys = {"port", "passphrase", "device_name"}
  Asked <- MCAsked
  Numeric = {"port"}
  CfgMaxKeys = 3
  MaxValue = 1
  MaxLaunches = 2
  MaxChanges = 1
  HttpBody <- MCBody
  HttpMaxHeader = 2
  HttpMaxBody = 9
  LogCap = 8
  LogTake = 3
  LogLine = 3
  MaxLogged = 20
SPECIFICATION DataSpec
INVARIANTS
  DataTypeOK
  CatchUpIsAWindow
  RegistryMirrored
  VanishedAreDescribed
  
  NeverTorn
  SavedIsKept
  FramedBody
  LogSound
PROPERTIES
  ImplementsLog
  NoKeyErased
  LostOnlyWhenBehind
CHECK_DEADLOCK FALSE
