CONSTANTS
  Me = Me
  N = N
  X = X
  Call2 = Call2
  position = position
  message = message
  beacon = beacon
  Wide = Wide
  None = None
  OptOut = {}
  FromIS = {}
  Bulletins = {}
  WxSources = {}
  MaxPathHops = 8
  MaxWideHops = 2
  t1 = t1
  h1 = h1
  parser = parser
  Contents = {position, message, beacon}
  Own = {message}
  Beacons = {beacon}
  Source <- MCSource
  SentPath <- MCSentPath
  Roles <- MCRoles
  Neighbour = N
  NeighbourRole <- MCNeighbourRole
  Timers = {t1}
  Senders = {h1}
  Parser = parser
  Window = 3
  MinHold = 1
  MaxHold = 1
  EchoDelay = 1
  GcTrigger = 1
SPECIFICATION FairSpec
INVARIANTS HoldsAreSound 
PROPERTIES NoSecondAcceptance HoldEnds
