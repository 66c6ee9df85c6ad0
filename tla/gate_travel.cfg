CONSTANTS
  A = A
  B = B
  X = X
  Y = Y
  Wx = Wx
  Bln = Bln
  Alias = Alias
  NoGate = NoGate
  TcpIp = TcpIp
  None = None
  Wide = Wide
  OptOut = {NoGate}
  FromIS = {TcpIp}
  Bulletins = {Bln}
  WxSources = {Wx}
  MaxPathHops = 3
  MaxWideHops = 2
  Stations = {A, B}
  Roles <- MCRoles
  Calls <- MCCalls
  Tokens <- MCTokens
  Originals <- MCOriginals
SPECIFICATION Spec
INVARIANTS WithinRequest NoStationTwice NoReturnToIS OptOutHonoured
PROPERTIES CourtesyIsOwed
