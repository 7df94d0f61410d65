SPECIFICATION Spec
CONSTANTS
  s1 = s1
  s2 = s2
  c1 = c1
  c2 = c2
  NoConn = NoConn
  NoEnds = NoEnds
  NoSession = NoSession
  Devices = {1, 2}
  Conns = {c1, c2}
  Sessions = {s1, s2}
  Streams = {s2}
  Openers = {1}
  HostOf <- HostOne
  WorkerOf <- WorkerTwo
  ConfigOf <- TwoModels
INVARIANTS TypeOK FuturesWaited
PROPERTIES SetupsEnd ServersStop
CHECK_DEADLOCK FALSE
