SPECIFICATION Spec
CONSTANTS
  s1 = s1
  s2 = s2
  c1 = c1
  c2 = c2
  NoConn = NoConn
  NoEnds = NoEnds
  NoSession = NoSession
  Devices = {1, 2}
  Conns = {c1}
  Sessions = {s1, s2}
  Streams = {}
  Openers = {1}
  HostOf <- HostOne
  WorkerOf <- WorkerTwo
  ConfigOf <- OneModel
PROPERTIES ServersStop
CHECK_DEADLOCK FALSE
