SPECIFICATION Spec
CONSTANTS
  m1 = m1
  c1 = c1
  c2 = c2
  NoConn = NoConn
  NoEnds = NoEnds
  NoCap = NoCap
  Devices = {1, 2}
  Conns = {c1}
  Models = {m1}
  Openers = {1, 2}
  MaxRestarts = 0
  MaxBroadcasts = 0
  Size <- OneSize
  Offers <- WithModel
INVARIANTS FiguresOfConnected
CHECK_DEADLOCK FALSE
