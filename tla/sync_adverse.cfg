SPECIFICATION Spec
CONSTANTS
  k1 = k1
  k2 = k2
  v1 = v1
  l1 = l1
  l2 = l2
  x1 = x1
  c1 = c1
  c2 = c2
  NoConn = NoConn
  NoEnds = NoEnds
  Forever = Forever
  NoEntry = NoEntry
  Unset = Unset
  Tombstone = Tombstone
  Torn = Torn
  Devices = {1, 2}
  Conns = {c1}
  Values = {v1, Tombstone}
  TTLs = {Forever, 1}
  RegKeys = {k1}
  LogKeys = {}
  Contents = {}
  TTLArgs = {1}
  Openers = {1}
  PushTasks = {"debounce"}
  TornWrites = TRUE
  MaxWrites = 2
  MaxAppends = 2
  MaxNow = 2
  MaxRestarts = 1
  MaxOutstanding = 1
  DefaultTTL <- AllForever
  Skew <- NoSkew
  Writers <- OwnAndShared
INVARIANTS SyncInv
CHECK_DEADLOCK FALSE
