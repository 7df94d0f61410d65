SPECIFICATION Spec
CONSTANTS
  k1 = k1
  k2 = k2
  v1 = v1
  l1 = l1
  l2 = l2
  x1 = x1
  c1 = c1
  c2 = c2
  NoConn = NoConn
  NoEnds = NoEnds
  Forever = Forever
  NoEntry = NoEntry
  Unset = Unset
  Tombstone = Tombstone
  Torn = Torn
  Devices = {1, 2}
  Conns = {c1}
  Values = {v1, Tombstone}
  TTLs = {Forever}
  RegKeys = {k1, k2}
  LogKeys = {}
  Contents = {}
  TTLArgs = {Unset}
  Openers = {1}
  PushTasks = {"debounce"}
  TornWrites = FALSE
  MaxWrites = 2
  MaxAppends = 2
  MaxNow = 0
  MaxRestarts = 1
  MaxOutstanding = 1
  DefaultTTL <- AllForever
  Skew <- NoSkew
  Writers <- OwnAndShared
INVARIANTS TypeOK UniqueStamps SavedBeforeSeen ReadYourWrites ConflictsResolved
PROPERTIES RegistersImplemented RegistersConverge
CHECK_DEADLOCK FALSE
