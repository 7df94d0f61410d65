SPECIFICATION Spec
CONSTANTS
  NoStream = NoStream
  NoFeed = NoFeed
  Streams = {1, 2, 3}
  QueueSize = 1
  WireSize = 1
  MaxEvents = 2
  MaxStops = 1
  Window <- SmallWindows
  Recent = 1
  FirstDelay = 1
  LongestDelay = 2
  EventType <- InvokeAndConnect
  Filters = {"all", "invoke"}
  MaxMoves = 1
  MaxPauses = 1
INVARIANTS TypeOK OneSource ClientsAreServed LiveIsTrue FooterHonest
PROPERTIES PausedHolds FeedsImplemented Reconnects DeadIsNoticed LastArrives
CHECK_DEADLOCK FALSE
