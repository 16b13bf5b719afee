SPECIFICATION Spec
SYMMETRY LinkSymmetry
CONSTANTS
  Null = Null
  Slots = {w1, w2}
  Urls = {u1, u2}
  PING_INTERVAL_MS = 1
  SOCKET_SILENT_MS = 2
  CONNECT_TIMEOUT_MS = 3
  RECONNECT_MIN_MS = 1
  RECONNECT_MAX_MS = 2
  MaxSeq = 1
  MaxCalls = 3
  MaxFaults = 2
  Freezes = FALSE
INVARIANTS
  TypeOK
  OneSocketInUse
  NeverStranded
  WatchedSocket
  IntentsStayInTheirRoom
  IntentsInOrder
PROPERTIES
  NoIntentIsLost
  ShowsView
