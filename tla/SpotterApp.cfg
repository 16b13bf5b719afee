SPECIFICATION SpotterSpec
SYMMETRY PageSymmetry
CONSTANTS
  Null = Null
  Slots = {w1, w2}
  Rooms = {r1, r2}
  Names = {n1}
  Urls <- Forms
  Rows = {left, right}
  Levels = {0, 1}
  PING_INTERVAL_MS = 1
  SOCKET_SILENT_MS = 1
  CONNECT_TIMEOUT_MS = 1
  RECONNECT_MIN_MS = 1
  RECONNECT_MAX_MS = 1
  MaxSeq = 1
  MaxCalls = 4
  MaxFaults = 1
  MaxTouches = 1
  Freezes = FALSE
  Drags = TRUE
INVARIANTS
  SpotterTypeOK
  SessionsAgree
  NoDeadConsole
PROPERTIES
  SeenRoomStays
  WaitingRowsAreRebased
  UsesClient
