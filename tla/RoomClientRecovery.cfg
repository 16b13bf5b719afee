SPECIFICATION FairSpec
CONSTANTS
  Null = Null
  Slots = {w1, w2}
  Urls = {u1}
  PING_INTERVAL_MS = 1
  SOCKET_SILENT_MS = 2
  CONNECT_TIMEOUT_MS = 3
  RECONNECT_MIN_MS = 1
  RECONNECT_MAX_MS = 2
  MaxSeq = 1
  MaxCalls = 1
  MaxFaults = 2
  Freezes = TRUE
PROPERTIES
  LinkComesBack
