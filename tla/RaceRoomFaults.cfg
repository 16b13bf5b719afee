SPECIFICATION Spec
SYMMETRY SocketSymmetry
CONSTANTS
  Null = Null
  Sockets = {s1, s2}
  Pins = {}
  BadPin = BadPin
  Lanes = {l1}
  Texts = {t1}
  CAR_LEVEL_MAX = 3
  PRESETS_MAX = 1
  CarReports <- SomeReports
  Urls <- OpenUrls
  PEER_OFFLINE_MS = 2
  ALARM_TICK_MS = 1
  HUD_STALE_CLEAR_MS = 2
  ROOM_TTL_MS = 3
  AlarmLatency = 0
  Faults = {"hibernate", "restart", "crash"}
  LegacyRooms = {}
  Epoch = 3
  MaxTime = 6
  MaxSeq = 4
INVARIANTS
  TypeOK
  HudClearedInTime
  CacheCoherent
  PresenceMatchesSockets
  OneDriver
  LiveSocketsShareTheRoom
