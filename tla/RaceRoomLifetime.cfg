SPECIFICATION Spec
SYMMETRY SocketSymmetry
CONSTANTS
  Null = Null
  Sockets = {s1, s2}
  Pins = {p1}
  BadPin = BadPin
  Lanes = {}
  Texts = {}
  CAR_LEVEL_MAX = 3
  PRESETS_MAX = 1
  CarReports <- NoReports
  Urls <- PinUrls
  PEER_OFFLINE_MS = 2
  ALARM_TICK_MS = 1
  HUD_STALE_CLEAR_MS = 2
  ROOM_TTL_MS = 3
  AlarmLatency = 0
  Faults = {}
  LegacyRooms = {2}
  Epoch = 3
  MaxTime = 7
  MaxSeq = 4
INVARIANTS
  PinGuardsRoom
  FramesPassTheSeqGate
  SilentPeerReaped
PROPERTY
  ExpiresOnlyAfterTTL
