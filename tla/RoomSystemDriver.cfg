CONSTANTS
  Null = Null
  Clients <- OneDriver
  RoleOf <- OwnRole
  Sockets = {s1, s2}
  Lanes = {}
  CAR_LEVEL_MAX = 0
  PRESETS_MAX = 0
  PEER_OFFLINE_MS = 0
  ALARM_TICK_MS = 0
  HUD_STALE_CLEAR_MS = 1
  ROOM_TTL_MS = 1
  RECONNECT_MIN_MS = 1
  RECONNECT_MAX_MS = 1
  AlarmLatency = 1
  Faults = {"restart"}
  Epoch = 1
  MaxTime = 1
  MaxSeq = 30
  MaxCalls = 0
  MaxFaults = 1
SPECIFICATION SystemSpec
INVARIANTS OwnSocketNeverLocksOut
CHECK_DEADLOCK FALSE
