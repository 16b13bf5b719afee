SPECIFICATION DriverSpec
CONSTANTS
  Null = Null
  HeardMax = 2
  DRIVER_NO_LINK_MS = 1
  LINK_CHECK_MS = 1
  STATUS_BLINK_MS = 1
  FOREGROUND_DEBOUNCE_MS = 0
  SOCKET_HEALTHY_MS = 0
  MSG_AUTO_ACK_MS = 2
  MSG_BLINK_MS = 1
  Phases = 3
  RoomCodes = {RoomA, RoomB}
  MaxMessages = 2
  MaxFrames = 1
SYMMETRY RoomSymmetry
INVARIANTS
  DriverTypeOK
  StaleIsNeverLive
  MessageLeavesInTime
  HiddenIsAcked
