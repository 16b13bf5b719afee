SPECIFICATION QueueSpec
CONSTANTS
  Null = Null
  Jobs <- SomeJobs
  Messages <- SomeMessages
  OneLine <- SpaceForBreak
  Statuses = {"CONNECTING", "L"}
  HUD_GAP_FLUSH_MS = 2
  SEND_FAILED_LIMIT = 3
  MaxPushes = 3
  MaxFails = 3
INVARIANTS
  QueueTypeOK
  NothingIsForgotten
