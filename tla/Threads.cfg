SPECIFICATION FairThreads
CONSTANTS
  EVENT_CAPACITY = 2
  MaxKeys = 4
  MaxMessages = 3
  LedKeys = {"s", "e", "h", "1", "b", "x"}
  MaxLedKeys = 2
  MaxResets = 1
  LINK_CAPACITY = 2
  FirstPeriod = 30
  Step = 10
  MinPeriod = 10
  MaxPeriod = 50
  MaxAlarmKeys = 5
CHECK_DEADLOCK FALSE
INVARIANTS
  LeavesOnRequest
  LedstateAgrees
PROPERTIES
  QuitEnds
  OnlyOutputCanHang
  ScreenCatchesUp
  OutputMayOversleep
