SPECIFICATION FairSpec
CONSTANTS
  input = input
  serial_rx = serial_rx
  main = main
  key = key
  message = message
  NoEvent = NoEvent
  NoThread = NoThread
  Pushers = {input, serial_rx, main}
  Poppers = {main}
  Events = {key, message}
  QUEUE_CAPACITY = 3
  Spurious = TRUE
CHECK_DEADLOCK FALSE
INVARIANTS
  TypeOK
  NoLostWakeup
  CleanupNeverWaits
PROPERTIES
  ImplementsFifo
  PopReturns
