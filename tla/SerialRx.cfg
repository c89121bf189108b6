SPECIFICATION FairSpec
CONSTANTS
  Messages <- BoardMessages
  Startup <- StartupMessage
  LongSize = 3
  BufferSize = 4
  PayloadTypes = {"unknown", "MSG_OK", "MSG_COMPUTE_DATA"}
  MaxMessages = 2
  MaxLost = 1
  MaxResets = 1
CHECK_DEADLOCK FALSE
PROPERTIES
  ImplementsChannel
  HearsAgain
