SPECIFICATION FairSpec
CONSTANTS
  c1 = c1
  Cs = {c1}
  Zero = Zero
  Commands <- PcCommands
  LongSize = 3
  TX_SIZE = 3
  RX_SIZE = 4
  PayloadTypes = {"unknown", "MSG_OK"}
  MaxCommands = 2
  MaxPresses = 1
  MaxLost = 1
CHECK_DEADLOCK FALSE
INVARIANTS
  TransmitterRuns
  AnswersInFrame
PROPERTIES
  ImplementsNucleo
  ComesToRest
