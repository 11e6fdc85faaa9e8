SPECIFICATION AppSpec
CONSTANTS
  Packets <- NfccPackets
  WriteResults = {"OK"}
  LastBlock = 15
  ReadBlock = 4
  Tags <- MCTags
  Faults = {}
  MaxRestarts = 1
  MaxLine = 4
INVARIANT
  NeverError
CHECK_DEADLOCK FALSE
