SPECIFICATION AppSpec
CONSTANTS
  Packets <- NfccPackets
  WriteResults = {"OK"}
  LastBlock = 15
  ReadBlock = 4
  Tags <- MCTags
  Faults = {"READ_ERROR"}
  MaxRestarts = 0
  MaxLine = 4
INVARIANT
  WholeTagDumped
CHECK_DEADLOCK FALSE
