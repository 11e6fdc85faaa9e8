SPECIFICATION FairAppSpec
CONSTANTS
  Packets <- NfccPackets
  WriteResults = {"OK"}
  LastBlock = 15
  ReadBlock = 4
  Tags <- MCTags
  Faults = {"TAG_LOST"}
  MaxRestarts = 0
  MaxLine = 4
PROPERTY
  TagIsLetGo
CHECK_DEADLOCK FALSE
