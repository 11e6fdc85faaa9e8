SPECIFICATION SysSpec
CONSTANTS
  Packets <- NfccPackets
  WriteResults = {"OK"}
  LastBlock = 15
  ReadBlock = 4
  Tags <- MCTags
  Faults = {}
  MaxRestarts = 0
  MaxLine = 4
PROPERTY
  ActivatedTagCanBeDumped
CHECK_DEADLOCK FALSE
