SPECIFICATION SysSpec
CONSTANTS
  Packets <- NfccPackets
  WriteResults = {"OK"}
  LastBlock = 7
  ReadBlock = 4
  Tags <- OneTag
  Faults = {"RSP_FAILED", "READ_ERROR", "LATE_CREDITS", "TAG_LOST", "EMPTY_ANSWER", "FRAME_LOST"}
  MaxRestarts = 1
  MaxLine = 3
INVARIANTS
  HostInStep
CHECK_DEADLOCK FALSE
