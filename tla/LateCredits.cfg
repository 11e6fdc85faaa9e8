SPECIFICATION AppSpec
CONSTANTS
  Packets <- NfccPackets
  WriteResults = {"OK"}
  LastBlock = 15
  ReadBlock = 4
  Tags <- MCTags
  Faults = {"LATE_CREDITS"}
  MaxRestarts = 0
  MaxLine = 4
INVARIANT
  OneRequest
CHECK_DEADLOCK FALSE
