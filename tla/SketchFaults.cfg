SPECIFICATION AppSpec
CONSTANTS
  Packets <- NfccPackets
  WriteResults = {"OK"}
  LastBlock = 15
  ReadBlock = 4
  Tags <- MCTags
  Faults = {"RSP_FAILED", "READ_ERROR", "TAG_LOST", "EMPTY_ANSWER", "FRAME_LOST"}
  MaxRestarts = 1
  MaxLine = 4
INVARIANTS
  DumpInOrder
  DumpStatusInitialized
  SketchFollowsTags
  Conversation
  Reading
CHECK_DEADLOCK FALSE
