SPECIFICATION FairAppSpec
CONSTANTS
  Packets <- NfccPackets
  WriteResults = {"OK"}
  LastBlock = 15
  ReadBlock = 4
  Tags <- MCTags
  Faults = {}
  MaxRestarts = 0
  MaxLine = 4
INVARIANTS
  SketchTypeOK
  NeverError
  OneRequest
  InterfaceIsTheTag
PROPERTIES
  ReaderSpec
  TagIsLetGo
