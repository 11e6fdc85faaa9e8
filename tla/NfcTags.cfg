SPECIFICATION Spec
CONSTANTS
  Packets <- MCPackets
  WriteResults = {"OK", "FAILED"}
  LastBlock = 7
  ReadBlock = 4
INVARIANTS
  TypeOK
  LayersAgree
  DumpInBounds
  SuccessIsReal
  OkCallbackData
PROPERTIES
  RefusedPacketChangesNothing
  SessionSpec
