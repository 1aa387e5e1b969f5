SPECIFICATION WriteSpec
CONSTANTS
  NumBuffers = 3
  BufferSize = 2
  Lens <- MCLens
  Offsets <- MCOffsets
  FileSizes <- MCFileSizes
  FaultModels <- MCFaultModels
INVARIANTS
  NoSilentLoss
  NoFalseAlarm
PROPERTIES
  Returns
  ImplementsTransfer
