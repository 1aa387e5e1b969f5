SPECIFICATION ReadSpec
CONSTANTS
  NumBuffers = 3
  BufferSize = 2
  Lens <- MCLens
  Offsets <- MCOffsets
  FileSizes <- MCFileSizes
  FaultModels <- MCSyncOnly
INVARIANT AllCompletionsIn
