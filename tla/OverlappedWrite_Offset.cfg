SPECIFICATION WriteSpec
CONSTANTS
  NumBuffers = 3
  BufferSize = 2
  Lens <- MCLens
  Offsets <- MCOffsetOne
  FileSizes <- MCFileSizes
  FaultModels <- MCNoFaults
INVARIANT WritesTheSubArray
