SPECIFICATION ReadSpec
CONSTANTS
  NumBuffers = 3
  BufferSize = 2
  Lens <- MCLens
  Offsets <- MCOffsets
  FileSizes <- MCFileSizes
  FaultModels <- MCFaultModels
INVARIANTS
  TypeOK
  NoIOAfterReturn
  BytesLandInPlace
  BytesCounted
  ReadsAllThereIs
PROPERTIES
  Returns
  ImplementsTransfer
