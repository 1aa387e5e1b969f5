SPECIFICATION Spec
CONSTANTS
  Directories <- MCDirectories
  Batch = 1
INVARIANTS
  TypeOK
  FreshIsComplete
  FailureIsReported
  HandleReleased
PROPERTIES
  ListingsGrow
  ConsumerIsTold
