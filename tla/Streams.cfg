SPECIFICATION Spec
CONSTANTS
  Objects = {s1, s2}
  Kinds = {"out", "rw"}
  Handles = {h1, h2}
  Contents <- MCContents
  Data <- MCData
  MaxIO = 2
  MaxLen = 3
  MaxFaults = 1
SYMMETRY Interchangeable
INVARIANTS
  TypeOK
  OpenAreOwned
  ReadsInOrder
  WritesInOrder
  ReadsALine
