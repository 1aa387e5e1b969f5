SPECIFICATION Spec
CONSTANTS
  Objects = {s1, s2}
  Kinds = {"in", "append"}
  Handles = {h1, h2}
  Contents <- MCContents
  Data <- MCData
  MaxIO = 2
  MaxLen = 4
  MaxFaults = 0
INVARIANT Appends
