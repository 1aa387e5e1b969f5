SPECIFICATION MCSpec
CONSTANTS
  Threads = {t1, t2}
  Files = {f1, f2}
  Documents = {d1, d2}
  Regions = {r1}
  Dirs = {x, y}
  Entries = 3
  MaxFaults = 2
  Bytes = {1, 2}
  Lengths = {1, 2}
  Offsets <- MCOffsets
  Half = 2
  MaxSize = 3
SYMMETRY Interchangeable
INVARIANTS
  TypeOK
  ReadersGetTheirEntries
  IOLandsWhereAsked
PROPERTIES
  LocksFollowTheirDocument
