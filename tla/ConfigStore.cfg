SPECIFICATION Spec
CONSTANTS
  Threads = {t1, t2}
  MaxVersion = 2
  Sizes <- MCSizes
  MaxIVs = 2
  MaxKeys = 3
  MaxCrashes = 1
INVARIANTS
  TypeOK
  DiskIsWhole
  LoadGivesSaved
PROPERTIES
  SaveEnds
