SPECIFICATION MCSpec
CONSTANTS
  Root = "/"
  Paths = {"a", "ab", "ac", "abc"}
  Parent <- MCParent
  Hidden = {"ac"}
  Files = {f1, f2}
  Lengths = {0, 1}
  MaxWrites = 1
  MaxChanges = 2
  MaxFaults = 2
SYMMETRY Interchangeable
INVARIANTS
  TypeOK
  KnownWasTrue
  DeleteTrueMeansRemoved
  MkdirsGetsNearer
  MkdirsTrueMeansMade
  ListingIsTrue
