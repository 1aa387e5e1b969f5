SPECIFICATION MCSpec
CONSTANTS
  Root = "/"
  Paths = {"a", "ab", "abc", "abd"}
  Parent <- MCParent
  Hidden = {"abd"}
  Files = {f1}
  Lengths = {0}
  MaxWrites = 1
  MaxChanges = 0
  MaxFaults = 0
INVARIANT MakesParents
