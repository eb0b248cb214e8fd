SPECIFICATION Spec
CONSTANTS
  None = None
  Keys <- MCKeys
  Values <- MCValues
  Hash <- Integers
  Rank <- MCRank
  InitCap = 4
  TreeifyAt = 4
  UntreeifyBelow = 3
  MinTreeCap = 8
  MaxCap = 16
  Copies = 2
INVARIANT HasWhatWasSet
