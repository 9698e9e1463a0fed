CONSTANTS
  Words = 8
  BurstLen = 4
  LineLen = 4
  Sets = 2
  Lanes = {1, 2}
  Byte = {0, 1}
  Depth = 2
  Fetches = {0, 4}
  Stores <- MCStores
  ResetDuringFill = TRUE
  Initial <- MCInitial
SPECIFICATION Spec
INVARIANT WordsOfTheLine
