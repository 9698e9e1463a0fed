CONSTANTS
  t0 = t0
  t1 = t1
  t2 = t2
  t3 = t3
  t4 = t4
  Ways = 4
  Sets = 2
  LineLen = 2
  Tags <- MCTags
  Lines <- MCLines
  Fetches <- MCFetches
  Stale <- MCStale
SPECIFICATION Spec
SYMMETRY TagSymmetry
INVARIANT TypeOK
INVARIANT RanksArePermutation
INVARIANT RanksAreRecency
INVARIANT NoDuplicateLine
INVARIANT LinesComplete
INVARIANT SameWayFetchIsRight
