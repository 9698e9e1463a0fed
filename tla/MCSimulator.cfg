CONSTANTS
  Bytes = {}
  BootMesg <- MCBoot
  TestBin <- MCTestBin
  Addr = 16
  SR = 12
  BR = 8
  Data = {40, 48}
  Result = 32
  Frame = 56
  Expected = "right"
  Results = {"right", "wrong"}
  Work = 1
  Code <- MCCode
  StoreBufferSize = 2
  Sweeps <- MCSweeps
  MaxSize = 128
  Heaps <- MCHeaps
  LongMax = 100000
  MaxTime = 2000
SPECIFICATION Spec
INVARIANT StoredLinesAreDirty
INVARIANT NoStaleStores
INVARIANT BestIsLeast
PROPERTY LruReplacement
PROPERTY LoadWaitsForStores
PROPERTY ClockForward
PROPERTY TestEnds
