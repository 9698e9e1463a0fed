CONSTANTS
  Words = 2
  BurstLen = 2
  LineLen = 2
  Sets = 2
  Lanes = {1}
  Byte = {0, 1}
  Depth = 2
  Fetches = {0}
  BaseStores <- MCBaseStores
  ExtStores <- MCExtStores
  Initial <- MCInitial
SPECIFICATION FairSpec
INVARIANT AckMeansStored
INVARIANT OneLoadAtATime
PROPERTY BaseIsBank
PROPERTY ExtIsBank
PROPERTY RequestsComplete
