SPECIFICATION FairSpec
CONSTANTS
  k1 = k1
  k2 = k2
  k3 = k3
  a = a
  b = b
  Nil = Nil
  None = None
  Keys <- OneKey
  Vals <- Strings
  UsizeRange = 1000
  Requests <- OnlySetEx
  Clients = {c1}
  ActiveExpiration = TRUE
  SampleSize = 1
  Snapshots <- EmptyStore
  MaxTime = 2
  MaxLen = 1
PROPERTIES ExpiringValueCleared
