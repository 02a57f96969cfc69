SPECIFICATION SSpec
CONSTANTS
  k1 = k1
  k2 = k2
  a = a
  Nil = Nil
  None = None
  Keys <- BothKeys
  Vals <- Strings
  UsizeRange = 1000
  Requests <- Writes
  Clients = {c1}
  ActiveExpiration = TRUE
  SampleSize = 1
  Snapshots <- EmptyStore
  MaxTime = 1
  MaxLen = 1
INVARIANT PointInTime
