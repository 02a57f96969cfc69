SPECIFICATION Spec
CONSTANTS
  k1 = k1
  k2 = k2
  k3 = k3
  a = a
  b = b
  Nil = Nil
  None = None
  Keys <- OneKey
  Vals <- Strings
  UsizeRange = 1000
  Requests <- EveryRequest
  Clients = {c1}
  ActiveExpiration = FALSE
  SampleSize = 1
  Snapshots <- EmptyStore
  MaxTime = 4
  MaxLen = 3
INVARIANT MapsInSync
PROPERTY Linearizable
