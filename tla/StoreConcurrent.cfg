SPECIFICATION Spec
CONSTANTS
  k1 = k1
  k2 = k2
  k3 = k3
  a = a
  b = b
  Nil = Nil
  None = None
  Keys <- ThreeKeys
  Vals <- Strings
  UsizeRange = 1000
  Requests <- SeparateUses
  Clients = {c1, c2}
  ActiveExpiration = TRUE
  SampleSize = 1
  Snapshots <- ExpiringAndLasting
  MaxTime = 1
  MaxLen = 2
PROPERTIES KeyUntouched PurgeOnlyOverdue Linearizable
SYMMETRY ClientSymmetry
