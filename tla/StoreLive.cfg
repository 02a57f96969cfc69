SPECIFICATION FairSpec
CONSTANTS
  k1 = k1
  k2 = k2
  k3 = k3
  a = a
  b = b
  Nil = Nil
  None = None
  Keys <- TwoKeys
  Vals <- Strings
  UsizeRange = 1000
  Requests <- ExpiringUses
  Clients = {c1, c2}
  ActiveExpiration = TRUE
  SampleSize = 1
  Snapshots <- ExpiringPair
  MaxTime = 1
  MaxLen = 1
PROPERTIES OverdueCleared ExpiringValueCleared ReaperSleeps
