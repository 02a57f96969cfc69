SPECIFICATION DFairSpec
CONSTANTS
  k1 = k1
  a = a
  Nil = Nil
  None = None
  Keys <- OneKey
  Vals <- OneVal
  UsizeRange = 1000
  Requests <- SetPushRead
  Clients = {c1, c2}
  ActiveExpiration = TRUE
  SampleSize = 1
  Snapshots <- EmptyStore
  MaxTime = 0
  MaxLen = 1
  MaxQueue = 2
INVARIANTS DTypeOK QueueOnlyInTransaction QueuedHasNoEffect ExecInOrder
PROPERTIES TransactionEnds EveryCommandAnswered
