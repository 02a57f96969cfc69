SPECIFICATION Spec
CONSTANTS
  k1 = k1
  k2 = k2
  empty = empty
  long = long
  Keys = {k1, k2}
  Items = {empty, long}
  None = None
  Size <- Sizes
  Upper <- InUpper
  Wide = 65536
  MillisRange = 10
  PerMs = 2
  Epoch = 7
  Lists <- SomeLists
  Times = {0, 2, 3, 20}
  MaxTime = 2
CHECK_DEADLOCK FALSE
INVARIANTS WholeFileLoads RoundTrip CutFileLoadsPart DeadlineKept
