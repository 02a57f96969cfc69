SPECIFICATION FairSpec
CONSTANTS
  Arguments <- SomeArguments
  MaxPort = 3
  DefaultPort = 2
  MaxOthers = 2
  Workers = 2
  MaxErrors = 1
  Peers = {p, u}
  Unruly = {u}
  MaxFrames = 1
CHECK_DEADLOCK FALSE
INVARIANTS FirstFree ListenersAnnounced
PROPERTIES ArgsUnderstood StartEnds Served
