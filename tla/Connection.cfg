SPECIFICATION FairSpec
CONSTANTS
  Scripts <- AllScripts
  MaxFrames = 6
  MaxDepth = 2
CHECK_DEADLOCK FALSE
INVARIANTS OneReplyEach NothingHeldBack DepthCapped
PROPERTIES AllServed ConnectionEnds
