SPECIFICATION Spec
CONSTANTS
  None = None
  Texts <- AllTexts
  Size <- Sizes
  NotUtf8 = {"latin1"}
  Upper <- InUpper
  Number <- Parsed
  I64Max = 900
  UsizeMax = 999
  MaxDepth = 2
  I32Max = 31
  U64Range = 1000
  PerSecond = 4
  Streams <- AllStreams
CHECK_DEADLOCK FALSE
INVARIANTS SegmentsDoNotMatter CommandsFitStore LifetimeKept OnlyShortRequestsPanic
PROPERTY ParseStable
