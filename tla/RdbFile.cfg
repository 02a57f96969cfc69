SPECIFICATION FileSpec
CONSTANTS
  NoFile = NoFile
  MaxSaves = 4
  Exclusive = TRUE
  Blocks <- UnevenBlocks
  Refused = {2}
INVARIANTS DumpIntact NewestSurvives
PROPERTY DumpChangesOnlyByRename
