SPECIFICATION FileSpec
CONSTANTS
  NoFile = NoFile
  MaxSaves = 2
  Exclusive = FALSE
  Blocks <- UnevenBlocks
  Refused = {2}
INVARIANT DumpIntact
