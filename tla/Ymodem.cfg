\* Two files over a line that loses and damages what it carries; old answers may
\* wait on it when the upload starts.
SPECIFICATION FairSpec
CONSTANTS
  NBlocks = 3
  ByteMod = 8
  Faults = {"lose", "damage", "stray"}
  MaxStrays = 1
  Prompt = TRUE
  Scan <- MCNoScan
  MaxErrors = 2
  MaxResends = 2
  CTries = 2
  BufCap = 1
  Batch <- MCBatch
INVARIANTS
  FilesInOrder
  NoMixing
PROPERTIES
  FileIsDelivered
  BatchEnds
