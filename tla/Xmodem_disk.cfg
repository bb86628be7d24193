\* Disks that fail on both sides and a line that invents what it likes, an EOT
\* among it; with fairness.
SPECIFICATION FairSpec
CONSTANTS
  NBlocks = 2
  ByteMod = 3
  Faults = {"lose", "damage", "header", "stray", "diskread", "diskwrite"}
  MaxStrays = 1
  Prompt = TRUE
  Scan <- MCScanEot
  MaxErrors = 2
  MaxResends = 2
  CTries = 2
  BufCap = 1
INVARIANTS
  Rising
  ConfirmedByReceiver
PROPERTIES
  RxEnds
  TxEnds
