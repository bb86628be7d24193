\* Every kind of line noise except a false EOT; both disks work.
SPECIFICATION Spec
CONSTANTS
  NBlocks = 3
  ByteMod = 3
  Faults = {"lose", "damage", "header", "stray"}
  MaxStrays = 1
  Prompt = TRUE
  Scan <- MCScan3
  MaxErrors = 2
  MaxResends = 3
  CTries = 2
  BufCap = 2
PROPERTIES
  AckedIsStored
  CopySpec
