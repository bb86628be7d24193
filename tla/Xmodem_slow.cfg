\* A line so slow that every timer may run out while an answer is under way.
SPECIFICATION Spec
CONSTANTS
  NBlocks = 3
  ByteMod = 8
  Faults = {"lose", "damage", "header"}
  MaxStrays = 0
  Prompt = FALSE
  Scan <- MCScan3
  MaxErrors = 1
  MaxResends = 2
  CTries = 1
  BufCap = 2
INVARIANTS
  HeldIsPrefix
