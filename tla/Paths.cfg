\* A table of eleven paths: one leaked path is harmless, two are not.
SPECIFICATION PathsSpec
CONSTANTS
  MaxPath = 11
INVARIANTS
  PathsInv
  LineStays
PROPERTIES
  BreakEndsZModem
