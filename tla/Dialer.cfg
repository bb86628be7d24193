\* A byte counts modulo five: no, one, two, three or endless tries, of one second or two.
SPECIFICATION DialerSpec
CONSTANTS
  ByteMod = 5
  MaxTries = 3
  MaxWait = 1
  ShortReplies = FALSE
INVARIANTS
  CallsAreReal
  CallsAreNoticed
PROPERTIES
  DialerEnds
