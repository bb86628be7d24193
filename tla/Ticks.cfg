\* A counter that wraps after eight seconds, a clock that wraps after eight.
SPECIFICATION TicksSpec
CONSTANTS
  Wrap = 8
  HasDevice = TRUE
  Base = 2
  Limit = 5
  Gap = 3
  Busy = 3
  MaxSeconds = 12
INVARIANTS
  NeverLate
PROPERTIES
  ClockIsRight
  NeverEarly
