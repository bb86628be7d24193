\* Two events of the machine's and one of the user interface's; the times wrap
\* round every 18 ticks, nine frames of two.
SPECIFICATION FairSpec
CONSTANTS
  UiEvents = {u1}
  MachineEvents = {m1, m2}
  Half = 9
  Frame = 2
  MaxDt = 4
  MinUi = 4
INVARIANTS
  TimeIsKept
  LateBounded
PROPERTIES
  TimersSpec
  EventHappens
