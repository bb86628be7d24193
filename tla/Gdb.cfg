\* Any number of debuggers, wake-ups and machines: nothing is bounded.
SPECIFICATION GdbFairSpec
INVARIANTS
  Exclusive
  RepliesMatch
  WireIsClean
  LockIsReturned
PROPERTIES
  StepReturns
  RunsAgain
