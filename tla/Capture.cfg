\* A buffer of four bytes, five characters of text, one aborted download, and
\* a disk that may be full.
SPECIFICATION CaptureSpec
CONSTANTS
  Cap = 4
  Block = 2
  DiskFails = TRUE
  MaxText = 5
  MaxAborts = 1
INVARIANTS
  NoTextLost
  NothingTwice
  CaptureIsExact
  ClosedIsComplete
  BufferBounded
