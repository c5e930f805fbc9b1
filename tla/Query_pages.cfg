CONSTANTS
  Request = {"r1", "r2"}
  Host <- MCHost
  Backend = {b1, b2}
  Rows <- MCRows
  Base <- MCBase
  MaxStale = 1
  Number <- MCNumber
  U32 <- MCU32
SYMMETRY MCSymmetry
SPECIFICATION Spec
INVARIANTS ScansRight Isolation
PROPERTIES PageRight OwnPath
CHECK_DEADLOCK FALSE
