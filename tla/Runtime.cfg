CONSTANTS
  Attempts = 2
  MaxUpdates = 2
SPECIFICATION RuntimeSpec
INVARIANTS NeedsAreUp
PROPERTIES StopsClean
CHECK_DEADLOCK FALSE
