SPECIFICATION Spec
CONSTANTS
  Period = 2
  Buffer = 2
  Life = 3
CHECK_DEADLOCK FALSE
INVARIANTS PositionsAreTrue StreamIsWhole ExitIsClean
PROPERTIES EndsOnceStopped
