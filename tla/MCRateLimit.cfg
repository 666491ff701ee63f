\* A window of one second, and time for three of them.
CONSTANTS
  Client = {c1, c2}
  Limit = 2
  Window = 2
  Second = 2
  MaxNow = 7
  MaxRefused = 2
SYMMETRY Symmetry
SPECIFICATION Spec
INVARIANTS AtMostTwiceTheLimit OnlyThisWindow
PROPERTIES BackingOffWorks
CHECK_DEADLOCK FALSE
