SPECIFICATION Spec
CONSTANTS
  Files = {a, b}
  CanBeEmpty = {a}
  OwnDirectories = {"own"}
  Earlier = 0
  Faults = {"lose", "error", "garble", "disk", "crash"}
  MaxEdits = 2
  MaxOthers = 1
  MaxFaults = 1
  OthersMeanwhile = FALSE
CHECK_DEADLOCK FALSE
INVARIANTS TypeOK ListIsTrue
