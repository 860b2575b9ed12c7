SPECIFICATION Spec
CONSTANTS
  Files = {a, b}
  CanBeEmpty = {}
  OwnDirectories = {}
  Earlier = 0
  Faults = {}
  MaxEdits = 2
  MaxOthers = 1
  MaxFaults = 0
  OthersMeanwhile = TRUE
CHECK_DEADLOCK FALSE
INVARIANTS ListIsTrue
