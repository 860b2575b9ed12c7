SPECIFICATION Spec
CONSTANTS
  Files = {a, b}
  CanBeEmpty = {}
  OwnDirectories = {}
  Earlier = 0
  Faults = {"error"}
  MaxEdits = 3
  MaxOthers = 0
  MaxFaults = 1
  OthersMeanwhile = FALSE
CHECK_DEADLOCK FALSE
INVARIANTS InSync
