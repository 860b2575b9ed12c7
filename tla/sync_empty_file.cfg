SPECIFICATION Spec
CONSTANTS
  Files = {a, b}
  CanBeEmpty = {a}
  OwnDirectories = {}
  Earlier = 0
  Faults = {}
  MaxEdits = 2
  MaxOthers = 0
  MaxFaults = 0
  OthersMeanwhile = FALSE
CHECK_DEADLOCK FALSE
INVARIANTS InSync
