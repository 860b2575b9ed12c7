SPECIFICATION Spec
CONSTANTS
  Files = {a, b}
  CanBeEmpty = {}
  OwnDirectories = {}
  Earlier = 0
  Faults = {}
  MaxEdits = 1
  MaxOthers = 1
  MaxFaults = 0
  OthersMeanwhile = TRUE
CHECK_DEADLOCK FALSE
INVARIANTS NoSynchStays
