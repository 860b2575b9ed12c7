SPECIFICATION FairSpec
CONSTANTS
  Files = {a, b}
  CanBeEmpty = {}
  OwnDirectories = {}
  Earlier = 1
  Faults = {"garble"}
  MaxEdits = 1
  MaxOthers = 0
  MaxFaults = 1
  OthersMeanwhile = FALSE
CHECK_DEADLOCK FALSE
PROPERTIES UpdateEnds
