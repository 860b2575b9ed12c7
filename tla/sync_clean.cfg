SPECIFICATION FairSpec
CONSTANTS
  Files = {a, b}
  CanBeEmpty = {}
  OwnDirectories = {}
  Earlier = 0
  Faults = {"ahead"}
  MaxEdits = 3
  MaxOthers = 1
  MaxFaults = 1
  OthersMeanwhile = FALSE
CHECK_DEADLOCK FALSE
INVARIANTS InSyncUnlessEmptied LocalFilesKept
PROPERTIES UpdateEndsOrWaits Converges
