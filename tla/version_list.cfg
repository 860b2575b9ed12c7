SPECIFICATION Spec
CONSTANTS
  Paths = {p1, p2, p3}
  Data = {d1, d2}
  NoFile = NoFile
  BaseVersion = 1
  Dangling = Dangling
INVARIANTS TypeOK CursorValid PathsUnique RestoreComplete
PROPERTIES InsertEnds ImplementsDraft
CHECK_DEADLOCK FALSE
