SPECIFICATION Spec
CONSTANTS
  Executors = {e1, e2}
  Nobody = Nobody
  MaxFaults = 0
  Requests <- Registrations
  u1 = u1
  u2 = u2
  p1 = p1
  p2 = p2
  p3 = p3
  f1 = f1
  f2 = f2
  f3 = f3
CHECK_DEADLOCK FALSE
INVARIANTS RegisteredAsAsked
