SPECIFICATION Spec
CONSTANTS
  Executors = {e1, e2, e3}
  Messages = {m1, m2}
  Fresh = {FALSE}
  NoMessage = NoMessage
INVARIANT NoPushAfterExit
CHECK_DEADLOCK FALSE
