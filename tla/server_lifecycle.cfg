SPECIFICATION FairSpec
CONSTANTS
  Executors = {e1, e2, e3}
  Messages = {m1, m2}
  Fresh = {FALSE, TRUE}
  NoMessage = NoMessage
INVARIANTS TypeOK ExecutorsSpareFreed
PROPERTIES ShutdownCompletes QueuedIsProcessed
CHECK_DEADLOCK FALSE
