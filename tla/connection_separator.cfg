SPECIFICATION FairSpec
CONSTANTS
  Executors = {e1, e2}
  Names <- Texts
  MaxLength = 1
  Long = {}
  MaxRequests = 2
  MaxPings = 0
  MaxBreaks = 0
CHECK_DEADLOCK FALSE
PROPERTIES RequestEnds
