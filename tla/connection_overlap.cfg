SPECIFICATION Spec
CONSTANTS
  Executors = {e1, e2}
  Names <- Texts
  MaxLength = 1
  Long = {"request", "answer"}
  MaxRequests = 3
  MaxPings = 1
  MaxBreaks = 0
CHECK_DEADLOCK FALSE
SYMMETRY TwoExecutors
INVARIANTS AnswerMatches
