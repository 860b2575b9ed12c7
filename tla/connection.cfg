SPECIFICATION Spec
CONSTANTS
  Executors = {e1, e2}
  Names <- Texts
  MaxLength = 4
  Long = {"request"}
  MaxRequests = 2
  MaxPings = 1
  MaxBreaks = 1
CHECK_DEADLOCK FALSE
SYMMETRY TwoExecutors
INVARIANTS TypeOK AnswerMatches FieldsSurvive TokenNamesUser
