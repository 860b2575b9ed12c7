SPECIFICATION Spec
CONSTANTS
  u1 = u1
  Users <- OneUser
  Clients = {c1, c2}
  UserOf <- SameUser
  Executors = {e1, e2}
  Tokens = {t1, t2}
  Paths = {p1}
  Data = {d1, d2}
  MaxVersion = 2
  Workload <- HazardRequests
  MaySleep = TRUE
  MayCrash = TRUE
  MayNotRead = TRUE
  NoFile = NoFile
  NoPath = NoPath
  NoToken = NoToken
  Null = Null
SYMMETRY Symmetry
INVARIANTS VersionsContiguous
PROPERTIES HistoryKept
CHECK_DEADLOCK FALSE
