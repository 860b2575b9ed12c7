SPECIFICATION Spec
CONSTANTS
  u1 = u1
  Users <- OneUser
  Clients = {c1, c2}
  UserOf <- SameUser
  Executors = {e1, e2}
  Tokens = {t1, t2, t3}
  Paths = {p1, p2}
  Data = {d1, d2}
  MaxVersion = 2
  Workload <- UpdateRequests
  MaySleep = FALSE
  MayCrash = FALSE
  MayNotRead = FALSE
  NoFile = NoFile
  NoPath = NoPath
  NoToken = NoToken
  Null = Null
SYMMETRY Symmetry
INVARIANTS TokenNamesSession
PROPERTIES ImplementsHistory
CHECK_DEADLOCK FALSE
