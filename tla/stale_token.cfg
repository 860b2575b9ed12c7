SPECIFICATION Spec
CONSTANTS
  u1 = u1
  Users <- OneUser
  Clients = {c1, c2}
  UserOf <- SameUser
  Executors = {e1, e2}
  Tokens = {t1, t2}
  Paths = {p1}
  Data = {d1}
  MaxVersion = 2
  Workload <- UpdateRequests
  MaySleep = TRUE
  MayCrash = FALSE
  MayNotRead = FALSE
  NoFile = NoFile
  NoPath = NoPath
  NoToken = NoToken
  Null = Null
INVARIANTS TokenNamesSession
CHECK_DEADLOCK FALSE
