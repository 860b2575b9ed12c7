SPECIFICATION Spec
CONSTANTS
  u1 = u1
  Users <- OneUser
  Clients = {c1, c2}
  UserOf <- SameUser
  Executors = {e1, e2}
  Tokens = {t1, t2, t3}
  Paths = {p1}
  Data = {d1, d2}
  MaxVersion = 2
  Workload <- UpdateRequests
  MaySleep = FALSE
  MayCrash = FALSE
  MayNotRead = FALSE
  NoFile = NoFile
  NoPath = NoPath
  NoToken = NoToken
  Null = Null
INVARIANTS CommittedFilesKept
CHECK_DEADLOCK FALSE
