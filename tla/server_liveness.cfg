SPECIFICATION FairSpec
CONSTANTS
  u1 = u1
  Users <- OneUser
  Clients = {c1}
  UserOf <- SameUser
  Executors = {e1, e2}
  Tokens = {t1, t2}
  Paths = {p1}
  Data = {d1}
  MaxVersion = 2
  Workload <- AllRequests
  MaySleep = TRUE
  MayCrash = TRUE
  MayNotRead = FALSE
  NoFile = NoFile
  NoPath = NoPath
  NoToken = NoToken
  Null = Null
PROPERTIES AnswerArrives ForgottenSessionFreed
CHECK_DEADLOCK FALSE
