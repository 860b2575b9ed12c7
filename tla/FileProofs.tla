------------------------------ MODULE FileProofs ------------------------------
(***************************************************************************)
(* The files of StorageServer where a user has one device and no session   *)
(* times out: what the rows of a committed version list is on disk, and a  *)
(* restore gives it back file by file.  With two devices or the session    *)
(* cleaner at work neither holds (see the runs commit_window and           *)
(* cleaner_race).                                                          *)
(***************************************************************************)
EXTENDS SessionProofs

------------------------------------------------------------------------------
(* An update.                                                              *)

RowOnDisk(u, v, p) ==
  db[u][v][p] # NoFile =>
    /\ db[u][v][p].dir <= v
    /\ ReadFile(u, db[u][v][p].dir, p) = db[u][v][p].date
UserRows(u) == \A v \in DOMAIN db[u] : \A p \in Paths : RowOnDisk(u, v, p)

\* The file a version lists at p is in its own directory or an older one.
OnDisk(u, v, p) ==
  v.files[p] # NoFile =>
    /\ v.files[p].dir <= v.id + 1
    /\ ReadFile(u, v.files[p].dir, p) = v.files[p].date

Replacing(c, p) == \E e \in ServedBy(c) : exec[e].at = "stored" /\ exec[e].msg.path = p

\* The directory an update writes to is that of no committed version; until the
\* new entry is listed, the content of the old one may be gone.
UpdateInv(c) ==
  InTable(c) /\ client[c].mode = "update" /\ Sess(c).version # Null =>
    /\ DOMAIN db[UserOf[c]] = 1..Sess(c).version.id
    /\ \A p \in Paths : Replacing(c, p) \/ OnDisk(UserOf[c], Sess(c).version, p)

UpdateStepInv(c, e) ==
  /\ exec[e].at \in Committing =>
       /\ DOMAIN db[UserOf[c]] = 1..exec[e].ver.id
       /\ \A p \in Paths : OnDisk(UserOf[c], exec[e].ver, p)
  /\ exec[e].at = "stored" =>
       ReadFile(UserOf[c], exec[e].ver.id + 1, exec[e].msg.path) = exec[e].msg.date

------------------------------------------------------------------------------
(* A restore.                                                              *)

\* A version that is restored has rows of a committed one.
FromRows(u, v) ==
  \A p \in Listed(v) :
    /\ v.id \in DOMAIN db[u]
    /\ db[u][v.id][p] # NoFile
    /\ db[u][v.id][p].dir = v.files[p].dir
    /\ db[u][v.id][p].date = v.files[p].date

IsAck(m) == m.kind = "RestoreFileAck"
Acking(c) == \/ \E m \in Queue(c) : IsAck(m)
             \/ \E e \in ServedBy(c) : IsAck(exec[e].msg)
Acked(c) == \/ \E m \in Queue(c) : IsAck(m) /\ m.ok
            \/ \E e \in ServedBy(c) : IsAck(exec[e].msg) /\ exec[e].msg.ok

\* The files a client does not have yet.
Left(c) == IF Acked(c) THEN Sess(c).todo \ {Sess(c).cur} ELSE Sess(c).todo

\* The contents of v without the files of left.
Without(v, left) ==
  [p \in Paths |-> IF p \in Listed(v) \ left THEN v.files[p].date ELSE NoFile]

\* What a client has is what the cursor has passed, and what it is offered is
\* the file the cursor stands at.
RestoreInv(c) ==
  InTable(c) /\ client[c].mode = "restore" /\ Sess(c).version # Null =>
    /\ FromRows(UserOf[c], Sess(c).version)
    /\ Sess(c).todo \subseteq Listed(Sess(c).version)
    /\ IF Sess(c).cur = NoPath THEN Listed(Sess(c).version) = {}
                               ELSE Sess(c).cur \in Sess(c).todo
    /\ client[c].view = Without(Sess(c).version, Left(c))
    /\ client[c].offer # Null =>
         client[c].offer = [path |-> Sess(c).cur,
                            data |-> Sess(c).version.files[Sess(c).cur].date]
    /\ client[c].offer # Null \/ Acking(c) => Sess(c).cur # NoPath

\* A client that has sent a request has acknowledged what it was offered.
OfferInv(c) ==
  client[c].offer # Null =>
    client[c].mode = "restore" /\ Queue(c) = {} /\ ServedBy(c) = {}

RestoreStepInv(c, e) ==
  /\ exec[e].at \in {"first", "send", "RestoreFileAck"} =>
       (exec[e].at = "RestoreFileAck" <=> IsAck(exec[e].msg))
  /\ exec[e].at = "restored" =>
       /\ FromRows(UserOf[c], exec[e].ver)
       /\ client[c].view = Promised(exec[e].ver.files)

------------------------------------------------------------------------------
FilesOf(c) ==
  /\ UpdateInv(c)
  /\ RestoreInv(c)
  /\ OfferInv(c)
  /\ \A e \in ServedBy(c) : UpdateStepInv(c, e) /\ RestoreStepInv(c, e)

FileInv ==
  /\ SessionInv
  /\ \A u \in Users : UserRows(u)
  /\ \A c \in Clients : FilesOf(c)

------------------------------------------------------------------------------
(* What a step for one user leaves the others.                             *)

\* Nothing of another user's rows and files changes.
Elsewhere(c) ==
  \A u \in Users \ {UserOf[c]} :
    /\ db'[u] = db[u]
    /\ \A n, p : ReadFile(u, n, p)' = ReadFile(u, n, p)

ServesFiles(c) == UserRows(UserOf[c])' /\ FilesOf(c)' /\ Elsewhere(c)

LEMMA UserRowsStay ==
  ASSUME NEW u, UserRows(u), db'[u] = db[u],
         \A n, p : ReadFile(u, n, p)' = ReadFile(u, n, p)
  PROVE  UserRows(u)'
BY DEF UserRows, RowOnDisk

LEMMA OnDiskStays ==
  ASSUME NEW u, \A n, p : ReadFile(u, n, p)' = ReadFile(u, n, p)
  PROVE  \A v, p : OnDisk(u, v, p)' <=> OnDisk(u, v, p)
BY DEF OnDisk

LEMMA FromRowsStays ==
  ASSUME NEW u, db'[u] = db[u]
  PROVE  \A v : FromRows(u, v)' <=> FromRows(u, v)
BY DEF FromRows

LEMMA SameDisk ==
  ASSUME disk' = disk
  PROVE  \A u, n, p : ReadFile(u, n, p)' = ReadFile(u, n, p)
BY DEF ReadFile

\* The same requests, under way or served.
LEMMA SameRequests ==
  ASSUME NEW d, Queue(d)' = Queue(d), ServedBy(d)' = ServedBy(d),
         \A e \in ServedBy(d) : exec'[e].at = exec[e].at /\ exec'[e].msg = exec[e].msg
  PROVE  /\ Acked(d)' <=> Acked(d)
         /\ Acking(d)' <=> Acking(d)
         /\ \A p : Replacing(d, p)' <=> Replacing(d, p)
BY DEF Acked, Acking, Replacing

\* Nothing of what a client's files depend on changes.
LEMMA SameFilesOf ==
  ASSUME NEW d, FilesOf(d), client'[d] = client[d],
         Queue(d)' = Queue(d), ServedBy(d)' = ServedBy(d),
         \A e \in ServedBy(d) : exec'[e] = exec[e],
         InTable(d)' => InTable(d) /\ Sess(d)' = Sess(d),
         db'[UserOf[d]] = db[UserOf[d]],
         \A n, p : ReadFile(UserOf[d], n, p)' = ReadFile(UserOf[d], n, p)
  PROVE  FilesOf(d)'
<1> DEFINE u == UserOf[d]
<1>1. /\ UpdateInv(d) /\ RestoreInv(d) /\ OfferInv(d)
      /\ \A e \in ServedBy(d) : UpdateStepInv(d, e) /\ RestoreStepInv(d, e)
  BY DEF FilesOf
<1>2. /\ Acked(d)' <=> Acked(d)
      /\ Acking(d)' <=> Acking(d)
      /\ \A p : Replacing(d, p)' <=> Replacing(d, p)
  BY SameRequests
<1>3. /\ \A v, p : OnDisk(u, v, p)' <=> OnDisk(u, v, p)
      /\ \A v : FromRows(u, v)' <=> FromRows(u, v)
  BY OnDiskStays, FromRowsStays
<1>4. UpdateInv(d)'
  BY <1>1, <1>2, <1>3 DEF UpdateInv
<1>5. RestoreInv(d)'
  <2>1. InTable(d)' => InTable(d) /\ Sess(d)' = Sess(d) /\ Left(d)' = Left(d)
    BY <1>2 DEF Left
  <2> QED BY <1>1, <1>2, <1>3, <2>1 DEF RestoreInv
<1>6. OfferInv(d)'
  BY <1>1 DEF OfferInv
<1>7. \A e \in ServedBy(d) : UpdateStepInv(d, e)' /\ RestoreStepInv(d, e)'
  BY <1>1, <1>3 DEF UpdateStepInv, RestoreStepInv
<1> QED BY <1>4, <1>5, <1>6, <1>7 DEF FilesOf

LEMMA OthersFiles ==
  ASSUME SessionInv, OneDevice, NEW c \in Clients, OnlyFor(c), Elsewhere(c),
         NEW d \in Clients, d # c, FilesOf(d)
  PROVE  FilesOf(d)'
<1>1. UserOf[d] \in Users \ {UserOf[c]}
  BY UserAssumption DEF OneDevice
<1>2. /\ db'[UserOf[d]] = db[UserOf[d]]
      /\ \A n, p : ReadFile(UserOf[d], n, p)' = ReadFile(UserOf[d], n, p)
  BY <1>1 DEF Elsewhere
<1>3. InTable(d)' => InTable(d) /\ Sess(d)' = Sess(d)
  BY OthersSession DEF InTable
<1>4. /\ client'[d] = client[d] /\ Queue(d)' = Queue(d) /\ ServedBy(d)' = ServedBy(d)
      /\ \A e \in ServedBy(d) : exec'[e] = exec[e]
  BY DEF OnlyFor
<1> QED BY <1>2, <1>3, <1>4, SameFilesOf

LEMMA ServingKeepsFiles ==
  ASSUME FileInv, OneDevice, NEW c \in Clients, OnlyFor(c), ServesFiles(c)
  PROVE  (\A u \in Users : UserRows(u)') /\ \A d \in Clients : FilesOf(d)'
<1>1. \A u \in Users : UserRows(u)'
  BY UserRowsStay DEF FileInv, ServesFiles, Elsewhere
<1>2. \A d \in Clients : FilesOf(d)'
  BY OthersFiles DEF FileInv, ServesFiles
<1> QED BY <1>1, <1>2

------------------------------------------------------------------------------
(* What is left to show of the client itself.                              *)

\* A client without a session has no files to account for.
LEMMA OutFiles ==
  ASSUME NEW c, ServedBy(c)' = {}, client'[c] = LoggedOut
  PROVE  FilesOf(c)'
BY DEF FilesOf, UpdateInv, RestoreInv, OfferInv, InTable, LoggedOut

LEMMA UpdateFiles ==
  ASSUME NEW c, client'[c].mode = "update", client'[c].offer = Null,
         \A e \in ServedBy(c)' : exec'[e].at \in UpdateSteps /\ UpdateStepInv(c, e)',
         UpdateInv(c)'
  PROVE  FilesOf(c)'
<1>1. UpdateSteps \cap {"first", "send", "RestoreFileAck", "restored"} = {}
  BY DEF UpdateSteps, Committing
<1>2. RestoreInv(c)' /\ OfferInv(c)'
  BY DEF RestoreInv, OfferInv
<1>3. \A e \in ServedBy(c)' : RestoreStepInv(c, e)'
  BY <1>1 DEF RestoreStepInv
<1> QED BY <1>2, <1>3 DEF FilesOf

LEMMA RestoreFiles ==
  ASSUME NEW c, client'[c].mode = "restore",
         \A e \in ServedBy(c)' : exec'[e].at \notin UpdateSteps /\ RestoreStepInv(c, e)',
         RestoreInv(c)', OfferInv(c)'
  PROVE  FilesOf(c)'
<1>1. Committing \cup {"stored"} \subseteq UpdateSteps
  BY DEF UpdateSteps
<1>2. UpdateInv(c)'
  BY DEF UpdateInv
<1>3. \A e \in ServedBy(c)' : UpdateStepInv(c, e)'
  BY <1>1 DEF UpdateStepInv
<1> QED BY <1>2, <1>3 DEF FilesOf

\* A client in an update was offered nothing.
LEMMA NoOffer ==
  ASSUME FileInv, NEW c \in Clients, \/ client[c].mode # "restore"
                                     \/ Queue(c) # {} \/ ServedBy(c) # {}
  PROVE  client[c].offer = Null
BY DEF FileInv, FilesOf, OfferInv

\* A step that leaves rows and disk alone.
LEMMA FilesElsewhere ==
  ASSUME FileInv, NEW c \in Clients, db' = db, disk' = disk
  PROVE  UserRows(UserOf[c])' /\ Elsewhere(c)
<1>1. UserOf[c] \in Users
  BY UserAssumption
<1>2. \A u, n, p : ReadFile(u, n, p)' = ReadFile(u, n, p)
  BY SameDisk
<1> QED BY <1>1, <1>2, UserRowsStay DEF FileInv, Elsewhere

\* One thread serves a client: what it is at is all there is.
LEMMA OnlyServer ==
  ASSUME NEW c, NEW e \in Executors, Queue(c) = {}, ServedBy(c) = {e}
  PROVE  /\ Acked(c) <=> IsAck(exec[e].msg) /\ exec[e].msg.ok
         /\ Acking(c) <=> IsAck(exec[e].msg)
         /\ \A p : Replacing(c, p) <=> exec[e].at = "stored" /\ exec[e].msg.path = p
BY DEF Acked, Acking, Replacing

LEMMA NoServer ==
  ASSUME NEW c, ServedBy(c) = {}
  PROVE  /\ Acked(c) <=> \E m \in Queue(c) : IsAck(m) /\ m.ok
         /\ Acking(c) <=> \E m \in Queue(c) : IsAck(m)
         /\ \A p : ~ Replacing(c, p)
BY DEF Acked, Acking, Replacing

\* The same after a step.
LEMMA NextServer ==
  ASSUME NEW c, NEW e \in Executors, Queue(c)' = {}, ServedBy(c)' = {e}
  PROVE  /\ Acked(c)' <=> IsAck(exec'[e].msg) /\ exec'[e].msg.ok
         /\ Acking(c)' <=> IsAck(exec'[e].msg)
         /\ \A p : Replacing(c, p)' <=> exec'[e].at = "stored" /\ exec'[e].msg.path = p
BY DEF Acked, Acking, Replacing

LEMMA NoNextServer ==
  ASSUME NEW c, ServedBy(c)' = {}
  PROVE  /\ Acked(c)' <=> \E m \in Queue(c)' : IsAck(m) /\ m.ok
         /\ Acking(c)' <=> \E m \in Queue(c)' : IsAck(m)
         /\ \A p : ~ Replacing(c, p)'
BY DEF Acked, Acking, Replacing

------------------------------------------------------------------------------
(* The version a session starts from.                                      *)

LEMMA NewFromRows == \A u : FromRows(u, NewVersion(NO_VERSION))
<1>1. Listed(NewVersion(NO_VERSION)) = {}
  BY NewVersionType DEF NO_VERSION
<1> QED BY <1>1 DEF FromRows

LEMMA LoadFromRows ==
  ASSUME NEW u, NEW id \in DOMAIN db[u], NEW rows,
         \A p \in Paths : rows[p] # NoFile => rows[p] = db[u][id][p]
  PROVE  FromRows(u, LoadVersion(id, rows))
<1> DEFINE v == LoadVersion(id, rows)
<1>1. v.id = id
  BY DEF LoadVersion
<1>2. ASSUME NEW p \in Listed(v)
      PROVE  /\ p \in Paths /\ rows[p] # NoFile
             /\ v.files[p] = [dir |-> rows[p].dir, ver |-> id, date |-> rows[p].date]
  BY <1>2 DEF LoadVersion, Listed
<1> HIDE DEF v
<1>3. ASSUME NEW p \in Listed(v)
      PROVE  /\ db[u][id][p] # NoFile
             /\ db[u][id][p].dir = v.files[p].dir
             /\ db[u][id][p].date = v.files[p].date
  <2>1. /\ rows[p] = db[u][id][p] /\ rows[p] # NoFile
        /\ v.files[p] = [dir |-> rows[p].dir, ver |-> id, date |-> rows[p].date]
    BY <1>2
  <2> QED BY <2>1
<1> QED BY <1>1, <1>3 DEF FromRows, v

\* Its files are those of the rows it was read from.
LEMMA InitialFromRows ==
  ASSUME NEW u, NEW ver, NEW file
  PROVE  FromRows(u, InitialVersion(u, ver, file))
<1> DEFINE id == IF ver = NO_VERSION THEN LastVersion(u) ELSE ver
           rows == IF ver = NO_VERSION \/ file = NoPath
                     THEN db[u][id]
                     ELSE [p \in Paths |-> IF p = file THEN db[u][id][p] ELSE NoFile]
<1>1. InitialVersion(u, ver, file) =
        IF id \notin DOMAIN db[u] \/ \A p \in Paths : rows[p] = NoFile
          THEN NewVersion(NO_VERSION) ELSE LoadVersion(id, rows)
  BY DEF InitialVersion
<1>2. \A p \in Paths : rows[p] # NoFile => rows[p] = db[u][id][p]
  <2> HIDE DEF id
  <2> QED OBVIOUS
<1> HIDE DEF id, rows
<1> QED BY <1>1, <1>2, NewFromRows, LoadFromRows

\* So they are on disk.
LEMMA FromRowsOnDisk ==
  ASSUME TypeOK, NEW u \in Users, UserRows(u), NEW v \in TVersion, FromRows(u, v)
  PROVE  \A p \in Paths : OnDisk(u, v, p)
<1> SUFFICES ASSUME NEW p \in Paths, v.files[p] # NoFile
             PROVE  /\ v.files[p].dir <= v.id + 1
                    /\ ReadFile(u, v.files[p].dir, p) = v.files[p].date
  BY DEF OnDisk
<1>1. /\ v.id \in DOMAIN db[u] /\ db[u][v.id][p] # NoFile
      /\ db[u][v.id][p].dir = v.files[p].dir
      /\ db[u][v.id][p].date = v.files[p].date
  BY DEF FromRows, Listed
<1>2. /\ db[u][v.id][p].dir <= v.id
      /\ ReadFile(u, db[u][v.id][p].dir, p) = db[u][v.id][p].date
  BY <1>1 DEF UserRows, RowOnDisk
<1>3. v.id \in Nat /\ v.files[p].dir \in Nat
  BY DEF TVersion, FileMap, Entry
<1> QED BY <1>1, <1>2, <1>3

------------------------------------------------------------------------------
(* The handlers of an update.                                              *)

\* What is known of the files of a client that is being served.
LEMMA ServingFiles ==
  ASSUME FileInv, NEW e \in Executors, exec[e].at \in Steps,
         NEW c, c = exec[e].msg.from
  PROVE  /\ SessionInv /\ TypeOK /\ c \in Clients /\ UserOf[c] \in Users /\ UserRows(UserOf[c])
         /\ UpdateInv(c) /\ RestoreInv(c) /\ UpdateStepInv(c, e) /\ RestoreStepInv(c, e)
         /\ client[c].offer = Null
         /\ Queue(c) = {} /\ ServedBy(c) = {e}
<1>1. SessionInv /\ TypeOK
  BY DEF FileInv, SessionInv, NumberInv, TypeInv
<1>2. /\ c \in Clients /\ UserOf[c] \in Users
      /\ Queue(c) = {} /\ ServedBy(c) = {e}
  BY <1>1, Serving
<1>3. client[c].offer = Null
  BY <1>2, NoOffer
<1>4. /\ UserRows(UserOf[c]) /\ UpdateInv(c) /\ RestoreInv(c)
      /\ UpdateStepInv(c, e) /\ RestoreStepInv(c, e)
  BY <1>2 DEF FileInv, FilesOf
<1> QED BY <1>1, <1>2, <1>3, <1>4

\* The version of its update session.
LEMMA UpdatedVersion ==
  ASSUME FileInv, NEW e \in Executors,
         exec[e].at \in UpdateSteps \ Committing,
         NEW c, c = exec[e].msg.from
  PROVE  /\ InTable(c) /\ client[c].mode = "update" /\ exec[e].tok = client[c].tok
         /\ Sess(c) \in Session /\ client[c].tok \in Tokens
         /\ Base(e) = Sess(c).version /\ Base(e) \in TVersion /\ Base(e) # Null
         /\ DOMAIN db[UserOf[c]] = 1..Base(e).id
         /\ client[c].base = Base(e).id
<1>1. /\ exec[e].at \in Steps \ (Removed \cup {"first", "erase", "restored"})
      /\ exec[e].at \in UpdateSteps
  BY DEF UpdateSteps, Committing, Steps, Removed
<1>2. SessionInv /\ UpdateInv(c) /\ c \in Clients
  BY <1>1, ServingFiles
<1>3. HandlerOwns(c, e) /\ client[c].mode = "update" /\ Owned(c)
  BY <1>1, <1>2, Serving DEF HandlerOwns
<1>4. /\ InTable(c) /\ Sess(c) \in Session /\ exec[e].tok = client[c].tok
      /\ client[c].tok \in Tokens
      /\ Base(e) = Sess(c).version /\ Sess(c).version \in TVersion
  BY <1>1, <1>2, ServingSession
<1>5. Base(e) # Null
  BY <1>4, NullAssumption
<1>6. DOMAIN db[UserOf[c]] = 1..Base(e).id
  BY <1>2, <1>3, <1>4, <1>5 DEF UpdateInv
<1>7. client[c].base = Base(e).id
  BY <1>3, <1>4, <1>5 DEF Owned, DraftInv, Agrees
<1> QED BY <1>3, <1>4, <1>5, <1>6, <1>7

\* The request ends the session for the client.
LEMMA DismissingFiles ==
  ASSUME FileInv, NEW e \in Executors, exec[e].at \in Steps,
         NEW c, c = exec[e].msg.from, Dismiss(c), Finish(e)
  PROVE  FilesOf(c)'
<1>1. SessionInv /\ c \in Clients /\ ServedBy(c) = {e}
  BY ServingFiles
<1>2. client'[c] = LoggedOut
  BY <1>1, DismissClient DEF SessionInv, NumberInv, TypeInv, TypeOK
<1>3. ServedBy(c)' = {}
  BY <1>1, FinishServes DEF SessionInv, NumberInv
<1> QED BY <1>2, <1>3, OutFiles

\* The request is answered and the session goes on with version v.
LEMMA AnsweringFiles ==
  ASSUME FileInv, NEW e \in Executors, exec[e].at \in UpdateSteps \ Committing,
         NEW c, c = exec[e].msg.from, NEW view, Answer(c, view), Finish(e),
         db' = db, disk' = disk,
         NEW v \in TVersion, v.id = Base(e).id,
         \A p \in Paths : OnDisk(UserOf[c], v, p),
         session'[client[c].tok].version = v
  PROVE  ServesFiles(c)
<1>1. exec[e].at \in Steps
  BY DEF UpdateSteps, Committing, Steps
<1>2. /\ SessionInv /\ TypeOK /\ c \in Clients /\ ServedBy(c) = {e}
      /\ client[c].offer = Null
  BY <1>1, ServingFiles
<1>3. /\ client[c].mode = "update" /\ DOMAIN db[UserOf[c]] = 1..v.id
  BY UpdatedVersion
<1>4. ServedBy(c)' = {}
  BY <1>2, FinishServes DEF SessionInv, NumberInv
<1>5. client'[c].mode = "update" /\ client'[c].offer = Null /\ client'[c].tok = client[c].tok
  BY <1>2, <1>3, AnswerClient DEF TypeOK
<1>6. UpdateInv(c)'
  <2>1. \A p \in Paths : OnDisk(UserOf[c], v, p)'
    BY SameDisk, OnDiskStays
  <2>2. Sess(c)'.version = v
    BY <1>5 DEF Sess
  <2> QED BY <1>3, <2>1, <2>2 DEF UpdateInv
<1>7. FilesOf(c)'
  BY <1>4, <1>5, <1>6, UpdateFiles
<1> QED BY <1>2, <1>7, FilesElsewhere DEF ServesFiles

LEMMA RejectFileFiles ==
  ASSUME FileInv, NEW e \in Executors, RejectFile(e), NEW c, c = exec[e].msg.from
  PROVE  ServesFiles(c)
<1>1. /\ exec[e].at \in UpdateSteps \ Committing /\ exec[e].at \in Steps
      /\ exec[e].at # "stored"
  BY DEF RejectFile, At, UpdateSteps, Committing, Steps
<1>2. UNCHANGED <<db, disk, session>> /\ Finish(e)
  BY DEF RejectFile
<1>3. CASE Dismiss(c)
  <2>1. FilesOf(c)' /\ c \in Clients
    BY <1>1, <1>2, <1>3, DismissingFiles, ServingFiles
  <2> QED BY <1>2, <2>1, FilesElsewhere DEF ServesFiles
<1>4. CASE Answer(c, client[c].view)
  <2>1. /\ Base(e) \in TVersion /\ Base(e) = Sess(c).version /\ Base(e) # Null
        /\ InTable(c) /\ client[c].mode = "update"
    BY <1>1, UpdatedVersion
  <2>2. UpdateInv(c) /\ ServedBy(c) = {e} /\ Queue(c) = {}
    BY <1>1, ServingFiles
  <2>3. \A p \in Paths : OnDisk(UserOf[c], Base(e), p)
    BY <1>1, <2>1, <2>2, OnlyServer DEF UpdateInv
  <2>4. session'[client[c].tok].version = Base(e)
    BY <1>2, <2>1 DEF Sess
  <2> QED BY <1>1, <1>2, <1>4, <2>1, <2>3, <2>4, AnsweringFiles
<1> QED BY <1>3, <1>4 DEF RejectFile

\* Storing and removing change what a directory holds, and nothing else.
LEMMA StoredFile ==
  ASSUME NEW u, NEW n, NEW p, NEW d, StoreFile(u, n, p, d)
  PROVE  /\ ReadFile(u, n, p)' = d
         /\ \A x, m, q : <<x, m, q>> # <<u, n, p>> => ReadFile(x, m, q)' = ReadFile(x, m, q)
BY DEF StoreFile, ReadFile

LEMMA RemovedDir ==
  ASSUME NEW u, NEW n, RemoveDir(u, n)
  PROVE  \A x, m, q : x # u \/ m # n => ReadFile(x, m, q)' = ReadFile(x, m, q)
<1> SUFFICES ASSUME NEW x, NEW m, NEW q, x # u \/ m # n
             PROVE  ReadFile(x, m, q)' = ReadFile(x, m, q)
  OBVIOUS
<1> DEFINE k == <<x, m, q>>
<1>1. k[1] = x /\ k[2] = m
  OBVIOUS
<1>2. k \in DOMAIN disk' <=> k \in DOMAIN disk
  BY <1>1 DEF RemoveDir
<1>3. k \in DOMAIN disk' => disk'[k] = disk[k]
  BY DEF RemoveDir
<1> QED BY <1>2, <1>3 DEF ReadFile

\* A directory no committed version has is not read for one.
LEMMA NewDirectory ==
  ASSUME TypeOK, NEW u \in Users, UserRows(u), NEW id \in Nat, DOMAIN db[u] = 1..id,
         db' = db, \A m, q : m # id + 1 => ReadFile(u, m, q)' = ReadFile(u, m, q)
  PROVE  UserRows(u)'
<1> SUFFICES ASSUME NEW v \in DOMAIN db[u], NEW p \in Paths, db[u][v][p] # NoFile
             PROVE  /\ db[u][v][p].dir <= v
                    /\ ReadFile(u, db[u][v][p].dir, p)' = db[u][v][p].date
  BY DEF UserRows, RowOnDisk
<1>1. /\ db[u][v][p].dir <= v
      /\ ReadFile(u, db[u][v][p].dir, p) = db[u][v][p].date
  BY DEF UserRows, RowOnDisk
<1>2. v \in 1..id /\ db[u][v][p].dir \in Nat
  BY DEF TypeOK, Rows, Row
<1>3. db[u][v][p].dir # id + 1
  BY <1>1, <1>2
<1> QED BY <1>1, <1>3

LEMMA StoreContentFiles ==
  ASSUME FileInv, NEW e \in Executors, StoreContent(e), NEW c, c = exec[e].msg.from,
         NEW u, u = UserOf[c], NEW v, v = Base(e),
         NEW p, p = exec[e].msg.path, NEW d, d = exec[e].msg.date
  PROVE  ServesFiles(c)
<1>1. /\ exec[e].at \in UpdateSteps \ Committing /\ exec[e].at \in Steps
      /\ exec[e].at # "stored" /\ "stored" \in UpdateSteps \cap Steps
  BY DEF StoreContent, At, UpdateSteps, Committing, Steps
<1>2. /\ SessionInv /\ TypeOK /\ c \in Clients /\ u \in Users /\ UserRows(u)
      /\ UpdateInv(c) /\ client[c].offer = Null /\ Queue(c) = {} /\ ServedBy(c) = {e}
      /\ User(exec[e].msg) = u
  BY <1>1, ServingFiles, Serving
<1>3. /\ InTable(c) /\ client[c].mode = "update" /\ v = Sess(c).version
      /\ v \in TVersion /\ v # Null /\ v.id \in Nat /\ DOMAIN db[u] = 1..v.id
  BY <1>1, UpdatedVersion DEF TVersion
<1>4. /\ StoreFile(u, v.id + 1, p, d)
      /\ exec' = [exec EXCEPT ![e].at = "stored", ![e].ver = v]
  BY <1>2 DEF StoreContent
<1>5. UNCHANGED <<db, client, session, sessions, inbox>>
  BY DEF StoreContent
<1>6. /\ exec'[e].at = "stored" /\ exec'[e].msg = exec[e].msg /\ exec'[e].ver = v
      /\ \A x \in Executors \ {e} : exec'[x] = exec[x]
  <2>1. exec[e] \in [at : Steps, msg : Message, tok : Tokens \cup {NoToken},
                     ver : TVersion \cup {Null}]
    BY <1>1, <1>2, BusyFields DEF SessionInv, NumberInv
  <2> QED BY <1>2, <1>4, <2>1 DEF TypeOK
<1>7. ServedBy(c)' = {e} /\ Queue(c)' = {}
  <2>1. ServedBy(c)' = ServedBy(c)
    BY <1>1, <1>2, <1>6, MoveServes DEF SessionInv, NumberInv
  <2> QED BY <1>2, <1>5, <2>1 DEF Queue
<1>8. /\ ReadFile(u, v.id + 1, p)' = d
      /\ \A x, n, q : <<x, n, q>> # <<u, v.id + 1, p>> =>
           ReadFile(x, n, q)' = ReadFile(x, n, q)
  BY <1>4, StoredFile
<1>9. UserRows(u)'
  <2>1. \A n, q : n # v.id + 1 => ReadFile(u, n, q)' = ReadFile(u, n, q)
    BY <1>8
  <2> QED BY <1>2, <1>3, <1>5, <2>1, NewDirectory
<1>10. Elsewhere(c)
  BY <1>5, <1>8 DEF Elsewhere
<1>11. UpdateInv(c)'
  <2>1. ASSUME NEW q \in Paths, q # p PROVE OnDisk(u, v, q)'
    <3>1. OnDisk(u, v, q)
      BY <1>1, <1>2, <1>3, OnlyServer DEF UpdateInv
    <3>2. \A n : ReadFile(u, n, q)' = ReadFile(u, n, q)
      BY <1>8, <2>1
    <3> QED BY <3>1, <3>2 DEF OnDisk
  <2>2. Replacing(c, p)'
    BY <1>6, <1>7, NextServer
  <2>3. Sess(c)'.version = v
    BY <1>3, <1>5 DEF Sess
  <2> QED BY <1>3, <1>5, <2>1, <2>2, <2>3 DEF UpdateInv
<1>12. UpdateStepInv(c, e)'
  <2>1. /\ exec'[e].at = "stored" /\ exec'[e].ver = v
        /\ exec'[e].msg.path = p /\ exec'[e].msg.date = d
    BY <1>6
  <2> QED BY <1>8, <2>1 DEF UpdateStepInv, Committing
<1>13. FilesOf(c)'
  BY <1>1, <1>2, <1>3, <1>5, <1>6, <1>7, <1>11, <1>12, UpdateFiles
<1> QED BY <1>9, <1>10, <1>13 DEF ServesFiles

\* Listing a file that is on disk, or removing one, leaves a version's files on
\* disk.
LEMMA AddedOnDisk ==
  ASSUME NEW u, NEW v \in TVersion, NEW p \in Paths, NEW f \in Entry,
         f.dir = v.id + 1, ReadFile(u, f.dir, p) = f.date,
         \A q \in Paths : q = p \/ OnDisk(u, v, q)
  PROVE  \A q \in Paths : OnDisk(u, AddFile(v, p, f), q)
<1> DEFINE w == AddFile(v, p, f)
<1>1. w.files = [v.files EXCEPT ![p] = f] /\ w.id = v.id
  BY DEF AddFile, TVersion
<1>2. w.files[p] = f /\ \A q \in Paths \ {p} : w.files[q] = v.files[q]
  BY <1>1 DEF TVersion, FileMap
<1>3. v.id \in Nat
  BY DEF TVersion
<1> HIDE DEF w
<1>4. OnDisk(u, w, p)
  BY <1>1, <1>2, <1>3 DEF OnDisk
<1>5. ASSUME NEW q \in Paths, q # p PROVE OnDisk(u, w, q)
  <2>1. OnDisk(u, v, q) /\ w.files[q] = v.files[q]
    BY <1>2, <1>5
  <2> QED BY <1>1, <2>1 DEF OnDisk
<1> QED BY <1>4, <1>5 DEF w

LEMMA UpdatedOnDisk ==
  ASSUME NEW u, NEW v \in TVersion, NEW p \in Paths, NEW f \in Entry,
         f.dir = v.id + 1, ReadFile(u, f.dir, p) = f.date,
         \A q \in Paths : q = p \/ OnDisk(u, v, q)
  PROVE  \A q \in Paths : OnDisk(u, UpdateFile(v, p, f), q)
<1>1. CASE p \in Listed(v)
  BY <1>1, AddedOnDisk DEF UpdateFile
<1>2. CASE p \notin Listed(v)
  <2>1. UpdateFile(v, p, f) = v
    BY <1>2 DEF UpdateFile
  <2>2. v.files[p] = NoFile
    BY <1>2 DEF Listed
  <2>3. OnDisk(u, v, p)
    BY <2>2 DEF OnDisk
  <2> QED BY <2>1, <2>3
<1> QED BY <1>1, <1>2

LEMMA RemovedOnDisk ==
  ASSUME NEW u, NEW v \in TVersion, NEW p \in Paths, \A q \in Paths : OnDisk(u, v, q)
  PROVE  \A q \in Paths : OnDisk(u, RemoveFile(v, p), q)
<1> DEFINE w == RemoveFile(v, p)
<1>1. /\ w.id = v.id
      /\ \A q \in Paths : w.files[q] = v.files[q] \/ w.files[q] = NoFile
  BY DEF RemoveFile, TVersion, FileMap
<1> HIDE DEF w
<1>2. \A q \in Paths : OnDisk(u, w, q)
  BY <1>1 DEF OnDisk
<1> QED BY <1>2 DEF w

LEMMA ListFileFiles ==
  ASSUME FileInv, NEW e \in Executors, ListFile(e), NEW c, c = exec[e].msg.from,
         NEW base, base = Base(e), NEW m, m = exec[e].msg,
         NEW f, f = NewFile(exec[e].ver.id, exec[e].msg.date)
  PROVE  ServesFiles(c)
<1>1. /\ exec[e].at \in UpdateSteps \ Committing /\ exec[e].at \in Steps
      /\ exec[e].at = "stored" /\ exec[e].at \notin Removed \cup {"first"}
  BY DEF ListFile, At, UpdateSteps, Committing, Steps, Removed
<1>2. /\ SessionInv /\ UpdateInv(c) /\ UpdateStepInv(c, e)
      /\ Queue(c) = {} /\ ServedBy(c) = {e} /\ HandlerOwns(c, e)
  BY <1>1, ServingFiles, Serving
<1>3. /\ InTable(c) /\ client[c].mode = "update" /\ base = Sess(c).version
      /\ base \in TVersion /\ base # Null /\ client[c].base = base.id
  BY <1>1, UpdatedVersion
<1>4. m.path \in Paths /\ m.date \in Data /\ exec[e].ver \in TVersion
  BY <1>1, <1>2, BusyFields, MessageFields
     DEF SessionInv, NumberInv, TypeInv, HandlersReady, Ready
<1>5. exec[e].ver.id = base.id
  BY <1>1, <1>2, <1>3 DEF HandlerOwns
<1>6. f \in Entry /\ f.date = m.date /\ f.dir = base.id + 1
  BY <1>4, <1>5, NewFileType DEF TVersion, NewFile
<1>7. ReadFile(UserOf[c], f.dir, m.path) = f.date
  BY <1>1, <1>2, <1>5, <1>6 DEF UpdateStepInv
<1>8. \A q \in Paths : q = m.path \/ OnDisk(UserOf[c], base, q)
  BY <1>2, <1>3, OnlyServer DEF UpdateInv
<1>9. PICK v \in {AddFile(base, m.path, f), UpdateFile(base, m.path, f)} :
        SetVersion(e, v) /\ \E view : Answer(c, view)
  BY DEF ListFile
<1>10. /\ v \in TVersion /\ v.id = base.id
       /\ \A q \in Paths : OnDisk(UserOf[c], v, q)
  <2>1. /\ AddFile(base, m.path, f) \in TVersion /\ AddFile(base, m.path, f).id = base.id
        /\ UpdateFile(base, m.path, f) \in TVersion /\ UpdateFile(base, m.path, f).id = base.id
    BY <1>3, <1>4, <1>6, ChangeType
  <2>2. \A q \in Paths : OnDisk(UserOf[c], AddFile(base, m.path, f), q)
    BY <1>3, <1>4, <1>6, <1>7, <1>8, AddedOnDisk
  <2>3. \A q \in Paths : OnDisk(UserOf[c], UpdateFile(base, m.path, f), q)
    BY <1>3, <1>4, <1>6, <1>7, <1>8, UpdatedOnDisk
  <2> QED BY <1>9, <2>1, <2>2, <2>3
<1>11. session'[client[c].tok].version = v
  BY <1>1, <1>2, <1>9, NewVersionOfSession
<1>12. Finish(e) /\ db' = db /\ disk' = disk
  BY DEF ListFile
<1> QED BY <1>1, <1>9, <1>10, <1>11, <1>12, AnsweringFiles

LEMMA RemoveFileFiles ==
  ASSUME FileInv, NEW e \in Executors, ProcessRemoveFile(e), NEW c, c = exec[e].msg.from,
         NEW base, base = Base(e), NEW p, p = exec[e].msg.path
  PROVE  ServesFiles(c)
<1>1. /\ exec[e].at \in UpdateSteps \ Committing /\ exec[e].at \in Steps
      /\ exec[e].at = "RemoveFile" /\ exec[e].at \notin Removed \cup {"first"}
  BY DEF ProcessRemoveFile, At, UpdateSteps, Committing, Steps, Removed
<1>2. SessionInv /\ UpdateInv(c) /\ Queue(c) = {} /\ ServedBy(c) = {e}
  BY <1>1, ServingFiles
<1>3. /\ InTable(c) /\ client[c].mode = "update" /\ base = Sess(c).version
      /\ base \in TVersion /\ base # Null
  BY <1>1, UpdatedVersion
<1>4. p \in Paths
  BY <1>1, <1>2, BusyFields, MessageFields
     DEF SessionInv, NumberInv, TypeInv, HandlersReady, Ready
<1>5. \A q \in Paths : OnDisk(UserOf[c], base, q)
  BY <1>1, <1>2, <1>3, OnlyServer DEF UpdateInv
<1>6. Finish(e) /\ db' = db /\ disk' = disk
  BY DEF ProcessRemoveFile
<1>7. ASSUME NEW view, Answer(c, view), SetVersion(e, RemoveFile(base, p))
      PROVE  ServesFiles(c)
  <2>1. RemoveFile(base, p) \in TVersion /\ RemoveFile(base, p).id = base.id
    BY <1>3, <1>4 DEF RemoveFile, TVersion, FileMap
  <2>2. \A q \in Paths : OnDisk(UserOf[c], RemoveFile(base, p), q)
    BY <1>3, <1>4, <1>5, RemovedOnDisk
  <2>3. session'[client[c].tok].version = RemoveFile(base, p)
    BY <1>1, <1>2, <1>7, NewVersionOfSession
  <2> QED BY <1>1, <1>6, <1>7, <2>1, <2>2, <2>3, AnsweringFiles
<1>8. ASSUME NEW view, Answer(c, view), session' = session
      PROVE  ServesFiles(c)
  <2>1. session'[client[c].tok].version = base
    BY <1>3, <1>8 DEF Sess
  <2> QED BY <1>1, <1>3, <1>5, <1>6, <1>8, <2>1, AnsweringFiles
<1>9. \/ \E view : Answer(c, view) /\ SetVersion(e, RemoveFile(base, p))
      \/ \E view : Answer(c, view) /\ session' = session
  BY DEF ProcessRemoveFile
<1> QED BY <1>7, <1>8, <1>9

\* From here on the version is the handler's; its files are on disk.
LEMMA TerminateSessionFiles ==
  ASSUME FileInv, NEW e \in Executors, TerminateSession(e), NEW c, c = exec[e].msg.from,
         NEW v, v = Base(e)
  PROVE  ServesFiles(c)
<1>1. /\ exec[e].at \in UpdateSteps \ Committing /\ exec[e].at \in Steps
      /\ exec[e].at # "stored"
      /\ exec[e].at \in Steps \ (Removed \cup {"first"})
      /\ "erase" \in UpdateSteps \cap Committing \cap Steps /\ "erase" # "stored"
  BY DEF TerminateSession, At, UpdateSteps, Committing, Steps, Removed
<1>2. /\ SessionInv /\ UpdateInv(c) /\ c \in Clients /\ Queue(c) = {} /\ ServedBy(c) = {e}
      /\ client[c].offer = Null
  BY <1>1, ServingFiles
<1>3. /\ InTable(c) /\ client[c].mode = "update" /\ v = Sess(c).version
      /\ v \in TVersion /\ v # Null /\ DOMAIN db[UserOf[c]] = 1..v.id
  BY <1>1, UpdatedVersion
<1>4. \A q \in Paths : OnDisk(UserOf[c], v, q)
  BY <1>1, <1>2, <1>3, OnlyServer DEF UpdateInv
<1>5. UNCHANGED <<db, disk, client>> /\ SetVersion(e, Null)
  BY DEF TerminateSession
<1>6. /\ exec'[e].at = "erase" /\ exec'[e].msg = exec[e].msg /\ exec'[e].ver = v
      /\ \A x \in Executors \ {e} : exec'[x] = exec[x]
  <2>1. exec' = [exec EXCEPT ![e].at = "erase", ![e].ver = v]
    BY DEF TerminateSession
  <2>2. exec[e] \in [at : Steps, msg : Message, tok : Tokens \cup {NoToken},
                     ver : TVersion \cup {Null}]
    BY <1>1, <1>2, BusyFields DEF SessionInv, NumberInv
  <2> QED BY <1>2, <2>1, <2>2 DEF SessionInv, NumberInv, TypeInv, TypeOK
<1>7. ServedBy(c)' = {e}
  BY <1>1, <1>2, <1>6, MoveServes DEF SessionInv, NumberInv
<1>8. Sess(c)'.version = Null
  <2>1. /\ session'[client[c].tok] = [Sess(c) EXCEPT !.version = Null]
        /\ session'[client[c].tok].version = Null
    BY <1>1, <1>2, <1>5, NewVersionOfSession
  <2> QED BY <1>5, <2>1 DEF Sess
<1>9. UpdateInv(c)'
  BY <1>8 DEF UpdateInv
<1>10. UpdateStepInv(c, e)'
  <2>1. \A q \in Paths : OnDisk(UserOf[c], v, q)'
    BY <1>4, <1>5, SameDisk, OnDiskStays
  <2> QED BY <1>1, <1>3, <1>5, <1>6, <2>1 DEF UpdateStepInv
<1>11. FilesOf(c)'
  BY <1>1, <1>2, <1>3, <1>5, <1>6, <1>7, <1>9, <1>10, UpdateFiles
<1> QED BY <1>2, <1>5, <1>11, FilesElsewhere DEF ServesFiles

LEMMA CommitGoesOnFiles ==
  ASSUME FileInv, NEW e \in Executors, EraseSession(e) \/ FailToInsert(e),
         NEW c, c = exec[e].msg.from
  PROVE  ServesFiles(c)
<1>1. /\ exec[e].at \in Steps \cap UpdateSteps \cap Committing
      /\ exec[e].at # "stored" /\ "stored" \notin Committing
  BY DEF EraseSession, FailToInsert, At, UpdateSteps, Committing, Steps
<1>2. /\ SessionInv /\ UpdateInv(c) /\ UpdateStepInv(c, e) /\ c \in Clients
      /\ Queue(c) = {} /\ ServedBy(c) = {e} /\ client[c].offer = Null /\ TypeOK
      /\ UserOf[c] \in Users /\ User(exec[e].msg) = UserOf[c]
  BY <1>1, ServingFiles, Serving
<1>3. client[c].mode = "update"
  BY <1>1, <1>2, Serving DEF HandlerOwns
<1>4. UNCHANGED <<db, disk, client, session>>
  BY DEF EraseSession, FailToInsert
<1>5. PICK at \in {"commit", "cleanup"} : exec' = [exec EXCEPT ![e].at = at]
  BY DEF EraseSession, FailToInsert
<1>6. /\ exec'[e].at = at /\ exec'[e].msg = exec[e].msg /\ exec'[e].ver = exec[e].ver
      /\ \A x \in Executors \ {e} : exec'[x] = exec[x]
  BY <1>1, <1>2, <1>5, SteppedThread
<1>7. at \in Steps \cap UpdateSteps \cap Committing
  BY DEF Steps, UpdateSteps, Committing
<1>8. ServedBy(c)' = {e}
  BY <1>1, <1>2, <1>6, <1>7, MoveServes DEF SessionInv, NumberInv
<1>9. /\ \A v, q : OnDisk(UserOf[c], v, q)' <=> OnDisk(UserOf[c], v, q)
      /\ Sess(c)' = Sess(c)
  <2>1. \A v, q : OnDisk(UserOf[c], v, q)' <=> OnDisk(UserOf[c], v, q)
    BY <1>4, SameDisk, OnDiskStays
  <2>2. Sess(c)' = Sess(c)
    BY <1>4 DEF Sess
  <2> QED BY <2>1, <2>2
<1>10. InTable(c)' => InTable(c)
  <2>1. CASE EraseSession(e)
    <3>0. sessions' = [sessions EXCEPT ![UserOf[c]] = NoToken]
      BY <1>2, <2>1 DEF EraseSession, RemoveSession
    <3>1. sessions'[UserOf[c]] = NoToken
      BY <1>2, <3>0 DEF TypeOK
    <3>2. client[c].tok # NoToken
      BY <1>2, <1>3 DEF SessionInv, Owned, TokenInv
    <3> QED BY <1>4, <3>1, <3>2 DEF InTable
  <2>2. CASE FailToInsert(e)
    BY <2>2 DEF FailToInsert, InTable
  <2> QED BY <2>1, <2>2
<1>11. UpdateInv(c)'
  <2>1. \A q : ~ Replacing(c, q)
    BY <1>1, <1>2, OnlyServer
  <2> QED BY <1>2, <1>4, <1>9, <1>10, <2>1 DEF UpdateInv
<1>12. UpdateStepInv(c, e)'
  BY <1>1, <1>2, <1>4, <1>6, <1>7, <1>9 DEF UpdateStepInv
<1>13. FilesOf(c)'
  BY <1>2, <1>3, <1>4, <1>6, <1>7, <1>8, <1>11, <1>12, UpdateFiles
<1> QED BY <1>2, <1>4, <1>13, FilesElsewhere DEF ServesFiles

\* The rows of a commit have the files of its version.
LEMMA RowsOnDisk ==
  ASSUME NEW u, NEW v \in TVersion, NEW p \in Paths, OnDisk(u, v, p),
         NEW r, r = RowsOf(TerminateWithSuccess(v))[p], r # NoFile
  PROVE  r.dir <= v.id + 1 /\ ReadFile(u, r.dir, p) = r.date
<1> DEFINE w == TerminateWithSuccess(v)
<1>1. p \in Listed(w) /\ r = [dir |-> w.files[p].dir, date |-> w.files[p].date]
  BY DEF RowsOf
<1>2. w.files[p] # NoFile
  BY <1>1 DEF Listed
<1>3. p \in Listed(v) /\ w.files[p] = [v.files[p] EXCEPT !.ver = v.id + 1]
  BY <1>2 DEF TerminateWithSuccess
<1>4. v.files[p] # NoFile
  BY <1>3 DEF Listed
<1>5. v.files[p] \in Entry
  BY <1>4 DEF TVersion, FileMap
<1> HIDE DEF w
<1>6. w.files[p].dir = v.files[p].dir /\ w.files[p].date = v.files[p].date
  BY <1>3, <1>5 DEF Entry
<1> QED BY <1>1, <1>4, <1>6 DEF OnDisk

LEMMA InsertFiles ==
  ASSUME FileInv, SessionInv', NEW e \in Executors, InsertNewVersion(e),
         NEW c, c = exec[e].msg.from, NEW u, u = UserOf[c], NEW v, v = exec[e].ver
  PROVE  ServesFiles(c)
<1>1. exec[e].at \in Steps \cap Committing
  BY DEF InsertNewVersion, At, Steps, Committing
<1>2. /\ SessionInv /\ TypeOK /\ c \in Clients /\ u \in Users /\ UserRows(u)
      /\ UpdateStepInv(c, e) /\ User(exec[e].msg) = u
  BY <1>1, ServingFiles, Serving
<1>3. DOMAIN db[u] = 1..v.id /\ \A p \in Paths : OnDisk(u, v, p)
  BY <1>1, <1>2 DEF UpdateStepInv
<1>4. disk' = disk /\ Dismiss(c) /\ Finish(e)
  BY DEF InsertNewVersion
<1>5. FilesOf(c)'
  BY <1>1, <1>4, DismissingFiles
<1>6. \A x, n, p : ReadFile(x, n, p)' = ReadFile(x, n, p)
  BY <1>4, SameDisk
<1>7. /\ v \in TVersion /\ v.id \in Nat
      /\ LastVersion(u)' = v.id + 1
      /\ \A w \in 1..v.id : db'[u][w] = db[u][w]
      /\ db'[u][v.id + 1] = RowsOf(TerminateWithSuccess(v))
      /\ \A x \in Users \ {u} : db'[x] = db[x]
  BY <1>2, CommittedRows DEF TVersion
<1>8. Elsewhere(c)
  BY <1>6, <1>7 DEF Elsewhere
<1>9. DOMAIN db'[u] = 1..(v.id + 1)
  <2>1. Recorded(u)'
    BY <1>2, NextRecorded DEF SessionInv
  <2> QED BY <1>7, <2>1 DEF Recorded
<1>10. ASSUME NEW p \in Paths PROVE RowOnDisk(u, v.id + 1, p)'
  <2>1. PICK r : r = RowsOf(TerminateWithSuccess(v))[p]
    OBVIOUS
  <2>2. r # NoFile => r.dir <= v.id + 1 /\ ReadFile(u, r.dir, p) = r.date
    BY <1>3, <1>7, <2>1, RowsOnDisk
  <2>3. db'[u][v.id + 1][p] = r
    BY <1>7, <2>1
  <2> QED BY <1>6, <2>2, <2>3 DEF RowOnDisk
<1>11. ASSUME NEW w \in 1..v.id, NEW p \in Paths PROVE RowOnDisk(u, w, p)'
  <2>1. RowOnDisk(u, w, p) /\ db'[u][w] = db[u][w]
    BY <1>2, <1>3, <1>7 DEF UserRows
  <2> QED BY <1>6, <2>1 DEF RowOnDisk
<1>12. \A w \in 1..(v.id + 1) : w = v.id + 1 \/ w \in 1..v.id
  BY <1>7
<1>13. UserRows(u)'
  BY <1>9, <1>10, <1>11, <1>12 DEF UserRows
<1> QED BY <1>5, <1>8, <1>13 DEF ServesFiles

LEMMA CleanUpFiles ==
  ASSUME FileInv, NEW e \in Executors, CleanUp(e),
         NEW c, c = exec[e].msg.from, NEW u, u = UserOf[c], NEW v, v = exec[e].ver
  PROVE  ServesFiles(c)
<1>1. exec[e].at \in Steps \cap Committing /\ exec[e].at = "cleanup"
  BY DEF CleanUp, At, Steps, Committing
<1>2. /\ SessionInv /\ TypeOK /\ c \in Clients /\ u \in Users /\ UserRows(u)
      /\ UpdateStepInv(c, e) /\ User(exec[e].msg) = u
  BY <1>1, ServingFiles, Serving
<1>3. DOMAIN db[u] = 1..v.id
  BY <1>1, <1>2 DEF UpdateStepInv
<1>4. v.id \in Nat
  BY <1>1, <1>2, BusyFields
     DEF SessionInv, NumberInv, TypeInv, HandlersReady, Ready, TVersion
<1>5. RemoveDir(u, v.id + 1) /\ db' = db /\ Dismiss(c) /\ Finish(e)
  BY <1>2 DEF CleanUp
<1>6. FilesOf(c)'
  BY <1>1, <1>5, DismissingFiles
<1>7. \A x, n, p : x # u \/ n # v.id + 1 => ReadFile(x, n, p)' = ReadFile(x, n, p)
  BY <1>5, RemovedDir
<1>8. UserRows(u)'
  BY <1>2, <1>3, <1>4, <1>5, <1>7, NewDirectory
<1>9. Elsewhere(c)
  BY <1>5, <1>7 DEF Elsewhere
<1> QED BY <1>6, <1>8, <1>9 DEF ServesFiles

LEMMA DismissedFiles ==
  ASSUME FileInv, NEW e \in Executors, RefuseVersion(e) \/ StopRestore(e),
         NEW c, c = exec[e].msg.from
  PROVE  ServesFiles(c)
<1>1. exec[e].at \in Steps
  BY DEF RefuseVersion, StopRestore, At, Steps
<1>2. UNCHANGED <<db, disk>> /\ Dismiss(c) /\ Finish(e)
  BY DEF RefuseVersion, StopRestore
<1>3. c \in Clients /\ FilesOf(c)'
  BY <1>1, <1>2, ServingFiles, DismissingFiles
<1> QED BY <1>2, <1>3, FilesElsewhere DEF ServesFiles

------------------------------------------------------------------------------
(* The opening of a session, and its look-up.                              *)

\* What newSession enters.
LEMMA OpenedSession ==
  ASSUME TypeOK, NEW c \in Clients, NEW kind, NEW v, NEW t \in Tokens, NEW first,
         NewSession(UserOf[c], kind, v, t, first), client'[c].tok = t
  PROVE  /\ Sess(c)'.version = v /\ Sess(c)'.cur = first
         /\ kind = "restore" => Sess(c)'.todo = Listed(v)
<1> DEFINE s == [kind |-> kind, version |-> v, idle |-> FALSE,
                 todo |-> IF kind = "restore" THEN Listed(v) ELSE {}, cur |-> first]
<1>1. session' = [session EXCEPT ![t] = s]
  BY DEF NewSession
<1>2. Sess(c)' = s
  BY <1>1 DEF Sess, TypeOK
<1> QED BY <1>2

LEMMA UpdateStartFiles ==
  ASSUME FileInv, NEW e \in Executors, NEW m \in inbox, ProcessUpdateStart(e, m),
         NEW c, c = m.from, NEW u, u = UserOf[c],
         NEW v, v = InitialVersion(u, NO_VERSION, NoPath)
  PROVE  ServesFiles(c)
<1>1. /\ SessionInv /\ TypeOK /\ m.kind = "UpdateStart" /\ Take(e, m)
      /\ UNCHANGED <<db, disk, exec>>
  BY DEF FileInv, SessionInv, NumberInv, TypeInv, ProcessUpdateStart
<1>2. c \in Clients /\ User(m) = u /\ u \in Users /\ ServedBy(c) = {}
  BY <1>1, Taking
<1>3. ServedBy(c)' = {}
  BY <1>1, <1>2 DEF ServedBy
<1>4. ASSUME NEW t \in Tokens, NewSession(u, "update", v, t, NoPath),
             client' = [client EXCEPT ![c] =
               [LoggedOut EXCEPT !.mode = "update", !.tok = t,
                                 !.view = Promised(v.files), !.base = v.id]]
      PROVE  FilesOf(c)'
  <2>1. client'[c].mode = "update" /\ client'[c].tok = t /\ client'[c].offer = Null
    BY <1>1, <1>2, <1>4 DEF LoggedOut, TypeOK
  <2>2. Sess(c)'.version = v
    <3>1. NewSession(UserOf[c], "update", v, t, NoPath)
      BY <1>4
    <3>2. /\ Sess(c)'.version = v /\ Sess(c)'.cur = NoPath
          /\ "update" = "restore" => Sess(c)'.todo = Listed(v)
      BY <1>1, <1>2, <2>1, <3>1, OpenedSession
    <3> QED BY <3>2
  <2>3. v \in TVersion /\ v.id = LastVersion(u) /\ Recorded(u)
    BY <1>1, <1>2, InitialVersionType, OpenedOnLatest, HistoryOf DEF SessionInv
  <2>4. \A p \in Paths : OnDisk(u, v, p)
    BY <1>1, <1>2, <2>3, InitialFromRows, FromRowsOnDisk DEF FileInv
  <2>5. \A p \in Paths : OnDisk(u, v, p)'
    BY <1>1, <2>4, SameDisk, OnDiskStays
  <2>6. UpdateInv(c)'
    BY <1>1, <2>2, <2>3, <2>5 DEF UpdateInv, Recorded
  <2> QED BY <1>3, <2>1, <2>6, UpdateFiles
<1>5. ASSUME Dismiss(c) PROVE FilesOf(c)'
  <2>1. client'[c] = LoggedOut
    BY <1>1, <1>2, <1>5, DismissClient DEF TypeOK
  <2> QED BY <1>3, <2>1, OutFiles
<1>6. FilesOf(c)'
  <2>1. User(m) = u /\ m.from = c
    BY <1>2
  <2> QED BY <1>4, <1>5, <2>1 DEF ProcessUpdateStart
<1> QED BY <1>1, <1>2, <1>6, FilesElsewhere DEF ServesFiles

LEMMA WithoutAll == ASSUME NEW v PROVE Without(v, Listed(v)) = NoContents
BY DEF Without, NoContents

LEMMA WithoutNone == ASSUME NEW v PROVE Without(v, {}) = Promised(v.files)
<1>1. \A p \in Paths : p \in Listed(v) \ {} <=> v.files[p] # NoFile
  BY DEF Listed
<1> QED BY <1>1 DEF Without, Promised

LEMMA RestoreVersionFiles ==
  ASSUME FileInv, NEW e \in Executors, NEW m \in inbox, ProcessRestoreVersion(e, m),
         NEW c, c = m.from, NEW u, u = UserOf[c],
         NEW v, v = InitialVersion(u, m.ver, m.file)
  PROVE  ServesFiles(c)
<1>1. /\ SessionInv /\ TypeOK /\ m.kind = "RestoreVersion" /\ Take(e, m) /\ exec[e] = Idle
      /\ UNCHANGED <<db, disk>>
  BY DEF FileInv, SessionInv, NumberInv, TypeInv, ProcessRestoreVersion, Take
<1>2. /\ c \in Clients /\ User(m) = u /\ u \in Users /\ ServedBy(c) = {}
      /\ Queue(c)' = {}
  BY <1>1, Taking
<1>3. ASSUME NEW t \in Tokens, NEW first \in Cursor(Listed(v)),
             NewSession(u, "restore", v, t, first),
             client' = [client EXCEPT ![c] =
               [LoggedOut EXCEPT !.mode = "restore", !.tok = t, !.busy = TRUE]],
             Goto(e, "first", m, NoToken, Null)
      PROVE  FilesOf(c)'
  <2>1. /\ client'[c].mode = "restore" /\ client'[c].tok = t /\ client'[c].offer = Null
        /\ client'[c].view = NoContents
    BY <1>1, <1>2, <1>3 DEF LoggedOut, TypeOK
  <2>2. /\ Sess(c)'.version = v /\ Sess(c)'.cur = first /\ Sess(c)'.todo = Listed(v)
    <3>1. NewSession(UserOf[c], "restore", v, t, first)
      BY <1>3
    <3>2. /\ Sess(c)'.version = v /\ Sess(c)'.cur = first
          /\ "restore" = "restore" => Sess(c)'.todo = Listed(v)
      BY <1>1, <1>2, <2>1, <3>1, OpenedSession
    <3> QED BY <3>2
  <2>3. FromRows(u, v)'
    BY <1>1, InitialFromRows, FromRowsStays
  <2>4. /\ ServedBy(c)' = {e}
        /\ exec'[e] = [at |-> "first", msg |-> m, tok |-> NoToken, ver |-> Null]
    BY <1>1, <1>2, <1>3, GotoServes DEF SessionInv, NumberInv, Steps
  <2>5. exec'[e].at = "first" /\ exec'[e].msg = m /\ ~ IsAck(m)
    BY <1>1, <2>4 DEF IsAck
  <2>6. ~ Acked(c)' /\ ~ Acking(c)'
    BY <1>2, <2>4, <2>5, NextServer
  <2>7. Left(c)' = Listed(v)
    BY <2>2, <2>6 DEF Left
  <2>8. IF first = NoPath THEN Listed(v) = {} ELSE first \in Listed(v)
    <3>1. NoPath \notin Listed(v)
      BY SentinelAssumption DEF Listed
    <3> QED BY <1>3, <3>1 DEF Cursor
  <2>9. RestoreInv(c)'
    <3>1. Without(v, Listed(v)) = NoContents
      BY WithoutAll
    <3> QED BY <2>1, <2>2, <2>3, <2>6, <2>7, <2>8, <3>1 DEF RestoreInv
  <2>10. OfferInv(c)'
    BY <2>1 DEF OfferInv
  <2>11. RestoreStepInv(c, e)'
    BY <2>5 DEF RestoreStepInv
  <2>12. "first" \notin UpdateSteps
    BY DEF UpdateSteps, Committing
  <2> QED BY <2>1, <2>4, <2>5, <2>9, <2>10, <2>11, <2>12, RestoreFiles
<1>4. ASSUME Dismiss(c), UNCHANGED exec PROVE FilesOf(c)'
  <2>1. client'[c] = LoggedOut
    BY <1>1, <1>2, <1>4, DismissClient DEF TypeOK
  <2>2. ServedBy(c)' = {}
    BY <1>2, <1>4 DEF ServedBy
  <2> QED BY <2>1, <2>2, OutFiles
<1>5. FilesOf(c)'
  <2>1. User(m) = u /\ m.from = c
    BY <1>2
  <2> QED BY <1>3, <1>4, <2>1 DEF ProcessRestoreVersion
<1> QED BY <1>1, <1>2, <1>5, FilesElsewhere DEF ServesFiles

\* A request goes from the queue to a thread: it stays the client's only one.
LEMMA TakenRequest ==
  ASSUME NEW c, NEW e \in Executors, NEW m, Queue(c) = {m}, ServedBy(c) = {},
         Queue(c)' = {}, ServedBy(c)' = {e}, exec'[e].msg = m, exec'[e].at # "stored"
  PROVE  /\ Acked(c)' <=> Acked(c)
         /\ Acking(c)' <=> Acking(c)
         /\ \A p : ~ Replacing(c, p) /\ ~ Replacing(c, p)'
<1>1. /\ Acked(c) <=> IsAck(m) /\ m.ok
      /\ Acking(c) <=> IsAck(m)
      /\ \A p : ~ Replacing(c, p)
  BY NoServer
<1>2. /\ Acked(c)' <=> IsAck(m) /\ m.ok
      /\ Acking(c)' <=> IsAck(m)
      /\ \A p : ~ Replacing(c, p)'
  BY NextServer
<1> QED BY <1>1, <1>2

\* The session and the client stay as they are.
LEMMA SameUpdate ==
  ASSUME NEW c, UpdateInv(c), db' = db, disk' = disk, client' = client,
         InTable(c)' => InTable(c), Sess(c)' = Sess(c),
         \A p : Replacing(c, p) => Replacing(c, p)'
  PROVE  UpdateInv(c)'
<1>1. \A v, p : OnDisk(UserOf[c], v, p)' <=> OnDisk(UserOf[c], v, p)
  BY SameDisk, OnDiskStays
<1> QED BY <1>1 DEF UpdateInv

LEMMA SameRestore ==
  ASSUME NEW c, RestoreInv(c), db' = db, client' = client,
         InTable(c)' => InTable(c), Sess(c)' = Sess(c),
         Acked(c)' <=> Acked(c), Acking(c)' <=> Acking(c)
  PROVE  RestoreInv(c)'
<1>1. \A v : FromRows(UserOf[c], v)' <=> FromRows(UserOf[c], v)
  BY FromRowsStays
<1>2. Left(c)' = Left(c)
  BY DEF Left
<1> QED BY <1>1, <1>2 DEF RestoreInv

LEMMA FindSessionFiles ==
  ASSUME FileInv, NEW e \in Executors, NEW m \in inbox, FindSession(e, m),
         NEW c, c = m.from
  PROVE  ServesFiles(c)
<1>1. /\ SessionInv /\ TypeOK /\ m.kind # "Ping" /\ Take(e, m) /\ exec[e] = Idle
      /\ m.kind \in {"AddFile", "UpdateFile", "RemoveFile", "UpdateStop", "RestoreFileAck"}
      /\ UNCHANGED <<db, disk, session, sessions>>
  BY DEF FileInv, SessionInv, NumberInv, TypeInv, FindSession, Take
<1>2. /\ c \in Clients /\ Queue(c) = {m} /\ ServedBy(c) = {} /\ Queue(c)' = {}
      /\ client[c].mode = SentIn(m)
  BY <1>1, Taking
<1>3. client[c].offer = Null /\ UpdateInv(c) /\ RestoreInv(c)
  BY <1>2, NoOffer DEF FileInv, FilesOf
<1>4. ASSUME NEW t, Goto(e, m.kind, m, t, Null), client' = client
      PROVE  FilesOf(c)'
  <2>1. m.kind \in Steps /\ m.kind # "stored" /\ m.kind \notin {"first", "send", "restored"}
        /\ m.kind \notin Committing
    BY <1>1 DEF Steps, Committing
  <2>2. /\ ServedBy(c)' = {e}
        /\ exec'[e] = [at |-> m.kind, msg |-> m, tok |-> t, ver |-> Null]
    BY <1>1, <1>2, <1>4, <2>1, GotoServes DEF SessionInv, NumberInv
  <2>3. exec'[e].at = m.kind /\ exec'[e].msg = m
    BY <2>2
  <2>4. /\ Acked(c)' <=> Acked(c)
        /\ Acking(c)' <=> Acking(c)
        /\ \A p : ~ Replacing(c, p)
    BY <1>2, <2>1, <2>2, <2>3, TakenRequest
  <2>5. (InTable(c)' => InTable(c)) /\ Sess(c)' = Sess(c)
    BY <1>1, <1>4 DEF InTable, Sess
  <2>6. UpdateInv(c)' /\ RestoreInv(c)'
    BY <1>1, <1>3, <1>4, <2>4, <2>5, SameUpdate, SameRestore
  <2>7. UpdateStepInv(c, e)'
    BY <2>1, <2>3 DEF UpdateStepInv
  <2>8. RestoreStepInv(c, e)'
    BY <2>1, <2>3 DEF RestoreStepInv, IsAck
  <2>9. OfferInv(c)'
    BY <1>3, <1>4 DEF OfferInv
  <2> QED BY <2>2, <2>6, <2>7, <2>8, <2>9 DEF FilesOf
<1>5. ASSUME Dismiss(c), UNCHANGED exec PROVE FilesOf(c)'
  <2>1. client'[c] = LoggedOut
    BY <1>1, <1>2, <1>5, DismissClient DEF TypeOK
  <2>2. ServedBy(c)' = {}
    BY <1>2, <1>5 DEF ServedBy
  <2> QED BY <2>1, <2>2, OutFiles
<1>6. FilesOf(c)'
  BY <1>4, <1>5 DEF FindSession
<1> QED BY <1>1, <1>2, <1>6, FilesElsewhere DEF ServesFiles

LEMMA FindFirstFiles ==
  ASSUME FileInv, NEW e \in Executors, FindFirst(e),
         NEW c, c = exec[e].msg.from, NEW m, m = exec[e].msg
  PROVE  ServesFiles(c)
<1>1. /\ exec[e].at \in Steps \ Removed /\ exec[e].at = "first" /\ exec[e].at \notin UpdateSteps
      /\ "send" \in Steps /\ "send" \notin UpdateSteps
  BY DEF FindFirst, At, Steps, UpdateSteps, Committing, Removed
<1>2. /\ SessionInv /\ TypeOK /\ c \in Clients /\ RestoreInv(c) /\ RestoreStepInv(c, e)
      /\ client[c].offer = Null /\ Queue(c) = {} /\ ServedBy(c) = {e}
  BY <1>1, ServingFiles
<1>3. client[c].mode = "restore"
  BY <1>1, <1>2, Serving DEF HandlerOwns
<1>4. UNCHANGED <<db, disk, session, sessions, inbox>>
  BY DEF FindFirst
<1>5. ASSUME NEW t, Goto(e, "send", m, t, Null), client' = client
      PROVE  FilesOf(c)'
  <2>1. /\ exec'[e] = [at |-> "send", msg |-> m, tok |-> t, ver |-> Null]
        /\ \A x \in Executors \ {e} : exec'[x] = exec[x]
    BY <1>2, <1>5 DEF Goto, TypeOK
  <2>2. exec'[e].at = "send" /\ exec'[e].msg = exec[e].msg
    BY <2>1
  <2>3. ServedBy(c)' = ServedBy(c) /\ ServedBy(c)' = {e} /\ Queue(c)' = {}
    BY <1>1, <1>2, <1>4, <2>1, <2>2, MoveServes DEF SessionInv, NumberInv, Queue
  <2>4. (Acked(c)' <=> Acked(c)) /\ (Acking(c)' <=> Acking(c))
    BY <1>2, <2>2, <2>3, OnlyServer, NextServer
  <2>5. RestoreInv(c)'
    BY <1>2, <1>4, <1>5, <2>4, SameRestore DEF InTable, Sess
  <2>6. RestoreStepInv(c, e)'
    BY <1>1, <1>2, <2>2 DEF RestoreStepInv
  <2>7. OfferInv(c)'
    BY <1>2, <1>5 DEF OfferInv
  <2> QED BY <1>1, <1>3, <1>5, <2>2, <2>3, <2>5, <2>6, <2>7, RestoreFiles
<1>6. ASSUME Dismiss(c), Finish(e) PROVE FilesOf(c)'
  BY <1>1, <1>6, DismissingFiles
<1>7. FilesOf(c)'
  BY <1>5, <1>6 DEF FindFirst
<1> QED BY <1>2, <1>4, <1>7, FilesElsewhere DEF ServesFiles

------------------------------------------------------------------------------
(* The sending of files.                                                   *)

\* What getNextFile stands at, and what is left when it has moved.
LEMMA NextFile ==
  ASSUME FileInv, NEW e \in Executors, SendFile(e), NEW c, c = exec[e].msg.from,
         NEW v, v = Base(e), NEW left, left = Left(c),
         NEW todo, NEW p, RestoreStep(e, todo, p)
  PROVE  /\ v = Sess(c).version /\ v \in TVersion /\ FromRows(UserOf[c], v)
         /\ client[c].view = Without(v, left) /\ left \subseteq Listed(v)
         /\ InTable(c) /\ client[c].mode = "restore" /\ exec[e].tok = client[c].tok
         /\ todo = left
         /\ p = NoPath => left = {}
         /\ p # NoPath => p \in left
<1>1. /\ exec[e].at \in Steps \ (Removed \cup {"erase", "restored", "first"})
      /\ exec[e].at \in {"send", "RestoreFileAck"} /\ exec[e].at \notin UpdateSteps
  BY DEF SendFile, At, Steps, Removed, UpdateSteps, Committing
<1>2. /\ SessionInv /\ RestoreInv(c) /\ RestoreStepInv(c, e)
      /\ Queue(c) = {} /\ ServedBy(c) = {e}
  BY <1>1, ServingFiles
<1>3. client[c].mode = "restore"
  BY <1>1, <1>2, Serving DEF HandlerOwns
<1>4. /\ InTable(c) /\ exec[e].tok = client[c].tok /\ v = Sess(c).version
      /\ v \in TVersion /\ v # Null
  BY <1>1, <1>2, ServingSession, NullAssumption
<1>5. PICK s : s = Sess(c)
  OBVIOUS
<1>6. /\ FromRows(UserOf[c], v) /\ s.todo \subseteq Listed(v)
      /\ IF s.cur = NoPath THEN Listed(v) = {} ELSE s.cur \in s.todo
      /\ client[c].view = Without(v, left)
      /\ Acking(c) => s.cur # NoPath
  BY <1>2, <1>3, <1>4, <1>5 DEF RestoreInv
<1>7. /\ Acked(c) <=> MovesOn(e)
      /\ Acked(c) => Acking(c)
  BY <1>1, <1>2, OnlyServer DEF RestoreStepInv, MovesOn, At
<1>8. /\ session[exec[e].tok] = s
      /\ left = IF MovesOn(e) THEN s.todo \ {s.cur} ELSE s.todo
  BY <1>4, <1>5, <1>7 DEF Sess, Left
<1>9. NoPath \notin Listed(v)
  BY SentinelAssumption DEF Listed
<1>10. CASE MovesOn(e)
  <2>1. s.cur # NoPath
    BY <1>6, <1>7, <1>10
  <2>2. todo = left /\ p \in Cursor(todo)
    BY <1>8, <1>10, <2>1 DEF RestoreStep, Advance
  <2>3. left \subseteq Listed(v)
    BY <1>6, <1>8, <1>10
  <2> QED BY <1>3, <1>4, <1>6, <1>9, <2>2, <2>3 DEF Cursor
<1>11. CASE ~ MovesOn(e)
  <2>1. todo = left /\ p = s.cur /\ left = s.todo
    BY <1>8, <1>11 DEF RestoreStep
  <2> QED BY <1>3, <1>4, <1>6, <2>1
<1> QED BY <1>10, <1>11

LEMMA SendFileFiles ==
  ASSUME FileInv, NEW e \in Executors, SendFile(e), NEW c, c = exec[e].msg.from,
         NEW u, u = UserOf[c], NEW v, v = Base(e), NEW left, left = Left(c)
  PROVE  ServesFiles(c)
<1>1. /\ exec[e].at \in Steps \ {"first"}
      /\ "restored" \in Steps /\ "restored" \notin UpdateSteps
  BY DEF SendFile, At, Steps, UpdateSteps, Committing
<1>2. /\ SessionInv /\ TypeOK /\ c \in Clients /\ u \in Users /\ UserRows(u)
      /\ client[c].offer = Null /\ Queue(c) = {} /\ ServedBy(c) = {e}
      /\ User(exec[e].msg) = u
  BY <1>1, ServingFiles, Serving
<1>3. UNCHANGED <<db, disk, sessions, inbox>>
  BY DEF SendFile
<1>4. PICK todo, p : RestoreStep(e, todo, p)
  BY <1>2, SendFileSteps
<1>5. /\ v = Sess(c).version /\ v \in TVersion /\ FromRows(u, v)
      /\ client[c].view = Without(v, left) /\ left \subseteq Listed(v)
      /\ InTable(c) /\ client[c].mode = "restore" /\ exec[e].tok = client[c].tok
      /\ todo = left
      /\ p = NoPath => left = {}
      /\ p # NoPath => p \in left
  BY <1>4, NextFile
<1>6. FromRows(u, v)' /\ Queue(c)' = {}
  BY <1>2, <1>3, <1>5, FromRowsStays DEF Queue
<1>7. ASSUME p # NoPath, Moved(e, left, p, v), Finish(e),
             OfferFile(u, exec[e].tok, c, p) \/ UNCHANGED client
      PROVE  FilesOf(c)'
  <2>1. ServedBy(c)' = {}
    BY <1>2, <1>7, FinishServes DEF SessionInv, NumberInv
  <2>2. p \in Listed(v) /\ ReadFile(u, v.files[p].dir, p) = v.files[p].date
    <3>1. p \in Listed(v)
      BY <1>5, <1>7
    <3>2. OnDisk(u, v, p)
      BY <1>2, <1>5, <3>1, FromRowsOnDisk DEF Listed
    <3> QED BY <3>1, <3>2 DEF OnDisk, Listed
  <2>3. session[exec[e].tok].version = v
    BY <1>5 DEF Sess
  <2>4. /\ client'[c].mode = "restore" /\ client'[c].tok = client[c].tok
        /\ client'[c].view = client[c].view
        /\ \/ client'[c].offer = Null
           \/ client'[c].offer = [path |-> p, data |-> v.files[p].date]
    <3>1. CASE UNCHANGED client
      BY <1>2, <1>5, <3>1
    <3>2. CASE OfferFile(u, exec[e].tok, c, p)
      <4>1. client' = [client EXCEPT ![c].busy = FALSE,
                         ![c].offer = [path |-> p, data |-> v.files[p].date]]
        BY <2>2, <2>3, <3>2 DEF OfferFile
      <4>2. client \in [Clients -> Client] /\ client[c].mode = "restore"
        BY <1>2, <1>5 DEF TypeOK
      <4>3. client'[c] = [client[c] EXCEPT !.busy = FALSE,
                            !.offer = [path |-> p, data |-> v.files[p].date]]
        BY <1>2, <4>1, <4>2
      <4>4. DOMAIN client[c] = {"mode", "tok", "busy", "offer", "view", "base"}
        BY <1>2, <4>2 DEF Client
      <4> QED BY <4>2, <4>3, <4>4
    <3> QED BY <1>7, <3>1, <3>2
  <2>5. Sess(c)'.version = v /\ Sess(c)'.todo = left /\ Sess(c)'.cur = p
    BY <1>5, <1>7, <2>4 DEF Sess, Moved
  <2>6. ~ Acked(c)' /\ ~ Acking(c)'
    BY <1>6, <2>1, NoNextServer
  <2>7. Left(c)' = left
    BY <2>5, <2>6 DEF Left
  <2>8. RestoreInv(c)'
    BY <1>5, <1>6, <1>7, <2>4, <2>5, <2>6, <2>7 DEF RestoreInv
  <2>9. OfferInv(c)'
    BY <1>6, <2>1, <2>4 DEF OfferInv
  <2> QED BY <2>1, <2>4, <2>8, <2>9, RestoreFiles
<1>8. ASSUME p = NoPath, Moved(e, left, p, Null), UNCHANGED client,
             exec' = [exec EXCEPT ![e].at = "restored", ![e].ver = v]
      PROVE  FilesOf(c)'
  <2>1. exec[e] \in [at : Steps, msg : Message, tok : Tokens \cup {NoToken},
                     ver : TVersion \cup {Null}]
    BY <1>1, <1>2, BusyFields DEF SessionInv, NumberInv
  <2>2. /\ exec'[e].at = "restored" /\ exec'[e].msg = exec[e].msg /\ exec'[e].ver = v
        /\ \A x \in Executors \ {e} : exec'[x] = exec[x]
    BY <1>2, <1>8, <2>1 DEF TypeOK
  <2>3. ServedBy(c)' = {e}
    BY <1>1, <1>2, <2>2, MoveServes DEF SessionInv, NumberInv
  <2>4. Sess(c)'.version = Null
    BY <1>5, <1>8 DEF Sess, Moved
  <2>5. client[c].view = Promised(v.files)
    BY <1>5, <1>8, WithoutNone
  <2>6. RestoreStepInv(c, e)'
    BY <1>6, <1>8, <2>2, <2>5 DEF RestoreStepInv
  <2>7. RestoreInv(c)' /\ OfferInv(c)'
    BY <1>2, <1>8, <2>4 DEF RestoreInv, OfferInv
  <2> QED BY <1>1, <1>5, <1>8, <2>2, <2>3, <2>6, <2>7, RestoreFiles
<1>9. FilesOf(c)'
  BY <1>2, <1>4, <1>5, <1>7, <1>8 DEF RestoreStep
<1> QED BY <1>2, <1>3, <1>9, FilesElsewhere DEF ServesFiles

------------------------------------------------------------------------------
(* The clients.                                                            *)

\* A client that waits for nothing has no request under way.
LEMMA Resting ==
  ASSUME SessionInv, NEW c \in Clients, ~ client[c].busy
  PROVE  Queue(c) = {} /\ ServedBy(c) = {}
BY DEF SessionInv, Owned, OneRequest

LEMMA SendFiles ==
  ASSUME FileInv, NEW c \in Clients, client[c].mode # "restore", NEW m, Send(c, m)
  PROVE  ServesFiles(c)
<1>1. SessionInv /\ FilesOf(c) /\ Queue(c) = {} /\ ServedBy(c) = {}
  BY Resting DEF FileInv, Send
<1>2. /\ db' = db /\ disk' = disk /\ sessions' = sessions /\ session' = session
      /\ exec' = exec
  BY DEF Send
<1>3. /\ client'[c].mode = client[c].mode /\ client'[c].tok = client[c].tok
      /\ client'[c].offer = client[c].offer
  BY <1>1 DEF Send, Client, SessionInv, NumberInv, TypeInv, TypeOK
<1>4. client[c].offer = Null
  BY NoOffer
<1>5. ServedBy(c)' = {}
  BY <1>1, <1>2 DEF ServedBy
<1>6. \A v, p : OnDisk(UserOf[c], v, p)' <=> OnDisk(UserOf[c], v, p)
  BY <1>2, SameDisk, OnDiskStays
<1>7. \A p : ~ Replacing(c, p)
  BY <1>1, NoServer
<1>8. UpdateInv(c)'
  <2>1. (InTable(c)' <=> InTable(c)) /\ Sess(c)' = Sess(c)
    BY <1>2, <1>3 DEF InTable, Sess
  <2> QED BY <1>1, <1>2, <1>3, <1>6, <1>7, <2>1 DEF FilesOf, UpdateInv
<1>9. RestoreInv(c)' /\ OfferInv(c)'
  BY <1>3, <1>4 DEF RestoreInv, OfferInv
<1>10. FilesOf(c)'
  BY <1>5, <1>8, <1>9 DEF FilesOf
<1> QED BY <1>2, <1>10, FilesElsewhere DEF ServesFiles

\* The client has the files the cursor has passed, and one more.
LEMMA WithoutCur ==
  ASSUME NEW v, NEW todo, NEW p \in Paths, p \in todo, todo \subseteq Listed(v)
  PROVE  [Without(v, todo) EXCEPT ![p] = v.files[p].date] = Without(v, todo \ {p})
BY DEF Without, Listed

\* It has accepted the file it was offered, or wants it once more.
LEMMA AckFiles ==
  ASSUME FileInv, NEW c \in Clients, NEW ok \in BOOLEAN, AckFile(c, ok),
         NEW s, s = Sess(c), NEW v, v = s.version
  PROVE  ServesFiles(c)
<1> DEFINE m == [kind |-> "RestoreFileAck", from |-> c, ok |-> ok]
<1>1. SessionInv /\ FilesOf(c) /\ Queue(c) = {} /\ ServedBy(c) = {}
  BY Resting DEF FileInv, AckFile
<1>2. /\ db' = db /\ disk' = disk /\ sessions' = sessions /\ session' = session
      /\ exec' = exec /\ inbox' = inbox \cup {m}
      /\ client[c].mode = "restore" /\ client[c].offer # Null
  BY DEF AckFile
<1>3. client[c] \in Client /\ client \in [Clients -> Client] /\ client[c].offer \in Offer
  BY <1>1, <1>2 DEF SessionInv, NumberInv, TypeInv, TypeOK, Client
<1>4. /\ client'[c].mode = "restore" /\ client'[c].tok = client[c].tok
      /\ client'[c].offer = Null
      /\ client'[c].view =
           IF ok THEN [client[c].view EXCEPT ![client[c].offer.path] = client[c].offer.data]
                 ELSE client[c].view
  BY <1>2, <1>3 DEF AckFile, Client
<1>5. ServedBy(c)' = {} /\ Queue(c)' = {m}
  BY <1>1, <1>2 DEF ServedBy, Queue
<1>6. IsAck(m) /\ m.ok = ok
  BY DEF IsAck
<1> HIDE DEF m
<1>7. (Acked(c)' <=> ok) /\ Acking(c)' /\ ~ Acked(c) /\ ~ Acking(c)
  BY <1>1, <1>5, <1>6, NoServer, NoNextServer
<1>8. RestoreInv(c)'
  <2> SUFFICES ASSUME InTable(c)', Sess(c)'.version # Null
               PROVE  RestoreInv(c)'
    BY DEF RestoreInv
  <2>1. InTable(c) /\ Sess(c)' = s /\ v # Null
    BY <1>2, <1>4 DEF InTable, Sess
  <2>2. /\ FromRows(UserOf[c], v) /\ s.todo \subseteq Listed(v)
        /\ s.cur # NoPath /\ s.cur \in s.todo
        /\ client[c].view = Without(v, s.todo)
        /\ client[c].offer = [path |-> s.cur, data |-> v.files[s.cur].date]
    BY <1>1, <1>2, <1>7, <2>1 DEF FilesOf, RestoreInv, Left
  <2>3. s.cur \in Paths
    BY <2>2 DEF Listed
  <2>4. Left(c)' = IF ok THEN s.todo \ {s.cur} ELSE s.todo
    BY <1>7, <2>1 DEF Left
  <2>5. client'[c].view = Without(v, Left(c)')
    <3>1. [Without(v, s.todo) EXCEPT ![s.cur] = v.files[s.cur].date]
            = Without(v, s.todo \ {s.cur})
      <4>1. s.cur \in s.todo /\ s.todo \subseteq Listed(v)
        BY <2>2
      <4> QED BY <2>3, <4>1, WithoutCur
    <3>2. client'[c].view =
            IF ok THEN [Without(v, s.todo) EXCEPT ![s.cur] = v.files[s.cur].date]
                  ELSE Without(v, s.todo)
      <4>1. /\ client[c].offer.path = s.cur /\ client[c].offer.data = v.files[s.cur].date
            /\ client[c].view = Without(v, s.todo)
        BY <2>2
      <4> QED BY <1>4, <4>1
    <3> QED BY <2>4, <3>1, <3>2
  <2>6. FromRows(UserOf[c], v)'
    BY <1>2, <2>2, FromRowsStays
  <2>7. /\ s.todo \subseteq Listed(v)
        /\ IF s.cur = NoPath THEN Listed(v) = {} ELSE s.cur \in s.todo
    BY <2>2
  <2>8. /\ FromRows(UserOf[c], Sess(c).version)'
        /\ client'[c].offer = Null /\ Sess(c)'.cur # NoPath
    BY <1>4, <2>1, <2>2, <2>6
  <2> QED BY <2>1, <2>5, <2>7, <2>8 DEF RestoreInv
<1>9. OfferInv(c)'
  BY <1>4 DEF OfferInv
<1>10. FilesOf(c)'
  BY <1>4, <1>5, <1>8, <1>9, RestoreFiles
<1> QED BY <1>2, <1>10, FilesElsewhere DEF ServesFiles

LEMMA AbandonFiles ==
  ASSUME FileInv, NEW c \in Clients, Abandon(c)
  PROVE  ServesFiles(c)
<1>1. SessionInv /\ ServedBy(c) = {} /\ db' = db /\ disk' = disk /\ exec' = exec /\ Dismiss(c)
  BY Resting DEF FileInv, Abandon
<1>2. ServedBy(c)' = {} /\ client'[c] = LoggedOut
  BY <1>1, DismissClient DEF ServedBy, SessionInv, NumberInv, TypeInv, TypeOK
<1> QED BY <1>1, <1>2, OutFiles, FilesElsewhere DEF ServesFiles

\* Rows, files, sessions and requests are what they were.
LEMMA SameFiles ==
  ASSUME FileInv, UNCHANGED <<db, disk, client, sessions, session, exec>>,
         \A d \in Clients : Queue(d)' = Queue(d)
  PROVE  (\A u \in Users : UserRows(u)') /\ \A d \in Clients : FilesOf(d)'
<1>1. \A u, n, p : ReadFile(u, n, p)' = ReadFile(u, n, p)
  BY SameDisk
<1>2. ASSUME NEW d \in Clients PROVE FilesOf(d)'
  <2>1. FilesOf(d) /\ ServedBy(d)' = ServedBy(d) /\ (InTable(d)' => InTable(d))
    BY DEF FileInv, ServedBy, InTable
  <2>2. Sess(d)' = Sess(d)
    BY DEF Sess
  <2> QED BY <1>1, <2>1, <2>2, SameFilesOf
<1>3. \A u \in Users : UserRows(u)'
  BY <1>1, UserRowsStay DEF FileInv
<1> QED BY <1>2, <1>3

LEMMA UseFiles ==
  ASSUME FileInv, OneDevice, NEW c \in Clients, Use(c)
  PROVE  (\A u \in Users : UserRows(u)') /\ \A d \in Clients : FilesOf(d)'
<1>1. SessionInv
  BY DEF FileInv
<1>2. CASE SendPing(c)
  <2>1. \A d \in Clients : Queue(d)' = Queue(d)
    BY <1>2 DEF SendPing, Queue
  <2> QED BY <1>2, <2>1, SameFiles DEF SendPing
<1>3. CASE StartUpdate(c) \/ SendChange(c) \/ StopUpdate(c) \/ StartRestore(c)
  <2>1. client[c].mode # "restore"
    BY <1>1, <1>3, Sent
  <2>2. PICK m \in Message : /\ Send(c, m) /\ m.from = c /\ client[c].mode = SentIn(m)
                             /\ m.kind \notin {"Ping", "RestoreFileAck"}
    BY <1>1, <1>3, Sent
  <2> QED BY <1>1, <2>1, <2>2, SendOwned, SendFiles, ServingKeepsFiles DEF ServesOnly
<1>4. CASE \E ok \in BOOLEAN : AckFile(c, ok)
  BY <1>1, <1>4, AckOwned, AckFiles, ServingKeepsFiles DEF ServesOnly
<1>5. CASE Abandon(c)
  BY <1>1, <1>5, AbandonOwned, AbandonFiles, ServingKeepsFiles DEF ServesOnly
<1> QED BY <1>2, <1>3, <1>4, <1>5 DEF Use

------------------------------------------------------------------------------
(* The invariant.                                                          *)

\* After the death of the process nobody has a session, and a client that had
\* not acknowledged its file has it still.
LEMMA RestartFiles ==
  ASSUME FileInv, Restart
  PROVE  (\A u \in Users : UserRows(u)') /\ \A c \in Clients : FilesOf(c)'
<1>1. \A u \in Users : UserRows(u)'
  BY SameDisk, UserRowsStay DEF FileInv, Restart
<1>2. ASSUME NEW c \in Clients PROVE FilesOf(c)'
  <2>1. /\ FilesOf(c) /\ Owned(c) /\ UserOf[c] \in Users
        /\ client[c] \in Client /\ client \in [Clients -> Client]
    BY UserAssumption DEF FileInv, SessionInv, NumberInv, TypeInv, TypeOK
  <2>2. Queue(c)' = {} /\ ServedBy(c)' = {}
    BY DEF Restart, Queue, ServedBy, Idle, Steps
  <2>3. /\ client'[c].mode = client[c].mode /\ client'[c].tok = client[c].tok
        /\ client'[c].offer = client[c].offer
    BY <2>1 DEF Restart, Client
  <2>4. client[c].mode # "out" => client[c].tok \in Tokens
    BY <2>1 DEF Owned, TokenInv, Client
  <2>5. ~ InTable(c)'
    BY <2>1, <2>3, <2>4, SentinelAssumption DEF Restart, InTable
  <2>6. UpdateInv(c)' /\ RestoreInv(c)'
    BY <2>5 DEF UpdateInv, RestoreInv
  <2>7. OfferInv(c)'
    BY <2>1, <2>2, <2>3 DEF FilesOf, OfferInv
  <2> QED BY <2>2, <2>6, <2>7 DEF FilesOf
<1> QED BY <1>1, <1>2

LEMMA ExecuteFiles ==
  ASSUME FileInv, OneDevice, SessionInv', NEW e \in Executors, Execute(e)
  PROVE  (\A u \in Users : UserRows(u)') /\ \A c \in Clients : FilesOf(c)'
<1>1. SessionInv
  BY DEF FileInv
<1>2. ASSUME NEW m \in inbox, \/ ProcessUpdateStart(e, m) \/ FindSession(e, m)
                              \/ ProcessRestoreVersion(e, m)
      PROVE  (\A u \in Users : UserRows(u)') /\ \A c \in Clients : FilesOf(c)'
  <2>1. m.from \in Clients
    BY <1>1, MessageFields DEF SessionInv, NumberInv, TypeInv, TypeOK
  <2>2. ServesOnly(m.from)
    BY <1>1, <1>2, UpdateStartOwned, FindSessionOwned, RestoreVersionOwned
  <2>3. ServesFiles(m.from)
    BY <1>2, UpdateStartFiles, FindSessionFiles, RestoreVersionFiles
  <2> QED BY <2>1, <2>2, <2>3, ServingKeepsFiles DEF ServesOnly
<1>3. ASSUME NEW m \in inbox, ProcessPingRequest(e, m)
      PROVE  (\A u \in Users : UserRows(u)') /\ \A c \in Clients : FilesOf(c)'
  BY <1>1, <1>3, PingChangesNothing, SameFiles
<1>4. ASSUME \/ RejectFile(e) \/ StoreContent(e) \/ ListFile(e) \/ ProcessRemoveFile(e)
             \/ TerminateSession(e) \/ EraseSession(e) \/ RefuseVersion(e)
             \/ InsertNewVersion(e) \/ FailToInsert(e) \/ CleanUp(e)
             \/ FindFirst(e) \/ SendFile(e) \/ StopRestore(e)
      PROVE  (\A u \in Users : UserRows(u)') /\ \A c \in Clients : FilesOf(c)'
  <2>1. exec[e].at \in Steps
    BY <1>4 DEF RejectFile, StoreContent, ListFile, ProcessRemoveFile, TerminateSession,
                EraseSession, RefuseVersion, InsertNewVersion, FailToInsert, CleanUp,
                FindFirst, SendFile, StopRestore, At, Steps
  <2>2. exec[e].msg.from \in Clients
    BY <1>1, <2>1, Serving
  <2>3. ServesOnly(exec[e].msg.from)
    BY <1>1, <1>4, RejectFileOwned, StoreContentOwned, ListFileOwned, RemoveFileOwned,
       TerminateSessionOwned, EraseSessionOwned, CommitEndsOwned, FailToInsertOwned,
       FindFirstOwned, SendFileOwned, StopRestoreOwned
  <2>4. ServesFiles(exec[e].msg.from)
    BY <1>4, RejectFileFiles, StoreContentFiles, ListFileFiles, RemoveFileFiles,
       TerminateSessionFiles, CommitGoesOnFiles, DismissedFiles, InsertFiles,
       CleanUpFiles, FindFirstFiles, SendFileFiles
  <2> QED BY <2>2, <2>3, <2>4, ServingKeepsFiles DEF ServesOnly
<1>5. ~ NullVersion(e)
  BY <1>1, VersionIsThere DEF NullVersion
<1> QED BY <1>2, <1>3, <1>4, <1>5 DEF Execute

LEMMA InitFiles == ASSUME Init PROVE FileInv
<1>1. \A u \in Users : UserRows(u)
  BY DEF Init, UserRows
<1>2. ASSUME NEW c \in Clients PROVE FilesOf(c)
  <2>1. ServedBy(c) = {} /\ client[c] = LoggedOut
    BY DEF Init, ServedBy, Idle, Steps
  <2> QED BY <2>1 DEF LoggedOut, FilesOf, UpdateInv, RestoreInv, OfferInv, InTable
<1> QED BY <1>1, <1>2, InitSession DEF FileInv

LEMMA NextFiles ==
  ASSUME FileInv, OneDevice, ~ MaySleep, [Next]_vars
  PROVE  FileInv'
<1>1. SessionInv /\ SessionInv'
  BY NextSession DEF FileInv, Undisturbed
<1>2. (\A u \in Users : UserRows(u)') /\ \A c \in Clients : FilesOf(c)'
  <2>1. CASE \E e \in Executors : Execute(e)
    BY <1>1, <2>1, ExecuteFiles
  <2>2. CASE \E c \in Clients : Use(c)
    BY <2>2, UseFiles
  <2>3. CASE Crash
    BY <2>3, RestartFiles DEF Crash
  <2>4. CASE UNCHANGED vars
    <3>1. \A d \in Clients : Queue(d)' = Queue(d)
      BY <2>4 DEF vars, Queue
    <3> QED BY <2>4, <3>1, SameFiles DEF vars
  <2>5. ~ \E u \in Users : SessionExpires(u)
    BY DEF SessionExpires
  <2> QED BY <1>1, <2>1, <2>2, <2>3, <2>4, <2>5, NothingToClean DEF Next
<1> QED BY <1>1, <1>2 DEF FileInv

LEMMA FilesHold == ASSUME OneDevice, ~ MaySleep PROVE Spec => []FileInv
BY InitFiles, NextFiles, PTL DEF Spec

\* With one device per user and no time-out, each row of a committed version
\* names a file that is on disk with the content it was committed with, whatever
\* sessions, refused commits and deaths of the process came between: the
\* directories processUpdateStop removes are those of no committed version.
THEOREM CommittedFilesStay == OneDevice /\ ~ MaySleep => (Spec => []CommittedFilesKept)
<1> SUFFICES ASSUME OneDevice, ~ MaySleep PROVE Spec => []CommittedFilesKept
  OBVIOUS
<1>1. FileInv => CommittedFilesKept
  BY DEF FileInv, UserRows, RowOnDisk, CommittedFilesKept
<1> QED BY <1>1, FilesHold, PTL

\* Under the same conditions a restore that ends has given the client the files
\* of a committed version, all of them and no others, with the contents its rows
\* promise, however often a file was refused and sent again
\* (processRestoreVersion, processRestoreFileAck).
THEOREM RestoresAreExact == OneDevice /\ ~ MaySleep => (Spec => []RestoreIsExact)
<1> SUFFICES ASSUME OneDevice, ~ MaySleep PROVE Spec => []RestoreIsExact
  OBVIOUS
<1>1. FileInv => RestoreIsExact
  <2> SUFFICES ASSUME FileInv, NEW e \in Executors, At(e, {"restored"}),
                      NEW c, c = exec[e].msg.from, NEW v, v = exec[e].ver
               PROVE  /\ client[c].view = Promised(v.files)
                      /\ \A p \in Listed(v) :
                           v.files[p].date = db[User(exec[e].msg)][v.id][p].date
    BY DEF RestoreIsExact
  <2>1. exec[e].at \in Steps /\ exec[e].at = "restored"
    BY DEF At, Steps
  <2>2. c \in Clients /\ User(exec[e].msg) = UserOf[c] /\ e \in ServedBy(c)
    BY <2>1, Serving DEF FileInv
  <2>3. RestoreStepInv(c, e)
    BY <2>2 DEF FileInv, FilesOf
  <2> QED BY <2>1, <2>2, <2>3 DEF RestoreStepInv, FromRows
<1> QED BY <1>1, FilesHold, PTL

==============================================================================
