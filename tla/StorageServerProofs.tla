------------------------- MODULE StorageServerProofs -------------------------
(***************************************************************************)
(* What holds of StorageServer for any users, devices, executors and files.*)
(*                                                                         *)
(*   TypeCorrect      TypeOK, which needs to know which handlers hold a    *)
(*                    session and a request of the right kind;             *)
(*   HistoryIsKept    no step changes or drops a committed version;        *)
(*   NumbersAreGapless  the versions of a user are 1, 2, 3, ...            *)
(***************************************************************************)
EXTENDS StorageServer, TLAPS

USE DEF NO_VERSION

------------------------------------------------------------------------------
(* Operators of Version.                                                   *)

\* An empty version is a version.
LEMMA NewVersionType ==
  ASSUME NEW id \in Nat
  PROVE  NewVersion(id) \in TVersion /\ Listed(NewVersion(id)) = {}
BY DEF NewVersion, TVersion, FileMap, Listed

\* What is read back from rows is a version.
LEMMA LoadVersionType ==
  ASSUME NEW id \in Nat, NEW rows \in Rows
  PROVE  LoadVersion(id, rows) \in TVersion /\ LoadVersion(id, rows).id = id
<1>1. ASSUME NEW p \in Paths, rows[p] # NoFile
      PROVE  [dir |-> rows[p].dir, ver |-> id, date |-> rows[p].date] \in Entry
  BY <1>1 DEF Rows, Row, Entry
<1>2. QED
  BY <1>1 DEF LoadVersion, TVersion, FileMap

\* Listing, replacing and removing files keep a version a version, and its
\* number.
LEMMA ChangeType ==
  ASSUME NEW v \in TVersion, NEW p \in Paths, NEW f \in Entry
  PROVE  /\ AddFile(v, p, f) \in TVersion /\ AddFile(v, p, f).id = v.id
         /\ UpdateFile(v, p, f) \in TVersion /\ UpdateFile(v, p, f).id = v.id
         /\ RemoveFile(v, p) \in TVersion /\ RemoveFile(v, p).id = v.id
BY DEF AddFile, UpdateFile, RemoveFile, TVersion, FileMap

LEMMA NewFileType ==
  ASSUME NEW base \in Nat, NEW d \in Data
  PROVE  NewFile(base, d) \in Entry
BY DEF NewFile, Entry

\* Moving a version's entries to the next version yields that version, and the
\* rows written for it are rows.
LEMMA TerminateType ==
  ASSUME NEW v \in TVersion
  PROVE  /\ TerminateWithSuccess(v) \in TVersion
         /\ TerminateWithSuccess(v).id = v.id + 1
<1>1. ASSUME NEW p \in Listed(v)
      PROVE  [v.files[p] EXCEPT !.ver = v.id + 1] \in Entry
  BY DEF Listed, TVersion, FileMap, Entry
<1>2. QED
  BY <1>1 DEF TerminateWithSuccess, TVersion, FileMap

LEMMA RowsType ==
  ASSUME NEW v \in TVersion
  PROVE  RowsOf(v) \in Rows
<1>1. ASSUME NEW p \in Listed(v)
      PROVE  [dir |-> v.files[p].dir, date |-> v.files[p].date] \in Row
  BY DEF Listed, TVersion, FileMap, Entry, Row
<1>2. QED
  BY <1>1 DEF RowsOf, Rows

LEMMA PromisedType ==
  ASSUME NEW v \in TVersion
  PROVE  Promised(v.files) \in Contents
<1>1. ASSUME NEW p \in Paths, v.files[p] # NoFile
      PROVE  v.files[p].date \in Data
  BY <1>1 DEF TVersion, FileMap, Entry
<1>2. QED
  BY <1>1 DEF Promised, Contents

\* The version a session starts from is a version.
LEMMA InitialVersionType ==
  ASSUME TypeOK, NEW u \in Users, NEW ver, NEW file
  PROVE  InitialVersion(u, ver, file) \in TVersion
<1> DEFINE id == IF ver = NO_VERSION THEN LastVersion(u) ELSE ver
           rows == IF ver = NO_VERSION \/ file = NoPath
                     THEN db[u][id]
                     ELSE [p \in Paths |->
                             IF p = file THEN db[u][id][p] ELSE NoFile]
<1>1. InitialVersion(u, ver, file) =
        IF id \notin DOMAIN db[u] \/ \A p \in Paths : rows[p] = NoFile
          THEN NewVersion(NO_VERSION)
          ELSE LoadVersion(id, rows)
  BY DEF InitialVersion
<1>2. ASSUME id \in DOMAIN db[u] PROVE id \in Nat /\ db[u][id] \in Rows
  BY <1>2 DEF TypeOK
<1>3. ASSUME id \in DOMAIN db[u] PROVE rows \in Rows
  <2>1. db[u][id] \in Rows
    BY <1>2, <1>3
  <2> HIDE DEF id
  <2>2. QED
    BY <2>1 DEF Rows
<1> HIDE DEF id, rows
<1>4. QED
  BY <1>1, <1>2, <1>3, NewVersionType, LoadVersionType

------------------------------------------------------------------------------
(* Types of the shared state after the operations on it.                   *)

LEMMA MessageFields ==
  ASSUME NEW m \in Message
  PROVE  /\ m.from \in Clients
         /\ m.kind \in {"AddFile", "UpdateFile"} => m.path \in Paths /\ m.date \in Data
         /\ m.kind = "RemoveFile" => m.path \in Paths
BY DEF Message

LEMMA UserType == ASSUME NEW m \in Message PROVE User(m) \in Users
BY MessageFields, UserAssumption DEF User

LEMMA DismissType ==
  ASSUME client \in [Clients -> Client], NEW c \in Clients, Dismiss(c)
  PROVE  client' \in [Clients -> Client]
<1>1. LoggedOut \in Client
  BY DEF LoggedOut, Client, NoContents, Contents
<1>2. QED
  BY <1>1 DEF Dismiss

LEMMA AnswerType ==
  ASSUME client \in [Clients -> Client], NEW c \in Clients, NEW view \in Contents,
         Answer(c, view)
  PROVE  client' \in [Clients -> Client]
BY DEF Answer, Client

LEMMA OfferType ==
  ASSUME NEW k \in Client, NEW o \in Offer
  PROVE  [k EXCEPT !.busy = FALSE, !.offer = o] \in Client
BY DEF Client

LEMMA StoreFileType ==
  ASSUME TypeOK, NEW u \in Users, NEW n \in Nat, NEW p \in Paths, NEW d \in Data,
         StoreFile(u, n, p, d)
  PROVE  \A k \in DOMAIN disk' : k \in Users \X Nat \X Paths /\ disk'[k] \in Data
BY DEF StoreFile, TypeOK

LEMMA RemoveDirType ==
  ASSUME TypeOK, NEW u, NEW n, RemoveDir(u, n)
  PROVE  \A k \in DOMAIN disk' : k \in Users \X Nat \X Paths /\ disk'[k] \in Data
BY DEF RemoveDir, TypeOK

LEMMA GotoType ==
  ASSUME exec \in [Executors -> Thread], NEW e \in Executors, NEW at \in Steps,
         NEW m \in Message, NEW t \in Tokens \cup {NoToken},
         NEW v \in TVersion \cup {Null}, Goto(e, at, m, t, v)
  PROVE  exec' \in [Executors -> Thread]
BY DEF Goto, Thread

LEMMA FinishType ==
  ASSUME exec \in [Executors -> Thread], NEW e \in Executors, Finish(e)
  PROVE  exec' \in [Executors -> Thread]
BY DEF Finish, Thread, Idle

LEMMA NewSessionType ==
  ASSUME TypeOK, NEW u \in Users, NEW kind \in {"update", "restore"},
         NEW v \in TVersion, NEW t \in Tokens, NEW first \in Paths \cup {NoPath},
         NewSession(u, kind, v, t, first)
  PROVE  /\ sessions' \in [Users -> Tokens \cup {NoToken}]
         /\ session' \in [Tokens -> Session \cup {Null}]
         /\ \A x \in Tokens : session[x] # Null => session'[x] = session[x]
         /\ session'[t] \in Session /\ session'[t].version = v
<1> DEFINE s == [kind |-> kind, version |-> v, idle |-> FALSE,
                 todo |-> IF kind = "restore" THEN Listed(v) ELSE {},
                 cur |-> first]
<1>1. s \in Session /\ s.version = v
  BY DEF Session, Listed
<1>2. session' = [session EXCEPT ![t] = s] /\ session[t] = Null
  BY DEF NewSession
<1> HIDE DEF s
<1>3. QED
  BY <1>1, <1>2 DEF NewSession, TypeOK

LEMMA RestartType ==
  ASSUME TypeOK, Restart
  PROVE  TypeOK'
<1>1. session' \in [Tokens -> Session \cup {Null}]
  BY DEF Restart, TypeOK, Session
<1>2. client' \in [Clients -> Client]
  <2>1. \A k \in Client : [k EXCEPT !.busy = FALSE] \in Client
    BY DEF Client
  <2>2. client' = [c \in Clients |-> [client[c] EXCEPT !.busy = FALSE]]
    BY DEF Restart
  <2> QED BY <2>1, <2>2 DEF TypeOK
<1>3. exec' \in [Executors -> Thread]
  BY DEF Restart, Thread, Idle
<1>4. cleaner' \in Cleaner
  BY DEF Restart, Cleaner, Waiting
<1>5. QED
  BY <1>1, <1>2, <1>3, <1>4 DEF Restart, TypeOK

------------------------------------------------------------------------------
(* The inductive invariant of type correctness: a handler that has found a *)
(* session holds one that exists, the request it works on has the fields   *)
(* its step reads, and it has a version where its step uses one.           *)

Ready(e) ==
  exec[e].at \in Steps =>
    /\ exec[e].at \in {"AddFile", "UpdateFile", "stored"} =>
         exec[e].msg.kind \in {"AddFile", "UpdateFile"}
    /\ exec[e].at = "RemoveFile" => exec[e].msg.kind = "RemoveFile"
    /\ exec[e].at # "first" =>
         exec[e].tok \in Tokens /\ session[exec[e].tok] # Null
    /\ exec[e].at \in {"stored", "erase", "commit", "cleanup", "restored"} =>
         exec[e].ver # Null

HandlersReady == \A e \in Executors : Ready(e)

TableReady == \A u \in Users : sessions[u] # NoToken => session[sessions[u]] # Null

TypeInv == TypeOK /\ HandlersReady /\ TableReady

\* No step takes a session object away.
SessionsStay == \A t \in Tokens : session[t] # Null => session'[t] # Null

\* A step of executor e leaves the other handlers ready.
LEMMA ReadyKept ==
  ASSUME HandlersReady, SessionsStay, NEW e \in Executors,
         \A x \in Executors \ {e} : exec'[x] = exec[x],
         Ready(e)'
  PROVE  HandlersReady'
BY DEF HandlersReady, SessionsStay, Ready

\* A step that changes no handler leaves all of them ready.
LEMMA AllReadyKept ==
  ASSUME HandlersReady, SessionsStay, exec' = exec
  PROVE  HandlersReady'
BY DEF HandlersReady, SessionsStay, Ready

LEMMA FinishReady ==
  ASSUME TypeInv, NEW e \in Executors, Finish(e), SessionsStay
  PROVE  HandlersReady'
<1>1. Ready(e)' /\ \A x \in Executors \ {e} : exec'[x] = exec[x]
  BY DEF Finish, Ready, Idle, Steps, TypeInv, TypeOK
<1>2. QED
  BY <1>1, ReadyKept DEF TypeInv

\* A busy thread's fields.
LEMMA BusyFields ==
  ASSUME TypeInv, NEW e \in Executors, exec[e].at \in Steps
  PROVE  /\ exec[e] \in [at : Steps, msg : Message, tok : Tokens \cup {NoToken},
                          ver : TVersion \cup {Null}]
         /\ exec[e].msg \in Message
         /\ exec[e].msg.from \in Clients
         /\ User(exec[e].msg) \in Users
         /\ exec[e].ver \in TVersion \cup {Null}
<1>1. exec[e] \in Thread
  BY DEF TypeInv, TypeOK
<1>2. "idle" \notin Steps
  BY DEF Steps
<1>3. exec[e] \in [at : Steps, msg : Message, tok : Tokens \cup {NoToken},
                   ver : TVersion \cup {Null}]
  BY <1>1, <1>2 DEF Thread
<1>4. QED
  BY <1>3, MessageFields, UserType

\* The session of a handler that is past its look-up, and its version.
LEMMA HeldSession ==
  ASSUME TypeInv, NEW e \in Executors, exec[e].at \in Steps \ {"first"}
  PROVE  /\ exec[e].tok \in Tokens
         /\ session[exec[e].tok] \in Session
         /\ HasVersion(e) => Base(e) \in TVersion
<1>1. exec[e].tok \in Tokens /\ session[exec[e].tok] # Null
  BY DEF TypeInv, HandlersReady, Ready
<1>2. session[exec[e].tok] \in Session
  BY <1>1 DEF TypeInv, TypeOK
<1>3. session[exec[e].tok].version \in TVersion \cup {Null}
  BY <1>2 DEF Session
<1>4. QED
  BY <1>1, <1>2, <1>3 DEF HasVersion, Base

\* Changing the version of a session that exists.
LEMMA SetVersionType ==
  ASSUME TypeInv, NEW e \in Executors, exec[e].at \in Steps \ {"first"},
         NEW v \in TVersion \cup {Null}, SetVersion(e, v)
  PROVE  /\ session' \in [Tokens -> Session \cup {Null}]
         /\ SessionsStay
<1> DEFINE t == exec[e].tok
<1>1. t \in Tokens /\ session[t] \in Session
  BY HeldSession
<1>2. [session[t] EXCEPT !.version = v] \in Session
  BY <1>1 DEF Session
<1>3. session' = [session EXCEPT ![t] = [session[t] EXCEPT !.version = v]]
  BY DEF SetVersion
<1> HIDE DEF t
<1>4. QED
  BY <1>1, <1>2, <1>3, NullAssumption DEF SessionsStay, TypeInv, TypeOK

------------------------------------------------------------------------------
(* Each step of an executor preserves the invariant.                       *)

LEMMA UpdateStartTypes ==
  ASSUME TypeInv, NEW e \in Executors, NEW m \in inbox, ProcessUpdateStart(e, m)
  PROVE  TypeInv'
<1> USE DEF TypeInv
<1>1. m \in Message /\ m.from \in Clients /\ User(m) \in Users
  BY MessageFields, UserType DEF TypeOK
<1>2. CASE \E t \in Tokens :
             LET v == InitialVersion(User(m), NO_VERSION, NoPath)
             IN /\ NewSession(User(m), "update", v, t, NoPath)
                /\ client' = [client EXCEPT ![m.from] =
                     [LoggedOut EXCEPT !.mode = "update", !.tok = t,
                                       !.view = Promised(v.files),
                                       !.base = v.id]]
  <2> DEFINE v == InitialVersion(User(m), NO_VERSION, NoPath)
  <2>1. v \in TVersion
    BY <1>1, InitialVersionType
  <2> HIDE DEF v
  <2>2. PICK t \in Tokens :
          /\ NewSession(User(m), "update", v, t, NoPath)
          /\ client' = [client EXCEPT ![m.from] =
               [LoggedOut EXCEPT !.mode = "update", !.tok = t,
                                 !.view = Promised(v.files), !.base = v.id]]
    BY <1>2 DEF v
  <2>3. /\ sessions' \in [Users -> Tokens \cup {NoToken}]
        /\ session' \in [Tokens -> Session \cup {Null}]
        /\ \A x \in Tokens : session[x] # Null => session'[x] = session[x]
        /\ session'[t] \in Session
    BY <1>1, <2>1, <2>2, NewSessionType
  <2>4. Promised(v.files) \in Contents /\ v.id \in Nat
    BY <2>1, PromisedType DEF TVersion
  <2>5. client' \in [Clients -> Client]
    BY <1>1, <2>2, <2>4 DEF TypeOK, Client, LoggedOut
  <2>6. TypeOK'
    BY <2>3, <2>5 DEF ProcessUpdateStart, Take, TypeOK
  <2>7. SessionsStay /\ TableReady'
    BY <1>1, <2>2, <2>3, NullAssumption
       DEF NewSession, SessionsStay, TableReady, TypeOK
  <2>8. HandlersReady'
    BY <2>7, AllReadyKept DEF ProcessUpdateStart
  <2>9. QED
    BY <2>6, <2>7, <2>8
<1>3. CASE Dismiss(m.from) /\ UNCHANGED <<sessions, session>>
  <2>1. TypeOK'
    BY <1>1, <1>3, DismissType DEF ProcessUpdateStart, Take, TypeOK
  <2>2. SessionsStay /\ TableReady'
    BY <1>3 DEF SessionsStay, TableReady
  <2>3. QED
    BY <2>1, <2>2, AllReadyKept DEF ProcessUpdateStart
<1>4. QED
  BY <1>2, <1>3 DEF ProcessUpdateStart

LEMMA FindSessionTypes ==
  ASSUME TypeInv, NEW e \in Executors, NEW m \in inbox, FindSession(e, m)
  PROVE  TypeInv'
<1> USE DEF TypeInv
<1>1. m \in Message /\ m.from \in Clients /\ User(m) \in Users
  BY MessageFields, UserType DEF TypeOK
<1>2. SessionsStay /\ TableReady'
  BY DEF FindSession, SessionsStay, TableReady
<1>3. CASE HasSession(m) /\ Goto(e, m.kind, m, sessions[User(m)], Null)
             /\ UNCHANGED client
  <2>1. m.kind \in {"AddFile", "UpdateFile", "RemoveFile", "UpdateStop",
                    "RestoreFileAck"}
    BY DEF FindSession
  <2>2. m.kind \in Steps
    BY <2>1 DEF Steps
  <2>3. sessions[User(m)] \in Tokens /\ session[sessions[User(m)]] # Null
    BY <1>1, <1>3 DEF HasSession, TableReady, TypeOK
  <2>4. exec' \in [Executors -> Thread]
    BY <1>1, <1>3, <2>2, <2>3, GotoType DEF TypeOK
  <2>5. Ready(e)'
    BY <1>3, <2>1, <2>3 DEF Ready, Goto, FindSession, TypeOK
  <2>6. HandlersReady'
    BY <1>2, <1>3, <2>5, ReadyKept DEF Goto, TypeOK
  <2>7. TypeOK'
    BY <1>3, <2>4 DEF FindSession, Take, TypeOK
  <2>8. QED
    BY <1>2, <2>6, <2>7
<1>4. CASE Dismiss(m.from) /\ UNCHANGED exec
  <2>1. TypeOK'
    BY <1>1, <1>4, DismissType DEF FindSession, Take, TypeOK
  <2>2. QED
    BY <1>2, <1>4, <2>1, AllReadyKept
<1>5. QED
  BY <1>3, <1>4 DEF FindSession

LEMMA RejectFileTypes ==
  ASSUME TypeInv, NEW e \in Executors, RejectFile(e)
  PROVE  TypeInv'
<1> USE DEF TypeInv
<1> DEFINE c == exec[e].msg.from
<1>1. c \in Clients /\ client[c].view \in Contents
  BY BusyFields DEF RejectFile, At, Steps, TypeOK, Client
<1>2. client' \in [Clients -> Client]
  BY <1>1, DismissType, AnswerType DEF RejectFile, TypeOK
<1>3. exec' \in [Executors -> Thread]
  BY FinishType DEF RejectFile, TypeOK
<1>4. SessionsStay /\ TableReady'
  BY DEF RejectFile, SessionsStay, TableReady
<1>5. HandlersReady'
  BY <1>4, FinishReady DEF RejectFile
<1>6. QED
  BY <1>2, <1>3, <1>4, <1>5 DEF RejectFile, TypeOK

LEMMA StoreContentTypes ==
  ASSUME TypeInv, NEW e \in Executors, StoreContent(e)
  PROVE  TypeInv'
<1> USE DEF TypeInv
<1> DEFINE m == exec[e].msg
<1>1. exec[e].at \in {"AddFile", "UpdateFile"} /\ exec[e].at \in Steps
  BY DEF StoreContent, At, Steps
<1>2. m.kind \in {"AddFile", "UpdateFile"}
  BY <1>1 DEF HandlersReady, Ready
<1>3. m.path \in Paths /\ m.date \in Data /\ User(m) \in Users
  BY <1>1, <1>2, BusyFields, MessageFields
<1>4. Base(e) \in TVersion /\ Base(e).id + 1 \in Nat /\ Base(e) # Null
  BY <1>1, HeldSession DEF StoreContent, TVersion, HasVersion
<1>5. \A k \in DOMAIN disk' : k \in Users \X Nat \X Paths /\ disk'[k] \in Data
  BY <1>3, <1>4, StoreFileType DEF StoreContent
<1>6. exec[e] \in [at : Steps, msg : Message, tok : Tokens \cup {NoToken},
                   ver : TVersion \cup {Null}]
  BY <1>1, BusyFields
<1>7. exec' \in [Executors -> Thread]
  BY <1>4, <1>6 DEF StoreContent, TypeOK, Thread, Steps
<1>8. Ready(e)'
  BY <1>1, <1>2, <1>4, <1>6 DEF StoreContent, HandlersReady, Ready, TypeOK
<1>9. SessionsStay /\ TableReady'
  BY DEF StoreContent, SessionsStay, TableReady
<1>10. HandlersReady'
  BY <1>8, <1>9, ReadyKept DEF StoreContent, TypeOK
<1>11. QED
  BY <1>5, <1>7, <1>9, <1>10 DEF StoreContent, TypeOK

LEMMA ListFileTypes ==
  ASSUME TypeInv, NEW e \in Executors, ListFile(e)
  PROVE  TypeInv'
<1> USE DEF TypeInv
<1> DEFINE m == exec[e].msg
           c == m.from
           f == NewFile(exec[e].ver.id, m.date)
<1>1. exec[e].at = "stored" /\ exec[e].at \in Steps
  BY DEF ListFile, At, Steps
<1>2. m.kind \in {"AddFile", "UpdateFile"} /\ exec[e].ver # Null
  BY <1>1 DEF HandlersReady, Ready
<1>3. m.path \in Paths /\ m.date \in Data /\ c \in Clients
  BY <1>1, <1>2, BusyFields, MessageFields
<1>4. f \in Entry
  BY <1>1, <1>2, <1>3, BusyFields, NewFileType DEF TVersion
<1>5. Base(e) \in TVersion
  BY <1>1, HeldSession DEF ListFile
<1>6. AddFile(Base(e), m.path, f) \in TVersion
      /\ UpdateFile(Base(e), m.path, f) \in TVersion
  BY <1>3, <1>4, <1>5, ChangeType
<1> HIDE DEF f
<1>7. SetVersion(e, IF m.kind = "AddFile" THEN AddFile(Base(e), m.path, f)
                                         ELSE UpdateFile(Base(e), m.path, f))
  BY DEF ListFile, f
<1>8. session' \in [Tokens -> Session \cup {Null}] /\ SessionsStay
  BY <1>1, <1>6, <1>7, SetVersionType
<1>9. client' \in [Clients -> Client]
  <2>1. client[c].view \in Contents
        /\ [client[c].view EXCEPT ![m.path] = m.date] \in Contents
    BY <1>3 DEF TypeOK, Client, Contents
  <2>2. QED
    BY <1>3, <2>1, AnswerType DEF ListFile, TypeOK
<1>10. exec' \in [Executors -> Thread] /\ HandlersReady'
  BY <1>8, FinishType, FinishReady DEF ListFile, TypeOK
<1>11. TableReady'
  BY <1>8 DEF ListFile, TableReady, SessionsStay, TypeOK
<1>12. QED
  BY <1>8, <1>9, <1>10, <1>11 DEF ListFile, TypeOK

LEMMA RemoveFileTypes ==
  ASSUME TypeInv, NEW e \in Executors, ProcessRemoveFile(e)
  PROVE  TypeInv'
<1> USE DEF TypeInv
<1> DEFINE m == exec[e].msg
           c == m.from
<1>1. exec[e].at = "RemoveFile" /\ exec[e].at \in Steps
  BY DEF ProcessRemoveFile, At, Steps
<1>2. m.path \in Paths /\ c \in Clients
  BY <1>1, BusyFields, MessageFields DEF HandlersReady, Ready
<1>3. RemoveFile(Base(e), m.path) \in TVersion
  <2>1. Base(e) \in TVersion
    BY <1>1, HeldSession DEF ProcessRemoveFile
  <2>2. QED
    BY <1>2, <2>1 DEF RemoveFile, TVersion, FileMap
<1>4. session' \in [Tokens -> Session \cup {Null}] /\ SessionsStay
  BY <1>1, <1>3, SetVersionType DEF ProcessRemoveFile, SessionsStay, TypeOK
<1>5. client' \in [Clients -> Client]
  <2>1. client[c].view \in Contents
        /\ [client[c].view EXCEPT ![m.path] = NoFile] \in Contents
    BY <1>2 DEF TypeOK, Client, Contents
  <2>2. QED
    BY <1>2, <2>1, AnswerType DEF ProcessRemoveFile, TypeOK
<1>6. exec' \in [Executors -> Thread] /\ HandlersReady'
  BY <1>4, FinishType, FinishReady DEF ProcessRemoveFile, TypeOK
<1>7. TableReady'
  BY <1>4 DEF ProcessRemoveFile, TableReady, SessionsStay, TypeOK
<1>8. QED
  BY <1>4, <1>5, <1>6, <1>7 DEF ProcessRemoveFile, TypeOK

LEMMA TerminateSessionTypes ==
  ASSUME TypeInv, NEW e \in Executors, TerminateSession(e)
  PROVE  TypeInv'
<1> USE DEF TypeInv
<1>1. exec[e].at = "UpdateStop" /\ exec[e].at \in Steps
  BY DEF TerminateSession, At, Steps
<1>2. Base(e) \in TVersion /\ Base(e) # Null
  BY <1>1, HeldSession DEF TerminateSession, HasVersion
<1>3. session' \in [Tokens -> Session \cup {Null}] /\ SessionsStay
  BY <1>1, SetVersionType DEF TerminateSession
<1>4. exec[e] \in [at : Steps, msg : Message, tok : Tokens \cup {NoToken},
                   ver : TVersion \cup {Null}]
  BY <1>1, BusyFields
<1>5. exec' \in [Executors -> Thread]
  BY <1>2, <1>4 DEF TerminateSession, TypeOK, Thread, Steps
<1>6. Ready(e)'
  BY <1>1, <1>2, <1>3, <1>4
     DEF TerminateSession, HandlersReady, Ready, SessionsStay, TypeOK
<1>7. HandlersReady' /\ TableReady'
  BY <1>3, <1>6, ReadyKept DEF TerminateSession, TableReady, SessionsStay, TypeOK
<1>8. QED
  BY <1>3, <1>5, <1>7 DEF TerminateSession, TypeOK

LEMMA EraseSessionTypes ==
  ASSUME TypeInv, NEW e \in Executors, EraseSession(e)
  PROVE  TypeInv'
<1> USE DEF TypeInv
<1>1. exec[e].at = "erase" /\ exec[e].at \in Steps
  BY DEF EraseSession, At, Steps
<1>2. exec[e] \in [at : Steps, msg : Message, tok : Tokens \cup {NoToken},
                   ver : TVersion \cup {Null}]
  BY <1>1, BusyFields
<1>3. exec' \in [Executors -> Thread]
  BY <1>2 DEF EraseSession, TypeOK, Thread, Steps
<1>4. SessionsStay /\ TableReady' /\ sessions' \in [Users -> Tokens \cup {NoToken}]
  BY DEF EraseSession, RemoveSession, SessionsStay, TableReady, TypeOK
<1>5. Ready(e)'
  BY <1>1, <1>2 DEF EraseSession, HandlersReady, Ready, TypeOK
<1>6. HandlersReady'
  BY <1>4, <1>5, ReadyKept DEF EraseSession, TypeOK
<1>7. QED
  BY <1>3, <1>4, <1>6 DEF EraseSession, TypeOK

LEMMA RefuseVersionTypes ==
  ASSUME TypeInv, NEW e \in Executors, RefuseVersion(e)
  PROVE  TypeInv'
<1> USE DEF TypeInv
<1>1. exec[e].msg.from \in Clients
  BY BusyFields DEF RefuseVersion, At, Steps
<1>2. SessionsStay /\ TableReady'
  BY DEF RefuseVersion, SessionsStay, TableReady
<1>3. HandlersReady' /\ exec' \in [Executors -> Thread]
  BY <1>2, FinishReady, FinishType DEF RefuseVersion, TypeOK
<1>4. QED
  BY <1>1, <1>2, <1>3, DismissType DEF RefuseVersion, TypeOK

LEMMA InsertNewVersionTypes ==
  ASSUME TypeInv, NEW e \in Executors, InsertNewVersion(e)
  PROVE  TypeInv'
<1> USE DEF TypeInv
<1> DEFINE u == User(exec[e].msg)
           v == TerminateWithSuccess(exec[e].ver)
<1>1. exec[e].at = "commit" /\ exec[e].at \in Steps
  BY DEF InsertNewVersion, At, Steps
<1>2. exec[e].ver \in TVersion
  BY <1>1, BusyFields DEF HandlersReady, Ready
<1>3. v \in TVersion /\ RowsOf(v) \in Rows /\ v.id \in Nat
  BY <1>2, TerminateType, RowsType DEF TVersion
<1> HIDE DEF v
<1>4. db' = [db EXCEPT ![u] = [w \in DOMAIN db[u] \cup {v.id} |->
                                 IF w = v.id THEN RowsOf(v) ELSE db[u][w]]]
  BY DEF InsertNewVersion, v
<1> HIDE DEF u
<1>5. /\ DOMAIN db' = Users
      /\ \A x \in Users : \A w \in DOMAIN db'[x] : w \in Nat /\ db'[x][w] \in Rows
  BY <1>3, <1>4 DEF TypeOK
<1>6. exec[e].msg.from \in Clients
  BY <1>1, BusyFields
<1>7. SessionsStay /\ TableReady'
  BY DEF InsertNewVersion, SessionsStay, TableReady
<1>8. HandlersReady' /\ exec' \in [Executors -> Thread]
  BY <1>7, FinishReady, FinishType DEF InsertNewVersion, TypeOK
<1>9. client' \in [Clients -> Client]
  BY <1>6, DismissType DEF InsertNewVersion, TypeOK
<1>10. QED
  BY <1>5, <1>7, <1>8, <1>9 DEF InsertNewVersion, TypeOK

LEMMA FailToInsertTypes ==
  ASSUME TypeInv, NEW e \in Executors, FailToInsert(e)
  PROVE  TypeInv'
<1> USE DEF TypeInv
<1>1. exec[e].at = "commit" /\ exec[e].at \in Steps
  BY DEF FailToInsert, At, Steps
<1>2. exec[e] \in [at : Steps, msg : Message, tok : Tokens \cup {NoToken},
                   ver : TVersion \cup {Null}]
  BY <1>1, BusyFields
<1>3. exec' \in [Executors -> Thread]
  BY <1>2 DEF FailToInsert, TypeOK, Thread, Steps
<1>4. SessionsStay /\ TableReady'
  BY DEF FailToInsert, SessionsStay, TableReady
<1>5. Ready(e)'
  BY <1>1, <1>2 DEF FailToInsert, HandlersReady, Ready, TypeOK
<1>6. QED
  BY <1>3, <1>4, <1>5, ReadyKept DEF FailToInsert, TypeOK

LEMMA CleanUpTypes ==
  ASSUME TypeInv, NEW e \in Executors, CleanUp(e)
  PROVE  TypeInv'
<1> USE DEF TypeInv
<1>1. exec[e].msg.from \in Clients
  BY BusyFields DEF CleanUp, At, Steps
<1>2. \A k \in DOMAIN disk' : k \in Users \X Nat \X Paths /\ disk'[k] \in Data
  BY RemoveDirType DEF CleanUp
<1>3. SessionsStay /\ TableReady'
  BY DEF CleanUp, SessionsStay, TableReady
<1>4. HandlersReady' /\ exec' \in [Executors -> Thread]
  BY <1>3, FinishReady, FinishType DEF CleanUp, TypeOK
<1>5. QED
  BY <1>1, <1>2, <1>3, <1>4, DismissType DEF CleanUp, TypeOK

LEMMA RestoreVersionTypes ==
  ASSUME TypeInv, NEW e \in Executors, NEW m \in inbox, ProcessRestoreVersion(e, m)
  PROVE  TypeInv'
<1> USE DEF TypeInv
<1>1. m \in Message /\ m.from \in Clients /\ User(m) \in Users
  BY MessageFields, UserType DEF TypeOK
<1> DEFINE v == InitialVersion(User(m), m.ver, m.file)
<1>2. CASE \E t \in Tokens :
             /\ \E first \in Cursor(Listed(v)) :
                  NewSession(User(m), "restore", v, t, first)
             /\ client' = [client EXCEPT ![m.from] =
                  [LoggedOut EXCEPT !.mode = "restore", !.tok = t, !.busy = TRUE]]
             /\ Goto(e, "first", m, NoToken, Null)
  <2>1. v \in TVersion
    BY <1>1, InitialVersionType
  <2> HIDE DEF v
  <2>2. PICK t \in Tokens, first \in Cursor(Listed(v)) :
          /\ NewSession(User(m), "restore", v, t, first)
          /\ client' = [client EXCEPT ![m.from] =
               [LoggedOut EXCEPT !.mode = "restore", !.tok = t, !.busy = TRUE]]
          /\ Goto(e, "first", m, NoToken, Null)
    BY <1>2
  <2>3. first \in Paths \cup {NoPath}
    BY DEF Cursor, Listed
  <2>4. /\ sessions' \in [Users -> Tokens \cup {NoToken}]
        /\ session' \in [Tokens -> Session \cup {Null}]
        /\ \A x \in Tokens : session[x] # Null => session'[x] = session[x]
        /\ session'[t] \in Session
    BY <1>1, <2>1, <2>2, <2>3, NewSessionType
  <2>5. client' \in [Clients -> Client]
    <3>1. LoggedOut \in Client
      BY DEF LoggedOut, Client, NoContents, Contents
    <3>2. QED
      BY <1>1, <2>2, <3>1 DEF TypeOK, Client
  <2>6. exec' \in [Executors -> Thread]
    BY <1>1, <2>2, GotoType DEF TypeOK, Steps
  <2>7. SessionsStay /\ TableReady'
    BY <1>1, <2>2, <2>4, NullAssumption
       DEF NewSession, SessionsStay, TableReady, TypeOK
  <2>8. Ready(e)' /\ \A x \in Executors \ {e} : exec'[x] = exec[x]
    BY <2>2 DEF Goto, Ready, TypeOK
  <2>9. HandlersReady'
    BY <2>7, <2>8, ReadyKept
  <2>10. QED
    BY <2>4, <2>5, <2>6, <2>7, <2>9 DEF ProcessRestoreVersion, Take, TypeOK
<1>3. CASE Dismiss(m.from) /\ UNCHANGED <<sessions, session, exec>>
  <2>1. TypeOK'
    BY <1>1, <1>3, DismissType DEF ProcessRestoreVersion, Take, TypeOK
  <2>2. SessionsStay /\ TableReady'
    BY <1>3 DEF SessionsStay, TableReady
  <2>3. QED
    BY <1>3, <2>1, <2>2, AllReadyKept
<1>4. QED
  BY <1>2, <1>3 DEF ProcessRestoreVersion

LEMMA FindFirstTypes ==
  ASSUME TypeInv, NEW e \in Executors, FindFirst(e)
  PROVE  TypeInv'
<1> USE DEF TypeInv
<1> DEFINE m == exec[e].msg
<1>1. exec[e].at = "first" /\ exec[e].at \in Steps
  BY DEF FindFirst, At, Steps
<1>2. m \in Message /\ m.from \in Clients /\ User(m) \in Users
  BY <1>1, BusyFields
<1>3. SessionsStay /\ TableReady'
  BY DEF FindFirst, SessionsStay, TableReady
<1>4. CASE HasSession(m) /\ Goto(e, "send", m, sessions[User(m)], Null)
             /\ UNCHANGED client
  <2>1. sessions[User(m)] \in Tokens /\ session[sessions[User(m)]] # Null
    BY <1>2, <1>4 DEF HasSession, TableReady, TypeOK
  <2>2. exec' \in [Executors -> Thread]
    BY <1>2, <1>4, <2>1, GotoType DEF TypeOK, Steps
  <2>3. Ready(e)' /\ \A x \in Executors \ {e} : exec'[x] = exec[x]
    BY <1>4, <2>1 DEF Ready, Goto, FindFirst, TypeOK
  <2>4. QED
    BY <1>3, <1>4, <2>2, <2>3, ReadyKept DEF FindFirst, TypeOK
<1>5. CASE Dismiss(m.from) /\ Finish(e)
  <2>1. HandlersReady' /\ exec' \in [Executors -> Thread]
    BY <1>3, <1>5, FinishReady, FinishType DEF TypeOK
  <2>2. QED
    BY <1>2, <1>3, <1>5, <2>1, DismissType DEF FindFirst, TypeOK
<1>6. QED
  BY <1>4, <1>5 DEF FindFirst

LEMMA SendFileTypes ==
  ASSUME TypeInv, NEW e \in Executors, SendFile(e)
  PROVE  TypeInv'
<1> USE DEF TypeInv
<1> DEFINE m == exec[e].msg
           t == exec[e].tok
           todo == IF MovesOn(e) THEN Advance(t) ELSE session[t].todo
<1>1. exec[e].at \in {"send", "RestoreFileAck"} /\ exec[e].at \in Steps \ {"first"}
  BY DEF SendFile, At, Steps
<1>2. m \in Message /\ m.from \in Clients /\ User(m) \in Users
  BY <1>1, BusyFields
<1>3. /\ t \in Tokens /\ session[t] \in Session
      /\ Base(e) \in TVersion /\ Base(e) # Null
  BY <1>1, HeldSession DEF SendFile, HasVersion
<1>4. todo \in SUBSET Paths
  BY <1>3 DEF Advance, Listed, Session
<1> HIDE DEF todo
<1>5. PICK p \in (IF MovesOn(e) THEN Cursor(todo) ELSE {session[t].cur}) :
        \/ /\ session' = [session EXCEPT ![t].todo = todo, ![t].cur = p]
           /\ p # NoPath
           /\ Finish(e)
           /\ OfferFile(User(m), t, m.from, p) \/ UNCHANGED client
        \/ /\ session' = [session EXCEPT ![t].todo = todo, ![t].cur = p,
                                         ![t].version = Null]
           /\ exec' = [exec EXCEPT ![e].at = "restored", ![e].ver = Base(e)]
           /\ UNCHANGED client
  BY DEF SendFile, todo
<1>6. p \in Paths \cup {NoPath}
  BY <1>3, <1>4 DEF Cursor, Session
<1>7. session' \in [Tokens -> Session \cup {Null}] /\ SessionsStay
  <2> DEFINE s == [session[t] EXCEPT !.todo = todo, !.cur = p]
             s0 == [session[t] EXCEPT !.todo = todo, !.cur = p, !.version = Null]
  <2>1. s \in Session /\ s0 \in Session
    BY <1>3, <1>4, <1>6 DEF Session
  <2>2. session' = [session EXCEPT ![t] = s] \/ session' = [session EXCEPT ![t] = s0]
    BY <1>3, <1>5 DEF TypeOK
  <2> HIDE DEF s, s0
  <2>3. QED
    BY <1>3, <2>1, <2>2, NullAssumption DEF TypeOK, SessionsStay
<1>8. TableReady'
  BY <1>7 DEF SendFile, TableReady, SessionsStay, TypeOK
<1>9. CASE /\ p # NoPath /\ Finish(e)
           /\ OfferFile(User(m), t, m.from, p) \/ UNCHANGED client
  <2>1. HandlersReady' /\ exec' \in [Executors -> Thread]
    BY <1>7, <1>9, FinishReady, FinishType DEF TypeOK
  <2>2. ASSUME OfferFile(User(m), t, m.from, p)
        PROVE  client' \in [Clients -> Client]
    <3> DEFINE dir == session[t].version.files[p].dir
               o == [path |-> p, data |-> ReadFile(User(m), dir, p)]
    <3>1. ReadFile(User(m), dir, p) \in Data \cup {NoFile}
      BY DEF ReadFile, TypeOK
    <3>2. o \in Offer
      BY <1>6, <1>9, <3>1 DEF Offer
    <3>3. client' = [client EXCEPT ![m.from].busy = FALSE, ![m.from].offer = o]
      BY <2>2 DEF OfferFile
    <3> HIDE DEF o
    <3>4. [client[m.from] EXCEPT !.busy = FALSE, !.offer = o] \in Client
      BY <1>2, <3>2, OfferType DEF TypeOK
    <3>5. client' = [client EXCEPT
            ![m.from] = [client[m.from] EXCEPT !.busy = FALSE, !.offer = o]]
      BY <1>2, <3>3 DEF TypeOK
    <3>6. QED
      BY <1>2, <3>4, <3>5 DEF TypeOK
  <2>3. client' \in [Clients -> Client]
    BY <1>9, <2>2 DEF TypeOK
  <2>4. QED
    BY <1>7, <1>8, <2>1, <2>3 DEF SendFile, TypeOK
<1>10. CASE /\ exec' = [exec EXCEPT ![e].at = "restored", ![e].ver = Base(e)]
            /\ UNCHANGED client
  <2>1. exec[e] \in [at : Steps, msg : Message, tok : Tokens \cup {NoToken},
                     ver : TVersion \cup {Null}]
    BY <1>1, BusyFields
  <2>2. exec' \in [Executors -> Thread]
    BY <1>3, <1>10, <2>1 DEF TypeOK, Thread, Steps
  <2>3. Ready(e)'
    <3>1. exec'[e].at = "restored" /\ exec'[e].tok = t /\ exec'[e].ver = Base(e)
      BY <1>10, <2>1 DEF TypeOK
    <3>2. session'[t] # Null
      BY <1>3, <1>7, NullAssumption DEF SessionsStay
    <3>3. QED
      BY <1>3, <3>1, <3>2 DEF Ready
  <2>4. HandlersReady'
    BY <1>7, <1>10, <2>3, ReadyKept DEF TypeOK
  <2>5. QED
    BY <1>7, <1>8, <1>10, <2>2, <2>4 DEF SendFile, TypeOK
<1>11. QED
  BY <1>5, <1>9, <1>10

LEMMA StopRestoreTypes ==
  ASSUME TypeInv, NEW e \in Executors, StopRestore(e)
  PROVE  TypeInv'
<1> USE DEF TypeInv
<1>1. exec[e].msg.from \in Clients
  BY BusyFields DEF StopRestore, At, Steps
<1>2. SessionsStay /\ TableReady' /\ sessions' \in [Users -> Tokens \cup {NoToken}]
  BY DEF StopRestore, RemoveSession, SessionsStay, TableReady, TypeOK
<1>3. HandlersReady' /\ exec' \in [Executors -> Thread]
  BY <1>2, FinishReady, FinishType DEF StopRestore, TypeOK
<1>4. QED
  BY <1>1, <1>2, <1>3, DismissType DEF StopRestore, TypeOK

\* The death of the process forgets every session and every handler.
LEMMA RestartTypes ==
  ASSUME TypeInv, Restart
  PROVE  TypeInv'
<1>1. TypeOK'
  BY RestartType DEF TypeInv
<1>2. HandlersReady'
  BY DEF Restart, HandlersReady, Ready, Idle, Steps
<1>3. TableReady'
  BY DEF Restart, TableReady
<1>4. QED
  BY <1>1, <1>2, <1>3 DEF TypeInv

\* Stamping a session, or finding it idle.
LEMMA IdleTypes ==
  ASSUME TypeInv, NEW t \in Tokens, session[t] # Null, NEW b \in BOOLEAN,
         session' = [session EXCEPT ![t].idle = b]
  PROVE  session' \in [Tokens -> Session \cup {Null}] /\ SessionsStay
<1>1. session[t] \in Session
  BY DEF TypeInv, TypeOK
<1>2. [session[t] EXCEPT !.idle = b] \in Session
  BY <1>1 DEF Session
<1>3. session' = [session EXCEPT ![t] = [session[t] EXCEPT !.idle = b]]
  BY DEF TypeInv, TypeOK
<1>4. QED
  BY <1>2, <1>3, NullAssumption DEF TypeInv, TypeOK, SessionsStay

LEMMA PingTypes ==
  ASSUME TypeInv, NEW e \in Executors, NEW m \in inbox, ProcessPingRequest(e, m)
  PROVE  TypeInv'
<1> USE DEF TypeInv
<1>1. User(m) \in Users
  BY UserType DEF TypeOK
<1>2. session' \in [Tokens -> Session \cup {Null}] /\ SessionsStay
  <2>1. CASE sessions[User(m)] = NoToken
    BY <2>1 DEF ProcessPingRequest, SessionsStay, TypeOK
  <2>2. CASE sessions[User(m)] # NoToken
    BY <1>1, <2>2, IdleTypes DEF ProcessPingRequest, TableReady, TypeOK
  <2>3. QED
    BY <2>1, <2>2
<1>3. HandlersReady' /\ TableReady'
  BY <1>2, AllReadyKept DEF ProcessPingRequest, TableReady, SessionsStay, TypeOK
<1>4. QED
  BY <1>2, <1>3 DEF ProcessPingRequest, Take, TypeOK

LEMMA SessionExpiresTypes ==
  ASSUME TypeInv, NEW u \in Users, SessionExpires(u)
  PROVE  TypeInv'
<1> USE DEF TypeInv
<1>1. session' \in [Tokens -> Session \cup {Null}] /\ SessionsStay
  BY IdleTypes DEF SessionExpires, TableReady, TypeOK
<1>2. HandlersReady' /\ TableReady'
  BY <1>1, AllReadyKept DEF SessionExpires, TableReady, SessionsStay, TypeOK
<1>3. QED
  BY <1>1, <1>2 DEF SessionExpires, TypeOK

LEMMA CleanTypes ==
  ASSUME TypeInv, Clean
  PROVE  TypeInv'
<1> USE DEF TypeInv
<1>1. ASSUME NEW u \in Users, CheckSession(u) PROVE TypeInv'
  <2> DEFINE t == sessions[u]
  <2>1. t \in Tokens /\ session[t] \in Session
    BY <1>1 DEF CheckSession, TableReady, TypeOK
  <2>2. CASE Restart
    BY <2>2, RestartTypes
  <2>3. CASE /\ UNCHANGED <<sessions, session, exec, inbox, client>>
             /\ \/ cleaner' = [at |-> "erase", user |-> u, ver |-> 0]
                \/ /\ session[t].version # Null
                   /\ cleaner' = [at |-> "rmdir", user |-> u,
                                  ver |-> session[t].version.id + 1]
    <3>1. cleaner' \in Cleaner
      BY <1>1, <2>1, <2>3 DEF Cleaner, Session, TVersion
    <3>2. SessionsStay /\ TableReady'
      BY <2>3 DEF SessionsStay, TableReady
    <3>3. QED
      BY <1>1, <2>3, <3>1, <3>2, AllReadyKept DEF CheckSession, TypeOK
  <2>4. QED
    BY <1>1, <2>2, <2>3 DEF CheckSession
<1>2. ASSUME CleanDirectory PROVE TypeInv'
  <2>1. \A k \in DOMAIN disk' : k \in Users \X Nat \X Paths /\ disk'[k] \in Data
    BY <1>2, RemoveDirType DEF CleanDirectory
  <2>2. cleaner' \in Cleaner
    BY <1>2 DEF CleanDirectory, Cleaner, TypeOK
  <2>3. SessionsStay /\ TableReady'
    BY <1>2 DEF CleanDirectory, SessionsStay, TableReady
  <2>4. QED
    BY <1>2, <2>1, <2>2, <2>3, AllReadyKept DEF CleanDirectory, TypeOK
<1>3. ASSUME CleanSession PROVE TypeInv'
  <2>1. /\ SessionsStay /\ TableReady'
        /\ sessions' \in [Users -> Tokens \cup {NoToken}]
    BY <1>3 DEF CleanSession, RemoveSession, SessionsStay, TableReady, TypeOK
  <2>2. QED
    BY <1>3, <2>1, AllReadyKept DEF CleanSession, TypeOK, Cleaner, Waiting
<1>4. QED
  BY <1>1, <1>2, <1>3 DEF Clean

\* A client touches the message queue and itself only.
LEMMA ClientTypes ==
  ASSUME TypeInv, inbox' \subseteq Message, client' \in [Clients -> Client],
         UNCHANGED <<db, disk, sessions, session, exec, cleaner>>
  PROVE  TypeInv'
<1>1. SessionsStay /\ TableReady'
  BY DEF TypeInv, SessionsStay, TableReady
<1>2. QED
  BY <1>1, AllReadyKept DEF TypeInv, TypeOK

LEMMA SendTypes ==
  ASSUME TypeInv, NEW c \in Clients, NEW m \in Message, Send(c, m)
  PROVE  TypeInv'
<1>1. client' \in [Clients -> Client]
  BY DEF Send, TypeInv, TypeOK, Client
<1>2. inbox' \subseteq Message
  BY DEF Send, TypeInv, TypeOK
<1>3. QED
  BY <1>1, <1>2, ClientTypes DEF Send

LEMMA UseTypes ==
  ASSUME TypeInv, NEW c \in Clients, Use(c)
  PROVE  TypeInv'
<1>1. ASSUME StartUpdate(c) PROVE TypeInv'
  <2>1. [kind |-> "UpdateStart", from |-> c] \in Message
    BY DEF Message
  <2>2. QED
    BY <1>1, <2>1, SendTypes DEF StartUpdate
<1>2. ASSUME SendChange(c) PROVE TypeInv'
  <2>1. PICK p \in Paths :
          \/ \E d \in Data, k \in {"AddFile", "UpdateFile"} :
               Send(c, [kind |-> k, from |-> c, path |-> p, date |-> d])
          \/ Send(c, [kind |-> "RemoveFile", from |-> c, path |-> p])
    BY <1>2 DEF SendChange
  <2>2. \A d \in Data, k \in {"AddFile", "UpdateFile"} :
          [kind |-> k, from |-> c, path |-> p, date |-> d] \in Message
    BY DEF Message
  <2>3. [kind |-> "RemoveFile", from |-> c, path |-> p] \in Message
    BY DEF Message
  <2>4. QED
    BY <2>1, <2>2, <2>3, SendTypes
<1>3. ASSUME StopUpdate(c) PROVE TypeInv'
  <2>1. [kind |-> "UpdateStop", from |-> c] \in Message
    BY DEF Message
  <2>2. QED
    BY <1>3, <2>1, SendTypes DEF StopUpdate
<1>4. ASSUME StartRestore(c) PROVE TypeInv'
  <2>1. PICK v \in {NO_VERSION} \cup DOMAIN db[UserOf[c]], f \in Paths \cup {NoPath} :
          Send(c, [kind |-> "RestoreVersion", from |-> c, ver |-> v, file |-> f])
    BY <1>4 DEF StartRestore
  <2>2. v \in Nat
    BY <2>1, UserAssumption DEF TypeInv, TypeOK
  <2>3. [kind |-> "RestoreVersion", from |-> c, ver |-> v, file |-> f] \in Message
    BY <2>2 DEF Message
  <2>4. QED
    BY <2>1, <2>3, SendTypes
<1>5. ASSUME NEW ok \in BOOLEAN, AckFile(c, ok) PROVE TypeInv'
  <2> DEFINE o == client[c].offer
             view == IF ok THEN [client[c].view EXCEPT ![o.path] = o.data]
                           ELSE client[c].view
  <2>1. client[c] \in Client /\ o \in Offer
    BY <1>5 DEF AckFile, TypeInv, TypeOK, Client
  <2>2. view \in Contents
    BY <2>1 DEF Client, Offer, Contents
  <2>3. [client[c] EXCEPT !.busy = TRUE, !.offer = Null, !.view = view] \in Client
    BY <2>1, <2>2 DEF Client
  <2>4. client' = [client EXCEPT ![c] = [client[c] EXCEPT
                     !.busy = TRUE, !.offer = Null, !.view = view]]
    BY <1>5 DEF AckFile, TypeInv, TypeOK
  <2>5. [kind |-> "RestoreFileAck", from |-> c, ok |-> ok] \in Message
    BY DEF Message
  <2>6. QED
    BY <1>5, <2>3, <2>4, <2>5, ClientTypes DEF AckFile, TypeInv, TypeOK
<1>6. ASSUME SendPing(c) PROVE TypeInv'
  <2>1. [kind |-> "Ping", from |-> c] \in Message
    BY DEF Message
  <2>2. QED
    BY <1>6, <2>1, ClientTypes DEF SendPing, TypeInv, TypeOK
<1>7. ASSUME Abandon(c) PROVE TypeInv'
  BY <1>7, DismissType, ClientTypes DEF Abandon, TypeInv, TypeOK
<1>8. QED
  BY <1>1, <1>2, <1>3, <1>4, <1>5, <1>6, <1>7 DEF Use

LEMMA InitTypes == Init => TypeInv
<1> SUFFICES ASSUME Init PROVE TypeInv
  OBVIOUS
<1>1. client \in [Clients -> Client]
  BY DEF Init, LoggedOut, Client, NoContents, Contents
<1>2. exec \in [Executors -> Thread] /\ HandlersReady
  BY DEF Init, Idle, Thread, HandlersReady, Ready, Steps
<1>3. TableReady
  BY DEF Init, TableReady
<1>4. QED
  BY <1>1, <1>2, <1>3 DEF Init, TypeInv, TypeOK, Waiting, Cleaner

LEMMA ExecuteTypes ==
  ASSUME TypeInv, NEW e \in Executors, Execute(e)
  PROVE  TypeInv'
<1>1. ASSUME NEW m \in inbox,
             \/ ProcessUpdateStart(e, m)
             \/ FindSession(e, m)
             \/ ProcessRestoreVersion(e, m)
             \/ ProcessPingRequest(e, m)
      PROVE  TypeInv'
  BY <1>1, UpdateStartTypes, FindSessionTypes, RestoreVersionTypes, PingTypes
<1>2. NullVersion(e) => TypeInv'
  BY RestartTypes DEF NullVersion
<1>3. QED
  BY <1>1, <1>2, RejectFileTypes, StoreContentTypes, ListFileTypes,
     RemoveFileTypes, TerminateSessionTypes, EraseSessionTypes,
     RefuseVersionTypes, InsertNewVersionTypes, FailToInsertTypes, CleanUpTypes,
     FindFirstTypes, SendFileTypes, StopRestoreTypes
     DEF Execute

LEMMA NextTypes == TypeInv /\ [Next]_vars => TypeInv'
<1> SUFFICES ASSUME TypeInv, [Next]_vars PROVE TypeInv'
  OBVIOUS
<1>1. CASE UNCHANGED vars
  BY <1>1 DEF vars, TypeInv, TypeOK, HandlersReady, Ready, TableReady
<1>2. CASE Crash
  BY <1>2, RestartTypes DEF Crash
<1>3. QED
  BY <1>1, <1>2, ExecuteTypes, CleanTypes, SessionExpiresTypes, UseTypes DEF Next

\* TypeOK is an invariant of the server, whatever the devices, threads, files
\* and hazards: in particular a handler that has found a session (processAddNewFile
\* and the others) holds one of that kind of object until it is done with it.
THEOREM TypeCorrect == Spec => []TypeOK
<1>1. Spec => []TypeInv
  BY InitTypes, NextTypes, PTL DEF Spec
<1>2. TypeInv => TypeOK
  BY DEF TypeInv
<1>3. QED
  BY <1>1, <1>2, PTL

------------------------------------------------------------------------------
(* The history of versions only grows.                                     *)

\* Only a commit changes the database.
LEMMA DbChanges ==
  ASSUME [Next]_vars
  PROVE  db' = db \/ \E e \in Executors : InsertNewVersion(e)
<1>1. ASSUME NEW e \in Executors, Execute(e)
      PROVE  db' = db \/ InsertNewVersion(e)
  BY <1>1 DEF Execute, ProcessUpdateStart, FindSession, ProcessRestoreVersion,
              ProcessPingRequest, RejectFile, StoreContent, ListFile,
              ProcessRemoveFile, TerminateSession, EraseSession, RefuseVersion,
              FailToInsert, CleanUp, FindFirst, SendFile, StopRestore,
              NullVersion, Restart
<1>2. Clean => db' = db
  BY DEF Clean, CheckSession, CleanDirectory, CleanSession
<1>3. ASSUME NEW c \in Clients, Use(c) PROVE db' = db
  BY <1>3 DEF Use, StartUpdate, SendChange, StopUpdate, StartRestore, AckFile,
              SendPing, Abandon, Send
<1>4. (\E u \in Users : SessionExpires(u)) \/ Crash => db' = db
  BY DEF SessionExpires, Crash, Restart
<1>5. QED
  BY <1>1, <1>2, <1>3, <1>4 DEF Next, vars

HistoryGrows ==
  \A u \in Users : \A v \in DOMAIN db[u] :
    v \in DOMAIN db'[u] /\ db'[u][v] = db[u][v]

LEMMA NextGrows == ASSUME TypeOK, [Next]_vars PROVE HistoryGrows
<1>1. ASSUME NEW e \in Executors, InsertNewVersion(e) PROVE HistoryGrows
  <2> DEFINE u == User(exec[e].msg)
             id == TerminateWithSuccess(exec[e].ver).id
             rows == RowsOf(TerminateWithSuccess(exec[e].ver))
  <2>1. /\ id \notin DOMAIN db[u]
        /\ db' = [db EXCEPT ![u] = [w \in DOMAIN db[u] \cup {id} |->
                                      IF w = id THEN rows ELSE db[u][w]]]
    BY <1>1 DEF InsertNewVersion, NewKey
  <2> HIDE DEF u, id, rows
  <2>2. QED
    BY <2>1 DEF HistoryGrows, TypeOK
<1>2. QED
  BY <1>1, DbChanges DEF HistoryGrows

\* A version once committed by InsertNewVersion is never altered or dropped.
THEOREM HistoryIsKept == Spec => HistoryKept
<1>1. TypeOK /\ [Next]_vars =>
        [\A u \in Users : \A v \in DOMAIN db[u] :
           v \in DOMAIN db'[u] /\ db'[u][v] = db[u][v]]_db
  BY NextGrows DEF HistoryGrows
<1>2. QED
  BY <1>1, TypeCorrect, PTL DEF Spec, HistoryKept

------------------------------------------------------------------------------
(* Versions are numbered without a gap.  InsertNewVersion takes the number *)
(* after the one its session was opened on, so it is enough that every     *)
(* version a session or a handler holds is a committed one, or version 0:  *)
(* the primary key then leaves only the next number.                       *)

Numbered == \A u \in Users : \E n \in Nat : DOMAIN db[u] = 1..n

Known(versions, v) == v # Null => v.id = NO_VERSION \/ v.id \in DOMAIN versions

TableKnown ==
  \A u \in Users :
    sessions[u] # NoToken => Known(db[u], session[sessions[u]].version)

HandlerKnown(e) ==
  exec[e].at \in Steps =>
    /\ exec[e].at # "first" =>
         Known(db[User(exec[e].msg)], session[exec[e].tok].version)
    /\ Known(db[User(exec[e].msg)], exec[e].ver)

NumberInv ==
  TypeInv /\ Numbered /\ TableKnown /\ \A e \in Executors : HandlerKnown(e)

\* A step may take the version out of a session, but keeps its number.
NumbersStay ==
  \A t \in Tokens : session[t] # Null =>
    \/ session'[t].version = Null
    \/ /\ session[t].version # Null
       /\ session'[t].version.id = session[t].version.id

\* A step may drop entries of the table, or enter a known version.
TableStep ==
  \A u \in Users : \/ sessions'[u] \in {sessions[u], NoToken}
                   \/ /\ sessions'[u] \in Tokens
                      /\ Known(db[u], session'[sessions'[u]].version)

\* A handler goes on with its session, or takes its user's.
HandlerStep(e) ==
  exec'[e].at \in Steps =>
    \/ /\ exec[e].at \in Steps \ {"first"}
       /\ exec'[e].at # "first"
       /\ exec'[e].msg = exec[e].msg /\ exec'[e].tok = exec[e].tok
       /\ exec'[e].ver \in {exec[e].ver, session[exec[e].tok].version}
    \/ /\ exec'[e].msg \in Message
       /\ exec'[e].ver = Null
       /\ \/ exec'[e].at = "first"
          \/ /\ sessions[User(exec'[e].msg)] # NoToken
             /\ exec'[e].tok = sessions[User(exec'[e].msg)]
    \/ exec'[e] = exec[e]

LEMMA KnownStays ==
  ASSUME HistoryGrows, NEW u \in Users, NEW v, Known(db[u], v)
  PROVE  Known(db'[u], v)
BY DEF Known, HistoryGrows

\* The number of a session's version remains known.
LEMMA SessionKnownStays ==
  ASSUME HistoryGrows, NumbersStay, NEW u \in Users, NEW t \in Tokens,
         session[t] # Null, Known(db[u], session[t].version)
  PROVE  Known(db'[u], session'[t].version)
BY DEF Known, HistoryGrows, NumbersStay

LEMMA TableKnownStays ==
  ASSUME TypeInv, TableKnown, HistoryGrows, NumbersStay, TableStep
  PROVE  TableKnown'
<1> SUFFICES ASSUME NEW u \in Users, sessions'[u] # NoToken
             PROVE  Known(db'[u], session'[sessions'[u]].version)
  BY DEF TableKnown, Known
<1>1. CASE sessions'[u] = sessions[u]
  <2>1. sessions[u] \in Tokens /\ session[sessions[u]] # Null
    BY <1>1 DEF TypeInv, TypeOK, TableReady
  <2>2. Known(db[u], session[sessions[u]].version)
    BY <2>1, <1>1 DEF TableKnown
  <2>3. QED
    BY <1>1, <2>1, <2>2, SessionKnownStays
<1>2. CASE Known(db[u], session'[sessions'[u]].version)
  BY <1>2, KnownStays
<1>3. QED
  BY <1>1, <1>2 DEF TableStep

LEMMA HandlerKnownStays ==
  ASSUME TypeInv, TableKnown, HistoryGrows, NumbersStay,
         NEW e \in Executors, HandlerKnown(e), HandlerStep(e)
  PROVE  HandlerKnown(e)'
<1> SUFFICES ASSUME exec'[e].at \in Steps
             PROVE  /\ exec'[e].at # "first" =>
                         Known(db'[User(exec'[e].msg)], session'[exec'[e].tok].version)
                    /\ Known(db'[User(exec'[e].msg)], exec'[e].ver)
  BY DEF HandlerKnown, User, Known
<1>1. ASSUME exec[e].at \in Steps
      PROVE  User(exec[e].msg) \in Users /\ Known(db'[User(exec[e].msg)], exec[e].ver)
  BY <1>1, BusyFields, KnownStays DEF HandlerKnown
<1>2. ASSUME exec[e].at \in Steps \ {"first"}
      PROVE  /\ Known(db[User(exec[e].msg)], session[exec[e].tok].version)
             /\ Known(db'[User(exec[e].msg)], session[exec[e].tok].version)
             /\ Known(db'[User(exec[e].msg)], session'[exec[e].tok].version)
  <2>1. exec[e].tok \in Tokens /\ session[exec[e].tok] # Null
    BY <1>2 DEF TypeInv, HandlersReady, Ready
  <2>2. Known(db[User(exec[e].msg)], session[exec[e].tok].version)
    BY <1>2 DEF HandlerKnown
  <2>3. QED
    BY <1>1, <1>2, <2>1, <2>2, SessionKnownStays, KnownStays
<1>3. CASE exec'[e] = exec[e]
  BY <1>1, <1>2, <1>3
<1>4. CASE /\ exec[e].at \in Steps \ {"first"}
           /\ exec'[e].msg = exec[e].msg /\ exec'[e].tok = exec[e].tok
           /\ exec'[e].ver \in {exec[e].ver, session[exec[e].tok].version}
  BY <1>1, <1>2, <1>4
<1>5. CASE /\ exec'[e].msg \in Message
           /\ exec'[e].ver = Null
           /\ \/ exec'[e].at = "first"
              \/ /\ sessions[User(exec'[e].msg)] # NoToken
                 /\ exec'[e].tok = sessions[User(exec'[e].msg)]
  <2> DEFINE u == User(exec'[e].msg)
             t == sessions[u]
  <2>1. u \in Users
    BY <1>5, UserType
  <2>2. ASSUME t # NoToken
        PROVE  Known(db'[u], session'[t].version)
    <3>1. t \in Tokens /\ session[t] # Null /\ Known(db[u], session[t].version)
      BY <2>1, <2>2 DEF TypeInv, TypeOK, TableReady, TableKnown
    <3>2. QED
      BY <2>1, <3>1, SessionKnownStays
  <2>3. Known(db'[u], exec'[e].ver)
    BY <1>5 DEF Known
  <2>4. QED
    BY <1>5, <2>2, <2>3
<1>6. QED
  BY <1>3, <1>4, <1>5 DEF HandlerStep

Steady == NumbersStay /\ TableStep /\ \A e \in Executors : HandlerStep(e)

\* What stays the same takes no step.
LEMMA SameIsSteady ==
  /\ TypeInv /\ session' = session => NumbersStay
  /\ sessions' = sessions => TableStep
  /\ exec' = exec => \A e \in Executors : HandlerStep(e)
BY DEF NumbersStay, TableStep, HandlerStep

\* A handler that ends.
LEMMA FinishIsSteady ==
  ASSUME TypeInv, NEW e \in Executors, Finish(e)
  PROVE  \A x \in Executors : HandlerStep(x)
BY DEF Finish, HandlerStep, Idle, Steps, TypeInv, TypeOK

\* A handler that moves on to its next step.
LEMMA MoveIsSteady ==
  ASSUME TypeInv, NEW e \in Executors, exec[e].at \in Steps \ {"first"},
         NEW at \in Steps \ {"first"},
         \/ exec' = [exec EXCEPT ![e].at = at]
         \/ exec' = [exec EXCEPT ![e].at = at, ![e].ver = Base(e)]
  PROVE  \A x \in Executors : HandlerStep(x)
<1>1. exec[e] \in [at : Steps, msg : Message, tok : Tokens \cup {NoToken},
                   ver : TVersion \cup {Null}]
  BY BusyFields
<1>2. /\ exec'[e].at = at
      /\ exec'[e].msg = exec[e].msg /\ exec'[e].tok = exec[e].tok
      /\ exec'[e].ver \in {exec[e].ver, session[exec[e].tok].version}
  BY <1>1 DEF Base, TypeInv, TypeOK
<1>3. ASSUME NEW x \in Executors, x # e PROVE exec'[x] = exec[x]
  BY <1>3 DEF TypeInv, TypeOK
<1>4. QED
  BY <1>2, <1>3 DEF HandlerStep

\* A handler that has looked for its user's session.
LEMMA GotoIsSteady ==
  ASSUME TypeInv, NEW e \in Executors, NEW m \in Message, NEW at, NEW t,
         Goto(e, at, m, t, Null),
         at = "first" \/ (HasSession(m) /\ t = sessions[User(m)])
  PROVE  \A x \in Executors : HandlerStep(x)
<1>1. exec'[e] = [at |-> at, msg |-> m, tok |-> t, ver |-> Null]
  BY DEF Goto, TypeInv, TypeOK
<1>2. ASSUME NEW x \in Executors, x # e PROVE exec'[x] = exec[x]
  BY <1>2 DEF Goto, TypeInv, TypeOK
<1>3. HandlerStep(e)
  BY <1>1 DEF HandlerStep, HasSession
<1>4. QED
  BY <1>2, <1>3 DEF HandlerStep

\* An entry is taken out of the table.
LEMMA RemoveIsSteady ==
  ASSUME TypeInv, NEW u, RemoveSession(u)
  PROVE  TableStep
BY DEF RemoveSession, TableStep, TypeInv, TypeOK

\* A session's version is replaced by one of the same number, or taken out.
LEMMA SetVersionIsSteady ==
  ASSUME TypeInv, NEW e \in Executors, exec[e].at \in Steps \ {"first"},
         HasVersion(e), NEW v, v = Null \/ v.id = Base(e).id, SetVersion(e, v)
  PROVE  NumbersStay
<1> DEFINE t == exec[e].tok
<1>1. t \in Tokens /\ session[t] \in Session
  BY HeldSession
<1>2. session' = [session EXCEPT ![t] = [session[t] EXCEPT !.version = v]]
  BY DEF SetVersion
<1>3. session'[t].version = v
  BY <1>1, <1>2 DEF TypeInv, TypeOK, Session
<1>4. ASSUME NEW x \in Tokens, x # t PROVE session'[x] = session[x]
  BY <1>2, <1>4 DEF TypeInv, TypeOK
<1>5. QED
  BY <1>3, <1>4 DEF NumbersStay, HasVersion, Base

\* The version a session is opened on is a committed one or version 0.
LEMMA InitialVersionKnown ==
  ASSUME TypeInv, NEW u \in Users, NEW ver, NEW file
  PROVE  Known(db[u], InitialVersion(u, ver, file))
<1> DEFINE id == IF ver = NO_VERSION THEN LastVersion(u) ELSE ver
<1>1. \/ InitialVersion(u, ver, file).id = NO_VERSION
      \/ /\ id \in DOMAIN db[u]
         /\ InitialVersion(u, ver, file).id = id
  BY DEF InitialVersion, NewVersion, LoadVersion
<1>2. QED
  BY <1>1 DEF Known

LEMMA NewSessionIsSteady ==
  ASSUME TypeInv, NEW u \in Users, NEW kind \in {"update", "restore"},
         NEW v \in TVersion, NEW t \in Tokens, NEW first \in Paths \cup {NoPath},
         NewSession(u, kind, v, t, first), Known(db[u], v)
  PROVE  NumbersStay /\ TableStep
<1>1. /\ \A x \in Tokens : session[x] # Null => session'[x] = session[x]
      /\ session'[t].version = v
  BY NewSessionType DEF TypeInv
<1>2. NumbersStay
  BY <1>1 DEF NumbersStay
<1>3. sessions' = [sessions EXCEPT ![u] = t]
  BY DEF NewSession
<1>4. TableStep
  BY <1>1, <1>3 DEF TableStep, TypeInv, TypeOK
<1>5. QED
  BY <1>2, <1>4

LEMMA RestartIsSteady ==
  ASSUME TypeInv, Restart
  PROVE  Steady
<1>1. \A t \in Tokens : session[t] # Null => session'[t].version = Null
  BY DEF Restart, TypeInv, TypeOK, Session
<1>2. QED
  BY <1>1 DEF Restart, Steady, NumbersStay, TableStep, HandlerStep, Idle, Steps

\* Each step of an executor is steady.
LEMMA StartsAreSteady ==
  ASSUME TypeInv, NEW e \in Executors, NEW m \in inbox,
         ProcessUpdateStart(e, m) \/ ProcessRestoreVersion(e, m)
  PROVE  Steady
<1>1. m \in Message /\ User(m) \in Users
  BY UserType DEF TypeInv, TypeOK
<1>2. CASE ProcessUpdateStart(e, m)
  <2> DEFINE v == InitialVersion(User(m), NO_VERSION, NoPath)
  <2>1. v \in TVersion /\ Known(db[User(m)], v)
    BY <1>1, InitialVersionType, InitialVersionKnown DEF TypeInv
  <2> HIDE DEF v
  <2>2. \/ \E t \in Tokens : NewSession(User(m), "update", v, t, NoPath)
        \/ UNCHANGED <<sessions, session>>
    BY <1>2 DEF ProcessUpdateStart, v
  <2>3. NumbersStay /\ TableStep
    BY <1>1, <2>1, <2>2, NewSessionIsSteady, SameIsSteady
  <2>4. QED
    BY <1>2, <2>3, SameIsSteady DEF ProcessUpdateStart, Steady
<1>3. CASE ProcessRestoreVersion(e, m)
  <2> DEFINE v == InitialVersion(User(m), m.ver, m.file)
  <2>1. v \in TVersion /\ Known(db[User(m)], v)
    BY <1>1, InitialVersionType, InitialVersionKnown DEF TypeInv
  <2>2. Cursor(Listed(v)) \subseteq Paths \cup {NoPath}
    BY DEF Cursor, Listed
  <2> HIDE DEF v
  <2>3. \/ /\ \E t \in Tokens : \E first \in Cursor(Listed(v)) :
                NewSession(User(m), "restore", v, t, first)
           /\ Goto(e, "first", m, NoToken, Null)
        \/ UNCHANGED <<sessions, session, exec>>
    BY <1>3 DEF ProcessRestoreVersion, v
  <2>4. NumbersStay /\ TableStep
    BY <1>1, <2>1, <2>2, <2>3, NewSessionIsSteady, SameIsSteady
  <2>5. \A x \in Executors : HandlerStep(x)
    BY <1>1, <2>3, GotoIsSteady, SameIsSteady
  <2>6. QED
    BY <2>4, <2>5 DEF Steady
<1>4. QED
  BY <1>2, <1>3

LEMMA LookUpsAreSteady ==
  ASSUME TypeInv, NEW e \in Executors,
         FindFirst(e) \/ \E m \in inbox : FindSession(e, m)
  PROVE  Steady
<1>1. NumbersStay /\ TableStep
  BY SameIsSteady DEF FindFirst, FindSession
<1>2. ASSUME NEW m \in inbox, FindSession(e, m)
      PROVE  \A x \in Executors : HandlerStep(x)
  BY <1>2, GotoIsSteady, SameIsSteady DEF FindSession, TypeInv, TypeOK
<1>3. ASSUME FindFirst(e) PROVE \A x \in Executors : HandlerStep(x)
  <2>1. exec[e].msg \in Message
    BY <1>3, BusyFields DEF FindFirst, At, Steps
  <2>2. QED
    BY <1>3, <2>1, GotoIsSteady, FinishIsSteady DEF FindFirst
<1>4. QED
  BY <1>1, <1>2, <1>3 DEF Steady

LEMMA PingIsSteady ==
  ASSUME TypeInv, NEW t \in Tokens, session[t] # Null, NEW b \in BOOLEAN,
         session' = [session EXCEPT ![t].idle = b]
  PROVE  NumbersStay
<1>1. session[t] \in Session
  BY DEF TypeInv, TypeOK
<1>2. session'[t].version = session[t].version
  BY <1>1 DEF TypeInv, TypeOK, Session
<1>3. ASSUME NEW x \in Tokens, x # t PROVE session'[x] = session[x]
  BY <1>3 DEF TypeInv, TypeOK
<1>4. QED
  BY <1>2, <1>3 DEF NumbersStay

\* A handler ends, or goes on, without a change of sessions.
LEMMA StoresAreSteady ==
  ASSUME TypeInv, NEW e \in Executors,
         \/ RejectFile(e) \/ StoreContent(e) \/ RefuseVersion(e)
         \/ InsertNewVersion(e) \/ FailToInsert(e) \/ CleanUp(e)
         \/ EraseSession(e) \/ StopRestore(e)
  PROVE  Steady
<1>1. NumbersStay
  BY SameIsSteady DEF RejectFile, StoreContent, RefuseVersion, InsertNewVersion,
                      FailToInsert, CleanUp, EraseSession, StopRestore
<1>2. TableStep
  BY SameIsSteady, RemoveIsSteady
     DEF RejectFile, StoreContent, RefuseVersion, InsertNewVersion,
         FailToInsert, CleanUp, EraseSession, StopRestore
<1>3. ASSUME StoreContent(e) \/ EraseSession(e) \/ FailToInsert(e)
      PROVE  \A x \in Executors : HandlerStep(x)
  <2> DEFINE to == IF StoreContent(e) THEN "stored"
                   ELSE IF EraseSession(e) THEN "commit" ELSE "cleanup"
  <2>1. exec[e].at \in Steps \ {"first"} /\ to \in Steps \ {"first"}
    BY <1>3 DEF StoreContent, EraseSession, FailToInsert, At, Steps
  <2>2. \/ exec' = [exec EXCEPT ![e].at = to]
        \/ exec' = [exec EXCEPT ![e].at = to, ![e].ver = Base(e)]
    <3>1. CASE StoreContent(e)
      BY <3>1 DEF StoreContent
    <3>2. CASE EraseSession(e) /\ ~ StoreContent(e)
      BY <3>2 DEF EraseSession
    <3>3. CASE FailToInsert(e) /\ ~ EraseSession(e) /\ ~ StoreContent(e)
      BY <3>3 DEF FailToInsert
    <3>4. QED
      BY <1>3, <3>1, <3>2, <3>3
  <2> HIDE DEF to
  <2>3. QED
    BY <2>1, <2>2, MoveIsSteady
<1>4. ASSUME Finish(e) PROVE \A x \in Executors : HandlerStep(x)
  BY <1>4, FinishIsSteady
<1>5. QED
  BY <1>1, <1>2, <1>3, <1>4
     DEF Steady, RejectFile, RefuseVersion, InsertNewVersion, CleanUp, StopRestore

\* A handler changes what its session's version lists, or takes it out.
LEMMA ChangesAreSteady ==
  ASSUME TypeInv, NEW e \in Executors,
         ListFile(e) \/ ProcessRemoveFile(e) \/ TerminateSession(e)
  PROVE  Steady
<1>1. exec[e].at \in Steps \ {"first"}
  BY DEF ListFile, ProcessRemoveFile, TerminateSession, At, Steps
<1>2. HasVersion(e) /\ Base(e) \in TVersion
  BY <1>1, HeldSession DEF ListFile, ProcessRemoveFile, TerminateSession
<1>3. TableStep
  BY SameIsSteady DEF ListFile, ProcessRemoveFile, TerminateSession
<1>4. ASSUME ListFile(e)
      PROVE  NumbersStay /\ \A x \in Executors : HandlerStep(x)
  <2> DEFINE m == exec[e].msg
             f == NewFile(exec[e].ver.id, m.date)
             v == IF m.kind = "AddFile" THEN AddFile(Base(e), m.path, f)
                                        ELSE UpdateFile(Base(e), m.path, f)
  <2>1. v.id = Base(e).id
    BY <1>2 DEF AddFile, UpdateFile, TVersion
  <2>2. SetVersion(e, v)
    BY <1>4 DEF ListFile
  <2> HIDE DEF v
  <2>3. QED
    BY <1>1, <1>2, <1>4, <2>1, <2>2, SetVersionIsSteady, FinishIsSteady DEF ListFile
<1>5. ASSUME ProcessRemoveFile(e)
      PROVE  NumbersStay /\ \A x \in Executors : HandlerStep(x)
  <2> DEFINE v == RemoveFile(Base(e), exec[e].msg.path)
  <2>1. v.id = Base(e).id
    BY <1>2 DEF RemoveFile, TVersion
  <2>2. SetVersion(e, v) \/ UNCHANGED session
    BY <1>5 DEF ProcessRemoveFile
  <2> HIDE DEF v
  <2>3. QED
    BY <1>1, <1>2, <1>5, <2>1, <2>2, SetVersionIsSteady, SameIsSteady, FinishIsSteady
       DEF ProcessRemoveFile
<1>6. ASSUME TerminateSession(e)
      PROVE  NumbersStay /\ \A x \in Executors : HandlerStep(x)
  <2>1. "erase" \in Steps \ {"first"}
    BY DEF Steps
  <2>2. \A x \in Executors : HandlerStep(x)
    BY <1>1, <1>6, <2>1, MoveIsSteady DEF TerminateSession
  <2>3. NumbersStay
    BY <1>1, <1>2, <1>6, SetVersionIsSteady DEF TerminateSession
  <2>4. QED
    BY <2>2, <2>3
<1>7. QED
  BY <1>3, <1>4, <1>5, <1>6 DEF Steady

LEMMA SendFileIsSteady ==
  ASSUME TypeInv, NEW e \in Executors, SendFile(e)
  PROVE  Steady
<1> DEFINE t == exec[e].tok
           todo == IF MovesOn(e) THEN Advance(t) ELSE session[t].todo
<1>1. exec[e].at \in Steps \ {"first"}
  BY DEF SendFile, At, Steps
<1>2. t \in Tokens /\ session[t] \in Session
  BY <1>1, HeldSession
<1> HIDE DEF todo
<1>3. PICK p \in (IF MovesOn(e) THEN Cursor(todo) ELSE {session[t].cur}) :
        \/ /\ session' = [session EXCEPT ![t].todo = todo, ![t].cur = p]
           /\ Finish(e)
        \/ /\ session' = [session EXCEPT ![t].todo = todo, ![t].cur = p,
                                         ![t].version = Null]
           /\ exec' = [exec EXCEPT ![e].at = "restored", ![e].ver = Base(e)]
  BY DEF SendFile, todo
<1>4. NumbersStay
  <2> DEFINE s == [session[t] EXCEPT !.todo = todo, !.cur = p]
             s0 == [session[t] EXCEPT !.todo = todo, !.cur = p, !.version = Null]
  <2>1. s.version = session[t].version /\ s0.version = Null
    BY <1>2 DEF Session
  <2>2. session' = [session EXCEPT ![t] = s] \/ session' = [session EXCEPT ![t] = s0]
    BY <1>2, <1>3 DEF TypeInv, TypeOK
  <2> HIDE DEF s, s0
  <2>3. session'[t].version \in {session[t].version, Null}
    BY <1>2, <2>1, <2>2 DEF TypeInv, TypeOK
  <2>4. ASSUME NEW x \in Tokens, x # t PROVE session'[x] = session[x]
    BY <2>2, <2>4 DEF TypeInv, TypeOK
  <2>5. QED
    BY <2>3, <2>4 DEF NumbersStay
<1>5. \A x \in Executors : HandlerStep(x)
  <2>1. "restored" \in Steps \ {"first"}
    BY DEF Steps
  <2>2. QED
    BY <1>1, <1>3, <2>1, FinishIsSteady, MoveIsSteady
<1>6. TableStep
  BY SameIsSteady DEF SendFile
<1>7. QED
  BY <1>4, <1>5, <1>6 DEF Steady

LEMMA ExecuteIsSteady ==
  ASSUME TypeInv, NEW e \in Executors, Execute(e)
  PROVE  Steady
<1>1. ASSUME NEW m \in inbox, ProcessPingRequest(e, m) PROVE Steady
  <2>1. User(m) \in Users
    BY UserType DEF TypeInv, TypeOK
  <2>2. NumbersStay
    <3>1. CASE sessions[User(m)] = NoToken
      BY <1>1, <3>1, SameIsSteady DEF ProcessPingRequest
    <3>2. CASE sessions[User(m)] # NoToken
      BY <1>1, <2>1, <3>2, PingIsSteady
         DEF ProcessPingRequest, TypeInv, TableReady, TypeOK
    <3>3. QED
      BY <3>1, <3>2
  <2>3. QED
    BY <1>1, <2>2, SameIsSteady DEF ProcessPingRequest, Steady
<1>2. NullVersion(e) => Steady
  BY RestartIsSteady DEF NullVersion
<1>3. QED
  BY <1>1, <1>2, StartsAreSteady, LookUpsAreSteady, StoresAreSteady,
     ChangesAreSteady, SendFileIsSteady DEF Execute

LEMMA NextIsSteady ==
  ASSUME TypeInv, [Next]_vars
  PROVE  Steady
<1>1. ASSUME Clean PROVE Steady
  <2>1. ASSUME ~ Restart
        PROVE  /\ UNCHANGED <<session, exec>>
               /\ UNCHANGED sessions \/ RemoveSession(cleaner.user)
    BY <1>1, <2>1 DEF Clean, CheckSession, CleanDirectory, CleanSession
  <2>2. QED
    BY <2>1, RestartIsSteady, SameIsSteady, RemoveIsSteady DEF Steady
<1>2. ASSUME NEW u \in Users, SessionExpires(u) PROVE Steady
  <2>1. NumbersStay
    BY <1>2, PingIsSteady DEF SessionExpires, TypeInv, TableReady, TypeOK
  <2>2. QED
    BY <1>2, <2>1, SameIsSteady DEF SessionExpires, Steady
<1>3. ASSUME NEW c \in Clients, Use(c) PROVE Steady
  <2>1. UNCHANGED <<sessions, session, exec>>
    BY <1>3 DEF Use, StartUpdate, SendChange, StopUpdate, StartRestore, AckFile,
                SendPing, Abandon, Send
  <2>2. QED
    BY <2>1, SameIsSteady DEF Steady
<1>4. Crash => Steady
  BY RestartIsSteady DEF Crash
<1>5. UNCHANGED vars => Steady
  BY SameIsSteady DEF vars, Steady
<1>6. QED
  BY <1>1, <1>2, <1>3, <1>4, <1>5, ExecuteIsSteady DEF Next

\* A commit takes the number after the last one.
LEMMA NumberedKept ==
  ASSUME NumberInv, [Next]_vars
  PROVE  Numbered'
<1>1. CASE db' = db
  BY <1>1 DEF NumberInv, Numbered
<1>2. ASSUME NEW e \in Executors, InsertNewVersion(e) PROVE Numbered'
  <2> DEFINE u == User(exec[e].msg)
             id == TerminateWithSuccess(exec[e].ver).id
             rows == RowsOf(TerminateWithSuccess(exec[e].ver))
  <2>1. exec[e].at = "commit" /\ exec[e].at \in Steps
    BY <1>2 DEF InsertNewVersion, At, Steps
  <2>2. exec[e].ver \in TVersion /\ exec[e].ver # Null /\ u \in Users
    BY <2>1, BusyFields DEF NumberInv, TypeInv, HandlersReady, Ready
  <2>3. Known(db[u], exec[e].ver)
    BY <2>1 DEF NumberInv, HandlerKnown
  <2>4. /\ id \notin DOMAIN db[u]
        /\ db' = [db EXCEPT ![u] = [w \in DOMAIN db[u] \cup {id} |->
                                      IF w = id THEN rows ELSE db[u][w]]]
    BY <1>2 DEF InsertNewVersion, NewKey
  <2>5. id = exec[e].ver.id + 1 /\ exec[e].ver.id \in Nat
    BY <2>2, TerminateType DEF TVersion
  <2> HIDE DEF u, id, rows
  <2>6. PICK n \in Nat : DOMAIN db[u] = 1..n
    BY <2>2 DEF NumberInv, Numbered
  <2>7. exec[e].ver.id = 0 \/ exec[e].ver.id \in 1..n
    BY <2>2, <2>3, <2>6 DEF Known
  <2>8. id = n + 1
    BY <2>4, <2>5, <2>6, <2>7
  <2>9. DOMAIN db'[u] = 1..(n + 1)
    <3>1. DOMAIN db'[u] = DOMAIN db[u] \cup {id}
      BY <2>2, <2>4 DEF NumberInv, TypeInv, TypeOK
    <3>2. QED
      BY <3>1, <2>6, <2>8
  <2>10. ASSUME NEW w \in Users, w # u PROVE db'[w] = db[w]
    BY <2>4, <2>10 DEF NumberInv, TypeInv, TypeOK
  <2>11. QED
    <3>1. n + 1 \in Nat
      OBVIOUS
    <3>2. QED
      BY <2>9, <2>10, <3>1 DEF NumberInv, Numbered
<1>3. QED
  BY <1>1, <1>2, DbChanges

LEMMA InitNumbers == Init => NumberInv
<1> SUFFICES ASSUME Init PROVE NumberInv
  OBVIOUS
<1>1. TypeInv
  BY InitTypes
<1>2. Numbered
  <2>1. ASSUME NEW u \in Users PROVE DOMAIN db[u] = 1..0
    BY DEF Init
  <2>2. QED
    BY <2>1 DEF Numbered
<1>3. TableKnown /\ \A e \in Executors : HandlerKnown(e)
  BY DEF Init, TableKnown, HandlerKnown, Idle, Steps
<1>4. QED
  BY <1>1, <1>2, <1>3 DEF NumberInv

LEMMA NextNumbers == NumberInv /\ [Next]_vars => NumberInv'
<1> SUFFICES ASSUME NumberInv, [Next]_vars PROVE NumberInv'
  OBVIOUS
<1>1. TypeInv /\ TypeInv' /\ HistoryGrows
  BY NextTypes, NextGrows DEF NumberInv, TypeInv
<1>2. Steady
  BY <1>1, NextIsSteady
<1>3. TableKnown'
  BY <1>1, <1>2, TableKnownStays DEF NumberInv, Steady
<1>4. ASSUME NEW e \in Executors PROVE HandlerKnown(e)'
  BY <1>1, <1>2, HandlerKnownStays DEF NumberInv, Steady
<1>5. QED
  BY <1>1, <1>3, <1>4, NumberedKept DEF NumberInv

LEMMA NumbersContiguous == ASSUME NumberInv PROVE VersionsContiguous
<1> SUFFICES ASSUME NEW u \in Users PROVE DOMAIN db[u] = 1..LastVersion(u)
  BY DEF VersionsContiguous
<1>1. PICK n \in Nat : DOMAIN db[u] = 1..n
  BY DEF NumberInv, Numbered
<1>2. CASE n = 0
  <2>1. DOMAIN db[u] = {} /\ 1..0 = {}
    BY <1>1, <1>2
  <2>2. QED
    BY <2>1 DEF LastVersion
<1>3. CASE n # 0
  <2>1. /\ n \in DOMAIN db[u] /\ DOMAIN db[u] # {}
        /\ \A w \in DOMAIN db[u] : w <= n
    BY <1>1, <1>3
  <2>2. LastVersion(u) \in DOMAIN db[u] /\ \A w \in DOMAIN db[u] : w <= LastVersion(u)
    BY <2>1 DEF LastVersion
  <2>3. LastVersion(u) = n
    BY <1>1, <2>1, <2>2
  <2>4. QED
    BY <1>1, <2>3
<1>4. QED
  BY <1>2, <1>3

\* Whatever devices, crashes and expired sessions interleave, the versions of a
\* user are 1, 2, ..., n: newSession takes the number of a committed version,
\* processUpdateStop adds one, and a second commit of the same number fails.
THEOREM NumbersAreGapless == Spec => []VersionsContiguous
<1>1. Spec => []NumberInv
  BY InitNumbers, NextNumbers, PTL DEF Spec
<1>2. NumberInv => VersionsContiguous
  BY NumbersContiguous
<1>3. QED
  BY <1>1, <1>2, PTL

==============================================================================
