---------------------------- MODULE StorageServer ----------------------------
(***************************************************************************)
(* The storage server (class TStorageServer): a pool of executor threads   *)
(* handles the requests of the clients, the io thread runs the session     *)
(* cleaner, and both work on                                               *)
(*                                                                         *)
(*   sessions  fSessions, the table from users to sessions.  Each look-up, *)
(*             emplace and erase of the executors holds fSessionsMutex;    *)
(*   session   the TSession objects.  The table and the handlers share     *)
(*             them through TSession_ptr, so an object outlives its entry; *)
(*   disk      the files under STORAGE_ROOT_PATH\user\version;             *)
(*   db        tables Versions and Files: the committed versions.          *)
(*                                                                         *)
(* A handler is one action for each stretch of code between two accesses   *)
(* to what is shared.  sessions, session, exec, cleaner and inbox are lost *)
(* when the process dies; db and disk are not.                             *)
(*                                                                         *)
(* Clients are the environment.  A client (StorageClient) is synchronous:  *)
(* it has one request under way and waits for the answer, except for pings *)
(* which its user interface thread sends on its own.  Since the waiting    *)
(* client does nothing else, an answer reaches it in the step that sends   *)
(* it.  Several clients (devices) may belong to one user.                  *)
(***************************************************************************)
EXTENDS Version

CONSTANTS Users,      \* user names
          Clients,    \* running client programs
          UserOf,     \* the account each client logs in with
          Executors,  \* the threads of TMessageExecutor
          Tokens,     \* session tokens; a token also names its TSession
          MaxVersion, \* bound: no update session starts at this version
          Workload,   \* the kinds of requests the clients send
          MaySleep,   \* may a session go SESSION_TIMEOUT without a ping?
          MayCrash,   \* may the process die between two steps?
          MayNotRead, \* may the reading of a stored file fail?
          NoPath, NoToken, Null

ASSUME UserAssumption == UserOf \in [Clients -> Users]
ASSUME BoundAssumption == MaxVersion \in Nat
ASSUME FlagAssumption == {MaySleep, MayCrash, MayNotRead} \subseteq BOOLEAN
ASSUME SentinelAssumption == NoPath \notin Paths /\ NoToken \notin Tokens

VARIABLES db, disk, sessions, session, exec, cleaner, inbox, client
vars == <<db, disk, sessions, session, exec, cleaner, inbox, client>>

------------------------------------------------------------------------------
(* Messages, and the state of sessions, threads and clients.               *)

Message ==
  [kind : {"UpdateStart", "UpdateStop", "Ping"}, from : Clients]
    \cup [kind : {"AddFile", "UpdateFile"}, from : Clients,
          path : Paths, date : Data]
    \cup [kind : {"RemoveFile"}, from : Clients, path : Paths]
    \cup [kind : {"RestoreVersion"}, from : Clients,
          ver : Nat, file : Paths \cup {NoPath}]
    \cup [kind : {"RestoreFileAck"}, from : Clients, ok : BOOLEAN]

\* version is Null once terminateSession has moved it out; todo and cur are
\* the part of the list from fNext on and the file fNext stands at, in an
\* order the database does not define; idle says that the last ping is older
\* than SESSION_TIMEOUT.
Session ==
  [kind : {"update", "restore"}, version : TVersion \cup {Null},
   todo : SUBSET Paths, cur : Paths \cup {NoPath}, idle : BOOLEAN]

ASSUME NullAssumption == Null \notin TVersion \cup Session

\* The steps a busy executor can be at.  The ones named after a request are
\* reached when the handler has found the session of the request's user.
Steps == {"AddFile", "UpdateFile", "stored", "RemoveFile", "UpdateStop",
          "erase", "commit", "cleanup", "RestoreFileAck", "first", "send",
          "restored"}

\* ver is the handler's local TVersion_ptr.
Thread ==
  [at : {"idle"}]
    \cup [at : Steps, msg : Message, tok : Tokens \cup {NoToken},
          ver : TVersion \cup {Null}]

Cleaner ==
  [at : {"waiting"}]
    \cup [at : {"rmdir", "erase"}, user : Users, ver : Nat]

\* view is what the client knows of the session: the contents its
\* acknowledged requests have built up, or the ones it has restored; base is
\* the version its update session was opened on.  Both only serve properties.
\* offer is a file it was sent and has not acknowledged.
Offer == [path : Paths, data : Data \cup {NoFile}]
Client ==
  [mode : {"out", "update", "restore"}, tok : Tokens \cup {NoToken},
   busy : BOOLEAN, offer : Offer \cup {Null}, view : Contents, base : Nat]

Idle == [at |-> "idle"]
Waiting == [at |-> "waiting"]
LoggedOut == [mode |-> "out", tok |-> NoToken, busy |-> FALSE,
              offer |-> Null, view |-> NoContents, base |-> NO_VERSION]

TypeOK ==
  /\ \A u \in Users : \A v \in DOMAIN db[u] : v \in Nat /\ db[u][v] \in Rows
  /\ DOMAIN db = Users
  /\ \A k \in DOMAIN disk : k \in Users \X Nat \X Paths /\ disk[k] \in Data
  /\ sessions \in [Users -> Tokens \cup {NoToken}]
  /\ session \in [Tokens -> Session \cup {Null}]
  /\ exec \in [Executors -> Thread]
  /\ cleaner \in Cleaner
  /\ inbox \subseteq Message
  /\ client \in [Clients -> Client]

Init ==
  /\ db = [u \in Users |-> [v \in {} |-> NoContents]]
  /\ disk = [k \in {} |-> NoFile]
  /\ sessions = [u \in Users |-> NoToken]
  /\ session = [t \in Tokens |-> Null]
  /\ exec = [e \in Executors |-> Idle]
  /\ cleaner = Waiting
  /\ inbox = {}
  /\ client = [c \in Clients |-> LoggedOut]

------------------------------------------------------------------------------
(* The database and the file system, as the server uses them.              *)

\* SELECT MAX(VerID), NO_VERSION when the user has none.
LastVersion(u) ==
  IF DOMAIN db[u] = {} THEN NO_VERSION
  ELSE CHOOSE v \in DOMAIN db[u] : \A w \in DOMAIN db[u] : w <= v

\* The version newSession loads: the last one when none is asked for, one
\* file of it when a file is named, an empty NO_VERSION when there are no rows.
InitialVersion(u, ver, file) ==
  LET id == IF ver = NO_VERSION THEN LastVersion(u) ELSE ver
      rows == IF ver = NO_VERSION \/ file = NoPath
                THEN db[u][id]
                ELSE [p \in Paths |-> IF p = file THEN db[u][id][p] ELSE NoFile]
  IN IF id \notin DOMAIN db[u] \/ \A p \in Paths : rows[p] = NoFile
       THEN NewVersion(NO_VERSION)
       ELSE LoadVersion(id, rows)

StoreFile(u, ver, p, d) ==
  disk' = [k \in DOMAIN disk \cup {<<u, ver, p>>} |->
             IF k = <<u, ver, p>> THEN d ELSE disk[k]]

RemoveDir(u, ver) ==
  disk' = [k \in {x \in DOMAIN disk : ~ (x[1] = u /\ x[2] = ver)} |-> disk[k]]

\* readFile yields an empty content when there is no such file.
ReadFile(u, ver, p) ==
  IF <<u, ver, p>> \in DOMAIN disk THEN disk[<<u, ver, p>>] ELSE NoFile

------------------------------------------------------------------------------
(* Answers.                                                                *)

\* The client's session is over for it.
Dismiss(c) == client' = [client EXCEPT ![c] = LoggedOut]

\* The request is answered and the session goes on.
Answer(c, view) ==
  client' = [client EXCEPT ![c].busy = FALSE, ![c].view = view]

OfferFile(u, t, c, p) ==
  LET f == session[t].version.files[p]
  IN client' = [client EXCEPT
                  ![c].busy = FALSE,
                  ![c].offer = [path |-> p, data |-> ReadFile(u, f.dir, p)]]

------------------------------------------------------------------------------
(* The executors.                                                          *)

User(m) == UserOf[m.from]

Take(e, m) ==
  /\ exec[e] = Idle
  /\ inbox' = inbox \ {m}

Goto(e, at, m, t, v) ==
  exec' = [exec EXCEPT ![e] = [at |-> at, msg |-> m, tok |-> t, ver |-> v]]

Finish(e) == exec' = [exec EXCEPT ![e] = Idle]

\* A slip: operator[] instead of the look-up, which replaces an open session.
ReplaceSession(u, kind, v, t, first) ==
  /\ session[t] = Null
  /\ sessions' = [sessions EXCEPT ![u] = t]
  /\ session' = [session EXCEPT ![t] =
       [kind |-> kind, version |-> v, idle |-> FALSE,
        todo |-> IF kind = "restore" THEN Listed(v) ELSE {}, cur |-> first]]

\* newSession: all of it, the database read included, holds fSessionsMutex.
NewSession(u, kind, v, t, first) ==
  /\ sessions[u] = NoToken
  /\ session[t] = Null
  /\ sessions' = [sessions EXCEPT ![u] = t]
  /\ session' = [session EXCEPT ![t] =
       [kind |-> kind, version |-> v, idle |-> FALSE,
        todo |-> IF kind = "restore" THEN Listed(v) ELSE {}, cur |-> first]]

\* The positions fNext can be at over the files of todo.
Cursor(todo) == IF todo = {} THEN {NoPath} ELSE todo

ProcessUpdateStart(e, m) ==
  /\ m.kind = "UpdateStart"
  /\ Take(e, m)
  /\ \/ \E t \in Tokens :
          LET v == InitialVersion(User(m), NO_VERSION, NoPath)
          IN /\ NewSession(User(m), "update", v, t, NoPath)
             /\ client' = [client EXCEPT ![m.from] =
                  [LoggedOut EXCEPT !.mode = "update", !.tok = t,
                                    !.view = Promised(v.files),
                                    !.base = v.id]]
     \/ /\ Dismiss(m.from)   \* a session exists, or the database failed
        /\ UNCHANGED <<sessions, session>>
  /\ UNCHANGED <<db, disk, exec, cleaner>>

SessionKind(m) == IF m.kind \in {"RestoreFileAck", "RestoreVersion"}
                    THEN "restore" ELSE "update"

\* isThereAnUpdateSessionFor and isThereARestoreSessionFor.  The token of the
\* request only serves to name the user.
HasSession(m) ==
  LET t == sessions[User(m)]
  IN t # NoToken /\ session[t].kind = SessionKind(m)

\* A slip: no answer on the early return.
FindSessionSilently(e, m) ==
  /\ m.kind \in {"AddFile", "UpdateFile", "RemoveFile", "UpdateStop",
                 "RestoreFileAck"}
  /\ Take(e, m)
  /\ IF HasSession(m) THEN Goto(e, m.kind, m, sessions[User(m)], Null)
                      ELSE UNCHANGED exec
  /\ UNCHANGED <<db, disk, sessions, session, cleaner, client>>

FindSession(e, m) ==
  /\ m.kind \in {"AddFile", "UpdateFile", "RemoveFile", "UpdateStop",
                 "RestoreFileAck"}
  /\ Take(e, m)
  /\ \/ /\ HasSession(m)
        /\ Goto(e, m.kind, m, sessions[User(m)], Null)
        /\ UNCHANGED client
     \/ /\ ~ HasSession(m)
        /\ Dismiss(m.from)
        /\ UNCHANGED exec
  /\ UNCHANGED <<db, disk, sessions, session, cleaner>>

At(e, steps) == exec[e].at \in steps

\* The version the handler's session still holds.
Base(e) == session[exec[e].tok].version
HasVersion(e) == Base(e) # Null

\* processAddNewFile and processUpdateFile: the checksum does not match, or
\* the file cannot be stored.
RejectFile(e) ==
  LET c == exec[e].msg.from
  IN /\ At(e, {"AddFile", "UpdateFile"})
     /\ \/ Answer(c, client[c].view)
        \/ HasVersion(e) /\ Dismiss(c)
     /\ Finish(e)
     /\ UNCHANGED <<db, disk, sessions, session, cleaner, inbox>>

StoreContent(e) ==
  LET m == exec[e].msg
  IN /\ At(e, {"AddFile", "UpdateFile"})
     /\ HasVersion(e)
     /\ StoreFile(User(m), Base(e).id + 1, m.path, m.date)
     /\ exec' = [exec EXCEPT ![e].at = "stored", ![e].ver = Base(e)]
     /\ UNCHANGED <<db, sessions, session, cleaner, inbox, client>>

SetVersion(e, v) ==
  session' = [session EXCEPT ![exec[e].tok].version = v]

\* The entry is the one built from the version number read before the content
\* was stored; an update is refused when the path is not listed.
ListFile(e) ==
  LET m == exec[e].msg
      f == NewFile(exec[e].ver.id, m.date)
      c == m.from
      known == m.path \in Listed(Base(e))
  IN /\ At(e, {"stored"})
     /\ HasVersion(e)
     /\ SetVersion(e, IF m.kind = "AddFile" THEN AddFile(Base(e), m.path, f)
                                            ELSE UpdateFile(Base(e), m.path, f))
     /\ Answer(c, IF m.kind = "AddFile" \/ known
                    THEN [client[c].view EXCEPT ![m.path] = m.date]
                    ELSE client[c].view)
     /\ Finish(e)
     /\ UNCHANGED <<db, disk, sessions, cleaner, inbox>>

\* The path prefix of version 0 is refused, so nothing can be removed before
\* the first version is committed.
ProcessRemoveFile(e) ==
  LET m == exec[e].msg
      c == m.from
  IN /\ At(e, {"RemoveFile"})
     /\ HasVersion(e)
     /\ \/ /\ Base(e).id > 0
           /\ SetVersion(e, RemoveFile(Base(e), m.path))
           /\ Answer(c, [client[c].view EXCEPT ![m.path] = NoFile])
        \/ /\ Base(e).id = 0
           /\ Answer(c, client[c].view)
           /\ UNCHANGED session
     /\ Finish(e)
     /\ UNCHANGED <<db, disk, sessions, cleaner, inbox>>

\* A slip: the reply is sent before the session is taken out of the table.
AnswerThenTerminate(e) ==
  /\ At(e, {"UpdateStop"})
  /\ HasVersion(e)
  /\ exec' = [exec EXCEPT ![e].at = "erase", ![e].ver = Base(e)]
  /\ SetVersion(e, Null)
  /\ client' = [client EXCEPT ![exec[e].msg.from].busy = FALSE]
  /\ UNCHANGED <<db, disk, sessions, cleaner, inbox>>

\* processUpdateStop: terminateSession, removeSession, then the commit.
TerminateSession(e) ==
  /\ At(e, {"UpdateStop"})
  /\ HasVersion(e)
  /\ exec' = [exec EXCEPT ![e].at = "erase", ![e].ver = Base(e)]
  /\ SetVersion(e, Null)
  /\ UNCHANGED <<db, disk, sessions, cleaner, inbox, client>>

\* A slip: the entry stays, with an empty pointer.
BlankSession(u) == sessions' = [sessions EXCEPT ![u] = Null]
RemoveSession(u) == sessions' = [sessions EXCEPT ![u] = NoToken]

EraseSession(e) ==
  /\ At(e, {"erase"})
  /\ RemoveSession(User(exec[e].msg))
  /\ exec' = [exec EXCEPT ![e].at = "commit"]
  /\ UNCHANGED <<db, disk, session, cleaner, inbox, client>>

RefuseVersion(e) ==
  /\ At(e, {"commit"})
  /\ ~ IsValid(exec[e].ver)
  /\ Dismiss(exec[e].msg.from)
  /\ Finish(e)
  /\ UNCHANGED <<db, disk, sessions, session, cleaner, inbox>>

\* A slip: table Versions without its primary key.
AnyKey(u, id) == TRUE

\* (VerID, UserID) is the primary key of table Versions.
NewKey(u, id) == id \notin DOMAIN db[u]

\* InsertNewVersion is one transaction.
InsertNewVersion(e) ==
  LET u == User(exec[e].msg)
      v == TerminateWithSuccess(exec[e].ver)
  IN /\ At(e, {"commit"})
     /\ IsValid(exec[e].ver)
     /\ NewKey(u, v.id)
     /\ db' = [db EXCEPT ![u] = [w \in DOMAIN db[u] \cup {v.id} |->
                                   IF w = v.id THEN RowsOf(v) ELSE db[u][w]]]
     /\ Dismiss(exec[e].msg.from)
     /\ Finish(e)
     /\ UNCHANGED <<disk, sessions, session, cleaner, inbox>>

\* A duplicate key, or any other error of the database: rolled back.
FailToInsert(e) ==
  /\ At(e, {"commit"})
  /\ IsValid(exec[e].ver)
  /\ exec' = [exec EXCEPT ![e].at = "cleanup"]
  /\ UNCHANGED <<db, disk, sessions, session, cleaner, inbox, client>>

\* A slip: the directory of the base version, not of the refused one.
CleanUpBase(e) ==
  /\ At(e, {"cleanup"})
  /\ RemoveDir(User(exec[e].msg), exec[e].ver.id)
  /\ Dismiss(exec[e].msg.from)
  /\ Finish(e)
  /\ UNCHANGED <<db, sessions, session, cleaner, inbox>>

CleanUp(e) ==
  /\ At(e, {"cleanup"})
  /\ RemoveDir(User(exec[e].msg), exec[e].ver.id + 1)
  /\ Dismiss(exec[e].msg.from)
  /\ Finish(e)
  /\ UNCHANGED <<db, sessions, session, cleaner, inbox>>

\* processRestoreVersion: the answer carries the token, then the session is
\* looked up again for its first file.
ProcessRestoreVersion(e, m) ==
  /\ m.kind = "RestoreVersion"
  /\ Take(e, m)
  /\ \/ \E t \in Tokens :
          LET v == InitialVersion(User(m), m.ver, m.file)
          IN /\ \E first \in Cursor(Listed(v)) :
                  NewSession(User(m), "restore", v, t, first)
             /\ client' = [client EXCEPT ![m.from] =
                  [LoggedOut EXCEPT !.mode = "restore", !.tok = t,
                                    !.busy = TRUE]]
             /\ Goto(e, "first", m, NoToken, Null)
     \/ /\ Dismiss(m.from)
        /\ UNCHANGED <<sessions, session, exec>>
  /\ UNCHANGED <<db, disk, cleaner>>

FindFirst(e) ==
  LET m == exec[e].msg
  IN /\ At(e, {"first"})
     /\ \/ /\ HasSession(m)
           /\ Goto(e, "send", m, sessions[User(m)], Null)
           /\ UNCHANGED client
        \/ /\ ~ HasSession(m)
           /\ Dismiss(m.from)
           /\ Finish(e)
     /\ UNCHANGED <<db, disk, sessions, session, cleaner, inbox>>

\* updateNext: a step past the last file.  Past the end the list iterator
\* wraps around to the first file.
Advance(t) ==
  LET rest == session[t].todo \ {session[t].cur}
  IN IF session[t].cur = NoPath THEN Listed(session[t].version) ELSE rest

\* A slip: the result in the acknowledgement is not looked at.
MovesOnAnyway(e) == At(e, {"RestoreFileAck"})

\* A negative acknowledgement has the same file sent again.
MovesOn(e) == At(e, {"RestoreFileAck"}) /\ exec[e].msg.ok

\* getNextFile gives a file to send, or the restore is over and the version
\* is moved out of the session.  When the file cannot be read, the exception
\* ends the handler and the executor only logs it: nothing is answered.
SendFile(e) ==
  LET m == exec[e].msg
      t == exec[e].tok
      todo == IF MovesOn(e) THEN Advance(t) ELSE session[t].todo
  IN /\ At(e, {"send", "RestoreFileAck"})
     /\ HasVersion(e)
     /\ \E p \in IF MovesOn(e) THEN Cursor(todo) ELSE {session[t].cur} :
          \/ /\ p # NoPath
             /\ session' = [session EXCEPT ![t].todo = todo, ![t].cur = p]
             /\ OfferFile(User(m), t, m.from, p)
             /\ Finish(e)
          \/ /\ p # NoPath
             /\ MayNotRead
             /\ session' = [session EXCEPT ![t].todo = todo, ![t].cur = p]
             /\ Finish(e)
             /\ UNCHANGED client
          \/ /\ p = NoPath
             /\ session' = [session EXCEPT ![t].todo = todo, ![t].cur = p,
                                           ![t].version = Null]
             /\ exec' = [exec EXCEPT ![e].at = "restored", ![e].ver = Base(e)]
             /\ UNCHANGED client
     /\ UNCHANGED <<db, disk, sessions, cleaner, inbox>>

StopRestore(e) ==
  /\ At(e, {"restored"})
  /\ RemoveSession(User(exec[e].msg))
  /\ Dismiss(exec[e].msg.from)
  /\ Finish(e)
  /\ UNCHANGED <<db, disk, session, cleaner, inbox>>

\* The time the session is stamped with is the client's.  A clock that is
\* behind the server's makes the session idle again: see SessionExpires.
ProcessPingRequest(e, m) ==
  LET t == sessions[User(m)]
  IN /\ m.kind = "Ping"
     /\ Take(e, m)
     /\ session' = IF t = NoToken THEN session
                   ELSE [session EXCEPT ![t].idle = FALSE]
     /\ UNCHANGED <<db, disk, sessions, exec, cleaner, client>>

------------------------------------------------------------------------------
(* The death of the process, and its restart by the service manager.  A    *)
(* client that was waiting gets an error; it may go on with its token.     *)

Restart ==
  /\ sessions' = [u \in Users |-> NoToken]
  /\ session' = [t \in Tokens |->
                   IF session[t] = Null THEN Null
                   ELSE [session[t] EXCEPT !.version = Null, !.todo = {},
                                           !.cur = NoPath, !.idle = FALSE]]
  /\ exec' = [e \in Executors |-> Idle]
  /\ cleaner' = Waiting
  /\ inbox' = {}
  /\ client' = [c \in Clients |-> [client[c] EXCEPT !.busy = FALSE]]
  /\ UNCHANGED <<db, disk>>

Crash == MayCrash /\ Restart

\* The steps that follow the session's pointer to its version.
Dereferences == {"AddFile", "UpdateFile", "stored", "RemoveFile", "UpdateStop",
                 "send", "RestoreFileAck"}

\* A handler follows the pointer after another one has moved the version out.
NullVersion(e) ==
  /\ At(e, Dereferences)
  /\ ~ HasVersion(e)
  /\ Restart

------------------------------------------------------------------------------
(* The session cleaner, which runs on the io thread.                       *)

\* SESSION_TIMEOUT goes by without a ping that reaches the session.
SessionExpires(u) ==
  LET t == sessions[u]
  IN /\ MaySleep
     /\ t # NoToken
     /\ ~ session[t].idle
     /\ session' = [session EXCEPT ![t].idle = TRUE]
     /\ UNCHANGED <<db, disk, sessions, exec, cleaner, inbox, client>>

\* A slip: only update sessions are ever cleaned.
UpdateExpired(t) == session[t].idle /\ session[t].kind = "update"
Expired(t) == session[t].idle

\* The version is read from the session before the directory is removed, and
\* the table is read without fSessionsMutex.
CheckSession(u) ==
  LET t == sessions[u]
  IN /\ cleaner = Waiting
     /\ t # NoToken
     /\ Expired(t)
     /\ \/ /\ session[t].kind = "restore"
           /\ cleaner' = [at |-> "erase", user |-> u, ver |-> 0]
           /\ UNCHANGED <<sessions, session, exec, inbox, client>>
        \/ /\ session[t].kind = "update"
           /\ session[t].version # Null
           /\ cleaner' = [at |-> "rmdir", user |-> u,
                          ver |-> session[t].version.id + 1]
           /\ UNCHANGED <<sessions, session, exec, inbox, client>>
        \/ /\ session[t].kind = "update"
           /\ session[t].version = Null
           /\ Restart
     /\ UNCHANGED <<db, disk>>

CleanDirectory ==
  /\ cleaner.at = "rmdir"
  /\ RemoveDir(cleaner.user, cleaner.ver)
  /\ cleaner' = [cleaner EXCEPT !.at = "erase"]
  /\ UNCHANGED <<db, sessions, session, exec, inbox, client>>

CleanSession ==
  /\ cleaner.at = "erase"
  /\ RemoveSession(cleaner.user)
  /\ cleaner' = Waiting
  /\ UNCHANGED <<db, disk, session, exec, inbox, client>>

------------------------------------------------------------------------------
(* The clients.                                                            *)

Send(c, m) ==
  /\ m.kind \in Workload
  /\ ~ client[c].busy
  /\ inbox' = inbox \cup {m}
  /\ client' = [client EXCEPT ![c].busy = TRUE]
  /\ UNCHANGED <<db, disk, sessions, session, exec, cleaner>>

StartUpdate(c) ==
  /\ client[c].mode = "out"
  /\ LastVersion(UserOf[c]) < MaxVersion
  /\ Send(c, [kind |-> "UpdateStart", from |-> c])

SendChange(c) ==
  /\ client[c].mode = "update"
  /\ \E p \in Paths :
       \/ \E d \in Data, k \in {"AddFile", "UpdateFile"} :
            Send(c, [kind |-> k, from |-> c, path |-> p, date |-> d])
       \/ Send(c, [kind |-> "RemoveFile", from |-> c, path |-> p])

StopUpdate(c) ==
  /\ client[c].mode = "update"
  /\ Send(c, [kind |-> "UpdateStop", from |-> c])

StartRestore(c) ==
  /\ client[c].mode = "out"
  /\ \E v \in {NO_VERSION} \cup DOMAIN db[UserOf[c]], f \in Paths \cup {NoPath} :
       Send(c, [kind |-> "RestoreVersion", from |-> c, ver |-> v, file |-> f])

\* A file that is accepted is in the client's folder.
AckFile(c, ok) ==
  LET o == client[c].offer
      m == [kind |-> "RestoreFileAck", from |-> c, ok |-> ok]
  IN /\ client[c].mode = "restore"
     /\ o # Null
     /\ ~ client[c].busy
     /\ m.kind \in Workload
     /\ inbox' = inbox \cup {m}
     /\ client' = [client EXCEPT
          ![c].busy = TRUE, ![c].offer = Null,
          ![c].view = IF ok THEN [@ EXCEPT ![o.path] = o.data] ELSE @]
     /\ UNCHANGED <<db, disk, sessions, session, exec, cleaner>>

SendPing(c) ==
  /\ "Ping" \in Workload
  /\ client[c].tok # NoToken
  /\ inbox' = inbox \cup {[kind |-> "Ping", from |-> c]}
  /\ UNCHANGED <<db, disk, sessions, session, exec, cleaner, client>>

\* The client program ends, or gives up the session after an error.
Abandon(c) ==
  /\ client[c].mode # "out"
  /\ ~ client[c].busy
  /\ Dismiss(c)
  /\ UNCHANGED <<db, disk, sessions, session, exec, cleaner, inbox>>

------------------------------------------------------------------------------
Execute(e) ==
  \/ \E m \in inbox : \/ ProcessUpdateStart(e, m)
                      \/ FindSession(e, m)
                      \/ ProcessRestoreVersion(e, m)
                      \/ ProcessPingRequest(e, m)
  \/ RejectFile(e)
  \/ StoreContent(e)
  \/ ListFile(e)
  \/ ProcessRemoveFile(e)
  \/ TerminateSession(e)
  \/ EraseSession(e)
  \/ RefuseVersion(e)
  \/ InsertNewVersion(e)
  \/ FailToInsert(e)
  \/ CleanUp(e)
  \/ FindFirst(e)
  \/ SendFile(e)
  \/ StopRestore(e)
  \/ NullVersion(e)

Clean ==
  \/ \E u \in Users : CheckSession(u)
  \/ CleanDirectory
  \/ CleanSession

Use(c) ==
  \/ StartUpdate(c)
  \/ SendChange(c)
  \/ StopUpdate(c)
  \/ StartRestore(c)
  \/ \E ok \in BOOLEAN : AckFile(c, ok)
  \/ SendPing(c)
  \/ Abandon(c)

Next ==
  \/ \E e \in Executors : Execute(e)
  \/ Clean
  \/ \E u \in Users : SessionExpires(u)
  \/ Crash
  \/ \E c \in Clients : Use(c)

Spec == Init /\ [][Next]_vars

\* Fairness: the executors and the io thread keep running; the message queue
\* is first in first out, so that no request is overtaken for ever; and time
\* passes for a session nobody holds.  Nothing is assumed of the clients.
Serve(c) ==
  \E e \in Executors : \E m \in {x \in inbox : x.from = c /\ x.kind # "Ping"} :
    ProcessUpdateStart(e, m) \/ FindSession(e, m) \/ ProcessRestoreVersion(e, m)

Forgotten(u, t) == sessions[u] = t /\ \A c \in Clients : client[c].tok # t

Fairness ==
  /\ \A e \in Executors : WF_vars(Execute(e))
  /\ \A c \in Clients : SF_vars(Serve(c))
  /\ WF_vars(Clean)
  /\ \A u \in Users : WF_vars(Forgotten(u, sessions[u]) /\ SessionExpires(u))

FairSpec == Spec /\ Fairness

------------------------------------------------------------------------------
(* Properties.                                                             *)

\* The versions of a user are numbered 1, 2, 3, ... without a gap, whatever
\* devices, crashes and expired sessions do: a session takes its number from
\* the last version it saw (StorageServer.cpp, newSession and
\* processUpdateStop), and a second session that saw the same one is refused.
VersionsContiguous ==
  \A u \in Users : DOMAIN db[u] = 1..LastVersion(u)

\* A committed version can be given back: each file its rows list is on disk
\* with the content the client had stored.  The rows are written by
\* InsertNewVersion, the files by processAddNewFile, and directories are
\* removed by processUpdateStop and the session cleaner.
CommittedFilesKept ==
  \A u \in Users : \A v \in DOMAIN db[u] : \A p \in Paths :
    LET r == db[u][v][p]
    IN r # NoFile => ReadFile(u, r.dir, p) = r.date

\* No handler follows a session's version pointer after terminateSession has
\* moved the version out of it (Session.h, getVersion and addFile).
NoNullVersion ==
  \A e \in Executors : At(e, Dereferences) => HasVersion(e)

\* When a restore ends, the client has accepted exactly the files of the
\* version it asked for, with the contents the database promises: no file is
\* skipped, repeated with another content, or read from an emptied directory
\* (processRestoreVersion, processRestoreFileAck).
RestoreIsExact ==
  \A e \in Executors : At(e, {"restored"}) =>
    LET v == exec[e].ver
        u == User(exec[e].msg)
    IN /\ client[exec[e].msg.from].view = Promised(v.files)
       /\ \A p \in Listed(v) : v.files[p].date = db[u][v.id][p].date

\* The session a handler works on is the one whose token the client was given
\* by newSession: a request is never applied to somebody else's session.
TokenNamesSession ==
  \A e \in Executors : At(e, Steps \ {"first"}) =>
    exec[e].tok = client[exec[e].msg.from].tok

\* A committed version never changes and never goes away.
HistoryKept ==
  [][\A u \in Users : \A v \in DOMAIN db[u] :
       v \in DOMAIN db'[u] /\ db'[u][v] = db[u][v]]_db

\* The server implements VersionHistory: a commit is atomic, contains all of
\* the changes the client has had acknowledged and nothing else, and is made
\* on top of the version its session was opened on.
History ==
  [u \in Users |-> [v \in 1..LastVersion(u) |-> Promised(db[u][v])]]

Draft == [base : Nat, files : Contents]

ASSUME NoDraftAssumption == Null \notin Draft

DraftOf(c) ==
  IF client[c].mode # "update" THEN Null
  ELSE [base |-> client[c].base, files |-> client[c].view]

Abstract == INSTANCE VersionHistory
              WITH history <- History,
                   draft <- [c \in Clients |-> DraftOf(c)],
                   NoDraft <- Null
ImplementsHistory == Abstract!Spec

\* The cleaner only ever deletes the directory of a pending session: its
\* warning in checkAndCleanSessions says the session "was pending".
CleanerSparesCommitted ==
  cleaner.at = "rmdir" => cleaner.ver \notin DOMAIN db[cleaner.user]

\* Every request is answered, or the client learns that the server died.  The
\* one exception is a stored file that cannot be read (MayNotRead).
AnswerArrives ==
  \A c \in Clients : client[c].busy ~> ~ client[c].busy

\* A session whose client has gone away does not lock its user out for ever.
ForgottenSessionFreed ==
  \A u \in Users, t \in Tokens : Forgotten(u, t) ~> sessions[u] # t
==============================================================================
