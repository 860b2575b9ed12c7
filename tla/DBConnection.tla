------------------------------ MODULE DBConnection ------------------------------
(***************************************************************************)
(* TDBManagerMSDE as the executors use it: one SqlConnection with one      *)
(* SqlCommand object per statement, shared by all of them without a lock.  *)
(* An action is one call on the connection or on a command; between two of *)
(* them the other executors run.                                           *)
(*                                                                         *)
(* SQL Server and ADO.NET are external: a connection has one transaction   *)
(* and one reader; a command without the open transaction, or with a       *)
(* parameter missing or given twice, is refused with a managed exception.  *)
(***************************************************************************)
EXTENDS Naturals, FiniteSets, Sequences

CONSTANTS Executors, Requests, Nobody,
          MaxFaults  \* bound on statements the database refuses on its own

ASSUME NobodyAssumption == Nobody \notin Executors
ASSUME FaultsAssumption == MaxFaults \in Nat
ASSUME RequestsAssumption ==
  \A r \in Requests : r.op \in {"register", "login", "last", "commit"} /\ r.ver \in Nat

VARIABLES server,    \* "up", or the exception nobody catches has ended it
          taken,     \* the messages the executors have taken, each once
          step, req, \* where each executor is, and the request it handles
          owner,     \* who has begun the open transaction
          pending,   \* the rows that transaction has inserted
          reader,    \* who has the open SqlDataReader
          params,    \* SqlCommand::Parameters of the commands that can race
          todo,      \* the files InsertNewVersion has still to insert
          found,     \* what the reader of getLastVersion has returned
          accounts,  \* table Users: a set of <<name, password>>
          rows,      \* tables Versions and Files
          replies,   \* the answers given, as in DBManagerInterface
          faults
vars == <<server, taken, step, req, owner, pending, reader, params, todo, found,
          accounts, rows, replies, faults>>

database == <<accounts, rows>>
transaction == <<owner, pending>>
locals == <<taken, req, todo, found>>

Commands == {"InsertUser", "SelectSalt", "SelectLast"}
NoRequest == [op |-> "none", user |-> Nobody, pass |-> Nobody, ver |-> 0, files |-> {}]

VersionRow(r) == <<r.user, r.ver>>
FileRows(r) == {<<r.user, r.ver, f>> : f \in r.files}
RowsOf(r) == {VersionRow(r)} \cup FileRows(r)
\* The rows of one version of one user.
OfVersion(v) == {x \in rows : x[1] = v[1] /\ x[2] = v[2]}

InTransaction == {"userid", "bindSalt", "salt", "verify", "version", "files", "commit"}
Steps == {"idle", "begin", "unknown", "bindName", "bindRest", "insert",
          "bindLast", "last", "close"} \cup InTransaction

Registered(u) == \E a \in accounts : a[1] = u
Committed(u) == {x[2] : x \in {y \in rows : y[1] = u}}
LastVersion(u) == CHOOSE n \in {0} \cup Committed(u) : \A m \in Committed(u) : m <= n

TypeOK ==
  /\ server \in {"up", "uncaught"}
  /\ taken \subseteq Requests
  /\ step \in [Executors -> Steps]
  /\ req \in [Executors -> Requests \cup {NoRequest}]
  /\ owner \in Executors \cup {Nobody}
  /\ reader \in Executors \cup {Nobody}
  /\ pending \subseteq UNION {RowsOf(r) : r \in Requests}
  /\ rows \subseteq UNION {RowsOf(r) : r \in Requests}
  /\ DOMAIN params = Commands
  /\ DOMAIN todo = Executors
  /\ \A e \in Executors : todo[e] \subseteq req[e].files
  /\ faults \in 0..MaxFaults
  /\ pending # {} => owner # Nobody
  /\ reader # Nobody => owner = Nobody

Init ==
  /\ server = "up"
  /\ taken = {}
  /\ step = [e \in Executors |-> "idle"]
  /\ req = [e \in Executors |-> NoRequest]
  /\ owner = Nobody
  /\ pending = {}
  /\ reader = Nobody
  /\ params = [c \in Commands |-> <<>>]
  /\ todo = [e \in Executors |-> {}]
  /\ found = [e \in Executors |-> 0]
  /\ accounts = {}
  /\ rows = {}
  /\ replies = {}
  /\ faults = 0

------------------------------------------------------------------------------
(* The ways a call goes on.                                                *)

At(e, s) == server = "up" /\ step[e] = s
GoTo(e, s) == step' = [step EXCEPT ![e] = s]

\* The handler sends its reply, and the executor takes the next message.
Reply(e, ok, last) ==
  /\ GoTo(e, "idle")
  /\ replies' = replies \cup {[req |-> req[e], ok |-> ok, last |-> last]}
\* A slip: the exception is dropped.
Swallows(e) == Reply(e, TRUE, 0)
\* EDBException: the handler catches it and answers with an error.
Throws(e) == Reply(e, FALSE, 0)

\* A managed exception: nothing between the call and the thread's entry point
\* catches it, and the process ends.
Uncaught == server' = "uncaught" /\ UNCHANGED <<step, replies>>

Fault == faults < MaxFaults /\ faults' = faults + 1

\* A slip: the rows are left to the next transaction.
RollbackOwner == owner' = Nobody /\ UNCHANGED pending
Rollback == owner' = Nobody /\ pending' = {}

Bind(c, name, value) == params' = [params EXCEPT ![c] = Append(@, <<name, value>>)]
Clear(c) == params' = [params EXCEPT ![c] = <<>>]
\* Each of the named parameters is there, once.
Bound(c, names) ==
  /\ Len(params[c]) = Cardinality(names)
  /\ {params[c][i][1] : i \in DOMAIN params[c]} = names
Value(c, name) == params[c][CHOOSE i \in DOMAIN params[c] : params[c][i][1] = name][2]

------------------------------------------------------------------------------
(* Transactions.                                                           *)

\* An executor takes a message.  A commit comes from a session, so its user
\* has an account.
Receive(e) ==
  /\ At(e, "idle")
  /\ \E r \in Requests \ taken :
       /\ taken' = taken \cup {r}
       /\ r.op = "commit" => Registered(r.user)
       /\ req' = [req EXCEPT ![e] = r]
       /\ todo' = [todo EXCEPT ![e] = r.files]
  /\ GoTo(e, "begin")
  /\ UNCHANGED <<server, transaction, reader, params, found, database, replies, faults>>

\* BeginTransaction stands outside of every try block.
BeginTransaction(e) ==
  /\ At(e, "begin")
  /\ IF owner = Nobody /\ reader = Nobody
       THEN /\ owner' = e
            /\ GoTo(e, IF req[e].op \in {"register", "commit"} THEN "userid" ELSE "bindSalt")
            /\ UNCHANGED <<server, replies>>
       ELSE Uncaught /\ UNCHANGED owner
  /\ UNCHANGED <<pending, reader, params, locals, database, faults>>

\* getUserID.  Its catch block closes a reader that is still a null pointer.
GetUserID(e) ==
  /\ At(e, "userid")
  /\ \/ /\ GoTo(e, IF req[e].op = "register" THEN "commit" ELSE "version")
        /\ UNCHANGED <<server, replies, faults>>
     \/ Fault /\ Uncaught
  /\ UNCHANGED <<transaction, reader, params, locals, database>>

\* processRegistrationRequest between checkIfUserExists and insertNewUser.
UserChecked(e) ==
  IF Registered(req[e].user) THEN Reply(e, FALSE, 0)
  ELSE GoTo(e, "bindName") /\ UNCHANGED replies

\* processVerifyCred has the path of the user's folder.
Verified(e) == Reply(e, TRUE, 0)

\* Commit; an error here is no EDBException either, and the rows may be there.
Commit(e) ==
  /\ At(e, "commit")
  /\ \/ /\ rows' = rows \cup pending
        /\ Rollback
        /\ \/ req[e].op = "register" /\ UserChecked(e)
           \/ req[e].op = "login" /\ Verified(e)
           \/ req[e].op = "last" /\ GoTo(e, "bindLast") /\ UNCHANGED replies
           \/ req[e].op = "commit" /\ Reply(e, TRUE, 0)
        /\ UNCHANGED <<server, faults>>
     \/ Fault /\ Uncaught /\ rows' \in {rows, rows \cup pending} /\ UNCHANGED transaction
  /\ UNCHANGED <<reader, params, locals, accounts>>

------------------------------------------------------------------------------
(* verifyUserCredentials.                                                  *)

BindSalt(e) ==
  /\ At(e, "bindSalt")
  /\ Bind("SelectSalt", "username", req[e].user)
  /\ GoTo(e, "salt")
  /\ UNCHANGED <<server, transaction, reader, locals, database, replies, faults>>

\* A user without an account is rolled back here; the parameters are cleared
\* after that.  The catch block does not roll back.
SelectSalt(e) ==
  /\ At(e, "salt")
  /\ \/ /\ Bound("SelectSalt", {"username"})
        /\ \/ /\ Registered(Value("SelectSalt", "username"))
              /\ Clear("SelectSalt")
              /\ GoTo(e, "verify")
              /\ UNCHANGED transaction
           \/ /\ ~ Registered(Value("SelectSalt", "username"))
              /\ Rollback
              /\ GoTo(e, "unknown")
              /\ UNCHANGED params
        /\ UNCHANGED <<replies, faults>>
     \/ /\ IF Bound("SelectSalt", {"username"}) THEN Fault ELSE UNCHANGED faults
        /\ Clear("SelectSalt")
        /\ Throws(e)
        /\ UNCHANGED transaction
  /\ UNCHANGED <<server, reader, locals, database>>

UnknownUser(e) ==
  /\ At(e, "unknown")
  /\ Clear("SelectSalt")
  /\ Throws(e)
  /\ UNCHANGED <<server, transaction, reader, locals, database, faults>>

\* A slip: the password is left out of the condition.
MatchesName(e) == Registered(req[e].user)
\* The row with this name and this password.
Matches(e) == <<req[e].user, req[e].pass>> \in accounts

\* A wrong password and a failed checksum are rolled back; an exception of the
\* statement is not.
VerifyCredential(e) ==
  /\ At(e, "verify")
  /\ \/ /\ Matches(e)
        /\ GoTo(e, "commit")
        /\ UNCHANGED <<transaction, replies, faults>>
     \/ /\ ~ Matches(e) \/ faults < MaxFaults
        /\ Rollback
        /\ Throws(e)
        /\ IF Matches(e) THEN Fault ELSE UNCHANGED faults
     \/ Fault /\ Throws(e) /\ UNCHANGED transaction
  /\ UNCHANGED <<server, reader, params, locals, database>>

------------------------------------------------------------------------------
(* InsertNewVersion, after getUserID.                                      *)

\* The key of Versions may be taken; the exception is rolled back.
Insert(e, row, then) ==
  \/ /\ row \notin rows
     /\ pending' = pending \cup {row}
     /\ GoTo(e, then)
     /\ UNCHANGED <<owner, replies, faults>>
  \/ /\ IF row \in rows THEN UNCHANGED faults ELSE Fault
     /\ Rollback
     /\ Throws(e)

\* A slip: the loop ends one file early.
NextRowButOne(left) == IF Cardinality(left) <= 1 THEN "commit" ELSE "files"
NextRow(left) == IF left = {} THEN "commit" ELSE "files"

InsertVersionRow(e) ==
  /\ At(e, "version")
  /\ Insert(e, VersionRow(req[e]), NextRow(todo[e]))
  /\ UNCHANGED <<server, reader, params, locals, database>>

InsertFileRow(e) ==
  /\ At(e, "files")
  /\ \E f \in todo[e] :
       /\ todo' = [todo EXCEPT ![e] = @ \ {f}]
       /\ Insert(e, <<req[e].user, req[e].ver, f>>, NextRow(todo[e] \ {f}))
  /\ UNCHANGED <<server, taken, reader, params, req, found, database>>

------------------------------------------------------------------------------
(* insertNewUser: no transaction, one command for all executors.           *)

BindName(e) ==
  /\ At(e, "bindName")
  /\ Bind("InsertUser", "username", req[e].user)
  /\ GoTo(e, "bindRest")
  /\ UNCHANGED <<server, transaction, reader, locals, database, replies, faults>>

\* The password is salted first; an error there leaves the name bound.
BindRest(e) ==
  /\ At(e, "bindRest")
  /\ \/ /\ Bind("InsertUser", "password", req[e].pass)
        /\ GoTo(e, "insert")
        /\ UNCHANGED <<replies, faults>>
     \/ Fault /\ Throws(e) /\ UNCHANGED params
  /\ UNCHANGED <<server, transaction, reader, locals, database>>

\* Username is unique in table Users.
CanInsertUser ==
  /\ owner = Nobody
  /\ reader = Nobody
  /\ Bound("InsertUser", {"username", "password"})
  /\ ~ Registered(Value("InsertUser", "username"))

InsertUser(e) ==
  /\ At(e, "insert")
  /\ Clear("InsertUser")
  /\ \/ /\ CanInsertUser
        /\ accounts' = accounts \cup
             {<<Value("InsertUser", "username"), Value("InsertUser", "password")>>}
        /\ Reply(e, TRUE, 0)
        /\ UNCHANGED faults
     \/ /\ IF CanInsertUser THEN Fault ELSE UNCHANGED faults
        /\ Throws(e)
        /\ UNCHANGED accounts
  /\ UNCHANGED <<server, transaction, reader, locals, rows>>

------------------------------------------------------------------------------
(* getLastVersion, after the credentials; getAllVersions, getVersion and   *)
(* getSingleFileOfVersion use the connection in the same way.              *)

BindLast(e) ==
  /\ At(e, "bindLast")
  /\ Bind("SelectLast", "username", req[e].user)
  /\ GoTo(e, "last")
  /\ UNCHANGED <<server, transaction, reader, locals, database, replies, faults>>

CanSelectLast ==
  owner = Nobody /\ reader = Nobody /\ Bound("SelectLast", {"username"})

SelectLast(e) ==
  /\ At(e, "last")
  /\ \/ /\ CanSelectLast
        /\ found' = [found EXCEPT ![e] = LastVersion(Value("SelectLast", "username"))]
        /\ reader' = e
        /\ GoTo(e, "close")
        /\ UNCHANGED <<params, replies, faults>>
     \/ /\ IF CanSelectLast THEN Fault ELSE UNCHANGED faults
        /\ Clear("SelectLast")
        /\ Throws(e)
        /\ UNCHANGED <<reader, found>>
  /\ UNCHANGED <<server, taken, transaction, req, todo, database>>

CloseReader(e) ==
  /\ At(e, "close")
  /\ Clear("SelectLast")
  /\ reader' = Nobody
  /\ Reply(e, TRUE, found[e])
  /\ UNCHANGED <<server, transaction, locals, database, faults>>

------------------------------------------------------------------------------

\* The service is started again: SQL Server has rolled the transaction back,
\* and the requests under way are lost.
Restart ==
  /\ server = "uncaught"
  /\ server' = "up"
  /\ step' = [e \in Executors |-> "idle"]
  /\ Rollback
  /\ reader' = Nobody
  /\ params' = [c \in Commands |-> <<>>]
  /\ UNCHANGED <<locals, database, replies, faults>>

Executor(e) ==
  \/ Receive(e) \/ BeginTransaction(e) \/ GetUserID(e) \/ Commit(e)
  \/ BindSalt(e) \/ SelectSalt(e) \/ UnknownUser(e) \/ VerifyCredential(e)
  \/ InsertVersionRow(e) \/ InsertFileRow(e)
  \/ BindName(e) \/ BindRest(e) \/ InsertUser(e)
  \/ BindLast(e) \/ SelectLast(e) \/ CloseReader(e)

Next == (\E e \in Executors : Executor(e)) \/ Restart

Spec == Init /\ [][Next]_vars

------------------------------------------------------------------------------
(* Properties.                                                             *)

\* A committed version has all the files of one commit and nothing else,
\* whatever the other executors do on the connection meanwhile and wherever
\* the statements of InsertNewVersion fail.
CommitIsWhole ==
  \A x \in rows : \E r \in Requests :
    r.op = "commit" /\ OfVersion(x) = RowsOf(r)

\* A commit or login that is told to have succeeded has: its rows are there,
\* its password is the stored one.  An executor never reads the parameters or
\* commits the rows of another one's transaction.
SuccessIsReal ==
  \A a \in replies :
    /\ a.ok /\ a.req.op = "commit" => OfVersion(VersionRow(a.req)) = RowsOf(a.req)
    /\ a.ok /\ a.req.op = "login" => <<a.req.user, a.req.pass>> \in accounts

\* A registration that is answered with yes has stored this user with this
\* password ("check if user already registred, if not store it").
RegisteredAsAsked ==
  \A a \in replies :
    a.ok /\ a.req.op = "register" => <<a.req.user, a.req.pass>> \in accounts

\* A call of the database ends in its result or in an EDBException, as the
\* interface declares ("throws EDBException").
OnlyEDBException == server = "up"

\* After an error the client is told to "Try later", so a request that has
\* failed leaves the connection usable: no transaction stays open when no
\* executor works on one.
UsableWhenIdle ==
  (\A e \in Executors : step[e] \notin InTransaction) => owner = Nobody

\* The connection with its executors is the database of IDBManagerInterface:
\* effects are whole, and answers tell the truth.  It is as long as one executor
\* at a time registers a user or asks for the last version: see RegisteredAsAsked.
Stored ==
  {r \in Requests :
     \/ r.op = "register" /\ <<r.user, r.pass>> \in accounts
     \/ r.op = "commit" /\ OfVersion(VersionRow(r)) = RowsOf(r)}
Interface == INSTANCE DBManagerInterface WITH stored <- Stored
ImplementsInterface == Interface!Spec
================================================================================
