-------------------------- MODULE DBConnectionProofs --------------------------
(***************************************************************************)
(* For any number of executors and any requests: what DBConnection commits *)
(* is whole, and an answer of success is true.  Where no two executors     *)
(* bind parameters of one command, it implements DBManagerInterface.       *)
(***************************************************************************)
EXTENDS DBConnection, FiniteSetTheorems, TLAPS

\* What an executor handles at each step, and what InsertNewVersion has left.
HandlerInv ==
  \A e \in Executors :
    /\ step[e] # "idle" => req[e] \in Requests
    /\ step[e] = "userid" => req[e].op \in {"register", "commit"}
    /\ step[e] \in {"version", "files"} => req[e].op = "commit"
    /\ step[e] \in {"bindSalt", "salt", "verify", "unknown"} => req[e].op \in {"login", "last"}
    /\ step[e] \in {"bindName", "bindRest", "insert"} => req[e].op = "register"
    /\ step[e] \in {"bindLast", "last", "close"} => req[e].op = "last"
    /\ step[e] \in {"begin", "userid", "version"} => todo[e] = req[e].files
    /\ step[e] = "commit" /\ req[e].op = "commit" => todo[e] = {}

\* The rows an executor has inserted and not committed.
Inserting(e) == req[e].op = "commit" /\ step[e] \in {"files", "commit"}
Inserted(e) ==
  {VersionRow(req[e])} \cup {<<req[e].user, req[e].ver, f>> : f \in req[e].files \ todo[e]}

\* Who is inside a transaction has begun the one that is open; it has inserted
\* what that executor has, and nothing of it was in the tables before.
TransactionInv ==
  /\ \A e \in Executors : step[e] \in InTransaction => owner = e
  /\ \A e \in Executors : Inserting(e) => pending = Inserted(e)
  /\ (\A e \in Executors : ~ Inserting(e)) => pending = {}
  /\ server = "up" =>
       \A e \in Executors : Inserting(e) => VersionRow(req[e]) \notin rows

\* A login on its way to an answer of success has found its row.
LoginInv ==
  \A e \in Executors :
    step[e] = "commit" /\ req[e].op = "login" => <<req[e].user, req[e].pass>> \in accounts

IInv == /\ TypeOK /\ HandlerInv /\ TransactionInv /\ LoginInv
        /\ CommitIsWhole /\ SuccessIsReal

------------------------------------------------------------------------------
(* The type invariant.                                                     *)

\* The rows of a request are rows.
LEMMA RowsAreTyped ==
  ASSUME NEW r \in Requests
  PROVE  /\ VersionRow(r) \in UNION {RowsOf(s) : s \in Requests}
         /\ \A f \in r.files : <<r.user, r.ver, f>> \in UNION {RowsOf(s) : s \in Requests}
BY DEF RowsOf, FileRows

LEMMA TypeOKStep ==
  ASSUME TypeOK, HandlerInv, TransactionInv, NEW e \in Executors, Executor(e)
  PROVE  TypeOK'
<1> USE FaultsAssumption DEF TypeOK, At, GoTo, vars, database, transaction, locals
<1>1. CASE Receive(e)
  BY <1>1 DEF Receive, Steps, InTransaction, Commands
<1>2. CASE BeginTransaction(e)
  BY <1>2 DEF BeginTransaction, Uncaught, Steps, InTransaction, Commands
<1>3. CASE GetUserID(e)
  BY <1>3 DEF GetUserID, Uncaught, Fault, Steps, InTransaction, Commands
<1>4. CASE Commit(e)
  <2>1. step' \in [Executors -> Steps]
    BY <1>4
    DEF Commit, UserChecked, Verified, Reply, Uncaught, Steps, InTransaction
  <2>2. rows' \subseteq UNION {RowsOf(r) : r \in Requests}
    BY <1>4 DEF Commit
  <2>3. UNCHANGED transaction \/ Rollback
    BY <1>4 DEF Commit
  <2>4. faults' \in 0..MaxFaults
    <3>1. UNCHANGED faults \/ Fault
      BY <1>4 DEF Commit
    <3> QED
      BY <3>1, MaxFaults \in Nat DEF Fault
  <2>5. server' \in {"up", "uncaught"}
    BY <1>4 DEF Commit, Uncaught
  <2>6. UNCHANGED <<taken, req, reader, params, todo>>
    BY <1>4 DEF Commit
  <2> QED
    BY <2>1, <2>2, <2>3, <2>4, <2>5, <2>6 DEF Rollback
<1>5. CASE BindSalt(e)
  BY <1>5 DEF BindSalt, Bind, Steps, InTransaction, Commands
<1>6. CASE SelectSalt(e)
  BY <1>6 DEF SelectSalt, Clear, Rollback, Throws, Reply, Fault, Steps, InTransaction, Commands
<1>7. CASE UnknownUser(e)
  BY <1>7 DEF UnknownUser, Clear, Throws, Reply, Steps, InTransaction, Commands
<1>8. CASE VerifyCredential(e)
  BY <1>8 DEF VerifyCredential, Rollback, Throws, Reply, Fault, Steps, InTransaction, Commands
<1>9. CASE InsertVersionRow(e)
  <2>1. req[e] \in Requests /\ todo[e] \subseteq req[e].files
    BY <1>9 DEF HandlerInv, InsertVersionRow
  <2>2. step' \in [Executors -> Steps] /\ faults' \in 0..MaxFaults
    BY <1>9 DEF InsertVersionRow, Insert, NextRow, Throws, Reply, Fault, Steps, InTransaction
  <2>3. pending' \subseteq UNION {RowsOf(r) : r \in Requests}
    BY <1>9, <2>1, RowsAreTyped DEF InsertVersionRow, Insert, Rollback
  <2>4. owner' \in Executors \cup {Nobody} /\ (pending' # {} => owner' # Nobody)
        /\ (reader' # Nobody => owner' = Nobody)
    BY <1>9, <2>1, NobodyAssumption DEF InsertVersionRow, Insert, Rollback, TransactionInv, InTransaction
  <2> QED
    BY <1>9, <2>2, <2>3, <2>4 DEF InsertVersionRow, Steps, InTransaction
<1>10. CASE InsertFileRow(e)
  <2>1. req[e] \in Requests /\ todo[e] \subseteq req[e].files
    BY <1>10 DEF HandlerInv, InsertFileRow
  <2>2. step' \in [Executors -> Steps] /\ faults' \in 0..MaxFaults
    BY <1>10 DEF InsertFileRow, Insert, NextRow, Throws, Reply, Fault, Steps, InTransaction
  <2>3. pending' \subseteq UNION {RowsOf(r) : r \in Requests}
    BY <1>10, <2>1, RowsAreTyped DEF InsertFileRow, Insert, Rollback
  <2>4. owner' \in Executors \cup {Nobody} /\ (pending' # {} => owner' # Nobody)
        /\ (reader' # Nobody => owner' = Nobody)
    BY <1>10, <2>1, NobodyAssumption DEF InsertFileRow, Insert, Rollback, TransactionInv, InTransaction
  <2> QED
    BY <1>10, <2>2, <2>3, <2>4 DEF InsertFileRow, Steps, InTransaction
<1>11. CASE BindName(e)
  BY <1>11 DEF BindName, Bind, Steps, InTransaction, Commands
<1>12. CASE BindRest(e)
  BY <1>12 DEF BindRest, Bind, Throws, Reply, Fault, Steps, InTransaction, Commands
<1>13. CASE InsertUser(e)
  BY <1>13 DEF InsertUser, Clear, Throws, Reply, Fault, CanInsertUser, Steps, InTransaction, Commands
<1>14. CASE BindLast(e)
  BY <1>14 DEF BindLast, Bind, Steps, InTransaction, Commands
<1>15. CASE SelectLast(e)
  BY <1>15 DEF SelectLast, CanSelectLast, Clear, Throws, Reply, Fault, Steps, InTransaction, Commands
<1>16. CASE CloseReader(e)
  BY <1>16 DEF CloseReader, Clear, Reply, Steps, InTransaction, Commands
<1> QED
  BY <1>1, <1>2, <1>3, <1>4, <1>5, <1>6, <1>7, <1>8, <1>9, <1>10, <1>11, <1>12, <1>13, <1>14, <1>15, <1>16 DEF Executor

------------------------------------------------------------------------------
(* The handlers.                                                           *)

LEMMA HandlerInvStep ==
  ASSUME TypeOK, HandlerInv, NEW e \in Executors, Executor(e)
  PROVE  HandlerInv'
<1> step \in [Executors -> Steps] /\ req \in [Executors -> Requests \cup {NoRequest}]
    /\ DOMAIN todo = Executors
  BY DEF TypeOK
<1> USE DEF HandlerInv, At, GoTo, vars, database, transaction, locals
<1>1. CASE Receive(e)
  BY <1>1 DEF Receive
<1>2. CASE BeginTransaction(e)
  BY <1>2, RequestsAssumption DEF BeginTransaction, Uncaught
<1>3. CASE GetUserID(e)
  BY <1>3 DEF GetUserID, Uncaught, Fault
<1>4. CASE Commit(e)
  BY <1>4 DEF Commit, Rollback, UserChecked, Verified, Reply, Fault, Uncaught
<1>5. CASE BindSalt(e)
  BY <1>5 DEF BindSalt, Bind
<1>6. CASE SelectSalt(e)
  BY <1>6 DEF SelectSalt, Clear, Rollback, Throws, Reply, Fault
<1>7. CASE UnknownUser(e)
  BY <1>7 DEF UnknownUser, Clear, Throws, Reply
<1>8. CASE VerifyCredential(e)
  BY <1>8 DEF VerifyCredential, Rollback, Throws, Reply, Fault
<1>9. CASE InsertVersionRow(e)
  BY <1>9 DEF InsertVersionRow, Insert, NextRow, Rollback, Throws, Reply, Fault
<1>10. CASE InsertFileRow(e)
  BY <1>10 DEF InsertFileRow, Insert, NextRow, Rollback, Throws, Reply, Fault
<1>11. CASE BindName(e)
  BY <1>11 DEF BindName, Bind
<1>12. CASE BindRest(e)
  BY <1>12 DEF BindRest, Bind, Throws, Reply, Fault
<1>13. CASE InsertUser(e)
  BY <1>13 DEF InsertUser, Clear, Throws, Reply, Fault, CanInsertUser
<1>14. CASE BindLast(e)
  BY <1>14 DEF BindLast, Bind
<1>15. CASE SelectLast(e)
  BY <1>15 DEF SelectLast, CanSelectLast, Clear, Throws, Reply, Fault
<1>16. CASE CloseReader(e)
  BY <1>16 DEF CloseReader, Clear, Reply
<1> QED
  BY <1>1, <1>2, <1>3, <1>4, <1>5, <1>6, <1>7, <1>8, <1>9, <1>10, <1>11, <1>12, <1>13, <1>14, <1>15, <1>16 DEF Executor

LEMMA LoginInvStep ==
  ASSUME TypeOK, HandlerInv, LoginInv, NEW e \in Executors, Executor(e)
  PROVE  LoginInv'
<1> step \in [Executors -> Steps] /\ req \in [Executors -> Requests \cup {NoRequest}]
  BY DEF TypeOK
<1> USE DEF HandlerInv, LoginInv, At, GoTo, vars, database, transaction, locals
<1>1. CASE Receive(e)
  BY <1>1 DEF Receive
<1>2. CASE BeginTransaction(e)
  BY <1>2 DEF BeginTransaction, Uncaught
<1>3. CASE GetUserID(e)
  BY <1>3 DEF GetUserID, Uncaught, Fault
<1>4. CASE Commit(e)
  BY <1>4 DEF Commit, Rollback, UserChecked, Verified, Reply, Fault, Uncaught
<1>5. CASE BindSalt(e)
  BY <1>5 DEF BindSalt, Bind
<1>6. CASE SelectSalt(e)
  BY <1>6 DEF SelectSalt, Clear, Rollback, Throws, Reply, Fault
<1>7. CASE UnknownUser(e)
  BY <1>7 DEF UnknownUser, Clear, Throws, Reply
<1>8. CASE VerifyCredential(e)
  BY <1>8 DEF Matches, VerifyCredential, Rollback, Throws, Reply, Fault
<1>9. CASE InsertVersionRow(e)
  BY <1>9 DEF InsertVersionRow, Insert, NextRow, Rollback, Throws, Reply, Fault
<1>10. CASE InsertFileRow(e)
  BY <1>10 DEF InsertFileRow, Insert, NextRow, Rollback, Throws, Reply, Fault
<1>11. CASE BindName(e)
  BY <1>11 DEF BindName, Bind
<1>12. CASE BindRest(e)
  BY <1>12 DEF BindRest, Bind, Throws, Reply, Fault
<1>13. CASE InsertUser(e)
  BY <1>13 DEF InsertUser, Clear, Throws, Reply, Fault, CanInsertUser
<1>14. CASE BindLast(e)
  BY <1>14 DEF BindLast, Bind
<1>15. CASE SelectLast(e)
  BY <1>15 DEF SelectLast, CanSelectLast, Clear, Throws, Reply, Fault
<1>16. CASE CloseReader(e)
  BY <1>16 DEF CloseReader, Clear, Reply
<1> QED
  BY <1>1, <1>2, <1>3, <1>4, <1>5, <1>6, <1>7, <1>8, <1>9, <1>10, <1>11, <1>12, <1>13, <1>14, <1>15, <1>16 DEF Executor

------------------------------------------------------------------------------
(* The transaction.                                                        *)

LEMMA TransactionInvStep ==
  ASSUME TypeOK, HandlerInv, TransactionInv, NEW e \in Executors, Executor(e)
  PROVE  TransactionInv'
<1> step \in [Executors -> Steps] /\ req \in [Executors -> Requests \cup {NoRequest}]
    /\ DOMAIN todo = Executors
  BY DEF TypeOK
<1> USE NobodyAssumption DEF HandlerInv, TransactionInv, Inserting, Inserted, InTransaction, At, GoTo, vars, database, transaction, locals
<1>1. CASE Receive(e)
  BY <1>1 DEF Receive
<1>2. CASE BeginTransaction(e)
  BY <1>2 DEF BeginTransaction, Uncaught
<1>3. CASE GetUserID(e)
  BY <1>3 DEF GetUserID, Uncaught, Fault
<1>4. CASE Commit(e)
  BY <1>4 DEF Commit, Rollback, UserChecked, Verified, Reply, Fault, Uncaught
<1>5. CASE BindSalt(e)
  BY <1>5 DEF BindSalt, Bind
<1>6. CASE SelectSalt(e)
  BY <1>6 DEF SelectSalt, Clear, Rollback, Throws, Reply, Fault
<1>7. CASE UnknownUser(e)
  BY <1>7 DEF UnknownUser, Clear, Throws, Reply
<1>8. CASE VerifyCredential(e)
  BY <1>8 DEF VerifyCredential, Rollback, Throws, Reply, Fault
<1>9. CASE InsertVersionRow(e)
  BY <1>9 DEF InsertVersionRow, Insert, NextRow, Rollback, Throws, Reply, Fault
<1>10. CASE InsertFileRow(e)
  <2>1. /\ step[e] = "files" /\ req[e].op = "commit" /\ server = "up"
        /\ \A x \in Executors : x # e => step[x] \notin InTransaction
        /\ UNCHANGED <<server, req, rows>>
    BY <1>10 DEF InsertFileRow
  <2>2. PICK f \in todo[e] :
          /\ todo' = [todo EXCEPT ![e] = @ \ {f}]
          /\ Insert(e, <<req[e].user, req[e].ver, f>>, NextRow(todo[e] \ {f}))
    BY <1>10 DEF InsertFileRow
  <2>3. CASE /\ pending' = pending \cup {<<req[e].user, req[e].ver, f>>}
             /\ GoTo(e, NextRow(todo[e] \ {f}))
             /\ UNCHANGED owner
    <3>1. step'[e] \in {"files", "commit"}
      BY <2>3 DEF NextRow
    <3>2. Inserted(e)' = Inserted(e) \cup {<<req[e].user, req[e].ver, f>>}
      BY <2>1, <2>2, TypeOK DEF TypeOK, VersionRow
    <3>3. pending' = Inserted(e)'
      BY <2>1, <2>3, <3>2
    <3>4. \A x \in Executors : x # e => step'[x] \notin InTransaction
      BY <2>1, <2>3
    <3>5. owner' = e
      BY <2>1, <2>3
    <3> HIDE DEF Inserted
    <3> QED
      BY <2>1, <3>1, <3>3, <3>4, <3>5
  <2>4. CASE Rollback /\ Throws(e)
    BY <2>1, <2>4 DEF Rollback, Throws, Reply
  <2> QED
    BY <2>2, <2>3, <2>4 DEF Insert
<1>11. CASE BindName(e)
  BY <1>11 DEF BindName, Bind
<1>12. CASE BindRest(e)
  BY <1>12 DEF BindRest, Bind, Throws, Reply, Fault
<1>13. CASE InsertUser(e)
  BY <1>13 DEF InsertUser, Clear, Throws, Reply, Fault, CanInsertUser
<1>14. CASE BindLast(e)
  BY <1>14 DEF BindLast, Bind
<1>15. CASE SelectLast(e)
  BY <1>15 DEF SelectLast, CanSelectLast, Clear, Throws, Reply, Fault
<1>16. CASE CloseReader(e)
  BY <1>16 DEF CloseReader, Clear, Reply
<1> QED
  BY <1>1, <1>2, <1>3, <1>4, <1>5, <1>6, <1>7, <1>8, <1>9, <1>10, <1>11, <1>12, <1>13, <1>14, <1>15, <1>16 DEF Executor

------------------------------------------------------------------------------
(* The tables and the answers.                                             *)

\* A version whose row was not there is added whole and touches no other.
LEMMA WholeVersionAdded ==
  ASSUME CommitIsWhole, NEW r \in Requests, r.op = "commit",
         VersionRow(r) \notin rows, rows' = rows \cup RowsOf(r)
  PROVE  /\ OfVersion(VersionRow(r))' = RowsOf(r)
         /\ \A x \in rows : OfVersion(x)' = OfVersion(x)
         /\ CommitIsWhole'
<1>1. \A y \in RowsOf(r) : y[1] = r.user /\ y[2] = r.ver
  BY DEF RowsOf, VersionRow, FileRows
<1>2. ASSUME NEW x \in rows, x[1] = r.user, x[2] = r.ver
      PROVE  FALSE
  <2>1. PICK s \in Requests : OfVersion(x) = RowsOf(s)
    BY DEF CommitIsWhole
  <2>2. VersionRow(s) \in rows /\ s.user = x[1] /\ s.ver = x[2]
    BY <2>1 DEF OfVersion, RowsOf, VersionRow
  <2> QED
    BY <1>2, <2>2 DEF VersionRow
<1>3. \A x \in rows : OfVersion(x)' = OfVersion(x)
  BY <1>1, <1>2 DEF OfVersion
<1>4. ASSUME NEW x, x[1] = r.user, x[2] = r.ver
      PROVE  OfVersion(x)' = RowsOf(r)
  BY <1>1, <1>2, <1>4 DEF OfVersion
<1>5. OfVersion(VersionRow(r))' = RowsOf(r)
  BY <1>4 DEF VersionRow
<1>6. \A x \in rows' : \E s \in Requests : s.op = "commit" /\ OfVersion(x)' = RowsOf(s)
  BY <1>1, <1>3, <1>4 DEF CommitIsWhole
<1> QED
  BY <1>3, <1>5, <1>6 DEF CommitIsWhole

\* What a Commit brings into the tables.
LEMMA CommittedRows ==
  ASSUME TypeOK, HandlerInv, TransactionInv, NEW e \in Executors, Commit(e)
  PROVE  /\ req[e].op # "commit" => pending = {}
         /\ req[e].op = "commit" =>
              /\ req[e] \in Requests
              /\ VersionRow(req[e]) \notin rows
              /\ pending = RowsOf(req[e])
<1>1. step[e] = "commit" /\ server = "up" /\ req[e] \in Requests
  BY DEF Commit, At, HandlerInv
<1>2. CASE req[e].op = "commit"
  <2>1. Inserting(e) /\ todo[e] = {}
    BY <1>1, <1>2 DEF Inserting, HandlerInv
  <2> QED
    BY <1>1, <1>2, <2>1 DEF TransactionInv, Inserted, RowsOf, FileRows
<1>3. CASE req[e].op # "commit"
  <2>1. \A x \in Executors : ~ Inserting(x)
    BY <1>1, <1>3, NobodyAssumption DEF Inserting, TransactionInv, InTransaction
  <2> QED
    BY <1>3, <2>1 DEF TransactionInv
<1> QED
  BY <1>2, <1>3

\* The tables grow by whole versions.
LEMMA RowsStep ==
  ASSUME TypeOK, HandlerInv, TransactionInv, CommitIsWhole,
         NEW e \in Executors, Executor(e)
  PROVE  /\ CommitIsWhole'
         /\ \A x \in rows : x \in rows' /\ OfVersion(x)' = OfVersion(x)
<1>1. CASE UNCHANGED rows
  BY <1>1 DEF CommitIsWhole, OfVersion
<1>2. CASE Commit(e) /\ rows' = rows \cup pending
  BY <1>1, <1>2, CommittedRows, WholeVersionAdded
<1> QED
  BY <1>1, <1>2 DEF Executor, database, Receive, BeginTransaction, GetUserID, Commit, BindSalt, SelectSalt, UnknownUser, VerifyCredential, InsertVersionRow, InsertFileRow, BindName, BindRest, InsertUser, BindLast, SelectLast, CloseReader

\* A new answer of success comes from a login that has been verified, from a
\* version that is being committed, or from a request without such a promise.
Justified(e) ==
  \/ req[e].op \notin {"login", "commit"}
  \/ step[e] = "commit" /\ req[e].op = "login"
  \/ Commit(e) /\ req[e].op = "commit" /\ rows' = rows \cup pending

LEMMA RepliesStep ==
  ASSUME HandlerInv, NEW e \in Executors, Executor(e), NEW a \in replies'
  PROVE  a \in replies \/ (a.req = req[e] /\ (a.ok => Justified(e)))
<1> USE DEF HandlerInv, Justified, At, vars
<1>1. CASE Receive(e)
  BY <1>1 DEF Receive
<1>2. CASE BeginTransaction(e)
  BY <1>2 DEF BeginTransaction, Uncaught
<1>3. CASE GetUserID(e)
  BY <1>3 DEF GetUserID, Uncaught, Fault
<1>4. CASE Commit(e)
  BY <1>4 DEF Commit, Rollback, UserChecked, Verified, Reply, Fault, Uncaught
<1>5. CASE BindSalt(e)
  BY <1>5 DEF BindSalt, Bind
<1>6. CASE SelectSalt(e)
  BY <1>6 DEF SelectSalt, Clear, Rollback, Throws, Reply, Fault
<1>7. CASE UnknownUser(e)
  BY <1>7 DEF UnknownUser, Clear, Throws, Reply
<1>8. CASE VerifyCredential(e)
  BY <1>8 DEF VerifyCredential, Rollback, Throws, Reply, Fault
<1>9. CASE InsertVersionRow(e)
  BY <1>9 DEF InsertVersionRow, Insert, NextRow, Rollback, Throws, Reply, Fault
<1>10. CASE InsertFileRow(e)
  BY <1>10 DEF InsertFileRow, Insert, NextRow, Rollback, Throws, Reply, Fault
<1>11. CASE BindName(e)
  BY <1>11 DEF BindName, Bind
<1>12. CASE BindRest(e)
  BY <1>12 DEF BindRest, Bind, Throws, Reply, Fault
<1>13. CASE InsertUser(e)
  BY <1>13 DEF InsertUser, Clear, Throws, Reply, Fault, CanInsertUser
<1>14. CASE BindLast(e)
  BY <1>14 DEF BindLast, Bind
<1>15. CASE SelectLast(e)
  BY <1>15 DEF SelectLast, CanSelectLast, Clear, Throws, Reply, Fault
<1>16. CASE CloseReader(e)
  BY <1>16 DEF CloseReader, Clear, Reply
<1> QED
  BY <1>1, <1>2, <1>3, <1>4, <1>5, <1>6, <1>7, <1>8, <1>9, <1>10, <1>11, <1>12, <1>13, <1>14, <1>15, <1>16 DEF Executor

LEMMA AccountsGrow ==
  ASSUME NEW e \in Executors, Executor(e)
  PROVE  accounts \subseteq accounts'
BY DEF Executor, database, Receive, BeginTransaction, GetUserID, Commit, BindSalt, SelectSalt, UnknownUser, VerifyCredential, InsertVersionRow, InsertFileRow, BindName, BindRest, InsertUser, BindLast, SelectLast, CloseReader

LEMMA SuccessStep ==
  ASSUME IInv, NEW e \in Executors, Executor(e)
  PROVE  SuccessIsReal'
<1> SUFFICES ASSUME NEW a \in replies', a.ok
             PROVE  /\ a.req.op = "commit" => OfVersion(VersionRow(a.req))' = RowsOf(a.req)
                    /\ a.req.op = "login" => <<a.req.user, a.req.pass>> \in accounts'
  BY DEF SuccessIsReal
<1>1. CASE a \in replies
  <2>1. ASSUME a.req.op = "commit"
        PROVE  OfVersion(VersionRow(a.req))' = RowsOf(a.req)
    <3>1. OfVersion(VersionRow(a.req)) = RowsOf(a.req)
      BY <1>1, <2>1 DEF IInv, SuccessIsReal
    <3>2. VersionRow(a.req) \in rows
      BY <3>1 DEF OfVersion, RowsOf
    <3> QED
      BY <3>1, <3>2, RowsStep DEF IInv
  <2> QED
    BY <1>1, <2>1, AccountsGrow DEF IInv, SuccessIsReal
<1>2. CASE a.req = req[e] /\ Justified(e)
  <2>1. ASSUME a.req.op = "commit"
        PROVE  OfVersion(VersionRow(a.req))' = RowsOf(a.req)
    <3>1. Commit(e) /\ rows' = rows \cup pending
      BY <1>2, <2>1 DEF Justified
    <3>2. a.req \in Requests /\ VersionRow(a.req) \notin rows /\ pending = RowsOf(a.req)
      BY <1>2, <2>1, <3>1, CommittedRows DEF IInv
    <3> QED
      BY <2>1, <3>1, <3>2, WholeVersionAdded DEF IInv
  <2>2. ASSUME a.req.op = "login"
        PROVE  <<a.req.user, a.req.pass>> \in accounts'
    BY <1>2, <2>2, AccountsGrow DEF Justified, IInv, LoginInv
  <2> QED
    BY <2>1, <2>2
<1> QED
  BY <1>1, <1>2, RepliesStep DEF IInv

------------------------------------------------------------------------------
(* The theorems.                                                           *)

LEMMA IInvInit == Init => IInv
<1> SUFFICES ASSUME Init PROVE IInv
  OBVIOUS
<1> USE DEF Init
<1>1. TypeOK
  BY FaultsAssumption DEF TypeOK, Steps, NoRequest
<1>2. HandlerInv /\ LoginInv
  BY DEF HandlerInv, LoginInv
<1>3. TransactionInv
  BY DEF TransactionInv, Inserting, InTransaction
<1> QED
  BY <1>1, <1>2, <1>3 DEF IInv, CommitIsWhole, SuccessIsReal

LEMMA IInvRestart ==
  ASSUME IInv, Restart
  PROVE  IInv'
<1> USE DEF Restart, Rollback, locals, database
<1>1. TypeOK'
  BY DEF IInv, TypeOK, Steps
<1>2. HandlerInv' /\ LoginInv'
  BY DEF HandlerInv, LoginInv
<1>3. TransactionInv'
  BY DEF TransactionInv, Inserting, InTransaction
<1>4. CommitIsWhole' /\ SuccessIsReal'
  BY DEF IInv, CommitIsWhole, SuccessIsReal, OfVersion
<1> QED
  BY <1>1, <1>2, <1>3, <1>4 DEF IInv

LEMMA IInvStep ==
  ASSUME IInv, [Next]_vars
  PROVE  IInv'
<1>1. ASSUME NEW e \in Executors, Executor(e)
      PROVE  IInv'
  BY <1>1, TypeOKStep, HandlerInvStep, TransactionInvStep, LoginInvStep,
     RowsStep, SuccessStep DEF IInv
<1>2. CASE UNCHANGED vars
  BY <1>2 DEF vars, IInv, TypeOK, HandlerInv, TransactionInv, Inserting, Inserted,
              LoginInv, CommitIsWhole, SuccessIsReal, OfVersion
<1> QED
  BY <1>1, <1>2, IInvRestart DEF Next

\* The inductive invariant holds in every behaviour of DBConnection.
THEOREM Inductive == Spec => []IInv
BY IInvInit, IInvStep, PTL DEF Spec

\* Every variable keeps its type: among others, no row is pending without an
\* open transaction, and no reader is open during one (TDBManagerMSDE).
THEOREM TypeCorrect == Spec => []TypeOK
<1>1. IInv => TypeOK
  BY DEF IInv
<1> QED
  BY <1>1, Inductive, PTL

\* InsertNewVersion: what any executor commits is one request's version, whole,
\* whatever the others do on the connection and wherever statements fail.
THEOREM CommitsAreWhole == Spec => []CommitIsWhole
<1>1. IInv => CommitIsWhole
  BY DEF IInv
<1> QED
  BY <1>1, Inductive, PTL

\* A commit or a login that is answered with success has happened: the version
\* is in the tables, the password is the stored one (processUpdateStop,
\* processVerifyCred).
THEOREM SuccessesAreReal == Spec => []SuccessIsReal
<1>1. IInv => SuccessIsReal
  BY DEF IInv
<1> QED
  BY <1>1, Inductive, PTL

------------------------------------------------------------------------------
(* The refinement of DBManagerInterface.                                   *)

\* Only one executor at a time registers a user, and only one asks for the last
\* version: the commands of these calls are shared.
OneAtATime ==
  \/ \A d, e \in Executors : d = e
  \/ \A r, s \in Requests : r.op = s.op /\ r.op \in {"register", "last"} => r = s

\* A registration and a commit are named by what they store.
DistinctRequests ==
  /\ \A r, s \in Requests :
       r.op = "register" /\ s.op = "register" /\ r.user = s.user /\ r.pass = s.pass => r = s
  /\ \A r, s \in Requests :
       r.op = "commit" /\ s.op = "commit" /\ RowsOf(r) = RowsOf(s) => r = s

Answered(r) == \E a \in replies : a.req = r
Busy(e) == step[e] # "idle"

\* A request is handled by one executor, once, and answered by it.
TakenInv ==
  /\ \A e \in Executors : Busy(e) => req[e] \in taken /\ ~ Answered(req[e])
  /\ \A d, e \in Executors : Busy(d) /\ Busy(e) /\ req[d] = req[e] => d = e
  /\ \A a \in replies : a.req \in taken

\* A request that is handled is not stored yet.
FreshInv ==
  /\ Stored \subseteq taken
  /\ server = "up" => \A e \in Executors : Busy(e) => req[e] \notin Stored

\* Accounts come from registrations, and credentials have been verified before
\* they count.
KnownInv ==
  /\ \A a \in accounts : \E r \in Requests : r.op = "register" /\ a = <<r.user, r.pass>>
  /\ \A e \in Executors :
       \/ step[e] = "commit" /\ req[e].op \in {"login", "last"}
       \/ step[e] \in {"bindLast", "last", "close"}
       => <<req[e].user, req[e].pass>> \in accounts

Values == {r.user : r \in Requests} \cup {r.pass : r \in Requests}
NameBound(c, u) ==
  LET p == params[c] IN Len(p) >= 1 /\ p[Len(p)] = <<"username", u>>
PasswordBound(r) ==
  LET p == params["InsertUser"] IN
  /\ Len(p) >= 2
  /\ p[Len(p) - 1] = <<"username", r.user>>
  /\ p[Len(p)] = <<"password", r.pass>>

\* The last parameters of a command are those of the executor that runs it.
ParamsInv ==
  /\ \A c \in Commands : params[c] \in Seq({"username", "password"} \X Values)
  /\ \A e \in Executors :
       /\ step[e] = "bindRest" => NameBound("InsertUser", req[e].user)
       /\ step[e] = "insert" => PasswordBound(req[e])
       /\ step[e] = "last" => NameBound("SelectLast", req[e].user)

\* The versions of a user have a last one.
NumberInv ==
  /\ \A u : Committed(u) \subseteq Nat
  /\ \A u : \E n \in {0} \cup Committed(u) : \A m \in Committed(u) : m <= n

\* Nothing is committed between the query for the last version and its answer.
ReaderInv ==
  /\ DOMAIN found = Executors
  /\ \A e \in Executors :
       step[e] = "close" => reader = e /\ found[e] = LastVersion(req[e].user)

InterfaceInv == /\ IInv /\ TakenInv /\ FreshInv /\ KnownInv
                /\ ParamsInv /\ NumberInv /\ ReaderInv

\* What the steps of an executor have in common.
LEMMA ExecutorStep ==
  ASSUME TypeOK, NEW e \in Executors, Executor(e)
  PROVE  /\ server = "up"
         /\ Receive(e) \/ (Busy(e) /\ UNCHANGED <<taken, req>>)
         /\ \A x \in Executors : x # e => step'[x] = step[x] /\ req'[x] = req[x]
         /\ UNCHANGED replies \/ \E ok, last : Reply(e, ok, last)
<1> step \in [Executors -> Steps] /\ req \in [Executors -> Requests \cup {NoRequest}]
  BY DEF TypeOK
<1> USE DEF At, GoTo, Busy, vars, database, transaction, locals
<1>1. CASE Receive(e)
  BY <1>1 DEF Receive
<1>2. CASE BeginTransaction(e)
  BY <1>2 DEF BeginTransaction, Uncaught
<1>3. CASE GetUserID(e)
  BY <1>3 DEF GetUserID, Uncaught, Fault
<1>4. CASE Commit(e)
  BY <1>4 DEF Commit, Rollback, UserChecked, Verified, Reply, Fault, Uncaught
<1>5. CASE BindSalt(e)
  BY <1>5 DEF BindSalt, Bind
<1>6. CASE SelectSalt(e)
  BY <1>6 DEF SelectSalt, Clear, Rollback, Throws, Reply, Fault
<1>7. CASE UnknownUser(e)
  BY <1>7 DEF UnknownUser, Clear, Throws, Reply
<1>8. CASE VerifyCredential(e)
  BY <1>8 DEF VerifyCredential, Rollback, Throws, Reply, Fault
<1>9. CASE InsertVersionRow(e)
  BY <1>9 DEF InsertVersionRow, Insert, Rollback, Throws, Reply, Fault
<1>10. CASE InsertFileRow(e)
  BY <1>10 DEF InsertFileRow, Insert, Rollback, Throws, Reply, Fault
<1>11. CASE BindName(e)
  BY <1>11 DEF BindName, Bind
<1>12. CASE BindRest(e)
  BY <1>12 DEF BindRest, Bind, Throws, Reply, Fault
<1>13. CASE InsertUser(e)
  BY <1>13 DEF InsertUser, Throws, Reply, Fault
<1>14. CASE BindLast(e)
  BY <1>14 DEF BindLast, Bind
<1>15. CASE SelectLast(e)
  BY <1>15 DEF SelectLast, Clear, Throws, Reply, Fault
<1>16. CASE CloseReader(e)
  BY <1>16 DEF CloseReader, Clear, Reply
<1> QED
  BY <1>1, <1>2, <1>3, <1>4, <1>5, <1>6, <1>7, <1>8, <1>9, <1>10, <1>11, <1>12, <1>13, <1>14, <1>15, <1>16 DEF Executor

LEMMA TakenStep ==
  ASSUME TypeOK, TakenInv, NEW e \in Executors, Executor(e)
  PROVE  TakenInv'
<1> step \in [Executors -> Steps] /\ req \in [Executors -> Requests \cup {NoRequest}]
  BY DEF TypeOK
<1>1. CASE Receive(e)
  BY <1>1 DEF Receive, TakenInv, Answered, Busy, At, GoTo
<1>2. CASE Busy(e) /\ UNCHANGED <<taken, req, replies>>
  BY <1>2, ExecutorStep DEF TakenInv, Answered, Busy
<1>3. ASSUME Busy(e), UNCHANGED <<taken, req>>, NEW ok, NEW last, Reply(e, ok, last)
      PROVE  TakenInv'
  <2>1. step'[e] = "idle" /\ replies' = replies \cup {[req |-> req[e], ok |-> ok, last |-> last]}
    BY <1>3 DEF Reply, GoTo
  <2>2. \A r : Answered(r)' => Answered(r) \/ r = req[e]
    BY <2>1 DEF Answered
  <2>3. \A x \in Executors : Busy(x)' => x # e /\ Busy(x)
    BY <2>1, ExecutorStep DEF Busy
  <2>4. \A a \in replies' : a.req \in taken'
    BY <1>3, <2>1 DEF TakenInv
  <2> QED
    BY <1>3, <2>2, <2>3, <2>4 DEF TakenInv
<1> QED
  BY <1>1, <1>2, <1>3, ExecutorStep

\* Two executors never share the command of a registration or of a query.
LEMMA OneTurn ==
  ASSUME OneAtATime, HandlerInv, TakenInv,
         NEW d \in Executors, NEW e \in Executors, Busy(d), Busy(e),
         req[d].op = req[e].op, req[d].op \in {"register", "last"}
  PROVE  d = e
BY DEF OneAtATime, HandlerInv, TakenInv, Busy

------------------------------------------------------------------------------
(* The shared commands.                                                    *)

ParamsTyped == \A c \in Commands : params[c] \in Seq({"username", "password"} \X Values)

LEMMA BindAppends ==
  ASSUME TypeOK, ParamsTyped, NEW c \in Commands, NEW name \in {"username", "password"},
         NEW value \in Values, Bind(c, name, value)
  PROVE  /\ ParamsTyped'
         /\ Len(params'[c]) = Len(params[c]) + 1
         /\ params'[c][Len(params'[c])] = <<name, value>>
         /\ Len(params[c]) >= 1 => params'[c][Len(params'[c]) - 1] = params[c][Len(params[c])]
         /\ \A d \in Commands : d # c => params'[d] = params[d]
<1> DEFINE Pairs == {"username", "password"} \X Values
<1>1. params[c] \in Seq(Pairs) /\ <<name, value>> \in Pairs
  BY DEF ParamsTyped
<1>2. /\ params'[c] = Append(params[c], <<name, value>>)
      /\ \A d \in Commands : d # c => params'[d] = params[d]
  BY DEF TypeOK, Bind
<1> HIDE DEF Pairs
<1>3. /\ Append(params[c], <<name, value>>) \in Seq(Pairs)
      /\ Len(Append(params[c], <<name, value>>)) = Len(params[c]) + 1
      /\ Append(params[c], <<name, value>>)[Len(params[c]) + 1] = <<name, value>>
      /\ \A i \in 1..Len(params[c]) : Append(params[c], <<name, value>>)[i] = params[c][i]
      /\ Len(params[c]) \in Nat
  BY <1>1
<1>4. ParamsTyped'
  BY <1>2, <1>3 DEF ParamsTyped, Pairs
<1> QED
  BY <1>2, <1>3, <1>4

LEMMA ClearEmpties ==
  ASSUME TypeOK, ParamsTyped, NEW c \in Commands, Clear(c)
  PROVE  ParamsTyped' /\ \A d \in Commands : d # c => params'[d] = params[d]
BY DEF TypeOK, ParamsTyped, Clear

\* Where the parameters of a command stand when no other executor uses it.
Registering(x) == step[x] \in {"bindName", "bindRest", "insert"}
Querying(x) == step[x] \in {"bindLast", "last", "close"}

LEMMA CommandsHaveOneUser ==
  ASSUME OneAtATime, HandlerInv, TakenInv, NEW d \in Executors, NEW e \in Executors
  PROVE  /\ Registering(d) /\ Registering(e) => d = e
         /\ Querying(d) /\ Querying(e) => d = e
BY OneTurn DEF Registering, Querying, HandlerInv, Busy

LEMMA ParamsStep ==
  ASSUME OneAtATime, TypeOK, HandlerInv, TakenInv, ParamsInv, NEW e \in Executors, Executor(e)
  PROVE  ParamsInv'
<1>0. /\ step \in [Executors -> Steps] /\ DOMAIN params = Commands
      /\ ParamsTyped
      /\ Busy(e) => req[e] \in Requests /\ req[e].user \in Values /\ req[e].pass \in Values
  BY DEF TypeOK, ParamsTyped, ParamsInv, HandlerInv, Busy, Values
<1>00. \A x \in Executors : x # e => step'[x] = step[x] /\ req'[x] = req[x]
  BY ExecutorStep
<1> USE DEF At, GoTo, Commands, vars, database, transaction, locals
<1>1. CASE UNCHANGED params /\ step'[e] \notin {"bindRest", "insert", "last"}
  BY <1>1, <1>00 DEF ParamsInv, NameBound, PasswordBound
<1>2. CASE /\ ParamsTyped'
           /\ params'["InsertUser"] = params["InsertUser"]
           /\ params'["SelectLast"] = params["SelectLast"]
           /\ step'[e] \notin {"bindRest", "insert", "last"}
  BY <1>2, <1>00 DEF ParamsInv, NameBound, PasswordBound, ParamsTyped
<1>3. CASE /\ ParamsTyped'
           /\ Registering(e)
           /\ params'["SelectLast"] = params["SelectLast"]
           /\ step'[e] = "bindRest" => NameBound("InsertUser", req[e].user)'
           /\ step'[e] = "insert" => PasswordBound(req[e])'
           /\ req'[e] = req[e]
           /\ step'[e] # "last"
  BY <1>3, <1>00, CommandsHaveOneUser DEF ParamsInv, NameBound, PasswordBound, ParamsTyped, Registering
<1>4. CASE /\ ParamsTyped'
           /\ Querying(e)
           /\ params'["InsertUser"] = params["InsertUser"]
           /\ step'[e] = "last" => NameBound("SelectLast", req[e].user)'
           /\ req'[e] = req[e]
           /\ step'[e] \notin {"bindRest", "insert"}
  BY <1>4, <1>00, CommandsHaveOneUser DEF ParamsInv, NameBound, PasswordBound, ParamsTyped, Querying
<1>5. CASE Receive(e) \/ BeginTransaction(e) \/ GetUserID(e)
  BY <1>0, <1>1, <1>5 DEF Receive, BeginTransaction, GetUserID, Uncaught
<1>6. CASE Commit(e)
  BY <1>0, <1>1, <1>6 DEF Commit, UserChecked, Verified, Reply, Uncaught
<1>7. CASE BindSalt(e)
  <2>1. Bind("SelectSalt", "username", req[e].user) /\ step'[e] = "salt" /\ Busy(e)
    BY <1>0, <1>7 DEF BindSalt, Busy
  <2> QED
    BY <2>1, <1>0, <1>2, BindAppends
<1>8. CASE SelectSalt(e) \/ UnknownUser(e)
  <2>1. UNCHANGED params \/ Clear("SelectSalt")
    BY <1>8 DEF SelectSalt, UnknownUser
  <2>2. step'[e] \in {"verify", "unknown", "idle"}
    BY <1>0, <1>8 DEF SelectSalt, UnknownUser, Throws, Reply
  <2> QED
    BY <2>1, <2>2, <1>0, <1>1, <1>2, ClearEmpties
<1>9. CASE VerifyCredential(e)
  BY <1>0, <1>1, <1>9 DEF VerifyCredential, Throws, Reply
<1>10. CASE InsertVersionRow(e) \/ InsertFileRow(e)
  BY <1>0, <1>1, <1>10 DEF InsertVersionRow, InsertFileRow, Insert, NextRow, Throws, Reply
<1>11. CASE BindName(e)
  <2>1. /\ Bind("InsertUser", "username", req[e].user) /\ step'[e] = "bindRest"
        /\ Busy(e) /\ Registering(e) /\ req' = req
    BY <1>0, <1>11 DEF BindName, Busy, Registering
  <2>2. NameBound("InsertUser", req[e].user)'
    BY <2>1, <1>0, BindAppends DEF NameBound, ParamsTyped
  <2> QED
    BY <2>1, <2>2, <1>0, <1>3, BindAppends
<1>12. CASE BindRest(e)
  <2>1. Busy(e) /\ Registering(e) /\ req' = req /\ NameBound("InsertUser", req[e].user)
    BY <1>12 DEF BindRest, Busy, Registering, ParamsInv
  <2>2. CASE Bind("InsertUser", "password", req[e].pass) /\ GoTo(e, "insert")
    <3>1. PasswordBound(req[e])'
      BY <2>1, <2>2, <1>0, BindAppends DEF NameBound, PasswordBound, ParamsTyped
    <3> QED
      BY <2>1, <2>2, <3>1, <1>0, <1>3, BindAppends
  <2>3. CASE Throws(e) /\ UNCHANGED params
    BY <2>3, <1>0, <1>1 DEF Throws, Reply
  <2> QED
    BY <1>12, <2>2, <2>3 DEF BindRest
<1>13. CASE InsertUser(e)
  <2>1. Clear("InsertUser") /\ step'[e] = "idle" /\ Registering(e) /\ req' = req
    BY <1>0, <1>13 DEF InsertUser, Throws, Reply, Registering
  <2> QED
    BY <2>1, <1>0, <1>3, ClearEmpties
<1>14. CASE BindLast(e)
  <2>1. /\ Bind("SelectLast", "username", req[e].user) /\ step'[e] = "last"
        /\ Busy(e) /\ Querying(e) /\ req' = req
    BY <1>0, <1>14 DEF BindLast, Busy, Querying
  <2>2. NameBound("SelectLast", req[e].user)'
    BY <2>1, <1>0, BindAppends DEF NameBound, ParamsTyped
  <2> QED
    BY <2>1, <2>2, <1>0, <1>4, BindAppends
<1>15. CASE SelectLast(e)
  <2>1. Querying(e) /\ req' = req /\ step'[e] \in {"close", "idle"}
    BY <1>0, <1>15 DEF SelectLast, Querying, Throws, Reply
  <2>2. UNCHANGED params \/ Clear("SelectLast")
    BY <1>15 DEF SelectLast
  <2> QED
    BY <2>1, <2>2, <1>0, <1>1, <1>4, ClearEmpties
<1>16. CASE CloseReader(e)
  <2>1. Clear("SelectLast") /\ step'[e] = "idle" /\ Querying(e) /\ req' = req
    BY <1>0, <1>16 DEF CloseReader, Reply, Querying
  <2> QED
    BY <2>1, <1>0, <1>4, ClearEmpties
<1> QED
  BY <1>1, <1>5, <1>6, <1>7, <1>8, <1>9, <1>10, <1>11, <1>12, <1>13, <1>14, <1>15, <1>16 DEF Executor

\* What a command that is executed reads from its parameters.
LEMMA QueryReadsOwnName ==
  ASSUME ParamsInv, NEW e \in Executors, step[e] = "last", CanSelectLast
  PROVE  Value("SelectLast", "username") = req[e].user
<1>1. Cardinality({"username"}) = 1
  BY FS_Singleton
<1>2. Len(params["SelectLast"]) = 1 /\ params["SelectLast"][1] = <<"username", req[e].user>>
  BY <1>1 DEF CanSelectLast, Bound, ParamsInv, NameBound
<1>3. DOMAIN params["SelectLast"] = {1}
  BY <1>2 DEF ParamsInv, Commands
<1> QED
  BY <1>2, <1>3 DEF Value

LEMMA RegistrationReadsOwnParameters ==
  ASSUME ParamsInv, NEW e \in Executors, step[e] = "insert", CanInsertUser
  PROVE  /\ Value("InsertUser", "username") = req[e].user
         /\ Value("InsertUser", "password") = req[e].pass
<1>1. Cardinality({"username", "password"}) = 2
  <2>1. IsFiniteSet({"username"}) /\ Cardinality({"username"}) = 1
    BY FS_Singleton
  <2>2. Cardinality({"username"} \cup {"password"}) = 2
    BY <2>1, FS_AddElement
  <2>3. {"username"} \cup {"password"} = {"username", "password"}
    OBVIOUS
  <2> QED
    BY <2>2, <2>3
<1>2. /\ Len(params["InsertUser"]) = 2
      /\ params["InsertUser"][1] = <<"username", req[e].user>>
      /\ params["InsertUser"][2] = <<"password", req[e].pass>>
  BY <1>1 DEF CanInsertUser, Bound, ParamsInv, PasswordBound
<1>3. DOMAIN params["InsertUser"] = 1..2
  BY <1>2 DEF ParamsInv, Commands
<1>4. \A i \in 1..2 : /\ params["InsertUser"][i][1] = "username" <=> i = 1
                      /\ params["InsertUser"][i][1] = "password" <=> i = 2
  BY <1>2
<1> QED
  BY <1>2, <1>3, <1>4 DEF Value

------------------------------------------------------------------------------
(* What is stored.                                                         *)

\* A version's rows appear whole or not at all, so a commit is stored exactly
\* when its own rows were committed.
LEMMA StoredCommit ==
  ASSUME IInv, DistinctRequests, NEW r \in Requests, r.op = "commit",
         VersionRow(r) \notin rows, rows' = rows \cup RowsOf(r), accounts' = accounts
  PROVE  Stored' = Stored \cup {r}
<1>3. /\ OfVersion(VersionRow(r))' = RowsOf(r)
      /\ \A x \in rows : OfVersion(x)' = OfVersion(x)
  BY WholeVersionAdded DEF IInv
<1>4. \A x \in RowsOf(r) : x[1] = r.user /\ x[2] = r.ver
  BY DEF RowsOf, VersionRow, FileRows
<1>5. ASSUME NEW s \in Requests, s.op = "commit", s # r
      PROVE  (OfVersion(VersionRow(s)) = RowsOf(s)) <=> (OfVersion(VersionRow(s))' = RowsOf(s))
  <2>1. VersionRow(s) \in RowsOf(s) /\ VersionRow(s)[1] = s.user /\ VersionRow(s)[2] = s.ver
    BY DEF RowsOf, VersionRow
  <2>2. CASE VersionRow(s) \in rows
    BY <2>2, <1>3
  <2>3. CASE VersionRow(s) \notin rows /\ VersionRow(s) \in RowsOf(r)
    <3>1. VersionRow(s) = VersionRow(r)
      BY <2>1, <2>3, <1>4 DEF VersionRow
    <3>2. RowsOf(s) # RowsOf(r)
      BY <1>5 DEF DistinctRequests
    <3>3. VersionRow(s) \notin OfVersion(VersionRow(s))
      BY <2>3 DEF OfVersion
    <3> QED
      BY <3>1, <3>2, <3>3, <1>3, <2>1
  <2>4. CASE VersionRow(s) \notin rows /\ VersionRow(s) \notin RowsOf(r)
    BY <2>4, <2>1 DEF OfVersion
  <2> QED
    BY <2>2, <2>3, <2>4
<1>6. r \in Stored'
  BY <1>3 DEF Stored
<1>7. \A s \in Requests : s # r => (s \in Stored' <=> s \in Stored)
  BY <1>5 DEF Stored
<1>8. Stored \subseteq Requests /\ Stored' \subseteq Requests
  BY DEF Stored
<1> QED
  BY <1>6, <1>7, <1>8

LEMMA StoredRegistration ==
  ASSUME IInv, DistinctRequests, NEW r \in Requests, r.op = "register", rows' = rows,
         accounts' = accounts \cup {<<r.user, r.pass>>}
  PROVE  Stored' = Stored \cup {r}
<1>1. \A s \in Requests : OfVersion(VersionRow(s))' = OfVersion(VersionRow(s))
  BY DEF OfVersion
<1>2. \A s \in Requests : s.op = "register" /\ <<s.user, s.pass>> = <<r.user, r.pass>> => s = r
  BY DEF DistinctRequests
<1> QED
  BY <1>1, <1>2 DEF Stored

LEMMA StoredUnchanged ==
  ASSUME UNCHANGED database
  PROVE  Stored' = Stored
BY DEF Stored, OfVersion, database

\* The two steps that change a table, and what they store.
CommitsVersion(e) == Commit(e) /\ req[e].op = "commit" /\ rows' = rows \cup pending
Registers(e) ==
  /\ InsertUser(e)
  /\ Reply(e, TRUE, 0)
  /\ ~ Registered(req[e].user)
  /\ accounts' = accounts \cup {<<req[e].user, req[e].pass>>}

LEMMA DatabaseStep ==
  ASSUME IInv, ParamsInv, NEW e \in Executors, Executor(e)
  PROVE  UNCHANGED database \/ CommitsVersion(e) \/ Registers(e)
<1>1. CASE Commit(e)
  <2>1. rows' \in {rows, rows \cup pending} /\ accounts' = accounts
    BY <1>1 DEF Commit
  <2>2. req[e].op # "commit" => pending = {}
    BY <1>1, CommittedRows DEF IInv
  <2> QED
    BY <1>1, <2>1, <2>2 DEF CommitsVersion, database
<1>2. CASE InsertUser(e)
  <2>1. CASE accounts' = accounts
    BY <1>2, <2>1 DEF InsertUser, database
  <2>2. CASE /\ CanInsertUser
             /\ accounts' = accounts \cup
                  {<<Value("InsertUser", "username"), Value("InsertUser", "password")>>}
             /\ Reply(e, TRUE, 0)
    <3>1. step[e] = "insert"
      BY <1>2 DEF InsertUser, At
    <3> QED
      BY <1>2, <2>2, <3>1, RegistrationReadsOwnParameters DEF Registers, CanInsertUser
  <2> QED
    BY <1>2, <2>1, <2>2 DEF InsertUser
<1> QED
  BY <1>1, <1>2 DEF Executor, database, Receive, BeginTransaction, GetUserID, BindSalt, SelectSalt, UnknownUser, VerifyCredential, InsertVersionRow, InsertFileRow, BindName, BindRest, BindLast, SelectLast, CloseReader

LEMMA StoredStep ==
  ASSUME InterfaceInv, DistinctRequests, NEW e \in Executors, Executor(e)
  PROVE  /\ Stored' = Stored \/ Stored' = Stored \cup {req[e]}
         /\ UNCHANGED database => Stored' = Stored
         /\ CommitsVersion(e) \/ Registers(e) =>
              /\ Busy(e)
              /\ req[e] \in Requests
              /\ req[e].op = "register" <=> Registers(e)
              /\ req[e].op = "commit" <=> CommitsVersion(e)
              /\ Stored' = Stored \cup {req[e]}
<1>1. ASSUME Registers(e)
      PROVE  /\ Busy(e) /\ req[e] \in Requests /\ req[e].op = "register"
             /\ Stored' = Stored \cup {req[e]}
  <2>1. Busy(e) /\ req[e] \in Requests /\ req[e].op = "register" /\ rows' = rows
    BY <1>1 DEF Registers, InsertUser, At, Busy, InterfaceInv, IInv, HandlerInv
  <2>2. PICK r \in Requests : r = req[e]
    BY <2>1
  <2>3. Stored' = Stored \cup {r}
    BY <1>1, <2>1, <2>2, StoredRegistration DEF Registers, InterfaceInv
  <2> QED
    BY <2>1, <2>2, <2>3
<1>2. ASSUME CommitsVersion(e)
      PROVE  /\ Busy(e) /\ req[e] \in Requests /\ req[e].op = "commit"
             /\ Stored' = Stored \cup {req[e]}
  <2>1. /\ Busy(e) /\ req[e] \in Requests /\ req[e].op = "commit" /\ accounts' = accounts
        /\ VersionRow(req[e]) \notin rows /\ rows' = rows \cup RowsOf(req[e])
    BY <1>2, CommittedRows DEF CommitsVersion, Commit, At, Busy, InterfaceInv, IInv
  <2>2. PICK r \in Requests : r = req[e]
    BY <2>1
  <2>3. Stored' = Stored \cup {r}
    BY <2>1, <2>2, StoredCommit DEF InterfaceInv
  <2> QED
    BY <2>1, <2>2, <2>3
<1> QED
  BY <1>1, <1>2, StoredUnchanged, DatabaseStep DEF InterfaceInv

LEMMA FreshStep ==
  ASSUME InterfaceInv, DistinctRequests, TakenInv', NEW e \in Executors, Executor(e)
  PROVE  FreshInv'
<1>1. CASE Receive(e)
  <2>1. Stored' = Stored /\ taken \subseteq taken'
    BY <1>1, StoredUnchanged DEF Receive, database
  <2>2. \A x \in Executors : Busy(x)' => req'[x] \notin Stored
    <3>1. /\ req'[e] \notin taken
          /\ \A x \in Executors : x # e => step'[x] = step[x] /\ req'[x] = req[x]
      BY <1>1, ExecutorStep DEF Receive, InterfaceInv, IInv, TypeOK
    <3>2. server = "up"
      BY <1>1 DEF Receive, At
    <3> QED
      BY <3>1, <3>2 DEF InterfaceInv, FreshInv, Busy
  <2> QED
    BY <2>1, <2>2 DEF InterfaceInv, FreshInv
<1>2. CASE Busy(e) /\ UNCHANGED <<taken, req>>
  <2>1. /\ server = "up"
        /\ \A x \in Executors : x # e => step'[x] = step[x]
    BY <1>2, ExecutorStep DEF InterfaceInv, IInv
  <2>2. /\ Stored' \subseteq Stored \cup {req[e]}
        /\ req[e] \in taken
        /\ \A x \in Executors : Busy(x) /\ x # e => req[x] # req[e]
    BY <1>2, StoredStep DEF InterfaceInv, TakenInv
  <2>3. Stored' # Stored => server' = "uncaught" \/ ~ Busy(e)'
    <3>1. CASE Registers(e)
      <4>1. e \in DOMAIN step
        BY DEF InterfaceInv, IInv, TypeOK
      <4> QED
        BY <3>1, <4>1 DEF Registers, Reply, GoTo, Busy
    <3>2. CASE CommitsVersion(e)
      <4>1. e \in DOMAIN step
        BY DEF InterfaceInv, IInv, TypeOK
      <4> QED
        BY <3>2, <4>1 DEF CommitsVersion, Commit, Reply, GoTo, Uncaught, Busy
    <3> QED
      BY <3>1, <3>2, DatabaseStep, StoredUnchanged DEF InterfaceInv
  <2>4. \A x \in Executors : server' = "up" /\ Busy(x)' => req[x] \notin Stored'
    <3> TAKE x \in Executors
    <3>1. CASE x = e
      BY <1>2, <2>1, <2>3, <3>1 DEF InterfaceInv, FreshInv
    <3>2. CASE x # e
      BY <2>1, <2>2, <3>2 DEF InterfaceInv, FreshInv, Busy
    <3> QED
      BY <3>1, <3>2
  <2> QED
    BY <1>2, <2>2, <2>4 DEF InterfaceInv, FreshInv
<1> QED
  BY <1>1, <1>2, ExecutorStep DEF InterfaceInv, IInv

LEMMA KnownStep ==
  ASSUME InterfaceInv, NEW e \in Executors, Executor(e)
  PROVE  KnownInv'
<1>1. \A a \in accounts' : \E r \in Requests : r.op = "register" /\ a = <<r.user, r.pass>>
  <2>1. CASE Registers(e)
    <3>1. req[e] \in Requests /\ req[e].op = "register"
      BY <2>1 DEF Registers, InsertUser, At, InterfaceInv, IInv, HandlerInv
    <3> QED
      BY <2>1, <3>1 DEF Registers, InterfaceInv, KnownInv
  <2>2. CASE accounts' = accounts
    BY <2>2 DEF InterfaceInv, KnownInv
  <2> QED
    BY <2>1, <2>2, DatabaseStep DEF InterfaceInv, CommitsVersion, Commit, database
<1>2. ASSUME NEW x \in Executors,
             \/ step'[x] = "commit" /\ req'[x].op \in {"login", "last"}
             \/ step'[x] \in {"bindLast", "last", "close"}
      PROVE  <<req'[x].user, req'[x].pass>> \in accounts'
  <2> USE DEF InterfaceInv
  <2>1. accounts \subseteq accounts'
    BY AccountsGrow
  <2>2. CASE x # e
    BY <1>2, <2>1, <2>2, ExecutorStep DEF IInv, KnownInv
  <2>3. CASE x = e
    <3>1. step \in [Executors -> Steps] /\ HandlerInv
      BY DEF IInv, TypeOK
    <3>2. req'[e] = req[e] /\ ~ Receive(e)
      <4>1. ~ Receive(e)
        BY <1>2, <2>3, <3>1 DEF Receive, GoTo
      <4> QED
        BY <4>1, ExecutorStep DEF IInv
    <3>3. CASE Commit(e)
      BY <1>2, <2>1, <2>3, <3>1, <3>2, <3>3
      DEF Commit, At, GoTo, UserChecked, Verified, Reply, Uncaught, HandlerInv, KnownInv
    <3>4. CASE VerifyCredential(e)
      BY <1>2, <2>1, <2>3, <3>1, <3>2, <3>4
      DEF VerifyCredential, At, GoTo, Throws, Reply, Matches
    <3>5. CASE BindLast(e) \/ SelectLast(e) \/ CloseReader(e)
      BY <1>2, <2>1, <2>3, <3>1, <3>2, <3>5
      DEF BindLast, SelectLast, CloseReader, At, GoTo, Throws, Reply, KnownInv
    <3>6. CASE BeginTransaction(e) \/ GetUserID(e) \/ BindSalt(e) \/ SelectSalt(e) \/ UnknownUser(e)
      BY <1>2, <2>3, <3>1, <3>2, <3>6
      DEF BeginTransaction, GetUserID, BindSalt, SelectSalt, UnknownUser, At, GoTo, Uncaught,
          Throws, Reply, HandlerInv
    <3>7. CASE InsertVersionRow(e) \/ InsertFileRow(e)
      BY <1>2, <2>3, <3>1, <3>2, <3>7
      DEF InsertVersionRow, InsertFileRow, Insert, NextRow, At, GoTo, Throws, Reply, HandlerInv
    <3>8. CASE BindName(e) \/ BindRest(e) \/ InsertUser(e)
      BY <1>2, <2>3, <3>1, <3>2, <3>8 DEF BindName, BindRest, InsertUser, At, GoTo, Throws, Reply
    <3> QED
      BY <3>2, <3>3, <3>4, <3>5, <3>6, <3>7, <3>8 DEF Executor
  <2> QED
    BY <2>2, <2>3
<1> QED
  BY <1>1, <1>2 DEF KnownInv

LEMMA CommittedNumbers ==
  ASSUME NEW r \in Requests, rows' = rows \cup RowsOf(r), NEW u
  PROVE  Committed(u)' = Committed(u) \cup (IF u = r.user THEN {r.ver} ELSE {})
<1>1. \A x \in RowsOf(r) : x[1] = r.user /\ x[2] = r.ver
  BY DEF RowsOf, VersionRow, FileRows
<1>2. VersionRow(r) \in RowsOf(r)
  BY DEF RowsOf
<1> QED
  BY <1>1, <1>2 DEF Committed

LEMMA NumberStep ==
  ASSUME InterfaceInv, NEW e \in Executors, Executor(e)
  PROVE  NumberInv'
<1>1. CASE rows' = rows
  BY <1>1 DEF InterfaceInv, NumberInv, Committed
<1>2. CASE CommitsVersion(e)
  <2>1. req[e] \in Requests /\ rows' = rows \cup RowsOf(req[e])
    BY <1>2, CommittedRows DEF CommitsVersion, InterfaceInv, IInv
  <2>2. PICK r \in Requests : r = req[e]
    BY <2>1
  <2>3. ASSUME NEW u
        PROVE  /\ Committed(u)' \subseteq Nat
               /\ \E n \in {0} \cup Committed(u)' : \A m \in Committed(u)' : m <= n
    <3>1. Committed(u)' = Committed(u) \cup (IF u = r.user THEN {r.ver} ELSE {})
      BY <2>1, <2>2, CommittedNumbers
    <3>2. Committed(u) \subseteq Nat /\ r.ver \in Nat
      BY RequestsAssumption DEF InterfaceInv, NumberInv
    <3>3. PICK n \in {0} \cup Committed(u) : \A m \in Committed(u) : m <= n
      BY DEF InterfaceInv, NumberInv
    <3>4. CASE u = r.user /\ r.ver > n
      BY <3>1, <3>2, <3>3, <3>4
    <3>5. CASE u # r.user \/ r.ver <= n
      BY <3>1, <3>2, <3>3, <3>5
    <3> QED
      BY <3>1, <3>2, <3>3, <3>4, <3>5
  <2> QED
    BY <2>3 DEF NumberInv
<1> QED
  BY <1>1, <1>2, DatabaseStep DEF InterfaceInv, Registers, InsertUser, database

LEMMA ReaderStep ==
  ASSUME InterfaceInv, NEW e \in Executors, Executor(e)
  PROVE  ReaderInv'
<1>1. /\ TypeOK /\ HandlerInv /\ TransactionInv /\ ReaderInv
      /\ step \in [Executors -> Steps]
      /\ \A x \in Executors : x # e => step'[x] = step[x] /\ req'[x] = req[x]
  BY ExecutorStep DEF InterfaceInv, IInv, TypeOK
<1>2. rows' = rows => \A u : LastVersion(u)' = LastVersion(u)
  BY DEF LastVersion, Committed
<1>3. CASE SelectLast(e)
  <2>1. rows' = rows /\ req' = req /\ step[e] = "last"
    BY <1>3 DEF SelectLast, At, database
  <2>2. CASE /\ CanSelectLast
             /\ found' = [found EXCEPT ![e] = LastVersion(Value("SelectLast", "username"))]
             /\ reader' = e
    <3>1. Value("SelectLast", "username") = req[e].user
      BY <2>1, <2>2, QueryReadsOwnName DEF InterfaceInv
    <3>2. \A x \in Executors : x # e => step[x] # "close"
      BY <1>1, <2>2, NobodyAssumption DEF CanSelectLast, ReaderInv
    <3>3. DOMAIN found = Executors
      BY <1>1 DEF ReaderInv
    <3> QED
      BY <1>1, <1>2, <2>1, <2>2, <3>1, <3>2, <3>3 DEF ReaderInv
  <2>3. CASE Throws(e) /\ UNCHANGED <<reader, found>>
    BY <1>1, <1>2, <2>1, <2>3 DEF ReaderInv, Throws, Reply, GoTo
  <2> QED
    BY <1>3, <2>2, <2>3 DEF SelectLast
<1>4. CASE CloseReader(e)
  BY <1>1, <1>4 DEF ReaderInv, CloseReader, At, Reply, GoTo, locals
<1>5. CASE Commit(e)
  <2>1. owner = e /\ \A x \in Executors : step[x] # "close"
    BY <1>1, <1>5, NobodyAssumption DEF Commit, At, TransactionInv, InTransaction, ReaderInv, TypeOK
  <2>2. step'[e] # "close"
    BY <1>1, <1>5 DEF Commit, At, UserChecked, Verified, Reply, GoTo, Uncaught
  <2> QED
    BY <1>1, <1>5, <2>1, <2>2 DEF ReaderInv, Commit, locals
<1>6. CASE UNCHANGED <<reader, found, rows>> /\ step'[e] # "close"
  BY <1>1, <1>2, <1>6 DEF ReaderInv
<1>7. CASE \/ Receive(e) \/ BeginTransaction(e) \/ GetUserID(e)
           \/ BindSalt(e) \/ SelectSalt(e) \/ UnknownUser(e) \/ VerifyCredential(e)
           \/ InsertVersionRow(e) \/ InsertFileRow(e)
           \/ BindName(e) \/ BindRest(e) \/ InsertUser(e) \/ BindLast(e)
  <2>1. UNCHANGED <<reader, found, rows>>
    BY <1>7 DEF database, locals, Receive, BeginTransaction, GetUserID, BindSalt, SelectSalt, UnknownUser, VerifyCredential, InsertVersionRow, InsertFileRow, BindName, BindRest, InsertUser, BindLast
  <2>2. step'[e] # "close"
    BY <1>1, <1>7
    DEF At, GoTo, Uncaught, Reply, Throws, Receive, BeginTransaction, GetUserID, BindSalt,
        SelectSalt, UnknownUser, VerifyCredential, InsertVersionRow, InsertFileRow, Insert,
        NextRow, BindName, BindRest, InsertUser, BindLast
  <2> QED
    BY <2>1, <2>2, <1>6
<1> QED
  BY <1>3, <1>4, <1>5, <1>7 DEF Executor

LEMMA InterfaceInvStep ==
  ASSUME OneAtATime, DistinctRequests, InterfaceInv, [Next]_vars
  PROVE  InterfaceInv'
<1>1. ASSUME NEW e \in Executors, Executor(e)
      PROVE  InterfaceInv'
  BY <1>1, IInvStep, TakenStep, FreshStep, KnownStep, ParamsStep, NumberStep, ReaderStep
  DEF InterfaceInv, IInv, Next
<1>2. CASE Restart
  <2> USE DEF InterfaceInv
  <2>1. IInv'
    BY <1>2, IInvRestart
  <2>2. UNCHANGED <<taken, req, found, rows, accounts, replies>> /\ \A e \in Executors : step'[e] = "idle"
    BY <1>2 DEF Restart, locals, database
  <2>3. Stored' = Stored
    BY <2>2, StoredUnchanged DEF database
  <2>4. TakenInv' /\ FreshInv' /\ KnownInv' /\ ReaderInv'
    BY <2>2, <2>3 DEF TakenInv, FreshInv, KnownInv, ReaderInv, Busy, Answered
  <2>5. ParamsInv'
    BY <1>2, <2>2 DEF Restart, ParamsInv
  <2>6. NumberInv'
    BY <2>2 DEF NumberInv, Committed
  <2> QED
    BY <2>1, <2>4, <2>5, <2>6
<1>3. CASE UNCHANGED vars
  <2> USE DEF InterfaceInv, vars
  <2>1. IInv'
    BY <1>3, IInvStep
  <2>2. Stored' = Stored
    BY <1>3, StoredUnchanged DEF database
  <2>3. TakenInv' /\ FreshInv' /\ KnownInv'
    BY <1>3, <2>2 DEF TakenInv, FreshInv, KnownInv, Busy, Answered
  <2>4. ParamsInv'
    BY <1>3 DEF ParamsInv, NameBound, PasswordBound
  <2>5. NumberInv'
    BY <1>3 DEF NumberInv, Committed
  <2>6. ReaderInv'
    <3>1. \A u : LastVersion(u)' = LastVersion(u)
      BY <1>3 DEF LastVersion, Committed
    <3> QED
      BY <1>3, <3>1 DEF ReaderInv
  <2> QED
    BY <2>1, <2>3, <2>4, <2>5, <2>6
<1> QED
  BY <1>1, <1>2, <1>3 DEF Next

LEMMA InterfaceInvInit == Init => InterfaceInv
<1> SUFFICES ASSUME Init PROVE InterfaceInv
  OBVIOUS
<1>1. IInv
  BY IInvInit
<1>2. Stored = {}
  BY DEF Init, Stored, OfVersion, RowsOf, VersionRow
<1>3. TakenInv /\ FreshInv /\ KnownInv /\ ReaderInv
  BY <1>2 DEF Init, TakenInv, FreshInv, KnownInv, ReaderInv, Busy, Answered
<1>4. ParamsInv /\ NumberInv
  BY DEF Init, ParamsInv, NumberInv, Committed
<1> QED
  BY <1>1, <1>3, <1>4 DEF InterfaceInv

------------------------------------------------------------------------------
(* Every step is one of DBManagerInterface, or a stutter.                  *)

\* The versions the interface counts are those in the tables.
LEMMA SameVersions ==
  ASSUME CommitIsWhole, NEW u
  PROVE  Interface!Versions(u) = {0} \cup Committed(u)
<1>1. ASSUME NEW s \in Stored, s.op = "commit"
      PROVE  s.ver \in Committed(s.user)
  <2>1. VersionRow(s) \in rows
    BY <1>1 DEF Stored, OfVersion, RowsOf
  <2> QED
    BY <2>1 DEF VersionRow, Committed
<1>2. ASSUME NEW x \in rows, x[1] = u
      PROVE  \E s \in Stored : s.op = "commit" /\ s.user = u /\ s.ver = x[2]
  <2>1. PICK s \in Requests : s.op = "commit" /\ OfVersion(x) = RowsOf(s)
    BY DEF CommitIsWhole
  <2>2. VersionRow(s) \in OfVersion(x) /\ s.user = x[1] /\ s.ver = x[2]
    BY <2>1 DEF RowsOf, OfVersion, VersionRow
  <2>3. OfVersion(VersionRow(s)) = OfVersion(x)
    BY <2>2 DEF OfVersion, VersionRow
  <2> QED
    BY <1>2, <2>1, <2>2, <2>3 DEF Stored
<1>3. Committed(u) \subseteq Interface!Versions(u)
  BY <1>2 DEF Committed, Interface!Versions
<1>4. Interface!Versions(u) \subseteq {0} \cup Committed(u)
  BY <1>1 DEF Interface!Versions
<1> QED
  BY <1>3, <1>4 DEF Interface!Versions

LEMMA SameLastVersion ==
  ASSUME CommitIsWhole, NumberInv, NEW u
  PROVE  /\ LastVersion(u) = Interface!LastVersion(u)
         /\ LastVersion(u) \in {0} \cup {s.ver : s \in Requests}
<1> DEFINE C == Committed(u)
<1>1. Interface!Versions(u) = {0} \cup C
  BY SameVersions
<1>2. C \subseteq Nat /\ \E n \in {0} \cup C : \A m \in C : m <= n
  BY DEF NumberInv
<1> HIDE DEF C
<1>3. PICK n \in {0} \cup C : \A m \in C : m <= n
  BY <1>2
<1>4. (CHOOSE k \in {0} \cup C : \A m \in C : m <= k) = n
  <2> DEFINE k == CHOOSE k \in {0} \cup C : \A m \in C : m <= k
  <2>1. k \in {0} \cup C /\ \A m \in C : m <= k
    BY <1>3
  <2> HIDE DEF k
  <2>2. k = n
    BY <1>2, <1>3, <2>1
  <2> QED
    BY <2>2 DEF k
<1>5. (CHOOSE k \in {0} \cup C : \A m \in {0} \cup C : m <= k) = n
  <2> DEFINE k == CHOOSE k \in {0} \cup C : \A m \in {0} \cup C : m <= k
  <2>1. \A m \in {0} \cup C : m <= n
    BY <1>2, <1>3
  <2>2. k \in {0} \cup C /\ \A m \in {0} \cup C : m <= k
    BY <1>3, <2>1
  <2> HIDE DEF k
  <2>3. k = n
    BY <1>2, <1>3, <2>2
  <2> QED
    BY <2>3 DEF k
<1>6. n \in {0} \cup {s.ver : s \in Requests}
  BY <1>1 DEF Interface!Versions, Stored
<1> QED
  BY <1>1, <1>4, <1>5, <1>6 DEF LastVersion, Interface!LastVersion, C

\* What an executor answers, and what it has stored by then.
LEMMA AnswerStep ==
  ASSUME InterfaceInv, NEW e \in Executors, Executor(e)
  PROVE  \/ Registers(e)
         \/ CommitsVersion(e) /\ (Reply(e, TRUE, 0) \/ UNCHANGED replies)
         \/ /\ UNCHANGED database
            /\ \/ UNCHANGED replies
               \/ Reply(e, FALSE, 0)
               \/ step[e] = "commit" /\ req[e].op = "login" /\ Reply(e, TRUE, 0)
               \/ CloseReader(e)
<1>1. UNCHANGED database \/ CommitsVersion(e) \/ Registers(e)
  BY DatabaseStep DEF InterfaceInv
<1>2. CASE CommitsVersion(e)
  BY <1>2 DEF CommitsVersion, Commit, Uncaught
<1>3. CASE InsertUser(e) /\ UNCHANGED database
  <2>1. CASE Throws(e)
    BY <1>3, <2>1 DEF Throws
  <2>2. CASE accounts' = accounts \cup {<<Value("InsertUser", "username"), Value("InsertUser", "password")>>}
             /\ CanInsertUser
    <3> DEFINE name == Value("InsertUser", "username")
               password == Value("InsertUser", "password")
    <3>1. accounts = accounts \cup {<<name, password>>} /\ ~ Registered(name)
      BY <1>3, <2>2 DEF CanInsertUser, database
    <3> HIDE DEF name, password
    <3>2. <<name, password>> \in accounts /\ <<name, password>>[1] = name
      BY <3>1
    <3> QED
      BY <3>1, <3>2 DEF Registered
  <2> QED
    BY <1>3, <2>1, <2>2 DEF InsertUser
<1>4. CASE Commit(e) /\ UNCHANGED database /\ ~ CommitsVersion(e)
  <2>1. req[e].op # "commit" \/ UNCHANGED replies
    BY <1>4 DEF Commit, CommitsVersion, Uncaught
  <2> QED
    BY <1>4, <2>1 DEF Commit, At, UserChecked, Verified, Uncaught
<1>5. CASE ~ InsertUser(e) /\ ~ Commit(e) /\ ~ CloseReader(e) /\ UNCHANGED database
  BY <1>5 DEF Executor, Uncaught, Throws, Receive, BeginTransaction, GetUserID, BindSalt, SelectSalt, UnknownUser, VerifyCredential, InsertVersionRow, InsertFileRow, Insert, BindName, BindRest, BindLast, SelectLast
<1> QED
  BY <1>1, <1>2, <1>3, <1>4, <1>5

LEMMA StoreImplemented ==
  ASSUME InterfaceInv, DistinctRequests, NEW e \in Executors, Executor(e),
         Registers(e) \/ (CommitsVersion(e) /\ (Reply(e, TRUE, 0) \/ UNCHANGED replies))
  PROVE  req[e] \in Requests /\ Interface!Store(req[e])
<1>1. /\ Busy(e) /\ req[e] \in Requests /\ req[e].op \in {"register", "commit"}
      /\ Stored' = Stored \cup {req[e]}
  BY StoredStep
<1>2. ~ Answered(req[e])
  BY <1>1 DEF InterfaceInv, TakenInv
<1>3. \A s \in Stored : ~ Interface!SameKey(req[e], s)
  <2>1. SUFFICES ASSUME NEW s \in Stored, s.op = req[e].op, s.user = req[e].user, s.ver = req[e].ver
                 PROVE  FALSE
    BY DEF Interface!SameKey
  <2>2. CASE Registers(e)
    <3>1. req[e].op = "register" /\ ~ Registered(req[e].user)
      BY <2>2, StoredStep DEF Registers
    <3> QED
      BY <2>1, <3>1 DEF Stored, Registered
  <2>3. CASE CommitsVersion(e)
    <3>1. req[e].op = "commit" /\ VersionRow(req[e]) \notin rows
      BY <2>3, CommittedRows DEF CommitsVersion, InterfaceInv, IInv
    <3>2. VersionRow(s) \in rows
      BY <2>1, <3>1 DEF Stored, OfVersion, RowsOf
    <3> QED
      BY <2>1, <3>1, <3>2 DEF VersionRow
  <2> QED
    BY <2>2, <2>3
<1>4. Interface!Reply(req[e], TRUE, 0) \/ UNCHANGED replies
  BY DEF Registers, Reply, Interface!Reply
<1> QED
  BY <1>1, <1>2, <1>3, <1>4 DEF Interface!Store, Interface!Answered, Answered

LEMMA AnswerImplemented ==
  ASSUME InterfaceInv, NEW e \in Executors, Executor(e), UNCHANGED database, ~ UNCHANGED replies,
         \/ Reply(e, FALSE, 0)
         \/ step[e] = "commit" /\ req[e].op = "login" /\ Reply(e, TRUE, 0)
         \/ CloseReader(e)
  PROVE  \E r \in Requests :
           \/ Interface!Refuse(r)
           \/ \E last \in {0} \cup {s.ver : s \in Requests} : Interface!Read(r, last)
<1>1. /\ server = "up" /\ Busy(e) /\ req[e] \in Requests
      /\ ~ Answered(req[e]) /\ req[e] \notin Stored /\ Stored' = Stored
  <2>1. server = "up" /\ Busy(e)
    BY ExecutorStep DEF InterfaceInv, IInv, Receive
  <2> QED
    BY <2>1, StoredUnchanged DEF InterfaceInv, IInv, HandlerInv, TakenInv, FreshInv, Busy
<1>2. CASE Reply(e, FALSE, 0)
  BY <1>1, <1>2 DEF Reply, Answered, Interface!Refuse, Interface!Reply, Interface!Answered
<1>3. ASSUME <<req[e].user, req[e].pass>> \in accounts
      PROVE  Interface!Knows(req[e])
  <2>1. PICK r \in Requests : r.op = "register" /\ <<req[e].user, req[e].pass>> = <<r.user, r.pass>>
    BY <1>3 DEF InterfaceInv, KnownInv
  <2>2. r \in Stored /\ r.user = req[e].user /\ r.pass = req[e].pass
    BY <1>3, <2>1 DEF Stored
  <2> QED
    BY <2>1, <2>2 DEF Interface!Knows
<1>4. CASE step[e] = "commit" /\ req[e].op = "login" /\ Reply(e, TRUE, 0)
  <2>1. Interface!Knows(req[e])
    BY <1>3, <1>4 DEF InterfaceInv, KnownInv
  <2>2. Interface!Read(req[e], 0)
    BY <1>1, <1>4, <2>1 DEF Reply, Answered, Interface!Read, Interface!Reply, Interface!Answered
  <2> QED
    BY <1>1, <2>2
<1>5. CASE CloseReader(e)
  <2>1. step[e] = "close" /\ req[e].op = "last" /\ Reply(e, TRUE, found[e])
    BY <1>5 DEF CloseReader, At, InterfaceInv, IInv, HandlerInv
  <2>2. Interface!Knows(req[e])
    BY <1>3, <2>1 DEF InterfaceInv, KnownInv
  <2>3. /\ found[e] = Interface!LastVersion(req[e].user)
        /\ found[e] \in {0} \cup {s.ver : s \in Requests}
    BY <2>1, SameLastVersion DEF InterfaceInv, IInv, ReaderInv
  <2>4. Interface!Read(req[e], found[e])
    BY <1>1, <2>1, <2>2, <2>3 DEF Reply, Answered, Interface!Read, Interface!Reply, Interface!Answered
  <2> QED
    BY <1>1, <2>3, <2>4
<1> QED
  BY <1>2, <1>4, <1>5

LEMMA InterfaceStep ==
  ASSUME InterfaceInv, DistinctRequests, [Next]_vars
  PROVE  [Interface!Next]_<<Stored, replies>>
<1>1. ASSUME NEW e \in Executors, Executor(e)
      PROVE  [Interface!Next]_<<Stored, replies>>
  <2>1. CASE Registers(e) \/ (CommitsVersion(e) /\ (Reply(e, TRUE, 0) \/ UNCHANGED replies))
    BY <1>1, <2>1, StoreImplemented DEF Interface!Next
  <2>2. CASE UNCHANGED database /\ UNCHANGED replies
    BY <2>2, StoredUnchanged
  <2>3. CASE /\ UNCHANGED database /\ ~ UNCHANGED replies
             /\ \/ Reply(e, FALSE, 0)
                \/ step[e] = "commit" /\ req[e].op = "login" /\ Reply(e, TRUE, 0)
                \/ CloseReader(e)
    BY <1>1, <2>3, AnswerImplemented DEF Interface!Next
  <2> QED
    BY <1>1, <2>1, <2>2, <2>3, AnswerStep
<1>2. CASE Restart \/ UNCHANGED vars
  BY <1>2, StoredUnchanged DEF Restart, database, vars
<1> QED
  BY <1>1, <1>2 DEF Next

\* To the handlers the shared connection is the database IDBManagerInterface
\* promises: what is asked for is stored whole, once and before it is confirmed,
\* a refusal leaves nothing behind, and the last version is the last one at the
\* answer -- as long as one executor at a time registers a user or asks for the
\* last version (TDBManagerMSDE).
THEOREM RefinesInterface == OneAtATime /\ DistinctRequests => (Spec => ImplementsInterface)
<1> SUFFICES ASSUME OneAtATime, DistinctRequests PROVE Spec => ImplementsInterface
  OBVIOUS
<1>1. InterfaceInv /\ [Next]_vars => InterfaceInv'
  BY InterfaceInvStep
<1>2. InterfaceInv /\ [Next]_vars => [Interface!Next]_<<Stored, replies>>
  BY InterfaceStep
<1>3. Init => Interface!Init
  <2> SUFFICES ASSUME Init PROVE Interface!Init
    OBVIOUS
  <2>1. Stored = {}
    BY DEF Init, Stored, OfVersion, RowsOf, VersionRow
  <2> QED
    BY <2>1 DEF Init, Interface!Init
<1> QED
  BY <1>1, <1>2, <1>3, InterfaceInvInit, PTL DEF Spec, ImplementsInterface, Interface!Spec

==============================================================================
